---------------------------- MODULE DequeProofs -----------------------------
(***************************************************************************)
(* What the operations of Deque do to the elements of a ring of any        *)
(* capacity, full or not, wrapped around the end of its array or not.      *)
(***************************************************************************)
EXTENDS Deque, TLAPS

\* The rings whose array has n cells, each with a member of S or without an element.
RingsOf(n, S) == [data : [0 .. n - 1 -> S \cup {Garbage}], cap : {n},
                  front : 0 .. n - 1, back : 0 .. n - 1]

IsRing(d, S) == d.cap \in Nat \ {0} /\ d \in RingsOf(d.cap, S)

\* The cell of the element that n elements are in front of.
Place(d, n) == (d.front + n) % d.cap

\* d's elements are s.
Holds(d, s, S) == /\ IsRing(d, S)
                  /\ s \in Seq(S) /\ Len(s) = length(d)
                  /\ \A n \in 1 .. Len(s) : d.data[Place(d, n - 1)] = s[n]

LEMMA Around ==
  ASSUME NEW c \in Nat \ {0}, NEW x \in 0 .. 2 * c - 1
  PROVE  x % c = IF x < c THEN x ELSE x - c
OBVIOUS

LEMMA Ends ==
  ASSUME NEW S, NEW d, IsRing(d, S)
  PROVE  /\ length(d) = IF d.back >= d.front THEN d.back - d.front ELSE d.back - d.front + d.cap
         /\ length(d) \in 0 .. d.cap - 1
         /\ is_empty(d) <=> length(d) = 0
         /\ is_full(d) <=> length(d) = d.cap - 1
<1>1. d.cap \in Nat \ {0} /\ d.front \in 0 .. d.cap - 1 /\ d.back \in 0 .. d.cap - 1
  BY DEF IsRing, RingsOf
<1>2. length(d) = IF d.back >= d.front THEN d.back - d.front ELSE d.back - d.front + d.cap
  <2> DEFINE x == d.back - d.front + d.cap
  <2>1. x \in 0 .. 2 * d.cap - 1
    BY <1>1
  <2>2. x % d.cap = IF x < d.cap THEN x ELSE x - d.cap
    BY <1>1, <2>1, Around
  <2> QED BY <1>1, <2>2 DEF length
<1>3. (d.back + 1) % d.cap = IF d.back + 1 < d.cap THEN d.back + 1 ELSE 0
  <2> DEFINE x == d.back + 1
  <2>1. x \in 0 .. 2 * d.cap - 1
    BY <1>1
  <2>2. x % d.cap = IF x < d.cap THEN x ELSE x - d.cap
    BY <1>1, <2>1, Around
  <2> QED BY <1>1, <2>2
<1>4. is_empty(d) <=> length(d) = 0
  BY <1>1, <1>2 DEF is_empty
<1>5. is_full(d) <=> length(d) = d.cap - 1
  <2>1. is_full(d) <=> d.front = IF d.back + 1 < d.cap THEN d.back + 1 ELSE 0
    BY <1>3 DEF is_full
  <2> HIDE DEF length
  <2> QED BY <1>1, <1>2, <2>1
<1> QED BY <1>1, <1>2, <1>4, <1>5

\* The cells of different places differ, and the places go round the array.
LEMMA Places ==
  ASSUME NEW S, NEW d, IsRing(d, S)
  PROVE  /\ \A n \in 0 .. d.cap - 1 :
              /\ Place(d, n) = IF d.front + n < d.cap THEN d.front + n ELSE d.front + n - d.cap
              /\ Place(d, n) \in 0 .. d.cap - 1
         /\ \A m, n \in 0 .. d.cap - 1 : m # n => Place(d, m) # Place(d, n)
         /\ Place(d, 0) = d.front
         /\ Place(d, length(d)) = d.back
         /\ length(d) > 0 => last_cell(d) = Place(d, length(d) - 1)
<1>1. d.cap \in Nat \ {0} /\ d.front \in 0 .. d.cap - 1 /\ d.back \in 0 .. d.cap - 1
  BY DEF IsRing, RingsOf
<1>2. ASSUME NEW n \in 0 .. d.cap - 1
      PROVE  Place(d, n) = IF d.front + n < d.cap THEN d.front + n ELSE d.front + n - d.cap
  <2> DEFINE x == d.front + n
  <2>1. x \in 0 .. 2 * d.cap - 1
    BY <1>1
  <2>2. x % d.cap = IF x < d.cap THEN x ELSE x - d.cap
    BY <1>1, <2>1, Around
  <2>3. Place(d, n) = x % d.cap
    BY DEF Place
  <2> QED BY <1>1, <2>2, <2>3
<1>3. ASSUME NEW m \in 0 .. d.cap - 1, NEW n \in 0 .. d.cap - 1, m # n
      PROVE  Place(d, m) # Place(d, n)
  BY <1>1, <1>2, <1>3
<1>4. length(d) \in 0 .. d.cap - 1
  BY Ends
<1>5. Place(d, length(d)) = d.back
  BY <1>1, <1>2, <1>4, Ends
<1>6. Place(d, 0) = d.front
  BY <1>1, <1>2
<1>7. ASSUME length(d) > 0
      PROVE  last_cell(d) = Place(d, length(d) - 1)
  <2> DEFINE x == d.back + d.cap - 1
  <2>1. x \in 0 .. 2 * d.cap - 1
    BY <1>1
  <2>2. x % d.cap = IF x < d.cap THEN x ELSE x - d.cap
    BY <1>1, <2>1, Around
  <2>3. length(d) - 1 \in 0 .. d.cap - 1
    BY <1>1, <1>4, <1>7
  <2>4. Place(d, length(d) - 1) = IF d.front + (length(d) - 1) < d.cap
                                  THEN d.front + (length(d) - 1)
                                  ELSE d.front + (length(d) - 1) - d.cap
    BY <1>2, <2>3
  <2>5. length(d) = IF d.back >= d.front THEN d.back - d.front ELSE d.back - d.front + d.cap
    BY Ends
  <2> QED BY <1>1, <1>4, <1>7, <2>2, <2>4, <2>5 DEF last_cell
<1> QED BY <1>1, <1>2, <1>3, <1>5, <1>6, <1>7

LEMMA NewRing ==
  ASSUME NEW S, NEW n \in Nat
  PROVE  Holds(new(n), <<>>, S)
<1> DEFINE c == IF n > 0 THEN n ELSE 1
           d == new(n)
<1>1. d = [data |-> Cells(c), cap |-> c, front |-> 0, back |-> 0]
  BY DEF new
<1>2. c \in Nat \ {0} /\ Cells(c) \in [0 .. c - 1 -> S \cup {Garbage}]
  BY DEF Cells
<1>3. IsRing(d, S)
  <2> HIDE DEF c
  <2> QED BY <1>1, <1>2 DEF IsRing, RingsOf
<1>4. length(d) = 0
  <2>1. d.front = 0 /\ d.back = 0
    BY <1>1
  <2> QED BY <1>3, <2>1, Ends
<1> QED BY <1>3, <1>4 DEF Holds

\* A full ring moves to an array of twice the size, with its elements.
LEMMA OnPush ==
  ASSUME NEW S, NEW d, NEW s, Holds(d, s, S)
  PROVE  /\ Holds(on_push(d), s, S)
         /\ Len(s) < on_push(d).cap - 1
         /\ on_push(d).cap = IF is_full(d) THEN 2 * d.cap ELSE d.cap
<1> DEFINE p == on_push(d)
<1>1. /\ IsRing(d, S) /\ d.cap \in Nat \ {0} /\ d.data \in [0 .. d.cap - 1 -> S \cup {Garbage}]
      /\ s \in Seq(S) /\ Len(s) = length(d)
  BY DEF Holds, IsRing, RingsOf
<1>2. CASE ~is_full(d)
  <2>1. p = d
    BY <1>2 DEF on_push
  <2>2. Len(s) \in 0 .. d.cap - 1 /\ Len(s) # d.cap - 1
    BY <1>1, <1>2, Ends
  <2> QED BY <1>1, <1>2, <2>1, <2>2
<1>3. CASE is_full(d)
  <2> DEFINE cells == [c \in 0 .. 2 * d.cap - 1 |->
                         IF c < d.cap - 1 THEN d.data[(d.front + c) % d.cap] ELSE Garbage]
             n == 2 * d.cap
  <2>1. p = [data |-> cells, cap |-> n, front |-> 0, back |-> d.cap - 1]
    BY <1>3 DEF on_push
  <2>2. ASSUME NEW c \in 0 .. d.cap - 2
        PROVE  cells[c] = d.data[Place(d, c)] /\ d.data[Place(d, c)] \in S \cup {Garbage}
    <3>1. Place(d, c) \in 0 .. d.cap - 1
      BY <1>1, Places
    <3>2. c \in 0 .. 2 * d.cap - 1 /\ c < d.cap - 1
      BY <1>1
    <3> QED BY <1>1, <3>1, <3>2 DEF Place
  <2>3. cells \in [0 .. n - 1 -> S \cup {Garbage}]
    <3>1. ASSUME NEW c \in 0 .. n - 1
          PROVE  cells[c] \in S \cup {Garbage}
      <4>1. CASE c < d.cap - 1
        <5>1. c \in 0 .. d.cap - 2
          BY <1>1, <4>1
        <5> QED BY <2>2, <5>1
      <4>2. CASE ~(c < d.cap - 1)
        BY <4>2
      <4> QED BY <4>1, <4>2
    <3> QED BY <3>1
  <2>4. n \in Nat \ {0} /\ n > d.cap
    BY <1>1
  <2> HIDE DEF cells, n
  <2>5. IsRing(p, S)
    BY <1>1, <2>1, <2>3, <2>4 DEF IsRing, RingsOf
  <2>6. length(p) = d.cap - 1
    <3>1. p.front = 0 /\ p.back = d.cap - 1
      BY <2>1
    <3> QED BY <1>1, <2>5, <3>1, Ends
  <2>7. length(d) = d.cap - 1
    BY <1>1, <1>3, Ends
  <2>8. ASSUME NEW m \in 1 .. Len(s)
        PROVE  p.data[Place(p, m - 1)] = s[m]
    <3>1. m - 1 \in 0 .. d.cap - 2 /\ m - 1 \in 0 .. p.cap - 1
      BY <1>1, <2>1, <2>4, <2>7
    <3>2. Place(p, m - 1) = IF p.front + (m - 1) < p.cap THEN p.front + (m - 1)
                            ELSE p.front + (m - 1) - p.cap
      BY <2>5, <3>1, Places
    <3>3. Place(p, m - 1) = m - 1
      <4>1. p.front = 0 /\ p.cap \in Nat
        BY <2>1, <2>4
      <4> QED BY <3>1, <3>2, <4>1
    <3>4. d.data[Place(d, m - 1)] = s[m]
      BY DEF Holds
    <3> QED BY <2>1, <2>2, <3>1, <3>3, <3>4
  <2>9. Holds(p, s, S)
    BY <1>1, <2>5, <2>6, <2>7, <2>8 DEF Holds
  <2>10. p.cap = 2 * d.cap
    BY <2>1 DEF n
  <2> QED BY <1>1, <1>3, <2>7, <2>9, <2>10
<1> QED BY <1>2, <1>3

LEMMA PushBack ==
  ASSUME NEW S, NEW d, NEW s, Holds(d, s, S), NEW e \in S
  PROVE  /\ Holds(push_back(d, e), Append(s, e), S)
         /\ push_back(d, e).cap = on_push(d).cap
         /\ push_back(d, e).front = on_push(d).front
<1> DEFINE p == on_push(d)
           q == push_back(d, e)
           t == Append(s, e)
<1>1. Holds(p, s, S) /\ Len(s) < p.cap - 1
  BY OnPush
<1> HIDE DEF p
<1>2. q = [p EXCEPT !.data[p.back] = e, !.back = (p.back + 1) % p.cap]
  BY DEF push_back, p
<1>3. /\ IsRing(p, S) /\ p.cap \in Nat \ {0} /\ p \in RingsOf(p.cap, S)
      /\ p.front \in 0 .. p.cap - 1 /\ p.back \in 0 .. p.cap - 1
      /\ p.data \in [0 .. p.cap - 1 -> S \cup {Garbage}]
      /\ s \in Seq(S) /\ Len(s) = length(p)
  BY <1>1 DEF Holds, IsRing, RingsOf
<1> HIDE DEF q
<1> DEFINE b == (p.back + 1) % p.cap
<1>4. b = IF p.back + 1 < p.cap THEN p.back + 1 ELSE p.back + 1 - p.cap
  <2> DEFINE x == p.back + 1
  <2>1. x \in 0 .. 2 * p.cap - 1
    BY <1>3
  <2>2. x % p.cap = IF x < p.cap THEN x ELSE x - p.cap
    BY <1>3, <2>1, Around
  <2> QED BY <1>3, <2>2
<1>5. b \in 0 .. p.cap - 1
  BY <1>3, <1>4
<1>6. /\ q.data = [p.data EXCEPT ![p.back] = e] /\ q.back = b
      /\ q.cap = p.cap /\ q.front = p.front /\ q \in RingsOf(q.cap, S)
  <2> HIDE DEF b
  <2>1. q = [p EXCEPT !.data[p.back] = e, !.back = b]
    BY <1>2 DEF b
  <2> QED BY <1>3, <1>5, <2>1 DEF RingsOf
<1>7. IsRing(q, S)
  BY <1>3, <1>6 DEF IsRing
<1>8. length(q) = length(p) + 1
  <2> HIDE DEF b
  <2>1. length(p) = IF p.back >= p.front THEN p.back - p.front ELSE p.back - p.front + p.cap
    BY <1>3, Ends
  <2>2. length(q) = IF q.back >= q.front THEN q.back - q.front ELSE q.back - q.front + q.cap
    BY <1>7, Ends
  <2>3. length(p) < p.cap - 1
    BY <1>1, <1>3
  <2>4. q.back = b /\ q.front = p.front /\ q.cap = p.cap
    BY <1>6
  <2>5. p.cap \in Nat \ {0} /\ p.front \in 0 .. p.cap - 1 /\ p.back \in 0 .. p.cap - 1
    BY <1>3
  <2> QED BY <1>4, <2>1, <2>2, <2>3, <2>4, <2>5
<1>9. t \in Seq(S) /\ Len(t) = length(q)
  BY <1>3, <1>8
<1>10. ASSUME NEW n \in 1 .. Len(t)
       PROVE  q.data[Place(q, n - 1)] = t[n]
  <2>1. Place(q, n - 1) = Place(p, n - 1)
    BY <1>6 DEF Place
  <2>2. n - 1 \in 0 .. p.cap - 1 /\ Len(s) \in 0 .. p.cap - 1
    BY <1>1, <1>3, <1>8, <1>9
  <2>3. Place(p, Len(s)) = p.back
    BY <1>3, Places
  <2>4. Place(p, n - 1) \in 0 .. p.cap - 1
    BY <1>3, <2>2, Places
  <2>5. CASE n = Len(s) + 1
    <3>1. Place(p, n - 1) = p.back
      BY <1>3, <2>3, <2>5
    <3> QED BY <1>3, <1>6, <2>1, <2>5, <3>1
  <2>6. CASE n \in 1 .. Len(s)
    <3>1. n - 1 # Len(s)
      BY <1>3, <2>6
    <3>2. Place(p, n - 1) # p.back
      BY <1>3, <2>2, <2>3, <3>1, Places
    <3>3. p.data[Place(p, n - 1)] = s[n]
      BY <1>1, <2>6 DEF Holds
    <3> QED BY <1>3, <1>6, <2>1, <2>4, <2>6, <3>2, <3>3
  <2> QED BY <1>3, <1>8, <1>9, <2>5, <2>6
<1>11. Holds(q, t, S)
  BY <1>7, <1>9, <1>10 DEF Holds
<1> QED BY <1>6, <1>11 DEF p, q

LEMMA Fields ==
  ASSUME NEW S, NEW d, NEW s, Holds(d, s, S)
  PROVE  /\ IsRing(d, S) /\ d.cap \in Nat \ {0} /\ d \in RingsOf(d.cap, S)
         /\ d.front \in 0 .. d.cap - 1 /\ d.back \in 0 .. d.cap - 1
         /\ d.data \in [0 .. d.cap - 1 -> S \cup {Garbage}]
         /\ s \in Seq(S) /\ Len(s) = length(d) /\ Len(s) \in 0 .. d.cap - 1
         /\ is_empty(d) <=> s = <<>>
<1>1. /\ IsRing(d, S) /\ d.cap \in Nat \ {0} /\ d \in RingsOf(d.cap, S)
      /\ s \in Seq(S) /\ Len(s) = length(d)
  BY DEF Holds, IsRing
<1>2. /\ d.front \in 0 .. d.cap - 1 /\ d.back \in 0 .. d.cap - 1
      /\ d.data \in [0 .. d.cap - 1 -> S \cup {Garbage}]
  BY <1>1 DEF RingsOf
<1>3. /\ Len(s) \in 0 .. d.cap - 1
      /\ is_empty(d) <=> Len(s) = 0
  BY <1>1, Ends
<1> QED BY <1>1, <1>2, <1>3

\* What the peeks see.
LEMMA Peek ==
  ASSUME NEW S, NEW d, NEW s, Holds(d, s, S), s # <<>>
  PROVE  peek_front(d) = s[1] /\ peek_back(d) = s[Len(s)]
<1>1. /\ IsRing(d, S) /\ s \in Seq(S) /\ Len(s) = length(d) /\ Len(s) > 0
      /\ Len(s) \in Nat
  BY Fields
<1>2. last_cell(d) = Place(d, Len(s) - 1) /\ d.front = Place(d, 1 - 1)
  BY <1>1, Places
<1>3. d.data[Place(d, 1 - 1)] = s[1] /\ d.data[Place(d, Len(s) - 1)] = s[Len(s)]
  BY <1>1 DEF Holds
<1> QED BY <1>2, <1>3 DEF peek_front, peek_back

LEMMA PopFront ==
  ASSUME NEW S, NEW d, NEW s, Holds(d, s, S), s # <<>>
  PROVE  Holds(pop_front(d), Tail(s), S)
<1> DEFINE q == pop_front(d)
           f == (d.front + 1) % d.cap
           t == Tail(s)
<1>1. /\ IsRing(d, S) /\ d.cap \in Nat \ {0} /\ d \in RingsOf(d.cap, S)
      /\ d.front \in 0 .. d.cap - 1 /\ d.back \in 0 .. d.cap - 1
      /\ d.data \in [0 .. d.cap - 1 -> S \cup {Garbage}]
      /\ s \in Seq(S) /\ Len(s) = length(d) /\ Len(s) \in 1 .. d.cap - 1
  BY Fields
<1>2. f = IF d.front + 1 < d.cap THEN d.front + 1 ELSE d.front + 1 - d.cap
  <2> DEFINE x == d.front + 1
  <2>1. x \in 0 .. 2 * d.cap - 1
    BY <1>1
  <2>2. x % d.cap = IF x < d.cap THEN x ELSE x - d.cap
    BY <1>1, <2>1, Around
  <2> QED BY <1>1, <2>2
<1>3. f \in 0 .. d.cap - 1
  BY <1>1, <1>2
<1>4. /\ q.data = [d.data EXCEPT ![d.front] = Garbage] /\ q.front = f
      /\ q.cap = d.cap /\ q.back = d.back /\ q \in RingsOf(q.cap, S)
  <2> HIDE DEF f
  <2>1. q = [d EXCEPT !.data[d.front] = Garbage, !.front = f]
    BY DEF pop_front, f
  <2> HIDE DEF q
  <2> QED BY <1>1, <1>3, <2>1 DEF RingsOf
<1> HIDE DEF q
<1>5. IsRing(q, S)
  BY <1>1, <1>4 DEF IsRing
<1>6. length(q) = length(d) - 1
  <2> HIDE DEF f
  <2>1. length(d) = IF d.back >= d.front THEN d.back - d.front ELSE d.back - d.front + d.cap
    BY <1>1, Ends
  <2>2. length(q) = IF q.back >= q.front THEN q.back - q.front ELSE q.back - q.front + q.cap
    BY <1>5, Ends
  <2>3. length(d) > 0
    BY <1>1
  <2>4. q.back = d.back /\ q.front = f /\ q.cap = d.cap
    BY <1>4
  <2>5. d.cap \in Nat \ {0} /\ d.front \in 0 .. d.cap - 1 /\ d.back \in 0 .. d.cap - 1
    BY <1>1
  <2>6. CASE d.front + 1 < d.cap
    <3>1. q.front = d.front + 1
      BY <1>2, <2>4, <2>6
    <3> QED BY <2>1, <2>2, <2>3, <2>4, <2>5, <3>1
  <2>7. CASE ~(d.front + 1 < d.cap)
    <3>1. d.front = d.cap - 1 /\ q.front = 0
      BY <1>2, <2>4, <2>5, <2>7
    <3> QED BY <2>1, <2>2, <2>3, <2>4, <2>5, <3>1
  <2> QED BY <2>6, <2>7
<1>7. t \in Seq(S) /\ Len(t) = Len(s) - 1 /\ \A n \in 1 .. Len(t) : t[n] = s[n + 1]
  BY <1>1
<1>8. ASSUME NEW n \in 1 .. Len(t)
      PROVE  q.data[Place(q, n - 1)] = t[n]
  <2>1. /\ n \in 0 .. d.cap - 1 /\ n - 1 \in 0 .. d.cap - 1 /\ n + 1 \in 1 .. Len(s)
        /\ 0 \in 0 .. d.cap - 1 /\ n # 0 /\ n + 1 - 1 = n
    BY <1>1, <1>7
  <2>2. /\ Place(d, n) = IF d.front + n < d.cap THEN d.front + n ELSE d.front + n - d.cap
        /\ Place(d, n) \in 0 .. d.cap - 1
    BY <1>1, <2>1, Places
  <2>3. Place(q, n - 1) = IF q.front + (n - 1) < q.cap THEN q.front + (n - 1)
                          ELSE q.front + (n - 1) - q.cap
    BY <1>4, <1>5, <2>1, Places
  <2>4. Place(q, n - 1) = Place(d, n)
    <3>1. q.front = f /\ q.cap = d.cap /\ d.cap \in Nat /\ d.front \in 0 .. d.cap - 1
      BY <1>1, <1>4
    <3> HIDE DEF f
    <3>2. CASE d.front + 1 < d.cap
      <4>1. q.front = d.front + 1
        BY <1>2, <3>1, <3>2
      <4> QED BY <2>1, <2>2, <2>3, <3>1, <4>1
    <3>3. CASE ~(d.front + 1 < d.cap)
      <4>1. d.front = d.cap - 1 /\ q.front = 0
        BY <1>2, <3>1, <3>3
      <4> QED BY <2>1, <2>2, <2>3, <3>1, <4>1
    <3> QED BY <3>2, <3>3
  <2>5. Place(d, n) # d.front
    <3>1. Place(d, n) # Place(d, 0)
      BY <1>1, <2>1, Places
    <3> QED BY <1>1, <3>1, Places
  <2>6. d.data[Place(d, n + 1 - 1)] = s[n + 1]
    BY <2>1 DEF Holds
  <2> QED BY <1>1, <1>4, <1>7, <2>1, <2>2, <2>4, <2>5, <2>6
<1>9. Holds(q, t, S)
  BY <1>1, <1>5, <1>6, <1>7, <1>8 DEF Holds
<1> QED BY <1>9 DEF q

LEMMA UpdateBack ==
  ASSUME NEW S, NEW d, NEW s, Holds(d, s, S), s # <<>>, NEW e \in S
  PROVE  /\ Holds(update_back(d, e), [s EXCEPT ![Len(s)] = e], S)
         /\ update_back(d, e).cap = d.cap
         /\ update_back(d, e).front = d.front /\ update_back(d, e).back = d.back
<1> DEFINE q == update_back(d, e)
           t == [s EXCEPT ![Len(s)] = e]
           l == last_cell(d)
<1>1. /\ IsRing(d, S) /\ d.cap \in Nat \ {0} /\ d \in RingsOf(d.cap, S)
      /\ d.data \in [0 .. d.cap - 1 -> S \cup {Garbage}]
      /\ s \in Seq(S) /\ Len(s) = length(d) /\ Len(s) \in 1 .. d.cap - 1
  BY Fields
<1>2. l = Place(d, Len(s) - 1) /\ l \in 0 .. d.cap - 1
  <2>1. Len(s) - 1 \in 0 .. d.cap - 1
    BY <1>1
  <2> QED BY <1>1, <2>1, Places
<1>3. /\ q.data = [d.data EXCEPT ![l] = e] /\ q.front = d.front /\ q.back = d.back
      /\ q.cap = d.cap /\ q \in RingsOf(q.cap, S)
  <2> HIDE DEF l
  <2>1. q = [d EXCEPT !.data[l] = e]
    BY DEF update_back, l
  <2> HIDE DEF q
  <2> QED BY <1>1, <1>2, <2>1 DEF RingsOf
<1> HIDE DEF q, l
<1>4. IsRing(q, S)
  BY <1>1, <1>3 DEF IsRing
<1>5. length(q) = length(d)
  BY <1>3 DEF length
<1>6. t \in Seq(S) /\ Len(t) = Len(s)
  BY <1>1
<1>7. ASSUME NEW n \in 1 .. Len(t)
      PROVE  q.data[Place(q, n - 1)] = t[n]
  <2>1. Place(q, n - 1) = Place(d, n - 1) /\ d.data[Place(d, n - 1)] = s[n]
    BY <1>3, <1>6 DEF Place, Holds
  <2>2. n - 1 \in 0 .. d.cap - 1 /\ Len(s) - 1 \in 0 .. d.cap - 1
    BY <1>1, <1>6
  <2>3. Place(d, n - 1) \in 0 .. d.cap - 1 /\ (n # Len(s) => Place(d, n - 1) # l)
    <3>1. n # Len(s) => n - 1 # Len(s) - 1
      BY <1>1, <1>6
    <3> QED BY <1>1, <1>2, <2>2, <3>1, Places
  <2>4. n \in 1 .. Len(s)
    BY <1>6
  <2> QED BY <1>1, <1>2, <1>3, <2>1, <2>3, <2>4
<1>8. Holds(q, t, S)
  BY <1>1, <1>4, <1>5, <1>6, <1>7 DEF Holds
<1> QED BY <1>3, <1>8 DEF q

LEMMA PushFront ==
  ASSUME NEW S, NEW d, NEW s, Holds(d, s, S), NEW e \in S
  PROVE  /\ Holds(push_front(d, e), <<e>> \o s, S)
         /\ push_front(d, e).cap = on_push(d).cap
<1> DEFINE p == on_push(d)
           q == push_front(d, e)
           t == <<e>> \o s
<1>1. Holds(p, s, S) /\ Len(s) < p.cap - 1
  BY OnPush
<1> DEFINE f == (p.front + p.cap - 1) % p.cap
<1>2. q = [p EXCEPT !.data[f] = e, !.front = f]
  BY DEF push_front
<1> HIDE DEF p, q
<1>3. /\ IsRing(p, S) /\ p.cap \in Nat \ {0} /\ p \in RingsOf(p.cap, S)
      /\ p.front \in 0 .. p.cap - 1 /\ p.back \in 0 .. p.cap - 1
      /\ p.data \in [0 .. p.cap - 1 -> S \cup {Garbage}]
      /\ s \in Seq(S) /\ Len(s) = length(p) /\ Len(s) \in 0 .. p.cap - 1
  BY <1>1, Fields
<1>4. f = IF p.front = 0 THEN p.cap - 1 ELSE p.front - 1
  <2> DEFINE x == p.front + p.cap - 1
  <2>1. x \in 0 .. 2 * p.cap - 1
    BY <1>3
  <2>2. x % p.cap = IF x < p.cap THEN x ELSE x - p.cap
    BY <1>3, <2>1, Around
  <2> QED BY <1>3, <2>2
<1>5. f \in 0 .. p.cap - 1
  BY <1>3, <1>4
<1> HIDE DEF f
<1>6. /\ q.data = [p.data EXCEPT ![f] = e] /\ q.back = p.back
      /\ q.cap = p.cap /\ q.front = f /\ q \in RingsOf(q.cap, S)
  BY <1>2, <1>3, <1>5 DEF RingsOf
<1>7. IsRing(q, S)
  BY <1>3, <1>6 DEF IsRing
<1>8. length(q) = length(p) + 1
  <2>1. length(p) = IF p.back >= p.front THEN p.back - p.front ELSE p.back - p.front + p.cap
    BY <1>3, Ends
  <2>2. length(q) = IF q.back >= q.front THEN q.back - q.front ELSE q.back - q.front + q.cap
    BY <1>7, Ends
  <2>3. length(p) < p.cap - 1
    BY <1>1, <1>3
  <2>4. q.back = p.back /\ q.cap = p.cap /\ q.front = f
    BY <1>6
  <2>5. p.cap \in Nat \ {0} /\ p.front \in 0 .. p.cap - 1 /\ p.back \in 0 .. p.cap - 1
    BY <1>3
  <2>6. CASE p.front = 0
    <3>1. q.front = p.cap - 1
      BY <1>4, <2>4, <2>6
    <3> QED BY <2>1, <2>2, <2>3, <2>4, <2>5, <2>6, <3>1
  <2>7. CASE p.front # 0
    <3>1. q.front = p.front - 1
      BY <1>4, <2>4, <2>7
    <3> QED BY <2>1, <2>2, <2>3, <2>4, <2>5, <2>7, <3>1
  <2> QED BY <2>6, <2>7
<1>9. /\ t \in Seq(S) /\ Len(t) = Len(s) + 1
      /\ \A n \in 1 .. Len(t) : t[n] = IF n = 1 THEN e ELSE s[n - 1]
  BY <1>3
<1>10. Place(p, p.cap - 1) = f
  <2> DEFINE m == p.cap - 1
  <2>1. m \in 0 .. p.cap - 1
    BY <1>3
  <2>2. m = p.cap - 1
    OBVIOUS
  <2> HIDE DEF m
  <2>3. Place(p, m) = IF p.front + m < p.cap THEN p.front + m ELSE p.front + m - p.cap
    BY <1>3, <2>1, Places
  <2> QED BY <1>3, <1>4, <2>2, <2>3
<1>11. ASSUME NEW n \in 1 .. Len(t)
       PROVE  q.data[Place(q, n - 1)] = t[n]
  <2>1. CASE n = 1
    <3>1. Place(q, n - 1) = f
      BY <1>6, <1>7, <2>1, Places
    <3> QED BY <1>3, <1>5, <1>6, <1>9, <2>1, <3>1
  <2>2. CASE n # 1
    <3>1. /\ n - 1 \in 0 .. p.cap - 1 /\ n - 2 \in 0 .. p.cap - 1 /\ n - 1 \in 1 .. Len(s)
          /\ p.cap - 1 \in 0 .. p.cap - 1 /\ n - 2 # p.cap - 1 /\ n - 1 - 1 = n - 2
      BY <1>1, <1>3, <1>9, <2>2
    <3>2. Place(q, n - 1) = IF q.front + (n - 1) < q.cap THEN q.front + (n - 1)
                            ELSE q.front + (n - 1) - q.cap
      BY <1>6, <1>7, <3>1, Places
    <3>3. /\ Place(p, n - 2) = IF p.front + (n - 2) < p.cap THEN p.front + (n - 2)
                               ELSE p.front + (n - 2) - p.cap
          /\ Place(p, n - 2) \in 0 .. p.cap - 1
          /\ Place(p, n - 2) # f
      BY <1>3, <1>10, <3>1, Places
    <3>4. Place(q, n - 1) = Place(p, n - 2)
      <4>1. q.front = f /\ q.cap = p.cap /\ p.cap \in Nat /\ p.front \in 0 .. p.cap - 1
        BY <1>3, <1>6
      <4>2. n \in Int
        BY <1>3
      <4>3. CASE p.front = 0
        <5>1. q.front = p.cap - 1
          BY <1>4, <4>1, <4>3
        <5> QED BY <3>1, <3>2, <3>3, <4>1, <4>2, <4>3, <5>1
      <4>4. CASE p.front # 0
        <5>1. q.front = p.front - 1
          BY <1>4, <4>1, <4>4
        <5> DEFINE x == q.front + (n - 1)
                   y == p.front + (n - 2)
        <5>2. x = y /\ q.cap = p.cap
          BY <4>1, <4>2, <5>1
        <5>3. Place(q, n - 1) = IF x < q.cap THEN x ELSE x - q.cap
          BY <3>2, <4>1, <4>2, <5>1
        <5>4. Place(p, n - 2) = IF y < p.cap THEN y ELSE y - p.cap
          BY <3>3, <4>1, <4>2
        <5> HIDE DEF x, y
        <5> QED BY <5>2, <5>3, <5>4
      <4> QED BY <4>3, <4>4
    <3>5. p.data[Place(p, n - 1 - 1)] = s[n - 1]
      BY <1>1, <3>1 DEF Holds
    <3> DEFINE x == Place(p, n - 2)
    <3>6. x \in 0 .. p.cap - 1 /\ x # f /\ p.data[x] = s[n - 1] /\ Place(q, n - 1) = x
      BY <3>1, <3>3, <3>4, <3>5
    <3>7. t[n] = s[n - 1]
      BY <1>9, <2>2
    <3> HIDE DEF x
    <3>8. q.data[x] = p.data[x]
      BY <1>3, <1>6, <3>6
    <3> QED BY <3>6, <3>7, <3>8
  <2> QED BY <2>1, <2>2
<1>12. Holds(q, t, S)
  BY <1>3, <1>7, <1>8, <1>9, <1>11 DEF Holds
<1> QED BY <1>6, <1>12 DEF p, q

LEMMA PopBack ==
  ASSUME NEW S, NEW d, NEW s, Holds(d, s, S), s # <<>>
  PROVE  Holds(pop_back(d), SubSeq(s, 1, Len(s) - 1), S)
<1> DEFINE q == pop_back(d)
           t == SubSeq(s, 1, Len(s) - 1)
           l == last_cell(d)
<1>1. /\ IsRing(d, S) /\ d.cap \in Nat \ {0} /\ d \in RingsOf(d.cap, S)
      /\ d.front \in 0 .. d.cap - 1 /\ d.back \in 0 .. d.cap - 1
      /\ d.data \in [0 .. d.cap - 1 -> S \cup {Garbage}]
      /\ s \in Seq(S) /\ Len(s) = length(d) /\ Len(s) \in 1 .. d.cap - 1
  BY Fields
<1>2. /\ Len(s) - 1 \in 0 .. d.cap - 1 /\ l = Place(d, Len(s) - 1) /\ l \in 0 .. d.cap - 1
      /\ l = IF d.front + (Len(s) - 1) < d.cap THEN d.front + (Len(s) - 1)
             ELSE d.front + (Len(s) - 1) - d.cap
  <2> DEFINE m == Len(s) - 1
  <2>1. m \in 0 .. d.cap - 1
    BY <1>1
  <2>2. l = Place(d, m)
    BY <1>1, Places
  <2> HIDE DEF m, l
  <2>3. /\ Place(d, m) = IF d.front + m < d.cap THEN d.front + m ELSE d.front + m - d.cap
        /\ Place(d, m) \in 0 .. d.cap - 1
    BY <1>1, <2>1, Places
  <2> QED BY <2>1, <2>2, <2>3 DEF m
<1>3. /\ q.data = [d.data EXCEPT ![l] = Garbage] /\ q.front = d.front /\ q.back = l
      /\ q.cap = d.cap /\ q \in RingsOf(q.cap, S)
  <2> HIDE DEF l
  <2>1. q = [d EXCEPT !.data[l] = Garbage, !.back = l]
    BY DEF pop_back, l
  <2> HIDE DEF q
  <2> QED BY <1>1, <1>2, <2>1 DEF RingsOf
<1> HIDE DEF q, l
<1>4. IsRing(q, S)
  BY <1>1, <1>3 DEF IsRing
<1>5. length(q) = Len(s) - 1
  <2>1. length(q) = IF q.back >= q.front THEN q.back - q.front ELSE q.back - q.front + q.cap
    BY <1>4, Ends
  <2>2. q.back = l /\ q.front = d.front /\ q.cap = d.cap
    BY <1>3
  <2>3. d.cap \in Nat \ {0} /\ d.front \in 0 .. d.cap - 1 /\ Len(s) \in 1 .. d.cap - 1
    BY <1>1
  <2> QED BY <1>2, <2>1, <2>2, <2>3
<1>6. t \in Seq(S) /\ Len(t) = Len(s) - 1 /\ \A n \in 1 .. Len(t) : t[n] = s[n]
  BY <1>1
<1>7. ASSUME NEW n \in 1 .. Len(t)
      PROVE  q.data[Place(q, n - 1)] = t[n]
  <2>1. n \in 1 .. Len(s) /\ n - 1 \in 0 .. d.cap - 1 /\ n - 1 # Len(s) - 1
    BY <1>1, <1>6
  <2>2. Place(d, n - 1) \in 0 .. d.cap - 1 /\ Place(d, n - 1) # l
    BY <1>1, <1>2, <2>1, Places
  <2>3. Place(q, n - 1) = Place(d, n - 1) /\ d.data[Place(d, n - 1)] = s[n]
    BY <1>3, <2>1 DEF Place, Holds
  <2> QED BY <1>1, <1>3, <1>6, <2>2, <2>3
<1>8. Holds(q, t, S)
  BY <1>1, <1>4, <1>5, <1>6, <1>7 DEF Holds
<1> QED BY <1>8 DEF q

LEMMA Reallign ==
  ASSUME NEW S, NEW d, NEW s, Holds(d, s, S)
  PROVE  /\ Holds(reallign(d), s, S)
         /\ reallign(d).cap = d.cap /\ reallign(d).front = 0
<1> DEFINE q == reallign(d)
           cells == [c \in 0 .. d.cap - 1 |-> IF c < length(d)
                                              THEN d.data[(d.front + c) % d.cap] ELSE Garbage]
<1>1. /\ IsRing(d, S) /\ d.cap \in Nat \ {0} /\ d \in RingsOf(d.cap, S)
      /\ d.data \in [0 .. d.cap - 1 -> S \cup {Garbage}]
      /\ s \in Seq(S) /\ Len(s) = length(d) /\ Len(s) \in 0 .. d.cap - 1
  BY Fields
<1>2. ASSUME NEW c \in 0 .. d.cap - 1
      PROVE  /\ cells[c] = IF c < length(d) THEN d.data[Place(d, c)] ELSE Garbage
             /\ cells[c] \in S \cup {Garbage}
  <2>1. cells[c] = IF c < length(d) THEN d.data[Place(d, c)] ELSE Garbage
    BY DEF Place
  <2>2. Place(d, c) \in 0 .. d.cap - 1
    BY <1>1, Places
  <2>3. d.data[Place(d, c)] \in S \cup {Garbage}
    BY <1>1, <2>2
  <2> QED BY <2>1, <2>3
<1>3. cells \in [0 .. d.cap - 1 -> S \cup {Garbage}]
  BY <1>2
<1>4. /\ q.data = cells /\ q.front = 0 /\ q.back = length(d) /\ q.cap = d.cap
      /\ q \in RingsOf(q.cap, S)
  <2> DEFINE n == length(d)
  <2>1. q = [d EXCEPT !.data = cells, !.front = 0, !.back = n]
    BY DEF reallign
  <2>2. n \in 0 .. d.cap - 1 /\ 0 \in 0 .. d.cap - 1
    BY <1>1
  <2> HIDE DEF q, cells, n
  <2>3. q.data = cells /\ q.front = 0 /\ q.back = n /\ q.cap = d.cap
    BY <1>1, <2>1 DEF RingsOf
  <2>4. q \in RingsOf(d.cap, S)
    BY <1>1, <1>3, <2>1, <2>2 DEF RingsOf
  <2> QED BY <2>3, <2>4 DEF n
<1> HIDE DEF q, cells
<1>5. IsRing(q, S)
  BY <1>1, <1>4 DEF IsRing
<1>6. length(q) = length(d)
  <2>1. length(q) = IF q.back >= q.front THEN q.back - q.front ELSE q.back - q.front + q.cap
    BY <1>5, Ends
  <2> QED BY <1>1, <1>4, <2>1
<1>7. ASSUME NEW n \in 1 .. Len(s)
      PROVE  q.data[Place(q, n - 1)] = s[n]
  <2>1. n - 1 \in 0 .. d.cap - 1 /\ n - 1 < length(d)
    BY <1>1
  <2>2. Place(q, n - 1) = IF q.front + (n - 1) < q.cap THEN q.front + (n - 1)
                          ELSE q.front + (n - 1) - q.cap
    BY <1>4, <1>5, <2>1, Places
  <2>3. Place(q, n - 1) = n - 1
    <3>1. q.front = 0 /\ q.cap = d.cap /\ d.cap \in Nat
      BY <1>1, <1>4
    <3> QED BY <2>1, <2>2, <3>1
  <2>4. d.data[Place(d, n - 1)] = s[n]
    BY DEF Holds
  <2> QED BY <1>2, <1>4, <2>1, <2>3, <2>4
<1>8. Holds(q, s, S)
  BY <1>1, <1>5, <1>6, <1>7 DEF Holds
<1> QED BY <1>4, <1>8 DEF q

\* Elements is the sequence a ring holds.
LEMMA ElementsHeld ==
  ASSUME NEW S, NEW d, NEW s, Holds(d, s, S)
  PROVE  Elements(d) = s
<1>1. s \in Seq(S) /\ Len(s) = length(d) /\ Len(s) \in Nat
  BY Fields
<1>2. ASSUME NEW n \in 1 .. length(d)
      PROVE  d.data[(d.front + n - 1) % d.cap] = s[n]
  <2>1. d.data[Place(d, n - 1)] = s[n]
    BY <1>1 DEF Holds
  <2>2. d.front + n - 1 = d.front + (n - 1)
    BY <1>1, Fields
  <2> QED BY <2>1, <2>2 DEF Place
<1>3. Elements(d) = [n \in 1 .. Len(s) |-> s[n]]
  BY <1>1, <1>2 DEF Elements
<1> QED BY <1>1, <1>3
=============================================================================
