---------------------------- MODULE BuddyProofs -----------------------------
(***************************************************************************)
(* The buddy allocator for memory and pages of any size, and the program   *)
(* that calls it with any variables and requests.                          *)
(*                                                                         *)
(* The argument: the blocks in the lists, the blocks in use and the block  *)
(* being freed partition memory, also between the steps of a split and of  *)
(* combining.  Blocks are aligned, so that of two that have a page in      *)
(* common one lies in the other; the page that begins a block's buddy      *)
(* therefore begins a block itself, whatever the page table says of the    *)
(* pages that do not.                                                      *)
(***************************************************************************)
EXTENDS BuddySimulator, FiniteSetTheorems, TLAPS

-----------------------------------------------------------------------------
(***************************************************************************)
(* Powers of two.                                                          *)
(***************************************************************************)
\* Every set of natural numbers has a least one.
LEMMA LeastNumber ==
  ASSUME NEW T, T \subseteq Nat, T # {}
  PROVE  \E m \in T : \A n \in T : m <= n
<1> DEFINE R == OpToRel(<, Nat)
<1>1. IsWellFoundedOn(R, Nat)
  BY NatLessThanWellFounded
<1>2. \A x, y \in Nat : <<y, x>> \in R <=> y < x
  BY DEF OpToRel
<1> HIDE DEF R
<1>3. PICK x \in T : \A y \in T : ~(<<y, x>> \in R)
  BY <1>1, WFMin
<1>4. ASSUME NEW y \in T PROVE x <= y
  <2>1. x \in Nat /\ y \in Nat /\ ~(<<y, x>> \in R)
    BY <1>3
  <2>2. ~(y < x)
    BY <1>2, <2>1
  <2> QED BY <2>1, <2>2
<1> QED BY <1>4

\* 2^n counts the sets of n elements.
LEMMA CountsSets ==
  ASSUME NEW n \in Nat
  PROVE  /\ IsFiniteSet(SUBSET (1 .. n)) /\ Cardinality(SUBSET (1 .. n)) = 2^n
         /\ 2^n \in Nat
<1>1. IsFiniteSet(1 .. n) /\ Cardinality(1 .. n) = n
  BY FS_Interval
<1>2. IsFiniteSet(SUBSET (1 .. n)) /\ Cardinality(SUBSET (1 .. n)) = 2^n
  BY <1>1, FS_SUBSET
<1> QED BY <1>2, FS_CardinalityType

\* One more element makes twice as many.
LEMMA Doubling ==
  ASSUME NEW n \in Nat
  PROVE  2^(n + 1) = 2 * 2^n
<1> DEFINE m == n + 1
           A == SUBSET (1 .. n)
           B == {X \cup {m} : X \in A}
           f == [X \in A |-> X \cup {m}]
<1>1. /\ m \in Nat /\ m \notin 1 .. n /\ 1 .. m = (1 .. n) \cup {m}
  OBVIOUS
<1>2. /\ IsFiniteSet(A) /\ Cardinality(A) = 2^n /\ 2^n \in Nat
  BY CountsSets
<1>3. Cardinality(SUBSET (1 .. m)) = 2^m
  BY <1>1, CountsSets
<1>4. \A X \in A : m \notin X
  BY <1>1
<1> HIDE DEF m
<1>5. SUBSET (1 .. m) = A \cup B
  <2>1. ASSUME NEW X \in SUBSET (1 .. m)
        PROVE  X \in A \cup B
    <3>1. CASE m \notin X
      BY <1>1, <3>1
    <3>2. CASE m \in X
      <4>1. X \ {m} \in A /\ X = (X \ {m}) \cup {m}
        BY <1>1, <3>2
      <4> QED BY <4>1
    <3> QED BY <3>1, <3>2
  <2>2. \A X \in A \cup B : X \in SUBSET (1 .. m)
    BY <1>1
  <2> QED BY <2>1, <2>2
<1>6. A \cap B = {}
  BY <1>4
<1>7. IsFiniteSet(B) /\ Cardinality(B) = Cardinality(A)
  <2>1. f \in [A -> B]
    OBVIOUS
  <2>2. ASSUME NEW X \in A, NEW Y \in A, f[X] = f[Y]
        PROVE  X = Y
    <3>1. X \cup {m} = Y \cup {m} /\ m \notin X /\ m \notin Y
      BY <1>4, <2>2
    <3> QED BY <3>1
  <2>3. \A Z \in B : \E X \in A : f[X] = Z
    OBVIOUS
  <2> HIDE DEF f, A, B
  <2>4. f \in Bijection(A, B)
    BY <2>1, <2>2, <2>3 DEF Bijection, Injection, Surjection, IsInjective
  <2> QED BY <1>2, <2>4, FS_Bijection DEF ExistsBijection
<1> HIDE DEF A, B
<1>8. Cardinality(A \cup B) = Cardinality(A) + Cardinality(B) - Cardinality(A \cap B)
  BY <1>2, <1>7, FS_Union
<1>9. Cardinality(A \cap B) = 0
  BY <1>6, FS_EmptySet
<1>10. Cardinality(A \cup B) = 2^m
  BY <1>3, <1>5
<1>11. Cardinality(A) = 2^n /\ Cardinality(B) = 2^n
  BY <1>2, <1>7
<1> DEFINE t == 2^n
<1>12. t \in Nat
  BY <1>2
<1> HIDE DEF t
<1>13. Cardinality(A \cup B) = t + t - 0
  BY <1>8, <1>9, <1>11 DEF t
<1>14. 2^m = 2 * t
  BY <1>10, <1>12, <1>13
<1> QED BY <1>14 DEF m, t

\* 2^n is a natural number above zero.
LEMMA PowerPositive ==
  ASSUME NEW n \in Nat
  PROVE  2^n \in Nat \ {0}
<1>1. /\ IsFiniteSet(SUBSET (1 .. n)) /\ Cardinality(SUBSET (1 .. n)) = 2^n
      /\ 2^n \in Nat
  BY CountsSets
<1>2. SUBSET (1 .. n) # {}
  OBVIOUS
<1>3. Cardinality(SUBSET (1 .. n)) # 0
  BY <1>1, <1>2, FS_EmptySet
<1> QED BY <1>1, <1>3

\* 2^0 = 1, the number of subsets of the empty set.
LEMMA PowerOfZero == 2^0 = 1
<1>1. Cardinality(SUBSET (1 .. 0)) = 2^0
  BY CountsSets
<1>2. SUBSET (1 .. 0) = {{}}
  OBVIOUS
<1>3. Cardinality({{}}) = 1
  BY FS_Singleton
<1> QED BY <1>1, <1>2, <1>3

\* A set has no more subsets than a set around it.
LEMMA PowersGrow ==
  ASSUME NEW m \in Nat, NEW n \in Nat, m <= n
  PROVE  2^m <= 2^n
<1>1. /\ Cardinality(SUBSET (1 .. m)) = 2^m /\ Cardinality(SUBSET (1 .. n)) = 2^n
      /\ IsFiniteSet(SUBSET (1 .. n))
  BY CountsSets
<1>2. SUBSET (1 .. m) \subseteq SUBSET (1 .. n)
  OBVIOUS
<1> QED BY <1>1, <1>2, FS_Subset

-----------------------------------------------------------------------------
(***************************************************************************)
(* Sizes of blocks.                                                        *)
(***************************************************************************)
\* Every order has a number of pages, one for the least and all of memory for
\* the greatest; the next order has twice as many.
LEMMA PagesFacts ==
  /\ \A ord \in Orders : PagesOf(ord) \in Nat \ {0}
  /\ PagesOf(MIN_ORDER) = 1
  /\ n_pages = PagesOf(MAX_ORDER)
  /\ \A ord \in Orders : ord < MAX_ORDER => PagesOf(ord + 1) = 2 * PagesOf(ord)
<1> USE OrderAssumption
<1>1. ASSUME NEW ord \in Orders PROVE PagesOf(ord) \in Nat \ {0}
  <2>1. ord - MIN_ORDER \in Nat
    BY DEF Orders
  <2> QED BY <2>1, PowerPositive DEF PagesOf
<1>2. PagesOf(MIN_ORDER) = 1
  <2>1. MIN_ORDER - MIN_ORDER = 0
    OBVIOUS
  <2> QED BY <2>1, PowerOfZero DEF PagesOf
<1>3. ASSUME NEW ord \in Orders PROVE PagesOf(ord + 1) = 2 * PagesOf(ord)
  <2>1. ord - MIN_ORDER \in Nat /\ (ord + 1) - MIN_ORDER = (ord - MIN_ORDER) + 1
    BY DEF Orders
  <2> QED BY <2>1, Doubling DEF PagesOf
<1> QED BY <1>1, <1>2, <1>3 DEF n_pages, PagesOf

\* Pages and orders are numbers.
LEMMA PageNumbers == PageIds \subseteq Nat /\ PageIds \subseteq Int /\ Orders \subseteq Nat
BY OrderAssumption DEF PageIds, Orders

\* Facts about products.
LEMMA Products ==
  /\ \A a, b, c \in Nat : a <= b => a * c <= b * c
  /\ \A a, b, c \in Nat : a * c < b * c => a < b
  /\ \A a, b, c \in Nat : (a * b) * c = a * (b * c)
  /\ \A a, b \in Nat : a * b \in Nat /\ a * b = b * a /\ (a + 1) * b = a * b + b
<1>1. \A a, b, c \in Nat : a <= b => a * c <= b * c
  OBVIOUS
<1>2. \A a, b, c \in Nat : a * c < b * c => a < b
  BY <1>1
<1>3. \A a, b, c \in Nat : (a * b) * c = a * (b * c)
  OBVIOUS
<1>4. \A a, b \in Nat : a * b \in Nat /\ a * b = b * a /\ (a + 1) * b = a * b + b
  OBVIOUS
<1> QED BY <1>1, <1>2, <1>3, <1>4

\* A greater order is a multiple of a smaller one.
LEMMA PagesDivide ==
  ASSUME NEW j \in Orders, NEW k \in Orders, j <= k
  PROVE  \E c \in Nat : PagesOf(k) = c * PagesOf(j)
<1> USE OrderAssumption
<1> DEFINE T == {i \in Orders : j <= i /\ ~\E c \in Nat : PagesOf(i) = c * PagesOf(j)}
<1>1. ASSUME T # {} PROVE FALSE
  <2>1. T \subseteq Nat
    BY DEF Orders
  <2> HIDE DEF T
  <2>2. PICK i \in T : \A n \in T : i <= n
    BY <1>1, <2>1, LeastNumber
  <2>3. i \in Orders /\ j <= i /\ ~\E c \in Nat : PagesOf(i) = c * PagesOf(j)
    BY <2>2 DEF T
  <2>4. i # j
    <3>1. PagesOf(j) = 1 * PagesOf(j)
      BY PagesFacts
    <3> QED BY <2>3, <3>1
  <2>5. i - 1 \in Orders /\ j <= i - 1 /\ i - 1 < MAX_ORDER /\ (i - 1) + 1 = i
    BY <2>3, <2>4 DEF Orders
  <2>6. i - 1 \notin T
    BY <2>2, <2>1, <2>5
  <2>7. PICK c \in Nat : PagesOf(i - 1) = c * PagesOf(j)
    BY <2>5, <2>6 DEF T
  <2>8. PagesOf(i) = 2 * (c * PagesOf(j))
    BY <2>5, <2>7, PagesFacts
  <2>9. PagesOf(i) = (2 * c) * PagesOf(j) /\ 2 * c \in Nat
    BY <2>8, Products, PagesFacts
  <2> QED BY <2>3, <2>9
<1> QED BY <1>1

\* Division of multiples.
LEMMA Multiples ==
  /\ \A m \in Nat, N \in Nat \ {0} : (m * N) \div N = m
  /\ \A a \in Nat, N \in Nat \ {0} : a % N = 0 => \E m \in Nat : a = m * N
  /\ \A m \in Nat, N \in Nat \ {0} : (m * N) % N = 0
<1>1. \A a \in Nat, N \in Nat \ {0} :
        /\ a \div N \in Nat /\ a % N \in 0 .. N - 1
        /\ a = (a \div N) * N + (a % N)
  OBVIOUS
<1>2. ASSUME NEW m \in Nat, NEW N \in Nat \ {0}
      PROVE  (m * N) \div N = m /\ (m * N) % N = 0
  <2> DEFINE q == (m * N) \div N
             r == (m * N) % N
  <2>1. q \in Nat /\ r \in 0 .. N - 1 /\ m * N = q * N + r
    BY <1>1, Products
  <2> HIDE DEF q, r
  <2>2. m * N < (q + 1) * N
    <3>1. (q + 1) * N = q * N + N
      BY <2>1, Products
    <3> QED BY <2>1, <3>1, Products
  <2>3. m < q + 1
    BY <2>1, <2>2, Products
  <2>4. q * N < (m + 1) * N
    <3>1. (m + 1) * N = m * N + N
      BY Products
    <3> QED BY <2>1, <3>1, Products
  <2>5. q < m + 1
    BY <2>1, <2>4, Products
  <2>6. q = m /\ r = 0
    BY <2>1, <2>3, <2>5, Products
  <2> QED BY <2>6 DEF q, r
<1>3. ASSUME NEW a \in Nat, NEW N \in Nat \ {0}, a % N = 0
      PROVE  \E m \in Nat : a = m * N
  <2>1. a = (a \div N) * N + 0 /\ a \div N \in Nat
    BY <1>1, <1>3
  <2>2. a = (a \div N) * N
    BY <2>1, Products
  <2> QED BY <2>1, <2>2
<1> QED BY <1>2, <1>3

-----------------------------------------------------------------------------
(***************************************************************************)
(* Blocks.                                                                 *)
(***************************************************************************)
\* A page at which a block of order ord may begin.
Aligned(page, ord) == \E m \in Nat : page = m * PagesOf(ord)

\* The pages of a block.
LEMMA BlockPages ==
  ASSUME NEW p \in Nat, NEW ord \in Orders
  PROVE  \A q : q \in Block(p, ord) <=> q \in Nat /\ p <= q /\ q < p + PagesOf(ord)
<1>1. PagesOf(ord) \in Nat \ {0}
  BY PagesFacts
<1> QED BY <1>1 DEF Block

\* Of two aligned blocks with a page in common, the smaller lies in the other.
LEMMA BlocksNest ==
  ASSUME NEW j \in Orders, NEW k \in Orders, j <= k,
         NEW p \in Nat, NEW r \in Nat, Aligned(p, j), Aligned(r, k),
         NEW q, q \in Block(p, j), q \in Block(r, k)
  PROVE  Block(p, j) \subseteq Block(r, k) /\ r <= p
<1> DEFINE J == PagesOf(j)
           K == PagesOf(k)
<1>1. J \in Nat \ {0} /\ K \in Nat \ {0}
  BY PagesFacts
<1>2. PICK m \in Nat : p = m * J
  BY DEF Aligned
<1>3. PICK n \in Nat : r = n * K
  BY DEF Aligned
<1>4. PICK c \in Nat : K = c * J
  BY PagesDivide
<1>5. q \in Nat /\ p <= q /\ q < p + J /\ r <= q /\ q < r + K
  BY BlockPages
<1>6. \A x : x \in Block(r, k) <=> x \in Nat /\ r <= x /\ x < r + K
  BY BlockPages
<1>7. \A x : x \in Block(p, j) <=> x \in Nat /\ p <= x /\ x < p + J
  BY BlockPages
<1> HIDE DEF J, K
<1> DEFINE low == n * c
           high == (n + 1) * c
<1>8. low \in Nat /\ high \in Nat
  BY Products
<1>9. r = low * J /\ r + K = high * J
  <2>1. (n + 1) * K = r + K /\ n * K = r
    BY <1>1, <1>3, Products
  <2> QED BY <2>1, <1>1, <1>4, Products
<1>10. p + J = (m + 1) * J /\ m + 1 \in Nat
  BY <1>1, <1>2, Products
<1> HIDE DEF low, high
<1>11. low < m + 1
  <2>1. low * J < (m + 1) * J
    BY <1>1, <1>5, <1>8, <1>9, <1>10, Products
  <2> QED BY <2>1, <1>1, <1>8, <1>10, Products
<1>12. m < high
  <2>1. m * J < high * J
    BY <1>1, <1>2, <1>5, <1>8, <1>9, Products
  <2> QED BY <2>1, <1>1, <1>8, Products
<1>13. low <= m /\ m + 1 <= high
  BY <1>8, <1>11, <1>12
<1>14. low * J <= m * J /\ (m + 1) * J <= high * J
  BY <1>1, <1>8, <1>10, <1>13, Products
<1>15. r <= p /\ p + J <= r + K
  BY <1>2, <1>9, <1>10, <1>14
<1>16. p + J \in Nat /\ r + K \in Nat
  BY <1>1
<1> QED BY <1>6, <1>7, <1>15, <1>16

\* An aligned block below MAX_ORDER begins at an even or an odd multiple of its
\* size; its buddy is the next or the previous one.
LEMMA EvenOrOdd ==
  ASSUME NEW ord \in Orders, NEW h \in Nat
  PROVE  LET P == PagesOf(ord) IN
         /\ BuddyOf((2 * h) * P, ord) = (2 * h) * P + P
         /\ BuddyOf((2 * h) * P + P, ord) = (2 * h) * P
<1> DEFINE P == PagesOf(ord)
           page == (2 * h) * P
<1>1. P \in Nat \ {0} /\ 2 * h \in Nat /\ (2 * h + 1) \in Nat
  BY PagesFacts
<1> HIDE DEF P
<1>2. page \in Nat /\ page + P = (2 * h + 1) * P
  BY <1>1, Products
<1>3. page \div P = 2 * h /\ (page + P) \div P = 2 * h + 1
  BY <1>1, <1>2, Multiples
<1>4. (2 * h) % 2 = 0 /\ (2 * h + 1) % 2 = 1
  OBVIOUS
<1> HIDE DEF page
<1>5. BuddyOf(page, ord) = page + P
  BY <1>3, <1>4 DEF BuddyOf, P
<1>6. BuddyOf(page + P, ord) = (page + P) - P
  BY <1>3, <1>4 DEF BuddyOf, P
<1> QED BY <1>1, <1>2, <1>5, <1>6 DEF P, page

\* The lower of two buddies.
Lower(p, r) == IF r < p THEN r ELSE p

\* A buddy is a block of the same order beside the first; the two make up a
\* block of the next order, and are each other's buddies.
LEMMA BuddyFacts ==
  ASSUME NEW p \in PageIds, NEW ord \in Orders, ord < MAX_ORDER, Aligned(p, ord)
  PROVE  LET r == BuddyOf(p, ord) IN
         /\ r \in PageIds /\ Aligned(r, ord) /\ r # p
         /\ BuddyOf(r, ord) = p
         /\ Lower(p, r) \in PageIds /\ Aligned(Lower(p, r), ord + 1)
         /\ Block(Lower(p, r), ord + 1) = Block(p, ord) \cup Block(r, ord)
         /\ Block(p, ord) \cap Block(r, ord) = {}
         /\ Aligned(p, ord + 1) => Lower(p, r) = p
<1> USE OrderAssumption
<1> DEFINE P == PagesOf(ord)
           r == BuddyOf(p, ord)
<1>1. /\ P \in Nat \ {0} /\ ord + 1 \in Orders /\ MAX_ORDER \in Orders
      /\ PagesOf(ord + 1) = 2 * P
  BY PagesFacts DEF Orders
<1>2. PICK c \in Nat : n_pages = c * (2 * P)
  BY <1>1, PagesDivide, PagesFacts DEF Orders
<1>3. p \in Nat /\ p < n_pages /\ n_pages \in Nat
  BY <1>1, PagesFacts DEF PageIds
<1>4. PICK m \in Nat : p = m * P
  BY DEF Aligned
<1>5. PICK h \in Nat : m = 2 * h \/ m = 2 * h + 1
  <2>1. \A x \in Nat : \E y \in Nat : x = 2 * y \/ x = 2 * y + 1
    <3>1. \A x \in Nat : x \div 2 \in Nat /\ (x = 2 * (x \div 2) \/ x = 2 * (x \div 2) + 1)
      OBVIOUS
    <3> QED BY <3>1
  <2> QED BY <2>1
<1> DEFINE low == (2 * h) * P
<1>6. low \in Nat /\ low = h * (2 * P) /\ 2 * P \in Nat \ {0} /\ low + P = (2 * h + 1) * P
  <2>1. 2 * h \in Nat /\ 2 * P \in Nat \ {0}
    BY <1>1
  <2>2. (2 * h) * P = (h * 2) * P /\ (h * 2) * P = h * (2 * P)
    BY <1>1, Products
  <2> QED BY <2>1, <2>2, <1>1, Products
<1>7. \/ p = low /\ r = low + P
      \/ p = low + P /\ r = low
  <2>1. CASE m = 2 * h
    BY <2>1, <1>4, EvenOrOdd
  <2>2. CASE m = 2 * h + 1
    BY <2>2, <1>4, <1>6, EvenOrOdd
  <2> QED BY <1>5, <2>1, <2>2
<1>8. BuddyOf(r, ord) = p
  BY <1>7, EvenOrOdd
<1>9. low + 2 * P <= n_pages
  <2>1. low < n_pages
    BY <1>1, <1>3, <1>6, <1>7
  <2>2. h < c
    BY <2>1, <1>2, <1>6, Products
  <2>3. (h + 1) * (2 * P) <= c * (2 * P) /\ (h + 1) * (2 * P) = h * (2 * P) + 2 * P
    BY <2>2, <1>6, Products
  <2> QED BY <2>3, <1>2, <1>6
<1>10. Aligned(low, ord) /\ Aligned(low + P, ord) /\ Aligned(low, ord + 1)
  <2>1. 2 * h \in Nat /\ 2 * h + 1 \in Nat
    OBVIOUS
  <2> QED BY <2>1, <1>1, <1>6 DEF Aligned
<1> HIDE DEF r
<1>11. \A x : /\ x \in Block(low, ord) <=> x \in Nat /\ low <= x /\ x < low + P
              /\ x \in Block(low + P, ord) <=> x \in Nat /\ low + P <= x /\ x < low + P + P
              /\ x \in Block(low, ord + 1) <=> x \in Nat /\ low <= x /\ x < low + 2 * P
  BY <1>1, <1>6, BlockPages
<1>12. Aligned(low + P, ord + 1) => FALSE
  <2> SUFFICES ASSUME Aligned(low + P, ord + 1) PROVE FALSE
    OBVIOUS
  <2>1. PICK i \in Nat : low + P = i * (2 * P)
    BY <1>1 DEF Aligned
  <2>2. h * (2 * P) < i * (2 * P) /\ i * (2 * P) < (h + 1) * (2 * P)
    <3>1. (h + 1) * (2 * P) = h * (2 * P) + 2 * P
      BY <1>6, Products
    <3> QED BY <3>1, <2>1, <1>1, <1>6
  <2>3. h < i /\ i < h + 1
    BY <2>2, <1>6, Products
  <2> QED BY <2>3
<1> HIDE DEF low, P
<1>13. Lower(p, r) = low
  BY <1>1, <1>6, <1>7 DEF Lower
<1>14. low \in PageIds /\ low + P \in PageIds /\ r # p
  BY <1>1, <1>3, <1>6, <1>7, <1>9 DEF PageIds
<1>15. /\ Block(low, ord + 1) = Block(low, ord) \cup Block(low + P, ord)
       /\ Block(low, ord) \cap Block(low + P, ord) = {}
  BY <1>1, <1>6, <1>11
<1>16. CASE p = low /\ r = low + P
  BY <1>8, <1>10, <1>12, <1>13, <1>14, <1>15, <1>16 DEF r
<1>17. CASE p = low + P /\ r = low
  BY <1>8, <1>10, <1>12, <1>13, <1>14, <1>15, <1>17 DEF r
<1> QED BY <1>7, <1>16, <1>17

\* A block contains its first page and does not leave memory.
LEMMA BlockInMemory ==
  ASSUME NEW p \in PageIds, NEW ord \in Orders, Aligned(p, ord)
  PROVE  p \in Block(p, ord) /\ Block(p, ord) \subseteq PageIds
<1> USE OrderAssumption
<1>1. MAX_ORDER \in Orders /\ ord <= MAX_ORDER
  BY DEF Orders
<1>2. n_pages \in Nat \ {0} /\ n_pages = PagesOf(MAX_ORDER) /\ PagesOf(ord) \in Nat \ {0}
  BY <1>1, PagesFacts
<1>3. Aligned(0, MAX_ORDER)
  <2>1. 0 = 0 * PagesOf(MAX_ORDER)
    BY <1>2
  <2> QED BY <2>1 DEF Aligned
<1>4. p \in Nat /\ p <= p /\ p < p + PagesOf(ord) /\ p < n_pages
  BY <1>2 DEF PageIds
<1>5. p \in Block(p, ord) /\ p \in Block(0, MAX_ORDER)
  BY <1>1, <1>2, <1>4, BlockPages
<1>6. Block(p, ord) \subseteq Block(0, MAX_ORDER)
  BY <1>1, <1>3, <1>4, <1>5, BlocksNest
<1>7. Block(0, MAX_ORDER) = PageIds
  BY <1>2 DEF Block, PageIds
<1> QED BY <1>5, <1>6, <1>7

-----------------------------------------------------------------------------
(***************************************************************************)
(* Memory divided into blocks, which begin at the pages of starts.         *)
(***************************************************************************)
Divided(starts, size) ==
  /\ starts \subseteq PageIds
  /\ \A p \in starts : size[p] \in Orders /\ Aligned(p, size[p])
  /\ \A q \in PageIds : \E p \in starts : q \in Block(p, size[p])
  /\ \A p, r \in starts : p # r => Block(p, size[p]) \cap Block(r, size[r]) = {}

\* The page behind or before a block, where its buddy would begin, begins a block
\* that is not greater: buddy_combine() reads a valid entry of the page table.
LEMMA BuddyBegins ==
  ASSUME NEW starts, NEW size, Divided(starts, size),
         NEW p \in starts, size[p] < MAX_ORDER
  PROVE  /\ BuddyOf(p, size[p]) \in starts
         /\ size[BuddyOf(p, size[p])] <= size[p]
<1> USE OrderAssumption
<1> DEFINE ord == size[p]
           b == BuddyOf(p, ord)
<1>1. p \in PageIds /\ ord \in Orders /\ ord < MAX_ORDER /\ Aligned(p, ord)
  BY DEF Divided
<1>2. /\ b \in PageIds /\ Aligned(b, ord) /\ b # p
      /\ Lower(p, b) \in PageIds /\ Aligned(Lower(p, b), ord + 1)
      /\ Block(Lower(p, b), ord + 1) = Block(p, ord) \cup Block(b, ord)
  BY <1>1, BuddyFacts
<1>3. PICK r \in starts : b \in Block(r, size[r])
  BY <1>2 DEF Divided
<1> DEFINE k == size[r]
<1>4. /\ r \in PageIds /\ k \in Orders /\ Aligned(r, k) /\ ord + 1 \in Orders
  BY <1>1 DEF Divided, Orders
<1>5. PageIds \subseteq Nat /\ k \in Nat /\ ord \in Nat
  <2>1. PageIds \subseteq Nat /\ Orders \subseteq Nat
    BY PagesFacts DEF PageIds, Orders
  <2> QED BY <2>1, <1>1, <1>4
<1>6. p \in Block(p, ord) /\ b \in Block(b, ord) /\ r \in Block(r, k)
  BY <1>1, <1>2, <1>4, BlockInMemory
<1> HIDE DEF b
<1>7. k <= ord
  <2> SUFFICES ASSUME ~(k <= ord) PROVE FALSE
    OBVIOUS
  <2>1. ord + 1 <= k
    BY <1>5
  <2>2. Block(Lower(p, b), ord + 1) \subseteq Block(r, k)
    BY <2>1, <1>2, <1>3, <1>4, <1>5, <1>6, BlocksNest
  <2>3. p \in Block(r, k)
    BY <2>2, <1>2, <1>6
  <2>4. p # r
    <3>1. ord # k
      BY <2>1, <1>5
    <3> QED BY <3>1
  <2> QED BY <2>3, <2>4, <1>6 DEF Divided
<1>8. r <= b /\ b <= r
  <2>1. r \in Block(b, ord)
    BY <1>2, <1>3, <1>4, <1>5, <1>1, <1>6, <1>7, BlocksNest
  <2>2. r \in Nat /\ b \in Nat
    BY <1>2, <1>4, <1>5
  <2> QED BY <2>1, <2>2, <1>1, <1>3, <1>4, BlockPages
<1>9. r = b
  BY <1>2, <1>4, <1>5, <1>8
<1> QED BY <1>7, <1>9 DEF b

\* The second half of a block begins no block.
LEMMA SecondHalf ==
  ASSUME NEW starts, NEW size, Divided(starts, size),
         NEW p \in starts, NEW ord \in Orders, ord < MAX_ORDER, size[p] = ord + 1,
         NEW r, r = BuddyOf(p, ord)
  PROVE  /\ p \in PageIds /\ Aligned(p, ord)
         /\ r \in PageIds /\ Aligned(r, ord) /\ r \notin starts
         /\ p < r /\ BuddyOf(r, ord) = p
         /\ Block(p, ord + 1) = Block(p, ord) \cup Block(r, ord)
         /\ Block(p, ord) \cap Block(r, ord) = {}
<1> USE OrderAssumption
<1>1. /\ p \in PageIds /\ ord + 1 \in Orders /\ Aligned(p, ord + 1)
      /\ PageIds \subseteq Nat
  BY PageNumbers DEF Divided
<1>2. Aligned(p, ord)
  <2>1. PICK m \in Nat : p = m * (2 * PagesOf(ord))
    BY <1>1, PagesFacts DEF Aligned
  <2>2. p = (m * 2) * PagesOf(ord) /\ m * 2 \in Nat
    BY <2>1, PagesFacts, Products
  <2> QED BY <2>2 DEF Aligned
<1>3. /\ r \in PageIds /\ Aligned(r, ord) /\ r # p /\ Lower(p, r) = p
      /\ BuddyOf(r, ord) = p
      /\ Block(p, ord + 1) = Block(p, ord) \cup Block(r, ord)
      /\ Block(p, ord) \cap Block(r, ord) = {}
  BY <1>1, <1>2, BuddyFacts
<1>4. p < r
  BY <1>1, <1>3 DEF Lower
<1>5. r \in Block(r, ord)
  BY <1>3, BlockInMemory
<1>6. r \notin starts
  <2> SUFFICES ASSUME r \in starts PROVE FALSE
    OBVIOUS
  <2>1. r \in Block(r, size[r])
    BY BlockInMemory DEF Divided
  <2> QED BY <2>1, <1>3, <1>5 DEF Divided
<1> QED BY <1>1, <1>2, <1>3, <1>4, <1>6

\* buddy_split() divides a block into two.
LEMMA SplitDivides ==
  ASSUME NEW starts, NEW size, NEW size2, Divided(starts, size),
         NEW p \in starts, NEW ord \in Orders, ord < MAX_ORDER, size[p] = ord + 1,
         NEW r, r = BuddyOf(p, ord),
         \A q \in starts \ {p} : size2[q] = size[q],
         size2[p] = ord, size2[r] = ord
  PROVE  Divided(starts \cup {r}, size2)
<1>1. p \in PageIds /\ Aligned(p, ord)
  BY SecondHalf
<1>2. /\ r \in PageIds /\ Aligned(r, ord)
      /\ Block(p, ord + 1) = Block(p, ord) \cup Block(r, ord)
      /\ Block(p, ord) \cap Block(r, ord) = {}
  BY SecondHalf
<1>3. Divided(starts \cup {r}, size2)
  <2>1. starts \cup {r} \subseteq PageIds
    BY <1>2 DEF Divided
  <2>2. ASSUME NEW q \in starts \cup {r}
        PROVE  size2[q] \in Orders /\ Aligned(q, size2[q])
    <3>1. CASE q \in {p, r}
      BY <3>1, <1>1, <1>2
    <3>2. CASE q \in starts \ {p}
      BY <3>2 DEF Divided
    <3> QED BY <3>1, <3>2
  <2>3. ASSUME NEW q \in PageIds
        PROVE  \E x \in starts \cup {r} : q \in Block(x, size2[x])
    <3>1. PICK x \in starts : q \in Block(x, size[x])
      BY DEF Divided
    <3>2. CASE x = p
      BY <3>1, <3>2, <1>2
    <3>3. CASE x # p
      BY <3>1, <3>3
    <3> QED BY <3>2, <3>3
  <2>4. ASSUME NEW x \in starts \ {p}
        PROVE  /\ Block(x, size2[x]) \cap Block(p, size2[p]) = {}
               /\ Block(x, size2[x]) \cap Block(r, size2[r]) = {}
    <3>1. Block(x, size[x]) \cap Block(p, ord + 1) = {}
      BY DEF Divided
    <3> QED BY <3>1, <1>2
  <2>5. ASSUME NEW x \in starts \ {p}, NEW y \in starts \ {p}, x # y
        PROVE  Block(x, size2[x]) \cap Block(y, size2[y]) = {}
    BY <2>5 DEF Divided
  <2>6. ASSUME NEW x \in starts \cup {r}, NEW y \in starts \cup {r}, x # y
        PROVE  Block(x, size2[x]) \cap Block(y, size2[y]) = {}
    <3>1. CASE x \in {p, r} /\ y \in {p, r}
      BY <3>1, <2>6, <1>2
    <3>2. CASE x \in starts \ {p} /\ y \in {p, r}
      BY <3>2, <2>4
    <3>3. CASE x \in {p, r} /\ y \in starts \ {p}
      BY <3>3, <2>4
    <3>4. CASE x \in starts \ {p} /\ y \in starts \ {p}
      BY <3>4, <2>5, <2>6
    <3> QED BY <3>1, <3>2, <3>3, <3>4
  <2> QED BY <2>1, <2>2, <2>3, <2>6 DEF Divided
<1> QED BY <1>3

\* buddy_combine() makes one block of two.
LEMMA CombineDivides ==
  ASSUME NEW starts, NEW size, NEW size2, Divided(starts, size),
         NEW p \in starts, NEW r \in starts, NEW ord \in Orders, ord < MAX_ORDER,
         size[p] = ord, size[r] = ord, r = BuddyOf(p, ord),
         NEW first, first = Lower(p, r),
         \A q \in starts \ {first} : size2[q] = size[q],
         size2[first] = ord + 1
  PROVE  Divided((starts \ {p, r}) \cup {first}, size2)
<1> USE OrderAssumption
<1>1. p \in PageIds /\ Aligned(p, ord) /\ ord + 1 \in Orders
  BY DEF Divided, Orders
<1>2. /\ r # p /\ first \in PageIds /\ Aligned(first, ord + 1) /\ first \in {p, r}
      /\ Block(first, ord + 1) = Block(p, ord) \cup Block(r, ord)
  BY <1>1, BuddyFacts DEF Lower
<1> DEFINE rest == starts \ {p, r}
<1>3. ASSUME NEW x \in rest
      PROVE  size2[x] = size[x] /\ Block(x, size[x]) \cap Block(first, ord + 1) = {}
  <2>1. /\ Block(x, size[x]) \cap Block(p, ord) = {}
        /\ Block(x, size[x]) \cap Block(r, ord) = {}
    BY DEF Divided
  <2> QED BY <2>1, <1>2
<1>4. rest \cup {first} \subseteq PageIds
  BY <1>2 DEF Divided
<1>5. ASSUME NEW x \in rest \cup {first}
      PROVE  size2[x] \in Orders /\ Aligned(x, size2[x])
  <2>1. CASE x = first
    BY <2>1, <1>1, <1>2
  <2>2. CASE x \in rest
    BY <2>2, <1>3 DEF Divided
  <2> QED BY <2>1, <2>2
<1>6. ASSUME NEW q \in PageIds
      PROVE  \E x \in rest \cup {first} : q \in Block(x, size2[x])
  <2>1. PICK x \in starts : q \in Block(x, size[x])
    BY DEF Divided
  <2>2. CASE x \in {p, r}
    BY <2>1, <2>2, <1>2
  <2>3. CASE x \in rest
    BY <2>1, <2>3, <1>3
  <2> QED BY <2>2, <2>3
<1>7. ASSUME NEW x \in rest \cup {first}, NEW y \in rest \cup {first}, x # y
      PROVE  Block(x, size2[x]) \cap Block(y, size2[y]) = {}
  <2>1. CASE x \in rest /\ y \in rest
    BY <2>1, <1>3, <1>7 DEF Divided
  <2>2. CASE x = first /\ y \in rest
    BY <2>2, <1>3
  <2>3. CASE x \in rest /\ y = first
    BY <2>3, <1>3
  <2> QED BY <2>1, <2>2, <2>3, <1>7
<1> QED BY <1>4, <1>5, <1>6, <1>7 DEF Divided

-----------------------------------------------------------------------------
(***************************************************************************)
(* Free lists.                                                             *)
(***************************************************************************)
Sorted(list) == \A k, l \in 1 .. Len(list) : k < l => list[k] < list[l]

\* The pages of a list.
Pages(list) == {list[k] : k \in 1 .. Len(list)}

\* The first element of a sequence.
LEMMA HeadFacts ==
  ASSUME NEW D, NEW s \in Seq(D), Len(s) # 0
  PROVE  s # <<>> /\ Head(s) = s[1]
OBVIOUS

\* Part of a sequence.
LEMMA PartFacts ==
  ASSUME NEW D, NEW s \in Seq(D), NEW m \in Int, NEW n \in Int,
         1 <= m, m <= n + 1, n <= Len(s)
  PROVE  /\ SubSeq(s, m, n) \in Seq(D) /\ Len(SubSeq(s, m, n)) = n - m + 1
         /\ \A k \in 1 .. n - m + 1 : SubSeq(s, m, n)[k] = s[m + k - 1]
OBVIOUS

\* Two sequences, one behind the other.
LEMMA JoinFacts ==
  ASSUME NEW D, NEW a \in Seq(D), NEW b \in Seq(D)
  PROVE  /\ a \o b \in Seq(D) /\ Len(a \o b) = Len(a) + Len(b)
         /\ \A k \in 1 .. Len(a) : (a \o b)[k] = a[k]
         /\ \A k \in Len(a) + 1 .. Len(a) + Len(b) : (a \o b)[k] = b[k - Len(a)]
OBVIOUS

\* An element is taken out of a sequence.
LEMMA RemoveAtFacts ==
  ASSUME NEW D, NEW s \in Seq(D), NEW n \in 1 .. Len(s)
  PROVE  /\ RemoveAt(s, n) \in Seq(D) /\ Len(RemoveAt(s, n)) = Len(s) - 1
         /\ \A k \in 1 .. Len(s) - 1 :
              RemoveAt(s, n)[k] = IF k < n THEN s[k] ELSE s[k + 1]
<1> DEFINE a == SubSeq(s, 1, n - 1)
           b == SubSeq(s, n + 1, Len(s))
           L == Len(s)
<1>1. a \in Seq(D) /\ Len(a) = n - 1 /\ \A k \in 1 .. n - 1 : a[k] = s[k]
  OBVIOUS
<1>2. b \in Seq(D) /\ Len(b) = L - n /\ \A k \in 1 .. L - n : b[k] = s[n + k]
  OBVIOUS
<1>3. RemoveAt(s, n) = a \o b /\ L \in Nat /\ n \in 1 .. L
  BY DEF RemoveAt
<1> HIDE DEF a, b, L
<1>4. /\ a \o b \in Seq(D) /\ Len(a \o b) = Len(a) + Len(b)
      /\ \A k \in 1 .. Len(a) : (a \o b)[k] = a[k]
      /\ \A k \in Len(a) + 1 .. Len(a) + Len(b) : (a \o b)[k] = b[k - Len(a)]
  BY <1>1, <1>2, JoinFacts
<1>5. Len(a \o b) = L - 1
  BY <1>1, <1>2, <1>3, <1>4
<1>6. ASSUME NEW k \in 1 .. L - 1 PROVE (a \o b)[k] = IF k < n THEN s[k] ELSE s[k + 1]
  <2>1. CASE k < n
    BY <1>1, <1>3, <1>4, <2>1
  <2>2. CASE ~(k < n)
    <3>1. /\ k - (n - 1) \in 1 .. L - n /\ n + (k - (n - 1)) = k + 1
          /\ k \in (n - 1) + 1 .. (n - 1) + (L - n)
      BY <1>3, <2>2
    <3> QED BY <3>1, <1>1, <1>2, <1>4, <2>2
  <2> QED BY <2>1, <2>2
<1> QED BY <1>3, <1>4, <1>5, <1>6 DEF L

\* An element is put into a sequence.
IsWith(t, s, n, e) ==
  /\ t \in Seq(PageIds) /\ Len(t) = Len(s) + 1
  /\ \A k \in 1 .. Len(s) + 1 : t[k] = IF k < n THEN s[k] ELSE IF k = n THEN e ELSE s[k - 1]

LEMMA InsertAtFacts ==
  ASSUME NEW s \in Seq(PageIds), NEW e \in PageIds, NEW n \in 1 .. Len(s) + 1
  PROVE  IsWith(InsertAt(s, n, e), s, n, e)
<1> DEFINE a == SubSeq(s, 1, n - 1)
           b == SubSeq(s, n, Len(s))
           c == a \o <<e>>
           L == Len(s)
<1>1. a \in Seq(PageIds) /\ Len(a) = n - 1 /\ \A k \in 1 .. n - 1 : a[k] = s[k]
  OBVIOUS
<1>2. b \in Seq(PageIds) /\ Len(b) = L - n + 1 /\ \A k \in 1 .. L - n + 1 : b[k] = s[n + k - 1]
  OBVIOUS
<1>3. InsertAt(s, n, e) = c \o b /\ L \in Nat /\ n \in 1 .. L + 1
  BY DEF InsertAt
<1> HIDE DEF a, b, L
<1>4. c \in Seq(PageIds) /\ Len(c) = n /\ c[n] = e /\ \A k \in 1 .. n - 1 : c[k] = s[k]
  BY <1>1
<1> HIDE DEF c
<1>5. /\ c \o b \in Seq(PageIds) /\ Len(c \o b) = Len(c) + Len(b)
      /\ \A k \in 1 .. Len(c) : (c \o b)[k] = c[k]
      /\ \A k \in Len(c) + 1 .. Len(c) + Len(b) : (c \o b)[k] = b[k - Len(c)]
  BY <1>2, <1>4, JoinFacts
<1>6. Len(c \o b) = L + 1
  BY <1>2, <1>3, <1>4, <1>5
<1>7. ASSUME NEW k \in 1 .. L + 1
      PROVE  (c \o b)[k] = IF k < n THEN s[k] ELSE IF k = n THEN e ELSE s[k - 1]
  <2>1. CASE k < n
    <3>1. k \in 1 .. n - 1 /\ k \in 1 .. n
      BY <1>3, <2>1
    <3>2. c[k] = s[k] /\ (c \o b)[k] = c[k]
      BY <3>1, <1>4, <1>5
    <3> QED BY <3>2, <2>1
  <2>2. CASE k = n
    <3>1. k \in 1 .. n
      BY <1>3, <2>2
    <3>2. (c \o b)[k] = c[k] /\ ~(k < n)
      BY <3>1, <1>3, <1>4, <1>5, <2>2
    <3> QED BY <3>2, <1>4, <2>2
  <2>3. CASE n < k
    <3>1. /\ k - n \in 1 .. L - n + 1 /\ n + (k - n) - 1 = k - 1
          /\ k \in n + 1 .. n + (L - n + 1)
      BY <1>3, <2>3
    <3>2. (c \o b)[k] = b[k - n] /\ b[k - n] = s[k - 1]
      BY <3>1, <1>2, <1>4, <1>5
    <3>3. ~(k < n) /\ k # n
      BY <1>3, <2>3
    <3> QED BY <3>2, <3>3
  <2>4. k < n \/ k = n \/ n < k
    BY <1>3
  <2> QED BY <2>1, <2>2, <2>3, <2>4
<1> QED BY <1>3, <1>5, <1>6, <1>7 DEF L, IsWith

\* The first block is taken off: the others are left, in their order.
LEMMA TailSorted ==
  ASSUME NEW s \in Seq(PageIds), s # <<>>, Sorted(s)
  PROVE  /\ Head(s) \in PageIds /\ Head(s) \in Pages(s)
         /\ Tail(s) \in Seq(PageIds) /\ Sorted(Tail(s))
         /\ Pages(Tail(s)) = Pages(s) \ {Head(s)}
<1> DEFINE t == Tail(s)
<1>1. /\ Len(s) \in Nat \ {0} /\ Head(s) = s[1] /\ s[1] \in PageIds
      /\ t \in Seq(PageIds) /\ Len(t) = Len(s) - 1
      /\ \A k \in 1 .. Len(s) - 1 : t[k] = s[k + 1]
  OBVIOUS
<1>2. \A k \in 1 .. Len(s) : s[k] \in PageIds
  OBVIOUS
<1>3. PageIds \subseteq Int
  BY PageNumbers
<1> HIDE DEF t
<1>4. Sorted(t)
  BY <1>1 DEF Sorted
<1>5. \A k \in 2 .. Len(s) : s[1] < s[k]
  BY <1>1 DEF Sorted
<1>6. Pages(t) \subseteq Pages(s) \ {s[1]}
  <2> SUFFICES ASSUME NEW k \in 1 .. Len(s) - 1
               PROVE  s[k + 1] \in Pages(s) /\ s[k + 1] # s[1]
    BY <1>1 DEF Pages
  <2>1. k + 1 \in 2 .. Len(s) /\ k + 1 \in 1 .. Len(s)
    BY <1>1
  <2>2. s[1] < s[k + 1] /\ s[1] \in Int /\ s[k + 1] \in Int
    BY <2>1, <1>1, <1>2, <1>3, <1>5
  <2> QED BY <2>1, <2>2 DEF Pages
<1>7. Pages(s) \ {s[1]} \subseteq Pages(t)
  <2> SUFFICES ASSUME NEW k \in 1 .. Len(s), s[k] # s[1]
               PROVE  s[k] \in Pages(t)
    BY DEF Pages
  <2>1. k - 1 \in 1 .. Len(s) - 1 /\ (k - 1) + 1 = k
    BY <1>1
  <2>2. t[k - 1] = s[k] /\ k - 1 \in 1 .. Len(t)
    BY <2>1, <1>1
  <2> QED BY <2>2 DEF Pages
<1>8. s[1] \in Pages(s)
  BY <1>1 DEF Pages
<1> QED BY <1>1, <1>4, <1>6, <1>7, <1>8 DEF t

\* Two blocks in front of none.
LEMMA PairSorted ==
  ASSUME NEW p \in PageIds, NEW r \in PageIds, p < r
  PROVE  /\ <<p, r>> \o <<>> \in Seq(PageIds) /\ Sorted(<<p, r>> \o <<>>)
         /\ Pages(<<p, r>> \o <<>>) = {p, r} /\ Head(<<p, r>> \o <<>>) = p
         /\ <<p, r>> \o <<>> # <<>>
<1> DEFINE s == <<p, r>> \o <<>>
<1>1. s \in Seq(PageIds) /\ Len(s) = 2 /\ s[1] = p /\ s[2] = r
  OBVIOUS
<1> HIDE DEF s
<1>2. 1 .. Len(s) = {1, 2}
  BY <1>1
<1>3. Sorted(s)
  BY <1>1, <1>2 DEF Sorted
<1>4. Pages(s) = {p, r}
  BY <1>1, <1>2 DEF Pages
<1>5. s # <<>> /\ Head(s) = p
  <2>1. Len(s) # 0
    BY <1>1
  <2>2. s # <<>> /\ Head(s) = s[1]
    BY <2>1, <1>1, HeadFacts
  <2> QED BY <2>2, <1>1
<1> QED BY <1>1, <1>3, <1>4, <1>5 DEF s

\* A block is taken off, from wherever it hangs.
LEMMA RemoveSorted ==
  ASSUME NEW s \in Seq(PageIds), Sorted(s), NEW n \in 1 .. Len(s)
  PROVE  /\ RemoveAt(s, n) \in Seq(PageIds) /\ Sorted(RemoveAt(s, n))
         /\ Pages(RemoveAt(s, n)) = Pages(s) \ {s[n]}
<1> DEFINE t == RemoveAt(s, n)
<1>1. /\ Len(s) \in Nat /\ t \in Seq(PageIds) /\ Len(t) = Len(s) - 1
      /\ \A k \in 1 .. Len(s) - 1 : t[k] = IF k < n THEN s[k] ELSE s[k + 1]
  BY RemoveAtFacts
<1>2. \A k \in 1 .. Len(s) : s[k] \in Int
  <2>1. \A k \in 1 .. Len(s) : s[k] \in PageIds
    OBVIOUS
  <2> QED BY <2>1, PageNumbers
<1> HIDE DEF t
<1>3. \A k, l \in 1 .. Len(s) : k < l => s[k] < s[l]
  BY DEF Sorted
<1>4. Sorted(t)
  <2> SUFFICES ASSUME NEW k \in 1 .. Len(s) - 1, NEW l \in 1 .. Len(s) - 1, k < l
               PROVE  t[k] < t[l]
    BY <1>1 DEF Sorted
  <2>1. CASE l < n
    <3>1. k \in 1 .. Len(s) /\ l \in 1 .. Len(s) /\ t[k] = s[k] /\ t[l] = s[l]
      BY <1>1, <2>1
    <3> QED BY <1>3, <3>1
  <2>2. CASE k < n /\ ~(l < n)
    <3>1. k \in 1 .. Len(s) /\ l + 1 \in 1 .. Len(s) /\ k < l + 1 /\ t[k] = s[k] /\ t[l] = s[l + 1]
      BY <1>1, <2>2
    <3> QED BY <1>3, <3>1
  <2>3. CASE ~(k < n)
    <3>1. /\ k + 1 \in 1 .. Len(s) /\ l + 1 \in 1 .. Len(s) /\ k + 1 < l + 1
          /\ t[k] = s[k + 1] /\ t[l] = s[l + 1]
      BY <1>1, <2>3
    <3> QED BY <1>3, <3>1
  <2> QED BY <2>1, <2>2, <2>3
<1>5. Pages(t) \subseteq Pages(s) \ {s[n]}
  <2> SUFFICES ASSUME NEW k \in 1 .. Len(s) - 1
               PROVE  t[k] \in Pages(s) /\ t[k] # s[n]
    BY <1>1 DEF Pages
  <2>1. PICK l \in 1 .. Len(s) : t[k] = s[l] /\ l # n
    <3>1. k \in 1 .. Len(s) /\ k + 1 \in 1 .. Len(s)
      BY <1>1
    <3>2. CASE k < n
      BY <1>1, <3>1, <3>2
    <3>3. CASE ~(k < n)
      BY <1>1, <3>1, <3>3
    <3> QED BY <3>2, <3>3
  <2>2. s[l] # s[n]
    <3>1. l < n \/ n < l
      BY <2>1
    <3>2. s[l] < s[n] \/ s[n] < s[l]
      BY <3>1, <1>3
    <3> QED BY <3>2, <1>2
  <2> QED BY <2>1, <2>2 DEF Pages
<1>6. Pages(s) \ {s[n]} \subseteq Pages(t)
  <2> SUFFICES ASSUME NEW l \in 1 .. Len(s), l # n
               PROVE  s[l] \in Pages(t)
    BY DEF Pages
  <2>1. CASE l < n
    <3>1. l \in 1 .. Len(t) /\ t[l] = s[l]
      BY <1>1, <2>1
    <3> QED BY <3>1 DEF Pages
  <2>2. CASE l > n
    <3>1. l - 1 \in 1 .. Len(t) /\ ~(l - 1 < n) /\ (l - 1) + 1 = l
      BY <1>1, <2>2
    <3>2. t[l - 1] = s[l]
      BY <1>1, <3>1
    <3> QED BY <3>1, <3>2 DEF Pages
  <2> QED BY <2>1, <2>2
<1> QED BY <1>1, <1>4, <1>5, <1>6 DEF t

\* A freed block goes to its place.
LEMMA SortedInSorted ==
  ASSUME NEW s \in Seq(PageIds), Sorted(s), NEW page \in PageIds, page \notin Pages(s)
  PROVE  /\ SortedIn(s, page) \in Seq(PageIds) /\ Sorted(SortedIn(s, page))
         /\ Pages(SortedIn(s, page)) = Pages(s) \cup {page}
<1> DEFINE IsPlace(n) == /\ \A l \in 1 .. n - 1 : s[l] <= page
                         /\ n <= Len(s) => page < s[n]
           T == {m \in 1 .. Len(s) + 1 : m <= Len(s) => page < s[m]}
           n == CHOOSE k \in 1 .. Len(s) + 1 : IsPlace(k)
           t == SortedIn(s, page)
<1>1. \A k \in 1 .. Len(s) : s[k] \in Int /\ s[k] # page
  BY PageNumbers DEF Pages
<1>2. page \in Int /\ Len(s) \in Nat
  BY PageNumbers
<1>3. \E k \in 1 .. Len(s) + 1 : IsPlace(k)
  <2>1. T \subseteq Nat /\ Len(s) + 1 \in T
    BY <1>2
  <2>2. PICK m \in T : \A k \in T : m <= k
    BY <2>1, LeastNumber
  <2>3. m \in 1 .. Len(s) + 1 /\ (m <= Len(s) => page < s[m])
    BY <2>2
  <2>4. ASSUME NEW k \in 1 .. m - 1 PROVE s[k] <= page
    <3>1. k \in 1 .. Len(s) /\ k \notin T
      BY <1>2, <2>2, <2>3
    <3> QED BY <3>1, <1>1, <1>2
  <2> QED BY <2>3, <2>4
<1>4. n \in 1 .. Len(s) + 1 /\ IsPlace(n)
  BY <1>3
<1>5. t = InsertAt(s, n, page)
  BY DEF SortedIn
<1> HIDE DEF n, t, T, IsPlace
<1>6. /\ t \in Seq(PageIds) /\ Len(t) = Len(s) + 1
      /\ \A k \in 1 .. Len(s) + 1 :
           t[k] = IF k < n THEN s[k] ELSE IF k = n THEN page ELSE s[k - 1]
  <2>1. n \in 1 .. Len(s) + 1
    BY <1>4
  <2>2. IsWith(t, s, n, page)
    BY <2>1, <1>5, InsertAtFacts
  <2> QED BY <2>2 DEF IsWith
<1>7. \A k, l \in 1 .. Len(s) : k < l => s[k] < s[l]
  BY DEF Sorted
<1> USE DEF IsPlace
<1>8. \A k \in 1 .. Len(s) : (k < n => s[k] < page) /\ (n <= k => page < s[k])
  <2> SUFFICES ASSUME NEW k \in 1 .. Len(s)
               PROVE  (k < n => s[k] < page) /\ (n <= k => page < s[k])
    OBVIOUS
  <2>1. CASE k < n
    <3>1. k \in 1 .. n - 1
      BY <2>1, <1>4
    <3> QED BY <3>1, <2>1, <1>1, <1>2, <1>4
  <2>2. CASE k = n
    BY <2>2, <1>4
  <2>3. CASE n < k
    <3>1. n \in 1 .. Len(s) /\ s[n] < s[k] /\ page < s[n]
      BY <2>3, <1>4, <1>7
    <3> QED BY <3>1, <2>3, <1>1, <1>2
  <2> QED BY <2>1, <2>2, <2>3, <1>4
<1> HIDE DEF IsPlace
<1>9. Sorted(t)
  <2> SUFFICES ASSUME NEW k \in 1 .. Len(s) + 1, NEW l \in 1 .. Len(s) + 1, k < l
               PROVE  t[k] < t[l]
    BY <1>6 DEF Sorted
  <2>1. CASE l < n
    <3>1. k \in 1 .. Len(s) /\ l \in 1 .. Len(s) /\ k < n
      BY <2>1, <1>2, <1>4
    <3>2. t[k] = s[k] /\ t[l] = s[l]
      BY <2>1, <3>1, <1>6
    <3> QED BY <3>1, <3>2, <1>7
  <2>2. CASE l = n
    BY <2>2, <1>4, <1>6, <1>8
  <2>3. CASE k < n /\ n < l
    <3>1. /\ k \in 1 .. Len(s) /\ l - 1 \in 1 .. Len(s)
          /\ t[k] = s[k] /\ t[l] = s[l - 1] /\ n <= l - 1
      BY <2>3, <1>4, <1>6
    <3>2. k \in 1 .. Len(s) /\ l - 1 \in 1 .. Len(s) /\ k < l - 1
      BY <2>3, <1>4
    <3> QED BY <3>1, <3>2, <1>7
  <2>4. CASE k = n
    <3>1. l - 1 \in 1 .. Len(s) /\ n <= l - 1 /\ t[k] = page /\ t[l] = s[l - 1]
      BY <2>4, <1>4, <1>6
    <3> QED BY <3>1, <1>8
  <2>5. CASE n < k
    <3>1. /\ k - 1 \in 1 .. Len(s) /\ l - 1 \in 1 .. Len(s) /\ k - 1 < l - 1
          /\ t[k] = s[k - 1] /\ t[l] = s[l - 1]
      BY <2>5, <1>4, <1>6
    <3> QED BY <3>1, <1>7
  <2> QED BY <2>1, <2>2, <2>3, <2>4, <2>5, <1>4
<1>10. Pages(t) \subseteq Pages(s) \cup {page}
  <2> SUFFICES ASSUME NEW k \in 1 .. Len(s) + 1
               PROVE  t[k] \in Pages(s) \cup {page}
    BY <1>6 DEF Pages
  <2>1. CASE k < n
    <3>1. k \in 1 .. Len(s) /\ t[k] = s[k]
      BY <2>1, <1>4, <1>6
    <3> QED BY <3>1 DEF Pages
  <2>2. CASE k = n
    BY <2>2, <1>6
  <2>3. CASE n < k
    <3>1. k - 1 \in 1 .. Len(s) /\ t[k] = s[k - 1]
      BY <2>3, <1>4, <1>6
    <3> QED BY <3>1 DEF Pages
  <2> QED BY <2>1, <2>2, <2>3, <1>4
<1>11. page \in Pages(t)
  <2>1. n \in 1 .. Len(t) /\ t[n] = page
    BY <1>4, <1>6
  <2> QED BY <2>1 DEF Pages
<1>12. Pages(s) \subseteq Pages(t)
  <2> SUFFICES ASSUME NEW k \in 1 .. Len(s) PROVE s[k] \in Pages(t)
    BY DEF Pages
  <2>1. CASE k < n
    <3>1. k \in 1 .. Len(t) /\ t[k] = s[k]
      BY <2>1, <1>6
    <3> QED BY <3>1 DEF Pages
  <2>2. CASE n <= k
    <3>1. k + 1 \in 1 .. Len(t) /\ (k + 1) - 1 = k /\ ~(k + 1 < n) /\ k + 1 # n
      BY <2>2, <1>4, <1>6
    <3>2. t[k + 1] = s[k]
      BY <3>1, <1>6
    <3> QED BY <3>1, <3>2 DEF Pages
  <2> QED BY <2>1, <2>2, <1>4
<1> QED BY <1>6, <1>9, <1>10, <1>11, <1>12 DEF t

-----------------------------------------------------------------------------
(***************************************************************************)
(* The inductive invariant of the allocator.                               *)
(***************************************************************************)
FreePages == UNION {Pages(free_area[ord]) : ord \in Orders}

\* The block that buddy_free() has marked, and not yet put into a list.
InHand == IF op \in {"combine", "insert"} THEN {the_page} ELSE {}

Starts == Allocated \cup FreePages \cup InHand

MemoryDivided == Divided(Starts, block_size)

Listed == \A ord \in Orders : \A p \in Pages(free_area[ord]) :
            is_free[p] = 1 /\ block_size[p] = ord /\ p \notin InHand

AllSorted == \A ord \in Orders : Sorted(free_area[ord])

\* Of a request, the lists between are empty; the next block to split or to take
\* is there, and needed is the order of the size asked for.
Splitting == op = "split" => /\ needed <= o
                             /\ free_area[o] # <<>>
                             /\ \A k \in needed .. o - 1 : free_area[k] = <<>>
                             /\ asked \in Sizes /\ IsNeeded(needed, asked)

\* Only the pair that the last split has left is in a list, and one of its blocks
\* goes next.
NoPairs == \A ord \in Orders : ord < MAX_ORDER =>
             \A p \in Pages(free_area[ord]) :
               BuddyOf(p, ord) \in Pages(free_area[ord]) =>
                 op = "split" /\ ord = o /\ Head(free_area[o]) \in {p, BuddyOf(p, ord)}

Combining == /\ op \in {"combine", "insert"} => is_free[the_page] = 1
             /\ op = "insert" => block_size[the_page] = MAX_ORDER

BuddyInv == /\ BuddyTypeOK
            /\ MemoryDivided
            /\ Listed
            /\ AllSorted
            /\ Splitting
            /\ NoPairs
            /\ Combining

\* The parts of the type invariant, and what they say of a block that hangs in a list.
LEMMA ListFacts ==
  ASSUME BuddyInv
  PROVE  /\ \A ord \in Orders : free_area[ord] \in Seq(PageIds) /\ Sorted(free_area[ord])
         /\ \A ord \in Orders : \A p \in Pages(free_area[ord]) :
              /\ p \in PageIds /\ is_free[p] = 1 /\ block_size[p] = ord
              /\ p \notin InHand /\ p \notin Allocated /\ p \in Starts
              /\ \A k \in Orders : p \in Pages(free_area[k]) => k = ord
<1>1. \A ord \in Orders : free_area[ord] \in Seq(PageIds) /\ Sorted(free_area[ord])
  BY DEF BuddyInv, BuddyTypeOK, AllSorted
<1>2. ASSUME NEW ord \in Orders, NEW p \in Pages(free_area[ord])
      PROVE  /\ p \in PageIds /\ is_free[p] = 1 /\ block_size[p] = ord
             /\ p \notin InHand /\ p \notin Allocated /\ p \in Starts
             /\ \A k \in Orders : p \in Pages(free_area[k]) => k = ord
  <2>1. p \in PageIds
    BY <1>1 DEF Pages
  <2>2. is_free[p] = 1 /\ block_size[p] = ord /\ p \notin InHand
    BY DEF BuddyInv, Listed
  <2>3. p \notin Allocated
    BY <2>2 DEF Allocated
  <2>4. p \in Starts
    BY DEF Starts, FreePages
  <2>5. \A k \in Orders : p \in Pages(free_area[k]) => k = ord
    BY <2>2 DEF BuddyInv, Listed
  <2> QED BY <2>1, <2>2, <2>3, <2>4, <2>5
<1> QED BY <1>1, <1>2

\* Memory is one free block.
LEMMA InitBuddyInv ==
  ASSUME buddy_init
  PROVE  BuddyInv
<1> USE OrderAssumption
<1>1. /\ MIN_ORDER \in Orders /\ MAX_ORDER \in Orders /\ 0 \in PageIds
      /\ n_pages \in Nat \ {0} /\ PagesOf(MAX_ORDER) = n_pages
  <2>1. MIN_ORDER \in Orders /\ MAX_ORDER \in Orders
    BY DEF Orders
  <2> QED BY <2>1, PagesFacts DEF PageIds
<1>2. /\ free_area[MAX_ORDER] = <<0>> /\ \A k \in Orders \ {MAX_ORDER} : free_area[k] = <<>>
      /\ op = "idle" /\ block_size[0] = MAX_ORDER /\ \A p \in PageIds : is_free[p] = 1
  BY <1>1 DEF buddy_init
<1>3. BuddyTypeOK
  <2>1. <<0>> \in Seq(PageIds) /\ <<>> \in Seq(PageIds)
    BY <1>1
  <2> QED BY <2>1, <1>1 DEF buddy_init, BuddyTypeOK
<1>4. Pages(<<0>>) = {0} /\ Pages(<<>>) = {} /\ Sorted(<<0>>) /\ Sorted(<<>>)
  BY DEF Pages, Sorted
<1>5. Starts = {0} /\ InHand = {}
  <2>1. Allocated = {} /\ InHand = {}
    BY <1>2 DEF Allocated, InHand
  <2>2. FreePages = {0}
    BY <1>1, <1>2, <1>4 DEF FreePages
  <2> QED BY <2>1, <2>2 DEF Starts
<1>6. MemoryDivided
  <2>1. Aligned(0, MAX_ORDER)
    <3>1. 0 = 0 * PagesOf(MAX_ORDER)
      BY <1>1
    <3> QED BY <3>1 DEF Aligned
  <2>2. Block(0, MAX_ORDER) = PageIds
    BY <1>1 DEF Block, PageIds
  <2> QED BY <2>1, <2>2, <1>1, <1>2, <1>5 DEF MemoryDivided, Divided
<1>7. Listed /\ AllSorted
  BY <1>1, <1>2, <1>4, <1>5 DEF Listed, AllSorted
<1>8. NoPairs
  <2>1. \A ord \in Orders : ord < MAX_ORDER => ord \in Orders \ {MAX_ORDER}
    BY DEF Orders
  <2> QED BY <2>1, <1>2, <1>4 DEF NoPairs
<1>9. Splitting /\ Combining
  BY <1>2 DEF Splitting, Combining
<1> QED BY <1>3, <1>6, <1>7, <1>8, <1>9 DEF BuddyInv

\* A step that changes no block.
LEMMA SameBlocks ==
  ASSUME BuddyInv,
         free_area' = free_area, is_free' = is_free, block_size' = block_size,
         op' = op, o' = o, needed' = needed, the_page' = the_page,
         ret' \in PageIds \cup {NULL}, asked' \in Sizes \cup {NULL},
         op = "split" => asked' = asked
  PROVE  BuddyInv' /\ Allocated' = Allocated
<1>1. BuddyTypeOK'
  BY DEF BuddyInv, BuddyTypeOK
<1>2. Allocated' = Allocated /\ FreePages' = FreePages /\ InHand' = InHand
  BY DEF Allocated, FreePages, InHand
<1>3. MemoryDivided' /\ Listed' /\ AllSorted'
  BY <1>2 DEF BuddyInv, MemoryDivided, Starts, Listed, AllSorted
<1>4. Splitting' /\ NoPairs' /\ Combining'
  BY DEF BuddyInv, Splitting, NoPairs, Combining
<1> QED BY <1>1, <1>2, <1>3, <1>4 DEF BuddyInv

\* A request looks for a block.
LEMMA AllocStartsInv ==
  ASSUME BuddyInv, NEW size \in Sizes, AllocStarts(size)
  PROVE  BuddyInv'
<1> USE OrderAssumption
<1>1. PICK ord \in Orders, found \in Orders :
        /\ IsNeeded(ord, size) /\ IsFirstOpen(found, ord)
        /\ needed' = ord /\ o' = found
  BY DEF AllocStarts
<1>2. /\ op = "idle" /\ op' = "split"
      /\ free_area' = free_area /\ is_free' = is_free /\ block_size' = block_size
      /\ the_page' = the_page /\ ret' = ret /\ asked' = size
  BY DEF AllocStarts
<1>3. Allocated' = Allocated /\ FreePages' = FreePages /\ InHand' = {} /\ InHand = {}
  BY <1>2 DEF Allocated, FreePages, InHand
<1>4. BuddyTypeOK'
  BY <1>1, <1>2 DEF BuddyInv, BuddyTypeOK
<1>5. MemoryDivided'
  BY <1>2, <1>3 DEF BuddyInv, MemoryDivided, Starts
<1>6. Listed' /\ AllSorted'
  BY <1>2, <1>3 DEF BuddyInv, Listed, AllSorted
<1>7. Splitting'
  <2>1. /\ found \in ord .. MAX_ORDER /\ free_area[found] # <<>>
        /\ \A k \in ord .. found - 1 : free_area[k] = <<>>
    BY <1>1 DEF IsFirstOpen
  <2>2. ord <= found
    BY <2>1 DEF Orders
  <2>3. IsNeeded(needed', asked')
    BY <1>1, <1>2
  <2> QED BY <2>1, <2>2, <2>3, <1>1, <1>2 DEF Splitting
<1>8. NoPairs'
  BY <1>2 DEF BuddyInv, NoPairs
<1>9. Combining'
  BY <1>2 DEF Combining
<1> QED BY <1>4, <1>5, <1>6, <1>7, <1>8, <1>9 DEF BuddyInv

\* buddy_split(): the list it adds to was empty, and the page behind began no block.
LEMMA SplitInv ==
  ASSUME BuddyInv, Split
  PROVE  BuddyInv'
<1> USE OrderAssumption
<1> DEFINE h == Head(free_area[o])
           k == o - 1
           r == BuddyOf(h, k)
<1>1. /\ op = "split" /\ o > needed /\ o \in Orders /\ needed \in Orders
      /\ free_area[o] # <<>> /\ is_free \in [PageIds -> {0, 1}]
      /\ free_area \in [Orders -> Seq(PageIds)] /\ block_size \in [PageIds -> Orders \cup {0}]
  BY DEF Split, BuddyInv, BuddyTypeOK, Splitting
<1>2. /\ k \in Orders /\ k < MAX_ORDER /\ k + 1 = o /\ needed <= k /\ k # o
      /\ k \in needed .. o - 1
  BY <1>1 DEF Orders
<1>3. free_area[k] = <<>>
  BY <1>1, <1>2 DEF BuddyInv, Splitting
<1>4. /\ h \in PageIds /\ h \in Pages(free_area[o])
      /\ Tail(free_area[o]) \in Seq(PageIds) /\ Sorted(Tail(free_area[o]))
      /\ Pages(Tail(free_area[o])) = Pages(free_area[o]) \ {h}
  BY <1>1, ListFacts, TailSorted
<1>5. h \in Starts /\ block_size[h] = k + 1 /\ is_free[h] = 1
  BY <1>1, <1>2, <1>4, ListFacts
<1>6. /\ free_area' = [free_area EXCEPT ![o] = Tail(free_area[o]), ![k] = <<h, r>> \o <<>>]
      /\ block_size' = [block_size EXCEPT ![h] = k, ![r] = k]
      /\ o' = k
      /\ is_free' = is_free /\ op' = op /\ needed' = needed
      /\ the_page' = the_page /\ ret' = ret /\ asked' = asked
  BY <1>1, <1>2, <1>3 DEF Split
<1> HIDE DEF h, k
<1>7. /\ r \in PageIds /\ r \notin Starts /\ h < r /\ BuddyOf(r, k) = h
      /\ Divided(Starts \cup {r}, block_size')
  <2> DEFINE x == r
  <2>1. x = BuddyOf(h, k)
    OBVIOUS
  <2>2. Divided(Starts, block_size) /\ Starts \subseteq PageIds
    BY DEF BuddyInv, MemoryDivided, Divided
  <2> HIDE DEF x
  <2>3. x \in PageIds /\ x \notin Starts /\ h < x /\ BuddyOf(x, k) = h
    BY <2>1, <2>2, <1>2, <1>5, SecondHalf
  <2>4. block_size'[h] = k /\ block_size'[x] = k
    BY <1>1, <1>4, <1>6, <2>1, <2>3
  <2>5. \A q \in Starts \ {h} : block_size'[q] = block_size[q]
    BY <1>1, <1>6, <2>1, <2>2, <2>3
  <2>6. Divided(Starts \cup {x}, block_size')
    BY <2>1, <2>2, <2>4, <2>5, <1>2, <1>5, SplitDivides
  <2> QED BY <2>1, <2>3, <2>6
<1> DEFINE pair == <<h, r>> \o <<>>
<1>8. /\ pair \in Seq(PageIds) /\ Sorted(pair) /\ Pages(pair) = {h, r}
      /\ Head(pair) = h /\ pair # <<>>
  BY <1>4, <1>7, PairSorted
<1> HIDE DEF r
<1>10. /\ free_area'[o] = Tail(free_area[o]) /\ free_area'[k] = pair
       /\ \A ord \in Orders \ {o, k} : free_area'[ord] = free_area[ord]
  BY <1>1, <1>2, <1>6
<1> HIDE DEF pair
<1>11. /\ block_size'[h] = k /\ block_size'[r] = k
       /\ \A p \in PageIds \ {h, r} : block_size'[p] = block_size[p]
  BY <1>1, <1>4, <1>6, <1>7
<1>12. BuddyTypeOK'
  <2>1. free_area' \in [Orders -> Seq(PageIds)]
    BY <1>1, <1>2, <1>4, <1>6, <1>8 DEF pair
  <2>2. block_size' \in [PageIds -> Orders \cup {0}]
    BY <1>1, <1>2, <1>6
  <2> QED BY <2>1, <2>2, <1>2, <1>6 DEF BuddyInv, BuddyTypeOK
<1>13. Allocated' = Allocated /\ InHand' = {} /\ InHand = {}
  BY <1>1, <1>6 DEF Allocated, InHand
<1>14. /\ Pages(free_area'[o]) = Pages(free_area[o]) \ {h} /\ Pages(free_area'[k]) = {h, r}
       /\ \A ord \in Orders \ {o, k} : Pages(free_area'[ord]) = Pages(free_area[ord])
       /\ Pages(free_area[k]) = {}
  <2>1. Pages(<<>>) = {}
    BY DEF Pages
  <2> QED BY <2>1, <1>3, <1>4, <1>8, <1>10
<1>15. FreePages' = FreePages \cup {r}
  <2>1. ASSUME NEW x, x \in FreePages' PROVE x \in FreePages \cup {r}
    <3>1. PICK ord \in Orders : x \in Pages(free_area'[ord])
      BY <2>1 DEF FreePages
    <3>2. x \in Pages(free_area[ord]) \cup Pages(free_area[o]) \cup {r}
      BY <3>1, <1>4, <1>14
    <3> QED BY <3>2, <1>1 DEF FreePages
  <2>2. ASSUME NEW x, x \in FreePages PROVE x \in FreePages'
    <3>1. PICK ord \in Orders : x \in Pages(free_area[ord])
      BY <2>2 DEF FreePages
    <3>2. x \in Pages(free_area'[ord]) \/ x \in Pages(free_area'[k])
      BY <3>1, <1>14
    <3> QED BY <3>2, <1>2 DEF FreePages
  <2>3. r \in FreePages'
    BY <1>2, <1>14 DEF FreePages
  <2> QED BY <2>1, <2>2, <2>3
<1>16. Starts' = Starts \cup {r}
  BY <1>13, <1>15 DEF Starts
<1>17. MemoryDivided'
  BY <1>7, <1>16 DEF MemoryDivided
<1>18. Listed'
  <2> SUFFICES ASSUME NEW ord \in Orders, NEW p \in Pages(free_area'[ord])
               PROVE  is_free[p] = 1 /\ block_size'[p] = ord
    BY <1>6, <1>13 DEF Listed
  <2>1. CASE ord = k
    <3>1. is_free[r] = 1
      BY <1>1, <1>7 DEF Starts, Allocated
    <3> QED BY <3>1, <2>1, <1>5, <1>11, <1>14
  <2>2. CASE ord # k
    <3>1. p \in Pages(free_area[ord]) /\ (ord = o => p # h)
      BY <2>2, <1>14
    <3>2. p \in PageIds /\ is_free[p] = 1 /\ block_size[p] = ord /\ p \in Starts
      BY <3>1, ListFacts
    <3>3. p # r /\ p # h
      BY <3>1, <3>2, <1>2, <1>5, <1>7
    <3> QED BY <3>2, <3>3, <1>11
  <2> QED BY <2>1, <2>2
<1>19. AllSorted'
  <2> SUFFICES ASSUME NEW ord \in Orders PROVE Sorted(free_area'[ord])
    BY DEF AllSorted
  <2> QED BY <1>4, <1>8, <1>10, ListFacts
<1>20. Splitting'
  <2>1. \A i \in needed .. k - 1 : free_area'[i] = <<>>
    <3> SUFFICES ASSUME NEW i \in needed .. k - 1 PROVE free_area'[i] = <<>>
      OBVIOUS
    <3>1. i \in needed .. o - 1 /\ i \in Orders \ {o, k}
      BY <1>1, <1>2 DEF Orders
    <3> QED BY <3>1, <1>1, <1>10 DEF BuddyInv, Splitting
  <2>2. asked' \in Sizes /\ IsNeeded(needed', asked')
    BY <1>1, <1>6 DEF BuddyInv, Splitting
  <2> QED BY <2>1, <2>2, <1>2, <1>6, <1>8, <1>10 DEF Splitting
<1>21. NoPairs'
  <2> SUFFICES ASSUME NEW ord \in Orders, ord < MAX_ORDER,
                      NEW p \in Pages(free_area'[ord]),
                      BuddyOf(p, ord) \in Pages(free_area'[ord])
               PROVE  ord = k /\ h \in {p, BuddyOf(p, ord)}
    BY <1>1, <1>6, <1>8, <1>10 DEF NoPairs
  <2>1. CASE ord = k
    BY <2>1, <1>7, <1>14
  <2>2. CASE ord # k
    <3>1. p \in Pages(free_area[ord]) /\ BuddyOf(p, ord) \in Pages(free_area[ord])
      BY <2>2, <1>14
    <3>2. ord = o /\ h \in {p, BuddyOf(p, ord)}
      BY <3>1 DEF BuddyInv, NoPairs, h
    <3> QED BY <3>2, <1>14
  <2> QED BY <2>1, <2>2
<1>22. Combining'
  BY <1>1, <1>6 DEF Combining
<1> QED BY <1>12, <1>17, <1>18, <1>19, <1>20, <1>21, <1>22 DEF BuddyInv

\* Neither half of the block that is split is in use.
LEMMA SplitNotInUse ==
  ASSUME BuddyInv, Split
  PROVE  /\ Head(free_area[o]) \notin Allocated
         /\ BuddyOf(Head(free_area[o]), o - 1) \notin Allocated
<1> USE OrderAssumption
<1> DEFINE h == Head(free_area[o])
<1>1. /\ o \in Orders /\ needed \in Orders /\ o > needed /\ free_area[o] # <<>>
      /\ o - 1 \in Orders /\ o - 1 < MAX_ORDER /\ (o - 1) + 1 = o
  <2>1. /\ o \in Orders /\ needed \in Orders /\ o > needed /\ free_area[o] # <<>>
    BY DEF Split, BuddyInv, BuddyTypeOK, Splitting
  <2> QED BY <2>1 DEF Orders
<1>2. h \in Pages(free_area[o])
  BY <1>1, ListFacts, TailSorted
<1>3. h \in Starts /\ block_size[h] = o /\ h \notin Allocated
  BY <1>1, <1>2, ListFacts
<1>4. BuddyOf(h, o - 1) \notin Starts
  <2>1. Divided(Starts, block_size)
    BY DEF BuddyInv, MemoryDivided
  <2> QED BY <2>1, <1>1, <1>3, SecondHalf
<1> QED BY <1>3, <1>4 DEF Starts

\* buddy_alloc() takes the first block of the list.
LEMMA TakeInv ==
  ASSUME BuddyInv, Take
  PROVE  /\ BuddyInv'
         /\ ret' \in Pages(free_area[o]) /\ Allocated' = Allocated \cup {ret'}
<1> USE OrderAssumption
<1> DEFINE h == Head(free_area[o])
<1>1. /\ op = "split" /\ o = needed /\ o \in Orders
      /\ free_area[o] # <<>> /\ is_free \in [PageIds -> {0, 1}]
      /\ free_area \in [Orders -> Seq(PageIds)]
  BY DEF Take, BuddyInv, BuddyTypeOK, Splitting
<1>2. /\ h \in PageIds /\ h \in Pages(free_area[o])
      /\ Tail(free_area[o]) \in Seq(PageIds) /\ Sorted(Tail(free_area[o]))
      /\ Pages(Tail(free_area[o])) = Pages(free_area[o]) \ {h}
  BY <1>1, ListFacts, TailSorted
<1>3. /\ free_area' = [free_area EXCEPT ![o] = Tail(free_area[o])]
      /\ is_free' = [is_free EXCEPT ![h] = 0]
      /\ ret' = h /\ op' = "idle" /\ o' = MIN_ORDER /\ needed' = MIN_ORDER
      /\ block_size' = block_size /\ the_page' = the_page /\ asked' = asked
  BY DEF Take
<1> HIDE DEF h
<1>4. /\ free_area'[o] = Tail(free_area[o])
      /\ \A ord \in Orders \ {o} : free_area'[ord] = free_area[ord]
      /\ is_free'[h] = 0 /\ \A p \in PageIds \ {h} : is_free'[p] = is_free[p]
  BY <1>1, <1>2, <1>3
<1>5. BuddyTypeOK'
  <2>1. free_area' \in [Orders -> Seq(PageIds)] /\ is_free' \in [PageIds -> {0, 1}]
    BY <1>1, <1>2, <1>3
  <2>2. MIN_ORDER \in Orders
    BY DEF Orders
  <2> QED BY <2>1, <2>2, <1>2, <1>3 DEF BuddyInv, BuddyTypeOK
<1>6. Allocated' = Allocated \cup {h} /\ InHand' = {} /\ InHand = {}
  BY <1>1, <1>2, <1>3, <1>4 DEF Allocated, InHand
<1>7. /\ Pages(free_area'[o]) = Pages(free_area[o]) \ {h}
      /\ \A ord \in Orders \ {o} : /\ Pages(free_area'[ord]) = Pages(free_area[ord])
                                  /\ h \notin Pages(free_area[ord])
  BY <1>1, <1>2, <1>4, ListFacts
<1>8. FreePages' = FreePages \ {h} /\ h \in FreePages
  <2>1. ASSUME NEW x, x \in FreePages' PROVE x \in FreePages \ {h}
    <3>1. PICK ord \in Orders : x \in Pages(free_area'[ord])
      BY <2>1 DEF FreePages
    <3>2. x \in Pages(free_area[ord]) /\ x # h
      BY <3>1, <1>7
    <3> QED BY <3>2 DEF FreePages
  <2>2. ASSUME NEW x, x \in FreePages, x # h PROVE x \in FreePages'
    <3>1. PICK ord \in Orders : x \in Pages(free_area[ord])
      BY <2>2 DEF FreePages
    <3>2. x \in Pages(free_area'[ord])
      BY <3>1, <2>2, <1>7
    <3> QED BY <3>2 DEF FreePages
  <2>3. h \in FreePages
    BY <1>1, <1>2 DEF FreePages
  <2> QED BY <2>1, <2>2, <2>3
<1>9. Starts' = Starts
  BY <1>6, <1>8 DEF Starts
<1>10. MemoryDivided'
  BY <1>3, <1>9 DEF BuddyInv, MemoryDivided
<1>11. Listed'
  <2> SUFFICES ASSUME NEW ord \in Orders, NEW p \in Pages(free_area'[ord])
               PROVE  is_free'[p] = 1 /\ block_size[p] = ord
    BY <1>3, <1>6 DEF Listed
  <2>1. p \in Pages(free_area[ord]) /\ p # h
    BY <1>7
  <2> QED BY <2>1, <1>4, ListFacts
<1>12. AllSorted'
  <2> SUFFICES ASSUME NEW ord \in Orders PROVE Sorted(free_area'[ord])
    BY DEF AllSorted
  <2> QED BY <1>2, <1>4, ListFacts
<1>13. NoPairs'
  <2> SUFFICES ASSUME NEW ord \in Orders, ord < MAX_ORDER,
                      NEW p \in Pages(free_area'[ord]),
                      BuddyOf(p, ord) \in Pages(free_area'[ord])
               PROVE  FALSE
    BY DEF NoPairs
  <2>1. p \in Pages(free_area[ord]) /\ BuddyOf(p, ord) \in Pages(free_area[ord])
    BY <1>7
  <2>2. ord = o /\ h \in {p, BuddyOf(p, ord)}
    BY <2>1 DEF BuddyInv, NoPairs, h
  <2> QED BY <2>2, <1>7
<1>14. Splitting' /\ Combining'
  BY <1>3 DEF Splitting, Combining
<1> QED BY <1>2, <1>3, <1>5, <1>6, <1>10, <1>11, <1>12, <1>13, <1>14 DEF BuddyInv

\* buddy_free() marks a block that was handed out.
LEMMA FreeStartsInv ==
  ASSUME BuddyInv, NEW page \in Allocated, FreeStarts(page)
  PROVE  BuddyInv' /\ Allocated' = Allocated \ {page}
<1>1. /\ op = "idle" /\ op' = "combine" /\ the_page' = page /\ ret' = NULL /\ asked' = NULL
      /\ is_free' = [is_free EXCEPT ![page] = 1]
      /\ free_area' = free_area /\ block_size' = block_size /\ o' = o /\ needed' = needed
  BY DEF FreeStarts
<1>2. page \in PageIds /\ is_free[page] = 0 /\ is_free \in [PageIds -> {0, 1}]
  BY DEF Allocated, BuddyInv, BuddyTypeOK
<1>3. is_free'[page] = 1 /\ \A p \in PageIds \ {page} : is_free'[p] = is_free[p]
  BY <1>1, <1>2
<1>4. BuddyTypeOK'
  <2>1. is_free' \in [PageIds -> {0, 1}]
    BY <1>1, <1>2
  <2> QED BY <2>1, <1>1, <1>2 DEF BuddyInv, BuddyTypeOK
<1>5. Allocated' = Allocated \ {page} /\ InHand' = {page} /\ InHand = {}
  BY <1>1, <1>2, <1>3 DEF Allocated, InHand
<1>6. FreePages' = FreePages
  BY <1>1 DEF FreePages
<1>7. Starts' = Starts
  BY <1>5, <1>6 DEF Starts
<1>8. MemoryDivided'
  BY <1>1, <1>7 DEF BuddyInv, MemoryDivided
<1>9. Listed'
  <2> SUFFICES ASSUME NEW ord \in Orders, NEW p \in Pages(free_area[ord])
               PROVE  is_free'[p] = 1 /\ block_size[p] = ord /\ p # page
    BY <1>1, <1>5 DEF Listed
  <2>1. p \in PageIds /\ is_free[p] = 1 /\ block_size[p] = ord /\ p \notin Allocated
    BY ListFacts
  <2> QED BY <2>1, <1>3
<1>10. AllSorted' /\ Splitting' /\ NoPairs' /\ Combining'
  BY <1>1, <1>3 DEF BuddyInv, AllSorted, Splitting, NoPairs, Combining
<1> QED BY <1>4, <1>5, <1>8, <1>9, <1>10 DEF BuddyInv

\* list_del() takes a page off its list and leaves the other lists alone.
LEMMA ListDel ==
  ASSUME BuddyInv, NEW ord \in Orders, NEW page \in Pages(free_area[ord])
  PROVE  LET lists == list_del(page) IN
         /\ lists \in [Orders -> Seq(PageIds)]
         /\ Sorted(lists[ord]) /\ Pages(lists[ord]) = Pages(free_area[ord]) \ {page}
         /\ \A k \in Orders \ {ord} : lists[k] = free_area[k]
<1> DEFINE lists == list_del(page)
           s == free_area[ord]
           n == CHOOSE k \in 1 .. Len(s) : s[k] = page
<1>1. \A k \in Orders : ToSet(free_area[k]) = Pages(free_area[k])
  <2>1. \A k \in Orders : DOMAIN free_area[k] = 1 .. Len(free_area[k])
    BY ListFacts
  <2> QED BY <2>1 DEF ToSet, Pages
<1>2. s \in Seq(PageIds) /\ Sorted(s)
  BY ListFacts
<1>3. n \in 1 .. Len(s) /\ s[n] = page
  BY DEF Pages
<1>4. /\ RemoveAt(s, n) \in Seq(PageIds) /\ Sorted(RemoveAt(s, n))
      /\ Pages(RemoveAt(s, n)) = Pages(s) \ {page}
  BY <1>2, <1>3, RemoveSorted
<1>5. lists[ord] = RemoveAt(s, n)
  BY <1>1 DEF list_del
<1>6. ASSUME NEW k \in Orders \ {ord} PROVE lists[k] = free_area[k]
  <2>1. page \notin ToSet(free_area[k])
    <3>1. page \notin Pages(free_area[k])
      BY ListFacts
    <3>2. ToSet(free_area[k]) = Pages(free_area[k])
      BY <1>1
    <3> QED BY <3>1, <3>2
  <2> QED BY <2>1 DEF list_del
<1> HIDE DEF n
<1>7. lists \in [Orders -> Seq(PageIds)]
  <2>1. DOMAIN lists = Orders /\ lists = [k \in DOMAIN lists |-> lists[k]]
    BY DEF list_del
  <2> HIDE DEF lists
  <2>2. \A k \in Orders : lists[k] \in Seq(PageIds)
    BY <1>2, <1>4, <1>5, <1>6, ListFacts
  <2> QED BY <2>1, <2>2
<1> QED BY <1>4, <1>5, <1>6, <1>7

\* Where buddy_combine() goes on, the block is not the whole memory, and its buddy
\* hangs in the list of its order.
LEMMA CanCombineFacts ==
  ASSUME BuddyInv, op = "combine", CanCombine
  PROVE  LET ord == block_size[the_page] IN
         /\ ord \in Orders /\ ord < MAX_ORDER
         /\ the_page \in PageIds /\ Aligned(the_page, ord)
         /\ buddy_page \in Pages(free_area[ord])
         /\ buddy_page # the_page
<1> USE OrderAssumption
<1> DEFINE p == the_page
           ord == block_size[p]
           r == BuddyOf(p, ord)
<1>1. r \in PageIds /\ is_free[r] = 1 /\ block_size[r] = ord /\ buddy_page = r
  BY DEF CanCombine, BuddyIsFree, buddy_page
<1>2. Divided(Starts, block_size) /\ p \in Starts
  BY DEF BuddyInv, MemoryDivided, Starts, InHand
<1>3. p \in PageIds /\ ord \in Orders /\ Aligned(p, ord)
  BY <1>2 DEF Divided
<1>4. ord < MAX_ORDER
  <2> SUFFICES ASSUME ord = MAX_ORDER PROVE FALSE
    BY <1>3 DEF Orders
  <2>1. PICK m \in Nat : p = m * n_pages
    BY <1>3, PagesFacts DEF Aligned
  <2>2. n_pages \in Nat \ {0} /\ p \in Nat /\ p < n_pages
    BY <1>3, PagesFacts DEF PageIds
  <2>3. m < 1
    <3>1. m * n_pages < 1 * n_pages
      BY <2>1, <2>2
    <3> QED BY <3>1, <2>2, Products
  <2>4. p = 0
    BY <2>1, <2>2, <2>3
  <2>5. r = p + n_pages
    <3>1. PagesOf(ord) = n_pages /\ (0 \div n_pages) % 2 = 0
      <4>1. 0 \div n_pages = 0
        BY <2>2
      <4> QED BY <4>1, PagesFacts
    <3> QED BY <3>1, <2>4 DEF BuddyOf
  <2> QED BY <2>2, <2>4, <2>5, <1>1 DEF PageIds
<1>5. r \in Starts /\ r # p
  BY <1>2, <1>3, <1>4, BuddyBegins, BuddyFacts
<1>6. r \in FreePages
  <2>1. r \notin Allocated
    BY <1>1 DEF Allocated
  <2>2. r \notin InHand
    BY <1>5 DEF InHand
  <2> QED BY <2>1, <2>2, <1>5 DEF Starts
<1>7. r \in Pages(free_area[ord])
  <2>1. PICK k \in Orders : r \in Pages(free_area[k])
    BY <1>6 DEF FreePages
  <2>2. k = ord
    BY <2>1, <1>1, ListFacts
  <2> QED BY <2>1, <2>2
<1> QED BY <1>1, <1>3, <1>4, <1>5, <1>7

\* buddy_combine(): the buddy is taken off its list, and one block is made of two.
LEMMA CombineInv ==
  ASSUME BuddyInv, Combine
  PROVE  BuddyInv' /\ Allocated' = Allocated
<1> USE OrderAssumption
<1> DEFINE p == the_page
           ord == block_size[p]
           r == buddy_page
           first == Lower(p, r)
<1>1. /\ op = "combine" /\ CanCombine
      /\ free_area' = list_del(r)
      /\ block_size' = [block_size EXCEPT ![first] = ord + 1]
      /\ the_page' = first
      /\ op' = IF ord + 1 = MAX_ORDER THEN "insert" ELSE "combine"
      /\ is_free' = is_free /\ o' = o /\ needed' = needed /\ ret' = ret /\ asked' = asked
  BY DEF Combine, Lower
<1>2. /\ ord \in Orders /\ ord < MAX_ORDER /\ ord + 1 \in Orders
      /\ p \in PageIds /\ Aligned(p, ord) /\ r \in Pages(free_area[ord]) /\ r # p
      /\ is_free \in [PageIds -> {0, 1}] /\ block_size \in [PageIds -> Orders \cup {0}]
      /\ is_free[p] = 1
  <2>1. /\ ord \in Orders /\ ord < MAX_ORDER /\ p \in PageIds /\ Aligned(p, ord)
        /\ r \in Pages(free_area[ord]) /\ r # p
    BY <1>1, CanCombineFacts
  <2>2. ord + 1 \in Orders
    BY <2>1 DEF Orders
  <2> QED BY <2>1, <2>2, <1>1 DEF BuddyInv, BuddyTypeOK, Combining
<1>3. r = BuddyOf(p, ord) /\ first \in {p, r}
  BY DEF buddy_page, Lower
<1>4. /\ r \in PageIds /\ block_size[r] = ord /\ is_free[r] = 1 /\ r \in Starts
  BY <1>2, ListFacts
<1>5. /\ list_del(r) \in [Orders -> Seq(PageIds)]
      /\ Sorted(list_del(r)[ord]) /\ Pages(list_del(r)[ord]) = Pages(free_area[ord]) \ {r}
      /\ \A k \in Orders \ {ord} : list_del(r)[k] = free_area[k]
  BY <1>2, ListDel
<1>6. /\ free_area' \in [Orders -> Seq(PageIds)] /\ Sorted(free_area'[ord])
      /\ \A k \in Orders \ {ord} : free_area'[k] = free_area[k]
      /\ \A k \in Orders : Pages(free_area'[k]) = Pages(free_area[k]) \ {r}
  <2>1. \A k \in Orders \ {ord} : r \notin Pages(free_area[k])
    BY <1>2, ListFacts
  <2> QED BY <2>1, <1>1, <1>5
<1>7. Divided(Starts, block_size) /\ p \in Starts /\ Starts \subseteq PageIds
  BY <1>1 DEF BuddyInv, MemoryDivided, Divided, Starts, InHand
<1> HIDE DEF p, r, ord, first
<1>8. /\ block_size'[first] = ord + 1 /\ first \in PageIds
      /\ \A q \in PageIds \ {first} : block_size'[q] = block_size[q]
  BY <1>1, <1>2, <1>3, <1>4
<1>9. BuddyTypeOK'
  <2>1. block_size' \in [PageIds -> Orders \cup {0}]
    BY <1>1, <1>2
  <2> QED BY <2>1, <1>1, <1>6, <1>8 DEF BuddyInv, BuddyTypeOK
<1>10. /\ Allocated' = Allocated /\ InHand' = {first} /\ InHand = {p}
  BY <1>1 DEF Allocated, InHand, p
<1>11. FreePages' = FreePages \ {r}
  <2>1. ASSUME NEW x, x \in FreePages' PROVE x \in FreePages \ {r}
    <3>1. PICK k \in Orders : x \in Pages(free_area'[k])
      BY <2>1 DEF FreePages
    <3>2. x \in Pages(free_area[k]) /\ x # r
      BY <3>1, <1>6
    <3> QED BY <3>2 DEF FreePages
  <2>2. ASSUME NEW x, x \in FreePages, x # r PROVE x \in FreePages'
    <3>1. PICK k \in Orders : x \in Pages(free_area[k])
      BY <2>2 DEF FreePages
    <3>2. x \in Pages(free_area'[k])
      BY <3>1, <2>2, <1>6
    <3> QED BY <3>2 DEF FreePages
  <2> QED BY <2>1, <2>2
<1>12. p \notin Allocated /\ p \notin FreePages /\ r \notin Allocated
  <2>1. p \notin FreePages
    <3>1. \A k \in Orders : p \notin Pages(free_area[k])
      BY <1>10, ListFacts
    <3> QED BY <3>1 DEF FreePages
  <2> QED BY <2>1, <1>2, <1>4 DEF Allocated
<1>13. Starts' = (Starts \ {p, r}) \cup {first}
  BY <1>10, <1>11, <1>12 DEF Starts
<1>14. MemoryDivided'
  <2>1. block_size[p] = ord /\ first = Lower(p, r)
    BY DEF ord, first
  <2>2. \A q \in Starts \ {first} : block_size'[q] = block_size[q]
    BY <1>7, <1>8
  <2>3. Divided((Starts \ {p, r}) \cup {first}, block_size')
    BY <2>1, <2>2, <1>2, <1>3, <1>4, <1>7, <1>8, CombineDivides
  <2> QED BY <2>3, <1>13 DEF MemoryDivided
<1>15. Listed'
  <2> SUFFICES ASSUME NEW k \in Orders, NEW x \in Pages(free_area'[k])
               PROVE  is_free[x] = 1 /\ block_size'[x] = k /\ x # first
    BY <1>1, <1>10 DEF Listed
  <2>1. x \in Pages(free_area[k]) /\ x # r
    BY <1>6
  <2>2. /\ x \in PageIds /\ is_free[x] = 1 /\ block_size[x] = k /\ x \notin InHand
    BY <2>1, ListFacts
  <2>3. x # first
    BY <2>1, <2>2, <1>3, <1>10
  <2> QED BY <2>2, <2>3, <1>8
<1>16. AllSorted'
  <2> SUFFICES ASSUME NEW k \in Orders PROVE Sorted(free_area'[k])
    BY DEF AllSorted
  <2> QED BY <1>6, ListFacts
<1>17. op' \in {"combine", "insert"}
  BY <1>1
<1>18. NoPairs'
  <2> SUFFICES ASSUME NEW k \in Orders, k < MAX_ORDER,
                      NEW x \in Pages(free_area'[k]),
                      BuddyOf(x, k) \in Pages(free_area'[k])
               PROVE  FALSE
    BY DEF NoPairs
  <2>1. x \in Pages(free_area[k]) /\ BuddyOf(x, k) \in Pages(free_area[k])
    BY <1>6
  <2> QED BY <2>1, <1>1 DEF BuddyInv, NoPairs
<1>19. Splitting'
  BY <1>17 DEF Splitting
<1>20. Combining'
  <2>1. is_free'[the_page'] = 1
    BY <1>1, <1>2, <1>3, <1>4
  <2>2. op' = "insert" => block_size'[the_page'] = MAX_ORDER
    BY <1>1, <1>8
  <2> QED BY <2>1, <2>2 DEF Combining
<1> QED BY <1>9, <1>10, <1>14, <1>15, <1>16, <1>18, <1>19, <1>20 DEF BuddyInv

\* buddy_free() puts the block into its list, where its buddy is not.
LEMMA InsertInv ==
  ASSUME BuddyInv, Insert
  PROVE  BuddyInv' /\ Allocated' = Allocated
<1> USE OrderAssumption
<1> DEFINE p == the_page
           ord == block_size[p]
<1>1. /\ op = "insert" \/ (op = "combine" /\ ~CanCombine)
      /\ free_area' = [free_area EXCEPT ![ord] = SortedIn(free_area[ord], p)]
      /\ op' = "idle" /\ the_page' = 0
      /\ is_free' = is_free /\ block_size' = block_size /\ o' = o /\ needed' = needed
      /\ ret' = ret /\ asked' = asked
  BY DEF Insert
<1>2. Divided(Starts, block_size) /\ p \in Starts /\ InHand = {p}
  BY <1>1 DEF BuddyInv, MemoryDivided, Starts, InHand
<1>3. /\ p \in PageIds /\ ord \in Orders /\ Aligned(p, ord)
      /\ free_area \in [Orders -> Seq(PageIds)] /\ is_free[p] = 1
  BY <1>1, <1>2 DEF Divided, BuddyInv, BuddyTypeOK, Combining
<1>4. p \notin Pages(free_area[ord])
  BY <1>2, <1>3, ListFacts
<1>5. /\ SortedIn(free_area[ord], p) \in Seq(PageIds) /\ Sorted(SortedIn(free_area[ord], p))
      /\ Pages(SortedIn(free_area[ord], p)) = Pages(free_area[ord]) \cup {p}
  BY <1>3, <1>4, ListFacts, SortedInSorted
<1>6. /\ Sorted(free_area'[ord]) /\ Pages(free_area'[ord]) = Pages(free_area[ord]) \cup {p}
      /\ \A k \in Orders \ {ord} : free_area'[k] = free_area[k]
  BY <1>1, <1>3, <1>5
<1>7. BuddyTypeOK'
  <2>1. free_area' \in [Orders -> Seq(PageIds)]
    BY <1>1, <1>3, <1>5
  <2>2. 0 \in PageIds
    BY PagesFacts DEF PageIds, Orders
  <2> QED BY <2>1, <2>2, <1>1 DEF BuddyInv, BuddyTypeOK
<1>8. Allocated' = Allocated /\ InHand' = {}
  BY <1>1 DEF Allocated, InHand
<1> HIDE DEF ord
<1>9. FreePages' = FreePages \cup {p}
  <2>1. ASSUME NEW x, x \in FreePages' PROVE x \in FreePages \cup {p}
    <3>1. PICK k \in Orders : x \in Pages(free_area'[k])
      BY <2>1 DEF FreePages
    <3>2. x \in Pages(free_area[k]) \cup {p}
      BY <3>1, <1>6
    <3> QED BY <3>2 DEF FreePages
  <2>2. ASSUME NEW x, x \in FreePages PROVE x \in FreePages'
    <3>1. PICK k \in Orders : x \in Pages(free_area[k])
      BY <2>2 DEF FreePages
    <3>2. x \in Pages(free_area'[k])
      BY <3>1, <1>6
    <3> QED BY <3>2 DEF FreePages
  <2>3. p \in FreePages'
    BY <1>3, <1>6 DEF FreePages
  <2> QED BY <2>1, <2>2, <2>3
<1>10. MemoryDivided'
  <2>1. Starts' = Starts
    BY <1>2, <1>8, <1>9 DEF Starts
  <2> QED BY <2>1, <1>1, <1>2 DEF MemoryDivided
<1>11. Listed'
  <2> SUFFICES ASSUME NEW k \in Orders, NEW x \in Pages(free_area'[k])
               PROVE  is_free[x] = 1 /\ block_size[x] = k
    BY <1>1, <1>8 DEF Listed
  <2>1. CASE x \in Pages(free_area[k])
    BY <2>1, ListFacts
  <2>2. CASE x = p /\ k = ord
    BY <2>2, <1>3 DEF ord
  <2> QED BY <2>1, <2>2, <1>6
<1>12. AllSorted'
  <2> SUFFICES ASSUME NEW k \in Orders PROVE Sorted(free_area'[k])
    BY DEF AllSorted
  <2> QED BY <1>6, ListFacts
<1>13. NoPairs'
  <2> SUFFICES ASSUME NEW k \in Orders, k < MAX_ORDER,
                      NEW x \in Pages(free_area'[k]),
                      BuddyOf(x, k) \in Pages(free_area'[k])
               PROVE  FALSE
    BY DEF NoPairs
  <2>1. \A y \in Pages(free_area[k]) : BuddyOf(y, k) \notin Pages(free_area[k])
    BY <1>1 DEF BuddyInv, NoPairs
  <2>2. k = ord /\ (x = p \/ BuddyOf(x, k) = p)
    BY <2>1, <1>6
  <2>3. BuddyOf(p, ord) # p /\ BuddyOf(p, ord) \in Pages(free_area[ord])
    <3>1. BuddyOf(p, ord) # p
      BY <2>2, <1>3, BuddyFacts
    <3>2. CASE x = p
      BY <3>1, <3>2, <2>2, <1>6
    <3>3. CASE x # p
      <4>1. x \in Pages(free_area[ord]) /\ BuddyOf(x, ord) = p
        BY <3>3, <2>2, <1>6
      <4>2. x \in PageIds /\ block_size[x] = ord /\ x \in Starts
        BY <4>1, <1>3, ListFacts
      <4>3. Aligned(x, ord)
        BY <4>2, <1>2 DEF Divided
      <4>4. BuddyOf(p, ord) = x
        BY <4>1, <4>2, <4>3, <2>2, <1>3, BuddyFacts
      <4> QED BY <3>1, <4>1, <4>4
    <3> QED BY <3>2, <3>3
  <2>4. /\ BuddyOf(p, ord) \in PageIds /\ is_free[BuddyOf(p, ord)] = 1
        /\ block_size[BuddyOf(p, ord)] = ord
    BY <2>3, <1>3, ListFacts
  <2>5. CanCombine
    BY <2>4 DEF CanCombine, BuddyIsFree, buddy_page, ord
  <2>6. op # "insert"
    BY <2>2, <1>3 DEF BuddyInv, Combining, ord
  <2> QED BY <2>5, <2>6, <1>1
<1>14. Splitting' /\ Combining'
  BY <1>1 DEF Splitting, Combining
<1> QED BY <1>7, <1>8, <1>10, <1>11, <1>12, <1>13, <1>14 DEF BuddyInv

-----------------------------------------------------------------------------
(***************************************************************************)
(* The inductive invariant of the program that calls the allocator.        *)
(***************************************************************************)
\* A call is made only while commands succeed, for a variable.
Calling == op # "idle" => status = "SUCCESS" /\ target \in Vars

\* Variables in use, but for the one being freed.
Holders == {v \in Vars : /\ var_map[v].in_use = 1
                         /\ ~(op \in {"combine", "insert"} /\ v = target)}

\* They name blocks handed out, each its own.
Held == status = "SUCCESS" =>
          \A v \in Holders : /\ var_map[v].mem \in Allocated
                             /\ \A w \in Holders : w # v => var_map[w].mem # var_map[v].mem

SimulatorInv == BuddyInv /\ TypeOK /\ Calling /\ Held

Var == [mem : PageIds \cup {NULL}, in_use : {0, 1}]

\* The program starts with no variable in use.
LEMMA InitSimulatorInv ==
  ASSUME Init
  PROVE  SimulatorInv
<1>1. BuddyInv
  BY InitBuddyInv DEF Init
<1>2. TypeOK
  BY <1>1 DEF BuddyInv, TypeOK, Init
<1>3. Calling
  BY DEF Calling, Init, buddy_init
<1>4. Held
  BY DEF Held, Holders, Init
<1> QED BY <1>1, <1>2, <1>3, <1>4 DEF SimulatorInv

\* A variable is assigned: the others keep what they have.
LEMMA AssignVar ==
  ASSUME SimulatorInv, NEW v \in Vars, NEW new \in Var, var_map' = [var_map EXCEPT ![v] = new]
  PROVE  /\ var_map' \in [Vars -> Var] /\ var_map'[v] = new
         /\ \A w \in Vars \ {v} : var_map'[w] = var_map[w]
<1>1. var_map \in [Vars -> Var]
  BY DEF SimulatorInv, TypeOK, Var
<1> QED BY <1>1

\* A command starts a call, or fails.
LEMMA CommandInv ==
  ASSUME SimulatorInv, Command
  PROVE  SimulatorInv'
<1>1. BuddyInv /\ TypeOK /\ Calling /\ Held
  BY DEF SimulatorInv
<1>2. ASSUME NEW v \in Vars, NEW size \in Sizes, ParseAlloc(v, size)
      PROVE  SimulatorInv'
  <2>1. /\ Ready /\ AllocStarts(size) /\ target' = v
        /\ var_map' = var_map /\ status' = status
    BY <1>2 DEF ParseAlloc
  <2>2. BuddyInv'
    BY <1>1, <2>1, AllocStartsInv
  <2>3. TypeOK'
    BY <1>1, <2>1, <2>2 DEF BuddyInv, TypeOK
  <2>4. op = "idle" /\ op' = "split" /\ is_free' = is_free /\ status = "SUCCESS"
    BY <2>1 DEF AllocStarts, Ready
  <2>5. Calling'
    BY <2>1, <2>4 DEF Calling
  <2>6. Held'
    BY <1>1, <2>1, <2>4 DEF Held, Holders, Allocated
  <2> QED BY <2>2, <2>3, <2>5, <2>6 DEF SimulatorInv
<1>3. ASSUME NEW v \in Vars, NEW size \in Sizes, OutOfMemory(v, size)
      PROVE  SimulatorInv'
  <2>1. /\ Ready /\ AllocFails(size) /\ target' = target
        /\ var_map' = [var_map EXCEPT ![v].mem = NULL] /\ status' = "OUTOFMEMORY"
    BY <1>3 DEF OutOfMemory
  <2>2. /\ op = "idle" /\ op' = "idle" /\ ret' = NULL /\ asked' = size
        /\ free_area' = free_area /\ is_free' = is_free /\ block_size' = block_size
        /\ o' = o /\ needed' = needed /\ the_page' = the_page
    BY <2>1 DEF AllocFails
  <2>3. BuddyInv'
    BY <1>1, <2>2, SameBlocks
  <2>4. var_map' \in [Vars -> Var]
    <3>1. var_map \in [Vars -> Var]
      BY <1>1 DEF TypeOK, Var
    <3>2. var_map[v] \in Var
      BY <3>1
    <3>3. [var_map[v] EXCEPT !.mem = NULL] \in Var
      BY <3>2 DEF Var
    <3> QED BY <2>1, <3>1, <3>3
  <2>5. TypeOK'
    BY <1>1, <2>1, <2>3, <2>4 DEF BuddyInv, TypeOK, Var
  <2>6. Calling' /\ Held'
    BY <2>1, <2>2 DEF Calling, Held
  <2> QED BY <2>3, <2>5, <2>6 DEF SimulatorInv
<1>4. ASSUME NEW v \in Vars, ParseFree(v)
      PROVE  SimulatorInv'
  <2>1. /\ Ready /\ var_map[v].in_use = 1 /\ FreeStarts(var_map[v].mem)
        /\ target' = v /\ var_map' = var_map /\ status' = status
    BY <1>4 DEF ParseFree
  <2>2. status = "SUCCESS" /\ op = "idle" /\ op' = "combine"
    BY <2>1 DEF Ready, FreeStarts
  <2>3. v \in Holders
    BY <2>1, <2>2 DEF Holders
  <2>4. var_map[v].mem \in Allocated
    BY <1>1, <2>2, <2>3 DEF Held
  <2>5. BuddyInv' /\ Allocated' = Allocated \ {var_map[v].mem}
    BY <1>1, <2>1, <2>4, FreeStartsInv
  <2>6. TypeOK'
    BY <1>1, <2>1, <2>5 DEF BuddyInv, TypeOK
  <2>7. Calling'
    BY <2>1, <2>2 DEF Calling
  <2>8. Held'
    <3>1. Holders' = Holders \ {v}
      BY <2>1, <2>2 DEF Holders
    <3>2. \A w \in Holders \ {v} : var_map[w].mem \in Allocated \ {var_map[v].mem}
      BY <1>1, <2>2, <2>3 DEF Held
    <3> QED BY <3>1, <3>2, <1>1, <2>1, <2>2, <2>5 DEF Held
  <2> QED BY <2>5, <2>6, <2>7, <2>8 DEF SimulatorInv
<1>5. ASSUME UNCHANGED <<buddy, var_map, target>>, Ready, status' \in {"DOUBLEFREE", "EOF"}
      PROVE  SimulatorInv'
  <2>1. /\ op = "idle" /\ op' = op /\ ret' = ret /\ asked' = asked
        /\ free_area' = free_area /\ is_free' = is_free /\ block_size' = block_size
        /\ o' = o /\ needed' = needed /\ the_page' = the_page
        /\ var_map' = var_map /\ target' = target /\ status' # "SUCCESS"
    BY <1>5 DEF buddy, Ready
  <2>2. BuddyInv'
    <3>1. ret' \in PageIds \cup {NULL} /\ asked' \in Sizes \cup {NULL}
      BY <1>1, <2>1 DEF BuddyInv, BuddyTypeOK
    <3> QED BY <3>1, <1>1, <2>1, SameBlocks
  <2>3. TypeOK'
    BY <1>1, <1>5, <2>1, <2>2 DEF BuddyInv, TypeOK
  <2>4. Calling' /\ Held'
    BY <2>1 DEF Calling, Held
  <2> QED BY <2>2, <2>3, <2>4 DEF SimulatorInv
<1>6. ASSUME NEW v \in Vars, DoubleFree(v)
      PROVE  SimulatorInv'
  BY <1>5, <1>6 DEF DoubleFree
<1>7. ASSUME EndOfFile
      PROVE  SimulatorInv'
  BY <1>5, <1>7 DEF EndOfFile
<1> QED BY <1>2, <1>3, <1>4, <1>6, <1>7 DEF Command

\* Splits and combinings leave what is handed out alone.
LEMMA CallInv ==
  ASSUME SimulatorInv, Call
  PROVE  SimulatorInv'
<1>1. BuddyInv /\ TypeOK /\ Calling /\ Held
  BY DEF SimulatorInv
<1>2. var_map' = var_map /\ target' = target /\ status' = status
  BY DEF Call
<1>3. /\ BuddyInv' /\ Allocated' = Allocated /\ op # "idle"
      /\ op' \in {"combine", "insert"} <=> op \in {"combine", "insert"}
  <2>1. CASE Split
    <3>1. op = "split" /\ op' = op /\ is_free' = is_free
      BY <2>1 DEF Split
    <3> QED BY <3>1, <1>1, <2>1, SplitInv DEF Allocated
  <2>2. CASE Combine
    <3>1. op = "combine" /\ op' \in {"combine", "insert"}
      BY <2>2 DEF Combine
    <3> QED BY <3>1, <1>1, <2>2, CombineInv
  <2> QED BY <2>1, <2>2 DEF Call
<1>4. TypeOK'
  BY <1>1, <1>2, <1>3 DEF BuddyInv, TypeOK
<1>5. Calling'
  BY <1>1, <1>2, <1>3 DEF Calling
<1>6. Held'
  <2>1. Holders' = Holders
    BY <1>2, <1>3 DEF Holders
  <2> QED BY <2>1, <1>1, <1>2, <1>3 DEF Held
<1> QED BY <1>3, <1>4, <1>5, <1>6 DEF SimulatorInv

\* A call returns: buddy_alloc() with a block that no variable has, buddy_free() to
\* a variable that has lost its block.
LEMMA ReturnInv ==
  ASSUME SimulatorInv, Return
  PROVE  SimulatorInv'
<1>1. BuddyInv /\ TypeOK /\ Calling /\ Held
  BY DEF SimulatorInv
<1>2. CASE AllocReturns
  <2>1. /\ Take /\ target' = NULL /\ status' = status
        /\ var_map' = [var_map EXCEPT ![target] = [mem |-> ret', in_use |-> 1]]
    BY <1>2 DEF AllocReturns
  <2>2. op = "split" /\ op' = "idle" /\ o \in Orders
    BY <1>1, <2>1 DEF Take, BuddyInv, BuddyTypeOK
  <2>3. /\ BuddyInv' /\ Allocated' = Allocated \cup {ret'}
        /\ ret' \in PageIds /\ ret' \notin Allocated
    BY <1>1, <2>1, <2>2, TakeInv, ListFacts
  <2>4. status = "SUCCESS" /\ target \in Vars
    BY <1>1, <2>2 DEF Calling
  <2> DEFINE new == [mem |-> ret', in_use |-> 1]
  <2>5. new \in Var
    BY <2>3 DEF Var
  <2>6. /\ var_map' \in [Vars -> Var] /\ var_map'[target] = new
        /\ \A w \in Vars \ {target} : var_map'[w] = var_map[w]
    BY <2>1, <2>4, <2>5, AssignVar
  <2>7. TypeOK'
    BY <1>1, <2>1, <2>3, <2>6 DEF BuddyInv, TypeOK, Var
  <2>8. Calling'
    BY <2>2 DEF Calling
  <2>9. Held'
    <3>1. /\ \A v \in Holders : var_map[v].mem \in Allocated
          /\ \A v, w \in Holders : w # v => var_map[w].mem # var_map[v].mem
      BY <1>1, <2>4 DEF Held
    <3>2. \A v \in Holders' \ {target} : v \in Holders /\ var_map'[v] = var_map[v]
      BY <2>2, <2>6 DEF Holders
    <3>3. new.mem = ret'
      OBVIOUS
    <3> HIDE DEF new
    <3>4. ASSUME NEW v \in Holders' PROVE var_map'[v].mem \in Allocated'
      BY <3>1, <3>2, <3>3, <2>3, <2>6
    <3>5. ASSUME NEW v \in Holders', NEW w \in Holders', w # v
          PROVE  var_map'[w].mem # var_map'[v].mem
      <4>1. CASE v = target
        <5>1. var_map'[w].mem \in Allocated /\ var_map'[v].mem = ret'
          BY <4>1, <3>1, <3>2, <3>3, <3>5, <2>6
        <5> QED BY <5>1, <2>3
      <4>2. CASE w = target
        <5>1. var_map'[v].mem \in Allocated /\ var_map'[w].mem = ret'
          BY <4>2, <3>1, <3>2, <3>3, <3>5, <2>6
        <5> QED BY <5>1, <2>3
      <4>3. CASE v # target /\ w # target
        BY <4>3, <3>1, <3>2, <3>5
      <4> QED BY <4>1, <4>2, <4>3
    <3> QED BY <3>4, <3>5 DEF Held
  <2> QED BY <2>3, <2>7, <2>8, <2>9 DEF SimulatorInv
<1>3. CASE FreeReturns
  <2>1. /\ Insert /\ target' = NULL /\ status' = status
        /\ var_map' = [var_map EXCEPT ![target] = [mem |-> NULL, in_use |-> 0]]
    BY <1>3 DEF FreeReturns
  <2>2. op \in {"combine", "insert"} /\ op' = "idle"
    BY <2>1 DEF Insert
  <2>3. BuddyInv' /\ Allocated' = Allocated
    BY <1>1, <2>1, InsertInv
  <2>4. status = "SUCCESS" /\ target \in Vars
    BY <1>1, <2>2 DEF Calling
  <2> DEFINE new == [mem |-> NULL, in_use |-> 0]
  <2>5. new \in Var /\ new.in_use = 0
    BY DEF Var
  <2>6. /\ var_map' \in [Vars -> Var] /\ var_map'[target] = new
        /\ \A w \in Vars \ {target} : var_map'[w] = var_map[w]
    BY <2>1, <2>4, <2>5, AssignVar
  <2> HIDE DEF new
  <2>7. TypeOK'
    BY <1>1, <2>1, <2>3, <2>6 DEF BuddyInv, TypeOK, Var
  <2>8. Calling'
    BY <2>2 DEF Calling
  <2>9. Held'
    <3>1. \A v \in Holders' : v \in Holders /\ var_map'[v] = var_map[v]
      BY <2>2, <2>4, <2>5, <2>6 DEF Holders
    <3> QED BY <3>1, <1>1, <2>3, <2>4 DEF Held
  <2> QED BY <2>3, <2>7, <2>8, <2>9 DEF SimulatorInv
<1> QED BY <1>2, <1>3 DEF Return

\* Nothing changes.
LEMMA StutterInv ==
  ASSUME SimulatorInv, UNCHANGED vars
  PROVE  SimulatorInv'
<1>1. /\ op' = op /\ ret' = ret /\ asked' = asked
      /\ free_area' = free_area /\ is_free' = is_free /\ block_size' = block_size
      /\ o' = o /\ needed' = needed /\ the_page' = the_page
      /\ var_map' = var_map /\ target' = target /\ status' = status
  BY DEF vars, buddy
<1>2. BuddyInv /\ TypeOK /\ Calling /\ Held
  BY DEF SimulatorInv
<1>3. BuddyInv' /\ Allocated' = Allocated
  <2>1. ret' \in PageIds \cup {NULL} /\ asked' \in Sizes \cup {NULL}
    BY <1>1, <1>2 DEF BuddyInv, BuddyTypeOK
  <2> QED BY <2>1, <1>1, <1>2, SameBlocks
<1>4. TypeOK'
  BY <1>1, <1>2, <1>3 DEF BuddyInv, TypeOK
<1>5. Calling' /\ Held'
  BY <1>1, <1>2, <1>3 DEF Calling, Held, Holders
<1> QED BY <1>3, <1>4, <1>5 DEF SimulatorInv

\* The invariant holds in every state of the program.
THEOREM InvariantHolds == Spec => []SimulatorInv
<1>1. Init => SimulatorInv
  BY InitSimulatorInv
<1>2. SimulatorInv /\ [Next]_vars => SimulatorInv'
  <2> SUFFICES ASSUME SimulatorInv, [Next]_vars PROVE SimulatorInv'
    OBVIOUS
  <2>1. CASE Command
    BY <2>1, CommandInv
  <2>2. CASE Call
    BY <2>2, CallInv
  <2>3. CASE Return
    BY <2>3, ReturnInv
  <2>4. CASE Terminated
    BY <2>4, StutterInv DEF Terminated
  <2>5. CASE UNCHANGED vars
    BY <2>5, StutterInv
  <2> QED BY <2>1, <2>2, <2>3, <2>4, <2>5 DEF Next
<1> QED BY <1>1, <1>2, PTL DEF Spec

-----------------------------------------------------------------------------
(***************************************************************************)
(* What the invariant says.                                                *)
(***************************************************************************)
\* Between two calls a block that begins anywhere is in use or in a list.
LEMMA IdleStarts ==
  ASSUME BuddyInv, op = "idle"
  PROVE  /\ Divided(Starts, block_size)
         /\ \A p \in Starts : p \in Allocated \/ p \in Pages(free_area[block_size[p]])
         /\ \A p \in Allocated : p \in Starts
<1>1. Divided(Starts, block_size)
  BY DEF BuddyInv, MemoryDivided
<1>2. ASSUME NEW p \in Starts, p \notin Allocated
      PROVE  p \in Pages(free_area[block_size[p]])
  <2>1. PICK k \in Orders : p \in Pages(free_area[k])
    BY <1>2 DEF Starts, InHand, FreePages
  <2>2. block_size[p] = k
    BY <2>1, ListFacts
  <2> QED BY <2>1, <2>2
<1> QED BY <1>1, <1>2 DEF Starts

\* Every page lies in just one block, in use or free.
LEMMA InvTiles ==
  ASSUME BuddyInv
  PROVE  Tiling
<1> SUFFICES ASSUME op = "idle", NEW page \in PageIds
             PROVE  Cardinality({p \in Allocated : page \in Block(p, block_size[p])})
                      + Cardinality({b \in PageIds \X Orders :
                                       /\ b[1] \in Free(b[2])
                                       /\ block_size[b[1]] = b[2]
                                       /\ page \in Block(b[1], b[2])}) = 1
  BY DEF Tiling
<1> DEFINE Used == {p \in Allocated : page \in Block(p, block_size[p])}
           Open == {b \in PageIds \X Orders : /\ b[1] \in Free(b[2])
                                             /\ block_size[b[1]] = b[2]
                                             /\ page \in Block(b[1], b[2])}
<1>1. \A ord \in Orders : Free(ord) = Pages(free_area[ord])
  BY DEF Free, Pages
<1>2. PICK p \in Starts : page \in Block(p, block_size[p])
  BY IdleStarts DEF Divided
<1>3. p \in PageIds /\ block_size[p] \in Orders
  BY IdleStarts DEF Divided
<1>4. \A r \in Starts : page \in Block(r, block_size[r]) => r = p
  BY <1>2, IdleStarts DEF Divided
<1>5. \A r \in Used : r \in Starts /\ r = p
  BY <1>4, IdleStarts
<1>6. \A b \in Open : b = <<p, block_size[p]>> /\ p \in Pages(free_area[block_size[p]])
  <2> SUFFICES ASSUME NEW b \in Open
               PROVE  b = <<p, block_size[p]>> /\ p \in Pages(free_area[block_size[p]])
    OBVIOUS
  <2>1. /\ b = <<b[1], b[2]>> /\ b[2] \in Orders /\ b[1] \in Pages(free_area[b[2]])
        /\ block_size[b[1]] = b[2] /\ page \in Block(b[1], b[2])
    BY <1>1
  <2>2. b[1] = p
    BY <2>1, <1>4, ListFacts
  <2> QED BY <2>1, <2>2
<1>7. CASE p \in Allocated
  <2>1. Used = {p}
    BY <1>2, <1>5, <1>7
  <2>2. Open = {}
    <3>1. p \notin Pages(free_area[block_size[p]])
      BY <1>3, <1>7, ListFacts
    <3> QED BY <3>1, <1>6
  <2> HIDE DEF Used, Open
  <2>3. Cardinality(Used) = 1 /\ Cardinality(Open) = 0
    BY <2>1, <2>2, FS_Singleton, FS_EmptySet
  <2> QED BY <2>3 DEF Used, Open
<1>8. CASE p \notin Allocated
  <2>1. Used = {}
    BY <1>5, <1>8
  <2>2. Open = {<<p, block_size[p]>>}
    <3>1. p \in Pages(free_area[block_size[p]])
      BY <1>8, IdleStarts
    <3>2. <<p, block_size[p]>> \in Open
      BY <3>1, <1>1, <1>2, <1>3
    <3> QED BY <3>2, <1>6
  <2> HIDE DEF Used, Open
  <2>3. Cardinality(Used) = 0 /\ Cardinality(Open) = 1
    BY <2>1, <2>2, FS_Singleton, FS_EmptySet
  <2> QED BY <2>3 DEF Used, Open
<1> QED BY <1>7, <1>8

\* Types and ranges, for any memory, requests and variables.
THEOREM TypeCorrect == Spec => []TypeOK
<1>1. SimulatorInv => TypeOK
  BY DEF SimulatorInv
<1> QED BY <1>1, InvariantHolds, PTL

\* Free lists and page table account for every page once.
THEOREM EveryPageOnce == Spec => []Tiling
<1>1. SimulatorInv => Tiling
  BY InvTiles DEF SimulatorInv
<1> QED BY <1>1, InvariantHolds, PTL

\* Two buddies are never both free.
THEOREM BuddiesCombined == Spec => []Coalesced
<1>1. SimulatorInv => Coalesced
  <2> SUFFICES ASSUME BuddyInv, op = "idle",
                      NEW ord \in MIN_ORDER .. MAX_ORDER - 1, NEW p \in PageIds,
                      p \in Free(ord)
               PROVE  BuddyOf(p, ord) \notin Free(ord)
    BY DEF SimulatorInv, Coalesced
  <2>1. ord \in Orders /\ ord < MAX_ORDER
    BY OrderAssumption DEF Orders
  <2>2. Free(ord) = Pages(free_area[ord])
    BY DEF Free, Pages
  <2> QED BY <2>1, <2>2 DEF BuddyInv, NoPairs
<1> QED BY <1>1, InvariantHolds, PTL

\* Free lists are sorted and without duplicates.
THEOREM ListsStaySorted == Spec => []ListsSorted
<1>1. SimulatorInv => ListsSorted
  BY DEF SimulatorInv, BuddyInv, AllSorted, Sorted, ListsSorted
<1> QED BY <1>1, InvariantHolds, PTL

\* What buddy_split() assumes of its caller holds for every split.
THEOREM SplitsIntoEmptyList == Spec => []SplitAssumption
<1>1. SimulatorInv => SplitAssumption
  <2> SUFFICES ASSUME BuddyInv, op = "split", o > needed
               PROVE  free_area[o - 1] = <<>>
    BY DEF SimulatorInv, SplitAssumption
  <2>1. o - 1 \in needed .. o - 1
    BY OrderAssumption DEF BuddyInv, BuddyTypeOK, Orders
  <2> QED BY <2>1 DEF BuddyInv, Splitting
<1> QED BY <1>1, InvariantHolds, PTL

\* While commands succeed, variables in use name blocks in use, each its own.
THEOREM VarsKeepBlocks == Spec => []VarsOwnBlocks
<1>1. SimulatorInv => VarsOwnBlocks
  <2> SUFFICES ASSUME Held, Ready, NEW v \in Vars, var_map[v].in_use = 1
               PROVE  /\ var_map[v].mem \in Allocated
                      /\ \A w \in Vars \ {v} : var_map[w].in_use = 1 => var_map[w].mem # var_map[v].mem
    BY DEF SimulatorInv, VarsOwnBlocks
  <2>1. \A w \in Vars : var_map[w].in_use = 1 => w \in Holders
    BY DEF Ready, Holders
  <2> QED BY <2>1 DEF Held, Ready
<1> QED BY <1>1, InvariantHolds, PTL

\* Line 111 of buddy.c, "buddy_page points to the correct buddy of the_page", for
\* every block but the whole memory: what buddy_combine() reads of the page table is
\* the entry of the first page of a block, which is no greater than its own.
ReadsBlock == op = "combine" /\ block_size[the_page] < MAX_ORDER =>
                /\ buddy_page \in Starts
                /\ block_size[buddy_page] <= block_size[the_page]

THEOREM CombineReadsBlock == Spec => []ReadsBlock
<1>1. SimulatorInv => ReadsBlock
  <2> SUFFICES ASSUME BuddyInv, op = "combine", block_size[the_page] < MAX_ORDER
               PROVE  buddy_page \in Starts /\ block_size[buddy_page] <= block_size[the_page]
    BY DEF SimulatorInv, ReadsBlock
  <2>1. Divided(Starts, block_size) /\ the_page \in Starts
    BY DEF BuddyInv, MemoryDivided, Starts, InHand
  <2> QED BY <2>1, BuddyBegins DEF buddy_page
<1> QED BY <1>1, InvariantHolds, PTL

-----------------------------------------------------------------------------
(***************************************************************************)
(* Refinement: a request is refused only where no place for it is left.    *)
(***************************************************************************)
\* If the lists of the orders from ord on are empty, each place for a block of that
\* order meets a block in use: of the free blocks that meet it, the smallest has a
\* buddy that is free as well.
LEMMA NoRoom ==
  ASSUME BuddyInv, op = "idle",
         NEW ord \in Orders, \A k \in ord .. MAX_ORDER : free_area[k] = <<>>,
         NEW start \in PageIds, Aligned(start, ord)
  PROVE  \E p \in Allocated : Block(p, block_size[p]) \cap Block(start, ord) # {}
<1> USE OrderAssumption
<1> DEFINE Meets(r) == Block(r, block_size[r]) \cap Block(start, ord) # {}
           T == {block_size[r] : r \in {x \in Starts : Meets(x)}}
<1> SUFFICES ASSUME \A p \in Allocated : ~Meets(p) PROVE FALSE
  OBVIOUS
<1>1. Divided(Starts, block_size) /\ Starts \subseteq PageIds
  BY IdleStarts DEF Divided
<1>2. ASSUME NEW r \in Starts, Meets(r)
      PROVE  /\ r \in PageIds /\ block_size[r] \in Orders /\ Aligned(r, block_size[r])
             /\ r \in Pages(free_area[block_size[r]]) /\ block_size[r] < ord
  <2>1. /\ r \in PageIds /\ block_size[r] \in Orders /\ Aligned(r, block_size[r])
    BY <1>1 DEF Divided
  <2>2. r \in Pages(free_area[block_size[r]])
    BY <1>2, IdleStarts
  <2>3. free_area[block_size[r]] # <<>>
    <3>1. Pages(<<>>) = {}
      BY DEF Pages
    <3> QED BY <2>2, <3>1
  <2>4. block_size[r] \notin ord .. MAX_ORDER
    BY <2>3
  <2>5. block_size[r] < ord
    BY <2>1, <2>4 DEF Orders
  <2> QED BY <2>1, <2>2, <2>5
<1>3. T \subseteq Nat
  BY <1>2, PageNumbers
<1>4. T # {}
  <2>1. start \in Block(start, ord)
    BY BlockInMemory
  <2>2. PICK r \in Starts : start \in Block(r, block_size[r])
    BY <1>1 DEF Divided
  <2>3. Meets(r)
    BY <2>1, <2>2
  <2> QED BY <2>3
<1>5. PICK k \in T : \A i \in T : k <= i
  BY <1>3, <1>4, LeastNumber
<1>6. PICK r \in Starts : Meets(r) /\ block_size[r] = k
  BY <1>5
<1>7. /\ k \in Orders /\ k < ord /\ k < MAX_ORDER /\ k + 1 \in Orders /\ k + 1 <= ord
      /\ r \in PageIds /\ Aligned(r, k) /\ r \in Pages(free_area[k])
  <2>1. /\ k \in Orders /\ k < ord /\ r \in PageIds /\ Aligned(r, k)
        /\ r \in Pages(free_area[k])
    BY <1>2, <1>6
  <2> QED BY <2>1 DEF Orders
<1> DEFINE b == BuddyOf(r, k)
<1>8. b \in Starts /\ block_size[b] <= k
  BY <1>1, <1>6, <1>7, BuddyBegins
<1>9. b \in Block(start, ord)
  <2>1. PICK q : q \in Block(r, k) /\ q \in Block(start, ord)
    BY <1>6
  <2> DEFINE low == Lower(r, b)
  <2>2. /\ low \in PageIds /\ Aligned(low, k + 1) /\ b \in PageIds /\ Aligned(b, k)
        /\ Block(low, k + 1) = Block(r, k) \cup Block(b, k)
    BY <1>7, BuddyFacts
  <2> HIDE DEF low, b
  <2>3. b \in Block(b, k)
    BY <2>2, <1>7, BlockInMemory
  <2>4. low \in Nat /\ start \in Nat /\ q \in Block(low, k + 1)
    BY <2>1, <2>2, PageNumbers
  <2>5. Block(low, k + 1) \subseteq Block(start, ord)
    BY <2>1, <2>2, <2>4, <1>7, BlocksNest
  <2> QED BY <2>2, <2>3, <2>5
<1>10. Meets(b)
  <2>1. b \in Block(b, block_size[b])
    BY <1>1, <1>8, BlockInMemory DEF Divided
  <2> QED BY <2>1, <1>9
<1>11. block_size[b] = k
  <2>1. k <= block_size[b] /\ block_size[b] \in Orders
    BY <1>2, <1>5, <1>8, <1>10
  <2>2. k \in Nat /\ block_size[b] \in Nat
    BY <2>1, <1>7, PageNumbers
  <2> QED BY <2>1, <2>2, <1>8
<1>12. b \in Pages(free_area[k])
  BY <1>2, <1>8, <1>10, <1>11
<1> QED BY <1>7, <1>12 DEF BuddyInv, NoPairs

\* A block as the abstract allocator knows it.
Handed(p) == [start |-> p, level |-> block_size[p] - MIN_ORDER]

\* Pages and places of blocks mean the same to both.
LEMMA SameSpans ==
  /\ \A p, ord : Abstract!Span(p, ord - MIN_ORDER) = Block(p, ord)
  /\ Abstract!UsedPages = UNION {Block(p, block_size[p]) : p \in Allocated}
<1>1. \A p, ord : Abstract!Span(p, ord - MIN_ORDER) = Block(p, ord)
  BY DEF Abstract!Span, Block, PagesOf
<1>2. Abstract!UsedPages = UNION {Abstract!Span(b.start, b.level) : b \in {Handed(p) : p \in Allocated}}
  BY DEF Abstract!UsedPages, Handed
<1>3. \A p : Handed(p).start = p /\ Handed(p).level = block_size[p] - MIN_ORDER
  BY DEF Handed
<1>4. {Abstract!Span(b.start, b.level) : b \in {Handed(p) : p \in Allocated}}
        = {Block(p, block_size[p]) : p \in Allocated}
  BY <1>1, <1>3
<1> QED BY <1>1, <1>2, <1>4

LEMMA SamePlaces ==
  ASSUME NEW ord \in Orders, NEW start
  PROVE  start \in Abstract!Places(ord - MIN_ORDER) <=>
           /\ start \in 0 .. n_pages - PagesOf(ord)
           /\ Aligned(start, ord)
           /\ \A p \in Allocated : Block(p, block_size[p]) \cap Block(start, ord) = {}
<1>1. PagesOf(ord) \in Nat \ {0}
  BY PagesFacts
<1>2. start \in Abstract!Places(ord - MIN_ORDER) <=>
           /\ start \in 0 .. n_pages - PagesOf(ord)
           /\ start % PagesOf(ord) = 0
           /\ Block(start, ord) \cap Abstract!UsedPages = {}
  BY SameSpans DEF Abstract!Places, PagesOf
<1>3. start \in 0 .. n_pages - PagesOf(ord) => (start % PagesOf(ord) = 0 <=> Aligned(start, ord))
  <2> SUFFICES ASSUME start \in 0 .. n_pages - PagesOf(ord)
               PROVE  start % PagesOf(ord) = 0 <=> Aligned(start, ord)
    OBVIOUS
  <2>1. start \in Nat
    OBVIOUS
  <2> QED BY <2>1, <1>1, Multiples DEF Aligned
<1>4. Block(start, ord) \cap Abstract!UsedPages = {} <=>
        \A p \in Allocated : Block(p, block_size[p]) \cap Block(start, ord) = {}
  BY SameSpans
<1> QED BY <1>2, <1>3, <1>4

\* The blocks handed out.
HandedOut == {Handed(p) : p \in Allocated}

\* They stay the same where no block is marked and those in use keep their sizes.
LEMMA SameHandedOut ==
  ASSUME Allocated' = Allocated, \A p \in Allocated : block_size'[p] = block_size[p]
  PROVE  HandedOut' = HandedOut
<1>1. HandedOut' = {Handed(p)' : p \in Allocated}
  BY DEF HandedOut
<1>2. \A p \in Allocated : Handed(p)' = Handed(p)
  BY DEF Handed
<1> QED BY <1>1, <1>2 DEF HandedOut

\* The levels that hold a request are those from the needed order on.
LEMMA NeededFits ==
  ASSUME NEW size \in Sizes, NEW ord \in MIN_ORDER .. 30, IsNeeded(ord, size),
         NEW level \in 0 .. MAX_ORDER - MIN_ORDER
  PROVE  Abstract!Fits(level, size) <=> ord <= MIN_ORDER + level
<1> USE OrderAssumption
<1> DEFINE k == MIN_ORDER + level
<1>1. ord \in Nat /\ k \in Nat /\ k >= MIN_ORDER /\ size \in Int
  BY SizesAssumption
<1>2. 2^ord \in Nat /\ 2^k \in Nat
  BY <1>1, PowerPositive
<1>3. Abstract!Fits(level, size) <=> size <= 2^k
  BY DEF Abstract!Fits
<1> HIDE DEF k
<1>4. ASSUME ord <= k PROVE size <= 2^k
  <2>1. 2^ord <= 2^k
    BY <1>1, <1>4, PowersGrow
  <2>2. size <= 2^ord
    BY DEF IsNeeded
  <2> QED BY <2>1, <2>2, <1>1, <1>2
<1>5. ASSUME ~(ord <= k) PROVE ~(size <= 2^k)
  <2>1. ord - 1 \in Nat /\ k <= ord - 1 /\ ord > MIN_ORDER
    BY <1>1, <1>5
  <2>2. 2^k <= 2^(ord - 1) /\ 2^(ord - 1) \in Nat
    BY <2>1, <1>1, PowersGrow, PowerPositive
  <2>3. 2^(ord - 1) < size
    BY <2>1 DEF IsNeeded
  <2> QED BY <2>2, <2>3, <1>1, <1>2
<1> QED BY <1>3, <1>4, <1>5 DEF k

\* Every call of the allocator is one of the abstract allocator's, or a step in between.
LEMMA TakeAllocates ==
  ASSUME BuddyInv, Take
  PROVE  \E level \in 0 .. MAX_ORDER - MIN_ORDER : Abstract!Allocate(level)
<1> USE OrderAssumption
<1>1. /\ o \in Orders /\ block_size' = block_size
      /\ ret' \in Pages(free_area[o]) /\ Allocated' = Allocated \cup {ret'}
      /\ op = "split" /\ op' = "idle" /\ asked' = asked
      /\ needed = o /\ asked \in Sizes /\ IsNeeded(o, asked)
  BY TakeInv DEF Take, BuddyInv, BuddyTypeOK, Splitting
<1> DEFINE h == ret'
           level == o - MIN_ORDER
<1>2. /\ h \in PageIds /\ block_size[h] = o /\ h \notin Allocated /\ h \in Starts
  BY <1>1, ListFacts
<1>3. /\ Divided(Starts, block_size) /\ Aligned(h, o)
  BY <1>2 DEF BuddyInv, MemoryDivided, Divided
<1>4. h \in 0 .. n_pages - PagesOf(o)
  <2>1. PagesOf(o) \in Nat \ {0} /\ h \in Nat /\ n_pages \in Nat
    BY <1>1, <1>2, PagesFacts, PageNumbers DEF Orders
  <2> HIDE DEF h
  <2>2. h + PagesOf(o) - 1 \in Block(h, o)
    BY <2>1 DEF Block
  <2>3. h + PagesOf(o) - 1 \in PageIds
    BY <2>2, <1>1, <1>2, <1>3, BlockInMemory
  <2> QED BY <2>1, <2>3 DEF PageIds
<1>5. \A p \in Allocated : Block(p, block_size[p]) \cap Block(h, o) = {}
  <2>1. \A p \in Allocated : p \in Starts /\ p # h
    BY <1>2 DEF Starts
  <2> QED BY <2>1, <1>2, <1>3 DEF Divided
<1>6. h \in Abstract!Places(level)
  BY <1>1, <1>3, <1>4, <1>5, SamePlaces
<1>7. HandedOut' = HandedOut \cup {[start |-> h, level |-> level]}
  <2>1. \A p : Handed(p)' = Handed(p)
    BY <1>1 DEF Handed
  <2>2. HandedOut' = {Handed(p) : p \in Allocated \cup {h}}
    BY <2>1, <1>1 DEF HandedOut
  <2>3. Handed(h) = [start |-> h, level |-> level]
    BY <1>2 DEF Handed
  <2> QED BY <2>2, <2>3 DEF HandedOut
<1>8. PICK l \in 0 .. MAX_ORDER - MIN_ORDER : l = level
  BY <1>1 DEF Orders
<1>9. Abstract!LeastFit(l, asked)
  <2>1. o \in MIN_ORDER .. 30 /\ MIN_ORDER + l = o
    BY <1>1, <1>8 DEF Orders
  <2>2. \A i \in 0 .. MAX_ORDER - MIN_ORDER : Abstract!Fits(i, asked) <=> o <= MIN_ORDER + i
    BY <2>1, <1>1, NeededFits
  <2>3. Abstract!Fits(l, asked)
    BY <2>1, <2>2
  <2>4. \A i \in 0 .. MAX_ORDER - MIN_ORDER : i < l => ~Abstract!Fits(i, asked)
    BY <2>1, <2>2
  <2> QED BY <2>3, <2>4 DEF Abstract!LeastFit
<1>10. Abstract!Allocate(l)
  BY <1>1, <1>6, <1>7, <1>8, <1>9 DEF Abstract!Allocate, HandedOut, Handed
<1> QED BY <1>10

LEMMA FreeReleases ==
  ASSUME BuddyInv, NEW page \in Allocated, FreeStarts(page)
  PROVE  \E b \in HandedOut : Abstract!Release(b)
<1>1. Allocated' = Allocated \ {page} /\ ret' = NULL /\ block_size' = block_size
      /\ asked' = NULL /\ op = "idle" /\ op' = "combine"
  BY FreeStartsInv DEF FreeStarts
<1>2. HandedOut' = HandedOut \ {Handed(page)}
  <2>1. \A p : Handed(p)' = Handed(p) /\ Handed(p).start = p
    BY <1>1 DEF Handed
  <2>2. HandedOut' = {Handed(p) : p \in Allocated \ {page}}
    BY <2>1, <1>1 DEF HandedOut
  <2>3. \A p \in Allocated \ {page} : Handed(p) # Handed(page)
    BY <2>1
  <2> QED BY <2>2, <2>3 DEF HandedOut
<1>3. PICK b \in HandedOut : b = Handed(page)
  BY DEF HandedOut
<1>4. Abstract!Release(b)
  BY <1>1, <1>2, <1>3 DEF Abstract!Release, HandedOut, Handed
<1> QED BY <1>4

LEMMA FailRefuses ==
  ASSUME BuddyInv, NEW size \in Sizes, AllocFails(size)
  PROVE  Abstract!Refuse(size)
<1> USE OrderAssumption
<1>1. PICK ord \in MIN_ORDER .. 30 :
        /\ IsNeeded(ord, size)
        /\ ord > MAX_ORDER \/ \A k \in ord .. MAX_ORDER : free_area[k] = <<>>
  BY DEF AllocFails
<1>2. /\ op = "idle" /\ op' = op /\ ret' = NULL /\ asked' = size
      /\ is_free' = is_free /\ block_size' = block_size
  BY DEF AllocFails
<1>3. HandedOut' = HandedOut
  BY <1>2, SameHandedOut DEF Allocated
<1>4. ASSUME NEW level \in 0 .. MAX_ORDER - MIN_ORDER, Abstract!Fits(level, size),
             NEW start, start \in Abstract!Places(level)
      PROVE  FALSE
  <2> DEFINE k == MIN_ORDER + level
  <2>1. k \in Orders /\ k - MIN_ORDER = level
    BY DEF Orders
  <2>2. ord <= k
    BY <1>1, <1>4, NeededFits
  <2>3. \A i \in k .. MAX_ORDER : free_area[i] = <<>>
    BY <1>1, <2>1, <2>2 DEF Orders
  <2> HIDE DEF k
  <2>4. /\ start \in 0 .. n_pages - PagesOf(k) /\ Aligned(start, k)
        /\ \A p \in Allocated : Block(p, block_size[p]) \cap Block(start, k) = {}
    BY <2>1, <1>4, SamePlaces
  <2>5. start \in PageIds
    <3>1. PagesOf(k) \in Nat \ {0} /\ n_pages \in Nat
      BY <2>1, PagesFacts DEF Orders
    <3> QED BY <3>1, <2>4 DEF PageIds
  <2> QED BY <2>1, <2>3, <2>4, <2>5, <1>2, NoRoom
<1> QED BY <1>2, <1>3, <1>4 DEF Abstract!Refuse, HandedOut, Handed

\* The abstract allocator takes no step.
SameStore == /\ HandedOut' = HandedOut /\ asked' = asked /\ ret' = ret
             /\ (op' = "split") = (op = "split")

\* One step of the program is one of the abstract allocator, or none.
LEMMA AllocatorStep ==
  ASSUME SimulatorInv, [Next]_vars
  PROVE  Abstract!BANext \/ SameStore
<1>1. BuddyInv
  BY DEF SimulatorInv
<1>2. ASSUME Allocated' = Allocated, ret' = ret, asked' = asked,
             op' = "split" <=> op = "split",
             \A p \in Allocated : block_size'[p] = block_size[p]
      PROVE  SameStore
  BY <1>2, SameHandedOut DEF SameStore
<1>3. ASSUME UNCHANGED <<is_free, block_size, ret, asked>>, op' = "split" <=> op = "split"
      PROVE  SameStore
  BY <1>2, <1>3 DEF Allocated
<1>4. ASSUME NEW v \in Vars, NEW size \in Sizes, ParseAlloc(v, size)
      PROVE  Abstract!BANext
  <2>1. /\ op = "idle" /\ op' = "split" /\ asked' = size /\ ret' = ret
        /\ is_free' = is_free /\ block_size' = block_size
    BY <1>4 DEF ParseAlloc, AllocStarts
  <2>2. HandedOut' = HandedOut
    BY <2>1, SameHandedOut DEF Allocated
  <2>3. Abstract!Request(size)
    BY <2>1, <2>2 DEF Abstract!Request, HandedOut, Handed
  <2> QED BY <2>3 DEF Abstract!BANext
<1>5. ASSUME NEW v \in Vars, NEW size \in Sizes, OutOfMemory(v, size)
      PROVE  Abstract!BANext
  <2>1. AllocFails(size)
    BY <1>5 DEF OutOfMemory
  <2> QED BY <2>1, <1>1, FailRefuses DEF Abstract!BANext
<1>6. ASSUME NEW v \in Vars, ParseFree(v)
      PROVE  Abstract!BANext
  <2>1. /\ Ready /\ var_map[v].in_use = 1 /\ FreeStarts(var_map[v].mem)
    BY <1>6 DEF ParseFree
  <2>2. PICK page \in Allocated : page = var_map[v].mem
    BY <2>1 DEF SimulatorInv, Held, Holders, Ready
  <2>3. FreeStarts(page)
    BY <2>1, <2>2 DEF FreeStarts
  <2>4. \E b \in HandedOut : Abstract!Release(b)
    BY <2>3, <1>1, FreeReleases
  <2> QED BY <2>4 DEF Abstract!BANext, HandedOut, Handed
<1>7. ASSUME NEW v \in Vars, DoubleFree(v)
      PROVE  SameStore
  BY <1>3, <1>7 DEF DoubleFree, buddy
<1>8. ASSUME EndOfFile
      PROVE  SameStore
  BY <1>3, <1>8 DEF EndOfFile, buddy
<1>9. ASSUME Split
      PROVE  SameStore
  <2> DEFINE h == Head(free_area[o])
             r == BuddyOf(h, o - 1)
  <2>1. /\ block_size' = [block_size EXCEPT ![h] = o - 1, ![r] = o - 1]
        /\ is_free' = is_free /\ ret' = ret /\ asked' = asked /\ op' = op
    BY <1>9 DEF Split
  <2>2. h \notin Allocated /\ r \notin Allocated
    BY <1>1, <1>9, SplitNotInUse
  <2> HIDE DEF h, r
  <2>3. \A p \in Allocated : block_size'[p] = block_size[p]
    BY <1>1, <2>1, <2>2 DEF Allocated, BuddyInv, BuddyTypeOK
  <2> QED BY <2>1, <2>3, <1>2 DEF Allocated
<1>10. ASSUME Combine
       PROVE  SameStore
  <2> DEFINE first == Lower(the_page, buddy_page)
  <2>1. /\ block_size' = [block_size EXCEPT ![first] = block_size[the_page] + 1]
        /\ is_free' = is_free /\ ret' = ret /\ asked' = asked
        /\ op = "combine" /\ op' # "split" /\ CanCombine
    BY <1>10 DEF Combine, Lower
  <2>2. first \notin Allocated
    <3>1. is_free[the_page] = 1 /\ is_free[buddy_page] = 1
      BY <1>1, <2>1 DEF BuddyInv, Combining, CanCombine, BuddyIsFree
    <3> QED BY <3>1 DEF Lower, Allocated
  <2> HIDE DEF first
  <2>3. \A p \in Allocated : block_size'[p] = block_size[p]
    BY <1>1, <2>1, <2>2 DEF Allocated, BuddyInv, BuddyTypeOK
  <2> QED BY <2>1, <2>3, <1>2 DEF Allocated
<1>11. ASSUME AllocReturns
       PROVE  Abstract!BANext
  <2>1. Take
    BY <1>11 DEF AllocReturns
  <2> QED BY <2>1, <1>1, TakeAllocates DEF Abstract!BANext
<1>12. ASSUME FreeReturns
       PROVE  SameStore
  BY <1>3, <1>12 DEF FreeReturns, Insert
<1>13. ASSUME UNCHANGED vars
       PROVE  SameStore
  BY <1>3, <1>13 DEF vars, buddy
<1> QED BY <1>4, <1>5, <1>6, <1>7, <1>8, <1>9, <1>10, <1>11, <1>12, <1>13
        DEF Next, Command, Call, Return, Terminated

\* buddy.h's promise: blocks handed out are aligned, disjoint and of the smallest order
\* that holds the size asked for, and a request is refused only where memory has no
\* place for any block that large, which splitting and combining never take away.
THEOREM BuddyImplementsBlockAllocator == Spec => ImplementsBlockAllocator
<1>1. Init => Abstract!BAInit
  <2> SUFFICES ASSUME Init PROVE Abstract!BAInit
    OBVIOUS
  <2>1. Allocated = {} /\ ret = NULL /\ asked = NULL /\ op = "idle"
    BY DEF Init, buddy_init, Allocated
  <2> QED BY <2>1 DEF Abstract!BAInit
<1>2. SimulatorInv /\ [Next]_vars
        => [Abstract!BANext]_(Abstract!store)
  BY AllocatorStep DEF SameStore, HandedOut, Handed, Abstract!store
<1> QED BY <1>1, <1>2, InvariantHolds, PTL DEF Spec, ImplementsBlockAllocator, Abstract!BASpec

=============================================================================
