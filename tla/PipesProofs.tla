---------------------------- MODULE PipesProofs ----------------------------
(***************************************************************************)
(* Proofs about IpcPipes for a pipeline of any length, whatever its        *)
(* commands are redirected to.                                             *)
(*                                                                         *)
(* The flags come first: cmds() folds the commands of a script from the    *)
(* right, and what it gives each of them is proved by an induction over    *)
(* the places of the sequence.  WiringInv then says which ends of pipes    *)
(* every process has open at each stage of its life, and DeliveryInv what  *)
(* that keeps true of the items: commands end from left to right, nobody   *)
(* is killed for what it writes, and no item is lost or made.              *)
(***************************************************************************)
EXTENDS IpcPipes, FiniteSetTheorems, SequenceTheorems, WellFoundedInduction, TLAPS

-----------------------------------------------------------------------------
(***************************************************************************)
(* Folds over a sequence from its right end.                               *)
(***************************************************************************)
\* Induction over the numbers up to n, for a set of them.
LEMMA UpTo ==
  ASSUME NEW n \in Nat, NEW T, 0 \in T, \A k \in 0 .. n - 1 : k \in T => k + 1 \in T
  PROVE  \A k \in 0 .. n : k \in T
<1> DEFINE R == OpToRel(<, Nat)
           Bad == {k \in 0 .. n : k \notin T}
<1>1. IsWellFoundedOn(R, Nat)
  BY NatLessThanWellFounded
<1>2. \A x, y \in Nat : <<y, x>> \in R <=> y < x
  BY DEF OpToRel
<1> HIDE DEF R
<1>3. SUFFICES ASSUME Bad # {} PROVE FALSE
  OBVIOUS
<1>4. Bad \subseteq Nat
  OBVIOUS
<1> HIDE DEF Bad
<1>5. PICK x \in Bad : \A y \in Bad : ~(<<y, x>> \in R)
  BY <1>1, <1>3, <1>4, WFMin
<1>6. x \in Nat /\ x <= n /\ x \notin T /\ x # 0
  BY DEF Bad
<1>7. x - 1 \in 0 .. n - 1 /\ x - 1 \notin T
  BY <1>6
<1>8. x - 1 \in Bad
  BY <1>7 DEF Bad
<1>9. <<x - 1, x>> \in R
  <2>1. x - 1 \in Nat /\ x - 1 < x
    BY <1>6, <1>7
  <2> QED BY <1>2, <1>6, <2>1
<1> QED BY <1>5, <1>8, <1>9

\* The least number of a set of places.
LEMMA LeastPlace ==
  ASSUME NEW n \in Nat, NEW s \in SUBSET (1 .. n), s # {}
  PROVE  Min(s) \in s /\ \A y \in s : Min(s) <= y
<1>1. \E x \in s : \A y \in s : x <= y
  <2> SUFFICES ASSUME ~ \E x \in s : \A y \in s : x <= y PROVE FALSE
    OBVIOUS
  <2> DEFINE T == {k \in Nat : \A y \in s : k <= y}
  <2>1. 0 \in T
    OBVIOUS
  <2>2. ASSUME NEW k \in 0 .. n, k \in T PROVE k + 1 \in T
    <3>1. k \notin s
      BY <2>2
    <3>2. ASSUME NEW y \in s PROVE k + 1 <= y
      BY <2>2, <3>1
    <3> QED BY <3>2
  <2> HIDE DEF T
  <2>3. \A k \in 0 .. n : k \in T
    BY <2>1, <2>2, UpTo
  <2>4. n + 1 \in T
    BY <2>3, <2>2
  <2>5. PICK y \in s : TRUE
    OBVIOUS
  <2> QED BY <2>4, <2>5 DEF T
<1> QED BY <1>1 DEF Min

\* What lies behind the least place of the last places.
LEMMA LastPlaces ==
  ASSUME NEW n \in Nat, NEW k \in 0 .. n - 1
  PROVE  /\ n - k .. n # {}
         /\ Min(n - k .. n) = n - k
         /\ (n - k .. n) \ {n - k} = n - k + 1 .. n
<1>1. n - k .. n \in SUBSET (1 .. n) /\ n - k \in n - k .. n
  OBVIOUS
<1>2. Min(n - k .. n) \in n - k .. n /\ Min(n - k .. n) <= n - k
  BY <1>1, LeastPlace
<1> QED BY <1>1, <1>2

\* A step of a fold over 1 .. n stays in V; f is the fold of all sets of places.
StaysIn(V, n, G) == \A k \in 1 .. n, v \in V : G[<<k, v>>] \in V

IsFold(f, n, b, G) ==
  \A s \in SUBSET (1 .. n) :
    f[s] = IF s = {} THEN b ELSE G[<<Min(s), f[s \ {Min(s)}]>>]

\* A fold is defined: there is a function that obeys its recursion.
LEMMA FoldExists ==
  ASSUME NEW n \in Nat, NEW V, NEW b \in V, NEW G,
         StaysIn(V, n, G)
  PROVE  \E f \in [SUBSET (1 .. n) -> V] : IsFold(f, n, b, G)
<1> USE DEF StaysIn
<1> DEFINE Dom(k) == SUBSET (n - k + 1 .. n)
           Obeys(h, k) == \A s \in Dom(k) :
                            h[s] = IF s = {} THEN b ELSE G[<<Min(s), h[s \ {Min(s)}]>>]
           T == {k \in 0 .. n : \E h \in [Dom(k) -> V] : Obeys(h, k)}
<1>1. 0 \in T
  <2> DEFINE h == [s \in Dom(0) |-> b]
  <2>1. h \in [Dom(0) -> V] /\ Obeys(h, 0)
    OBVIOUS
  <2> HIDE DEF h, Obeys
  <2>2. \E g \in [Dom(0) -> V] : Obeys(g, 0)
    BY <2>1
  <2> QED BY <2>2
<1>2. ASSUME NEW k \in 0 .. n - 1, k \in T PROVE k + 1 \in T
  <2>1. PICK h \in [Dom(k) -> V] : Obeys(h, k)
    BY <1>2
  <2> DEFINE g == [s \in Dom(k + 1) |-> IF s = {} THEN b
                                        ELSE G[<<Min(s), h[s \ {Min(s)}]>>]]
  <2>2. ASSUME NEW s \in Dom(k + 1), s # {}
        PROVE  Min(s) \in 1 .. n /\ s \ {Min(s)} \in Dom(k) /\ s \ {Min(s)} \in Dom(k + 1)
    <3>1. s \in SUBSET (1 .. n)
      OBVIOUS
    <3>2. Min(s) \in s /\ \A y \in s : Min(s) <= y
      BY <2>2, <3>1, LeastPlace
    <3>3. s \subseteq n - k .. n
      OBVIOUS
    <3>4. ASSUME NEW y \in s \ {Min(s)} PROVE y \in n - k + 1 .. n
      <4>1. Min(s) \in n - k .. n /\ y \in n - k .. n /\ y # Min(s) /\ Min(s) <= y
        BY <3>2, <3>3
      <4> QED BY <4>1
    <3> QED BY <3>1, <3>2, <3>4
  <2>3. g \in [Dom(k + 1) -> V]
    BY <2>2
  <2>4. ASSUME NEW s \in Dom(k) PROVE g[s] = h[s]
    <3>1. s \in Dom(k + 1)
      OBVIOUS
    <3> QED BY <3>1, <2>1
  <2>5. Obeys(g, k + 1)
    BY <2>2, <2>4
  <2> HIDE DEF g, Obeys
  <2>6. \E f \in [Dom(k + 1) -> V] : Obeys(f, k + 1)
    BY <2>3, <2>5
  <2>7. k + 1 \in 0 .. n
    OBVIOUS
  <2> HIDE DEF Dom
  <2> QED BY <2>6, <2>7
<1> HIDE DEF T
<1>3. n \in T
  BY <1>1, <1>2, UpTo
<1>4. Dom(n) = SUBSET (1 .. n)
  OBVIOUS
<1> QED BY <1>3, <1>4 DEF T, IsFold

-----------------------------------------------------------------------------
(***************************************************************************)
(* The flags of a script                                                   *)
(***************************************************************************)
RedirFlags == [r_in : BOOLEAN, r_out : BOOLEAN, r_app : BOOLEAN]

\* Redirections give a command Boolean flags, and none if there are none.
LEMMA RedirectionFlags ==
  ASSUME NEW marks \in Seq(Marks)
  PROVE  /\ FoldRight(redir_inner, marks, mk_redirect) \in RedirFlags
         /\ marks = <<>> => FoldRight(redir_inner, marks, mk_redirect) = mk_redirect
<1> DEFINE n == Len(marks)
           G == [kv \in (1 .. n) \X RedirFlags |-> redir_inner(marks[kv[1]], kv[2])]
           Fold(f) == f = [s \in SUBSET (1 .. n) |->
                             IF s = {} THEN mk_redirect
                             ELSE redir_inner(marks[Min(s)], f[s \ {Min(s)}])]
           fold == CHOOSE f : Fold(f)
<1>1. n \in Nat /\ DOMAIN marks = 1 .. n /\ \A k \in 1 .. n : marks[k] \in Marks
  OBVIOUS
<1>2. mk_redirect \in RedirFlags
  BY DEF mk_redirect, RedirFlags
<1>3. ASSUME NEW mark \in Marks, NEW r \in RedirFlags
      PROVE  redir_inner(mark, r) \in RedirFlags
  <2>1. CASE mark = "<"
    BY <2>1 DEF redir_inner, RedirFlags
  <2>2. CASE mark = ">"
    BY <2>2 DEF redir_inner, RedirFlags
  <2>3. CASE mark = ">>"
    BY <2>3 DEF redir_inner, RedirFlags
  <2> QED BY <2>1, <2>2, <2>3 DEF Marks
<1>4. \A k \in 1 .. n, v \in RedirFlags : G[<<k, v>>] = redir_inner(marks[k], v)
                                           /\ G[<<k, v>>] \in RedirFlags
  BY <1>1, <1>3
<1> HIDE DEF G, n
<1>5. PICK g \in [SUBSET (1 .. n) -> RedirFlags] :
        IsFold(g, n, mk_redirect, G)
  <2>1. StaysIn(RedirFlags, n, G)
    BY <1>4 DEF StaysIn
  <2> QED BY <1>1, <1>2, <2>1, FoldExists
<1>6. Fold(g)
  <2>1. ASSUME NEW s \in SUBSET (1 .. n), s # {}
        PROVE  g[s] = redir_inner(marks[Min(s)], g[s \ {Min(s)}])
    <3>1. Min(s) \in 1 .. n
      BY <1>1, <2>1, LeastPlace
    <3>2. g[s \ {Min(s)}] \in RedirFlags
      OBVIOUS
    <3> QED BY <1>4, <1>5, <2>1, <3>1, <3>2 DEF IsFold
  <2> QED BY <1>5, <2>1 DEF IsFold
<1>7. Fold(fold)
  BY <1>6
<1>8. FoldRight(redir_inner, marks, mk_redirect) = fold[1 .. n]
  BY <1>1 DEF FoldRight, MapThenFoldSet
<1> HIDE DEF fold
<1>9. fold[{}] = mk_redirect
  BY <1>7
<1>10. fold[1 .. n] \in RedirFlags
  <2> DEFINE T == {k \in 0 .. n : fold[n - k + 1 .. n] \in RedirFlags}
  <2>1. 0 \in T
    BY <1>1, <1>2, <1>9
  <2>2. ASSUME NEW k \in 0 .. n - 1, k \in T PROVE k + 1 \in T
    <3>1. fold[n - k .. n] = redir_inner(marks[n - k], fold[n - k + 1 .. n])
      <4>1. n - k .. n \in SUBSET (1 .. n)
        BY <1>1
      <4> QED BY <1>1, <1>7, <4>1, LastPlaces
    <3>2. fold[n - k .. n] \in RedirFlags
      BY <1>1, <1>3, <2>2, <3>1
    <3>3. k + 1 \in 0 .. n /\ n - (k + 1) + 1 = n - k
      BY <1>1
    <3> QED BY <3>2, <3>3
  <2> HIDE DEF T
  <2>3. n \in T
    BY <1>1, <2>1, <2>2, UpTo
  <2>4. fold[n - n + 1 .. n] \in RedirFlags /\ n - n + 1 = 1
    BY <1>1, <2>3 DEF T
  <2> QED BY <2>4
<1>11. marks = <<>> => 1 .. n = {}
  BY DEF n
<1> QED BY <1>8, <1>9, <1>10, <1>11

Top == [p_in : {FALSE}, p_out : {FALSE}, background : BOOLEAN,
        r_in : BOOLEAN, r_out : BOOLEAN, r_app : BOOLEAN]
Holder == [p_in : BOOLEAN, p_out : BOOLEAN, background : BOOLEAN,
           r_in : BOOLEAN, r_out : BOOLEAN, r_app : BOOLEAN]

\* The rule of the grammar: a command in front of a pipe and the commands behind it.
AddCommand(top, rest) == IF rest = <<>> THEN <<top>> ELSE Pipe(top, rest[1]) \o Tail(rest)

\* The flags of command c in the script that begins with command first.
FlagsOf(tops, c, first) ==
  [p_in |-> c # first,
   p_out |-> c < NumCommands,
   background |-> \E d \in c .. NumCommands : tops[d].background,
   r_in |-> c = first /\ tops[c].r_in,
   r_out |-> c = NumCommands /\ tops[c].r_out,
   r_app |-> c = NumCommands /\ tops[c].r_app]

\* The last k commands of a script.
LastCommands(tops, k) ==
  [j \in 1 .. k |-> FlagsOf(tops, NumCommands - k + j, NumCommands - k + 1)]

\* A command by itself has the flags of its redirections, and no pipe.
LEMMA TopOf ==
  ASSUME NEW marks \in Seq(Marks), NEW bg \in BOOLEAN
  PROVE  /\ cmd_top(marks, bg) \in Top
         /\ cmd_top(marks, bg).background = bg
         /\ marks = <<>> => ~cmd_top(marks, bg).r_in /\ ~cmd_top(marks, bg).r_out
<1> DEFINE r == FoldRight(redir_inner, marks, mk_redirect)
<1>1. r \in RedirFlags /\ (marks = <<>> => r = mk_redirect)
  BY RedirectionFlags
<1>2. cmd_top(marks, bg) = [p_in |-> FALSE, p_out |-> FALSE, background |-> bg,
                            r_in |-> r.r_in, r_out |-> r.r_out, r_app |-> r.r_app]
  BY DEF cmd_top
<1> HIDE DEF r
<1> QED BY <1>1, <1>2 DEF RedirFlags, Top, mk_redirect

SameFlags(h, g) == /\ h.p_in <=> g.p_in
                   /\ h.p_out <=> g.p_out
                   /\ h.background <=> g.background
                   /\ h.r_in <=> g.r_in
                   /\ h.r_out <=> g.r_out
                   /\ h.r_app <=> g.r_app

\* Two holders with the same flags are the same.
LEMMA SameHolder ==
  ASSUME NEW h \in Holder, NEW g \in Holder, SameFlags(h, g)
  PROVE  h = g
BY DEF Holder, SameFlags

\* The two commands of a pipe.
Before(cmd, prev) == [cmd EXCEPT !.p_out = TRUE, !.r_out = FALSE, !.r_app = FALSE,
                                 !.background = @ \/ prev.background]
Behind(prev) == [prev EXCEPT !.p_in = TRUE, !.r_in = FALSE]

\* The rule for a pipe gives the two commands around it.
LEMMA PipeFlags ==
  ASSUME NEW cmd \in Holder, NEW prev \in Holder
  PROVE  /\ Pipe(cmd, prev) = <<Before(cmd, prev), Behind(prev)>>
         /\ Before(cmd, prev) \in Holder /\ Behind(prev) \in Holder
         /\ Pipe(cmd, prev) \in Seq(Holder)
<1>1. Before(cmd, prev) \in Holder /\ Behind(prev) \in Holder
  BY DEF Before, Behind, Holder
<1>2. Pipe(cmd, prev) = <<Before(cmd, prev), Behind(prev)>>
  BY DEF Pipe, Before, Behind
<1> QED BY <1>1, <1>2

\* The command before a pipe writes it, and no file.
LEMMA BeforeFlags ==
  ASSUME NEW cmd \in Holder, NEW prev \in Holder
  PROVE  /\ Before(cmd, prev).p_in <=> cmd.p_in
         /\ Before(cmd, prev).p_out
         /\ Before(cmd, prev).background <=> (cmd.background \/ prev.background)
         /\ Before(cmd, prev).r_in <=> cmd.r_in
         /\ ~Before(cmd, prev).r_out
         /\ ~Before(cmd, prev).r_app
BY DEF Before, Holder

\* The command behind a pipe reads it, and no file.
LEMMA BehindFlags ==
  ASSUME NEW prev \in Holder
  PROVE  /\ Behind(prev).p_in
         /\ Behind(prev).p_out <=> prev.p_out
         /\ Behind(prev).background <=> prev.background
         /\ ~Behind(prev).r_in
         /\ Behind(prev).r_out <=> prev.r_out
         /\ Behind(prev).r_app <=> prev.r_app
BY DEF Behind, Holder

\* The flags a command is to have, one by one.
LEMMA ClosedFlags ==
  ASSUME NEW tops \in [Commands -> Top], NEW c \in Commands, NEW first \in Int
  PROVE  /\ FlagsOf(tops, c, first) \in Holder
         /\ FlagsOf(tops, c, first).p_in <=> c # first
         /\ FlagsOf(tops, c, first).p_out <=> c < NumCommands
         /\ FlagsOf(tops, c, first).background
               <=> \E d \in c .. NumCommands : tops[d].background
         /\ FlagsOf(tops, c, first).r_in <=> (c = first /\ tops[c].r_in)
         /\ FlagsOf(tops, c, first).r_out <=> (c = NumCommands /\ tops[c].r_out)
         /\ FlagsOf(tops, c, first).r_app <=> (c = NumCommands /\ tops[c].r_app)
<1>1. FlagsOf(tops, c, first) \in Holder
  BY DEF FlagsOf, Holder
<1>2. tops[c].r_in \in BOOLEAN /\ tops[c].r_out \in BOOLEAN /\ tops[c].r_app \in BOOLEAN
  BY DEF Top
<1> QED BY <1>1, <1>2 DEF FlagsOf

\* Adding a command gives a list of commands.
LEMMA AddCommandType ==
  ASSUME NEW top \in Top, NEW rest \in Seq(Holder)
  PROVE  AddCommand(top, rest) \in Seq(Holder)
<1>1. top \in Holder
  BY DEF Top, Holder
<1>2. ASSUME rest # <<>> PROVE AddCommand(top, rest) \in Seq(Holder)
  <2>1. rest[1] \in Holder /\ Tail(rest) \in Seq(Holder)
    BY <1>2
  <2>2. Pipe(top, rest[1]) \in Seq(Holder)
    BY <1>1, <2>1, PipeFlags
  <2> QED BY <1>2, <2>1, <2>2 DEF AddCommand
<1> QED BY <1>1, <1>2 DEF AddCommand

\* Adding a command in front of the last k gives the last k + 1.
LEMMA AddToLast ==
  ASSUME NEW tops \in [Commands -> Top], NEW k \in 1 .. NumCommands - 1
  PROVE  AddCommand(tops[NumCommands - k], LastCommands(tops, k)) = LastCommands(tops, k + 1)
<1> USE NumCommandsAssumption DEF Commands
<1> DEFINE n == NumCommands
           top == tops[n - k]
           rest == LastCommands(tops, k)
           more == LastCommands(tops, k + 1)
<1>0. n \in Nat /\ k \in Nat /\ k >= 1 /\ k < n /\ n - k \in 1 .. n /\ n - k + 1 \in 1 .. n
  OBVIOUS
<1>1. /\ rest = [j \in 1 .. k |-> FlagsOf(tops, n - k + j, n - k + 1)]
      /\ more = [j \in 1 .. k + 1 |-> FlagsOf(tops, n - (k + 1) + j, n - (k + 1) + 1)]
  BY DEF LastCommands
<1>2. ASSUME NEW j \in 1 .. k, NEW first \in Int
      PROVE  n - k + j \in Commands /\ FlagsOf(tops, n - k + j, first) \in Holder
  BY <1>0, ClosedFlags
<1>3. rest \in Seq(Holder) /\ Len(rest) = k /\ rest # <<>>
  <2>1. rest \in [1 .. k -> Holder]
    <3>1. n - k + 1 \in Int
      BY <1>0
    <3> QED BY <1>1, <1>2, <3>1
  <2> HIDE DEF rest
  <2> QED BY <1>0, <2>1
<1>4. rest[1] = FlagsOf(tops, n - k + 1, n - k + 1) /\ rest[1] \in Holder
  BY <1>0, <1>1, <1>2
<1>5. top \in Top /\ top \in Holder
  BY <1>0 DEF Top, Holder
<1>6. Before(top, rest[1]) = FlagsOf(tops, n - k, n - k)
  <2> DEFINE h == Before(top, rest[1])
             g == FlagsOf(tops, n - k, n - k)
  <2>1. (\E d \in n - k .. n : tops[d].background)
          <=> (top.background \/ \E d \in n - k + 1 .. n : tops[d].background)
    BY <1>0
  <2>2. h \in Holder /\ g \in Holder
    BY <1>0, <1>4, <1>5, PipeFlags, ClosedFlags
  <2>3. ~top.p_in /\ top = tops[n - k]
    BY <1>5 DEF Top
  <2>4. SameFlags(h, g)
    <3>1. /\ g.p_in <=> FALSE
          /\ g.p_out <=> TRUE
          /\ g.background <=> \E d \in n - k .. n : tops[d].background
          /\ g.r_in <=> tops[n - k].r_in
          /\ g.r_out <=> FALSE
          /\ g.r_app <=> FALSE
      BY <1>0, ClosedFlags
    <3>2. rest[1].background <=> \E d \in n - k + 1 .. n : tops[d].background
      BY <1>0, <1>4, ClosedFlags
    <3> HIDE DEF top, rest, n, g
    <3> QED BY <3>1, <3>2, <1>0, <1>4, <1>5, <2>1, <2>3, BeforeFlags, ClosedFlags DEF n, SameFlags
  <2> QED BY <2>2, <2>4, SameHolder
<1>7. Behind(rest[1]) = FlagsOf(tops, n - k + 1, n - k)
  <2> DEFINE h == Behind(rest[1])
             g == FlagsOf(tops, n - k + 1, n - k)
  <2>1. SameFlags(h, g)
    <3> HIDE DEF top, rest, n
    <3> QED BY <1>0, <1>4, BehindFlags, ClosedFlags DEF n, SameFlags
  <2>2. h \in Holder /\ g \in Holder
    BY <1>0, <1>4, PipeFlags, ClosedFlags
  <2> QED BY <2>1, <2>2, SameHolder
<1>8. ASSUME NEW c \in n - k + 2 .. n
      PROVE  FlagsOf(tops, c, n - k + 1) = FlagsOf(tops, c, n - k)
  <2> DEFINE h == FlagsOf(tops, c, n - k + 1)
             g == FlagsOf(tops, c, n - k)
  <2>0. c \in Commands /\ c # n - k + 1 /\ c # n - k
    BY <1>0
  <2>1. SameFlags(h, g)
    <3> HIDE DEF n
    <3> QED BY <1>0, <2>0, ClosedFlags DEF n, SameFlags
  <2>2. h \in Holder /\ g \in Holder
    BY <1>0, <2>0, ClosedFlags
  <2> QED BY <2>1, <2>2, SameHolder
<1> DEFINE one == FlagsOf(tops, n - k, n - k)
           two == FlagsOf(tops, n - k + 1, n - k)
<1>9. AddCommand(top, rest) = <<one, two>> \o Tail(rest)
  BY <1>3, <1>4, <1>5, <1>6, <1>7, PipeFlags DEF AddCommand
<1>10. one \in Holder /\ two \in Holder
  BY <1>0, ClosedFlags
<1>11. more \in Seq(Holder) /\ Len(more) = k + 1
       /\ \A j \in 1 .. k + 1 : more[j] = FlagsOf(tops, n - k - 1 + j, n - k)
  <2>1. \A j \in 1 .. k + 1 : n - (k + 1) + j = n - k - 1 + j /\ n - (k + 1) + 1 = n - k
                               /\ n - k - 1 + j \in Commands
    BY <1>0
  <2>2. \A j \in 1 .. k + 1 : more[j] = FlagsOf(tops, n - k - 1 + j, n - k)
    BY <1>1, <2>1
  <2>3. more \in [1 .. k + 1 -> Holder]
    <3>1. \A j \in 1 .. k + 1 : more[j] \in Holder
      BY <1>0, <2>1, <2>2, ClosedFlags
    <3> HIDE DEF n
    <3> QED BY <1>1, <3>1
  <2> HIDE DEF more, n
  <2> QED BY <1>0, <2>2, <2>3
<1> HIDE DEF top, rest, more, n, one, two
<1>12. Tail(rest) \in Seq(Holder) /\ Len(Tail(rest)) = k - 1
       /\ \A j \in 1 .. k - 1 : Tail(rest)[j] = FlagsOf(tops, n - k + 1 + j, n - k)
  <2>1. /\ Tail(rest) \in Seq(Holder) /\ Len(Tail(rest)) = k - 1
        /\ \A j \in 1 .. k - 1 : Tail(rest)[j] = rest[j + 1]
    BY <1>0, <1>3, HeadTailProperties
  <2>2. \A j \in 1 .. k - 1 : rest[j + 1] = FlagsOf(tops, n - k + 1 + j, n - k)
    <3> TAKE j \in 1 .. k - 1
    <3>1. n - k + 1 + j \in n - k + 2 .. n /\ n - k + (j + 1) = n - k + 1 + j
          /\ j + 1 \in 1 .. k
      BY <1>0
    <3>2. rest[j + 1] = FlagsOf(tops, n - k + 1 + j, n - k + 1)
      BY <1>1, <3>1
    <3> QED BY <1>8, <3>1, <3>2
  <2> QED BY <2>1, <2>2
<1>13. <<one, two>> \o Tail(rest) = more
  <2> DEFINE s == <<one, two>>
             tl == Tail(rest)
             all == s \o tl
  <2>0. /\ tl \in Seq(Holder) /\ Len(tl) = k - 1
        /\ \A j \in 1 .. k - 1 : tl[j] = FlagsOf(tops, n - k + 1 + j, n - k)
    BY <1>12
  <2>1. s \in Seq(Holder) /\ Len(s) = 2 /\ s[1] = one /\ s[2] = two
    BY <1>10
  <2> HIDE DEF s, tl
  <2>2. /\ all \in Seq(Holder)
        /\ Len(all) = k + 1
        /\ \A j \in 1 .. k + 1 : all[j] = IF j <= 2 THEN s[j] ELSE tl[j - 2]
    <3>1. Len(s) + Len(tl) = k + 1
      BY <1>0, <2>0, <2>1
    <3>2. /\ all \in Seq(Holder)
          /\ Len(all) = Len(s) + Len(tl)
          /\ \A j \in 1 .. Len(s) + Len(tl) :
               all[j] = IF j <= Len(s) THEN s[j] ELSE tl[j - Len(s)]
      BY <2>0, <2>1, ConcatProperties
    <3> HIDE DEF all
    <3> QED BY <2>1, <3>1, <3>2
  <2> HIDE DEF all
  <2>3. ASSUME NEW j \in 1 .. k + 1 PROVE all[j] = more[j]
    <3>1. CASE j = 1
      <4>1. n - k - 1 + j = n - k
        BY <1>0, <3>1
      <4>2. all[j] = one
        BY <1>0, <2>1, <2>2, <3>1
      <4> QED BY <1>11, <4>1, <4>2 DEF one
    <3>2. CASE j = 2
      <4>1. n - k - 1 + j = n - k + 1
        BY <1>0, <3>2
      <4>2. all[j] = two
        BY <1>0, <2>1, <2>2, <3>2
      <4> QED BY <1>11, <4>1, <4>2 DEF two
    <3>3. CASE j > 2
      <4>1. j - 2 \in 1 .. k - 1 /\ n - k + 1 + (j - 2) = n - k - 1 + j
        BY <1>0, <3>3
      <4>2. tl[j - 2] = FlagsOf(tops, n - k - 1 + j, n - k)
        BY <2>0, <4>1
      <4>3. all[j] = tl[j - 2]
        BY <1>0, <2>2, <3>3
      <4> QED BY <1>11, <4>2, <4>3
    <3> QED BY <1>0, <3>1, <3>2, <3>3
  <2>4. Len(all) = k + 1
    BY <1>0, <2>2
  <2>5. all = more
    BY <1>11, <2>2, <2>3, <2>4, SeqEqual
  <2> QED BY <2>5 DEF all, s, tl
<1> QED BY <1>9, <1>13 DEF top, rest, more, n

\* The grammar gives the whole script the flags of its last NumCommands commands.
LEMMA ScriptFlags ==
  ASSUME NEW tops \in [Commands -> Top]
  PROVE  cmds(tops) = LastCommands(tops, NumCommands)
<1> DEFINE n == NumCommands
           G == [kv \in (1 .. n) \X Seq(Holder) |-> AddCommand(tops[kv[1]], kv[2])]
           Fold(f) == f = [s \in SUBSET (1 .. n) |->
                             IF s = {} THEN <<>> ELSE AddCommand(tops[Min(s)], f[s \ {Min(s)}])]
           fold == CHOOSE f : Fold(f)
<1>1. n \in Nat /\ n # 0 /\ Commands = 1 .. n /\ DOMAIN tops = 1 .. n
      /\ \A k \in 1 .. n : tops[k] \in Top
  BY NumCommandsAssumption DEF Commands
<1>2. <<>> \in Seq(Holder)
  OBVIOUS
<1>3. \A k \in 1 .. n, v \in Seq(Holder) : G[<<k, v>>] = AddCommand(tops[k], v)
                                            /\ G[<<k, v>>] \in Seq(Holder)
  BY <1>1, AddCommandType
<1>4. cmds(tops) = fold[1 .. n]
  BY <1>1 DEF cmds, FoldRight, MapThenFoldSet, AddCommand
<1> HIDE DEF G, n
<1>5. PICK g \in [SUBSET (1 .. n) -> Seq(Holder)] : IsFold(g, n, <<>>, G)
  <2>1. StaysIn(Seq(Holder), n, G)
    BY <1>3 DEF StaysIn
  <2> QED BY <1>1, <1>2, <2>1, FoldExists
<1>6. Fold(g)
  <2>1. ASSUME NEW s \in SUBSET (1 .. n), s # {}
        PROVE  g[s] = AddCommand(tops[Min(s)], g[s \ {Min(s)}])
    <3>1. Min(s) \in 1 .. n
      BY <1>1, <2>1, LeastPlace
    <3>2. g[s \ {Min(s)}] \in Seq(Holder)
      OBVIOUS
    <3> QED BY <1>3, <1>5, <2>1, <3>1, <3>2 DEF IsFold
  <2> QED BY <1>5, <2>1 DEF IsFold
<1>7. Fold(fold)
  BY <1>6
<1> HIDE DEF fold
<1>8. fold[{}] = <<>>
  BY <1>7
<1> DEFINE T == {k \in 0 .. n : k > 0 => fold[n - k + 1 .. n] = LastCommands(tops, k)}
<1>9. 0 \in T
  BY <1>1
<1>10. ASSUME NEW k \in 0 .. n - 1, k \in T PROVE k + 1 \in T
  <2>1. fold[n - k .. n] = AddCommand(tops[n - k], fold[n - k + 1 .. n])
    <3>1. n - k .. n \in SUBSET (1 .. n)
      BY <1>1
    <3> QED BY <1>1, <1>7, <3>1, LastPlaces
  <2>2. CASE k = 0
    <3>1. fold[n .. n] = AddCommand(tops[n], <<>>)
      <4>1. n + 1 .. n = {} /\ n - k = n /\ n - k + 1 = n + 1
        BY <1>1, <2>2
      <4> QED BY <1>8, <2>1, <4>1
    <3>2. fold[n .. n] = <<tops[n]>>
      BY <3>1 DEF AddCommand
    <3>3. tops[n] = FlagsOf(tops, n, n)
      <4>1. /\ FlagsOf(tops, n, n) \in Holder
            /\ FlagsOf(tops, n, n).p_in <=> FALSE
            /\ FlagsOf(tops, n, n).p_out <=> FALSE
            /\ FlagsOf(tops, n, n).background <=> tops[n].background
            /\ FlagsOf(tops, n, n).r_in <=> tops[n].r_in
            /\ FlagsOf(tops, n, n).r_out <=> tops[n].r_out
            /\ FlagsOf(tops, n, n).r_app <=> tops[n].r_app
        BY <1>1, ClosedFlags DEF n
      <4>2. tops[n] \in Holder /\ ~tops[n].p_in /\ ~tops[n].p_out
        <5>1. tops[n] \in Top
          BY <1>1
        <5> QED BY <5>1 DEF Top, Holder
      <4>3. SameFlags(tops[n], FlagsOf(tops, n, n))
        BY <4>1, <4>2 DEF SameFlags
      <4> QED BY <4>1, <4>2, <4>3, SameHolder
    <3>4. LastCommands(tops, 1) = <<FlagsOf(tops, n, n)>>
      <4>1. \A j \in 1 .. 1 : n - 1 + j = n /\ n - 1 + 1 = n
        BY <1>1
      <4>2. LastCommands(tops, 1) = [j \in 1 .. 1 |-> FlagsOf(tops, n, n)]
        BY <4>1 DEF LastCommands, n
      <4> QED BY <4>2
    <3>5. k + 1 = 1 /\ n - 1 + 1 = n /\ 1 \in 0 .. n
      BY <1>1, <2>2
    <3> QED BY <3>2, <3>3, <3>4, <3>5
  <2>3. CASE k > 0
    <3>1. fold[n - k + 1 .. n] = LastCommands(tops, k)
      BY <1>10, <2>3
    <3>2. k \in 1 .. n - 1
      BY <1>1, <2>3
    <3>3. fold[n - k .. n] = LastCommands(tops, k + 1)
      BY <2>1, <3>1, <3>2, AddToLast DEF n
    <3>4. k + 1 \in 0 .. n /\ n - (k + 1) + 1 = n - k
      BY <1>1
    <3> QED BY <3>3, <3>4
  <2> QED BY <1>1, <2>2, <2>3
<1> HIDE DEF T
<1>11. n \in T
  BY <1>1, <1>9, <1>10, UpTo
<1>12. fold[n - n + 1 .. n] = LastCommands(tops, n) /\ n - n + 1 = 1
  BY <1>1, <1>11 DEF T
<1> QED BY <1>4, <1>12 DEF n

\* Behind the first command each one reads a pipe and no file; before the last one
\* each writes a pipe and no file.
THEOREM FlagsFit ==
  ASSUME NEW tops \in [Commands -> Top], NEW c \in Commands
  PROVE  /\ cmds(tops) \in [Commands -> Holder]
         /\ cmds(tops)[c].p_in <=> c > 1
         /\ cmds(tops)[c].p_out <=> c < NumCommands
         /\ cmds(tops)[c].background <=> \E d \in c .. NumCommands : tops[d].background
         /\ cmds(tops)[c].r_in <=> (c = 1 /\ tops[c].r_in)
         /\ cmds(tops)[c].r_out <=> (c = NumCommands /\ tops[c].r_out)
<1> DEFINE n == NumCommands
<1>1. n \in Nat /\ n # 0 /\ Commands = 1 .. n
  BY NumCommandsAssumption DEF Commands
<1>2. cmds(tops) = [j \in 1 .. n |-> FlagsOf(tops, j, 1)]
  <2>1. \A j \in 1 .. n : n - n + j = j /\ n - n + 1 = 1
    BY <1>1
  <2> QED BY <2>1, ScriptFlags DEF LastCommands
<1>3. cmds(tops) \in [Commands -> Holder]
  BY <1>1, <1>2, ClosedFlags
<1>4. cmds(tops)[c] = FlagsOf(tops, c, 1) /\ c \in Int /\ (c # 1 <=> c > 1)
  BY <1>1, <1>2
<1> QED BY <1>3, <1>4, ClosedFlags

-----------------------------------------------------------------------------
(***************************************************************************)
(* The inductive invariant: what every process has open at each stage.     *)
(***************************************************************************)
Finder == program = "finder.c"

Sides == {"read", "write", "terminal", "infile", "outfile"}
PipeEnds == [pipe : Int, side : Sides]

Stages == {"none", "forked", "connected", "closed", "reading", "running", "done"}

Typed ==
  /\ program \in {"quash", "fork.c", "finder.c"}
  /\ pc \in [Commands -> Stages]
  /\ open \in [Commands -> SUBSET PipeEnds]
  /\ stdin \in [Commands -> PipeEnds] /\ stdout \in [Commands -> PipeEnds]
  /\ own \in [Commands -> [cur : Int, old : Int]]
  /\ pipes \in [{0, 1} -> Int]
  /\ content \in [PipeIds -> Nat] /\ left \in [Commands -> Nat]
  /\ shown \in Nat /\ unread \in Nat /\ written \in Nat
  /\ failed \in BOOLEAN /\ early \in BOOLEAN

\* The grammar gives a file only to the first and the last command.
Flagged ==
  /\ holders \in [Commands -> Holder]
  /\ \A c \in Commands : /\ holders[c].p_in <=> c > 1
                         /\ holders[c].p_out <=> c < NumCommands
                         /\ holders[c].r_in => c = 1 /\ program = "quash"
                         /\ holders[c].r_out => c = NumCommands /\ program = "quash"

\* The two entries of pipes[] take turns.
Turns ==
  /\ cur_pipe \in {0, 1} /\ old_pipe = 1 - cur_pipe
  /\ ~Finder => /\ at \in {"pipe", "fork", "close"} => pipes[old_pipe] = i - 1
                /\ at \in {"fork", "close"} => pipes[cur_pipe] = i
                /\ at = "close_last" => pipes[old_pipe] = i

\* Commands that were created.
Created == IF at \in {"open", "pipe", "fork"} THEN i - 1 ELSE i

\* quash has two pipes open while it creates the command between them, finder.c
\* has them all.
ShellEnds ==
  IF Finder THEN IF at \in {"fork", "close"} THEN FinderEnds ELSE {}
  ELSE IF at = "pipe" THEN Both(i - 1)
  ELSE IF at \in {"fork", "close"} THEN Both(i - 1) \cup Both(i)
  ELSE IF at = "close_last" THEN Both(i)
  ELSE {}

Places == {"open", "pipe", "fork", "close", "close_last", "wait", "done"}

ParentInv ==
  /\ at \in Places /\ i \in Commands
  /\ Finder => at \notin {"pipe", "close_last"}
  /\ at = "open" => i = 1
  /\ at \in {"close_last", "wait", "done"} => i = NumCommands
  /\ Finder /\ at = "close" => i = NumCommands
  /\ shell_open = ShellEnds
  /\ \A c \in Commands : pc[c] = "none" <=> c > Created

\* What a child inherits, and what it keeps of it.
Inherited(c) == IF Finder THEN FinderEnds ELSE Both(c - 1) \cup Both(c)

Kept(c) ==
  IF pc[c] \in {"forked", "connected"} THEN Inherited(c)
  ELSE IF pc[c] = "closed" /\ program # "quash" THEN Inherited(c) \cap Needed(c)
  ELSE IF pc[c] = "reading" /\ program = "fork.c" THEN {End(c, "write")}
  ELSE {}

\* Has a child its input, and its output, in place?
InPlace(c) == \/ pc[c] \in {"connected", "reading", "running", "done"}
              \/ pc[c] = "closed" /\ program = "quash"
OutPlace(c) == \/ pc[c] \in {"connected", "running", "done"}
               \/ pc[c] \in {"closed", "reading"} /\ program = "quash"

Input(c) ==
  IF c > 1 THEN stdin[c] = IF InPlace(c) THEN End(c - 1, "read") ELSE Terminal
  ELSE /\ stdin[c] = Terminal \/ stdin[c] = InFile
       /\ stdin[c] = InFile => holders[c].r_in /\ pc[c] \in {"reading", "running", "done"}
       /\ holders[c].r_in /\ ~failed /\ pc[c] \in {"reading", "running", "done"}
            => stdin[c] = InFile

Output(c) ==
  IF c < NumCommands THEN stdout[c] = IF OutPlace(c) THEN End(c, "write") ELSE Terminal
  ELSE /\ stdout[c] = Terminal \/ stdout[c] = OutFile
       /\ stdout[c] = OutFile => holders[c].r_out /\ pc[c] \in {"running", "done"}
       /\ holders[c].r_out /\ ~failed /\ pc[c] \in {"running", "done"}
            => stdout[c] = OutFile

ChildInv(c) ==
  /\ pc[c] = "connected" => program = "quash"
  /\ pc[c] = "reading" => ~Finder
  /\ ~Finder /\ pc[c] # "none" => own[c].cur = c /\ own[c].old = c - 1
  /\ open[c] = Kept(c)
  /\ Input(c)
  /\ Output(c)

WiringInv == Typed /\ Flagged /\ Turns /\ ParentInv /\ \A c \in Commands : ChildInv(c)

-----------------------------------------------------------------------------
(***************************************************************************)
(* Ends of pipes.                                                          *)
(***************************************************************************)
\* Two ends are the same only if pipe and side are.
LEMMA EndsDiffer ==
  /\ \A p, q : \A s, t : End(p, s) = End(q, t) <=> p = q /\ s = t
  /\ \A p \in Int : \A s \in Sides : End(p, s) \in PipeEnds
BY DEF End, Sides, PipeEnds

\* Closing one pipe of two leaves the other.
LEMMA CloseOne ==
  ASSUME NEW p, NEW q, p # q
  PROVE  (Both(p) \cup Both(q)) \ Both(p) = Both(q)
<1>1. Both(p) \cap Both(q) = {}
  BY EndsDiffer DEF Both
<1> QED BY <1>1

\* No pipe is a file or the terminal.
LEMMA SpecialEnds ==
  /\ Terminal \in PipeEnds /\ InFile \in PipeEnds /\ OutFile \in PipeEnds
  /\ Terminal # InFile /\ Terminal # OutFile /\ InFile # OutFile
  /\ ~IsPipe(Terminal) /\ ~IsPipe(InFile) /\ ~IsPipe(OutFile)
  /\ \A c \in 0 .. NumCommands, s \in Sides :
       /\ End(c, s) \notin {Terminal, InFile, OutFile} /\ IsPipe(End(c, s))
       /\ End(c, s).pipe = c
BY NumCommandsAssumption DEF Terminal, InFile, OutFile, End, PipeEnds, Sides, IsPipe

\* The two ends of a pipe are ends.
LEMMA BothEnds ==
  ASSUME NEW p \in Int
  PROVE  Both(p) \subseteq PipeEnds
BY EndsDiffer DEF Both, Sides

\* What a child inherits are ends of pipes.
LEMMA InheritedEnds ==
  ASSUME NEW c \in Commands
  PROVE  Inherited(c) \subseteq PipeEnds /\ FinderEnds \subseteq PipeEnds
<1>1. c \in Int /\ NumCommands \in Nat
  BY NumCommandsAssumption DEF Commands
<1>2. FinderEnds \subseteq PipeEnds
  BY <1>1, BothEnds DEF FinderEnds, FinderPipes
<1> QED BY <1>1, <1>2, BothEnds DEF Inherited

-----------------------------------------------------------------------------
(***************************************************************************)
(* The start                                                               *)
(***************************************************************************)
\* The scripts that the grammar builds are flagged right.
LEMMA InitFlagged == IpcInit => Flagged
<1> SUFFICES ASSUME IpcInit PROVE Flagged
  OBVIOUS
<1>1. NumCommands \in Nat /\ NumCommands # 0 /\ 0 \notin Commands
  BY NumCommandsAssumption DEF Commands
<1>2. PICK marks \in [Commands -> Redirections], bg \in Backgrounds :
        holders = cmds([c \in Commands |-> cmd_top(marks[c], c = bg)])
  BY DEF IpcInit, Init, ParsedScripts
<1>3. PICK tops \in [Commands -> Top] :
        /\ holders = cmds(tops)
        /\ program # "quash" => \A c \in Commands : ~tops[c].r_in /\ ~tops[c].r_out
  <2>1. CASE program = "quash"
    <3> DEFINE t == [c \in Commands |-> cmd_top(marks[c], c = bg)]
    <3>1. ASSUME NEW c \in Commands PROVE cmd_top(marks[c], c = bg) \in Top
      <4>1. marks[c] \in Seq(Marks) /\ (c = bg) \in BOOLEAN
        BY RedirectionsAssumption
      <4> QED BY <4>1, TopOf
    <3>2. t \in [Commands -> Top]
      BY <3>1
    <3> QED BY <1>2, <2>1, <3>2
  <2>2. CASE program # "quash"
    <3> DEFINE t == [c \in Commands |-> cmd_top(<<>>, FALSE)]
    <3>1. <<>> \in Seq(Marks) /\ FALSE \in BOOLEAN
      OBVIOUS
    <3>2. cmd_top(<<>>, FALSE) \in Top /\ ~cmd_top(<<>>, FALSE).r_in
          /\ ~cmd_top(<<>>, FALSE).r_out
      BY <3>1, TopOf
    <3>3. holders = cmds(t)
      BY <2>2 DEF IpcInit
    <3>4. t \in [Commands -> Top] /\ \A c \in Commands : ~t[c].r_in /\ ~t[c].r_out
      BY <3>2
    <3> QED BY <3>3, <3>4
  <2> QED BY <2>1, <2>2
<1>4. program \in {"quash", "fork.c", "finder.c"}
  BY DEF IpcInit
<1>5. 1 \in Commands
  BY <1>1 DEF Commands
<1>6. holders \in [Commands -> Holder]
  BY <1>3, <1>5, FlagsFit
<1> QED BY <1>3, <1>6, FlagsFit DEF Flagged

\* At the start no pipe is open and no command is created.
LEMMA InitWired == IpcInit => WiringInv
<1> SUFFICES ASSUME IpcInit PROVE WiringInv
  OBVIOUS
<1> USE DEF IpcInit, Init, PipelineInit
<1>1. NumCommands \in Nat /\ NumCommands # 0 /\ 1 \in Commands /\ Commands \subseteq Int
      /\ \A c \in Commands : c > 0
  BY NumCommandsAssumption DEF Commands
<1>2. Typed
  <2>1. content \in [PipeIds -> Nat] /\ left \in [Commands -> Nat]
        /\ shown \in Nat /\ unread \in Nat /\ written \in Nat
    BY ItemsAssumption
  <2>2. own \in [Commands -> [cur : Int, old : Int]] /\ pipes \in [{0, 1} -> Int]
    OBVIOUS
  <2>3. open \in [Commands -> SUBSET PipeEnds] /\ pc \in [Commands -> Stages]
    BY DEF Stages
  <2>4. stdin \in [Commands -> PipeEnds] /\ stdout \in [Commands -> PipeEnds]
    BY SpecialEnds
  <2>5. program \in {"quash", "fork.c", "finder.c"} /\ failed \in BOOLEAN /\ early \in BOOLEAN
    OBVIOUS
  <2> QED BY ONLY <2>1, <2>2, <2>3, <2>4, <2>5 DEF Typed
<1>3. Turns
  BY DEF Turns
<1>4. ParentInv
  BY <1>1 DEF ParentInv, Places, ShellEnds, Created
<1>5. ASSUME NEW c \in Commands PROVE ChildInv(c)
  BY <1>5, SpecialEnds DEF ChildInv, Kept, Input, Output, InPlace, OutPlace
<1> QED BY <1>2, <1>3, <1>4, <1>5, InitFlagged DEF WiringInv

-----------------------------------------------------------------------------
(***************************************************************************)
(* Steps: what they leave alone.                                           *)
(***************************************************************************)
\* A child that does not move; another may find that it cannot open a file.
LEMMA ChildStays ==
  ASSUME NEW c \in Commands, ChildInv(c), UNCHANGED <<program, holders>>,
         pc'[c] = pc[c], open'[c] = open[c], own'[c] = own[c],
         stdin'[c] = stdin[c], stdout'[c] = stdout[c], failed => failed'
  PROVE  ChildInv(c)'
BY DEF ChildInv, Kept, Inherited, Input, Output, InPlace, OutPlace, Finder

\* Nobody changes the flags.
LEMMA FlaggedStays ==
  ASSUME Flagged, UNCHANGED <<program, holders>>
  PROVE  Flagged'
BY DEF Flagged

\* A step of a child that is created leaves what is said of the parent.
LEMMA ParentStays ==
  ASSUME Turns, ParentInv, UNCHANGED <<program, quash, shell_open>>,
         \A c \in Commands : pc'[c] = "none" <=> pc[c] = "none"
  PROVE  Turns' /\ ParentInv'
<1>1. Turns'
  BY DEF Turns, quash, Finder
<1>2. ShellEnds' = ShellEnds /\ Created' = Created
  BY DEF ShellEnds, Created, quash, Finder
<1>3. ParentInv'
  BY <1>2 DEF ParentInv, quash, Finder
<1> QED BY <1>1, <1>3

\* A step of one child, which has its stage, its ends and the file's flag right
\* behind it.
LEMMA ChildStep ==
  ASSUME WiringInv, Typed', NEW c \in Commands, NEW stage,
         pc[c] # "none", pc' = [pc EXCEPT ![c] = stage], stage # "none",
         UNCHANGED <<program, holders, quash, own, shell_open>>,
         failed => failed', ChildInv(c)',
         \A d \in Commands \ {c} : /\ open'[d] = open[d]
                                   /\ stdin'[d] = stdin[d] /\ stdout'[d] = stdout[d]
  PROVE  WiringInv'
<1>1. \A d \in Commands : pc'[d] = IF d = c THEN stage ELSE pc[d]
  BY DEF WiringInv, Typed
<1>2. Turns' /\ ParentInv'
  <2>1. \A d \in Commands : pc'[d] = "none" <=> pc[d] = "none"
    BY <1>1
  <2> QED BY <2>1, ParentStays DEF WiringInv
<1>3. ASSUME NEW d \in Commands PROVE ChildInv(d)'
  <2>1. CASE d = c
    BY <2>1
  <2>2. CASE d # c
    BY <1>1, <2>2, ChildStays DEF WiringInv
  <2> QED BY <2>1, <2>2
<1> QED BY <1>2, <1>3, FlaggedStays DEF WiringInv

\* A step that moves no process but the ones that run.
LEMMA DataStep ==
  ASSUME WiringInv, Typed', UNCHANGED <<program, holders, quash, own, shell_open, children, failed>>
  PROVE  WiringInv'
<1>1. Turns' /\ ParentInv'
  BY ParentStays DEF WiringInv, children
<1>2. \A c \in Commands : ChildInv(c)'
  BY ChildStays DEF WiringInv, children
<1> QED BY <1>1, <1>2, FlaggedStays DEF WiringInv

-----------------------------------------------------------------------------
(***************************************************************************)
(* The children of quash                                                   *)
(***************************************************************************)
\* What an invariant of the wiring says of a child of quash or fork.c.
LEMMA OwnPipes ==
  ASSUME WiringInv, NEW c \in Commands, ~Finder, pc[c] # "none"
  PROVE  /\ own[c].cur = c /\ own[c].old = c - 1
         /\ Inherited(c) = Both(c - 1) \cup Both(c)
BY DEF WiringInv, ChildInv, Inherited

\* quash: the ends a child connects are open, for it inherited them.
LEMMA ConnectStep ==
  ASSUME WiringInv, NEW c \in Commands, program = "quash", program' = program, Connect(c)
  PROVE  WiringInv'
<1> USE DEF Connect
<1>1. /\ ~Finder /\ pc[c] = "forked" /\ c \in Int /\ c > 0 /\ NumCommands \in Int
      /\ c <= NumCommands
  BY NumCommandsAssumption DEF Finder, Commands
<1>2. /\ own[c].cur = c /\ own[c].old = c - 1
      /\ open[c] = Both(c - 1) \cup Both(c)
      /\ stdin[c] = Terminal /\ stdout[c] = Terminal
      /\ holders[c].p_in <=> c > 1
      /\ holders[c].p_out <=> c < NumCommands
  BY <1>1, OwnPipes, SpecialEnds
     DEF WiringInv, ChildInv, Kept, Input, Output, InPlace, OutPlace, Flagged
<1>3. End(c - 1, "read") \in open[c] /\ End(c, "write") \in open[c]
  BY <1>2 DEF Both
<1>4. /\ End(c - 1, "read") \in PipeEnds /\ End(c, "write") \in PipeEnds /\ Terminal \in PipeEnds
  BY <1>1, EndsDiffer, SpecialEnds DEF Sides
<1>5. /\ stdin' = [stdin EXCEPT ![c] = IF c > 1 THEN End(c - 1, "read") ELSE Terminal]
      /\ stdout' = [stdout EXCEPT ![c] = IF c < NumCommands THEN End(c, "write") ELSE Terminal]
  BY <1>2, <1>3 DEF Dup2
<1>6. Typed'
  BY <1>1, <1>4, <1>5 DEF WiringInv, Typed, Stages, quash, data
<1>7. ChildInv(c)'
  <2>1. /\ pc'[c] = "connected" /\ open'[c] = open[c] /\ own'[c] = own[c]
        /\ stdin'[c] = IF c > 1 THEN End(c - 1, "read") ELSE Terminal
        /\ stdout'[c] = IF c < NumCommands THEN End(c, "write") ELSE Terminal
        /\ holders' = holders /\ failed' = failed
    BY <1>5 DEF WiringInv, Typed
  <2> QED BY <1>1, <1>2, <2>1, SpecialEnds
      DEF ChildInv, Kept, Inherited, Input, Output, InPlace, OutPlace, Finder
<1>8. \A d \in Commands \ {c} : /\ open'[d] = open[d]
                                 /\ stdin'[d] = stdin[d] /\ stdout'[d] = stdout[d]
  BY <1>5 DEF WiringInv, Typed
<1> QED BY <1>1, <1>6, <1>7, <1>8, ChildStep

\* quash: the two pipes a child closes are all that it has open.
LEMMA ClosePipesStep ==
  ASSUME WiringInv, NEW c \in Commands, program = "quash", program' = program, ClosePipes(c)
  PROVE  WiringInv'
<1> USE DEF ClosePipes
<1>1. /\ ~Finder /\ pc[c] = "connected" /\ c \in Int /\ c > 0 /\ c <= NumCommands
  BY DEF Finder, Commands
<1>2. open[c] = Both(c - 1) \cup Both(c) /\ own[c].cur = c /\ own[c].old = c - 1
  BY <1>1, OwnPipes DEF WiringInv, ChildInv, Kept
<1>3. open' = [open EXCEPT ![c] = {}]
  BY <1>2
<1>4. Typed'
  BY <1>1, <1>3 DEF WiringInv, Typed, Stages, quash, data
<1>5. ChildInv(c)'
  <2>1. /\ pc'[c] = "closed" /\ open'[c] = {} /\ own'[c] = own[c]
        /\ stdin'[c] = stdin[c] /\ stdout'[c] = stdout[c]
        /\ holders' = holders /\ failed' = failed
    BY <1>3 DEF WiringInv, Typed
  <2> QED BY <1>1, <1>2, <2>1, SpecialEnds
      DEF WiringInv, ChildInv, Kept, Inherited, Input, Output, InPlace, OutPlace, Finder
<1>6. \A d \in Commands \ {c} : /\ open'[d] = open[d]
                                 /\ stdin'[d] = stdin[d] /\ stdout'[d] = stdout[d]
  BY <1>3 DEF WiringInv, Typed
<1> QED BY <1>1, <1>4, <1>5, <1>6, ChildStep

\* quash: only the first command has a file for stdin.
LEMMA RedirectInStep ==
  ASSUME WiringInv, NEW c \in Commands, program = "quash", program' = program, RedirectIn(c)
  PROVE  WiringInv'
<1> USE DEF RedirectIn
<1>1. /\ ~Finder /\ pc[c] = "closed" /\ c \in Int /\ c > 0 /\ c <= NumCommands
      /\ InFile \in PipeEnds
  BY SpecialEnds DEF Finder, Commands
<1>2. /\ open[c] = {} /\ own[c].cur = c /\ own[c].old = c - 1
      /\ holders[c].r_in => c = 1
      /\ Input(c) /\ Output(c)
  BY <1>1, OwnPipes DEF WiringInv, ChildInv, Kept, Flagged
<1>3. /\ open' = open /\ stdout' = stdout /\ pc' = [pc EXCEPT ![c] = "reading"]
      /\ stdin' = stdin \/ stdin' = [stdin EXCEPT ![c] = InFile]
      /\ failed' = failed \/ failed' = TRUE
  OBVIOUS
<1>4. Typed'
  BY <1>1, <1>3 DEF WiringInv, Typed, Stages, quash, data
<1>5. ChildInv(c)'
  <2>1. /\ pc'[c] = "reading" /\ open'[c] = {} /\ own'[c] = own[c]
        /\ stdout'[c] = stdout[c] /\ holders' = holders
    BY <1>2, <1>3 DEF WiringInv, Typed
  <2>2. holders[c].r_in => \/ stdin'[c] = InFile /\ failed' = failed
                           \/ stdin'[c] = stdin[c] /\ failed'
    BY DEF WiringInv, Typed
  <2>3. ~holders[c].r_in => stdin'[c] = stdin[c] /\ failed' = failed
    OBVIOUS
  <2>4. Input(c)'
    BY <1>1, <1>2, <2>1, <2>2, <2>3, SpecialEnds DEF Input, InPlace, Finder
  <2>5. Output(c)'
    BY <1>1, <1>2, <2>1, <2>2, <2>3 DEF Output, OutPlace
  <2>6. Kept(c)' = {}
    BY <1>1, <2>1 DEF Kept, Inherited, Finder
  <2> QED BY <1>1, <1>2, <2>1, <2>4, <2>5, <2>6 DEF ChildInv, Finder
<1>6. \A d \in Commands \ {c} : /\ open'[d] = open[d]
                                 /\ stdin'[d] = stdin[d] /\ stdout'[d] = stdout[d]
  BY <1>3 DEF WiringInv, Typed
<1>7. failed => failed'
  BY <1>3
<1>8. UNCHANGED <<program, holders, quash, own, shell_open>>
  OBVIOUS
<1> HIDE DEF RedirectIn
<1> QED BY <1>1, <1>3, <1>4, <1>5, <1>6, <1>7, <1>8, ChildStep

\* quash: only the last command has a file for stdout.
LEMMA RedirectOutStep ==
  ASSUME WiringInv, NEW c \in Commands, program = "quash", program' = program, RedirectOut(c)
  PROVE  WiringInv'
<1> USE DEF RedirectOut
<1>1. /\ ~Finder /\ pc[c] = "reading" /\ c \in Int /\ c > 0 /\ c <= NumCommands
      /\ OutFile \in PipeEnds /\ NumCommands \in Int
  BY SpecialEnds, NumCommandsAssumption DEF Finder, Commands
<1>2. /\ open[c] = {} /\ own[c].cur = c /\ own[c].old = c - 1
      /\ holders[c].r_out => c = NumCommands
      /\ Input(c) /\ Output(c)
  BY <1>1, OwnPipes DEF WiringInv, ChildInv, Kept, Flagged
<1>3. /\ open' = open /\ stdin' = stdin /\ pc' = [pc EXCEPT ![c] = "running"]
      /\ stdout' = stdout \/ stdout' = [stdout EXCEPT ![c] = OutFile]
      /\ failed' = failed \/ failed' = TRUE
      /\ written' = written \/ written' = 0
  OBVIOUS
<1>4. Typed'
  <2>1. UNCHANGED <<program, quash, own, content, left, shown, unread, early>>
    OBVIOUS
  <2> HIDE DEF RedirectOut
  <2>2. Typed
    BY DEF WiringInv
  <2>3. pc' \in [Commands -> Stages] /\ stdout' \in [Commands -> PipeEnds]
    BY <1>1, <1>3, <2>2 DEF Typed, Stages
  <2>4. written' \in Nat
    BY <1>3, <2>2 DEF Typed
  <2>5. failed' \in BOOLEAN
    BY <1>3, <2>2 DEF Typed
  <2> QED BY <1>3, <2>1, <2>2, <2>3, <2>4, <2>5 DEF Typed, quash
<1>5. ChildInv(c)'
  <2>1. /\ pc'[c] = "running" /\ open'[c] = {} /\ own'[c] = own[c]
        /\ stdin'[c] = stdin[c] /\ holders' = holders
    BY <1>2, <1>3 DEF WiringInv, Typed
  <2>2. holders[c].r_out => \/ stdout'[c] = OutFile /\ failed' = failed
                            \/ stdout'[c] = stdout[c] /\ failed'
    BY DEF WiringInv, Typed
  <2>3. ~holders[c].r_out => stdout'[c] = stdout[c] /\ failed' = failed
    OBVIOUS
  <2>4. Input(c)'
    BY <1>1, <1>2, <2>1, <2>2, <2>3 DEF Input, InPlace
  <2>5. Output(c)'
    BY <1>1, <1>2, <2>1, <2>2, <2>3, SpecialEnds DEF Output, OutPlace, Finder
  <2>6. Kept(c)' = {}
    BY <1>1, <2>1 DEF Kept, Inherited, Finder
  <2> QED BY <1>1, <1>2, <2>1, <2>4, <2>5, <2>6 DEF ChildInv, Finder
<1>6. \A d \in Commands \ {c} : /\ open'[d] = open[d]
                                 /\ stdin'[d] = stdin[d] /\ stdout'[d] = stdout[d]
  BY <1>3 DEF WiringInv, Typed
<1>7. failed => failed'
  BY <1>3
<1>8. UNCHANGED <<program, holders, quash, own, shell_open>>
  OBVIOUS
<1> HIDE DEF RedirectOut
<1> QED BY <1>1, <1>3, <1>4, <1>5, <1>6, <1>7, <1>8, ChildStep

-----------------------------------------------------------------------------
(***************************************************************************)
(* The children of fork.c                                                  *)
(***************************************************************************)
\* fork.c: what a child leaves open are the two ends it needs.
LEMMA CloseUnusedStep ==
  ASSUME WiringInv, NEW c \in Commands, program = "fork.c", program' = program, CloseUnused(c)
  PROVE  WiringInv'
<1> USE DEF CloseUnused
<1>1. /\ ~Finder /\ pc[c] = "forked" /\ c \in Int /\ c > 0 /\ c <= NumCommands
      /\ NumCommands \in Int
  BY NumCommandsAssumption DEF Finder, Commands
<1>2. /\ open[c] = Both(c - 1) \cup Both(c) /\ own[c].cur = c /\ own[c].old = c - 1
      /\ Input(c) /\ Output(c)
  BY <1>1, OwnPipes DEF WiringInv, ChildInv, Kept
<1>3. open' = [open EXCEPT ![c] = Needed(c)]
  <2>1. open[c] \ {End(c, "read"), End(c - 1, "write")} = Needed(c)
    BY <1>1, <1>2, EndsDiffer DEF Both, Needed
  <2> QED BY <1>2, <2>1
<1>4. Needed(c) = Inherited(c) \cap Needed(c)
  BY <1>1 DEF Needed, Inherited, Both
<1>5. Typed'
  <2>1. Needed(c) \subseteq PipeEnds
    BY <1>1, EndsDiffer DEF Needed, Sides
  <2> QED BY <1>1, <1>3, <2>1 DEF WiringInv, Typed, Stages, quash, data
<1>6. ChildInv(c)'
  <2>1. /\ pc'[c] = "closed" /\ open'[c] = Needed(c) /\ own'[c] = own[c]
        /\ stdin'[c] = stdin[c] /\ stdout'[c] = stdout[c]
        /\ holders' = holders /\ failed' = failed
    BY <1>3 DEF WiringInv, Typed
  <2>2. Kept(c)' = Needed(c)
    <3>1. Kept(c)' = Inherited(c) \cap Needed(c)
      BY <2>1 DEF Kept, Inherited, Finder, Needed
    <3> QED BY <3>1, <1>4
  <2> QED BY <1>1, <1>2, <2>1, <2>2
      DEF ChildInv, Input, Output, InPlace, OutPlace, Finder
<1>7. \A d \in Commands \ {c} : /\ open'[d] = open[d]
                                 /\ stdin'[d] = stdin[d] /\ stdout'[d] = stdout[d]
  BY <1>3 DEF WiringInv, Typed
<1> QED BY <1>1, <1>5, <1>6, <1>7, ChildStep

\* fork.c: the end for stdin is still open.
LEMMA ConnectInStep ==
  ASSUME WiringInv, NEW c \in Commands, program = "fork.c", program' = program, ConnectIn(c)
  PROVE  WiringInv'
<1> USE DEF ConnectIn
<1>1. /\ ~Finder /\ pc[c] = "closed" /\ c \in Int /\ c > 0 /\ c <= NumCommands
      /\ NumCommands \in Int
  BY NumCommandsAssumption DEF Finder, Commands
<1>2. /\ open[c] = Needed(c) /\ own[c].cur = c /\ own[c].old = c - 1
      /\ Input(c) /\ Output(c) /\ ~holders[c].r_in
  <2>1. Needed(c) = Inherited(c) \cap Needed(c)
    BY <1>1 DEF Needed, Inherited, Both
  <2> QED BY <1>1, <2>1, OwnPipes DEF WiringInv, ChildInv, Kept, Flagged
<1>3. stdin[c] = Terminal
  BY <1>1, <1>2 DEF Input, InPlace
<1>4. open' = [open EXCEPT ![c] = {End(c, "write")}]
  <2>1. Needed(c) \ {End(c - 1, "read")} = {End(c, "write")}
    BY <1>1, EndsDiffer DEF Needed
  <2> QED BY <1>2, <2>1
<1>5. stdin' = [stdin EXCEPT ![c] = IF c > 1 THEN End(c - 1, "read") ELSE Terminal]
  <2>1. End(own[c].old, "read") \in open[c] /\ (c # 1 <=> c > 1)
    BY <1>1, <1>2 DEF Needed
  <2>2. Dup2(c, c # 1, End(own[c].old, "read"), stdin[c])
          = IF c > 1 THEN End(c - 1, "read") ELSE Terminal
    BY <1>2, <1>3, <2>1 DEF Dup2
  <2> QED BY <2>2
<1>6. Typed'
  <2>1. End(c, "write") \in PipeEnds /\ End(c - 1, "read") \in PipeEnds /\ Terminal \in PipeEnds
    BY <1>1, EndsDiffer, SpecialEnds DEF Sides
  <2> QED BY <1>1, <1>4, <1>5, <2>1 DEF WiringInv, Typed, Stages, quash, data
<1>7. ChildInv(c)'
  <2>1. /\ pc'[c] = "reading" /\ open'[c] = {End(c, "write")} /\ own'[c] = own[c]
        /\ stdin'[c] = (IF c > 1 THEN End(c - 1, "read") ELSE Terminal)
        /\ stdout'[c] = stdout[c] /\ holders' = holders /\ failed' = failed
    BY <1>4, <1>5 DEF WiringInv, Typed
  <2>2. Kept(c)' = {End(c, "write")}
    BY <2>1 DEF Kept
  <2> QED BY <1>1, <1>2, <2>1, <2>2, SpecialEnds
      DEF ChildInv, Input, Output, InPlace, OutPlace, Finder
<1>8. \A d \in Commands \ {c} : /\ open'[d] = open[d]
                                 /\ stdin'[d] = stdin[d] /\ stdout'[d] = stdout[d]
  BY <1>4, <1>5 DEF WiringInv, Typed
<1> QED BY <1>1, <1>6, <1>7, <1>8, ChildStep

\* fork.c: the end for stdout is still open, and the last that is.
LEMMA ConnectOutStep ==
  ASSUME WiringInv, NEW c \in Commands, program = "fork.c", program' = program, ConnectOut(c)
  PROVE  WiringInv'
<1> USE DEF ConnectOut
<1>1. /\ ~Finder /\ pc[c] = "reading" /\ c \in Int /\ c > 0 /\ c <= NumCommands
      /\ NumCommands \in Int
  BY NumCommandsAssumption DEF Finder, Commands
<1>2. /\ open[c] = {End(c, "write")} /\ own[c].cur = c /\ own[c].old = c - 1
      /\ Input(c) /\ Output(c) /\ ~holders[c].r_out /\ ~holders[c].r_in
  BY <1>1, OwnPipes DEF WiringInv, ChildInv, Kept, Flagged
<1>3. stdout[c] = Terminal
  BY <1>1, <1>2 DEF Output, OutPlace
<1>4. open' = [open EXCEPT ![c] = {}]
  BY <1>2
<1>5. stdout' = [stdout EXCEPT ![c] = IF c < NumCommands THEN End(c, "write") ELSE Terminal]
  <2>1. End(own[c].cur, "write") \in open[c] /\ (c # NumCommands <=> c < NumCommands)
    BY <1>1, <1>2
  <2>2. Dup2(c, c # NumCommands, End(own[c].cur, "write"), stdout[c])
          = IF c < NumCommands THEN End(c, "write") ELSE Terminal
    BY <1>2, <1>3, <2>1 DEF Dup2
  <2> QED BY <2>2
<1>6. Typed'
  <2>1. End(c, "write") \in PipeEnds /\ Terminal \in PipeEnds
    BY <1>1, EndsDiffer, SpecialEnds DEF Sides
  <2> QED BY <1>1, <1>4, <1>5, <2>1 DEF WiringInv, Typed, Stages, quash, data
<1>7. ChildInv(c)'
  <2>1. /\ pc'[c] = "running" /\ open'[c] = {} /\ own'[c] = own[c]
        /\ stdout'[c] = (IF c < NumCommands THEN End(c, "write") ELSE Terminal)
        /\ stdin'[c] = stdin[c] /\ holders' = holders /\ failed' = failed
    BY <1>4, <1>5 DEF WiringInv, Typed
  <2>2. Kept(c)' = {}
    BY <2>1 DEF Kept
  <2> QED BY <1>1, <1>2, <2>1, <2>2, SpecialEnds
      DEF ChildInv, Input, Output, InPlace, OutPlace, Finder
<1>8. \A d \in Commands \ {c} : /\ open'[d] = open[d]
                                 /\ stdin'[d] = stdin[d] /\ stdout'[d] = stdout[d]
  BY <1>4, <1>5 DEF WiringInv, Typed
<1> QED BY <1>1, <1>6, <1>7, <1>8, ChildStep

-----------------------------------------------------------------------------
(***************************************************************************)
(* The children of finder.c                                                *)
(***************************************************************************)
\* finder.c: of all the pipes a child keeps the ends it needs.
LEMMA CloseOthersStep ==
  ASSUME WiringInv, NEW c \in Commands, program = "finder.c", program' = program, CloseOthers(c)
  PROVE  WiringInv'
<1> USE DEF CloseOthers
<1>1. Finder /\ pc[c] = "forked" /\ open[c] = Inherited(c) /\ Input(c) /\ Output(c)
  BY DEF Finder, WiringInv, ChildInv, Kept
<1>2. open' = [open EXCEPT ![c] = Inherited(c) \cap Needed(c)]
  BY <1>1
<1>3. Typed'
  <2>1. Inherited(c) \subseteq PipeEnds
    BY InheritedEnds
  <2> QED BY <1>1, <1>2, <2>1 DEF WiringInv, Typed, Stages, quash, data
<1>4. ChildInv(c)'
  <2>1. /\ pc'[c] = "closed" /\ open'[c] = Inherited(c) \cap Needed(c)
        /\ stdin'[c] = stdin[c] /\ stdout'[c] = stdout[c]
        /\ holders' = holders /\ failed' = failed
    BY <1>2 DEF WiringInv, Typed
  <2>2. Kept(c)' = Inherited(c) \cap Needed(c)
    BY <2>1 DEF Kept, Inherited, Finder, Needed
  <2> QED BY <1>1, <2>1, <2>2 DEF ChildInv, Input, Output, InPlace, OutPlace, Finder
<1>5. \A d \in Commands \ {c} : /\ open'[d] = open[d]
                                 /\ stdin'[d] = stdin[d] /\ stdout'[d] = stdout[d]
  BY <1>2 DEF WiringInv, Typed
<1> QED BY <1>1, <1>3, <1>4, <1>5, ChildStep

\* Of the ends it needs, a child of finder.c has those of the pipes there are.
LEMMA FinderNeeds ==
  ASSUME NEW c \in Commands, Finder
  PROVE  /\ c > 1 => End(c - 1, "read") \in Inherited(c)
         /\ c < NumCommands => End(c, "write") \in Inherited(c)
<1>1. c \in Int /\ c > 0 /\ c <= NumCommands /\ NumCommands \in Int
  BY NumCommandsAssumption DEF Commands
<1>2. c > 1 => c - 1 \in FinderPipes /\ End(c - 1, "read") \in Both(c - 1)
  BY <1>1 DEF FinderPipes, Both
<1>3. c < NumCommands => c \in FinderPipes /\ End(c, "write") \in Both(c)
  BY <1>1 DEF FinderPipes, Both
<1> QED BY <1>2, <1>3 DEF Inherited, FinderEnds

\* finder.c: both ends that a child connects are still open.
LEMMA ConnectBothStep ==
  ASSUME WiringInv, NEW c \in Commands, program = "finder.c", program' = program, ConnectBoth(c)
  PROVE  WiringInv'
<1> USE DEF ConnectBoth
<1>1. /\ Finder /\ pc[c] = "closed" /\ c \in Int /\ c > 0 /\ c <= NumCommands
      /\ NumCommands \in Int
  BY NumCommandsAssumption DEF Finder, Commands
<1>2. /\ open[c] = Inherited(c) \cap Needed(c)
      /\ Input(c) /\ Output(c) /\ ~holders[c].r_out /\ ~holders[c].r_in
  BY <1>1 DEF WiringInv, ChildInv, Kept, Flagged, Finder
<1>3. stdin[c] = Terminal /\ stdout[c] = Terminal
  BY <1>1, <1>2 DEF Input, Output, InPlace, OutPlace, Finder
<1>4. open' = [open EXCEPT ![c] = {}]
  BY <1>2
<1>5. /\ stdin' = [stdin EXCEPT ![c] = IF c > 1 THEN End(c - 1, "read") ELSE Terminal]
      /\ stdout' = [stdout EXCEPT ![c] = IF c < NumCommands THEN End(c, "write") ELSE Terminal]
  <2>1. /\ c > 1 => End(c - 1, "read") \in open[c]
        /\ c < NumCommands => End(c, "write") \in open[c]
    BY <1>1, <1>2, FinderNeeds DEF Needed
  <2>2. (c # 1 <=> c > 1) /\ (c # NumCommands <=> c < NumCommands)
    BY <1>1
  <2>3. Dup2(c, c # 1, End(c - 1, "read"), stdin[c])
          = IF c > 1 THEN End(c - 1, "read") ELSE Terminal
    BY <1>3, <2>1, <2>2 DEF Dup2
  <2>4. Dup2(c, c # NumCommands, End(c, "write"), stdout[c])
          = IF c < NumCommands THEN End(c, "write") ELSE Terminal
    BY <1>3, <2>1, <2>2 DEF Dup2
  <2> QED BY <2>3, <2>4
<1>6. Typed'
  <2>1. End(c, "write") \in PipeEnds /\ End(c - 1, "read") \in PipeEnds /\ Terminal \in PipeEnds
    BY <1>1, EndsDiffer, SpecialEnds DEF Sides
  <2> QED BY <1>1, <1>4, <1>5, <2>1 DEF WiringInv, Typed, Stages, quash, data
<1>7. ChildInv(c)'
  <2>1. /\ pc'[c] = "running" /\ open'[c] = {}
        /\ stdin'[c] = (IF c > 1 THEN End(c - 1, "read") ELSE Terminal)
        /\ stdout'[c] = (IF c < NumCommands THEN End(c, "write") ELSE Terminal)
        /\ holders' = holders /\ failed' = failed
    BY <1>4, <1>5 DEF WiringInv, Typed
  <2>2. Kept(c)' = {}
    BY <2>1 DEF Kept
  <2> QED BY <1>1, <1>2, <2>1, <2>2, SpecialEnds
      DEF ChildInv, Input, Output, InPlace, OutPlace, Finder
<1>8. \A d \in Commands \ {c} : /\ open'[d] = open[d]
                                 /\ stdin'[d] = stdin[d] /\ stdout'[d] = stdout[d]
  BY <1>4, <1>5 DEF WiringInv, Typed
<1> QED BY <1>1, <1>6, <1>7, <1>8, ChildStep

-----------------------------------------------------------------------------
(***************************************************************************)
(* The parent                                                              *)
(***************************************************************************)
\* A step of the parent alone.
LEMMA ParentStep ==
  ASSUME WiringInv, Typed', Turns', ParentInv',
         UNCHANGED <<program, holders, own, failed, children>>
  PROVE  WiringInv'
<1>1. \A c \in Commands : ChildInv(c)'
  BY ChildStays DEF WiringInv, children
<1> QED BY <1>1, FlaggedStays DEF WiringInv

\* quash opens the pipe in front of the first command.
LEMMA OpenOldStep ==
  ASSUME WiringInv, ~Finder, program' = program, OpenOld
  PROVE  WiringInv'
<1> USE DEF OpenOld
<1>1. Typed'
  BY DEF WiringInv, Typed, Turns, children, data
<1>2. i = 1 /\ shell_open = {} /\ pipes'[old_pipe] = 0 /\ at' = "pipe"
  BY DEF WiringInv, Typed, Turns, ParentInv, ShellEnds
<1>3. Turns'
  BY <1>2 DEF WiringInv, Turns, Finder
<1>4. shell_open' = ShellEnds' /\ Created' = Created
  BY <1>2 DEF ShellEnds, Created, Finder
<1>5. ParentInv'
  BY <1>2, <1>4 DEF WiringInv, ParentInv, Places, Finder, children
<1> QED BY <1>1, <1>3, <1>5, ParentStep

\* quash opens the pipe behind the command it creates next.
LEMMA OpenNextStep ==
  ASSUME WiringInv, ~Finder, program' = program, OpenNext
  PROVE  WiringInv'
<1> USE DEF OpenNext
<1>1. i \in Int
  BY DEF WiringInv, ParentInv, Commands
<1>2. Typed'
  BY <1>1 DEF WiringInv, Typed, Turns, children, data
<1>3. /\ shell_open = Both(i - 1) /\ pipes'[cur_pipe] = i /\ pipes'[old_pipe] = i - 1
      /\ at' = "fork"
  BY DEF WiringInv, Typed, Turns, ParentInv, ShellEnds
<1>4. Turns'
  BY <1>3 DEF WiringInv, Turns, Finder
<1>5. shell_open' = ShellEnds' /\ Created' = Created
  BY <1>3 DEF ShellEnds, Created, Finder
<1>6. ParentInv'
  BY <1>3, <1>5 DEF WiringInv, ParentInv, Places, Finder, children
<1> QED BY <1>2, <1>4, <1>6, ParentStep

\* The next command gets what the parent has open.
LEMMA NewChild ==
  ASSUME WiringInv, Typed', NEW new \in Commands, new = i, pc[new] = "none",
         program' = program, holders' = holders, failed' = failed,
         pc' = [pc EXCEPT ![new] = "forked"], open' = [open EXCEPT ![new] = Inherited(new)],
         UNCHANGED <<stdin, stdout>>,
         ~Finder => own'[new].cur = new /\ own'[new].old = new - 1,
         \A d \in Commands \ {new} : own'[d] = own[d]
  PROVE  \A c \in Commands : ChildInv(c)'
<1>1. ChildInv(new)'
  <2>1. ChildInv(new)
    BY DEF WiringInv
  <2>2. pc'[new] = "forked" /\ open'[new] = Inherited(new) /\ stdin'[new] = stdin[new]
        /\ stdout'[new] = stdout[new]
    BY DEF WiringInv, Typed
  <2>3. Kept(new)' = Inherited(new)
    BY <2>2 DEF Kept, Inherited, Finder
  <2> QED BY <2>1, <2>2, <2>3 DEF ChildInv, Input, Output, InPlace, OutPlace, Finder
<1>2. ASSUME NEW c \in Commands, c # new PROVE ChildInv(c)'
  BY <1>2, ChildStays DEF WiringInv, Typed
<1> QED BY <1>1, <1>2

\* The command that quash creates is the next one, between two open pipes.
LEMMA ForkStep ==
  ASSUME WiringInv, ~Finder, program' = program, Fork
  PROVE  WiringInv'
<1> USE DEF Fork
<1>1. /\ i \in Commands /\ i \in Int
      /\ pipes[cur_pipe] = i /\ pipes[old_pipe] = i - 1
      /\ shell_open = Both(i - 1) \cup Both(i)
      /\ pc[i] = "none"
  BY DEF WiringInv, ParentInv, Turns, ShellEnds, Created, Commands
<1>2. shell_open = Inherited(i) /\ Inherited(i) \subseteq PipeEnds
  BY <1>1, InheritedEnds DEF Inherited
<1>3. own' = [own EXCEPT ![i] = [cur |-> i, old |-> i - 1]]
  BY <1>1
<1>4. Typed'
  BY <1>1, <1>2, <1>3 DEF WiringInv, Typed, Stages, data
<1>5. Turns' /\ at' = "close"
  BY <1>1 DEF WiringInv, Turns, Finder
<1>6. ParentInv'
  <2>1. shell_open' = ShellEnds' /\ Created' = i /\ Created = i - 1
    BY <1>1 DEF ShellEnds, Created, Finder
  <2>2. \A c \in Commands : pc'[c] = "none" <=> c > i
    BY <1>1, <2>1 DEF WiringInv, Typed, ParentInv, Commands
  <2> QED BY <1>1, <2>1, <2>2 DEF WiringInv, ParentInv, Places, Finder
<1>7. \A c \in Commands : ChildInv(c)'
  <2>1. own'[i].cur = i /\ own'[i].old = i - 1 /\ \A d \in Commands \ {i} : own'[d] = own[d]
    BY <1>1, <1>3 DEF WiringInv, Typed
  <2> QED BY <1>1, <1>2, <1>4, <2>1, NewChild
<1> QED BY <1>4, <1>5, <1>6, <1>7, FlaggedStays DEF WiringInv

\* The pipe that quash closes is the one in front of the command it created.
LEMMA CloseOldStep ==
  ASSUME WiringInv, ~Finder, program' = program, CloseOld
  PROVE  WiringInv'
<1> USE DEF CloseOld
<1>1. /\ i \in Commands /\ i \in Int /\ i <= NumCommands /\ NumCommands \in Int
      /\ pipes[cur_pipe] = i /\ pipes[old_pipe] = i - 1
      /\ shell_open = Both(i - 1) \cup Both(i)
  BY NumCommandsAssumption DEF WiringInv, ParentInv, Turns, ShellEnds, Commands
<1>2. shell_open' = Both(i)
  BY <1>1, CloseOne
<1>3. /\ old_pipe' = cur_pipe /\ cur_pipe' = 1 - cur_pipe /\ cur_pipe \in {0, 1}
      /\ pipes' = pipes
  BY DEF WiringInv, Turns
<1>4. \/ i < NumCommands /\ i' = i + 1 /\ at' = "pipe"
      \/ i = NumCommands /\ i' = i /\ at' = "close_last"
  BY <1>1 DEF NextCommand
<1>5. Typed'
  BY DEF WiringInv, Typed, children, data
<1>6. Turns'
  BY <1>1, <1>3, <1>4 DEF Turns, Finder
<1>7. ParentInv'
  <2>1. shell_open' = ShellEnds' /\ Created' = i /\ Created = i
    BY <1>1, <1>2, <1>4 DEF ShellEnds, Created, Finder
  <2>2. i' \in Commands
    BY <1>1, <1>4 DEF Commands
  <2>3. pc' = pc
    BY DEF children
  <2> QED BY <1>4, <2>1, <2>2, <2>3 DEF WiringInv, ParentInv, Places, Finder
<1> QED BY <1>5, <1>6, <1>7, ParentStep

\* The last pipe that quash closes is the only one left.
LEMMA CloseLastStep ==
  ASSUME WiringInv, ~Finder, program' = program, CloseLast
  PROVE  WiringInv'
<1> USE DEF CloseLast
<1>1. /\ i = NumCommands /\ shell_open = Both(i) /\ pipes[old_pipe] = i
  BY DEF WiringInv, ParentInv, Turns, ShellEnds
<1>2. shell_open' = {} /\ at' = "wait"
  BY <1>1
<1>3. Typed'
  BY DEF WiringInv, Typed, children, data
<1>4. Turns'
  BY <1>2 DEF WiringInv, Turns, Finder
<1>5. ParentInv'
  <2>1. shell_open' = ShellEnds' /\ Created' = Created /\ pc' = pc
    BY <1>2 DEF ShellEnds, Created, Finder, children
  <2> QED BY <1>1, <1>2, <2>1 DEF WiringInv, ParentInv, Places, Finder
<1> QED BY <1>3, <1>4, <1>5, ParentStep

\* quash comes back to its prompt with no pipe open.
LEMMA FinishStep ==
  ASSUME WiringInv, program' = program, FinishScript
  PROVE  WiringInv'
<1> USE DEF FinishScript
<1>1. Typed'
  BY DEF WiringInv, Typed, children, data
<1>2. Turns'
  BY DEF WiringInv, Turns, Finder
<1>3. ParentInv'
  <2>1. shell_open = {} /\ at' = "done" /\ i = NumCommands
    BY DEF WiringInv, ParentInv, ShellEnds
  <2>2. shell_open' = ShellEnds' /\ Created' = Created /\ pc' = pc
    BY <2>1 DEF ShellEnds, Created, Finder, children
  <2> QED BY <2>1, <2>2 DEF WiringInv, ParentInv, Places, Finder
<1> QED BY <1>1, <1>2, <1>3, ParentStep

\* finder.c opens all of its pipes.
LEMMA MakePipesStep ==
  ASSUME WiringInv, Finder, program' = program, MakePipes
  PROVE  WiringInv'
<1> USE DEF MakePipes
<1>1. Typed'
  BY DEF WiringInv, Typed, children, data
<1>2. Turns'
  BY DEF WiringInv, Turns, Finder
<1>3. ParentInv'
  <2>1. shell_open' = ShellEnds' /\ Created' = Created /\ pc' = pc
    BY DEF ShellEnds, Created, Finder, children
  <2> QED BY <2>1 DEF WiringInv, ParentInv, Places, Finder
<1> QED BY <1>1, <1>2, <1>3, ParentStep

\* The command that finder.c creates is the next one.
LEMMA ForkNextStep ==
  ASSUME WiringInv, Finder, program' = program, ForkNext
  PROVE  WiringInv'
<1> USE DEF ForkNext
<1>1. /\ i \in Commands /\ i \in Int /\ i <= NumCommands /\ NumCommands \in Int
      /\ shell_open = FinderEnds /\ pc[i] = "none"
  BY NumCommandsAssumption DEF WiringInv, ParentInv, ShellEnds, Created, Commands
<1>2. shell_open = Inherited(i) /\ Inherited(i) \subseteq PipeEnds
  BY <1>1, InheritedEnds DEF Inherited
<1>3. \/ i < NumCommands /\ i' = i + 1 /\ at' = "fork"
      \/ i = NumCommands /\ i' = i /\ at' = "close"
  BY <1>1
<1>4. Typed'
  BY <1>1, <1>2 DEF WiringInv, Typed, Stages, data
<1>5. Turns'
  BY DEF WiringInv, Turns, Finder
<1>6. ParentInv'
  <2>1. shell_open' = ShellEnds' /\ Created' = i /\ Created = i - 1
    BY <1>1, <1>3 DEF ShellEnds, Created, Finder
  <2>2. \A c \in Commands : pc'[c] = "none" <=> c > i
    BY <1>1, <2>1 DEF WiringInv, Typed, ParentInv, Commands
  <2>3. i' \in Commands
    BY <1>1, <1>3 DEF Commands
  <2> QED BY <1>1, <1>3, <2>1, <2>2, <2>3 DEF WiringInv, ParentInv, Places, Finder
<1>7. \A c \in Commands : ChildInv(c)'
  BY <1>1, <1>2, <1>4, NewChild
<1> QED BY <1>4, <1>5, <1>6, <1>7, FlaggedStays DEF WiringInv

\* finder.c closes all of its pipes behind the last command.
LEMMA CloseAllStep ==
  ASSUME WiringInv, Finder, program' = program, CloseAll
  PROVE  WiringInv'
<1> USE DEF CloseAll
<1>1. Typed'
  BY DEF WiringInv, Typed, children, data
<1>2. Turns'
  BY DEF WiringInv, Turns, Finder
<1>3. ParentInv'
  <2>1. shell_open = FinderEnds /\ i = NumCommands
    BY DEF WiringInv, ParentInv, ShellEnds, Finder
  <2>2. shell_open' = ShellEnds' /\ Created' = Created /\ pc' = pc
    BY <2>1 DEF ShellEnds, Created, Finder, children
  <2> QED BY <2>1, <2>2 DEF WiringInv, ParentInv, Places, Finder
<1> QED BY <1>1, <1>2, <1>3, ParentStep

-----------------------------------------------------------------------------
(***************************************************************************)
(* The commands that run                                                   *)
(***************************************************************************)
\* A command that reads or writes keeps its ends.
LEMMA FilterStep ==
  ASSUME WiringInv, NEW c \in Commands, program' = program,
         Read(c) \/ Write(c), UNCHANGED <<holders, quash, own, failed>>
  PROVE  WiringInv'
<1>1. c \in Int /\ c > 0 /\ NumCommands \in Nat
  BY NumCommandsAssumption DEF Commands
<1>2. UNCHANGED <<shell_open, children>>
  BY DEF Read, Write
<1>3. Typed'
  <2>1. Typed
    BY DEF WiringInv
  <2>2. CASE Read(c)
    <3>1. content' \in [PipeIds -> Nat] /\ unread' \in Nat
      BY <2>1, <2>2 DEF Read, Typed
    <3>2. left' \in [Commands -> Nat]
      BY <2>1, <2>2 DEF Read, Typed
    <3>3. UNCHANGED <<shown, written, early>>
      BY <2>2 DEF Read
    <3> QED BY <1>2, <2>1, <3>1, <3>2, <3>3 DEF Typed, quash, children
  <2>3. CASE Write(c)
    <3>1. content' \in [PipeIds -> Nat]
      BY <2>1, <2>3 DEF Write, WritePipe, Typed
    <3>2. shown' \in Nat /\ written' \in Nat
      BY <2>1, <2>3 DEF Write, Typed
    <3>3. left' \in [Commands -> Nat]
      BY <2>1, <2>3 DEF Write, Typed
    <3>4. UNCHANGED <<unread, early>>
      BY <2>3 DEF Write
    <3> QED BY <1>2, <2>1, <3>1, <3>2, <3>3, <3>4 DEF Typed, quash, children
  <2> QED BY <2>2, <2>3
<1> QED BY <1>2, <1>3, DataStep

\* A command that ends had nothing open but stdin and stdout.
LEMMA EndsStep ==
  ASSUME WiringInv, NEW c \in Commands, program' = program, pc[c] = "running",
         Ends(c), early' \in BOOLEAN, UNCHANGED <<holders, quash, own, failed>>
  PROVE  WiringInv'
<1> USE DEF Ends
<1>1. Typed'
  BY DEF WiringInv, Typed, Stages, quash
<1>2. ChildInv(c)'
  <2>1. ChildInv(c)
    BY DEF WiringInv
  <2>2. /\ pc'[c] = "done" /\ open'[c] = open[c] /\ own'[c] = own[c]
        /\ stdin'[c] = stdin[c] /\ stdout'[c] = stdout[c]
    BY DEF WiringInv, Typed
  <2>3. Kept(c) = {} /\ Kept(c)' = {}
    BY <2>2 DEF Kept
  <2> QED BY <2>1, <2>2, <2>3 DEF ChildInv, Input, Output, InPlace, OutPlace, Finder
<1> QED BY <1>1, <1>2, ChildStep

-----------------------------------------------------------------------------
\* Every step of the three programs keeps the invariant.
LEMMA WiringStep == WiringInv /\ [IpcNext]_ipc_vars => WiringInv'
<1> SUFFICES ASSUME WiringInv, [IpcNext]_ipc_vars PROVE WiringInv'
  OBVIOUS
<1>1. CASE Parent
  <2>1. program' = program
    BY <1>1 DEF Parent
  <2>2. CASE Finder
    <3>1. MakePipes \/ ForkNext \/ CloseAll \/ FinishScript
      BY <1>1, <2>2 DEF Parent, Finder, FinderMain
    <3> QED BY <2>1, <2>2, <3>1, MakePipesStep, ForkNextStep, CloseAllStep, FinishStep
  <2>3. CASE ~Finder
    <3>1. OpenOld \/ OpenNext \/ Fork \/ CloseOld \/ CloseLast \/ FinishScript
      BY <1>1, <2>3 DEF Parent, Finder, Quash
    <3> QED BY <2>1, <2>3, <3>1, OpenOldStep, OpenNextStep, ForkStep, CloseOldStep,
               CloseLastStep, FinishStep
  <2> QED BY <2>2, <2>3
<1>2. ASSUME NEW c \in Commands, Child(c) PROVE WiringInv'
  <2>1. program' = program
    BY <1>2 DEF Child
  <2>2. CASE program = "quash" /\ SetUp(c)
    BY <2>1, <2>2, ConnectStep, ClosePipesStep, RedirectInStep, RedirectOutStep DEF SetUp
  <2>3. CASE program = "fork.c" /\ ForkChild(c)
    BY <2>1, <2>3, CloseUnusedStep, ConnectInStep, ConnectOutStep DEF ForkChild
  <2>4. CASE program = "finder.c" /\ FinderChild(c)
    BY <2>1, <2>4, CloseOthersStep, ConnectBothStep DEF FinderChild
  <2>5. CASE Run(c)
    <3>1. early \in BOOLEAN
      BY DEF WiringInv, Typed
    <3>2. CASE EndsAtEof(c) \/ EndsAtSigpipe(c)
      <4>1. pc[c] = "running" /\ Ends(c) /\ early' = early
        BY <3>2 DEF EndsAtEof, EndsAtSigpipe
      <4> QED BY <2>1, <2>5, <3>1, <4>1, EndsStep DEF Run
    <3>3. CASE Read(c) \/ Write(c)
      BY <2>1, <2>5, <3>3, FilterStep DEF Run
    <3> QED BY <2>5, <3>2, <3>3 DEF Run, Filter
  <2> QED BY <1>2, <2>2, <2>3, <2>4, <2>5 DEF Child
<1>3. ASSUME NEW c \in Commands, Stop(c), program' = program PROVE WiringInv'
  <2>1. pc[c] = "running" /\ Ends(c) /\ early' \in BOOLEAN
    BY <1>3 DEF Stop, EndsEarly
  <2> QED BY <1>3, <2>1, EndsStep DEF Stop
<1>4. CASE UNCHANGED ipc_vars
  BY <1>4, DataStep DEF ipc_vars, vars, WiringInv, Typed, quash, children, data
<1> QED BY <1>1, <1>2, <1>3, <1>4 DEF IpcNext

\* The wiring is right throughout.
LEMMA WiringHolds == IpcSpec => []WiringInv
BY InitWired, WiringStep, PTL DEF IpcSpec

\* What the invariant says of the commands that run and of the prompt.
LEMMA WiredFromInv == WiringInv => Wired
<1> SUFFICES ASSUME WiringInv PROVE Wired
  OBVIOUS
<1>1. ASSUME NEW c \in Commands, pc[c] = "running"
      PROVE  /\ open[c] = {}
             /\ IF c > 1 THEN stdin[c] = End(c - 1, "read")
                         ELSE stdin[c] \in {Terminal, InFile}
             /\ IF c < NumCommands THEN stdout[c] = End(c, "write")
                                   ELSE stdout[c] \in {Terminal, OutFile}
             /\ ~failed => /\ holders[c].r_in = (stdin[c] = InFile)
                           /\ holders[c].r_out = (stdout[c] = OutFile)
  <2>1. /\ c \in Int /\ c > 0 /\ c <= NumCommands /\ NumCommands \in Int
        /\ c - 1 \in 0 .. NumCommands /\ c \in 0 .. NumCommands
    BY NumCommandsAssumption DEF Commands
  <2>2. ChildInv(c) /\ open[c] = {}
    BY <1>1 DEF WiringInv, ChildInv, Kept
  <2>3. /\ holders[c].r_in => c = 1
        /\ holders[c].r_out => c = NumCommands
        /\ holders[c].r_in \in BOOLEAN
        /\ holders[c].r_out \in BOOLEAN
    BY DEF WiringInv, Flagged, Holder
  <2>4. /\ IF c > 1 THEN stdin[c] = End(c - 1, "read")
                    ELSE stdin[c] \in {Terminal, InFile}
        /\ ~failed => (holders[c].r_in <=> stdin[c] = InFile)
    BY <1>1, <2>1, <2>2, <2>3, SpecialEnds DEF ChildInv, Input, InPlace, Sides
  <2>5. /\ IF c < NumCommands THEN stdout[c] = End(c, "write")
                    ELSE stdout[c] \in {Terminal, OutFile}
        /\ ~failed => (holders[c].r_out <=> stdout[c] = OutFile)
    BY <1>1, <2>1, <2>2, <2>3, SpecialEnds DEF ChildInv, Output, OutPlace, Sides
  <2> QED BY <2>2, <2>3, <2>4, <2>5
<1>2. at \in {"wait", "done"} => shell_open = {}
  BY DEF WiringInv, ParentInv, ShellEnds
<1> QED BY <1>1, <1>2 DEF Wired

\* In all three programs a running command reads what its left neighbour writes
\* and nothing else is left open, for a pipeline of any length.
THEOREM IpcWired == IpcSpec => []Wired
BY WiringHolds, WiredFromInv, PTL

-----------------------------------------------------------------------------
(***************************************************************************)
(* What the commands hold and what came through.                           *)
(***************************************************************************)
\* A command that ended had nothing left to read or write, and ended behind its
\* left neighbour.
InOrder ==
  ~early => \A c \in Commands : pc[c] = "done" =>
              /\ left[c] = 0
              /\ c > 1 => pc[c - 1] = "done" /\ content[c - 1] = 0
              /\ stdin[c] = InFile => unread = 0

\* Only the last command shows items or writes them to the file.
Sinks ==
  /\ stdout[NumCommands] = OutFile \/ pc[NumCommands] \notin {"running", "done"} => shown = 0
  /\ stdout[NumCommands] # OutFile => written = OldItems

\* sum[c] counts the items that are behind the input and not behind the pipe that
\* command c writes; those and what came through are all there are.
OldWritten ==
  IF stdout[NumCommands] = OutFile /\ ~holders[NumCommands].r_app THEN 0 ELSE OldItems

Sums(sum) ==
  /\ sum[0] = IF holders[1].r_in THEN unread ELSE 0
  /\ \A c \in Commands :
       sum[c] = sum[c - 1] + left[c] + IF c < NumCommands THEN content[c] ELSE 0
  /\ sum[NumCommands] + shown + written - OldWritten = Items

Conserved == \E sum \in [0 .. NumCommands -> Int] : Sums(sum)

DeliveryInv == InOrder /\ Sinks /\ Conserved

\* All items are in front of the first command.
LEMMA InitDelivery == IpcInit => DeliveryInv
<1> SUFFICES ASSUME IpcInit PROVE DeliveryInv
  OBVIOUS
<1> USE DEF IpcInit, Init, PipelineInit
<1>1. /\ NumCommands \in Nat /\ NumCommands # 0 /\ 1 \in Commands /\ NumCommands \in Commands
      /\ \A c \in Commands : c \in Int /\ c > 0 /\ c <= NumCommands /\ c \in PipeIds
      /\ Items \in Nat /\ OldItems \in Nat
  BY NumCommandsAssumption, ItemsAssumption DEF Commands, PipeIds
<1>2. InOrder
  BY DEF InOrder
<1>3. stdout[NumCommands] # OutFile
  BY <1>1, SpecialEnds
<1>4. Sinks
  BY <1>1, <1>3 DEF Sinks
<1>5. Conserved
  <2> DEFINE in == IF holders[1].r_in THEN Items ELSE 0
             sum == [c \in 0 .. NumCommands |-> IF c = 0 THEN in ELSE Items]
  <2>1. sum \in [0 .. NumCommands -> Int]
    BY <1>1
  <2>2. OldWritten = OldItems
    BY <1>3 DEF OldWritten
  <2>3. ASSUME NEW c \in Commands
        PROVE  sum[c] = sum[c - 1] + left[c] + IF c < NumCommands THEN content[c] ELSE 0
    <3>1. content[c] = 0 /\ left[c] = IF c = 1 /\ ~holders[1].r_in THEN Items ELSE 0
      BY <1>1
    <3>2. sum[c] = Items /\ sum[c - 1] = IF c = 1 THEN in ELSE Items
      BY <1>1
    <3> QED BY <1>1, <3>1, <3>2
  <2>4. Sums(sum)
    <3>1. sum[0] = (IF holders[1].r_in THEN unread ELSE 0) /\ sum[NumCommands] = Items
      BY <1>1
    <3>2. shown = 0 /\ written = OldItems
      OBVIOUS
    <3> HIDE DEF sum
    <3> QED BY <1>1, <2>2, <2>3, <3>1, <3>2 DEF Sums
  <2> HIDE DEF sum
  <2> QED BY <2>1, <2>4 DEF Conserved
<1> QED BY <1>2, <1>4, <1>5 DEF DeliveryInv

-----------------------------------------------------------------------------
\* Until it ends, a child keeps the ends of the pipes it goes on to use.
LEMMA KeepsEnds ==
  ASSUME WiringInv, NEW c \in Commands, pc[c] \notin {"none", "done"}
  PROVE  /\ c > 1 => IsOpen(End(c - 1, "read"))
         /\ c < NumCommands => IsOpen(End(c, "write"))
<1>1. /\ ChildInv(c) /\ pc[c] \in {"forked", "connected", "closed", "reading", "running"}
      /\ program \in {"quash", "fork.c", "finder.c"}
  BY DEF WiringInv, Typed, Stages
<1>2. /\ c > 1 => End(c - 1, "read") \in Inherited(c) \cap Needed(c)
      /\ c < NumCommands => End(c, "write") \in Inherited(c) \cap Needed(c)
  <2>1. CASE Finder
    BY <2>1, FinderNeeds DEF Needed
  <2>2. CASE ~Finder
    BY <2>2 DEF Needed, Inherited, Both
  <2> QED BY <2>1, <2>2
<1>3. ASSUME c > 1 PROVE End(c - 1, "read") \in open[c] \cup {stdin[c]}
  <2>1. CASE InPlace(c)
    BY <1>1, <1>3, <2>1 DEF ChildInv, Input
  <2>2. CASE ~InPlace(c)
    BY <1>1, <1>2, <1>3, <2>2 DEF ChildInv, Kept, InPlace
  <2> QED BY <2>1, <2>2
<1>4. ASSUME c < NumCommands PROVE End(c, "write") \in open[c] \cup {stdout[c]}
  <2>1. CASE OutPlace(c)
    BY <1>1, <1>4, <2>1 DEF ChildInv, Output
  <2>2. CASE ~OutPlace(c)
    BY <1>1, <1>2, <1>4, <2>2 DEF ChildInv, Kept, OutPlace, Finder
  <2> QED BY <2>1, <2>2
<1> QED BY <1>3, <1>4 DEF IsOpen

\* The parent has the reading end of the last pipe for the command it creates next.
LEMMA ShellKeeps ==
  ASSUME WiringInv, NEW c \in Commands, c < NumCommands, pc[c] # "none", pc[c + 1] = "none"
  PROVE  IsOpen(End(c, "read"))
<1>1. c \in Int /\ c > 0 /\ NumCommands \in Int /\ c + 1 \in Commands /\ i \in Int
  BY NumCommandsAssumption DEF Commands, WiringInv, ParentInv
<1>2. c <= Created /\ c + 1 > Created /\ Created \in Int
  BY <1>1 DEF WiringInv, ParentInv, Created
<1>3. Created = c
  BY <1>1, <1>2
<1>4. shell_open = ShellEnds /\ at \in Places
  BY DEF WiringInv, ParentInv
<1>5. End(c, "read") \in Both(c)
  BY DEF Both
<1>6. CASE Finder
  <2>1. at \in {"fork", "close"}
    BY <1>1, <1>3, <1>4, <1>6 DEF WiringInv, ParentInv, Created, Places
  <2>2. c \in FinderPipes
    BY <1>1 DEF FinderPipes
  <2>3. End(c, "read") \in FinderEnds
    BY <1>5, <2>2 DEF FinderEnds
  <2> QED BY <1>4, <1>6, <2>1, <2>3 DEF ShellEnds, IsOpen
<1>7. CASE ~Finder
  <2>1. \/ at \in {"pipe", "fork"} /\ i - 1 = c
        \/ at = "close" /\ i = c
    BY <1>1, <1>3, <1>4, <1>7 DEF WiringInv, ParentInv, Created, Places
  <2>2. Both(c) \subseteq ShellEnds
    BY <1>7, <2>1 DEF ShellEnds
  <2> QED BY <1>4, <1>5, <2>2 DEF IsOpen
<1> QED BY <1>6, <1>7

-----------------------------------------------------------------------------
(***************************************************************************)
(* Steps                                                                   *)
(***************************************************************************)
\* A step that moves no item, ends no command and connects nothing to the file.
LEMMA QuietStep ==
  ASSUME DeliveryInv, UNCHANGED <<holders, data>>,
         \A c \in Commands : /\ pc'[c] = "done" <=> pc[c] = "done"
                             /\ pc[c] = "done" => stdin'[c] = stdin[c],
         pc[NumCommands] \in {"running", "done"} => pc'[NumCommands] \in {"running", "done"},
         stdout'[NumCommands] = OutFile <=> stdout[NumCommands] = OutFile
  PROVE  DeliveryInv'
<1>1. InOrder'
  <2>1. ASSUME ~early', NEW c \in Commands, pc'[c] = "done"
        PROVE  /\ left'[c] = 0
               /\ c > 1 => pc'[c - 1] = "done" /\ content'[c - 1] = 0
               /\ stdin'[c] = InFile => unread' = 0
    <3>1. c > 1 => c - 1 \in Commands
      BY NumCommandsAssumption DEF Commands
    <3>2. /\ left[c] = 0
          /\ c > 1 => pc[c - 1] = "done" /\ content[c - 1] = 0
          /\ stdin[c] = InFile => unread = 0
      BY <2>1 DEF DeliveryInv, InOrder, data
    <3> QED BY <2>1, <3>1, <3>2 DEF data
  <2> QED BY <2>1 DEF InOrder
<1>2. Sinks'
  BY DEF DeliveryInv, Sinks, data
<1>3. Conserved'
  <2>1. OldWritten' = OldWritten
    BY DEF OldWritten
  <2>2. PICK sum \in [0 .. NumCommands -> Int] : Sums(sum)
    BY DEF DeliveryInv, Conserved
  <2>3. Sums(sum)'
    BY <2>1, <2>2 DEF Sums, data
  <2> QED BY <2>3 DEF Conserved
<1> QED BY <1>1, <1>2, <1>3 DEF DeliveryInv

\* The same, for the step of one child that does not change the file.
LEMMA QuietChild ==
  ASSUME WiringInv, DeliveryInv, UNCHANGED <<holders, data>>,
         NEW c \in Commands, NEW stage, pc[c] \notin {"running", "done"},
         stage # "done", pc' = [pc EXCEPT ![c] = stage],
         \A d \in Commands \ {c} : stdin'[d] = stdin[d] /\ stdout'[d] = stdout[d],
         stdout'[c] = OutFile <=> stdout[c] = OutFile
  PROVE  DeliveryInv'
<1>1. NumCommands \in Commands
  BY NumCommandsAssumption DEF Commands
<1>2. \A d \in Commands : pc'[d] = IF d = c THEN stage ELSE pc[d]
  BY DEF WiringInv, Typed
<1> QED BY <1>1, <1>2, QuietStep

\* A command that reads takes one item out of what is in front of it.
LEMMA ReadStep ==
  ASSUME WiringInv, DeliveryInv, NEW c \in Commands, Read(c), holders' = holders
  PROVE  DeliveryInv'
<1>1. /\ c \in Int /\ c > 0 /\ c <= NumCommands /\ NumCommands \in Nat /\ 1 \in Commands
      /\ \A d \in Commands : d \in Int /\ d > 0 /\ d <= NumCommands /\ d \in PipeIds
                             /\ d - 1 \in PipeIds
      /\ \A d \in Commands : d > 1 => d - 1 \in Commands
  BY NumCommandsAssumption DEF Commands, PipeIds
<1>2. /\ content \in [PipeIds -> Nat] /\ left \in [Commands -> Nat] /\ unread \in Nat
      /\ shown \in Nat /\ written \in Nat
  BY DEF WiringInv, Typed
<1>3. /\ pc[c] = "running" /\ left[c] = 0 /\ stdin[c] # Terminal
      /\ pc' = pc /\ stdin' = stdin /\ stdout' = stdout
      /\ shown' = shown /\ written' = written /\ early' = early
      /\ left' = [left EXCEPT ![c] = 1]
  BY DEF Read, children
<1>4. \A d \in Commands : stdin[d] = InFile => d = 1 /\ holders[1].r_in
  BY <1>1, SpecialEnds DEF WiringInv, ChildInv, Input, Sides
<1>5. \/ /\ c > 1 /\ unread' = unread /\ content[c - 1] > 0
         /\ content' = [content EXCEPT ![c - 1] = @ - 1]
      \/ /\ c = 1 /\ unread > 0 /\ unread' = unread - 1 /\ content' = content
         /\ holders[1].r_in
  <2>1. CASE c > 1
    <3>1. stdin[c] = End(c - 1, "read") /\ c - 1 \in 0 .. NumCommands
      BY <1>1, <1>3, <2>1 DEF WiringInv, ChildInv, Input, InPlace
    <3>2. IsPipe(stdin[c]) /\ stdin[c].pipe = c - 1
      BY <3>1, SpecialEnds DEF Sides
    <3> QED BY <2>1, <3>2 DEF Read
  <2>2. CASE c = 1
    <3>1. stdin[c] = InFile /\ ~IsPipe(stdin[c])
      BY <1>1, <1>3, <2>2, SpecialEnds DEF WiringInv, ChildInv, Input
    <3> QED BY <1>4, <2>2, <3>1 DEF Read
  <2> QED BY <1>1, <2>1, <2>2
<1>6. InOrder'
  <2> SUFFICES ASSUME ~early, NEW d \in Commands, pc[d] = "done"
               PROVE  /\ left'[d] = 0
                      /\ d > 1 => pc[d - 1] = "done" /\ content'[d - 1] = 0
                      /\ stdin[d] = InFile => unread' = 0
    BY <1>3 DEF InOrder
  <2>1. /\ left[d] = 0 /\ d # c
        /\ d > 1 => pc[d - 1] = "done" /\ content[d - 1] = 0
        /\ stdin[d] = InFile => unread = 0
    BY <1>3 DEF DeliveryInv, InOrder
  <2>2. left'[d] = 0
    BY <1>2, <1>3, <2>1
  <2>3. d > 1 => content'[d - 1] = 0
    BY <1>1, <1>2, <1>5, <2>1
  <2>4. stdin[d] = InFile => unread' = 0
    BY <1>1, <1>4, <1>5, <2>1
  <2> QED BY <2>1, <2>2, <2>3, <2>4
<1>7. Sinks'
  BY <1>3 DEF DeliveryInv, Sinks
<1>8. Conserved'
  <2>1. PICK sum \in [0 .. NumCommands -> Int] : Sums(sum)
    BY DEF DeliveryInv, Conserved
  <2> DEFINE new == [sum EXCEPT ![c - 1] = @ - 1]
  <2>2. c - 1 \in 0 .. NumCommands /\ NumCommands # c - 1 /\ 0 \in 0 .. NumCommands
        /\ NumCommands \in 0 .. NumCommands
    BY <1>1
  <2>3. new \in [0 .. NumCommands -> Int]
    BY <2>2
  <2>4. new[0] = IF holders[1].r_in THEN unread' ELSE 0
    <3>1. sum[0] = IF holders[1].r_in THEN unread ELSE 0
      BY <2>1 DEF Sums
    <3>2. new[0] = IF c = 1 THEN sum[0] - 1 ELSE sum[0]
      BY <1>1, <2>2
    <3> QED BY <1>1, <1>2, <1>5, <3>1, <3>2
  <2>5. ASSUME NEW d \in Commands
        PROVE  new[d] = new[d - 1] + left'[d] + IF d < NumCommands THEN content'[d] ELSE 0
    <3>1. sum[d] = sum[d - 1] + left[d] + IF d < NumCommands THEN content[d] ELSE 0
      BY <2>1 DEF Sums
    <3>2. /\ new[d] = IF d = c - 1 THEN sum[d] - 1 ELSE sum[d]
          /\ new[d - 1] = IF d = c THEN sum[d - 1] - 1 ELSE sum[d - 1]
          /\ sum[d] \in Int /\ sum[d - 1] \in Int
      <4>1. d \in 0 .. NumCommands /\ d - 1 \in 0 .. NumCommands /\ (d - 1 = c - 1 <=> d = c)
        BY <1>1
      <4> QED BY <4>1
    <3>3. left'[d] = (IF d = c THEN 1 ELSE left[d]) /\ left[d] \in Nat
      BY <1>2, <1>3
    <3>4. content'[d] = (IF d = c - 1 THEN content[d] - 1 ELSE content[d]) /\ content[d] \in Nat
      <4>1. d \in PipeIds /\ c - 1 \in PipeIds /\ d > 0
        BY <1>1
      <4>2. CASE c > 1
        BY <1>2, <1>5, <4>1, <4>2
      <4>3. CASE c = 1
        BY <1>2, <1>5, <4>1, <4>3
      <4> QED BY <1>1, <4>2, <4>3
    <3> HIDE DEF new
    <3>5. CASE d = c
      BY <1>1, <1>3, <3>1, <3>2, <3>3, <3>4, <3>5
    <3>6. CASE d = c - 1
      <4>1. d < NumCommands /\ d # c
        BY <1>1, <3>6
      <4> QED BY <3>1, <3>2, <3>3, <3>4, <3>6, <4>1
    <3>7. CASE d # c /\ d # c - 1
      BY <3>1, <3>2, <3>3, <3>4, <3>7
    <3> QED BY <3>5, <3>6, <3>7
  <2>6. new[NumCommands] = sum[NumCommands] /\ OldWritten' = OldWritten
    BY <1>3, <2>2 DEF OldWritten
  <2>7. Sums(new)'
    <3> HIDE DEF new
    <3>1. sum[NumCommands] + shown + written - OldWritten = Items
      BY <2>1 DEF Sums
    <3> QED BY <1>3, <2>4, <2>5, <2>6, <3>1 DEF Sums
  <2> HIDE DEF new
  <2> QED BY <2>3, <2>7 DEF Conserved
<1> QED BY <1>6, <1>7, <1>8 DEF DeliveryInv

\* A command that writes hands one item on.
LEMMA WriteStep ==
  ASSUME WiringInv, DeliveryInv, NEW c \in Commands, Write(c), holders' = holders
  PROVE  DeliveryInv'
<1>1. /\ c \in Int /\ c > 0 /\ c <= NumCommands /\ NumCommands \in Nat /\ c \in PipeIds
      /\ \A d \in Commands : d \in Int /\ d > 0 /\ d <= NumCommands /\ d \in PipeIds
                             /\ d - 1 \in PipeIds
      /\ NumCommands \in Commands
  BY NumCommandsAssumption DEF Commands, PipeIds
<1>2. /\ content \in [PipeIds -> Nat] /\ left \in [Commands -> Nat]
      /\ shown \in Nat /\ written \in Nat
  BY DEF WiringInv, Typed
<1>3. /\ pc[c] = "running" /\ left[c] > 0
      /\ pc' = pc /\ stdin' = stdin /\ stdout' = stdout
      /\ unread' = unread /\ early' = early
      /\ left' = [left EXCEPT ![c] = @ - 1]
  BY DEF Write, children
<1>4. \/ /\ c < NumCommands /\ content' = [content EXCEPT ![c] = @ + 1]
         /\ shown' = shown /\ written' = written
      \/ /\ c = NumCommands /\ content' = content
         /\ \/ stdout[c] = OutFile /\ written' = written + 1 /\ shown' = shown
            \/ stdout[c] # OutFile /\ written' = written /\ shown' = shown + 1
  <2>1. CASE c < NumCommands
    <3>1. stdout[c] = End(c, "write") /\ c \in 0 .. NumCommands
      BY <1>1, <1>3, <2>1 DEF WiringInv, ChildInv, Output, OutPlace
    <3>2. IsPipe(stdout[c]) /\ stdout[c].pipe = c
      BY <3>1, SpecialEnds DEF Sides
    <3> QED BY <2>1, <3>2 DEF Write, WritePipe
  <2>2. CASE c = NumCommands
    <3>1. ~IsPipe(stdout[c])
      BY <1>1, <1>3, <2>2, SpecialEnds DEF WiringInv, ChildInv, Output
    <3> QED BY <2>2, <3>1 DEF Write
  <2> QED BY <1>1, <2>1, <2>2
<1>5. InOrder'
  <2> SUFFICES ASSUME ~early, NEW d \in Commands, pc[d] = "done"
               PROVE  /\ left'[d] = 0
                      /\ d > 1 => pc[d - 1] = "done" /\ content'[d - 1] = 0
                      /\ stdin[d] = InFile => unread' = 0
    BY <1>3 DEF InOrder
  <2>1. /\ left[d] = 0 /\ d # c
        /\ d > 1 => pc[d - 1] = "done" /\ content[d - 1] = 0
        /\ stdin[d] = InFile => unread = 0
    BY <1>3 DEF DeliveryInv, InOrder
  <2>2. left'[d] = 0
    BY <1>2, <1>3, <2>1
  <2>3. d > 1 => content'[d - 1] = 0
    BY <1>1, <1>2, <1>3, <1>4, <2>1
  <2> QED BY <1>3, <2>1, <2>2, <2>3
<1>6. Sinks'
  BY <1>3, <1>4 DEF DeliveryInv, Sinks
<1>7. Conserved'
  <2>1. PICK sum \in [0 .. NumCommands -> Int] : Sums(sum)
    BY DEF DeliveryInv, Conserved
  <2> DEFINE new == [sum EXCEPT ![c] = IF c < NumCommands THEN @ ELSE @ - 1]
  <2>2. c \in 0 .. NumCommands /\ 0 # c /\ 0 \in 0 .. NumCommands
        /\ NumCommands \in 0 .. NumCommands
    BY <1>1
  <2>3. new \in [0 .. NumCommands -> Int]
    BY <2>2
  <2>4. new[0] = IF holders[1].r_in THEN unread' ELSE 0
    BY <1>3, <2>1, <2>2 DEF Sums
  <2>5. ASSUME NEW d \in Commands
        PROVE  new[d] = new[d - 1] + left'[d] + IF d < NumCommands THEN content'[d] ELSE 0
    <3>1. sum[d] = sum[d - 1] + left[d] + IF d < NumCommands THEN content[d] ELSE 0
      BY <2>1 DEF Sums
    <3>2. /\ new[d] = IF d = c /\ c = NumCommands THEN sum[d] - 1 ELSE sum[d]
          /\ new[d - 1] = sum[d - 1]
          /\ sum[d] \in Int /\ sum[d - 1] \in Int
      <4>1. d \in 0 .. NumCommands /\ d - 1 \in 0 .. NumCommands /\ ~(d - 1 = c /\ c = NumCommands)
        BY <1>1
      <4> QED BY <1>1, <4>1
    <3>3. left'[d] = (IF d = c THEN left[d] - 1 ELSE left[d]) /\ left[d] \in Nat
      BY <1>2, <1>3
    <3>4. content'[d] = (IF d = c /\ c < NumCommands THEN content[d] + 1 ELSE content[d])
          /\ content[d] \in Nat
      <4>1. d \in PipeIds /\ c \in PipeIds /\ c \in Int /\ NumCommands \in Int
        BY <1>1
      <4>2. CASE c < NumCommands
        BY <1>2, <1>4, <4>1, <4>2
      <4>3. CASE c = NumCommands
        BY <1>2, <1>4, <4>1, <4>3
      <4> QED BY <1>1, <4>2, <4>3
    <3> HIDE DEF new
    <3>5. CASE d = c /\ c < NumCommands
      <4>1. d < NumCommands /\ c # NumCommands
        BY <1>1, <3>5
      <4> QED BY <3>1, <3>2, <3>3, <3>4, <3>5, <4>1
    <3>6. CASE d = c /\ c = NumCommands
      BY <1>1, <3>1, <3>2, <3>3, <3>4, <3>6
    <3>7. CASE d # c
      BY <3>1, <3>2, <3>3, <3>4, <3>7
    <3> QED BY <1>1, <3>5, <3>6, <3>7
  <2>6. new[NumCommands] = (IF c < NumCommands THEN sum[NumCommands] ELSE sum[NumCommands] - 1)
        /\ sum[NumCommands] \in Int /\ OldWritten' = OldWritten
    BY <1>1, <1>3, <2>2 DEF OldWritten
  <2>7. OldWritten \in Int
    BY ItemsAssumption DEF OldWritten
  <2>8. new[NumCommands] + shown' + written' - OldWritten' = Items
    <3>1. sum[NumCommands] + shown + written - OldWritten = Items
      BY <2>1 DEF Sums
    <3> HIDE DEF new
    <3> QED BY <1>1, <1>2, <1>4, <2>6, <2>7, <3>1
  <2>9. Sums(new)'
    <3> HIDE DEF new
    <3> QED BY <1>3, <2>4, <2>5, <2>8 DEF Sums
  <2> HIDE DEF new
  <2> QED BY <2>3, <2>9 DEF Conserved
<1> QED BY <1>5, <1>6, <1>7 DEF DeliveryInv

\* The last command finds the file as it was, and empties it unless it appends.
LEMMA FileStep ==
  ASSUME WiringInv, DeliveryInv, NEW c \in Commands, RedirectOut(c)
  PROVE  DeliveryInv'
<1> USE DEF RedirectOut
<1>1. /\ UNCHANGED <<holders, stdin, content, left, shown, unread, early>>
      /\ pc[c] = "reading" /\ NumCommands \in Commands
  BY NumCommandsAssumption DEF Commands
<1>2. \A d \in Commands : pc'[d] = IF d = c THEN "running" ELSE pc[d]
  BY DEF WiringInv, Typed
<1>3. CASE UNCHANGED <<stdout, written>>
  BY <1>1, <1>3, QuietChild DEF data
<1>4. CASE /\ holders[c].r_out /\ stdout' = [stdout EXCEPT ![c] = OutFile]
           /\ written' = IF holders[c].r_app THEN written ELSE 0
  <2>1. /\ c = NumCommands /\ stdout'[NumCommands] = OutFile
        /\ stdout[NumCommands] # OutFile
    BY <1>1, <1>4, SpecialEnds DEF WiringInv, Typed, Flagged, ChildInv, Output
  <2>2. /\ shown = 0 /\ written = OldItems
    BY <1>1, <2>1 DEF DeliveryInv, Sinks
  <2>3. Sinks'
    BY <1>1, <2>1, <2>2 DEF Sinks
  <2>4. InOrder'
    BY <1>1, <1>2, NumCommandsAssumption DEF DeliveryInv, InOrder, Commands
  <2>5. Conserved'
    <3>1. PICK sum \in [0 .. NumCommands -> Int] : Sums(sum)
      BY DEF DeliveryInv, Conserved
    <3>2. /\ OldWritten = OldItems
          /\ OldWritten' = IF holders[c].r_app THEN OldItems ELSE 0
          /\ OldItems \in Nat /\ sum[NumCommands] \in Int
      BY <1>1, <2>1, ItemsAssumption, NumCommandsAssumption DEF OldWritten
    <3>3. sum[NumCommands] + shown + written - OldWritten = Items
      BY <3>1 DEF Sums
    <3>4. sum[NumCommands] + shown' + written' - OldWritten' = Items
      BY <1>1, <1>4, <2>2, <3>2, <3>3
    <3>5. Sums(sum)'
      BY <1>1, <3>1, <3>4 DEF Sums
    <3> QED BY <3>5 DEF Conserved
  <2> QED BY <2>3, <2>4, <2>5 DEF DeliveryInv
<1> QED BY <1>3, <1>4

\* Nobody is killed for what it writes before its right neighbour ends.
LEMMA NoSigpipe ==
  ASSUME WiringInv, DeliveryInv, NEW c \in Commands, EndsAtSigpipe(c)
  PROVE  early
<1> SUFFICES ASSUME ~early PROVE FALSE
  OBVIOUS
<1> USE DEF EndsAtSigpipe
<1>1. c \in Int /\ c > 0 /\ c <= NumCommands /\ NumCommands \in Nat
  BY NumCommandsAssumption DEF Commands
<1>2. c < NumCommands /\ stdout[c] = End(c, "write")
  BY <1>1, SpecialEnds DEF WiringInv, ChildInv, Output, OutPlace
<1>3. ~IsOpen(End(c, "read")) /\ c + 1 \in Commands /\ (c + 1) - 1 = c /\ c + 1 > 1
  BY <1>1, <1>2 DEF End, Commands
<1>4. CASE pc[c + 1] = "none"
  BY <1>2, <1>3, <1>4, ShellKeeps
<1>5. CASE pc[c + 1] = "done"
  BY <1>3, <1>5 DEF DeliveryInv, InOrder
<1>6. CASE pc[c + 1] \notin {"none", "done"}
  BY <1>3, <1>6, KeepsEnds
<1> QED BY <1>4, <1>5, <1>6

\* What a command that sees the end of its input leaves behind.
LEMMA AtEof ==
  ASSUME WiringInv, DeliveryInv, NEW c \in Commands, EndsAtEof(c)
  PROVE  /\ left[c] = 0
         /\ c > 1 => pc[c - 1] = "done" /\ content[c - 1] = 0
         /\ stdin[c] = InFile => unread = 0
<1> USE DEF EndsAtEof
<1>1. ASSUME c > 1 PROVE pc[c - 1] = "done" /\ content[c - 1] = 0
  <2>1. c - 1 \in Commands /\ c - 1 < NumCommands /\ c - 1 \in 0 .. NumCommands /\ c - 1 < c
        /\ c \in Int /\ Created \in Int
    BY <1>1, NumCommandsAssumption DEF Commands, WiringInv, ParentInv, Created
  <2>2. stdin[c] = End(c - 1, "read")
    BY <1>1 DEF WiringInv, ChildInv, Input, InPlace
  <2>3. IsPipe(stdin[c]) /\ stdin[c].pipe = c - 1
    BY <2>1, <2>2, SpecialEnds DEF Sides
  <2>4. content[c - 1] = 0 /\ ~IsOpen(End(c - 1, "write"))
    BY <2>3
  <2>5. pc[c - 1] # "none"
    BY <2>1 DEF WiringInv, ParentInv
  <2> QED BY <2>1, <2>4, <2>5, KeepsEnds
<1> QED BY <1>1

\* A command that ends leaves no item behind, unless one ended early.
LEMMA EndStep ==
  ASSUME WiringInv, DeliveryInv, NEW c \in Commands, holders' = holders,
         EndsAtEof(c) \/ EndsAtSigpipe(c) \/ EndsEarly(c)
  PROVE  DeliveryInv'
<1>1. /\ pc[c] = "running" /\ pc' = [pc EXCEPT ![c] = "done"] /\ early \in BOOLEAN
      /\ UNCHANGED <<stdin, stdout, content, left, shown, unread, written>>
      /\ NumCommands \in Commands
  BY NumCommandsAssumption
     DEF EndsAtEof, EndsAtSigpipe, EndsEarly, Ends, Commands, WiringInv, Typed
<1>2. \A d \in Commands : pc'[d] = IF d = c THEN "done" ELSE pc[d]
  BY <1>1 DEF WiringInv, Typed
<1>3. InOrder'
  <2>1. ASSUME ~early', NEW d \in Commands, pc'[d] = "done"
        PROVE  /\ left'[d] = 0
               /\ d > 1 => pc'[d - 1] = "done" /\ content'[d - 1] = 0
               /\ stdin'[d] = InFile => unread' = 0
    <3>1. ~early /\ EndsAtEof(c)
      BY <2>1, NoSigpipe DEF EndsAtEof, EndsAtSigpipe, EndsEarly
    <3>2. /\ left[d] = 0
          /\ d > 1 => pc[d - 1] = "done" /\ content[d - 1] = 0
          /\ stdin[d] = InFile => unread = 0
      BY <1>2, <2>1, <3>1, AtEof DEF DeliveryInv, InOrder
    <3>3. d > 1 => d - 1 \in Commands
      BY NumCommandsAssumption DEF Commands
    <3> QED BY <1>1, <1>2, <3>2, <3>3
  <2> QED BY <2>1 DEF InOrder
<1>4. Sinks'
  BY <1>1, <1>2 DEF DeliveryInv, Sinks
<1>5. Conserved'
  <2>1. PICK sum \in [0 .. NumCommands -> Int] : Sums(sum)
    BY DEF DeliveryInv, Conserved
  <2>2. Sums(sum)'
    BY <1>1, <2>1 DEF Sums, OldWritten
  <2> QED BY <2>2 DEF Conserved
<1> QED BY <1>3, <1>4, <1>5 DEF DeliveryInv

\* The parent only ever starts a command.
LEMMA ParentQuiet ==
  ASSUME WiringInv, DeliveryInv, Parent
  PROVE  DeliveryInv'
<1>1. NumCommands \in Commands /\ i \in Commands
  BY NumCommandsAssumption DEF Commands, WiringInv, ParentInv
<1>2. UNCHANGED <<holders, data>>
  BY DEF Parent, FinderMain, Quash, MakePipes, ForkNext, CloseAll, FinishScript,
         OpenOld, OpenNext, Fork, CloseOld, CloseLast
<1>3. CASE UNCHANGED children
  BY <1>2, <1>3, QuietStep DEF children
<1>4. CASE Fork \/ ForkNext
  <2>1. pc' = [pc EXCEPT ![i] = "forked"] /\ UNCHANGED <<stdin, stdout>> /\ at = "fork"
    BY <1>4 DEF Fork, ForkNext
  <2>2. pc[i] = "none"
    BY <1>1, <2>1 DEF WiringInv, ParentInv, Created, Commands
  <2> QED BY <1>1, <1>2, <2>1, <2>2, QuietChild
<1> QED BY <1>3, <1>4
        DEF Parent, FinderMain, Quash, MakePipes, CloseAll, FinishScript,
            OpenOld, OpenNext, CloseOld, CloseLast

\* Setting a child up moves no item; only RedirectOut changes the file.
LEMMA ChildQuiet ==
  ASSUME WiringInv, DeliveryInv, NEW c \in Commands,
         \/ Connect(c) \/ ClosePipes(c) \/ RedirectIn(c)
         \/ CloseUnused(c) \/ ConnectIn(c) \/ ConnectOut(c)
         \/ CloseOthers(c) \/ ConnectBoth(c)
  PROVE  DeliveryInv'
<1>1. c \in Int /\ c > 0 /\ c <= NumCommands /\ NumCommands \in Int
  BY NumCommandsAssumption DEF Commands
<1>2. /\ holders' = holders /\ UNCHANGED data
  BY DEF Connect, ClosePipes, RedirectIn, CloseUnused, ConnectIn, ConnectOut,
         CloseOthers, ConnectBoth
<1>3. PICK stage \in Stages \ {"done"} : pc' = [pc EXCEPT ![c] = stage]
  BY DEF Connect, ClosePipes, RedirectIn, CloseUnused, ConnectIn, ConnectOut,
         CloseOthers, ConnectBoth, Stages
<1>4. pc[c] \notin {"running", "done"}
  BY DEF Connect, ClosePipes, RedirectIn, CloseUnused, ConnectIn, ConnectOut,
         CloseOthers, ConnectBoth
<1>5. \A d \in Commands \ {c} : stdin'[d] = stdin[d] /\ stdout'[d] = stdout[d]
  BY DEF Connect, ClosePipes, RedirectIn, CloseUnused, ConnectIn, ConnectOut,
         CloseOthers, ConnectBoth, WiringInv, Typed
<1>6. stdout'[c] = OutFile <=> stdout[c] = OutFile
  <2>1. CASE stdout' = stdout
    BY <2>1
  <2>2. CASE Connect(c) \/ ConnectOut(c) \/ ConnectBoth(c)
    <3>1. stdout[c] # OutFile
      BY <2>2 DEF Connect, ConnectOut, ConnectBoth, WiringInv, ChildInv, Output, OutFile, End,
                  Terminal
    <3>2. \A p : End(p, "write") # OutFile
      BY DEF End, OutFile
    <3>3. stdout'[c] = stdout[c] \/ \E p : stdout'[c] = End(p, "write")
      BY <2>2 DEF Connect, ConnectOut, ConnectBoth, WiringInv, Typed, Dup2
    <3> QED BY <3>1, <3>2, <3>3
  <2> QED BY <2>1, <2>2 DEF ClosePipes, RedirectIn, CloseUnused, ConnectIn, CloseOthers
<1> QED BY <1>2, <1>3, <1>4, <1>5, <1>6, QuietChild

-----------------------------------------------------------------------------
\* Every step keeps what is said of the items.
LEMMA DeliveryStep == WiringInv /\ DeliveryInv /\ [IpcNext]_ipc_vars => DeliveryInv'
<1> SUFFICES ASSUME WiringInv, DeliveryInv, [IpcNext]_ipc_vars PROVE DeliveryInv'
  OBVIOUS
<1>1. CASE Parent
  BY <1>1, ParentQuiet
<1>2. ASSUME NEW c \in Commands, Child(c) PROVE DeliveryInv'
  <2>1. CASE SetUp(c) \/ ForkChild(c) \/ FinderChild(c)
    BY <2>1, ChildQuiet, FileStep DEF SetUp, ForkChild, FinderChild
  <2>2. CASE Run(c)
    BY <2>2, ReadStep, WriteStep, EndStep DEF Run, Filter
  <2> QED BY <1>2, <2>1, <2>2 DEF Child
<1>3. ASSUME NEW c \in Commands, Stop(c) PROVE DeliveryInv'
  BY <1>3, EndStep DEF Stop
<1>4. CASE UNCHANGED ipc_vars
  <2>1. NumCommands \in Commands
    BY NumCommandsAssumption DEF Commands
  <2> QED BY <1>4, <2>1, QuietStep DEF ipc_vars, vars, children
<1> QED BY <1>1, <1>2, <1>3, <1>4 DEF IpcNext

\* What is said of the items holds throughout.
LEMMA DeliveryHolds == IpcSpec => [](WiringInv /\ DeliveryInv)
<1>1. IpcInit => WiringInv /\ DeliveryInv
  BY InitWired, InitDelivery
<1>2. WiringInv /\ DeliveryInv /\ [IpcNext]_ipc_vars => (WiringInv /\ DeliveryInv)'
  BY WiringStep, DeliveryStep
<1> QED BY <1>1, <1>2, PTL DEF IpcSpec

\* Once all commands ended the pipes are empty: what came through is all there was.
LEMMA DeliveredFromInv == WiringInv /\ DeliveryInv => AllDelivered
<1> SUFFICES ASSUME WiringInv, DeliveryInv, AllOver, ~early, ~failed
             PROVE  LET last == holders[NumCommands]
                    IN IF last.r_out
                       THEN shown = 0 /\ written = Items + (IF last.r_app THEN OldItems ELSE 0)
                       ELSE shown = Items /\ written = OldItems
  BY DEF AllDelivered
<1>1. /\ NumCommands \in Nat /\ NumCommands \in Commands /\ 1 \in Commands
      /\ \A c \in Commands : c \in Int /\ c > 0 /\ c <= NumCommands
      /\ Items \in Nat /\ OldItems \in Nat /\ shown \in Nat /\ written \in Nat
  BY NumCommandsAssumption, ItemsAssumption DEF Commands, WiringInv, Typed
<1>2. \A c \in Commands : pc[c] = "done"
  BY DEF AllOver
<1>3. PICK sum \in [0 .. NumCommands -> Int] : Sums(sum)
  BY DEF DeliveryInv, Conserved
<1>4. sum[0] = 0
  <2>1. holders[1].r_in => stdin[1] = InFile
    BY <1>1, <1>2 DEF WiringInv, ChildInv, Input
  <2>2. stdin[1] = InFile => unread = 0
    BY <1>1, <1>2 DEF DeliveryInv, InOrder
  <2> QED BY <1>3, <2>1, <2>2 DEF Sums
<1>5. sum[NumCommands] = 0
  <2> DEFINE T == {k \in 0 .. NumCommands : sum[k] = 0}
  <2>1. 0 \in T
    BY <1>1, <1>4
  <2>2. ASSUME NEW k \in 0 .. NumCommands - 1, k \in T PROVE k + 1 \in T
    <3>1. k + 1 \in Commands /\ k + 1 \in 0 .. NumCommands /\ (k + 1) - 1 = k
      BY <1>1 DEF Commands
    <3>2. left[k + 1] = 0
      BY <1>2, <3>1 DEF DeliveryInv, InOrder
    <3>3. ASSUME k + 1 < NumCommands PROVE content[k + 1] = 0
      <4>1. k + 2 \in Commands /\ k + 2 > 1 /\ (k + 2) - 1 = k + 1
        BY <1>1, <3>3 DEF Commands
      <4> QED BY <1>2, <4>1 DEF DeliveryInv, InOrder
    <3>4. sum[k + 1] = sum[(k + 1) - 1] + left[k + 1]
                       + IF k + 1 < NumCommands THEN content[k + 1] ELSE 0
      BY <1>3, <3>1 DEF Sums
    <3>5. sum[k + 1] = 0
      BY <2>2, <3>1, <3>2, <3>3, <3>4
    <3> QED BY <3>1, <3>5
  <2> HIDE DEF T
  <2>3. \A k \in 0 .. NumCommands : k \in T
    BY <1>1, <2>1, <2>2, UpTo
  <2> QED BY <1>1, <2>3 DEF T
<1>6. shown + written - OldWritten = Items
  BY <1>1, <1>3, <1>5, ItemsAssumption DEF Sums, OldWritten
<1>7. holders[NumCommands].r_out <=> stdout[NumCommands] = OutFile
  BY <1>1, <1>2, SpecialEnds DEF WiringInv, ChildInv, Output
<1>8. CASE holders[NumCommands].r_out
  BY <1>1, <1>6, <1>7, <1>8 DEF DeliveryInv, Sinks, OldWritten
<1>9. CASE ~holders[NumCommands].r_out
  BY <1>1, <1>6, <1>7, <1>9 DEF DeliveryInv, Sinks, OldWritten
<1> QED BY <1>8, <1>9

\* No item is lost, made or misdirected by any of the three programs, however long
\* the pipeline and however the commands interleave.
THEOREM IpcDelivers == IpcSpec => []AllDelivered
BY DeliveryHolds, DeliveredFromInv, PTL
=============================================================================
