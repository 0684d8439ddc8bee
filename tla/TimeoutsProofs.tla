--------------------------- MODULE TimeoutsProofs ---------------------------
(* Proofs about Timeouts, for every value of its constants.                *)
EXTENDS Timeouts, FiniteSetTheorems, SequenceTheorems, WellFoundedInduction, TLAPS

------------------------------------------------------------------------------
(* Natural numbers.                                                        *)

LEMMA LeastNatural ==
  ASSUME NEW T \in SUBSET Nat, T # {}
  PROVE  \E x \in T : \A y \in T : x =< y
<1> DEFINE R == OpToRel(<, Nat)
<1>1. \A x, y \in Nat : x < y <=> <<x, y>> \in R
  BY DEF OpToRel
<1>2. \E x \in T : \A y \in T : ~(<<y, x>> \in R)
  BY NatLessThanWellFounded, WFMin
<1> HIDE DEF R
<1>3. PICK x \in T : \A y \in T : ~(<<y, x>> \in R)
  BY <1>2
<1>4. ASSUME NEW y \in T PROVE x =< y
  <2>1. x \in Nat /\ y \in Nat
    OBVIOUS
  <2>2. ~(y < x)
    BY <1>1, <1>3, <2>1, Zenon
  <2> QED BY <2>1, <2>2
<1> QED BY <1>4

\* Induction, with the property given as the set of the numbers that have it.
LEMMA StrongInduction ==
  ASSUME NEW S, \A n \in Nat : (\A m \in 0 .. (n - 1) : m \in S) => n \in S
  PROVE  Nat \subseteq S
<1> DEFINE T == Nat \ S
<1> SUFFICES ASSUME T # {} PROVE FALSE
  OBVIOUS
<1>1. T \in SUBSET Nat
  OBVIOUS
<1>2. PICK x \in T : \A y \in T : x =< y
  <2> HIDE DEF T
  <2> QED BY <1>1, LeastNatural
<1>3. x \in Nat /\ x \notin S /\ \A m \in 0 .. (x - 1) : m \in S
  BY <1>2
<1> QED BY <1>3

LEMMA MinOfNat ==
  ASSUME NEW T \in SUBSET Nat, T # {}
  PROVE  Min(T) \in T /\ \A y \in T : Min(T) =< y
BY LeastNatural DEF Min

LEMMA MaxOfInterval ==
  ASSUME NEW n \in Nat, NEW T \in SUBSET (0 .. n), T # {}
  PROVE  Max(T) \in T /\ \A y \in T : Max(T) >= y
<1> DEFINE U == {n - x : x \in T}
<1>1. U \in SUBSET Nat /\ U # {}
  <2>1. \A x \in T : n - x \in Nat
    OBVIOUS
  <2> QED BY <2>1
<1>2. PICK u \in U : \A y \in U : u =< y
  <2> HIDE DEF U
  <2> QED BY <1>1, LeastNatural
<1>3. PICK x \in T : u = n - x
  BY <1>2
<1>4. \A y \in T : x >= y
  <2> SUFFICES ASSUME NEW y \in T PROVE x >= y
    OBVIOUS
  <2>1. n - y \in U /\ x \in 0 .. n /\ y \in 0 .. n
    OBVIOUS
  <2>2. n - x =< n - y
    BY <1>2, <1>3, <2>1
  <2> QED BY <2>1, <2>2
<1> QED BY <1>4 DEF Max

\* A position and its parent.
LEMMA ParentFacts ==
  \A i \in Nat \ {0} : /\ Parent(i) \in Nat /\ Parent(i) < i
                       /\ i = 2 * Parent(i) + 1 \/ i = 2 * Parent(i) + 2
BY DEF Parent

LEMMA ParentOfChild ==
  \A i \in Nat : Parent(2 * i + 1) = i /\ Parent(2 * i + 2) = i
BY DEF Parent

------------------------------------------------------------------------------
(* The holes that min_heap_shift_up_ and min_heap_shift_down_ walk through. *)

UpBody(h, e, g, i) ==
  IF i # 0 /\ min_heap_elem_greater(h, h.p[Parent(i)], e) THEN {i} \cup g[Parent(i)] ELSE {}

\* The loop of min_heap_shift_up_ is well defined.
LEMMA UpExists ==
  ASSUME NEW h, NEW e
  PROVE  \A n \in Nat : \E g : g = [i \in 0 .. n |-> UpBody(h, e, g, i)]
<1> DEFINE S == {n \in Nat : \E g : g = [i \in 0 .. n |-> UpBody(h, e, g, i)]}
<1>1. ASSUME NEW n \in Nat, \A m \in 0 .. (n - 1) : m \in S PROVE n \in S
  <2>1. CASE n = 0
    <3> DEFINE g == [i \in 0 .. n |-> {}]
    <3>1. g = [i \in 0 .. n |-> UpBody(h, e, g, i)]
      BY <2>1 DEF UpBody
    <3> QED BY <3>1
  <2>2. CASE n # 0
    <3>1. n - 1 \in S /\ n - 1 \in Nat
      BY <1>1, <2>2
    <3>2. PICK f : f = [i \in 0 .. (n - 1) |-> UpBody(h, e, f, i)]
      BY <3>1
    <3> DEFINE g == [i \in 0 .. n |-> IF i = n THEN UpBody(h, e, f, n) ELSE f[i]]
    <3>3. \A i \in 0 .. n : i # 0 => g[Parent(i)] = f[Parent(i)]
      BY ParentFacts
    <3>4. \A i \in 0 .. n : UpBody(h, e, g, i) = UpBody(h, e, f, i)
      BY <3>3 DEF UpBody
    <3>5. \A i \in 0 .. (n - 1) : f[i] = UpBody(h, e, f, i)
      BY <3>2
    <3>6. \A i \in 0 .. n : g[i] = UpBody(h, e, g, i)
      BY <3>4, <3>5
    <3>7. g = [i \in 0 .. n |-> UpBody(h, e, g, i)]
      BY <3>6
    <3> QED BY <3>7
  <2> QED BY <2>1, <2>2
<1>2. Nat \subseteq S
  <2> HIDE DEF S
  <2> QED BY <1>1, StrongInduction
<1> QED BY <1>2

\* Where the walk ends for a set U of holes.
UpDest(hole, U) == IF U = {} THEN hole ELSE Parent(Min(U))

\* A walk from hole to the top along U: each hole's parent is later than e, and it is a
\* hole itself or the place where the walk ends.
UpPath(h, hole, e, U) ==
  /\ U \subseteq 1 .. hole /\ (U # {} => hole \in U)
  /\ \A j \in U : min_heap_elem_greater(h, h.p[Parent(j)], e)
  /\ \A j \in U : j = hole \/ \E k \in U : Parent(k) = j
  /\ \A j, k \in U : Parent(j) = Parent(k) => j = k
  /\ \A j \in U : Parent(j) \in U \/ ((\A k \in U : j =< k)
       /\ (Parent(j) = 0 \/ ~min_heap_elem_greater(h, h.p[Parent(Parent(j))], e)))
  /\ U = {} => hole = 0 \/ ~min_heap_elem_greater(h, h.p[Parent(hole)], e)

\* One more hole below a walk.
LEMMA UpStep ==
  ASSUME NEW h, NEW i \in Nat \ {0}, NEW e, NEW V,
         min_heap_elem_greater(h, h.p[Parent(i)], e), UpPath(h, Parent(i), e, V)
  PROVE  UpPath(h, i, e, {i} \cup V)
<1> DEFINE q == Parent(i)
<1>2. q \in Nat /\ q < i
  BY ParentFacts
<1>3. UpPath(h, q, e, V)
  OBVIOUS
<1>4. \A j \in V : j \in Nat /\ j # 0 /\ j =< q /\ Parent(j) \in Nat /\ Parent(j) < q
  BY <1>2, <1>3, ParentFacts DEF UpPath
<1>5. {i} \cup V \subseteq 1 .. i
  BY <1>2, <1>4
<1>6. \A j \in {i} \cup V : j = i \/ \E k \in {i} \cup V : Parent(k) = j
  BY <1>3 DEF UpPath
<1>7. \A j, k \in {i} \cup V : Parent(j) = Parent(k) => j = k
  <2>1. \A j, k \in V : Parent(j) = Parent(k) => j = k
    BY <1>3 DEF UpPath
  <2>2. \A j \in V : Parent(j) # Parent(i)
    BY <1>2, <1>4
  <2> QED BY <2>1, <2>2
<1>8. \A j \in {i} \cup V : Parent(j) \in {i} \cup V \/ ((\A k \in {i} \cup V : j =< k)
        /\ (Parent(j) = 0 \/ ~min_heap_elem_greater(h, h.p[Parent(Parent(j))], e)))
  <2>1. CASE V = {}
    BY <1>3, <2>1 DEF UpPath
  <2>2. CASE V # {}
    <3>1. q \in V
      BY <1>3, <2>2 DEF UpPath
    <3>2. ASSUME NEW j \in V
          PROVE  Parent(j) \in V \/ ((\A k \in {i} \cup V : j =< k)
                   /\ (Parent(j) = 0 \/ ~min_heap_elem_greater(h, h.p[Parent(Parent(j))], e)))
      BY <1>2, <1>3, <1>4 DEF UpPath
    <3> QED BY <3>1, <3>2
  <2> QED BY <2>1, <2>2
<1>9. \A j \in {i} \cup V : min_heap_elem_greater(h, h.p[Parent(j)], e)
  BY <1>3 DEF UpPath
<1> QED BY <1>5, <1>6, <1>7, <1>8, <1>9 DEF UpPath

LEMMA UpWalk ==
  ASSUME NEW h, NEW hole \in Nat, NEW e
  PROVE  UpPath(h, hole, e, HolesUp(h, hole, e))
<1> DEFINE up == CHOOSE g : g = [i \in 0 .. hole |-> UpBody(h, e, g, i)]
<1>1. HolesUp(h, hole, e) = up[hole]
  BY DEF HolesUp, UpBody
<1>2. up = [i \in 0 .. hole |-> UpBody(h, e, up, i)]
  BY UpExists
<1> HIDE DEF up
<1>3. \A i \in 0 .. hole : up[i] = UpBody(h, e, up, i)
  BY <1>2
<1> DEFINE S == {i \in Nat : i =< hole => UpPath(h, i, e, up[i])}
<1>4. ASSUME NEW i \in Nat, \A m \in 0 .. (i - 1) : m \in S PROVE i \in S
  <2> SUFFICES ASSUME i =< hole PROVE UpPath(h, i, e, up[i])
    OBVIOUS
  <2>0. up[i] = UpBody(h, e, up, i)
    BY <1>3
  <2>1. CASE up[i] = {}
    <3>1. i = 0 \/ ~min_heap_elem_greater(h, h.p[Parent(i)], e)
      BY <2>0, <2>1, Zenon DEF UpBody
    <3> QED BY <2>1, <3>1 DEF UpPath
  <2>2. CASE up[i] # {}
    <3> DEFINE q == Parent(i)
               V == up[q]
    <3>1. i # 0 /\ min_heap_elem_greater(h, h.p[q], e) /\ up[i] = {i} \cup V
      BY <2>0, <2>2, Zenon DEF UpBody
    <3>2. q \in Nat /\ q < i /\ q =< hole
      BY <3>1, ParentFacts
    <3>3. UpPath(h, q, e, V)
      BY <1>4, <3>2
    <3> HIDE DEF V
    <3>4. UpPath(h, i, e, {i} \cup V)
      BY <3>1, <3>3, UpStep
    <3> QED BY <3>1, <3>4
  <2> QED BY <2>1, <2>2
<1>5. Nat \subseteq S
  <2> HIDE DEF S
  <2> QED BY <1>4, StrongInduction
<1> QED BY <1>1, <1>5

DownBody(h, n, e, g, i) ==
  IF 2 * (i + 1) =< n /\ min_heap_elem_greater(h, e, h.p[SmallerChild(h, n, i)])
  THEN {i} \cup g[SmallerChild(h, n, i)] ELSE {}

LEMMA ChildFacts ==
  ASSUME NEW h, NEW n \in Nat, NEW i \in Nat, 2 * (i + 1) =< n
  PROVE  LET c == SmallerChild(h, n, i) IN
         /\ c \in Nat /\ c > i /\ c < n /\ Parent(c) = i /\ c \in {2 * i + 1, 2 * i + 2}
         /\ c = 2 * i + 2 => ~min_heap_elem_greater(h, h.p[2 * i + 2], h.p[2 * i + 1])
         /\ c = 2 * i + 1 => 2 * i + 2 = n \/ min_heap_elem_greater(h, h.p[2 * i + 2], h.p[2 * i + 1])
<1>1. 2 * (i + 1) = 2 * i + 2 /\ 2 * (i + 1) - 1 = 2 * i + 1
  OBVIOUS
<1>2. SmallerChild(h, n, i) = IF 2 * i + 2 = n \/ min_heap_elem_greater(h, h.p[2 * i + 2], h.p[2 * i + 1])
                              THEN 2 * i + 1 ELSE 2 * i + 2
  BY <1>1, Zenon DEF SmallerChild
<1>3. 2 * i + 2 =< n /\ 2 * i + 1 # 2 * i + 2
  OBVIOUS
<1>4. CASE 2 * i + 2 = n \/ min_heap_elem_greater(h, h.p[2 * i + 2], h.p[2 * i + 1])
  <2>1. SmallerChild(h, n, i) = 2 * i + 1
    BY <1>2, <1>4
  <2> QED BY <1>3, <1>4, <2>1, ParentOfChild
<1>5. CASE ~(2 * i + 2 = n \/ min_heap_elem_greater(h, h.p[2 * i + 2], h.p[2 * i + 1]))
  <2>1. SmallerChild(h, n, i) = 2 * i + 2
    BY <1>2, <1>5
  <2> QED BY <1>3, <1>5, <2>1, ParentOfChild
<1> QED BY <1>4, <1>5

\* The loop of min_heap_shift_down_ is well defined.
LEMMA DownExists ==
  ASSUME NEW h, NEW n \in Nat, NEW e
  PROVE  \E g : g = [i \in 0 .. n |-> DownBody(h, n, e, g, i)]
<1> DEFINE S == {m \in Nat : m =< n => \E g : g = [i \in (n - m) .. n |-> DownBody(h, n, e, g, i)]}
<1>1. ASSUME NEW m \in Nat, \A k \in 0 .. (m - 1) : k \in S PROVE m \in S
  <2> SUFFICES ASSUME m =< n
               PROVE  \E g : g = [i \in (n - m) .. n |-> DownBody(h, n, e, g, i)]
    OBVIOUS
  <2>1. CASE m = 0
    <3> DEFINE g == [i \in (n - m) .. n |-> {}]
    <3>1. \A i \in (n - m) .. n : ~(2 * (i + 1) =< n)
      BY <2>1
    <3>2. \A i \in (n - m) .. n : DownBody(h, n, e, g, i) = {}
      BY <3>1 DEF DownBody
    <3>3. g = [i \in (n - m) .. n |-> DownBody(h, n, e, g, i)]
      BY <3>2
    <3> QED BY <3>3
  <2>2. CASE m # 0
    <3> DEFINE a == n - m
    <3>1. m - 1 \in S /\ n - (m - 1) = a + 1 /\ a \in Nat /\ a < n /\ m - 1 =< n
      BY <1>1, <2>2
    <3>2. PICK f : f = [i \in (a + 1) .. n |-> DownBody(h, n, e, f, i)]
      BY <3>1
    <3> HIDE DEF a
    <3> DEFINE g == [i \in a .. n |-> IF i = a THEN DownBody(h, n, e, f, a) ELSE f[i]]
    <3>3. \A i \in a .. n : 2 * (i + 1) =< n => g[SmallerChild(h, n, i)] = f[SmallerChild(h, n, i)]
      <4> SUFFICES ASSUME NEW i \in a .. n, 2 * (i + 1) =< n
                   PROVE  SmallerChild(h, n, i) \in (a + 1) .. n
        BY <3>1
      <4>1. i \in Nat
        BY <3>1
      <4>2. SmallerChild(h, n, i) \in Nat /\ SmallerChild(h, n, i) > i /\ SmallerChild(h, n, i) < n
        BY <4>1, ChildFacts
      <4> QED BY <3>1, <4>1, <4>2
    <3>4. \A i \in a .. n : DownBody(h, n, e, g, i) = DownBody(h, n, e, f, i)
      BY <3>3 DEF DownBody
    <3>5. \A i \in (a + 1) .. n : f[i] = DownBody(h, n, e, f, i)
      BY <3>2
    <3>6. \A i \in a .. n : g[i] = DownBody(h, n, e, g, i)
      BY <3>1, <3>4, <3>5
    <3>7. g = [i \in a .. n |-> DownBody(h, n, e, g, i)]
      BY <3>6
    <3> QED BY <3>7 DEF a
  <2> QED BY <2>1, <2>2
<1>2. Nat \subseteq S
  <2> HIDE DEF S
  <2> QED BY <1>1, StrongInduction
<1>3. n \in S /\ n - n = 0
  BY <1>2
<1> QED BY <1>3

\* e may stay at i
DownStops(h, n, e, i) ==
  2 * (i + 1) =< n => ~min_heap_elem_greater(h, e, h.p[SmallerChild(h, n, i)])

\* A walk from hole towards the leaves along U: the smaller child of each hole is earlier
\* than e, and it is a hole itself or the place where the walk ends.
DownPath(h, n, hole, e, U) ==
  /\ U \subseteq hole .. (n - 1) /\ (U # {} => hole \in U)
  /\ \A j \in U : 2 * (j + 1) =< n /\ min_heap_elem_greater(h, e, h.p[SmallerChild(h, n, j)])
  /\ \A j \in U : j = hole \/ \E k \in U : SmallerChild(h, n, k) = j
  /\ \A j \in U : SmallerChild(h, n, j) \in U \/ ((\A k \in U : k =< j)
                                                  /\ DownStops(h, n, e, SmallerChild(h, n, j)))
  /\ U = {} => DownStops(h, n, e, hole)

LEMMA DownWalk ==
  ASSUME NEW h, NEW n \in Nat, NEW hole \in 0 .. n, NEW e
  PROVE  DownPath(h, n, hole, e, HolesDown(h, n, hole, e))
<1> DEFINE down == CHOOSE g : g = [i \in 0 .. n |-> DownBody(h, n, e, g, i)]
<1>1. HolesDown(h, n, hole, e) = down[hole]
  BY DEF HolesDown, DownBody
<1>2. down = [i \in 0 .. n |-> DownBody(h, n, e, down, i)]
  BY DownExists
<1> HIDE DEF down
<1>3. \A i \in 0 .. n : down[i] = DownBody(h, n, e, down, i)
  BY <1>2
<1> DEFINE S == {m \in Nat : m =< n => DownPath(h, n, n - m, e, down[n - m])}
<1>4. ASSUME NEW m \in Nat, \A k \in 0 .. (m - 1) : k \in S PROVE m \in S
  <2> SUFFICES ASSUME m =< n PROVE DownPath(h, n, n - m, e, down[n - m])
    OBVIOUS
  <2>a. PICK i \in 0 .. n : i = n - m
    OBVIOUS
  <2>0. down[i] = DownBody(h, n, e, down, i)
    BY <1>3
  <2>1. CASE down[i] = {}
    <3>1. DownStops(h, n, e, i)
      BY <2>0, <2>1, Zenon DEF DownBody, DownStops
    <3>2. DownPath(h, n, i, e, down[i])
      BY <2>1, <3>1 DEF DownPath
    <3> QED BY <2>a, <3>2
  <2>2. CASE down[i] # {}
    <3> DEFINE q == SmallerChild(h, n, i)
               V == down[q]
    <3>1. 2 * (i + 1) =< n /\ min_heap_elem_greater(h, e, h.p[q]) /\ down[i] = {i} \cup V
      BY <2>0, <2>2, Zenon DEF DownBody
    <3>2. q \in Nat /\ i < q /\ q < n /\ i \in Nat
      <4>1. i \in Nat /\ 2 * (i + 1) =< n
        BY <3>1
      <4>2. q \in Nat /\ q > i /\ q < n
        BY <4>1, ChildFacts
      <4> QED BY <4>1, <4>2
    <3> HIDE DEF q
    <3>3. DownPath(h, n, q, e, V)
      <4>1. n - q \in 0 .. (m - 1) /\ n - q =< n /\ n - (n - q) = q
        BY <2>a, <3>2
      <4> QED BY <1>4, <4>1
    <3> HIDE DEF V
    <3>4. \A j \in V : j \in Nat /\ j >= q /\ j < n
      BY <3>2, <3>3 DEF DownPath
    <3>5. {i} \cup V \subseteq i .. (n - 1)
      BY <3>2, <3>4
    <3>6. \A j \in {i} \cup V : j = i \/ \E k \in {i} \cup V : SmallerChild(h, n, k) = j
      BY <3>3 DEF DownPath, q
    <3>7. \A j \in {i} \cup V : SmallerChild(h, n, j) \in {i} \cup V \/ ((\A k \in {i} \cup V : k =< j)
            /\ DownStops(h, n, e, SmallerChild(h, n, j)))
      <4>1. CASE V = {}
        BY <3>3, <4>1 DEF DownPath, q
      <4>2. CASE V # {}
        <5>1. q \in V
          BY <3>3, <4>2 DEF DownPath
        <5>2. ASSUME NEW j \in V
              PROVE  SmallerChild(h, n, j) \in V \/ ((\A k \in {i} \cup V : k =< j)
                       /\ DownStops(h, n, e, SmallerChild(h, n, j)))
          BY <3>2, <3>3, <3>4 DEF DownPath
        <5> QED BY <5>1, <5>2 DEF q
      <4> QED BY <4>1, <4>2
    <3>8. \A j \in {i} \cup V : 2 * (j + 1) =< n /\ min_heap_elem_greater(h, e, h.p[SmallerChild(h, n, j)])
      BY <3>1, <3>3 DEF DownPath, q
    <3>9. DownPath(h, n, i, e, down[i])
      BY <3>1, <3>5, <3>6, <3>7, <3>8 DEF DownPath
    <3> QED BY <2>a, <3>9
  <2> QED BY <2>1, <2>2
<1>5. Nat \subseteq S
  <2> HIDE DEF S
  <2> QED BY <1>4, StrongInduction
<1>6. n - hole \in S /\ n - hole =< n /\ n - (n - hole) = hole
  BY <1>5
<1> QED BY <1>1, <1>6

------------------------------------------------------------------------------
(* Filling holes.                                                          *)

TvRec == [t : Nat, q : Queues \cup {None}]
Heaps == UNION {[0 .. (n - 1) -> Elements] : n \in Nat}
HRec == [p : Heaps, idx : [Elements -> Int], queue : [Queues -> Seq(User)],
         set : SUBSET Elements, timeout : [Elements -> TvRec], active : Seq(Elements),
         res : [Elements -> SUBSET {"TIMEOUT", "READ"}]]

LEMMA FieldTypes ==
  ASSUME NEW h \in HRec
  PROVE  /\ h.p \in Heaps /\ h.idx \in [Elements -> Int] /\ h.queue \in [Queues -> Seq(User)]
         /\ h.set \in SUBSET Elements /\ h.timeout \in [Elements -> TvRec]
         /\ h.active \in Seq(Elements) /\ h.res \in [Elements -> SUBSET {"TIMEOUT", "READ"}]
BY DEF HRec

LEMMA OtherHeap ==
  ASSUME NEW h \in HRec, NEW p, NEW idx
  PROVE  LET r == [h EXCEPT !.p = p, !.idx = idx] IN
         /\ r.p = p /\ r.idx = idx /\ r.queue = h.queue /\ r.set = h.set
         /\ r.timeout = h.timeout /\ r.active = h.active /\ r.res = h.res
         /\ p \in Heaps /\ idx \in [Elements -> Int] => r \in HRec
BY DEF HRec

\* What Fill does to the fields.
FillP(h, new) == [i \in DOMAIN h.p \cup DOMAIN new |-> IF i \in DOMAIN new THEN new[i] ELSE h.p[i]]
FillIdx(h, new) ==
  [x \in Elements |-> IF \E i \in DOMAIN new : new[i] = x THEN Place(new, x) ELSE h.idx[x]]

WithHeap(h, p, idx) == [h EXCEPT !.p = p, !.idx = idx]

LEMMA FillFields ==
  ASSUME NEW h \in HRec, NEW new, NEW r, r = Fill(h, new)
  PROVE  /\ r.p = FillP(h, new) /\ r.idx = FillIdx(h, new)
         /\ r = WithHeap(h, r.p, r.idx)
<1>2. PICK P, I : P = FillP(h, new) /\ I = FillIdx(h, new)
  OBVIOUS
<1>1. r = [h EXCEPT !.p = P, !.idx = I]
  BY <1>2 DEF Fill, FillP, FillIdx, HRec
<1>3. r.p = P /\ r.idx = I
  BY <1>1 DEF HRec
<1> QED BY <1>1, <1>2, <1>3 DEF WithHeap

LEMMA PlaceIs ==
  ASSUME NEW new, NEW x, \E i \in DOMAIN new : new[i] = x
  PROVE  Place(new, x) \in DOMAIN new /\ new[Place(new, x)] = x
BY DEF Place

\* e goes to dest and each place of U gets what is at the next: a permutation of the elements
\* of the first n places with e for what was at hole.
Turns(h, n, hole, e, U, dest, nxt, new) ==
  /\ DOMAIN new = U \cup {dest} /\ new[dest] = e /\ \A i \in U : new[i] = h.p[nxt[i]]
  /\ \A i \in 0 .. (n - 1) : i # hole => /\ i \in DOMAIN h.p /\ h.p[i] \in Elements
                                         /\ h.idx[h.p[i]] = i /\ h.p[i] # e
  /\ dest \notin U /\ hole \in U \cup {dest}
  /\ \A i \in U : nxt[i] \in U \cup {dest} /\ nxt[i] # hole
  /\ \A j \in U \cup {dest} : j # hole => \E i \in U : nxt[i] = j
  /\ \A i, j \in U : nxt[i] = nxt[j] => i = j

Turned(h, r, n, hole, e, U, dest, nxt) ==
  /\ DOMAIN r.p = DOMAIN h.p \cup U \cup {dest} /\ r.p = [i \in DOMAIN r.p |-> r.p[i]]
  /\ r.idx \in [Elements -> Int]
  /\ \A i \in U : r.p[i] = h.p[nxt[i]]
  /\ r.p[dest] = e
  /\ \A i \in 0 .. (n - 1) : i \notin U /\ i # dest => r.p[i] = h.p[i]
  /\ \A i \in 0 .. (n - 1) : r.p[i] \in Elements /\ r.idx[r.p[i]] = i
  /\ \A x : (\E i \in 0 .. (n - 1) : r.p[i] = x) <=>
            (x = e \/ \E i \in 0 .. (n - 1) : i # hole /\ h.p[i] = x)

LEMMA Rotation ==
  ASSUME NEW h \in HRec, NEW n \in Nat, NEW hole \in 0 .. (n - 1), NEW e \in Elements,
         NEW U \in SUBSET (0 .. (n - 1)), NEW dest \in 0 .. (n - 1), NEW nxt, NEW new,
         Turns(h, n, hole, e, U, dest, nxt, new), NEW r, r = Fill(h, new)
  PROVE  Turned(h, r, n, hole, e, U, dest, nxt)
<1> USE DEF Turns
<1> DEFINE D == 0 .. (n - 1)
           M == U \cup {dest}
<1>1. DOMAIN new = M /\ new[dest] = e /\ (\A i \in U : new[i] = h.p[nxt[i]]) /\ M \subseteq D
  OBVIOUS
<1>2. /\ r.p = [i \in DOMAIN h.p \cup M |-> IF i \in M THEN new[i] ELSE h.p[i]]
      /\ r.idx = [x \in Elements |-> IF \E i \in M : new[i] = x THEN Place(new, x) ELSE h.idx[x]]
  <2>1. r.p = FillP(h, new) /\ r.idx = FillIdx(h, new)
    BY FillFields
  <2>2. DOMAIN new = M
    BY <1>1
  <2> HIDE DEF M
  <2>3. FillP(h, new) = [i \in DOMAIN h.p \cup M |-> IF i \in M THEN new[i] ELSE h.p[i]]
    BY <2>2 DEF FillP
  <2>4. FillIdx(h, new) = [x \in Elements |-> IF \E i \in M : new[i] = x THEN Place(new, x) ELSE h.idx[x]]
    BY <2>2 DEF FillIdx
  <2> QED BY <2>1, <2>3, <2>4
<1> HIDE DEF M
<1>3. \A i \in U : new[i] \in Elements /\ new[i] # e /\ h.idx[new[i]] = nxt[i]
  BY <1>1, ZenonT(40)
<1>4. \A i, j \in M : new[i] = new[j] => i = j
  BY <1>1, <1>3 DEF M
<1>5. \A i \in D : i \notin M => r.p[i] = h.p[i] /\ i # hole
  BY <1>2 DEF M
<1>6. \A i \in M : r.p[i] = new[i]
  BY <1>2
<1>7. \A i \in D : r.p[i] \in Elements
  BY <1>1, <1>3, <1>5, <1>6 DEF M
<1>8. r.idx \in [Elements -> Int]
  <2>1. \A x \in Elements : (\E i \in M : new[i] = x) => Place(new, x) \in Int
    <3> SUFFICES ASSUME NEW x \in Elements, \E i \in M : new[i] = x PROVE Place(new, x) \in Int
      OBVIOUS
    <3>1. Place(new, x) \in M
      BY <1>1, PlaceIs
    <3>2. Place(new, x) \in 0 .. (n - 1)
      BY <1>1, <3>1
    <3> QED BY <3>2
  <2>2. h.idx \in [Elements -> Int]
    BY FieldTypes
  <2> QED BY <1>2, <2>1, <2>2
<1>9. ASSUME NEW i \in D PROVE r.idx[r.p[i]] = i
  <2>1. CASE i \in M
    <3>1. r.p[i] = new[i] /\ new[i] \in Elements
      BY <1>6, <1>7, <2>1
    <3>2. r.idx[new[i]] = Place(new, new[i])
      BY <1>2, <2>1, <3>1
    <3>3. Place(new, new[i]) \in M /\ new[Place(new, new[i])] = new[i]
      BY <1>1, <2>1, PlaceIs
    <3> QED BY <1>4, <2>1, <3>1, <3>2, <3>3
  <2>2. CASE i \notin M
    <3>1. r.p[i] = h.p[i] /\ i # hole
      BY <1>5, <2>2
    <3>2. \A j \in M : new[j] # h.p[i]
      <4> SUFFICES ASSUME NEW j \in M, new[j] = h.p[i] PROVE FALSE
        OBVIOUS
      <4>1. CASE j = dest
        BY <1>1, <3>1, <4>1
      <4>2. CASE j \in U
        <5>1. h.idx[h.p[i]] = nxt[j] /\ h.idx[h.p[i]] = i
          BY <1>3, <3>1, <4>2
        <5>2. nxt[j] \in M
          BY <4>2 DEF M
        <5> QED BY <2>2, <5>1, <5>2
      <4> QED BY <4>1, <4>2 DEF M
    <3> QED BY <1>2, <3>1, <3>2
  <2> QED BY <2>1, <2>2
<1>10. ASSUME NEW x PROVE (\E i \in D : r.p[i] = x) <=> (x = e \/ \E i \in D : i # hole /\ h.p[i] = x)
  <2>1. ASSUME NEW i \in D, r.p[i] = x PROVE x = e \/ \E j \in D : j # hole /\ h.p[j] = x
    <3>1. CASE i \in U
      <4>1. nxt[i] \in D /\ nxt[i] # hole /\ r.p[i] = h.p[nxt[i]]
        BY <1>1, <1>6, <3>1 DEF M
      <4> QED BY <2>1, <4>1
    <3>2. CASE i = dest
      BY <1>1, <1>6, <2>1, <3>2 DEF M
    <3>3. CASE i \notin M
      BY <1>5, <2>1, <3>3
    <3> QED BY <3>1, <3>2, <3>3 DEF M
  <2>2. ASSUME NEW j \in D, j # hole, h.p[j] = x PROVE \E i \in D : r.p[i] = x
    <3>1. CASE j \in M
      <4>1. PICK i \in U : nxt[i] = j
        BY <2>2, <3>1 DEF M
      <4> QED BY <1>1, <1>6, <2>2, <4>1 DEF M
    <3>2. CASE j \notin M
      BY <1>5, <2>2, <3>2
    <3> QED BY <3>1, <3>2
  <2>3. r.p[dest] = e
    BY <1>1, <1>6 DEF M
  <2> QED BY <2>1, <2>2, <2>3
<1>11. DOMAIN r.p = DOMAIN h.p \cup U \cup {dest} /\ r.p = [i \in DOMAIN r.p |-> r.p[i]]
  BY <1>2 DEF M
<1>12. r.p[dest] = e /\ \A i \in U : r.p[i] = h.p[nxt[i]]
  BY <1>1, <1>6 DEF M
<1>13. \A i \in D : i \notin U /\ i # dest => r.p[i] = h.p[i]
  BY <1>5 DEF M
<1> QED BY <1>7, <1>8, <1>9, <1>10, <1>11, <1>12, <1>13 DEF Turned

------------------------------------------------------------------------------
(* The heap: pushing and erasing.                                          *)

NotLater(h, x, y) == h.timeout[x].t =< h.timeout[y].t

LEMMA Times ==
  ASSUME NEW h \in HRec
  PROVE  /\ \A x \in Elements : h.timeout[x].t \in Nat
         /\ \A x, y \in Elements : ~min_heap_elem_greater(h, x, y) <=> NotLater(h, x, y)
         /\ \A x, y \in Elements : min_heap_elem_greater(h, x, y) => NotLater(h, y, x)
         /\ \A x, y, z \in Elements : NotLater(h, x, y) /\ NotLater(h, y, z) => NotLater(h, x, z)
<1>1. \A x \in Elements : h.timeout[x].t \in Nat
  BY FieldTypes DEF TvRec
<1> QED BY <1>1 DEF NotLater, min_heap_elem_greater

\* The n elements of h are in order but for what is at hole, which is to be replaced.
HoleIn(h, n, hole, e) ==
  /\ \A i \in 0 .. (n - 1) : i # hole => /\ i \in DOMAIN h.p /\ h.p[i] \in Elements
                                         /\ h.idx[h.p[i]] = i /\ h.p[i] # e
  /\ \A i \in 1 .. (n - 1) : i # hole /\ Parent(i) # hole => NotLater(h, h.p[Parent(i)], h.p[i])
  /\ \A i \in 1 .. (n - 1) : Parent(i) = hole /\ hole > 0 => NotLater(h, h.p[Parent(hole)], h.p[i])

\* r is h with the hole filled: the first n places are a heap of the elements of h and e.
Filled(h, r, n, hole, e) ==
  /\ DOMAIN r.p = DOMAIN h.p \cup 0 .. (n - 1) /\ r.p = [i \in DOMAIN r.p |-> r.p[i]]
  /\ r.idx \in [Elements -> Int]
  /\ \A i \in 0 .. (n - 1) : r.p[i] \in Elements /\ r.idx[r.p[i]] = i
  /\ \A i \in 1 .. (n - 1) : NotLater(h, r.p[Parent(i)], r.p[i])
  /\ \A x : (\E i \in 0 .. (n - 1) : r.p[i] = x) <=>
            (x = e \/ \E i \in 0 .. (n - 1) : i # hole /\ h.p[i] = x)
  /\ r = WithHeap(h, r.p, r.idx)

LEMMA Raise ==
  ASSUME NEW h \in HRec, NEW n \in Nat, NEW hole \in 0 .. (n - 1), NEW e \in Elements, NEW U,
         HoleIn(h, n, hole, e), UpPath(h, hole, e, U),
         U = {} => \A i \in 1 .. (n - 1) : Parent(i) # hole
  PROVE  Filled(h, RaiseInto(h, U, hole, e), n, hole, e)
<1> DEFINE D == 0 .. (n - 1)
<1>0. \A i \in D : i \in Nat /\ i < n
  OBVIOUS
<1>1. PICK dest : dest = UpDest(hole, U)
  OBVIOUS
<1>2. U \subseteq 1 .. hole /\ U \subseteq Nat \ {0} /\ U \in SUBSET D
  BY DEF UpPath
<1>3. /\ dest \in D /\ dest \notin U /\ hole \in U \cup {dest}
      /\ U # {} => /\ dest < hole
                   /\ \E m \in U : Parent(m) = dest /\ \A k \in U : m =< k
  <2>1. CASE U = {}
    BY <1>1, <2>1 DEF UpDest
  <2>2. CASE U # {}
    <3>1. PICK m \in U : m = Min(U) /\ \A y \in U : m =< y
      BY <1>2, <2>2, MinOfNat
    <3>2. dest = Parent(m) /\ hole \in U
      BY <1>1, <2>2, <3>1 DEF UpDest, UpPath
    <3>3. m \in Nat \ {0} /\ m =< hole /\ Parent(m) \in Nat /\ Parent(m) < m
      BY <1>2, <3>1, <3>2, ParentFacts
    <3> QED BY <3>1, <3>2, <3>3
  <2> QED BY <2>1, <2>2
<1>4. PICK nxt : nxt = [i \in U |-> Parent(i)]
  OBVIOUS
<1>5. PICK new : new = [i \in U \cup {dest} |-> IF i = dest THEN e ELSE h.p[Parent(i)]]
  OBVIOUS
<1>6. PICK r : r = Fill(h, new)
  OBVIOUS
<1>7. r = RaiseInto(h, U, hole, e)
  BY <1>1, <1>5, <1>6 DEF RaiseInto, UpDest
<1>8. DOMAIN new = U \cup {dest} /\ new[dest] = e /\ \A i \in U : new[i] = h.p[nxt[i]]
  BY <1>3, <1>4, <1>5
<1>9. \A i \in U : nxt[i] = Parent(i) /\ nxt[i] \in U \cup {dest} /\ nxt[i] # hole
  <2> SUFFICES ASSUME NEW i \in U PROVE Parent(i) \in U \cup {dest} /\ Parent(i) # hole
    BY <1>4
  <2>1. Parent(i) # hole
    BY <1>2, ParentFacts
  <2>2. CASE Parent(i) \in U
    BY <2>1, <2>2
  <2>3. CASE \A k \in U : i =< k
    <3>1. PICK m \in U : Parent(m) = dest /\ \A k \in U : m =< k
      BY <1>3
    <3>2. i = m
      BY <1>2, <2>3, <3>1
    <3> QED BY <2>1, <3>1, <3>2
  <2> QED BY <2>2, <2>3 DEF UpPath
<1>10. \A j \in U \cup {dest} : j # hole => \E i \in U : nxt[i] = j
  BY <1>3, <1>9 DEF UpPath
<1>11. \A i, j \in U : nxt[i] = nxt[j] => i = j
  BY <1>9 DEF UpPath
<1>12. \A i \in D : i # hole => /\ i \in DOMAIN h.p /\ h.p[i] \in Elements
                                /\ h.idx[h.p[i]] = i /\ h.p[i] # e
  BY DEF HoleIn
<1>a. Turns(h, n, hole, e, U, dest, nxt, new)
  BY <1>3, <1>8, <1>9, <1>10, <1>11, <1>12 DEF Turns
<1>b. Turned(h, r, n, hole, e, U, dest, nxt)
  BY <1>2, <1>3, <1>6, <1>a, Rotation
<1>13. /\ DOMAIN r.p = DOMAIN h.p \cup U \cup {dest}
       /\ r.idx \in [Elements -> Int]
       /\ \A i \in U : r.p[i] = h.p[nxt[i]]
       /\ r.p[dest] = e
       /\ \A i \in D : i \notin U /\ i # dest => r.p[i] = h.p[i]
       /\ \A i \in D : r.p[i] \in Elements /\ r.idx[r.p[i]] = i
       /\ \A x : (\E i \in D : r.p[i] = x) <=> (x = e \/ \E i \in D : i # hole /\ h.p[i] = x)
  BY <1>b DEF Turned
<1>14. DOMAIN r.p = DOMAIN h.p \cup D
  BY <1>2, <1>3, <1>12, <1>13, ZenonT(40)
<1>15. r = WithHeap(h, r.p, r.idx) /\ r.p = [i \in DOMAIN r.p |-> r.p[i]]
  BY <1>6, <1>b, FillFields DEF Turned
<1>16. ASSUME NEW j \in 1 .. (n - 1) PROVE NotLater(h, r.p[Parent(j)], r.p[j])
  <2> DEFINE q == Parent(j)
  <2>1. q \in D /\ q < j /\ j \in D /\ j # 0
    BY ParentFacts
  <2>2. r.p[q] \in Elements /\ r.p[j] \in Elements
    BY <1>13, <2>1
  <2>3. \A i \in 1 .. (n - 1) : i # hole /\ Parent(i) # hole => NotLater(h, h.p[Parent(i)], h.p[i])
    BY DEF HoleIn
  <2>4. \A i \in U : Parent(i) \in D /\ Parent(i) < hole /\ h.p[Parent(i)] \in Elements
                     /\ NotLater(h, e, h.p[Parent(i)])
    <3> SUFFICES ASSUME NEW i \in U
                 PROVE  Parent(i) \in D /\ Parent(i) < hole /\ h.p[Parent(i)] \in Elements
                        /\ NotLater(h, e, h.p[Parent(i)])
      OBVIOUS
    <3>1. Parent(i) \in D /\ Parent(i) < hole
      BY <1>0, <1>2, ParentFacts
    <3>2. h.p[Parent(i)] \in Elements
      BY <1>12, <3>1
    <3>3. min_heap_elem_greater(h, h.p[Parent(i)], e)
      BY DEF UpPath
    <3> QED BY <3>1, <3>2, <3>3, Times
  <2>5. CASE j \in U
    <3>1. r.p[j] = h.p[q]
      BY <1>9, <1>13, <2>5
    <3>2. CASE q = dest
      BY <1>13, <2>4, <2>5, <3>1, <3>2
    <3>3. CASE q \in U
      <4>1. r.p[q] = h.p[Parent(q)] /\ q \in 1 .. (n - 1) /\ q # hole /\ Parent(q) # hole
        BY <1>2, <1>9, <1>13, <2>1, <2>4, <2>5, <3>3
      <4> QED BY <2>3, <3>1, <4>1
    <3> QED BY <1>9, <2>5, <3>2, <3>3
  <2>6. CASE j = dest
    <3>1. q \notin U /\ q # dest /\ r.p[q] = h.p[q] /\ r.p[j] = e
      <4>1. U # {} => q \notin U
        BY <1>2, <1>3, <2>1, <2>6, ParentFacts
      <4> QED BY <1>13, <2>1, <2>6, <4>1
    <3>2. ~min_heap_elem_greater(h, h.p[q], e)
      <4>1. CASE U = {}
        BY <1>3, <2>1, <2>6, <4>1 DEF UpPath
      <4>2. CASE U # {}
        <5>1. PICK m \in U : Parent(m) = dest
          BY <1>3, <4>2
        <5> QED BY <1>3, <2>1, <2>6, <5>1 DEF UpPath
      <4> QED BY <4>1, <4>2
    <3> QED BY <2>2, <3>1, <3>2, Times
  <2>7. CASE j \notin U /\ j # dest
    <3>1. r.p[j] = h.p[j] /\ j # hole
      BY <1>3, <1>13, <2>1, <2>7
    <3>2. CASE q \in U /\ q # hole
      <4>1. r.p[q] = h.p[Parent(q)] /\ q \in 1 .. (n - 1) /\ Parent(q) # hole
        BY <1>2, <1>9, <1>13, <2>1, <2>4, <3>2
      <4>2. NotLater(h, h.p[Parent(q)], h.p[q]) /\ NotLater(h, h.p[q], h.p[j])
        BY <2>3, <3>1, <3>2, <4>1
      <4>3. h.p[q] \in Elements
        BY <1>12, <2>1, <3>2
      <4> QED BY <2>2, <3>1, <4>1, <4>2, <4>3, Times
    <3>3. CASE q \in U /\ q = hole
      <4>1. r.p[q] = h.p[Parent(hole)] /\ hole > 0
        BY <1>2, <1>9, <1>13, <3>3
      <4> QED BY <3>1, <3>3, <4>1 DEF HoleIn
    <3>4. CASE q = dest
      <4>1. U # {} /\ dest # hole
        BY <1>3, <3>4
      <4>2. PICK m \in U : Parent(m) = dest
        BY <1>3, <4>1
      <4>3. NotLater(h, e, h.p[dest]) /\ h.p[dest] \in Elements /\ NotLater(h, h.p[q], h.p[j])
        BY <2>3, <2>4, <3>1, <3>4, <4>1, <4>2
      <4> QED BY <1>13, <2>2, <3>1, <3>4, <4>3, Times
    <3>5. CASE q \notin U /\ q # dest
      <4>1. r.p[q] = h.p[q] /\ q # hole
        BY <1>3, <1>13, <2>1, <3>5
      <4> QED BY <2>3, <3>1, <4>1
    <3> QED BY <3>2, <3>3, <3>4, <3>5
  <2> QED BY <2>5, <2>6, <2>7
<1> QED BY <1>7, <1>13, <1>14, <1>15, <1>16 DEF Filled

LEMMA Lower ==
  ASSUME NEW h \in HRec, NEW n \in Nat, NEW hole \in 0 .. (n - 1), NEW e \in Elements,
         HoleIn(h, n, hole, e), hole > 0 => NotLater(h, h.p[Parent(hole)], e)
  PROVE  Filled(h, min_heap_shift_down_(h, n, hole, e), n, hole, e)
<1> DEFINE D == 0 .. (n - 1)
<1>0. \A i \in D : i \in Nat /\ i < n
  OBVIOUS
<1>1. PICK U : U = HolesDown(h, n, hole, e)
  OBVIOUS
<1>p. DownPath(h, n, hole, e, U)
  <2>1. hole \in 0 .. n
    OBVIOUS
  <2> QED BY <1>1, <2>1, DownWalk
<1>2. U \subseteq hole .. (n - 1) /\ U \in SUBSET D
  BY <1>p DEF DownPath
<1>s. PICK nxt : nxt = [i \in D |-> SmallerChild(h, n, i)]
  OBVIOUS
<1>c. \A i \in D : 2 * (i + 1) =< n =>
        /\ nxt[i] \in D /\ nxt[i] > i /\ Parent(nxt[i]) = i /\ nxt[i] # 0
        /\ nxt[i] \in {2 * i + 1, 2 * i + 2}
        /\ nxt[i] = 2 * i + 2 => ~min_heap_elem_greater(h, h.p[2 * i + 2], h.p[2 * i + 1])
        /\ nxt[i] = 2 * i + 1 => 2 * i + 2 = n \/ min_heap_elem_greater(h, h.p[2 * i + 2], h.p[2 * i + 1])
  <2> SUFFICES ASSUME NEW i \in D, 2 * (i + 1) =< n
      PROVE  /\ nxt[i] \in D /\ nxt[i] > i /\ Parent(nxt[i]) = i /\ nxt[i] # 0
             /\ nxt[i] \in {2 * i + 1, 2 * i + 2}
             /\ nxt[i] = 2 * i + 2 => ~min_heap_elem_greater(h, h.p[2 * i + 2], h.p[2 * i + 1])
             /\ nxt[i] = 2 * i + 1 => 2 * i + 2 = n \/ min_heap_elem_greater(h, h.p[2 * i + 2], h.p[2 * i + 1])
    OBVIOUS
  <2>1. i \in Nat /\ nxt[i] = SmallerChild(h, n, i)
    BY <1>s
  <2>2. LET c == SmallerChild(h, n, i) IN
         /\ c \in Nat /\ c > i /\ c < n /\ Parent(c) = i /\ c \in {2 * i + 1, 2 * i + 2}
         /\ c = 2 * i + 2 => ~min_heap_elem_greater(h, h.p[2 * i + 2], h.p[2 * i + 1])
         /\ c = 2 * i + 1 => 2 * i + 2 = n \/ min_heap_elem_greater(h, h.p[2 * i + 2], h.p[2 * i + 1])
    BY <2>1, ChildFacts
  <2> QED BY <2>1, <2>2
<1>d. /\ \A j \in U : 2 * (j + 1) =< n /\ min_heap_elem_greater(h, e, h.p[nxt[j]])
      /\ \A j \in U : j = hole \/ \E k \in U : nxt[k] = j
      /\ \A j \in U : nxt[j] \in U \/ ((\A k \in U : k =< j) /\ DownStops(h, n, e, nxt[j]))
      /\ U # {} => hole \in U
      /\ U = {} => DownStops(h, n, e, hole)
  <2>1. \A j \in U : nxt[j] = SmallerChild(h, n, j)
    BY <1>2, <1>s
  <2> QED BY <1>p, <2>1 DEF DownPath
<1>3. PICK dest : dest = IF U = {} THEN hole ELSE SmallerChild(h, n, Max(U))
  OBVIOUS
<1>4. /\ dest \in D /\ dest \notin U /\ hole \in U \cup {dest} /\ DownStops(h, n, e, dest)
      /\ U # {} => /\ dest > hole
                   /\ \E m \in U : nxt[m] = dest /\ \A k \in U : k =< m
  <2>1. CASE U = {}
    BY <1>3, <1>d, <2>1
  <2>2. CASE U # {}
    <3>1. PICK m \in U : m = Max(U) /\ \A y \in U : m >= y
      <4>1. U \in SUBSET (0 .. n)
        BY <1>2
      <4>2. Max(U) \in U /\ \A y \in U : Max(U) >= y
        BY <2>2, <4>1, MaxOfInterval
      <4> QED BY <4>2
    <3>2. dest = nxt[m] /\ m \in D /\ hole \in U
      BY <1>2, <1>3, <1>d, <1>s, <2>2, <3>1
    <3>3. 2 * (m + 1) =< n /\ dest \in D /\ dest > m
      BY <1>c, <1>d, <3>1, <3>2
    <3>4. dest \notin U /\ \A k \in U : k =< m
      BY <1>2, <3>1, <3>2, <3>3
    <3>5. DownStops(h, n, e, dest)
      BY <1>d, <3>2, <3>4
    <3> QED BY <1>2, <3>2, <3>3, <3>4, <3>5
  <2> QED BY <2>1, <2>2
<1>5. PICK new : new = [i \in U \cup {dest} |-> IF i = dest THEN e ELSE h.p[SmallerChild(h, n, i)]]
  OBVIOUS
<1>6. PICK r : r = Fill(h, new)
  OBVIOUS
<1>7. r = min_heap_shift_down_(h, n, hole, e)
  BY <1>1, <1>3, <1>5, <1>6 DEF min_heap_shift_down_
<1>8. DOMAIN new = U \cup {dest} /\ new[dest] = e /\ \A i \in U : new[i] = h.p[nxt[i]]
  BY <1>2, <1>4, <1>5, <1>s
<1>9. \A i \in U : nxt[i] \in U \cup {dest} /\ nxt[i] # hole /\ nxt[i] \in D /\ Parent(nxt[i]) = i /\ nxt[i] # 0
  <2> SUFFICES ASSUME NEW i \in U
               PROVE  nxt[i] \in U \cup {dest} /\ nxt[i] # hole /\ nxt[i] \in D /\ Parent(nxt[i]) = i /\ nxt[i] # 0
    OBVIOUS
  <2>1. nxt[i] \in D /\ nxt[i] > i /\ Parent(nxt[i]) = i /\ nxt[i] # 0 /\ i >= hole /\ i \in D
    BY <1>2, <1>c, <1>d
  <2>2. nxt[i] # hole
    BY <2>1
  <2>3. CASE \A k \in U : k =< i
    <3>1. PICK m \in U : nxt[m] = dest /\ \A k \in U : k =< m
      BY <1>4
    <3>2. i = m
      BY <1>2, <2>3, <3>1
    <3> QED BY <2>1, <2>2, <3>1, <3>2
  <2> QED BY <1>d, <2>1, <2>2, <2>3
<1>10. \A j \in U \cup {dest} : j # hole => \E i \in U : nxt[i] = j
  BY <1>4, <1>d
<1>11. \A i, j \in U : nxt[i] = nxt[j] => i = j
  BY <1>9
<1>12. \A i \in D : i # hole => /\ i \in DOMAIN h.p /\ h.p[i] \in Elements
                                /\ h.idx[h.p[i]] = i /\ h.p[i] # e
  BY DEF HoleIn
<1>a. Turns(h, n, hole, e, U, dest, nxt, new)
  BY <1>4, <1>8, <1>9, <1>10, <1>11, <1>12 DEF Turns
<1>b. Turned(h, r, n, hole, e, U, dest, nxt)
  BY <1>2, <1>4, <1>6, <1>a, Rotation
<1>13. /\ DOMAIN r.p = DOMAIN h.p \cup U \cup {dest}
       /\ r.idx \in [Elements -> Int]
       /\ \A i \in U : r.p[i] = h.p[nxt[i]]
       /\ r.p[dest] = e
       /\ \A i \in D : i \notin U /\ i # dest => r.p[i] = h.p[i]
       /\ \A i \in D : r.p[i] \in Elements /\ r.idx[r.p[i]] = i
       /\ \A x : (\E i \in D : r.p[i] = x) <=> (x = e \/ \E i \in D : i # hole /\ h.p[i] = x)
  BY <1>b DEF Turned
<1>14. DOMAIN r.p = DOMAIN h.p \cup D
  BY <1>2, <1>4, <1>12, <1>13
<1>15. r = WithHeap(h, r.p, r.idx) /\ r.p = [i \in DOMAIN r.p |-> r.p[i]]
  BY <1>6, <1>b, FillFields DEF Turned
<1>16. ASSUME NEW j \in 1 .. (n - 1) PROVE NotLater(h, r.p[Parent(j)], r.p[j])
  <2>0. PICK q \in D : q = Parent(j) /\ q < j /\ (j = 2 * q + 1 \/ j = 2 * q + 2)
    BY ParentFacts
  <2>1. j \in D /\ j # 0
    OBVIOUS
  <2>2. r.p[q] \in Elements /\ r.p[j] \in Elements
    BY <1>13, <2>0, <2>1
  <2>3. \A i \in 1 .. (n - 1) : i # hole /\ Parent(i) # hole => NotLater(h, h.p[Parent(i)], h.p[i])
    BY DEF HoleIn
  <2>4. \A i \in U : h.p[nxt[i]] \in Elements /\ NotLater(h, h.p[nxt[i]], e)
    BY <1>9, <1>12, <1>d, Times
  <2>5. \A i \in U : Parent(j) = i /\ nxt[i] # j => NotLater(h, h.p[nxt[i]], h.p[j])
    <3> SUFFICES ASSUME q \in U, nxt[q] # j PROVE NotLater(h, h.p[nxt[q]], h.p[j])
      BY <2>0
    <3>1. h.p[nxt[q]] \in Elements /\ h.p[j] \in Elements
      <4>1. j # hole
        BY <1>2, <2>0
      <4> QED BY <1>12, <2>1, <2>4, <4>1
    <3>2. CASE nxt[q] = 2 * q + 2
      <4>1. j = 2 * q + 1 /\ ~min_heap_elem_greater(h, h.p[nxt[q]], h.p[j])
        BY <1>c, <1>d, <2>0, <3>2
      <4> QED BY <3>1, <4>1, Times
    <3>3. CASE nxt[q] = 2 * q + 1
      <4>1. j = 2 * q + 2 /\ j # n
        BY <2>0, <3>3
      <4>2. min_heap_elem_greater(h, h.p[j], h.p[nxt[q]])
        BY <1>c, <1>d, <3>3, <4>1
      <4> QED BY <3>1, <4>2, Times
    <3> QED BY <1>c, <1>d, <3>2, <3>3
  <2>6. CASE j \in U
    <3>1. r.p[j] = h.p[nxt[j]]
      BY <1>13, <2>6
    <3>2. CASE j = hole
      <4>1. q \notin U /\ q # dest /\ r.p[q] = h.p[q]
        BY <1>2, <1>4, <1>13, <2>0, <2>6, <3>2
      <4>2. nxt[j] \in 1 .. (n - 1) /\ Parent(nxt[j]) = hole /\ hole > 0
        BY <1>0, <1>9, <2>6, <3>2
      <4> QED BY <2>0, <3>1, <3>2, <4>1, <4>2 DEF HoleIn
    <3>3. CASE j # hole
      <4>1. q \in U /\ nxt[q] = j
        BY <1>9, <1>d, <2>0, <2>6, <3>3
      <4>2. r.p[q] = h.p[j]
        BY <1>13, <4>1
      <4>3. nxt[j] \in 1 .. (n - 1) /\ Parent(nxt[j]) = j /\ nxt[j] # hole
        BY <1>0, <1>9, <2>6
      <4> QED BY <2>0, <2>3, <3>1, <3>3, <4>2, <4>3
    <3> QED BY <3>2, <3>3
  <2>7. CASE j = dest
    <3>1. CASE U = {}
      <4>1. j = hole /\ q \notin U /\ q # dest
        BY <1>4, <2>0, <2>7, <3>1
      <4> QED BY <1>13, <2>0, <2>7, <4>1
    <3>2. CASE U # {}
      <4>1. PICK m \in U : nxt[m] = dest
        BY <1>4, <3>2
      <4>2. m = q
        BY <1>9, <2>0, <2>7, <4>1
      <4> QED BY <1>13, <2>0, <2>4, <2>7, <4>1, <4>2
    <3> QED BY <3>1, <3>2
  <2>8. CASE j \notin U /\ j # dest
    <3>1. r.p[j] = h.p[j] /\ j # hole /\ h.p[j] \in Elements
      BY <1>4, <1>12, <1>13, <2>1, <2>8
    <3>2. CASE q \in U
      <4>1. nxt[q] # j
        BY <1>9, <2>8, <3>2
      <4> QED BY <1>13, <2>0, <2>5, <3>1, <3>2, <4>1
    <3>3. CASE q = dest
      <4>1. 2 * (q + 1) =< n
        BY <2>0
      <4>2. /\ nxt[q] \in D /\ nxt[q] \in {2 * q + 1, 2 * q + 2} /\ nxt[q] = SmallerChild(h, n, q)
            /\ nxt[q] # hole
        <5>1. hole =< q
          BY <1>2, <1>4, <3>3
        <5> QED BY <1>c, <1>s, <4>1, <5>1
      <4>3. h.p[nxt[q]] \in Elements /\ ~min_heap_elem_greater(h, e, h.p[nxt[q]])
        BY <1>4, <1>12, <3>3, <4>1, <4>2 DEF DownStops
      <4>4. NotLater(h, e, h.p[nxt[q]])
        BY <4>3, Times
      <4>5. NotLater(h, h.p[nxt[q]], h.p[j])
        <5>1. CASE nxt[q] = j
          BY <3>1, <5>1, Times DEF NotLater
        <5>2. CASE nxt[q] = 2 * q + 2 /\ j = 2 * q + 1
          BY <1>c, <3>1, <4>1, <4>3, <5>2, Times
        <5>3. CASE nxt[q] = 2 * q + 1 /\ j = 2 * q + 2
          <6>1. min_heap_elem_greater(h, h.p[j], h.p[nxt[q]])
            BY <1>c, <4>1, <5>3
          <6> QED BY <3>1, <4>3, <6>1, Times
        <5> QED BY <2>0, <4>2, <5>1, <5>2, <5>3
      <4> QED BY <1>13, <2>0, <3>1, <3>3, <4>3, <4>4, <4>5, Times
    <3>4. CASE q \notin U /\ q # dest
      <4>1. r.p[q] = h.p[q] /\ q # hole
        BY <1>4, <1>13, <3>4
      <4> QED BY <2>0, <2>3, <3>1, <4>1
    <3> QED BY <3>2, <3>3, <3>4
  <2> QED BY <2>6, <2>7, <2>8
<1> QED BY <1>7, <1>13, <1>14, <1>15, <1>16 DEF Filled

\* HeapOrdered, of any heap.
Ordered(h) ==
  \A i \in DOMAIN h.p : /\ i > 0 => ~min_heap_elem_greater(h, h.p[Parent(i)], h.p[i])
                        /\ h.idx[h.p[i]] = i
Holds(h, x) == \E i \in DOMAIN h.p : h.p[i] = x
SameButHeap(h, r) ==
  /\ r.queue = h.queue /\ r.set = h.set /\ r.timeout = h.timeout /\ r.active = h.active
  /\ r.res = h.res

LEMMA HeapShape ==
  ASSUME NEW h \in HRec
  PROVE  \E n \in Nat : /\ h.p \in [0 .. (n - 1) -> Elements] /\ min_heap_size_(h) = n
                        /\ DOMAIN h.p = 0 .. (n - 1)
<1>1. PICK n \in Nat : h.p \in [0 .. (n - 1) -> Elements]
  BY FieldTypes DEF Heaps
<1>2. Cardinality(0 .. (n - 1)) = n
  <2>1. Cardinality(0 .. (n - 1)) = IF 0 > n - 1 THEN 0 ELSE (n - 1) - 0 + 1
    BY FS_Interval
  <2> QED BY <2>1
<1> QED BY <1>1, <1>2 DEF min_heap_size_

\* The heap of r has the n elements that r.p says.
LEMMA Rebuilt ==
  ASSUME NEW h \in HRec, NEW n \in Nat, NEW p \in [0 .. (n - 1) -> Elements],
         NEW idx \in [Elements -> Int], NEW r, r = WithHeap(h, p, idx),
         \A i \in 0 .. (n - 1) : idx[p[i]] = i,
         \A i \in 1 .. (n - 1) : NotLater(h, p[Parent(i)], p[i])
  PROVE  r \in HRec /\ Ordered(r) /\ SameButHeap(h, r) /\ r.p = p /\ r.idx = idx
<1>1. /\ r.p = p /\ r.idx = idx /\ r.queue = h.queue /\ r.set = h.set
      /\ r.timeout = h.timeout /\ r.active = h.active /\ r.res = h.res
  BY DEF HRec, WithHeap
<1>2. p \in Heaps
  BY DEF Heaps
<1>3. r \in HRec
  BY <1>2, OtherHeap DEF WithHeap
<1>4. DOMAIN p = 0 .. (n - 1)
  OBVIOUS
<1>5. Ordered(r)
  <2> SUFFICES ASSUME NEW i \in 0 .. (n - 1)
               PROVE  (i > 0 => ~min_heap_elem_greater(h, p[Parent(i)], p[i])) /\ idx[p[i]] = i
    BY <1>1, <1>4 DEF Ordered, min_heap_elem_greater
  <2>1. ASSUME i > 0 PROVE ~min_heap_elem_greater(h, p[Parent(i)], p[i])
    <3>1. i \in 1 .. (n - 1) /\ Parent(i) \in 0 .. (n - 1)
      BY <2>1, ParentFacts
    <3>2. NotLater(h, p[Parent(i)], p[i]) /\ p[Parent(i)] \in Elements /\ p[i] \in Elements
      BY <3>1
    <3> QED BY <3>2, Times
  <2> QED BY <2>1
<1> QED BY <1>1, <1>3, <1>5 DEF SameButHeap

LEMMA Push ==
  ASSUME NEW h \in HRec, NEW e \in Elements, Ordered(h), ~Holds(h, e),
         NEW r, r = min_heap_push_(h, e)
  PROVE  /\ r \in HRec /\ Ordered(r) /\ SameButHeap(h, r)
         /\ \A x : Holds(r, x) <=> Holds(h, x) \/ x = e
<1>1. PICK n \in Nat : h.p \in [0 .. (n - 1) -> Elements] /\ min_heap_size_(h) = n
                       /\ DOMAIN h.p = 0 .. (n - 1)
  BY HeapShape
<1>2. PICK U : U = HolesUp(h, n, e)
  OBVIOUS
<1>3. r = RaiseInto(h, U, n, e) /\ UpPath(h, n, e, U)
  BY <1>1, <1>2, UpWalk DEF min_heap_push_, min_heap_shift_up_
<1>4. HoleIn(h, n + 1, n, e)
  <2>1. \A i \in 0 .. n : i # n => /\ i \in DOMAIN h.p /\ h.p[i] \in Elements
                                   /\ h.idx[h.p[i]] = i /\ h.p[i] # e
    BY <1>1 DEF Ordered, Holds
  <2>2. \A i \in 1 .. n : i # n => NotLater(h, h.p[Parent(i)], h.p[i])
    <3> SUFFICES ASSUME NEW i \in 1 .. (n - 1) PROVE NotLater(h, h.p[Parent(i)], h.p[i])
      OBVIOUS
    <3>1. i \in DOMAIN h.p /\ Parent(i) \in DOMAIN h.p /\ i > 0
      BY <1>1, ParentFacts
    <3> QED BY <1>1, <3>1, Times DEF Ordered
  <2>3. \A i \in 1 .. n : Parent(i) # n
    BY ParentFacts
  <2>4. n + 1 - 1 = n
    OBVIOUS
  <2> QED BY <2>1, <2>2, <2>3, <2>4 DEF HoleIn
<1>5. Filled(h, r, n + 1, n, e)
  <2>1. n + 1 \in Nat /\ n \in 0 .. (n + 1 - 1)
    OBVIOUS
  <2>2. \A i \in 1 .. (n + 1 - 1) : Parent(i) # n
    BY ParentFacts
  <2> QED BY <1>3, <1>4, <2>1, <2>2, Raise
<1>6. PICK N \in Nat : N = n + 1
  OBVIOUS
<1>7. DOMAIN r.p = 0 .. (N - 1)
  BY <1>1, <1>5, <1>6 DEF Filled
<1>p. PICK p, idx : p = r.p /\ idx = r.idx
  OBVIOUS
<1>8. p \in [0 .. (N - 1) -> Elements] /\ idx \in [Elements -> Int] /\ r = WithHeap(h, p, idx)
  <2>1. p = [i \in 0 .. (N - 1) |-> p[i]]
    BY <1>5, <1>7, <1>p DEF Filled
  <2> QED BY <1>5, <1>6, <1>p, <2>1 DEF Filled
<1>9. /\ \A i \in 0 .. (N - 1) : idx[p[i]] = i
      /\ \A i \in 1 .. (N - 1) : NotLater(h, p[Parent(i)], p[i])
  BY <1>5, <1>6, <1>p DEF Filled
<1>10. r \in HRec /\ Ordered(r) /\ SameButHeap(h, r)
  BY <1>8, <1>9, Rebuilt
<1>11. \A x : Holds(r, x) <=> Holds(h, x) \/ x = e
  <2>1. \A x : (\E i \in 0 .. n : i # n /\ h.p[i] = x) <=> Holds(h, x)
    BY <1>1 DEF Holds
  <2>2. \A x : Holds(r, x) <=> (x = e \/ \E i \in 0 .. n : i # n /\ h.p[i] = x)
    <3>1. \A x : (\E i \in 0 .. (n + 1 - 1) : r.p[i] = x) <=>
                 (x = e \/ \E i \in 0 .. (n + 1 - 1) : i # n /\ h.p[i] = x)
      BY <1>5 DEF Filled
    <3>2. 0 .. (n + 1 - 1) = 0 .. n /\ DOMAIN r.p = 0 .. n
      BY <1>6, <1>7
    <3>3. \A x : (\E i \in 0 .. n : r.p[i] = x) <=> (x = e \/ \E i \in 0 .. n : i # n /\ h.p[i] = x)
      BY <3>1, <3>2
    <3> QED BY <3>2, <3>3, Zenon DEF Holds
  <2> QED BY <2>1, <2>2
<1> QED BY <1>10, <1>11

\* Erasing an element by its index takes out that element and no other.
LEMMA Erase ==
  ASSUME NEW h \in HRec, NEW e \in Elements, Ordered(h), Holds(h, e),
         NEW r, r = min_heap_erase_(h, e)
  PROVE  /\ r \in HRec /\ Ordered(r) /\ SameButHeap(h, r)
         /\ \A x : Holds(r, x) <=> Holds(h, x) /\ x # e
<1>1. PICK m \in Nat : h.p \in [0 .. (m - 1) -> Elements] /\ min_heap_size_(h) = m
                       /\ DOMAIN h.p = 0 .. (m - 1)
  BY HeapShape
<1>2. PICK i \in 0 .. (m - 1) : h.p[i] = e
  BY <1>1 DEF Holds
<1>3. h.idx[e] = i /\ i # -1
  BY <1>1, <1>2 DEF Ordered
<1>4. PICK n \in Nat : n = m - 1
  OBVIOUS
<1>5. PICK last \in Elements : last = h.p[n]
  BY <1>1, <1>4
<1> DEFINE Up == i > 0 /\ min_heap_elem_greater(h, h.p[Parent(i)], last)
<1>6. PICK f : f = IF Up THEN min_heap_shift_up_unconditional_(h, i, last)
                   ELSE min_heap_shift_down_(h, n, i, last)
  OBVIOUS
<1>7. r = [f EXCEPT !.p = [j \in 0 .. (n - 1) |-> f.p[j]], !.idx[e] = -1]
  BY <1>1, <1>3, <1>4, <1>5, <1>6 DEF min_heap_erase_
<1>8. \A j \in 0 .. n : h.p[j] \in Elements /\ h.idx[h.p[j]] = j
  BY <1>1, <1>4 DEF Ordered
<1>9. \A j \in 1 .. n : NotLater(h, h.p[Parent(j)], h.p[j]) /\ Parent(j) \in 0 .. n /\ Parent(j) < j
  <2> SUFFICES ASSUME NEW j \in 1 .. n
               PROVE  NotLater(h, h.p[Parent(j)], h.p[j]) /\ Parent(j) \in 0 .. n /\ Parent(j) < j
    OBVIOUS
  <2>1. j \in DOMAIN h.p /\ Parent(j) \in DOMAIN h.p /\ j > 0 /\ Parent(j) < j
    BY <1>1, <1>4, ParentFacts
  <2> QED BY <1>1, <1>4, <1>8, <2>1, Times DEF Ordered
\* what is left to show of f: the first n places are the heap, with last for e
<1>10. /\ \A j \in 0 .. (n - 1) : f.p[j] \in Elements /\ f.idx[f.p[j]] = j /\ f.p[j] # e
       /\ \A j \in 1 .. (n - 1) : NotLater(h, f.p[Parent(j)], f.p[j])
       /\ \A x : (\E j \in 0 .. (n - 1) : f.p[j] = x) <=> (\E j \in 0 .. n : j # i /\ h.p[j] = x)
       /\ f.idx \in [Elements -> Int] /\ f = WithHeap(h, f.p, f.idx)
  <2>1. CASE i = n
    <3>1. ~Up
      <4> SUFFICES ASSUME i > 0 PROVE ~min_heap_elem_greater(h, h.p[Parent(i)], last)
        OBVIOUS
      <4>1. NotLater(h, h.p[Parent(i)], last) /\ h.p[Parent(i)] \in Elements
        BY <1>5, <1>8, <1>9, <2>1
      <4> QED BY <4>1, Times
    <3>2. f = min_heap_shift_down_(h, n, n, last)
      BY <1>6, <2>1, <3>1
    <3>3. HolesDown(h, n, n, last) = {}
      <4>1. DownPath(h, n, n, last, HolesDown(h, n, n, last))
        <5>1. n \in 0 .. n
          OBVIOUS
        <5> QED BY <5>1, DownWalk
      <4> QED BY <4>1 DEF DownPath
    <3>4. PICK new : new = [j \in {n} |-> last]
      OBVIOUS
    <3>5. f = Fill(h, new)
      <4>1. new = [j \in {} \cup {n} |-> IF j = n THEN last ELSE h.p[SmallerChild(h, n, j)]]
        BY <3>4
      <4> QED BY <3>2, <3>3, <4>1 DEF min_heap_shift_down_
    <3>6. f.p = FillP(h, new) /\ f.idx = FillIdx(h, new) /\ f = WithHeap(h, f.p, f.idx)
      BY <3>5, FillFields
    <3>7. \A j \in 0 .. (n - 1) : f.p[j] = h.p[j]
      BY <1>1, <1>4, <3>4, <3>6 DEF FillP
    <3>8. \A x \in Elements : f.idx[x] = IF x = last THEN n ELSE h.idx[x]
      <4>1. \A x : (\E j \in DOMAIN new : new[j] = x) <=> x = last
        BY <3>4
      <4>2. Place(new, last) = n
        <5>1. Place(new, last) \in DOMAIN new
          BY <4>1, PlaceIs
        <5> QED BY <3>4, <5>1
      <4> QED BY <3>6, <4>1, <4>2 DEF FillIdx
    <3>9. h.idx \in [Elements -> Int] /\ last = e
      BY <1>2, <1>5, <2>1, FieldTypes
    <3>10. \A j \in 0 .. (n - 1) : h.p[j] # last
      BY <1>5, <1>8
    <3>11. f.idx \in [Elements -> Int]
      <4>1. f.idx = [x \in Elements |-> f.idx[x]]
        BY <3>6 DEF FillIdx
      <4> QED BY <3>8, <3>9, <4>1
    <3>12. \A j \in 0 .. (n - 1) : f.p[j] \in Elements /\ f.idx[f.p[j]] = j /\ f.p[j] # e
      BY <1>8, <3>7, <3>8, <3>9, <3>10
    <3>13. \A j \in 1 .. (n - 1) : NotLater(h, f.p[Parent(j)], f.p[j])
      BY <1>9, <3>7
    <3>14. \A x : (\E j \in 0 .. (n - 1) : f.p[j] = x) <=> (\E j \in 0 .. n : j # i /\ h.p[j] = x)
      BY <2>1, <3>7
    <3> QED BY <3>6, <3>11, <3>12, <3>13, <3>14
  <2>2. CASE i # n
    <3>1. i \in 0 .. (n - 1)
      BY <1>4, <2>2
    <3>2. HoleIn(h, n, i, last)
      <4>1. \A j \in 0 .. (n - 1) : j \in DOMAIN h.p /\ h.p[j] \in Elements /\ h.idx[h.p[j]] = j /\ h.p[j] # last
        BY <1>1, <1>4, <1>5, <1>8
      <4>2. \A j \in 1 .. (n - 1) : NotLater(h, h.p[Parent(j)], h.p[j])
        BY <1>9
      <4>3. ASSUME NEW j \in 1 .. (n - 1), Parent(j) = i, i > 0 PROVE NotLater(h, h.p[Parent(i)], h.p[j])
        <5>1. NotLater(h, h.p[Parent(i)], h.p[i]) /\ NotLater(h, h.p[i], h.p[j]) /\ Parent(i) \in 0 .. n
          BY <1>9, <3>1, <4>3
        <5>2. h.p[Parent(i)] \in Elements /\ h.p[i] \in Elements /\ h.p[j] \in Elements
          BY <1>8, <3>1, <5>1
        <5> QED BY <5>1, <5>2, Times
      <4> QED BY <4>1, <4>2, <4>3 DEF HoleIn
    <3>3. Filled(h, f, n, i, last)
      <4>1. CASE Up
        <5>1. PICK V : V = HolesUp(h, Parent(i), last)
          OBVIOUS
        <5>2. f = RaiseInto(h, {i} \cup V, i, last)
          BY <1>6, <4>1, <5>1 DEF min_heap_shift_up_unconditional_
        <5>3. i \in Nat \ {0} /\ Parent(i) \in Nat
          BY <3>1, <4>1, ParentFacts
        <5>4. UpPath(h, Parent(i), last, V)
          BY <5>1, <5>3, UpWalk
        <5>5. PICK U : U = {i} \cup V
          OBVIOUS
        <5>6. UpPath(h, i, last, U) /\ U # {}
          BY <4>1, <5>3, <5>4, <5>5, UpStep
        <5> QED BY <3>1, <3>2, <5>2, <5>5, <5>6, Raise
      <4>2. CASE ~Up
        <5>1. f = min_heap_shift_down_(h, n, i, last)
          BY <1>6, <4>2
        <5>2. i > 0 => NotLater(h, h.p[Parent(i)], last)
          <6> SUFFICES ASSUME i > 0 PROVE NotLater(h, h.p[Parent(i)], last)
            OBVIOUS
          <6>1. h.p[Parent(i)] \in Elements
            BY <1>8, <1>9, <3>1
          <6> QED BY <4>2, <6>1, Times
        <5> QED BY <3>1, <3>2, <5>1, <5>2, Lower
      <4> QED BY <4>1, <4>2
    <3>4. \A x : (\E j \in 0 .. (n - 1) : f.p[j] = x) <=> (\E j \in 0 .. n : j # i /\ h.p[j] = x)
      <4>1. \A x : (\E j \in 0 .. n : j # i /\ h.p[j] = x) <=>
                   (x = last \/ \E j \in 0 .. (n - 1) : j # i /\ h.p[j] = x)
        BY <1>5, <2>2
      <4>2. \A x : (\E j \in 0 .. (n - 1) : f.p[j] = x) <=>
                   (x = last \/ \E j \in 0 .. (n - 1) : j # i /\ h.p[j] = x)
        BY <3>3 DEF Filled
      <4> QED BY <4>1, <4>2
    <3>5. \A j \in 0 .. (n - 1) : f.p[j] # e
      <4>1. \A j \in 0 .. n : j # i => h.p[j] # e
        BY <1>2, <1>3, <1>8
      <4> QED BY <3>4, <4>1
    <3> QED BY <3>3, <3>4, <3>5 DEF Filled
  <2> QED BY <2>1, <2>2
<1>11. PICK p, idx : p = [j \in 0 .. (n - 1) |-> f.p[j]] /\ idx = [f.idx EXCEPT ![e] = -1]
  OBVIOUS
<1>12. r = WithHeap(h, p, idx)
  <2>1. PICK fp, fi : fp = f.p /\ fi = f.idx
    OBVIOUS
  <2>2. f = [h EXCEPT !.p = fp, !.idx = fi]
    BY <1>10, <2>1 DEF WithHeap
  <2>3. r = [f EXCEPT !.p = p, !.idx = idx]
    BY <1>7, <1>11, <2>1, <2>2 DEF HRec
  <2> QED BY <2>2, <2>3 DEF WithHeap, HRec
<1>13. /\ p \in [0 .. (n - 1) -> Elements] /\ idx \in [Elements -> Int]
       /\ \A j \in 0 .. (n - 1) : idx[p[j]] = j
       /\ \A j \in 1 .. (n - 1) : NotLater(h, p[Parent(j)], p[j])
  <2>1. \A j \in 0 .. (n - 1) : p[j] = f.p[j]
    BY <1>11
  <2>2. \A j \in 1 .. (n - 1) : Parent(j) \in 0 .. (n - 1)
    BY ParentFacts
  <2> QED BY <1>10, <1>11, <2>1, <2>2
<1>14. r \in HRec /\ Ordered(r) /\ SameButHeap(h, r) /\ r.p = p
  BY <1>12, <1>13, Rebuilt
<1>15. \A x : Holds(r, x) <=> Holds(h, x) /\ x # e
  <2>1. \A x : Holds(r, x) <=> \E j \in 0 .. (n - 1) : f.p[j] = x
    BY <1>11, <1>14 DEF Holds
  <2>2. \A x : (\E j \in 0 .. n : j # i /\ h.p[j] = x) <=> Holds(h, x) /\ x # e
    BY <1>1, <1>2, <1>4, <1>8 DEF Holds
  <2> QED BY <1>10, <2>1, <2>2
<1> QED BY <1>14, <1>15

------------------------------------------------------------------------------
(* Lists.                                                                  *)

\* TAILQ_REMOVE takes out one element and keeps the order of the others.
LEMMA RemoveFacts ==
  ASSUME NEW S, NEW s \in Seq(S), NEW e, NEW r, r = Remove(s, e)
  PROVE  /\ r \in Seq(S)
         /\ \A x : x # e => (Contains(r, x) <=> Contains(s, x))
         /\ ~Contains(s, e) => r = s
         /\ Contains(s, e) => \E i \in 1 .. Len(s) :
              /\ s[i] = e /\ Len(r) = Len(s) - 1
              /\ \A j \in 1 .. Len(r) : r[j] = IF j < i THEN s[j] ELSE s[j + 1]
<1>0. Len(s) \in Nat /\ \A j \in 1 .. Len(s) : s[j] \in S
  OBVIOUS
<1>1. CASE ~Contains(s, e)
  BY <1>1 DEF Remove
<1>2. CASE Contains(s, e)
  <2>1. PICK i : i = CHOOSE j \in 1 .. Len(s) : s[j] = e
    OBVIOUS
  <2>2. i \in 1 .. Len(s) /\ s[i] = e
    BY <1>2, <2>1 DEF Contains
  <2>3. r = [j \in 1 .. (Len(s) - 1) |-> IF j < i THEN s[j] ELSE s[j + 1]]
    BY <1>2, <2>1, Zenon DEF Remove
  <2>4. Len(s) - 1 \in Nat /\ \A j \in 1 .. (Len(s) - 1) : j \in 1 .. Len(s) /\ j + 1 \in 1 .. Len(s)
    BY <1>0, <2>2
  <2>5. r \in Seq(S) /\ Len(r) = Len(s) - 1
    <3>1. r \in [1 .. (Len(s) - 1) -> S]
      BY <1>0, <2>3, <2>4
    <3>2. r \in Seq(S)
      BY <2>4, <3>1, SeqDef
    <3>3. DOMAIN r = 1 .. Len(r) /\ DOMAIN r = 1 .. (Len(s) - 1) /\ Len(r) \in Nat
      BY <3>1, <3>2, LenProperties
    <3> QED BY <2>4, <3>2, <3>3
  <2>6. \A j \in 1 .. Len(r) : r[j] = IF j < i THEN s[j] ELSE s[j + 1]
    BY <2>3, <2>5
  <2>7. ASSUME NEW x, x # e PROVE Contains(r, x) <=> Contains(s, x)
    <3>1. ASSUME NEW j \in 1 .. Len(r), r[j] = x PROVE Contains(s, x)
      BY <2>4, <2>5, <2>6, <3>1 DEF Contains
    <3>2. ASSUME NEW j \in 1 .. Len(s), s[j] = x PROVE Contains(r, x)
      <4>1. j # i
        BY <2>2, <2>7, <3>2
      <4>2. CASE j < i
        <5>1. j \in 1 .. Len(r) /\ r[j] = x
          BY <2>2, <2>5, <2>6, <3>2, <4>2
        <5> QED BY <5>1 DEF Contains
      <4>3. CASE j > i
        <5>1. j - 1 \in 1 .. Len(r) /\ ~(j - 1 < i) /\ (j - 1) + 1 = j
          BY <2>2, <2>5, <4>3
        <5>2. r[j - 1] = x
          BY <2>6, <3>2, <5>1
        <5> QED BY <5>1, <5>2 DEF Contains
      <4> QED BY <2>2, <4>1, <4>2, <4>3
    <3> QED BY <3>1, <3>2 DEF Contains
  <2> QED BY <1>2, <2>2, <2>5, <2>6, <2>7
<1> QED BY <1>1, <1>2

\* t is s with e after the first a elements, where it belongs.
Inserted(h, s, e, t, a) ==
  /\ t \in Seq(User) /\ Len(t) = Len(s) + 1
  /\ \A j \in 1 .. Len(t) : t[j] = IF j =< a THEN s[j] ELSE IF j = a + 1 THEN e ELSE s[j - 1]
  /\ a > 0 => NotLater(h, s[a], e)
  /\ \A j \in 1 .. Len(s) : j > a => ~NotLater(h, s[j], e)

\* insert_common_timeout_inorder puts e after the last element that is not later.
LEMMA InsertFacts ==
  ASSUME NEW h \in HRec, NEW s \in Seq(User), NEW e \in User,
         NEW r, r = insert_common_timeout_inorder(h, s, e)
  PROVE  \E k \in 0 .. Len(s) : Inserted(h, s, e, r, k)
<1>0. Len(s) \in Nat /\ \A j \in 1 .. Len(s) : s[j] \in User
  OBVIOUS
<1>e. \A x \in User : x \in Elements
  BY DEF Elements
<1>1. PICK T : T = {0} \cup {i \in 1 .. Len(s) : h.timeout[e].t >= h.timeout[s[i]].t}
  OBVIOUS
<1>2. T \in SUBSET (0 .. Len(s)) /\ T # {}
  BY <1>0, <1>1
<1>3. Max(T) \in T /\ \A y \in T : Max(T) >= y
  BY <1>0, <1>2, MaxOfInterval
<1>4. PICK k \in 0 .. Len(s) : k = Max(T)
  BY <1>2, <1>3
<1>5. k > 0 => NotLater(h, s[k], e)
  <2>0. k \in T
    BY <1>3, <1>4
  <2>1. k > 0 => h.timeout[e].t >= h.timeout[s[k]].t
    BY <1>1, <2>0
  <2>2. k > 0 => s[k] \in Elements /\ e \in Elements
    BY <1>0, <1>e
  <2> QED BY <2>1, <2>2, Times DEF NotLater
<1>6. \A j \in 1 .. Len(s) : j > k => ~NotLater(h, s[j], e)
  <2> SUFFICES ASSUME NEW j \in 1 .. Len(s), j > k, NotLater(h, s[j], e) PROVE FALSE
    OBVIOUS
  <2>1. s[j] \in Elements /\ e \in Elements
    BY <1>0, <1>e
  <2>2. h.timeout[e].t >= h.timeout[s[j]].t
    BY <2>1, Times DEF NotLater
  <2>3. j \in T
    BY <1>1, <2>2
  <2> QED BY <1>3, <1>4, <2>3
<1>7. PICK a, c : a = SubSeq(s, 1, k) /\ c = SubSeq(s, k + 1, Len(s))
  OBVIOUS
<1>8. /\ a \in Seq(User) /\ Len(a) = k /\ \A j \in 1 .. k : a[j] = s[j]
  <2>1. \A i \in 1 .. k : s[i] \in User
    BY <1>0
  <2>2. /\ SubSeq(s, 1, k) \in Seq(User)
        /\ Len(SubSeq(s, 1, k)) = IF 1 <= k THEN k - 1 + 1 ELSE 0
        /\ \A i \in 1 .. k - 1 + 1 : SubSeq(s, 1, k)[i] = s[1 + i - 1]
    <3>1. 1 \in Int /\ k \in Int
      OBVIOUS
    <3> QED BY <2>1, <3>1, SubSeqProperties
  <2>3. \A j \in 1 .. k : j \in 1 .. k - 1 + 1 /\ 1 + j - 1 = j
    OBVIOUS
  <2> QED BY <1>7, <2>2, <2>3
<1>9. /\ c \in Seq(User) /\ Len(c) = Len(s) - k /\ \A j \in 1 .. (Len(s) - k) : c[j] = s[k + j]
  <2>1. \A i \in (k + 1) .. Len(s) : s[i] \in User
    BY <1>0
  <2>2. /\ SubSeq(s, k + 1, Len(s)) \in Seq(User)
        /\ Len(SubSeq(s, k + 1, Len(s))) = IF k + 1 <= Len(s) THEN Len(s) - (k + 1) + 1 ELSE 0
        /\ \A i \in 1 .. Len(s) - (k + 1) + 1 : SubSeq(s, k + 1, Len(s))[i] = s[(k + 1) + i - 1]
    <3>1. k + 1 \in Int /\ Len(s) \in Int
      BY <1>0
    <3> QED BY <2>1, <3>1, SubSeqProperties
  <2>3. \A j \in 1 .. (Len(s) - k) : j \in 1 .. Len(s) - (k + 1) + 1 /\ (k + 1) + j - 1 = k + j
    BY <1>0
  <2> QED BY <1>0, <1>7, <2>2, <2>3
<1>10. PICK d : d = a \o <<e>>
  OBVIOUS
<1>11. d \in Seq(User) /\ Len(d) = k + 1 /\ \A j \in 1 .. (k + 1) : d[j] = IF j =< k THEN s[j] ELSE e
  <2>1. <<e>> \in Seq(User) /\ Len(<<e>>) = 1 /\ <<e>>[1] = e
    OBVIOUS
  <2>2. /\ d \in Seq(User) /\ Len(d) = Len(a) + Len(<<e>>)
        /\ \A i \in 1 .. Len(a) + Len(<<e>>) : d[i] = IF i <= Len(a) THEN a[i] ELSE <<e>>[i - Len(a)]
    BY <1>8, <1>10, <2>1, ConcatProperties
  <2> QED BY <1>8, <2>1, <2>2
<1>12. r = d \o c
  BY <1>1, <1>4, <1>7, <1>10 DEF insert_common_timeout_inorder
<1>13. /\ r \in Seq(User) /\ Len(r) = Len(d) + Len(c)
       /\ \A i \in 1 .. Len(d) + Len(c) : r[i] = IF i <= Len(d) THEN d[i] ELSE c[i - Len(d)]
  <2>1. d \in Seq(User) /\ c \in Seq(User)
    BY <1>9, <1>11
  <2>2. /\ d \o c \in Seq(User) /\ Len(d \o c) = Len(d) + Len(c)
        /\ \A i \in 1 .. Len(d) + Len(c) : (d \o c)[i] = IF i <= Len(d) THEN d[i] ELSE c[i - Len(d)]
    BY <2>1, ConcatProperties
  <2> QED BY <1>12, <2>2
<1>14. Len(r) = Len(s) + 1
  BY <1>0, <1>9, <1>11, <1>13
<1>15. \A j \in 1 .. Len(r) : r[j] = IF j =< k THEN s[j] ELSE IF j = k + 1 THEN e ELSE s[j - 1]
  <2> SUFFICES ASSUME NEW j \in 1 .. Len(r)
               PROVE  r[j] = IF j =< k THEN s[j] ELSE IF j = k + 1 THEN e ELSE s[j - 1]
    OBVIOUS
  <2>1. CASE j =< k + 1
    BY <1>9, <1>11, <1>13, <2>1
  <2>2. CASE j > k + 1
    <3>1. PICK m \in 1 .. (Len(s) - k) : m = j - (k + 1) /\ k + m = j - 1
      BY <1>0, <1>14, <2>2
    <3>2. ~(j =< k + 1) /\ j # k + 1 /\ ~(j =< k)
      BY <1>0, <1>14, <2>2
    <3>3. r[j] = c[m]
      BY <1>9, <1>11, <1>13, <3>1, <3>2
    <3>4. c[m] = s[j - 1]
      BY <1>9, <3>1
    <3> QED BY <3>2, <3>3, <3>4
  <2> QED BY <2>1, <2>2
<1> QED BY <1>5, <1>6, <1>13, <1>14, <1>15 DEF Inserted

------------------------------------------------------------------------------
(* The heap and the queues.                                                *)

\* the events of queue k are distinct, and sorted by their timeouts
Sorted(h, k) ==
  \A i, j \in 1 .. Len(h.queue[k]) : i < j => /\ h.queue[k][i] # h.queue[k][j]
                                             /\ NotLater(h, h.queue[k][i], h.queue[k][j])

\* What the base's timers are between two operations: TimeoutsMatchLists and HeapOrdered, of
\* any state of them, and that the internal events of the queues are in the heap.
ListsInv(h) ==
  /\ h \in HRec /\ Ordered(h)
  /\ \A x \in Elements : Holds(h, x) <=> (x \in h.set /\ h.timeout[x].q = None)
  /\ \A k \in Queues : \A x \in Elements : Contains(h.queue[k], x) <=> (x \in h.set /\ h.timeout[x].q = k)
  /\ \A k \in Queues : Sorted(h, k)
  /\ \A k \in Queues : h.timeout[k].q = None

\* no timeout names a queue that does not exist
Bounded(h) == \A x \in Elements : h.timeout[x].q = None \/ h.timeout[x].q < Len(duration)

LEMMA Kinds == /\ Queues \subseteq Elements /\ User \subseteq Elements /\ None \notin Queues
               /\ \A x \in Elements : x \notin Queues => x \in User
               /\ \A x \in User : x \notin Queues
BY ConstantsAssumption DEF Elements

LEMMA CommonIs ==
  ASSUME NEW h \in HRec, Bounded(h), NEW x \in Elements
  PROVE  is_common_timeout(h.timeout[x]) <=> h.timeout[x].q # None
BY DEF is_common_timeout, Bounded

\* event_queue_remove_timeout takes e out of the heap or of its queue.
LEMMA RemoveTimeout ==
  ASSUME NEW h, ListsInv(h), Bounded(h), NEW e \in h.set, NEW r, r = event_queue_remove_timeout(h, e)
  PROVE  /\ ListsInv(r) /\ r.set = h.set \ {e} /\ r.timeout = h.timeout
         /\ r.active = h.active /\ r.res = h.res
         /\ \A k \in Queues : r.queue[k] = IF h.timeout[e].q = k THEN Remove(h.queue[k], e) ELSE h.queue[k]
<1>0. h \in HRec /\ Ordered(h) /\ e \in Elements /\ h.set \in SUBSET Elements
      /\ h.queue \in [Queues -> Seq(User)] /\ h.timeout \in [Elements -> TvRec]
  BY FieldTypes DEF ListsInv
<1>1. PICK h1 : h1 = [h EXCEPT !.set = @ \ {e}]
  OBVIOUS
<1>2. /\ h1 \in HRec /\ h1.set = h.set \ {e} /\ h1.p = h.p /\ h1.idx = h.idx /\ h1.queue = h.queue
      /\ h1.timeout = h.timeout /\ h1.active = h.active /\ h1.res = h.res
  BY <1>0, <1>1 DEF HRec
<1>3. Ordered(h1) /\ \A x : Holds(h1, x) <=> Holds(h, x)
  BY <1>0, <1>2 DEF Ordered, Holds, min_heap_elem_greater
<1>4. CASE h.timeout[e].q = None
  <2>1. r = min_heap_erase_(h1, e)
    BY <1>0, <1>1, <1>4, CommonIs DEF event_queue_remove_timeout
  <2>2. Holds(h1, e)
    BY <1>0, <1>3, <1>4 DEF ListsInv
  <2>3. /\ r \in HRec /\ Ordered(r) /\ SameButHeap(h1, r)
        /\ \A x : Holds(r, x) <=> Holds(h1, x) /\ x # e
    BY <1>0, <1>2, <1>3, <2>1, <2>2, Erase
  <2>4. r.set = h.set \ {e} /\ r.timeout = h.timeout /\ r.active = h.active /\ r.res = h.res
        /\ r.queue = h.queue
    BY <1>2, <2>3 DEF SameButHeap
  <2>5. \A k \in Queues : h.timeout[e].q # k
    BY <1>4, Kinds
  <2>6. \A x \in Elements : Holds(r, x) <=> (x \in r.set /\ r.timeout[x].q = None)
    BY <1>3, <2>3, <2>4 DEF ListsInv
  <2>7. \A k \in Queues : \A x \in Elements : Contains(r.queue[k], x) <=> (x \in r.set /\ r.timeout[x].q = k)
    BY <2>4, <2>5 DEF ListsInv
  <2>8. \A k \in Queues : Sorted(r, k) /\ r.timeout[k].q = None
    BY <2>4 DEF ListsInv, Sorted, NotLater
  <2> QED BY <2>3, <2>4, <2>5, <2>6, <2>7, <2>8 DEF ListsInv
<1>5. CASE h.timeout[e].q # None
  <2>1. PICK k \in Queues : k = h.timeout[e].q
    BY <1>0, <1>5 DEF TvRec
  <2>2. PICK s \in Seq(User) : s = h.queue[k]
    BY <1>0
  <2>3. PICK t : t = Remove(s, e)
    OBVIOUS
  <2>4. r = [h1 EXCEPT !.queue = [h.queue EXCEPT ![k] = t]]
    <3>1. r = [h1 EXCEPT !.queue[k] = Remove(@, e)]
      BY <1>0, <1>1, <1>5, <2>1, CommonIs DEF event_queue_remove_timeout
    <3> QED BY <1>0, <1>2, <2>1, <2>2, <2>3, <3>1 DEF HRec
  <2>5. /\ t \in Seq(User)
        /\ \A x : x # e => (Contains(t, x) <=> Contains(s, x))
        /\ Contains(s, e) => \E i \in 1 .. Len(s) :
             /\ s[i] = e /\ Len(t) = Len(s) - 1
             /\ \A j \in 1 .. Len(t) : t[j] = IF j < i THEN s[j] ELSE s[j + 1]
    BY <2>3, RemoveFacts
  <2>6. PICK Q \in [Queues -> Seq(User)] : Q = [h.queue EXCEPT ![k] = t]
    BY <1>0, <2>5
  <2>7. r = [h1 EXCEPT !.queue = Q]
    BY <2>4, <2>6
  <2>8. /\ r \in HRec /\ r.set = h.set \ {e} /\ r.p = h.p /\ r.idx = h.idx /\ r.queue = Q
        /\ r.timeout = h.timeout /\ r.active = h.active /\ r.res = h.res
    BY <1>2, <2>7 DEF HRec
  <2>9. \A j \in Queues : Q[j] = IF j = k THEN t ELSE h.queue[j]
    BY <1>0, <2>6
  <2>10. Ordered(r) /\ \A x : Holds(r, x) <=> Holds(h, x)
    BY <1>0, <2>8 DEF Ordered, Holds, min_heap_elem_greater
  <2>11. \A x \in Elements : Holds(r, x) <=> (x \in r.set /\ r.timeout[x].q = None)
    BY <1>5, <2>8, <2>10 DEF ListsInv
  <2>12. Contains(s, e)
    BY <1>0, <2>1, <2>2 DEF ListsInv
  <2>13. PICK i \in 1 .. Len(s) : /\ s[i] = e /\ Len(t) = Len(s) - 1
                                 /\ \A j \in 1 .. Len(t) : t[j] = IF j < i THEN s[j] ELSE s[j + 1]
    BY <2>5, <2>12
  <2>14. \A j, l \in 1 .. Len(s) : j < l => s[j] # s[l] /\ NotLater(h, s[j], s[l])
    BY <2>2 DEF ListsInv, Sorted
  <2>15. \A j \in 1 .. Len(t) : j \in 1 .. Len(s) /\ j + 1 \in 1 .. Len(s)
    BY <2>13
  <2>16. ~Contains(t, e)
    <3> SUFFICES ASSUME NEW j \in 1 .. Len(t), t[j] = e PROVE FALSE
      BY DEF Contains
    <3>1. CASE j < i
      BY <2>13, <2>14, <2>15, <3>1
    <3>2. CASE ~(j < i)
      BY <2>13, <2>14, <2>15, <3>2
    <3> QED BY <3>1, <3>2
  <2>17. \A j, l \in 1 .. Len(t) : j < l => t[j] # t[l] /\ NotLater(h, t[j], t[l])
    <3> SUFFICES ASSUME NEW j \in 1 .. Len(t), NEW l \in 1 .. Len(t), j < l
                 PROVE  t[j] # t[l] /\ NotLater(h, t[j], t[l])
      OBVIOUS
    <3>1. PICK u \in 1 .. Len(s) : t[j] = s[u] /\ u = IF j < i THEN j ELSE j + 1
      BY <2>13, <2>15
    <3>2. PICK v \in 1 .. Len(s) : t[l] = s[v] /\ v = IF l < i THEN l ELSE l + 1
      BY <2>13, <2>15
    <3>3. u < v
      BY <3>1, <3>2
    <3> QED BY <2>14, <3>1, <3>2, <3>3
  <2>18. \A j \in Queues : \A x \in Elements : Contains(r.queue[j], x) <=> (x \in r.set /\ r.timeout[x].q = j)
    BY <2>1, <2>2, <2>5, <2>8, <2>9, <2>16 DEF ListsInv
  <2>19. ASSUME NEW j \in Queues PROVE Sorted(r, j)
    <3>1. CASE j = k
      BY <2>8, <2>9, <2>17, <3>1 DEF Sorted, NotLater
    <3>2. CASE j # k
      <4>1. Sorted(h, j) /\ r.queue[j] = h.queue[j]
        BY <2>8, <2>9, <3>2 DEF ListsInv
      <4> QED BY <2>8, <4>1 DEF Sorted, NotLater
    <3> QED BY <3>1, <3>2
  <2>20. \A j \in Queues : r.timeout[j].q = None
    BY <2>8 DEF ListsInv
  <2>21. ListsInv(r)
    BY <2>8, <2>10, <2>11, <2>18, <2>19, <2>20 DEF ListsInv
  <2> QED BY <2>1, <2>2, <2>3, <2>8, <2>9, <2>21
<1> QED BY <1>4, <1>5

\* event_queue_insert_timeout puts e into the heap, or into its queue in order.
LEMMA InsertTimeout ==
  ASSUME NEW h, ListsInv(h), Bounded(h), NEW e \in Elements, e \notin h.set,
         NEW r, r = event_queue_insert_timeout(h, e)
  PROVE  /\ ListsInv(r) /\ r.set = h.set \cup {e} /\ r.timeout = h.timeout
         /\ r.active = h.active /\ r.res = h.res
<1>0. h \in HRec /\ Ordered(h) /\ h.set \in SUBSET Elements
      /\ h.queue \in [Queues -> Seq(User)] /\ h.timeout \in [Elements -> TvRec] /\ h.idx \in [Elements -> Int]
  BY FieldTypes DEF ListsInv
<1>1. PICK h1 : h1 = [h EXCEPT !.set = @ \cup {e}]
  OBVIOUS
<1>2. /\ h1 \in HRec /\ h1.set = h.set \cup {e} /\ h1.p = h.p /\ h1.idx = h.idx /\ h1.queue = h.queue
      /\ h1.timeout = h.timeout /\ h1.active = h.active /\ h1.res = h.res
  BY <1>0, <1>1 DEF HRec
<1>3. Ordered(h1) /\ \A x : Holds(h1, x) <=> Holds(h, x)
  BY <1>0, <1>2 DEF Ordered, Holds, min_heap_elem_greater
<1>n. ~Holds(h, e) /\ \A k \in Queues : ~Contains(h.queue[k], e)
  BY DEF ListsInv
<1>4. CASE h.timeout[e].q = None
  <2>1. r = min_heap_push_(h1, e)
    BY <1>0, <1>1, <1>4, CommonIs DEF event_queue_insert_timeout
  <2>2. ~Holds(h1, e)
    BY <1>3, <1>n
  <2>3. /\ r \in HRec /\ Ordered(r) /\ SameButHeap(h1, r)
        /\ \A x : Holds(r, x) <=> Holds(h1, x) \/ x = e
    BY <1>2, <1>3, <2>1, <2>2, Push
  <2>4. r.set = h.set \cup {e} /\ r.timeout = h.timeout /\ r.active = h.active /\ r.res = h.res
        /\ r.queue = h.queue
    BY <1>2, <2>3 DEF SameButHeap
  <2>5. \A k \in Queues : h.timeout[e].q # k
    BY <1>4, Kinds
  <2>6. \A x \in Elements : Holds(r, x) <=> (x \in r.set /\ r.timeout[x].q = None)
    BY <1>3, <1>4, <2>3, <2>4 DEF ListsInv
  <2>7. \A k \in Queues : \A x \in Elements : Contains(r.queue[k], x) <=> (x \in r.set /\ r.timeout[x].q = k)
    BY <2>4, <2>5 DEF ListsInv
  <2>8. \A k \in Queues : Sorted(r, k) /\ r.timeout[k].q = None
    BY <2>4 DEF ListsInv, Sorted, NotLater
  <2> QED BY <2>3, <2>4, <2>6, <2>7, <2>8 DEF ListsInv
<1>5. CASE h.timeout[e].q # None
  <2>1. PICK k \in Queues : k = h.timeout[e].q
    BY <1>0, <1>5 DEF TvRec
  <2>e. e \in User
    BY <1>5, Kinds DEF ListsInv
  <2>2. PICK s \in Seq(User) : s = h.queue[k]
    BY <1>0
  <2>3. PICK t : t = insert_common_timeout_inorder(h, s, e)
    OBVIOUS
  <2>a. PICK a \in 0 .. Len(s) : Inserted(h, s, e, t, a)
    BY <1>0, <2>3, <2>e, InsertFacts
  <2>f. /\ t \in Seq(User) /\ Len(t) = Len(s) + 1
        /\ \A j \in 1 .. Len(t) : t[j] = IF j =< a THEN s[j] ELSE IF j = a + 1 THEN e ELSE s[j - 1]
        /\ a > 0 => NotLater(h, s[a], e)
        /\ \A j \in 1 .. Len(s) : j > a => ~NotLater(h, s[j], e)
    BY <2>a DEF Inserted
  <2>6. PICK Q \in [Queues -> Seq(User)] : Q = [h.queue EXCEPT ![k] = t]
    BY <1>0, <2>f
  <2>I. PICK I \in [Elements -> Int] : I = [h.idx EXCEPT ![e] = Linked]
    <3>1. Linked \in Int
      BY DEF Linked
    <3> QED BY <1>0, <3>1
  <2>7. r = [h1 EXCEPT !.queue = Q, !.idx = I]
    <3>1. r = [h1 EXCEPT !.queue[k] = insert_common_timeout_inorder(h, @, e), !.idx[e] = Linked]
      BY <1>0, <1>1, <1>5, <2>1, CommonIs DEF event_queue_insert_timeout
    <3> QED BY <1>0, <1>2, <2>1, <2>2, <2>3, <2>6, <2>I, <3>1 DEF HRec
  <2>8. /\ r \in HRec /\ r.set = h.set \cup {e} /\ r.p = h.p /\ r.idx = I /\ r.queue = Q
        /\ r.timeout = h.timeout /\ r.active = h.active /\ r.res = h.res
    BY <1>2, <2>7 DEF HRec
  <2>9. \A j \in Queues : Q[j] = IF j = k THEN t ELSE h.queue[j]
    BY <1>0, <2>6
  <2>10. Ordered(r) /\ \A x : Holds(r, x) <=> Holds(h, x)
    <3>1. \A i \in DOMAIN h.p : h.p[i] # e /\ h.p[i] \in Elements
      <4>1. \A i \in DOMAIN h.p : h.p[i] \in Elements
        BY <1>0, HeapShape
      <4> QED BY <1>n, <4>1 DEF Holds
    <3>2. \A x \in Elements : x # e => I[x] = h.idx[x]
      BY <1>0, <2>I
    <3>3. \A i \in DOMAIN h.p : I[h.p[i]] = i
      BY <1>0, <3>1, <3>2 DEF Ordered
    <3> QED BY <1>0, <2>8, <3>3 DEF Ordered, Holds, min_heap_elem_greater
  <2>11. \A x \in Elements : Holds(r, x) <=> (x \in r.set /\ r.timeout[x].q = None)
    BY <1>5, <2>8, <2>10 DEF ListsInv
  <2>12. \A j \in 1 .. Len(s) : s[j] # e /\ s[j] \in Elements
    BY <1>n, <2>2, Kinds DEF Contains
  <2>13. \A j, l \in 1 .. Len(s) : j < l => s[j] # s[l] /\ NotLater(h, s[j], s[l])
    BY <2>2 DEF ListsInv, Sorted
  \* what comes before e is not later, and what comes after e is
  <2>14. \A j \in 1 .. Len(s) : IF j =< a THEN NotLater(h, s[j], e) ELSE NotLater(h, e, s[j])
    <3> SUFFICES ASSUME NEW j \in 1 .. Len(s)
                 PROVE  IF j =< a THEN NotLater(h, s[j], e) ELSE NotLater(h, e, s[j])
      OBVIOUS
    <3>1. CASE j > a
      <4>1. ~NotLater(h, s[j], e) /\ s[j] \in Elements
        BY <2>f, <2>12, <3>1
      <4>2. NotLater(h, e, s[j])
        BY <1>0, <4>1, Times DEF NotLater
      <4> QED BY <3>1, <4>2
    <3>2. CASE j = a
      BY <2>f, <3>2
    <3>3. CASE j < a
      <4>1. NotLater(h, s[j], s[a]) /\ NotLater(h, s[a], e) /\ a \in 1 .. Len(s)
        BY <2>f, <2>13, <3>3
      <4>2. NotLater(h, s[j], e)
        BY <1>0, <2>12, <4>1, Times
      <4> QED BY <3>3, <4>2
    <3> QED BY <3>1, <3>2, <3>3
  <2>15. \A j, l \in 1 .. Len(t) : j < l => t[j] # t[l] /\ NotLater(h, t[j], t[l])
    <3> SUFFICES ASSUME NEW j \in 1 .. Len(t), NEW l \in 1 .. Len(t), j < l
                 PROVE  t[j] # t[l] /\ NotLater(h, t[j], t[l])
      OBVIOUS
    <3>l. Len(s) \in Nat /\ Len(t) = Len(s) + 1
      BY <2>f
    <3>1. CASE j = a + 1
      <4>1. t[j] = e /\ t[l] = s[l - 1] /\ l - 1 \in 1 .. Len(s) /\ ~(l - 1 =< a)
        BY <2>f, <3>l, <3>1
      <4> QED BY <2>12, <2>14, <4>1
    <3>2. CASE l = a + 1
      <4>1. t[l] = e /\ t[j] = s[j] /\ j \in 1 .. Len(s) /\ j =< a
        BY <2>f, <3>l, <3>2
      <4> QED BY <2>12, <2>14, <4>1
    <3>3. CASE j # a + 1 /\ l # a + 1
      <4>1. PICK u \in 1 .. Len(s) : t[j] = s[u] /\ u = IF j =< a THEN j ELSE j - 1
        BY <2>f, <3>l, <3>3
      <4>2. PICK v \in 1 .. Len(s) : t[l] = s[v] /\ v = IF l =< a THEN l ELSE l - 1
        BY <2>f, <3>l, <3>3
      <4>3. u < v
        BY <3>3, <4>1, <4>2
      <4> QED BY <2>13, <4>1, <4>2, <4>3
    <3> QED BY <3>1, <3>2, <3>3
  <2>16. \A x : Contains(t, x) <=> Contains(s, x) \/ x = e
    <3> SUFFICES ASSUME NEW x PROVE Contains(t, x) <=> Contains(s, x) \/ x = e
      OBVIOUS
    <3>l. Len(s) \in Nat /\ Len(t) = Len(s) + 1
      BY <2>f
    <3>1. ASSUME NEW j \in 1 .. Len(t), t[j] = x PROVE Contains(s, x) \/ x = e
      <4>1. CASE j =< a
        <5>1. j \in 1 .. Len(s) /\ s[j] = x
          BY <2>f, <3>l, <3>1, <4>1
        <5> QED BY <5>1 DEF Contains
      <4>2. CASE j = a + 1
        BY <2>f, <3>1, <4>2
      <4>3. CASE j > a + 1
        <5>1. j - 1 \in 1 .. Len(s) /\ s[j - 1] = x
          BY <2>f, <3>l, <3>1, <4>3
        <5> QED BY <5>1 DEF Contains
      <4> QED BY <4>1, <4>2, <4>3
    <3>2. ASSUME NEW j \in 1 .. Len(s), s[j] = x PROVE Contains(t, x)
      <4>1. CASE j =< a
        <5>1. j \in 1 .. Len(t) /\ t[j] = x
          BY <2>f, <3>l, <3>2, <4>1
        <5> QED BY <5>1 DEF Contains
      <4>2. CASE j > a
        <5>1. PICK l \in 1 .. Len(t) : l = j + 1 /\ ~(l =< a) /\ l # a + 1 /\ l - 1 = j
          BY <3>l, <4>2
        <5>2. t[l] = x
          BY <2>f, <3>2, <5>1
        <5> QED BY <5>2 DEF Contains
      <4> QED BY <4>1, <4>2
    <3>3. Contains(t, e)
      <4>1. a + 1 \in 1 .. Len(t) /\ t[a + 1] = e
        BY <2>f, <3>l
      <4> QED BY <4>1 DEF Contains
    <3> QED BY <3>1, <3>2, <3>3 DEF Contains
  <2>18. \A j \in Queues : \A x \in Elements : Contains(r.queue[j], x) <=> (x \in r.set /\ r.timeout[x].q = j)
    BY <2>1, <2>2, <2>8, <2>9, <2>16 DEF ListsInv
  <2>19. ASSUME NEW j \in Queues PROVE Sorted(r, j)
    <3>1. CASE j = k
      BY <2>8, <2>9, <2>15, <3>1 DEF Sorted, NotLater
    <3>2. CASE j # k
      <4>1. Sorted(h, j) /\ r.queue[j] = h.queue[j]
        BY <2>8, <2>9, <3>2 DEF ListsInv
      <4> QED BY <2>8, <4>1 DEF Sorted, NotLater
    <3> QED BY <3>1, <3>2
  <2>20. \A j \in Queues : r.timeout[j].q = None
    BY <2>8 DEF ListsInv
  <2>21. ListsInv(r)
    BY <2>8, <2>10, <2>11, <2>18, <2>19, <2>20 DEF ListsInv
  <2> QED BY <2>8, <2>21
<1> QED BY <1>4, <1>5

WithTimeout(h, e, at) == [h EXCEPT !.timeout[e] = at]

\* Only what is in the heap or in a queue is tied to its timeout.
LEMMA Retime ==
  ASSUME NEW h, ListsInv(h), Bounded(h), NEW e \in Elements, e \notin h.set, NEW at \in TvRec,
         e \in Queues => at.q = None, at.q = None \/ at.q < Len(duration),
         NEW r, r = WithTimeout(h, e, at)
  PROVE  /\ ListsInv(r) /\ Bounded(r) /\ r.set = h.set /\ r.timeout = [h.timeout EXCEPT ![e] = at]
         /\ r.active = h.active /\ r.res = h.res
<1>0. h \in HRec /\ Ordered(h) /\ h.timeout \in [Elements -> TvRec]
  BY FieldTypes DEF ListsInv
<1>1. PICK T \in [Elements -> TvRec] : T = [h.timeout EXCEPT ![e] = at]
  BY <1>0
<1>2. /\ r \in HRec /\ r.set = h.set /\ r.p = h.p /\ r.idx = h.idx /\ r.queue = h.queue
      /\ r.timeout = T /\ r.active = h.active /\ r.res = h.res
  <2>1. r = [h EXCEPT !.timeout = T]
    BY <1>0, <1>1 DEF HRec, WithTimeout
  <2> QED BY <1>0, <2>1 DEF HRec
<1>3. \A x \in Elements : T[x] = IF x = e THEN at ELSE h.timeout[x]
  BY <1>0, <1>1
<1>4. ~Holds(h, e) /\ \A k \in Queues : ~Contains(h.queue[k], e)
  BY DEF ListsInv
<1>5. \A x : Holds(r, x) <=> Holds(h, x)
  BY <1>2 DEF Holds
<1>6. Ordered(r)
  <2>1. PICK n \in Nat : h.p \in [0 .. (n - 1) -> Elements] /\ DOMAIN h.p = 0 .. (n - 1)
    BY <1>0, HeapShape
  <2>2. \A i \in 0 .. (n - 1) : h.p[i] \in Elements /\ h.p[i] # e
    BY <1>4, <2>1 DEF Holds
  <2> SUFFICES ASSUME NEW i \in 0 .. (n - 1)
               PROVE  (i > 0 => ~(T[h.p[Parent(i)]].t > T[h.p[i]].t)) /\ h.idx[h.p[i]] = i
    BY <1>2, <2>1 DEF Ordered, min_heap_elem_greater
  <2>3. h.idx[h.p[i]] = i /\ (i > 0 => ~(h.timeout[h.p[Parent(i)]].t > h.timeout[h.p[i]].t))
    BY <1>0, <2>1 DEF Ordered, min_heap_elem_greater
  <2>4. i > 0 => Parent(i) \in 0 .. (n - 1)
    BY ParentFacts
  <2> QED BY <1>3, <2>2, <2>3, <2>4
<1>7. ASSUME NEW k \in Queues PROVE Sorted(r, k)
  <2>1. h.queue[k] \in Seq(User)
    BY <1>0, FieldTypes
  <2>2. \A i \in 1 .. Len(h.queue[k]) : h.queue[k][i] \in Elements /\ h.queue[k][i] # e
    BY <1>4, <2>1, Kinds DEF Contains
  <2>3. Sorted(h, k)
    BY DEF ListsInv
  <2> QED BY <1>2, <1>3, <2>2, <2>3 DEF Sorted, NotLater
<1>8. \A x \in Elements : Holds(r, x) <=> (x \in r.set /\ r.timeout[x].q = None)
  BY <1>2, <1>3, <1>5 DEF ListsInv
<1>9. \A k \in Queues : \A x \in Elements : Contains(r.queue[k], x) <=> (x \in r.set /\ r.timeout[x].q = k)
  BY <1>2, <1>3 DEF ListsInv
<1>10. \A k \in Queues : r.timeout[k].q = None
  BY <1>2, <1>3, Kinds DEF ListsInv
<1>11. Bounded(r)
  BY <1>2, <1>3 DEF Bounded
<1>12. ListsInv(r)
  BY <1>2, <1>6, <1>7, <1>8, <1>9, <1>10 DEF ListsInv
<1> QED BY <1>1, <1>2, <1>11, <1>12

TimersInv(h) == ListsInv(h) /\ Bounded(h)

\* what event_add_nolock_ may be asked for
Allowed(e, at) ==
  /\ at \in TvRec /\ (e \in Queues => at.q = None) /\ (at.q = None \/ at.q < Len(duration))

LEMMA TimersFields ==
  ASSUME NEW h, TimersInv(h)
  PROVE  /\ h \in HRec /\ h.set \in SUBSET Elements /\ h.queue \in [Queues -> Seq(User)]
         /\ h.timeout \in [Elements -> TvRec] /\ h.active \in Seq(Elements)
         /\ h.res \in [Elements -> SUBSET {"TIMEOUT", "READ"}]
BY FieldTypes DEF TimersInv, ListsInv

WithActive(h, act, res) == [h EXCEPT !.active = act, !.res = res]
WithoutActive(h, e) == [h EXCEPT !.active = Remove(@, e)]

\* The active queue and the results are no part of the timers.
LEMMA OtherActive ==
  ASSUME NEW h, TimersInv(h), NEW act \in Seq(Elements), NEW res \in [Elements -> SUBSET {"TIMEOUT", "READ"}],
         NEW r, r = WithActive(h, act, res)
  PROVE  /\ TimersInv(r) /\ r.set = h.set /\ r.timeout = h.timeout /\ r.queue = h.queue
         /\ r.active = act /\ r.res = res
<1>0. h \in HRec
  BY TimersFields
<1>1. /\ r \in HRec /\ r.set = h.set /\ r.p = h.p /\ r.idx = h.idx /\ r.queue = h.queue
      /\ r.timeout = h.timeout /\ r.active = act /\ r.res = res
  BY <1>0 DEF HRec, WithActive
<1>2. Ordered(r) /\ \A x : Holds(r, x) <=> Holds(h, x)
  BY <1>1 DEF TimersInv, ListsInv, Ordered, Holds, min_heap_elem_greater
<1>3. \A k \in Queues : Sorted(r, k)
  BY <1>1 DEF TimersInv, ListsInv, Sorted, NotLater
<1>4. ListsInv(r)
  BY <1>1, <1>2, <1>3 DEF TimersInv, ListsInv
<1>5. Bounded(r)
  BY <1>1 DEF TimersInv, Bounded
<1> QED BY <1>1, <1>4, <1>5 DEF TimersInv

LEMMA Unactive ==
  ASSUME NEW h, TimersInv(h), NEW e, NEW r, r = WithoutActive(h, e)
  PROVE  /\ TimersInv(r) /\ r.set = h.set /\ r.timeout = h.timeout /\ r.queue = h.queue
         /\ r.res = h.res /\ \A x : x # e => (Contains(r.active, x) <=> Contains(h.active, x))
<1>0. h \in HRec /\ h.active \in Seq(Elements) /\ h.res \in [Elements -> SUBSET {"TIMEOUT", "READ"}]
  BY TimersFields
<1>1. PICK act, res : act = Remove(h.active, e) /\ res = h.res
  OBVIOUS
<1>2. act \in Seq(Elements) /\ \A x : x # e => (Contains(act, x) <=> Contains(h.active, x))
  BY <1>0, <1>1, RemoveFacts
<1>3. r = WithActive(h, act, res)
  BY <1>0, <1>1 DEF HRec, WithActive, WithoutActive
<1>4. /\ TimersInv(r) /\ r.set = h.set /\ r.timeout = h.timeout /\ r.queue = h.queue
      /\ r.active = act /\ r.res = res
  BY <1>0, <1>1, <1>2, <1>3, OtherActive
<1> QED BY <1>1, <1>2, <1>4

Activated(h, e, r) ==
  /\ TimersInv(r) /\ r.set = h.set /\ r.timeout = h.timeout /\ r.queue = h.queue
  /\ \A x : Contains(r.active, x) <=> Contains(h.active, x) \/ x = e

LEMMA Activating ==
  ASSUME NEW h, TimersInv(h), NEW e \in Elements, NEW w \in {"TIMEOUT", "READ"},
         NEW r, r = event_active_nolock_(h, e, w)
  PROVE  Activated(h, e, r)
<1>0. h \in HRec /\ h.active \in Seq(Elements) /\ h.res \in [Elements -> SUBSET {"TIMEOUT", "READ"}]
  BY TimersFields
<1>1. CASE Contains(h.active, e)
  <2>1. PICK act, res : act = h.active /\ res = [h.res EXCEPT ![e] = @ \cup {w}]
    OBVIOUS
  <2>2. res \in [Elements -> SUBSET {"TIMEOUT", "READ"}]
    BY <1>0, <2>1
  <2>3. r = WithActive(h, act, res)
    BY <1>0, <1>1, <2>1 DEF event_active_nolock_, HRec, WithActive
  <2>4. TimersInv(r) /\ r.set = h.set /\ r.timeout = h.timeout /\ r.queue = h.queue /\ r.active = act
    BY <1>0, <2>1, <2>2, <2>3, OtherActive
  <2> QED BY <1>1, <2>1, <2>4 DEF Activated
<1>2. CASE ~Contains(h.active, e)
  <2>1. PICK act, res : act = Append(h.active, e) /\ res = [h.res EXCEPT ![e] = {w}]
    OBVIOUS
  <2>2. res \in [Elements -> SUBSET {"TIMEOUT", "READ"}]
    BY <1>0, <2>1
  <2>3. r = WithActive(h, act, res)
    BY <1>0, <1>2, <2>1 DEF event_active_nolock_, HRec, WithActive
  <2>5. /\ act \in Seq(Elements) /\ Len(h.active) \in Nat /\ Len(act) = Len(h.active) + 1
        /\ act[Len(h.active) + 1] = e /\ \A i \in 1 .. Len(h.active) : act[i] = h.active[i]
    BY <1>0, <2>1
  <2>4. TimersInv(r) /\ r.set = h.set /\ r.timeout = h.timeout /\ r.queue = h.queue /\ r.active = act
    BY <1>0, <2>2, <2>3, <2>5, OtherActive
  <2>6. ASSUME NEW x PROVE Contains(act, x) <=> Contains(h.active, x) \/ x = e
    <3>1. \A i \in 1 .. Len(act) : i \in 1 .. Len(h.active) \/ i = Len(h.active) + 1
      BY <2>5
    <3>2. Len(h.active) + 1 \in 1 .. Len(act) /\ \A i \in 1 .. Len(h.active) : i \in 1 .. Len(act)
      BY <2>5
    <3> QED BY <2>5, <3>1, <3>2 DEF Contains
  <2> QED BY <2>4, <2>6 DEF Activated
<1> QED BY <1>1, <1>2

Deleted(h, e, r) ==
  /\ TimersInv(r) /\ r.set = h.set \ {e} /\ r.timeout = h.timeout /\ r.res = h.res
  /\ \A x : x # e => (Contains(r.active, x) <=> Contains(h.active, x))
  /\ \A k \in Queues : r.queue[k] = IF e \in h.set /\ h.timeout[e].q = k
                                    THEN Remove(h.queue[k], e) ELSE h.queue[k]

LEMMA Deleting ==
  ASSUME NEW h, TimersInv(h), NEW e \in Elements, NEW r, r = event_del_nolock_(h, e)
  PROVE  Deleted(h, e, r)
<1>1. PICK h1 : h1 = IF e \in h.set THEN event_queue_remove_timeout(h, e) ELSE h
  OBVIOUS
<1>2. r = WithoutActive(h1, e)
  BY <1>1 DEF event_del_nolock_, WithoutActive
<1>3. /\ TimersInv(h1) /\ h1.set = h.set \ {e} /\ h1.timeout = h.timeout /\ h1.active = h.active
      /\ h1.res = h.res
      /\ \A k \in Queues : h1.queue[k] = IF e \in h.set /\ h.timeout[e].q = k
                                         THEN Remove(h.queue[k], e) ELSE h.queue[k]
  <2>1. CASE e \in h.set
    <3>1. h1 = event_queue_remove_timeout(h, e) /\ ListsInv(h) /\ Bounded(h)
      BY <1>1, <2>1 DEF TimersInv
    <3>2. /\ ListsInv(h1) /\ h1.set = h.set \ {e} /\ h1.timeout = h.timeout
          /\ h1.active = h.active /\ h1.res = h.res
          /\ \A k \in Queues : h1.queue[k] = IF h.timeout[e].q = k THEN Remove(h.queue[k], e) ELSE h.queue[k]
      BY <2>1, <3>1, RemoveTimeout
    <3>3. Bounded(h1)
      BY <3>1, <3>2 DEF Bounded
    <3> QED BY <2>1, <3>2, <3>3 DEF TimersInv
  <2>2. CASE e \notin h.set
    BY <1>1, <2>2
  <2> QED BY <2>1, <2>2
<1>4. /\ TimersInv(r) /\ r.set = h1.set /\ r.timeout = h1.timeout /\ r.queue = h1.queue
      /\ r.res = h1.res /\ \A x : x # e => (Contains(r.active, x) <=> Contains(h1.active, x))
  BY <1>2, <1>3, Unactive
<1> QED BY <1>3, <1>4 DEF Deleted

LEMMA Adding ==
  ASSUME NEW h, TimersInv(h), NEW e \in Elements, NEW at, Allowed(e, at), NEW r, r = AddTimeout(h, e, at)
  PROVE  /\ TimersInv(r) /\ r.set = h.set \cup {e} /\ r.timeout = [h.timeout EXCEPT ![e] = at]
         /\ r.res = h.res /\ \A x : x # e => (Contains(r.active, x) <=> Contains(h.active, x))
<1>1. PICK h1 : h1 = IF e \in h.set THEN event_queue_remove_timeout(h, e) ELSE h
  OBVIOUS
<1>2. /\ TimersInv(h1) /\ h1.set = h.set \ {e} /\ h1.timeout = h.timeout /\ h1.active = h.active
      /\ h1.res = h.res
  <2>1. CASE e \in h.set
    <3>1. h1 = event_queue_remove_timeout(h, e) /\ ListsInv(h) /\ Bounded(h)
      BY <1>1, <2>1 DEF TimersInv
    <3>2. /\ ListsInv(h1) /\ h1.set = h.set \ {e} /\ h1.timeout = h.timeout
          /\ h1.active = h.active /\ h1.res = h.res
      BY <2>1, <3>1, RemoveTimeout
    <3>3. Bounded(h1)
      BY <3>1, <3>2 DEF Bounded
    <3> QED BY <3>2, <3>3 DEF TimersInv
  <2>2. CASE e \notin h.set
    BY <1>1, <2>2
  <2> QED BY <2>1, <2>2
<1>3. PICK h2 : h2 = IF "TIMEOUT" \in h1.res[e] THEN WithoutActive(h1, e) ELSE h1
  OBVIOUS
<1>4. /\ TimersInv(h2) /\ h2.set = h.set \ {e} /\ h2.timeout = h.timeout
      /\ h2.res = h.res /\ \A x : x # e => (Contains(h2.active, x) <=> Contains(h.active, x))
  <2>1. CASE "TIMEOUT" \in h1.res[e]
    <3>1. h2 = WithoutActive(h1, e)
      BY <1>3, <2>1
    <3>2. /\ TimersInv(h2) /\ h2.set = h1.set /\ h2.timeout = h1.timeout
          /\ h2.res = h1.res /\ \A x : x # e => (Contains(h2.active, x) <=> Contains(h1.active, x))
      BY <1>2, <3>1, Unactive
    <3> QED BY <1>2, <3>2
  <2>2. CASE ~("TIMEOUT" \in h1.res[e])
    BY <1>2, <1>3, <2>2
  <2> QED BY <2>1, <2>2
<1>5. PICK h3 : h3 = WithTimeout(h2, e, at)
  OBVIOUS
<1>6. /\ ListsInv(h3) /\ Bounded(h3) /\ h3.set = h2.set /\ h3.timeout = [h2.timeout EXCEPT ![e] = at]
      /\ h3.active = h2.active /\ h3.res = h2.res
  <2>1. e \notin h2.set /\ ListsInv(h2) /\ Bounded(h2)
    BY <1>4 DEF TimersInv
  <2>2. at \in TvRec /\ (e \in Queues => at.q = None) /\ (at.q = None \/ at.q < Len(duration))
    BY DEF Allowed
  <2> QED BY <1>5, <2>1, <2>2, Retime
<1>7. r = event_queue_insert_timeout(h3, e)
  BY <1>1, <1>3, <1>5 DEF AddTimeout, WithoutActive, WithTimeout
<1>8. /\ ListsInv(r) /\ r.set = h3.set \cup {e} /\ r.timeout = h3.timeout
      /\ r.active = h3.active /\ r.res = h3.res
  <2>1. e \notin h3.set
    BY <1>4, <1>6
  <2> QED BY <1>6, <1>7, <2>1, InsertTimeout
<1>9. Bounded(r)
  BY <1>6, <1>8 DEF Bounded
<1> QED BY <1>4, <1>6, <1>8, <1>9 DEF TimersInv

------------------------------------------------------------------------------
(* The internal events of the queues.                                      *)

\* The internal event of queue k will fire no later than x, or is about to run, or runs.
Serves(h, k, x, running) ==
  (k \in h.set /\ NotLater(h, k, x)) \/ Contains(h.active, k) \/ running = k

\* every event in a queue is served by the queue's internal event
Served(h, running) ==
  \A k \in Queues : \A x \in h.set : h.timeout[x].q = k => Serves(h, k, x, running)

\* all but those of queue k
OthersServed(h, k, running) ==
  \A j \in Queues : \A x \in h.set : j # k /\ h.timeout[x].q = j => Serves(h, j, x, running)

\* The queue's first event is the earliest of its events.
LEMMA FirstIsEarliest ==
  ASSUME NEW h, TimersInv(h), NEW k \in Queues, NEW x \in h.set, h.timeout[x].q = k
  PROVE  LET f == h.queue[k][1] IN
         /\ Head(h.queue[k]) = f /\ f \in h.set /\ f \in User /\ h.timeout[f].q = k /\ NotLater(h, f, x)
<1>1. h \in HRec /\ x \in Elements /\ h.queue[k] \in Seq(User)
  BY TimersFields
<1>2. PICK s \in Seq(User) : s = h.queue[k]
  BY <1>1
<1>3. PICK i \in 1 .. Len(s) : s[i] = x
  BY <1>1, <1>2 DEF TimersInv, ListsInv, Contains
<1>4. Len(s) \in Nat /\ 1 \in 1 .. Len(s) /\ s # <<>> /\ Head(s) = s[1] /\ s[1] \in User
  BY <1>3
<1>5. Contains(s, s[1]) /\ s[1] \in Elements
  BY <1>4, Kinds DEF Contains
<1>6. s[1] \in h.set /\ h.timeout[s[1]].q = k
  BY <1>2, <1>5 DEF TimersInv, ListsInv
<1>7. NotLater(h, s[1], x)
  <2>1. CASE i = 1
    BY <1>1, <1>3, <2>1, Times DEF NotLater
  <2>2. CASE i # 1
    <3>1. 1 < i
      BY <1>3, <2>2
    <3> QED BY <1>2, <1>3, <1>4, <3>1 DEF TimersInv, ListsInv, Sorted
  <2> QED BY <2>1, <2>2
<1> QED BY <1>2, <1>4, <1>6, <1>7

\* After common_timeout_schedule the internal event fires with the first event.
LEMMA Scheduling ==
  ASSUME NEW h, TimersInv(h), NEW k \in Queues, NEW e \in h.set, h.timeout[e].q = k,
         Head(h.queue[k]) = e, NEW running,
         OthersServed(h, k, running), NEW r, r = ScheduleFirst(h, e)
  PROVE  /\ TimersInv(r) /\ Served(r, running) /\ r.res = h.res
         /\ \A x \in User : r.timeout[x] = h.timeout[x]
<1>0. h \in HRec /\ e \in Elements /\ h.timeout \in [Elements -> TvRec] /\ k \in Elements
  BY TimersFields, Kinds
<1>1. PICK at : at = Tv(h.timeout[e].t, None)
  OBVIOUS
<1>2. at.t = h.timeout[e].t /\ at.q = None /\ at \in TvRec
  BY <1>0, <1>1 DEF Tv, TvRec
<1>3. r = AddTimeout(h, k, at)
  BY <1>1 DEF ScheduleFirst
<1>4. Allowed(k, at)
  BY <1>2 DEF Allowed
<1>5. /\ TimersInv(r) /\ r.set = h.set \cup {k} /\ r.timeout = [h.timeout EXCEPT ![k] = at]
      /\ r.res = h.res /\ \A x : x # k => (Contains(r.active, x) <=> Contains(h.active, x))
  BY <1>0, <1>3, <1>4, Adding
<1>6. \A x \in Elements : r.timeout[x] = IF x = k THEN at ELSE h.timeout[x]
  BY <1>0, <1>5
<1>7. ASSUME NEW j \in Queues, NEW x \in r.set, r.timeout[x].q = j PROVE Serves(r, j, x, running)
  <2>1. x # k /\ x \in h.set /\ x \in Elements /\ h.timeout[x].q = j
    <3>1. x \in Elements
      BY <1>5, TimersFields
    <3>2. x # k
      BY <1>2, <1>6, <1>7, <3>1, Kinds
    <3> QED BY <1>5, <1>6, <1>7, <3>1, <3>2
  <2>2. CASE j = k
    <3>1. NotLater(h, e, x)
      BY <2>1, <2>2, FirstIsEarliest
    <3>2. NotLater(r, k, x)
      BY <1>0, <1>2, <1>6, <2>1, <3>1 DEF NotLater
    <3> QED BY <1>5, <2>2, <3>2 DEF Serves
  <2>3. CASE j # k
    <3>1. Serves(h, j, x, running) /\ j \in Elements
      BY <2>1, <2>3, Kinds DEF OthersServed
    <3>2. NotLater(r, j, x) <=> NotLater(h, j, x)
      BY <1>6, <2>1, <2>3, <3>1 DEF NotLater
    <3> QED BY <1>5, <2>3, <3>1, <3>2 DEF Serves
  <2> QED BY <2>2, <2>3
<1>8. \A x \in User : r.timeout[x] = h.timeout[x]
  BY <1>6, Kinds
<1> QED BY <1>5, <1>7, <1>8 DEF Served

\* event_add_nolock_ of an event of the application.
LEMMA EventAdd ==
  ASSUME NEW h, TimersInv(h), NEW running, Served(h, running), NEW e \in User, NEW at, Allowed(e, at),
         NEW r, r = event_add_nolock_(h, e, at)
  PROVE  /\ TimersInv(r) /\ Served(r, running) /\ r.res = h.res /\ r.timeout[e] = at
         /\ \A x \in User : x # e => r.timeout[x] = h.timeout[x]
<1>0. h \in HRec /\ e \in Elements /\ h.timeout \in [Elements -> TvRec] /\ h.set \in SUBSET Elements
  BY TimersFields, Kinds
<1>1. PICK h1 : h1 = AddTimeout(h, e, at)
  OBVIOUS
<1>2. /\ TimersInv(h1) /\ h1.set = h.set \cup {e} /\ h1.timeout = [h.timeout EXCEPT ![e] = at]
      /\ h1.res = h.res /\ \A x : x # e => (Contains(h1.active, x) <=> Contains(h.active, x))
  BY <1>0, <1>1, Adding
<1>3. \A x \in Elements : h1.timeout[x] = IF x = e THEN at ELSE h.timeout[x]
  BY <1>0, <1>2
<1>4. ASSUME NEW k \in Queues, NEW x \in h1.set, x # e, h1.timeout[x].q = k
      PROVE  Serves(h1, k, x, running)
  <2>1. x \in h.set /\ x \in Elements /\ k \in Elements /\ k # e
    BY <1>0, <1>2, <1>4, Kinds
  <2>2. Serves(h, k, x, running)
    BY <1>3, <1>4, <2>1 DEF Served
  <2>3. NotLater(h1, k, x) <=> NotLater(h, k, x)
    BY <1>3, <1>4, <2>1 DEF NotLater
  <2> QED BY <1>2, <2>1, <2>2, <2>3 DEF Serves
<1>5. h1.timeout[e] = at /\ \A x \in User : x # e => h1.timeout[x] = h.timeout[x]
  BY <1>0, <1>3, Kinds
<1>6. CASE at.q = None
  <2>1. r = h1
    BY <1>1, <1>6 DEF event_add_nolock_, is_common_timeout
  <2>2. Served(h1, running)
    BY <1>4, <1>5, <1>6, Kinds DEF Served
  <2> QED BY <1>2, <1>5, <2>1, <2>2
<1>7. CASE at.q # None
  <2>1. r = ScheduleFirst(h1, e)
    BY <1>1, <1>7 DEF event_add_nolock_, is_common_timeout, Allowed
  <2>2. PICK k \in Queues : k = at.q
    BY <1>7 DEF Allowed, TvRec
  <2>3. TimersInv(h1) /\ e \in h1.set /\ h1.timeout[e].q = k
    BY <1>2, <1>5, <2>2
  <2>4. CASE Head(h1.queue[k]) = e
    <3>1. OthersServed(h1, k, running)
      BY <1>4, <2>3 DEF OthersServed
    <3>2. /\ TimersInv(r) /\ Served(r, running) /\ r.res = h1.res
          /\ \A x \in User : r.timeout[x] = h1.timeout[x]
      BY <2>1, <2>3, <2>4, <3>1, Scheduling
    <3> QED BY <1>2, <1>5, <3>2
  <2>5. CASE Head(h1.queue[k]) # e
    <3>1. r = h1
      BY <2>1, <2>3, <2>5 DEF ScheduleFirst
    <3>2. PICK f \in h1.set : f # e /\ f \in User /\ h1.timeout[f].q = k /\ NotLater(h1, f, e)
      <4>1. LET f == h1.queue[k][1] IN
            /\ Head(h1.queue[k]) = f /\ f \in h1.set /\ f \in User /\ h1.timeout[f].q = k
            /\ NotLater(h1, f, e)
        BY <2>3, FirstIsEarliest
      <4> QED BY <2>5, <4>1
    <3>3. Serves(h1, k, f, running)
      BY <1>4, <3>2
    <3>4. NotLater(h1, k, f) => NotLater(h1, k, e)
      <4>1. h1 \in HRec /\ f \in Elements /\ k \in Elements
        BY <1>2, <3>2, TimersFields, Kinds
      <4> QED BY <1>0, <3>2, <4>1, Times
    <3>5. Serves(h1, k, e, running)
      BY <3>3, <3>4 DEF Serves
    <3>6. Served(h1, running)
      BY <1>4, <2>3, <3>5 DEF Served
    <3> QED BY <1>2, <1>5, <3>1, <3>6
  <2> QED BY <2>4, <2>5
<1> QED BY <1>6, <1>7

------------------------------------------------------------------------------
(* common_timeout_callback.                                                *)

FireBody(h, s, g, i) ==
  IF i = 0 THEN h ELSE event_active_nolock_(event_del_nolock_(g[i - 1], s[i]), s[i], "TIMEOUT")

FireLoop(h, s, n, g) == g = [i \in 0 .. n |-> FireBody(h, s, g, i)]

\* The loop of common_timeout_callback is well defined.
LEMMA FireExists ==
  ASSUME NEW h, NEW s
  PROVE  \A n \in Nat : \E g : FireLoop(h, s, n, g)
<1> DEFINE S == {n \in Nat : \E g : g = [i \in 0 .. n |-> FireBody(h, s, g, i)]}
<1>1. ASSUME NEW n \in Nat, \A m \in 0 .. (n - 1) : m \in S PROVE n \in S
  <2>1. CASE n = 0
    <3> DEFINE g == [i \in 0 .. n |-> h]
    <3>1. g = [i \in 0 .. n |-> FireBody(h, s, g, i)]
      BY <2>1 DEF FireBody
    <3> QED BY <3>1
  <2>2. CASE n # 0
    <3>1. n - 1 \in S /\ n - 1 \in Nat
      BY <1>1, <2>2
    <3>2. PICK f : f = [i \in 0 .. (n - 1) |-> FireBody(h, s, f, i)]
      BY <3>1
    <3> DEFINE g == [i \in 0 .. n |-> IF i = n THEN FireBody(h, s, f, n) ELSE f[i]]
    <3>3. \A i \in 0 .. n : i # 0 => g[i - 1] = f[i - 1]
      OBVIOUS
    <3>4. \A i \in 0 .. n : FireBody(h, s, g, i) = FireBody(h, s, f, i)
      BY <3>3 DEF FireBody
    <3>5. \A i \in 0 .. (n - 1) : f[i] = FireBody(h, s, f, i)
      BY <3>2
    <3>6. \A i \in 0 .. n : g[i] = FireBody(h, s, g, i)
      BY <3>4, <3>5
    <3>7. g = [i \in 0 .. n |-> FireBody(h, s, g, i)]
      BY <3>6
    <3> QED BY <3>7
  <2> QED BY <2>1, <2>2
<1>2. Nat \subseteq S
  <2> HIDE DEF S
  <2> QED BY <1>1, StrongInduction
<1> QED BY <1>2 DEF FireLoop

\* g is h after the first i events of queue k have fired.
Fired(h, k, i, g) ==
  /\ TimersInv(g) /\ g.timeout = h.timeout /\ g.set \subseteq h.set
  /\ \A j \in Queues : (j \in g.set <=> j \in h.set) /\ (Contains(h.active, j) => Contains(g.active, j))
  /\ Len(g.queue[k]) = Len(h.queue[k]) - i
  /\ \A j \in 1 .. Len(g.queue[k]) : g.queue[k][j] = h.queue[k][i + j]

LEMMA FireOne ==
  ASSUME NEW h, TimersInv(h), NEW k \in Queues, NEW i \in Nat, i < Len(h.queue[k]),
         NEW g, Fired(h, k, i, g), NEW e, e = h.queue[k][i + 1],
         NEW r, r = event_active_nolock_(event_del_nolock_(g, e), e, "TIMEOUT")
  PROVE  Fired(h, k, i + 1, r)
<1>0. PICK s \in Seq(User) : s = h.queue[k]
  BY TimersFields
<1>1. TimersInv(g) /\ g.timeout = h.timeout
  BY DEF Fired
<1>2. PICK q \in Seq(User) : q = g.queue[k]
  BY <1>1, TimersFields
<1>3. Len(q) = Len(s) - i /\ \A j \in 1 .. Len(q) : q[j] = s[i + j]
  BY <1>0, <1>2 DEF Fired
<1>4. /\ 1 \in 1 .. Len(q) /\ Len(s) \in Nat /\ q[1] = e /\ e \in User /\ i + 1 \in 1 .. Len(s)
  BY <1>0, <1>2, <1>3
<1>5. e \in g.set /\ g.timeout[e].q = k /\ e \in Elements
  BY <1>1, <1>2, <1>4, Kinds DEF TimersInv, ListsInv, Contains
<1>6. PICK g1 : g1 = event_del_nolock_(g, e)
  OBVIOUS
<1>7. /\ TimersInv(g1) /\ g1.set = g.set \ {e} /\ g1.timeout = g.timeout
      /\ \A x : x # e => (Contains(g1.active, x) <=> Contains(g.active, x))
      /\ \A j \in Queues : g1.queue[j] = IF e \in g.set /\ g.timeout[e].q = j
                                         THEN Remove(g.queue[j], e) ELSE g.queue[j]
  <2>1. TimersInv(g) /\ e \in Elements
    BY <1>1, <1>5
  <2>2. Deleted(g, e, g1)
    BY <1>6, <2>1, Deleting
  <2> QED BY <2>2 DEF Deleted
<1>8. /\ TimersInv(r) /\ r.set = g1.set /\ r.timeout = g1.timeout /\ r.queue = g1.queue
      /\ \A x : Contains(r.active, x) <=> Contains(g1.active, x) \/ x = e
  <2>1. r = event_active_nolock_(g1, e, "TIMEOUT") /\ TimersInv(g1)
    BY <1>6, <1>7
  <2>2. Activated(g1, e, r)
    BY <1>5, <2>1, Activating
  <2> QED BY <2>2 DEF Activated
<1>9. PICK t : t = Remove(q, e)
  OBVIOUS
<1>10. r.queue[k] = t
  BY <1>2, <1>5, <1>7, <1>8, <1>9
<1>11. PICK l \in 1 .. Len(q) : /\ q[l] = e /\ Len(t) = Len(q) - 1
                               /\ \A j \in 1 .. Len(t) : t[j] = IF j < l THEN q[j] ELSE q[j + 1]
  <2>1. Contains(q, e)
    BY <1>4 DEF Contains
  <2> QED BY <1>9, <2>1, RemoveFacts
<1>12. l = 1
  <2>1. \A j, m \in 1 .. Len(q) : j < m => q[j] # q[m]
    BY <1>1, <1>2 DEF TimersInv, ListsInv, Sorted
  <2> QED BY <1>4, <1>11, <2>1
<1>13. Len(t) = Len(s) - (i + 1) /\ \A j \in 1 .. Len(t) : t[j] = s[(i + 1) + j]
  <2>1. Len(t) = Len(s) - (i + 1)
    BY <1>3, <1>4, <1>11
  <2>2. ASSUME NEW j \in 1 .. Len(t) PROVE t[j] = s[(i + 1) + j]
    <3>1. ~(j < l) /\ j + 1 \in 1 .. Len(q) /\ i + (j + 1) = (i + 1) + j
      BY <1>3, <1>4, <1>12, <2>1
    <3>2. t[j] = q[j + 1]
      BY <1>11, <3>1
    <3>3. q[j + 1] = s[i + (j + 1)]
      BY <1>3, <3>1
    <3> QED BY <3>1, <3>2, <3>3
  <2> QED BY <2>1, <2>2
<1>14. \A j \in Queues : j # e
  BY <1>4, Kinds
<1>15. /\ r.timeout = h.timeout /\ r.set \subseteq h.set
       /\ \A j \in Queues : (j \in r.set <=> j \in h.set) /\ (Contains(h.active, j) => Contains(r.active, j))
  BY <1>7, <1>8, <1>14 DEF Fired
<1> QED BY <1>0, <1>8, <1>10, <1>13, <1>15 DEF Fired

LEMMA FireAll ==
  ASSUME NEW h, TimersInv(h), NEW k \in Queues, NEW s, s = h.queue[k], NEW n \in 0 .. Len(s)
  PROVE  Fired(h, k, n, FireFirst(h, s, n))
<1> DEFINE fire == CHOOSE g : g = [i \in 0 .. n |-> FireBody(h, s, g, i)]
<1>0. s \in Seq(User) /\ Len(s) \in Nat /\ n \in Nat
  BY TimersFields
<1>1. FireFirst(h, s, n) = fire[n]
  BY DEF FireFirst, FireBody
<1>2. fire = [i \in 0 .. n |-> FireBody(h, s, fire, i)]
  <2>1. PICK g : FireLoop(h, s, n, g)
    BY <1>0, FireExists
  <2> QED BY <2>1 DEF FireLoop
<1> HIDE DEF fire
<1>3. \A i \in 0 .. n : fire[i] = FireBody(h, s, fire, i)
  BY <1>2
<1> DEFINE S == {i \in Nat : i =< n => Fired(h, k, i, fire[i])}
<1>4. ASSUME NEW i \in Nat, \A m \in 0 .. (i - 1) : m \in S PROVE i \in S
  <2> SUFFICES ASSUME i =< n PROVE Fired(h, k, i, fire[i])
    OBVIOUS
  <2>0. fire[i] = FireBody(h, s, fire, i)
    BY <1>0, <1>3
  <2>1. CASE i = 0
    <3>1. fire[i] = h
      BY <2>0, <2>1 DEF FireBody
    <3>2. Fired(h, k, 0, h)
      BY <1>0 DEF Fired
    <3> QED BY <2>1, <3>1, <3>2
  <2>2. CASE i # 0
    <3>1. PICK m \in Nat : i = m + 1 /\ m \in 0 .. (i - 1) /\ i - 1 = m
      BY <2>2
    <3>2. Fired(h, k, m, fire[m]) /\ m < Len(h.queue[k])
      BY <1>0, <1>4, <3>1
    <3>3. PICK g : g = fire[m]
      OBVIOUS
    <3>4. PICK e : e = h.queue[k][m + 1]
      OBVIOUS
    <3>5. fire[i] = event_active_nolock_(event_del_nolock_(g, e), e, "TIMEOUT")
      BY <2>0, <2>2, <3>1, <3>3, <3>4 DEF FireBody
    <3> QED BY <3>1, <3>2, <3>3, <3>4, <3>5, FireOne
  <2> QED BY <2>1, <2>2
<1>5. Nat \subseteq S
  <2> HIDE DEF S
  <2> QED BY <1>4, StrongInduction
<1> QED BY <1>0, <1>1, <1>5

\* The whole callback: afterwards the queue is empty or its internal event is scheduled.
LEMMA CommonCallback ==
  ASSUME NEW h, TimersInv(h), NEW k \in Queues, Served(h, k), NEW s, s = h.queue[k],
         NEW n \in 0 .. Len(s), NEW r,
         r = IF n = Len(s) THEN FireFirst(h, s, n) ELSE ScheduleFirst(FireFirst(h, s, n), s[n + 1])
  PROVE  /\ TimersInv(r) /\ Served(r, None)
         /\ \A x \in User : r.timeout[x] = h.timeout[x]
<1>0. s \in Seq(User) /\ Len(s) \in Nat /\ n \in Nat
  BY TimersFields
<1>1. PICK g : g = FireFirst(h, s, n)
  OBVIOUS
<1>2. Fired(h, k, n, g)
  BY <1>1, FireAll
<1>3. TimersInv(g) /\ g.timeout = h.timeout /\ g.set \in SUBSET Elements /\ g.queue[k] \in Seq(User)
  BY <1>2, TimersFields DEF Fired
<1>4. OthersServed(g, k, None)
  <2> SUFFICES ASSUME NEW j \in Queues, NEW x \in g.set, j # k, g.timeout[x].q = j
               PROVE  Serves(g, j, x, None)
    BY DEF OthersServed
  <2>1. x \in h.set /\ h.timeout[x].q = j
    BY <1>2 DEF Fired
  <2>2. Serves(h, j, x, k)
    BY <2>1 DEF Served
  <2>3. NotLater(h, j, x) <=> NotLater(g, j, x)
    BY <1>3 DEF NotLater
  <2> QED BY <1>2, <2>2, <2>3 DEF Serves, Fired
<1>5. CASE n = Len(s)
  <2>1. r = g
    BY <1>1, <1>5
  <2>2. Len(g.queue[k]) = 0
    BY <1>0, <1>2, <1>5 DEF Fired
  <2>3. \A x \in g.set : g.timeout[x].q # k
    BY <1>3, <2>2 DEF TimersInv, ListsInv, Contains
  <2>4. Served(g, None)
    BY <1>4, <2>3 DEF Served, OthersServed
  <2> QED BY <1>3, <2>1, <2>4
<1>6. CASE n # Len(s)
  <2>1. r = ScheduleFirst(g, s[n + 1])
    BY <1>1, <1>6
  <2>2. PICK q \in Seq(User) : q = g.queue[k]
    BY <1>3
  <2>3. Len(q) = Len(s) - n /\ \A j \in 1 .. Len(q) : q[j] = s[n + j]
    BY <1>2, <2>2 DEF Fired
  <2>4. PICK e \in User : e = s[n + 1] /\ q[1] = e /\ Head(q) = e /\ Contains(q, e)
    <3>1. 1 \in 1 .. Len(q) /\ n + 1 \in 1 .. Len(s)
      BY <1>0, <1>6, <2>3
    <3>2. q[1] = s[n + 1] /\ q # <<>> /\ Head(q) = q[1] /\ s[n + 1] \in User
      BY <1>0, <2>3, <3>1
    <3> QED BY <3>1, <3>2 DEF Contains
  <2>5. e \in g.set /\ g.timeout[e].q = k
    BY <1>3, <2>2, <2>4, Kinds DEF TimersInv, ListsInv
  <2>6. TimersInv(g) /\ Head(g.queue[k]) = e /\ r = ScheduleFirst(g, e)
    BY <1>3, <2>1, <2>2, <2>4
  <2>7. /\ TimersInv(r) /\ Served(r, None)
        /\ \A x \in User : r.timeout[x] = g.timeout[x]
    BY <1>4, <2>5, <2>6, Scheduling
  <2> QED BY <1>3, <2>7
<1> QED BY <1>5, <1>6

------------------------------------------------------------------------------
(* The inductive invariant.                                                *)

VarsTyped ==
  /\ ev_io_timeout \in [User -> TvRec]
  /\ duration \in Seq(Durations) /\ Len(duration) =< MaxCommon
  /\ pc \in {"wait", "timeouts", "run", "callback", "common"}
  /\ cur \in Elements \cup {None} /\ now \in Nat /\ tv_cache \in Nat
  /\ calls \in 0 .. MaxCalls

\* the queue whose callback is running
Running == IF pc = "common" THEN cur ELSE None

IInv ==
  /\ VarsTyped /\ TimersInv(b) /\ Served(b, Running)
  /\ pc = "common" => cur \in Queues
  /\ SameCommonTimeout

LEMMA Now == ASSUME VarsTyped PROVE gettime \in Nat
BY DEF VarsTyped, gettime

\* Fewer events in the queues need no more service.
LEMMA ServedShrinks ==
  ASSUME NEW h, NEW r, NEW running, Served(h, running), r.timeout = h.timeout, r.set \subseteq h.set,
         \A k \in Queues : (k \in h.set => k \in r.set) /\ (Contains(h.active, k) => Contains(r.active, k))
  PROVE  Served(r, running)
<1> SUFFICES ASSUME NEW k \in Queues, NEW x \in r.set, r.timeout[x].q = k PROVE Serves(r, k, x, running)
  BY DEF Served
<1>1. Serves(h, k, x, running)
  BY DEF Served
<1>2. NotLater(h, k, x) <=> NotLater(r, k, x)
  BY DEF NotLater
<1> QED BY <1>1, <1>2 DEF Serves

LEMMA SameAgain ==
  ASSUME SameCommonTimeout, ev_io_timeout' = ev_io_timeout,
         NEW r, r = b', \A x \in User : r.timeout[x] = b.timeout[x]
  PROVE  SameCommonTimeout'
<1>1. Persist \subseteq User
  BY ConstantsAssumption DEF User
<1> QED BY <1>1 DEF SameCommonTimeout

LEMMA TimersPrimed ==
  ASSUME NEW r, r = b', TimersInv(r), duration' = duration
  PROVE  TimersInv(b)'
BY DEF TimersInv, Bounded, ListsInv, Sorted, Ordered, Holds, NotLater, min_heap_elem_greater

\* Steps that leave the timers alone.
LEMMA StepPc ==
  ASSUME IInv, wake \/ return_callback \/ return_limit \/ next_iteration \/ Tick
  PROVE  IInv'
<1>1. b' = b /\ duration' = duration /\ ev_io_timeout' = ev_io_timeout /\ calls' = calls
  BY DEF wake, return_callback, return_limit, next_iteration, Tick
<1>2. VarsTyped' /\ Running' = Running /\ (pc' = "common" => cur' \in Queues)
  BY DEF IInv, VarsTyped, Running, wake, return_callback, return_limit, next_iteration, Tick
<1>3. TimersInv(b)'
  <2>1. PICK r : r = b'
    OBVIOUS
  <2>2. TimersInv(r)
    BY <1>1, <2>1 DEF IInv
  <2> QED BY <1>1, <2>1, <2>2, TimersPrimed
<1>4. Served(b, Running)'
  BY <1>1, <1>2 DEF IInv, Served, Serves, NotLater
<1>5. SameCommonTimeout'
  BY <1>1 DEF IInv, SameCommonTimeout
<1> QED BY <1>2, <1>3, <1>4, <1>5 DEF IInv

LEMMA StepInit ==
  ASSUME IInv, NEW d \in Durations, event_base_init_common_timeout(d)
  PROVE  IInv'
<1>1. b' = b /\ duration' = Append(duration, d) /\ ev_io_timeout' = ev_io_timeout /\ pc' = pc /\ cur' = cur
      /\ now' = now /\ tv_cache' = tv_cache /\ calls' = calls + 1 /\ Len(duration) < MaxCommon /\ calls < MaxCalls
  BY DEF event_base_init_common_timeout, ApiCall
<1>2. duration' \in Seq(Durations) /\ Len(duration') = Len(duration) + 1 /\ Len(duration) \in Nat /\ MaxCommon \in Nat
  BY <1>1, ConstantsAssumption DEF IInv, VarsTyped
<1>3. VarsTyped' /\ Running' = Running /\ (pc' = "common" => cur' \in Queues)
  <2>1. calls' \in 0 .. MaxCalls
    BY <1>1, ConstantsAssumption DEF IInv, VarsTyped
  <2>2. Len(duration') =< MaxCommon
    BY <1>1, <1>2
  <2> QED BY <1>1, <1>2, <2>1, <2>2 DEF IInv, VarsTyped, Running
<1>4. TimersInv(b)'
  <2>1. Bounded(b)'
    <3>1. \A x \in Elements : b.timeout[x].q = None \/ (b.timeout[x].q < Len(duration) /\ b.timeout[x].q \in Queues)
      BY TimersFields DEF IInv, TimersInv, Bounded, TvRec
    <3>2. \A q \in Queues : q \in Nat
      BY ConstantsAssumption DEF Queues
    <3> QED BY <1>1, <1>2, <3>1, <3>2 DEF Bounded
  <2>2. ListsInv(b)'
    BY <1>1 DEF IInv, TimersInv, ListsInv, Sorted, Ordered, Holds, NotLater, min_heap_elem_greater
  <2> QED BY <2>1, <2>2 DEF TimersInv
<1>5. Served(b, Running)'
  BY <1>1, <1>3 DEF IInv, Served, Serves, NotLater
<1>6. SameCommonTimeout'
  BY <1>1 DEF IInv, SameCommonTimeout
<1> QED BY <1>3, <1>4, <1>5, <1>6 DEF IInv

LEMMA Assemble ==
  ASSUME NEW r, r = b', TimersInv(r), NEW run, run = Running', Served(r, run), duration' = duration,
         VarsTyped', pc' = "common" => cur' \in Queues, SameCommonTimeout'
  PROVE  IInv'
<1>1. TimersInv(b)'
  BY TimersPrimed
<1>2. Served(b, Running)'
  BY DEF Served, Serves, NotLater
<1> QED BY <1>1, <1>2 DEF IInv

LEMMA ApiTyped ==
  ASSUME VarsTyped, ApiCall, UNCHANGED <<duration, pc, cur, now, tv_cache>>, ev_io_timeout' \in [User -> TvRec]
  PROVE  VarsTyped' /\ Running' = Running
<1>1. calls' \in 0 .. MaxCalls
  BY ConstantsAssumption DEF VarsTyped, ApiCall
<1> QED BY <1>1 DEF VarsTyped, Running

LEMMA Subsets ==
  /\ Events \subseteq User /\ Persist \subseteq Events /\ Persist \subseteq User
  /\ \A q \in Queues : q \in Nat /\ q < MaxCommon
  /\ \A q \in Nat : q < MaxCommon => q \in Queues
  /\ \A d \in Durations \cup Delays : d \in Nat
BY ConstantsAssumption DEF User, Queues

\* The timeouts that the application passes.
LEMMA StepAdd ==
  ASSUME IInv, NEW e \in Events, NEW tv \in TvRec, tv.q = None \/ tv.q < Len(duration), event_add(e, tv)
  PROVE  IInv'
<1>0. VarsTyped /\ TimersInv(b) /\ Served(b, Running) /\ gettime \in Nat /\ e \in User
  BY Now, Subsets DEF IInv
<1>1. PICK at : at = Tv(gettime + tv.t, IF is_common_timeout(tv) THEN tv.q ELSE None)
  OBVIOUS
<1>2. at.t = gettime + tv.t /\ at.q = tv.q /\ at \in TvRec
  <2>1. (IF is_common_timeout(tv) THEN tv.q ELSE None) = tv.q
    BY DEF is_common_timeout
  <2>2. tv.t \in Nat /\ tv.q \in Queues \cup {None}
    BY DEF TvRec
  <2>3. at = Tv(gettime + tv.t, tv.q)
    BY <1>1, <2>1
  <2> QED BY <1>0, <2>2, <2>3 DEF Tv, TvRec
<1>3. Allowed(e, at)
  BY <1>0, <1>2, Kinds DEF Allowed
<1>4. PICK h, r, run : h = b /\ r = b' /\ run = Running
  OBVIOUS
<1>5. r = event_add_nolock_(h, e, at) /\ TimersInv(h) /\ Served(h, run)
  BY <1>0, <1>1, <1>4 DEF event_add
<1>6. /\ TimersInv(r) /\ Served(r, run) /\ r.timeout[e] = at
      /\ \A x \in User : x # e => r.timeout[x] = h.timeout[x]
  BY <1>0, <1>3, <1>5, EventAdd
<1>7. /\ ev_io_timeout' = IF e \in Persist THEN [ev_io_timeout EXCEPT ![e] = tv] ELSE ev_io_timeout
      /\ ApiCall /\ UNCHANGED <<duration, pc, cur, now, tv_cache>>
  BY DEF event_add
<1>8. ev_io_timeout' \in [User -> TvRec]
  BY <1>0, <1>7 DEF VarsTyped
<1>9. VarsTyped' /\ Running' = Running
  BY <1>0, <1>7, <1>8, ApiTyped
<1>10. SameCommonTimeout'
  <2> SUFFICES ASSUME NEW x \in Persist, ev_io_timeout'[x].t # 0 PROVE r.timeout[x].q = ev_io_timeout'[x].q
    BY <1>4 DEF SameCommonTimeout
  <2>1. x \in User /\ ev_io_timeout \in [User -> TvRec]
    BY <1>0, Subsets DEF VarsTyped
  <2>2. CASE x = e
    <3>1. ev_io_timeout'[x] = tv
      BY <1>7, <2>1, <2>2
    <3> QED BY <1>2, <1>6, <2>2, <3>1
  <2>3. CASE x # e
    <3>1. ev_io_timeout'[x] = ev_io_timeout[x]
      BY <1>7, <2>1, <2>3
    <3>2. r.timeout[x] = b.timeout[x]
      BY <1>4, <1>6, <2>1, <2>3
    <3> QED BY <3>1, <3>2 DEF IInv, SameCommonTimeout
  <2> QED BY <2>2, <2>3
<1>11. run = Running' /\ duration' = duration /\ (pc' = "common" => cur' \in Queues)
  BY <1>4, <1>7, <1>9 DEF IInv
<1> QED BY <1>4, <1>6, <1>9, <1>10, <1>11, Assemble

LEMMA StepDel ==
  ASSUME IInv, NEW e \in User, event_del(e)
  PROVE  IInv'
<1>0. VarsTyped /\ TimersInv(b) /\ Served(b, Running) /\ e \in Elements /\ SameCommonTimeout
  BY Kinds DEF IInv
<1>1. PICK h, r, run : h = b /\ r = b' /\ run = Running
  OBVIOUS
<1>2. r = event_del_nolock_(h, e) /\ TimersInv(h) /\ Served(h, run) /\ ApiCall
      /\ UNCHANGED <<ev_io_timeout, duration, pc, cur, now, tv_cache>>
  BY <1>0, <1>1 DEF event_del
<1>3. Deleted(h, e, r)
  BY <1>0, <1>2, Deleting
<1>4. Served(r, run)
  <2>1. /\ r.timeout = h.timeout /\ r.set \subseteq h.set
        /\ \A k \in Queues : (k \in h.set => k \in r.set) /\ (Contains(h.active, k) => Contains(r.active, k))
    BY <1>3, Kinds DEF Deleted
  <2> QED BY <1>2, <2>1, ServedShrinks
<1>5. VarsTyped' /\ Running' = Running
  BY <1>0, <1>2, ApiTyped DEF VarsTyped
<1>6. SameCommonTimeout'
  BY <1>0, <1>1, <1>2, <1>3, SameAgain DEF Deleted
<1>7. TimersInv(r) /\ run = Running' /\ duration' = duration /\ (pc' = "common" => cur' \in Queues)
  BY <1>1, <1>2, <1>3, <1>5 DEF IInv, Deleted
<1> QED BY <1>1, <1>4, <1>5, <1>6, <1>7, Assemble

LEMMA StepRemoveTimer ==
  ASSUME IInv, NEW e \in Events, event_remove_timer(e)
  PROVE  IInv'
<1>0. VarsTyped /\ TimersInv(b) /\ Served(b, Running) /\ e \in User
  BY Subsets DEF IInv
<1>1. PICK h, r, run : h = b /\ r = b' /\ run = Running
  OBVIOUS
<1>2. r = event_queue_remove_timeout(h, e) /\ ListsInv(h) /\ Bounded(h) /\ Served(h, run) /\ ApiCall
      /\ e \in h.set /\ ev_io_timeout' = [ev_io_timeout EXCEPT ![e] = Tv(0, None)]
      /\ UNCHANGED <<duration, pc, cur, now, tv_cache>>
  BY <1>0, <1>1 DEF event_remove_timer, TimersInv
<1>3. /\ ListsInv(r) /\ r.set = h.set \ {e} /\ r.timeout = h.timeout /\ r.active = h.active
  BY <1>2, RemoveTimeout
<1>4. Served(r, run)
  <2>1. /\ r.timeout = h.timeout /\ r.set \subseteq h.set
        /\ \A k \in Queues : (k \in h.set => k \in r.set) /\ (Contains(h.active, k) => Contains(r.active, k))
    BY <1>0, <1>3, Kinds
  <2> QED BY <1>2, <2>1, ServedShrinks
<1>5. VarsTyped' /\ Running' = Running
  <2>1. Tv(0, None) \in TvRec
    BY DEF Tv, TvRec
  <2>2. ev_io_timeout' \in [User -> TvRec]
    BY <1>0, <1>2, <2>1 DEF VarsTyped
  <2> QED BY <1>0, <1>2, <2>2, ApiTyped
<1>6. SameCommonTimeout'
  <2> SUFFICES ASSUME NEW x \in Persist, ev_io_timeout'[x].t # 0 PROVE r.timeout[x].q = ev_io_timeout'[x].q
    BY <1>1 DEF SameCommonTimeout
  <2>1. x \in User /\ ev_io_timeout \in [User -> TvRec]
    BY <1>0, Subsets DEF VarsTyped
  <2>2. x # e
    BY <1>2, <2>1 DEF Tv
  <2>3. ev_io_timeout'[x] = ev_io_timeout[x] /\ r.timeout[x] = b.timeout[x]
    BY <1>1, <1>2, <1>3, <2>1, <2>2
  <2> QED BY <2>3 DEF IInv, SameCommonTimeout
<1>7. TimersInv(r) /\ run = Running' /\ duration' = duration /\ (pc' = "common" => cur' \in Queues)
  BY <1>1, <1>2, <1>3, <1>5 DEF IInv, TimersInv, Bounded
<1> QED BY <1>1, <1>4, <1>5, <1>6, <1>7, Assemble

LEMMA StepActive ==
  ASSUME IInv, NEW e \in Events, event_active(e)
  PROVE  IInv'
<1>0. VarsTyped /\ TimersInv(b) /\ Served(b, Running) /\ e \in Elements /\ SameCommonTimeout
  BY Kinds, Subsets DEF IInv
<1>1. PICK h, r, run : h = b /\ r = b' /\ run = Running
  OBVIOUS
<1>2. r = event_active_nolock_(h, e, "READ") /\ TimersInv(h) /\ Served(h, run) /\ ApiCall
      /\ UNCHANGED <<ev_io_timeout, duration, pc, cur, now, tv_cache>>
  BY <1>0, <1>1 DEF event_active
<1>3. /\ TimersInv(r) /\ r.set = h.set /\ r.timeout = h.timeout
      /\ \A x : Contains(r.active, x) <=> Contains(h.active, x) \/ x = e
  <2>1. TimersInv(h) /\ r = event_active_nolock_(h, e, "READ") /\ e \in Elements
    BY <1>0, <1>2
  <2>2. Activated(h, e, r)
    BY <2>1, Activating
  <2> QED BY <2>2 DEF Activated
<1>4. Served(r, run)
  BY <1>2, <1>3, ServedShrinks
<1>5. VarsTyped' /\ Running' = Running
  BY <1>0, <1>2, ApiTyped DEF VarsTyped
<1>6. SameCommonTimeout'
  BY <1>0, <1>1, <1>2, <1>3, SameAgain
<1>7. run = Running' /\ duration' = duration /\ (pc' = "common" => cur' \in Queues)
  BY <1>1, <1>2, <1>5 DEF IInv
<1> QED BY <1>1, <1>3, <1>4, <1>5, <1>6, <1>7, Assemble

\* One turn of timeout_process: what is taken off the heap becomes active.
LEMMA StepProcess ==
  ASSUME IInv, timeout_process
  PROVE  IInv'
<1>0. VarsTyped /\ TimersInv(b) /\ Served(b, None) /\ SameCommonTimeout /\ pc = "timeouts"
  BY DEF IInv, timeout_process, Running
<1>1. UNCHANGED <<ev_io_timeout, duration, cur, now, tv_cache, calls>> /\ pc' \in {"timeouts", "run"}
  BY <1>0 DEF timeout_process
<1>2. VarsTyped' /\ Running' = None
  BY <1>0, <1>1 DEF VarsTyped, Running
<1>3. PICK h, r, run : h = b /\ r = b' /\ run = Running'
  OBVIOUS
<1>4. TimersInv(r) /\ Served(r, None) /\ \A x \in User : r.timeout[x] = b.timeout[x]
  <2>1. CASE TopIsDue
    <3>1. PICK e \in Elements : e = h.p[0]
      <4>1. h \in HRec /\ 0 \in DOMAIN h.p
        BY <1>0, <1>3, <2>1, TimersFields DEF TopIsDue
      <4> QED BY <4>1, HeapShape
    <3>2. PICK g : g = event_del_nolock_(h, e)
      OBVIOUS
    <3>3. TimersInv(h) /\ Served(h, None) /\ r = event_active_nolock_(g, e, "TIMEOUT")
      BY <1>0, <1>3, <2>1, <3>1, <3>2 DEF timeout_process, min_heap_top_
    <3>4. Deleted(h, e, g)
      BY <3>2, <3>3, Deleting
    <3>5. TimersInv(g)
      BY <3>4 DEF Deleted
    <3>6. /\ TimersInv(r) /\ r.set = g.set /\ r.timeout = g.timeout
          /\ \A x : Contains(r.active, x) <=> Contains(g.active, x) \/ x = e
      <4>1. Activated(g, e, r)
        BY <3>3, <3>5, Activating
      <4> QED BY <4>1 DEF Activated
    <3>7. /\ r.timeout = h.timeout /\ r.set = h.set \ {e}
          /\ \A x : x # e => (Contains(r.active, x) <=> Contains(h.active, x))
          /\ Contains(r.active, e)
      BY <3>4, <3>6 DEF Deleted
    <3>8. ASSUME NEW k \in Queues, NEW x \in r.set, r.timeout[x].q = k PROVE Serves(r, k, x, None)
      <4>1. Serves(h, k, x, None)
        BY <3>3, <3>7, <3>8 DEF Served
      <4>2. NotLater(h, k, x) <=> NotLater(r, k, x)
        BY <3>7 DEF NotLater
      <4>3. CASE k = e
        BY <3>7, <4>3 DEF Serves
      <4>4. CASE k # e
        BY <3>7, <4>1, <4>2, <4>4 DEF Serves
      <4> QED BY <4>3, <4>4
    <3> QED BY <1>3, <3>6, <3>7, <3>8 DEF Served
  <2>2. CASE ~TopIsDue
    BY <1>0, <1>3, <2>2 DEF timeout_process
  <2> QED BY <2>1, <2>2
<1>5. SameCommonTimeout'
  BY <1>0, <1>1, <1>3, <1>4, SameAgain
<1>6. run = Running' /\ duration' = duration /\ (pc' = "common" => cur' \in Queues) /\ Served(r, run)
  BY <1>1, <1>2, <1>3, <1>4
<1> QED BY <1>2, <1>3, <1>4, <1>5, <1>6, Assemble

\* What event_persist_closure schedules.
LEMMA NextRunIs ==
  ASSUME VarsTyped, TimersInv(b), SameCommonTimeout, NEW e \in Persist, ev_io_timeout[e].t # 0
  PROVE  NextRun(e) \in TvRec /\ NextRun(e).q = ev_io_timeout[e].q /\ NextRun(e).q = b.timeout[e].q
<1>0. e \in User /\ e \in Elements /\ gettime \in Nat /\ b.timeout[e].q = ev_io_timeout[e].q
  BY Now, Subsets, Kinds DEF SameCommonTimeout
<1>1. b.timeout[e] \in TvRec /\ ev_io_timeout[e] \in TvRec /\ b \in HRec
  BY <1>0, TimersFields DEF VarsTyped
<1>2. b.timeout[e].t \in Nat /\ ev_io_timeout[e].t \in Nat /\ b.timeout[e].q \in Queues \cup {None}
  BY <1>1 DEF TvRec
<1>3. is_common_timeout(b.timeout[e]) <=> b.timeout[e].q # None
  BY <1>0 DEF TimersInv, Bounded, is_common_timeout
<1>4. PICK k, from, at : /\ k = IF is_common_timeout(b.timeout[e]) THEN ev_io_timeout[e].q ELSE None
                         /\ from = IF "TIMEOUT" \in b.res[e] THEN b.timeout[e].t ELSE gettime
                         /\ at = IF from + ev_io_timeout[e].t < gettime THEN gettime + ev_io_timeout[e].t
                                 ELSE from + ev_io_timeout[e].t
  OBVIOUS
<1>5. NextRun(e) = Tv(at, k)
  BY <1>4 DEF NextRun
<1>6. k = ev_io_timeout[e].q /\ k \in Queues \cup {None}
  BY <1>0, <1>2, <1>3, <1>4
<1>7. from \in Nat
  BY <1>0, <1>2, <1>4
<1>8. at \in Nat
  BY <1>0, <1>2, <1>4, <1>7
<1> QED BY <1>0, <1>5, <1>6, <1>8 DEF Tv, TvRec

LEMMA StepStart ==
  ASSUME IInv, start_callback
  PROVE  IInv'
<1>0. VarsTyped /\ TimersInv(b) /\ Served(b, None) /\ SameCommonTimeout /\ pc = "run"
  BY DEF IInv, start_callback, Running
<1>1. UNCHANGED <<ev_io_timeout, duration, now, tv_cache, calls>> /\ b.active # <<>>
  BY DEF start_callback
<1>2. PICK h, r, run : h = b /\ r = b' /\ run = Running'
  OBVIOUS
<1>3. TimersInv(h) /\ Served(h, None) /\ h.active \in Seq(Elements) /\ h \in HRec
      /\ h.res \in [Elements -> SUBSET {"TIMEOUT", "READ"}]
  BY <1>0, <1>2, TimersFields
<1>4. PICK e \in Elements : e = Head(h.active)
  BY <1>1, <1>2, <1>3
<1>5. cur' = e /\ pc' = IF e \in Queues THEN "common" ELSE "callback"
  BY <1>2, <1>4 DEF start_callback
<1>6. VarsTyped' /\ (pc' = "common" => cur' \in Queues) /\ Running' = IF e \in Queues THEN e ELSE None
  BY <1>0, <1>1, <1>5 DEF VarsTyped, Running
<1>7. CASE e \notin Persist
  <2>1. r = event_del_nolock_(h, e)
    BY <1>2, <1>4, <1>7 DEF start_callback
  <2>2. Deleted(h, e, r)
    BY <1>3, <2>1, Deleting
  <2>3. ASSUME NEW k \in Queues, NEW x \in r.set, r.timeout[x].q = k PROVE Serves(r, k, x, run)
    <3>1. Serves(h, k, x, None)
      BY <1>3, <2>2, <2>3 DEF Served, Deleted
    <3>2. NotLater(h, k, x) <=> NotLater(r, k, x)
      BY <2>2 DEF NotLater, Deleted
    <3>3. CASE k = e
      BY <1>2, <1>6, <3>3 DEF Serves
    <3>4. CASE k # e
      BY <2>2, <3>1, <3>2, <3>4, Kinds DEF Serves, Deleted
    <3> QED BY <3>3, <3>4
  <2>4. Served(r, run) /\ TimersInv(r)
    BY <2>2, <2>3 DEF Served, Deleted
  <2>5. SameCommonTimeout'
    BY <1>0, <1>1, <1>2, <2>2, SameAgain DEF Deleted
  <2> QED BY <1>1, <1>2, <1>6, <2>4, <2>5, Assemble
<1>8. CASE e \in Persist
  <2>0. e \in User /\ e \notin Queues
    BY <1>8, Subsets, Kinds
  <2>1. PICK act, res : act = Tail(h.active) /\ res = h.res
    OBVIOUS
  <2>2. /\ act \in Seq(Elements) /\ Len(act) = Len(h.active) - 1 /\ Len(h.active) \in Nat
        /\ \A i \in 1 .. Len(act) : act[i] = h.active[i + 1]
        /\ h.active[1] = e
    BY <1>1, <1>2, <1>3, <1>4, <2>1, HeadTailProperties
  <2>3. \A k \in Queues : Contains(h.active, k) => Contains(act, k)
    <3> SUFFICES ASSUME NEW k \in Queues, NEW i \in 1 .. Len(h.active), h.active[i] = k
                 PROVE  \E j \in 1 .. Len(act) : act[j] = k
      BY DEF Contains
    <3>1. i # 1
      BY <2>0, <2>2
    <3>2. i - 1 \in 1 .. Len(act) /\ (i - 1) + 1 = i
      BY <2>2, <3>1
    <3>3. act[i - 1] = k
      BY <2>2, <3>2
    <3> QED BY <3>2, <3>3
  <2>4. PICK g : g = WithActive(h, act, res)
    OBVIOUS
  <2>5. /\ TimersInv(g) /\ g.set = h.set /\ g.timeout = h.timeout /\ g.active = act
    <3>1. TimersInv(h) /\ act \in Seq(Elements) /\ res \in [Elements -> SUBSET {"TIMEOUT", "READ"}]
      BY <1>3, <2>1, <2>2
    <3>2. /\ TimersInv(g) /\ g.set = h.set /\ g.timeout = h.timeout /\ g.queue = h.queue
          /\ g.active = act /\ g.res = res
      BY <2>4, <3>1, OtherActive
    <3> QED BY <3>2
  <2>6. Served(g, None)
    BY <1>3, <2>3, <2>5, ServedShrinks
  <2>7. g = [b EXCEPT !.active = Tail(@)]
    BY <1>2, <1>3, <2>1, <2>4 DEF WithActive, HRec
  <2>8. run = None
    BY <1>2, <1>6, <2>0
  <2>9. CASE ev_io_timeout[e].t = 0
    <3>1. r = g
      BY <1>2, <1>4, <1>8, <2>7, <2>9 DEF start_callback
    <3>2. SameCommonTimeout'
      BY <1>0, <1>1, <1>2, <2>5, <3>1, SameAgain
    <3> QED BY <1>1, <1>2, <1>6, <2>5, <2>6, <2>8, <3>1, <3>2, Assemble
  <2>10. CASE ev_io_timeout[e].t # 0
    <3>1. PICK at : at = NextRun(e)
      OBVIOUS
    <3>2. at \in TvRec /\ at.q = ev_io_timeout[e].q /\ at.q = b.timeout[e].q
      BY <1>0, <1>8, <2>10, <3>1, NextRunIs
    <3>3. Allowed(e, at)
      BY <1>0, <2>0, <3>2, Kinds DEF Allowed, TimersInv, Bounded
    <3>4. r = event_add_nolock_(g, e, at)
      BY <1>2, <1>4, <1>8, <2>7, <2>10, <3>1 DEF start_callback
    <3>g. TimersInv(g)
      BY <2>5
    <3>5. /\ TimersInv(r) /\ Served(r, None) /\ r.timeout[e] = at
          /\ \A x \in User : x # e => r.timeout[x] = g.timeout[x]
      BY <2>0, <2>6, <3>3, <3>4, <3>g, EventAdd
    <3>6. SameCommonTimeout'
      <4> SUFFICES ASSUME NEW x \in Persist, ev_io_timeout[x].t # 0 PROVE r.timeout[x].q = ev_io_timeout[x].q
        BY <1>1, <1>2 DEF SameCommonTimeout
      <4>1. CASE x = e
        BY <3>2, <3>5, <4>1
      <4>2. CASE x # e
        <5>1. r.timeout[x] = b.timeout[x]
          BY <1>2, <2>5, <3>5, <4>2, Subsets
        <5> QED BY <1>0, <5>1 DEF SameCommonTimeout
      <4> QED BY <4>1, <4>2
    <3> QED BY <1>1, <1>2, <1>6, <2>8, <3>5, <3>6, Assemble
  <2> QED BY <2>9, <2>10
<1> QED BY <1>7, <1>8

LEMMA StepCommon ==
  ASSUME IInv, common_timeout_callback
  PROVE  IInv'
<1>0. VarsTyped /\ TimersInv(b) /\ Served(b, cur) /\ SameCommonTimeout /\ pc = "common" /\ cur \in Queues
  BY DEF IInv, common_timeout_callback, Running
<1>1. UNCHANGED <<ev_io_timeout, duration, now, tv_cache, calls>> /\ pc' = "run" /\ cur' = None
  BY DEF common_timeout_callback
<1>2. VarsTyped' /\ Running' = None
  BY <1>0, <1>1 DEF VarsTyped, Running
<1>3. PICK h, r, run : h = b /\ r = b' /\ run = Running'
  OBVIOUS
<1>4. PICK k \in Queues : k = cur
  BY <1>0
<1>5. PICK s \in Seq(User) : s = h.queue[k]
  BY <1>0, <1>3, TimersFields
<1>6. PICK n : n = Expired(h, s)
  OBVIOUS
<1>7. n \in 0 .. Len(s)
  <2> DEFINE late == {i \in 1 .. Len(s) : h.timeout[s[i]].t > gettime}
  <2>0. Len(s) \in Nat
    OBVIOUS
  <2>1. n = IF late = {} THEN Len(s) ELSE Min(late) - 1
    BY <1>6 DEF Expired
  <2>2. late \in SUBSET Nat /\ late \subseteq 1 .. Len(s)
    BY <2>0
  <2>3. late # {} => Min(late) \in late
    <3> HIDE DEF late
    <3> QED BY <2>2, MinOfNat
  <2>4. CASE late = {}
    BY <2>0, <2>1, <2>4
  <2>5. CASE late # {}
    <3>1. PICK m \in 1 .. Len(s) : m = Min(late)
      BY <2>2, <2>3, <2>5
    <3>2. n = m - 1
      BY <2>1, <2>5, <3>1
    <3> QED BY <2>0, <3>1, <3>2
  <2> QED BY <2>4, <2>5
<1>8. r = IF n = Len(s) THEN FireFirst(h, s, n) ELSE ScheduleFirst(FireFirst(h, s, n), s[n + 1])
  BY <1>3, <1>4, <1>5, <1>6 DEF common_timeout_callback
<1>9. TimersInv(h) /\ Served(h, k)
  BY <1>0, <1>3, <1>4
<1>10. TimersInv(r) /\ Served(r, None) /\ \A x \in User : r.timeout[x] = h.timeout[x]
  BY <1>5, <1>7, <1>8, <1>9, CommonCallback
<1>11. SameCommonTimeout'
  BY <1>0, <1>1, <1>3, <1>10, SameAgain
<1> QED BY <1>1, <1>2, <1>3, <1>10, <1>11, Assemble

------------------------------------------------------------------------------
(* The initial state.                                                      *)

LEMMA InitTimers ==
  ASSUME Init
  PROVE  IInv
<1>1. PICK n \in Nat : n = Len(Timers)
  BY ConstantsAssumption
<1>2. PICK p : p = [i \in 0 .. (n - 1) |-> Timers[i + 1]]
  OBVIOUS
<1>p. p = FirstHeap
  BY <1>1, <1>2 DEF FirstHeap
<1>3. PICK at \in [TimerSet -> 2 .. MaxTime] :
        /\ \A i \in 1 .. (n - 1) : at[p[Parent(i)]] =< at[p[i]]
        /\ b = FirstTimers(at)
  BY <1>1, <1>p DEF Init
<1>4. PICK idx, queue, timeout, active, res :
        /\ idx = [x \in Elements |-> IF x \in TimerSet THEN Place(p, x) ELSE -1]
        /\ queue = [k \in Queues |-> <<>>]
        /\ timeout = [x \in Elements |-> Tv(IF x \in TimerSet THEN at[x] ELSE 0, None)]
        /\ active = <<>> /\ res = [x \in Elements |-> {}]
  OBVIOUS
<1>5. PICK h : h = [p |-> p, idx |-> idx, queue |-> queue, set |-> TimerSet, timeout |-> timeout,
                    active |-> active, res |-> res]
  OBVIOUS
<1>6. b = h
  BY <1>3, <1>4, <1>5, <1>p DEF FirstTimers
<1>7. /\ h.p = p /\ h.idx = idx /\ h.queue = queue /\ h.set = TimerSet /\ h.timeout = timeout
      /\ h.active = active /\ h.res = res
  BY <1>5
<1>8. TimerSet \subseteq User /\ TimerSet \subseteq Elements
  BY DEF User, Elements
<1>9. \A i \in 0 .. (n - 1) : p[i] \in TimerSet /\ p[i] \in Elements
  <2> SUFFICES ASSUME NEW i \in 0 .. (n - 1) PROVE p[i] \in TimerSet
    BY <1>8
  <2>1. i + 1 \in 1 .. Len(Timers) /\ p[i] = Timers[i + 1]
    BY <1>1, <1>2
  <2> QED BY <2>1 DEF TimerSet
<1>10. \A x \in TimerSet : \E i \in 0 .. (n - 1) : p[i] = x
  <2> SUFFICES ASSUME NEW x \in TimerSet PROVE \E i \in 0 .. (n - 1) : p[i] = x
    OBVIOUS
  <2>1. PICK j \in 1 .. Len(Timers) : x = Timers[j]
    BY DEF TimerSet
  <2>2. j - 1 \in 0 .. (n - 1) /\ (j - 1) + 1 = j
    BY <1>1
  <2>3. p[j - 1] = x
    BY <1>2, <2>1, <2>2
  <2> QED BY <2>2, <2>3
<1>11. \A i, j \in 0 .. (n - 1) : p[i] = p[j] => i = j
  <2> SUFFICES ASSUME NEW i \in 0 .. (n - 1), NEW j \in 0 .. (n - 1), p[i] = p[j] PROVE i = j
    OBVIOUS
  <2>1. i + 1 \in 1 .. Len(Timers) /\ j + 1 \in 1 .. Len(Timers) /\ Timers[i + 1] = Timers[j + 1]
    BY <1>1, <1>2
  <2>2. i + 1 = j + 1
    BY <2>1, ConstantsAssumption
  <2> QED BY <2>2
<1>12. \A x \in TimerSet : idx[x] \in 0 .. (n - 1) /\ p[idx[x]] = x
  <2> SUFFICES ASSUME NEW x \in TimerSet PROVE idx[x] \in 0 .. (n - 1) /\ p[idx[x]] = x
    OBVIOUS
  <2>1. \E i \in DOMAIN p : p[i] = x
    BY <1>2, <1>10
  <2>2. idx[x] = Place(p, x)
    BY <1>4, <1>8
  <2>3. Place(p, x) \in DOMAIN p /\ p[Place(p, x)] = x
    BY <2>1, PlaceIs
  <2> QED BY <1>2, <2>2, <2>3
<1>13. idx \in [Elements -> Int]
  <2>1. \A x \in Elements : idx[x] \in Int
    <3> SUFFICES ASSUME NEW x \in Elements PROVE idx[x] \in Int
      OBVIOUS
    <3>1. CASE x \in TimerSet
      <4>1. idx[x] \in 0 .. (n - 1)
        BY <1>12, <3>1
      <4> QED BY <4>1
    <3>2. CASE x \notin TimerSet
      BY <1>4, <3>2
    <3> QED BY <3>1, <3>2
  <2>2. idx = [x \in Elements |-> idx[x]]
    BY <1>4
  <2> QED BY <2>1, <2>2
<1>14. timeout \in [Elements -> TvRec] /\ \A x \in Elements : timeout[x].q = None
  <2>1. \A x \in TimerSet : at[x] \in Nat
    BY <1>3
  <2>2. \A x \in Elements : Tv(IF x \in TimerSet THEN at[x] ELSE 0, None) \in TvRec
    BY <2>1 DEF Tv, TvRec
  <2> QED BY <1>4, <2>2 DEF Tv
<1>15. p \in [0 .. (n - 1) -> Elements] /\ p \in Heaps
  <2>1. p \in [0 .. (n - 1) -> Elements]
    BY <1>2, <1>9
  <2> QED BY <2>1 DEF Heaps
<1>16. \A k \in Queues : queue[k] = <<>> /\ Len(queue[k]) = 0
  BY <1>4
<1>17. queue \in [Queues -> Seq(User)] /\ active \in Seq(Elements) /\ res \in [Elements -> SUBSET {"TIMEOUT", "READ"}]
  BY <1>4
<1>18. h \in HRec
  BY <1>5, <1>8, <1>13, <1>14, <1>15, <1>17 DEF HRec
<1>19. Ordered(h)
  <2> SUFFICES ASSUME NEW i \in 0 .. (n - 1)
               PROVE  (i > 0 => ~(timeout[p[Parent(i)]].t > timeout[p[i]].t)) /\ idx[p[i]] = i
    BY <1>7, <1>15 DEF Ordered, min_heap_elem_greater
  <2>1. idx[p[i]] = i
    BY <1>9, <1>11, <1>12
  <2>2. ASSUME i > 0 PROVE ~(timeout[p[Parent(i)]].t > timeout[p[i]].t)
    <3>1. Parent(i) \in 0 .. (n - 1) /\ i \in 1 .. (n - 1)
      BY <2>2, ParentFacts
    <3>2. at[p[Parent(i)]] =< at[p[i]] /\ at[p[Parent(i)]] \in Nat /\ at[p[i]] \in Nat
      BY <1>3, <1>9, <3>1
    <3>3. \A x \in TimerSet : timeout[x].t = at[x]
      BY <1>4, <1>8 DEF Tv
    <3> QED BY <1>9, <3>1, <3>2, <3>3
  <2> QED BY <2>1, <2>2
<1>20. \A x \in Elements : Holds(h, x) <=> (x \in h.set /\ h.timeout[x].q = None)
  BY <1>7, <1>9, <1>10, <1>14, <1>15 DEF Holds
<1>21. \A k \in Queues : \A x \in Elements : Contains(h.queue[k], x) <=> (x \in h.set /\ h.timeout[x].q = k)
  BY <1>7, <1>14, <1>16, Kinds DEF Contains
<1>22. \A k \in Queues : Sorted(h, k)
  BY <1>7, <1>16 DEF Sorted
<1>23. TimersInv(h)
  BY <1>7, <1>14, <1>18, <1>19, <1>20, <1>21, <1>22, Kinds DEF TimersInv, ListsInv, Bounded
<1>24. Served(h, Running)
  BY <1>7, <1>8, <1>14, Kinds DEF Served
<1>25. VarsTyped
  <2>1. ev_io_timeout \in [User -> TvRec]
    BY DEF Init, Tv, TvRec
  <2>2. duration = <<>> /\ Len(duration) =< MaxCommon /\ 0 \in 0 .. MaxCalls
    BY ConstantsAssumption DEF Init
  <2> QED BY <2>1, <2>2 DEF Init, VarsTyped
<1>26. SameCommonTimeout
  BY Subsets DEF Init, SameCommonTimeout, Tv
<1> QED BY <1>6, <1>23, <1>24, <1>25, <1>26 DEF IInv, Init

------------------------------------------------------------------------------
(* Every step keeps the invariant.                                         *)

LEMMA NextKeepsIInv ==
  ASSUME IInv, [Next]_vars
  PROVE  IInv'
<1>1. CASE UNCHANGED vars
  BY <1>1 DEF vars, IInv, VarsTyped, TimersInv, Bounded, ListsInv, Sorted, Ordered, Holds, NotLater,
              min_heap_elem_greater, Served, Serves, Running, SameCommonTimeout
<1>2. CASE wake \/ return_callback \/ return_limit \/ next_iteration \/ Tick
  BY <1>2, StepPc
<1>3. CASE timeout_process
  BY <1>3, StepProcess
<1>4. CASE start_callback
  BY <1>4, StepStart
<1>5. CASE common_timeout_callback
  BY <1>5, StepCommon
<1>6. ASSUME NEW d \in Durations, event_base_init_common_timeout(d) PROVE IInv'
  BY <1>6, StepInit
<1>7. ASSUME NEW e \in Events, NEW d \in Delays, event_add(e, Tv(d, None)) PROVE IInv'
  <2>0. d \in Nat
    BY Subsets
  <2>1. PICK tv : tv = Tv(d, None)
    OBVIOUS
  <2>2. tv \in TvRec /\ tv.q = None
    BY <2>0, <2>1 DEF Tv, TvRec
  <2>3. event_add(e, tv)
    BY <1>7, <2>1
  <2> QED BY <2>2, <2>3, StepAdd
<1>8. ASSUME NEW e \in Events, NEW k \in 1 .. Len(duration), event_add(e, Tv(duration[k], k - 1)) PROVE IInv'
  <2>1. duration \in Seq(Durations) /\ Len(duration) =< MaxCommon /\ Len(duration) \in Nat
    BY DEF IInv, VarsTyped
  <2>2. duration[k] \in Nat /\ k - 1 \in Queues /\ k - 1 < Len(duration)
    <3>1. duration[k] \in Durations
      BY <2>1
    <3>2. k - 1 \in Nat /\ k - 1 < MaxCommon /\ k - 1 < Len(duration)
      BY <2>1, ConstantsAssumption
    <3> QED BY <3>1, <3>2, Subsets
  <2>3. PICK tv : tv = Tv(duration[k], k - 1)
    OBVIOUS
  <2>4. tv \in TvRec /\ tv.q < Len(duration)
    BY <2>2, <2>3 DEF Tv, TvRec
  <2>5. event_add(e, tv)
    BY <1>8, <2>3
  <2> QED BY <2>4, <2>5, StepAdd
<1>9. ASSUME NEW e \in Events, event_remove_timer(e) PROVE IInv'
  BY <1>9, StepRemoveTimer
<1>10. ASSUME NEW e \in Events, event_active(e) PROVE IInv'
  BY <1>10, StepActive
<1>11. ASSUME NEW e \in User, event_del(e) PROVE IInv'
  BY <1>11, StepDel
<1> QED BY <1>1, <1>2, <1>3, <1>4, <1>5, <1>6, <1>7, <1>8, <1>9, <1>10, <1>11 DEF Next

LEMMA Invariance == Spec => []IInv
<1>1. Init => IInv
  BY InitTimers
<1>2. IInv /\ [Next]_vars => IInv'
  BY NextKeepsIInv
<1> QED BY <1>1, <1>2, PTL DEF Spec

------------------------------------------------------------------------------
(* What the invariant says.                                                *)

LEMMA ElementsFinite == IsFiniteSet(Elements)
<1>1. IsFiniteSet(Queues)
  BY ConstantsAssumption, FS_Interval DEF Queues
<1>2. IsFiniteSet(TimerSet)
  <2>1. IsFiniteSet(1 .. Len(Timers)) /\ Len(Timers) \in Nat
    BY ConstantsAssumption, FS_Interval
  <2>2. Timers \in Surjection(1 .. Len(Timers), TimerSet)
    BY ConstantsAssumption DEF Surjection, TimerSet
  <2> QED BY <2>1, <2>2, FS_Surjection
<1>3. IsFiniteSet(Events)
  BY ConstantsAssumption
<1>4. IsFiniteSet(Events \cup TimerSet)
  BY <1>2, <1>3, FS_Union
<1> QED BY <1>1, <1>4, FS_Union DEF Elements, User

\* No element is in the heap twice, so there are no more places than elements.
LEMMA HeapFits ==
  ASSUME NEW h \in HRec, Ordered(h)
  PROVE  \E n \in 0 .. Cardinality(Elements) : h.p \in [0 .. (n - 1) -> Elements]
<1>1. PICK n \in Nat : h.p \in [0 .. (n - 1) -> Elements] /\ DOMAIN h.p = 0 .. (n - 1)
  BY HeapShape
<1>2. \A i, j \in 0 .. (n - 1) : h.p[i] = h.p[j] => i = j
  BY <1>1 DEF Ordered
<1>3. h.p \in Injection(0 .. (n - 1), Elements)
  BY <1>1, <1>2 DEF Injection, IsInjective
<1>4. Cardinality(0 .. (n - 1)) =< Cardinality(Elements)
  BY <1>3, ElementsFinite, FS_Injection
<1>5. Cardinality(0 .. (n - 1)) = n
  <2>1. Cardinality(0 .. (n - 1)) = IF 0 > n - 1 THEN 0 ELSE (n - 1) - 0 + 1
    BY FS_Interval
  <2> QED BY <2>1
<1>6. Cardinality(Elements) \in Nat
  BY ElementsFinite, FS_CardinalityType
<1> QED BY <1>1, <1>4, <1>5, <1>6

\* min_heap_top_ is not later than any element of the heap.
LEMMA TopIsEarliest ==
  ASSUME NEW h \in HRec, Ordered(h), NEW x \in Elements, Holds(h, x)
  PROVE  0 \in DOMAIN h.p /\ NotLater(h, h.p[0], x)
<1>1. PICK n \in Nat : h.p \in [0 .. (n - 1) -> Elements] /\ DOMAIN h.p = 0 .. (n - 1)
  BY HeapShape
<1>2. PICK i \in 0 .. (n - 1) : h.p[i] = x
  BY <1>1 DEF Holds
<1>3. 0 \in 0 .. (n - 1) /\ h.p[0] \in Elements
  BY <1>1, <1>2
<1> DEFINE S == {j \in Nat : j < n => NotLater(h, h.p[0], h.p[j])}
<1>4. ASSUME NEW j \in Nat, \A m \in 0 .. (j - 1) : m \in S PROVE j \in S
  <2> SUFFICES ASSUME j < n PROVE NotLater(h, h.p[0], h.p[j])
    OBVIOUS
  <2>1. CASE j = 0
    BY <1>3, <2>1, Times DEF NotLater
  <2>2. CASE j # 0
    <3>1. PICK q \in Nat : q = Parent(j) /\ q < j
      BY <2>2, ParentFacts
    <3>2. NotLater(h, h.p[0], h.p[q])
      BY <1>4, <3>1
    <3>3. j \in DOMAIN h.p /\ h.p[q] \in Elements /\ h.p[j] \in Elements /\ j > 0
      BY <1>1, <2>2, <3>1
    <3>4. NotLater(h, h.p[q], h.p[j])
      BY <3>1, <3>3, Times DEF Ordered
    <3> QED BY <1>3, <3>2, <3>3, <3>4, Times
  <2> QED BY <2>1, <2>2
<1>5. Nat \subseteq S
  <2> HIDE DEF S
  <2> QED BY <1>4, StrongInduction
<1>6. NotLater(h, h.p[0], h.p[i])
  BY <1>2, <1>5
<1> QED BY <1>1, <1>2, <1>3, <1>6

\* Every variable of the timers keeps its type, and the heap never has more places than there
\* are events, whatever min_heap_push_ and min_heap_erase_ move.
THEOREM TimersAreTyped == Spec => []TypeOK
<1>1. ASSUME IInv PROVE TypeOK
  <2>1. VarsTyped /\ b \in HRec /\ Ordered(b)
    BY <1>1 DEF IInv, TimersInv, ListsInv
  <2>2. \E n \in 0 .. Cardinality(Elements) : b.p \in [0 .. (n - 1) -> Elements]
    BY <2>1, HeapFits
  <2>3. /\ b.idx \in [Elements -> Int] /\ b.queue \in [Queues -> Seq(User)]
        /\ b.set \in SUBSET Elements /\ b.timeout \in [Elements -> TvRec]
        /\ b.active \in Seq(Elements) /\ b.res \in [Elements -> SUBSET {"TIMEOUT", "READ"}]
    BY <2>1, FieldTypes
  <2> QED BY <2>1, <2>2, <2>3 DEF TypeOK, VarsTyped, TvRec
<1> QED BY <1>1, Invariance, PTL

\* The heap is ordered and back-indexed, the queues are sorted, every event with
\* EVLIST_TIMEOUT is in the one list its timeout names, and event_persist_closure finds the
\* queue it expects: for heaps and queues of any size.
THEOREM HeapAndQueuesAlwaysAgree == Spec => []HeapAndQueuesAgree
<1>1. ASSUME IInv PROVE HeapAndQueuesAgree
  <2>1. ListsInv(b) /\ SameCommonTimeout
    BY <1>1 DEF IInv, TimersInv
  <2>2. HeapOrdered
    BY <2>1 DEF ListsInv, Ordered, HeapOrdered
  <2>3. TimeoutsMatchLists
    BY <2>1 DEF ListsInv, Sorted, Holds, Contains, NotLater, TimeoutsMatchLists, InQueue
  <2> QED BY <2>1, <2>2, <2>3 DEF HeapAndQueuesAgree
<1> QED BY <1>1, Invariance, PTL

\* Whenever the loop is about to wait, min_heap_top_ is not later than any pending timeout,
\* those that are only in a common timeout queue included: the loop never oversleeps.
THEOREM EarliestIsAlwaysOnTop == Spec => []EarliestIsOnTop
<1>1. ASSUME IInv PROVE EarliestIsOnTop
  <2>1. TimersInv(b) /\ Served(b, Running) /\ b \in HRec /\ Ordered(b) /\ b.set \in SUBSET Elements
    BY <1>1, TimersFields DEF IInv, TimersInv, ListsInv
  <2> SUFFICES ASSUME pc = "wait", b.active = <<>>, NEW e \in b.set
               PROVE  0 \in DOMAIN b.p /\ NotLater(b, b.p[0], e)
    BY DEF EarliestIsOnTop, min_heap_top_, NotLater
  <2>2. PICK f \in b.set : b.timeout[f].q = None /\ NotLater(b, f, e)
    <3>1. CASE b.timeout[e].q = None
      BY <2>1, <3>1, Times DEF NotLater
    <3>2. CASE b.timeout[e].q # None
      <4>1. PICK k \in Queues : b.timeout[e].q = k
        BY <2>1, <3>2, TimersFields DEF TvRec
      <4>2. Serves(b, k, e, None)
        BY <2>1, <4>1 DEF Served, Running
      <4>3. ~Contains(b.active, k)
        BY DEF Contains
      <4>4. k \in b.set /\ NotLater(b, k, e)
        BY <4>2, <4>3, Kinds DEF Serves
      <4>5. b.timeout[k].q = None
        BY <2>1 DEF TimersInv, ListsInv
      <4> QED BY <4>4, <4>5
    <3> QED BY <3>1, <3>2
  <2>3. Holds(b, f) /\ f \in Elements /\ e \in Elements
    BY <2>1, <2>2 DEF TimersInv, ListsInv
  <2>4. 0 \in DOMAIN b.p /\ NotLater(b, b.p[0], f)
    BY <2>1, <2>3, TopIsEarliest
  <2>5. b.p[0] \in Elements
    BY <2>1, <2>4, HeapShape
  <2> QED BY <2>1, <2>2, <2>3, <2>4, <2>5, Times
<1> QED BY <1>1, Invariance, PTL

=============================================================================
