-------------------------- MODULE EventBaseProofs --------------------------
(***************************************************************************)
(* Proofs about EventBase, for every value of its constants: types, the    *)
(* queues and the counters; from these, that the notification protocol     *)
(* loses no wakeup; and last what EventBase promises about the callbacks   *)
(* it runs: a deleted event is quiet, a finalizer runs once and last, a    *)
(* persistent timer stays scheduled, and urgent events go first.           *)
(***************************************************************************)
EXTENDS EventBase, FiniteSetTheorems, WellFoundedInduction, TLAPS

------------------------------------------------------------------------------
(* Sequences without duplicates.                                           *)

\* TAILQ_REMOVE takes c out of a list and keeps the rest, in a list without duplicates.
LEMMA RemoveFromQueue ==
  ASSUME NEW S, NEW s \in Seq(S), NoDuplicates(s), NEW c
  PROVE  /\ TAILQ_REMOVE(s, c) \in Seq(S)
         /\ NoDuplicates(TAILQ_REMOVE(s, c))
         /\ \A d : InQueue(TAILQ_REMOVE(s, c), d) <=> (InQueue(s, d) /\ d # c)
<1>1. CASE ~\E i \in 1 .. Len(s) : s[i] = c
  BY <1>1 DEF TAILQ_REMOVE, InQueue
<1>2. CASE \E i \in 1 .. Len(s) : s[i] = c
  <2> DEFINE i == CHOOSE i \in 1 .. Len(s) : s[i] = c
             r == [j \in 1 .. (Len(s) - 1) |-> IF j < i THEN s[j] ELSE s[j + 1]]
  <2>1. i \in 1 .. Len(s) /\ s[i] = c
    BY <1>2
  <2>2. TAILQ_REMOVE(s, c) = r
    BY <1>2 DEF TAILQ_REMOVE
  <2> HIDE DEF i
  <2>3. Len(s) \in Nat /\ \A j \in 1 .. Len(s) : s[j] \in S
    OBVIOUS
  <2>4. r \in Seq(S) /\ Len(r) = Len(s) - 1
    BY <2>1, <2>3
  <2>5. \A j \in 1 .. Len(r) : r[j] = IF j < i THEN s[j] ELSE s[j + 1]
    BY <2>4
  <2> HIDE DEF r
  <2>6. NoDuplicates(r)
    BY <2>1, <2>3, <2>4, <2>5 DEF NoDuplicates
  <2>7. ASSUME NEW d PROVE InQueue(r, d) <=> (InQueue(s, d) /\ d # c)
    <3>1. ASSUME InQueue(r, d) PROVE InQueue(s, d) /\ d # c
      BY <2>1, <2>3, <2>4, <2>5, <3>1 DEF InQueue, NoDuplicates
    <3>2. ASSUME InQueue(s, d), d # c PROVE InQueue(r, d)
      <4>1. PICK k \in 1 .. Len(s) : s[k] = d
        BY <3>2 DEF InQueue
      <4>2. CASE k < i
        BY <4>1, <4>2, <2>1, <2>3, <2>4, <2>5 DEF InQueue
      <4>3. CASE k > i
        <5>1. k - 1 \in 1 .. Len(r) /\ r[k - 1] = s[k]
          BY <4>1, <4>3, <2>1, <2>3, <2>4, <2>5
        <5> QED BY <5>1, <4>1 DEF InQueue
      <4> QED BY <4>1, <4>2, <4>3, <3>2, <2>1, <2>3
    <3> QED BY <3>1, <3>2
  <2> QED BY <2>2, <2>4, <2>6, <2>7
<1> QED BY <1>1, <1>2

\* TAILQ_INSERT_TAIL of a callback that is not on the list.
LEMMA AppendToQueue ==
  ASSUME NEW S, NEW s \in Seq(S), NoDuplicates(s), NEW c \in S, ~InQueue(s, c)
  PROVE  /\ Append(s, c) \in Seq(S)
         /\ NoDuplicates(Append(s, c))
         /\ \A d : InQueue(Append(s, c), d) <=> (InQueue(s, d) \/ d = c)
<1>1. Len(Append(s, c)) = Len(s) + 1 /\ Len(s) \in Nat
  OBVIOUS
<1>2. \A j \in 1 .. Len(s) : Append(s, c)[j] = s[j]
  OBVIOUS
<1>3. Append(s, c)[Len(s) + 1] = c
  OBVIOUS
<1>4. NoDuplicates(Append(s, c))
  BY <1>1, <1>2, <1>3 DEF NoDuplicates, InQueue
<1>5. ASSUME NEW d PROVE InQueue(Append(s, c), d) <=> (InQueue(s, d) \/ d = c)
  <2>1. ASSUME InQueue(Append(s, c), d) PROVE InQueue(s, d) \/ d = c
    BY <2>1, <1>1, <1>2, <1>3 DEF InQueue
  <2>2. ASSUME InQueue(s, d) PROVE InQueue(Append(s, c), d)
    BY <2>2, <1>1, <1>2 DEF InQueue
  <2>3. InQueue(Append(s, c), c)
    BY <1>1, <1>3 DEF InQueue
  <2> QED BY <2>1, <2>2, <2>3
<1> QED BY <1>4, <1>5

\* Taking the head off a list.
LEMMA HeadOfQueue ==
  ASSUME NEW S, NEW s \in Seq(S), NoDuplicates(s), s # <<>>
  PROVE  /\ Head(s) \in S /\ InQueue(s, Head(s))
         /\ Tail(s) \in Seq(S) /\ NoDuplicates(Tail(s))
         /\ \A d : InQueue(Tail(s), d) <=> (InQueue(s, d) /\ d # Head(s))
<1>1. Len(s) \in Nat \ {0} /\ Head(s) = s[1] /\ Len(Tail(s)) = Len(s) - 1
  OBVIOUS
<1>2. \A j \in 1 .. (Len(s) - 1) : Tail(s)[j] = s[j + 1]
  OBVIOUS
<1>3. NoDuplicates(Tail(s))
  BY <1>1, <1>2 DEF NoDuplicates
<1>4. ASSUME NEW d PROVE InQueue(Tail(s), d) <=> (InQueue(s, d) /\ d # Head(s))
  <2>1. ASSUME InQueue(Tail(s), d) PROVE InQueue(s, d) /\ d # Head(s)
    BY <2>1, <1>1, <1>2 DEF InQueue, NoDuplicates
  <2>2. ASSUME InQueue(s, d), d # Head(s) PROVE InQueue(Tail(s), d)
    <3>1. PICK k \in 1 .. Len(s) : s[k] = d
      BY <2>2 DEF InQueue
    <3>2. k - 1 \in 1 .. Len(Tail(s)) /\ Tail(s)[k - 1] = s[k]
      BY <3>1, <2>2, <1>1, <1>2
    <3> QED BY <3>1, <3>2 DEF InQueue
  <2> QED BY <2>1, <2>2
<1>5. Head(s) \in S /\ InQueue(s, Head(s)) /\ Tail(s) \in Seq(S)
  BY <1>1 DEF InQueue
<1> QED BY <1>3, <1>4, <1>5

------------------------------------------------------------------------------
(* The counters: setting or clearing one flag of one callback.             *)

LEMMA FlagSetsAreFinite ==
  ASSUME NEW b \in BaseRec
  PROVE  IsFiniteSet(PendingPairs(b)) /\ IsFiniteSet(ActiveSet(b))
<1>1. IsFiniteSet(Events \cup Deferreds)
  BY ConstantsAssumption, FS_Union
<1>2. IsFiniteSet(Callbacks)
  BY <1>1, FS_AddElement DEF Callbacks
<1>3. IsFiniteSet(ListFlags)
  <2>1. IsFiniteSet({"TIMEOUT"})
    BY FS_Singleton
  <2>2. IsFiniteSet({"TIMEOUT"} \cup {"INSERTED"})
    BY <2>1, FS_AddElement
  <2>3. IsFiniteSet(({"TIMEOUT"} \cup {"INSERTED"}) \cup {"ACTIVE"})
    BY <2>2, FS_AddElement
  <2>4. IsFiniteSet((({"TIMEOUT"} \cup {"INSERTED"}) \cup {"ACTIVE"}) \cup {"ACTIVE_LATER"})
    BY <2>3, FS_AddElement
  <2>5. ListFlags = (({"TIMEOUT"} \cup {"INSERTED"}) \cup {"ACTIVE"}) \cup {"ACTIVE_LATER"}
    BY DEF ListFlags
  <2> QED BY <2>4, <2>5
<1>4. IsFiniteSet((Events \cup Deferreds) \X ListFlags)
  BY <1>1, <1>3, FS_Product
<1>5. PendingPairs(b) \in SUBSET ((Events \cup Deferreds) \X ListFlags)
  BY DEF PendingPairs
<1>6. ActiveSet(b) \in SUBSET Callbacks
  BY DEF ActiveSet
<1> QED BY <1>2, <1>4, <1>5, <1>6, FS_Subset

\* Setting a list flag adds one (callback, list) pair, unless the callback is internal.
LEMMA CountAfterSet ==
  ASSUME NEW b \in BaseRec, NEW b2 \in BaseRec, NEW c \in Callbacks, NEW f \in ListFlags,
         f \notin b.flags[c], b2.flags = [b.flags EXCEPT ![c] = @ \cup {f}]
  PROVE  Cardinality(PendingPairs(b2)) = Cardinality(PendingPairs(b)) + Counted(c)
<1>1. CASE c = Notify
  <2>1. Notify \notin Events \cup Deferreds
    BY ConstantsAssumption
  <2>2. PendingPairs(b2) = PendingPairs(b)
    BY <1>1, <2>1 DEF PendingPairs, BaseRec, Callbacks
  <2>3. Cardinality(PendingPairs(b)) \in Nat
    BY FlagSetsAreFinite, FS_CardinalityType
  <2> QED BY <1>1, <2>2, <2>3 DEF Counted
<1>2. CASE c # Notify
  <2>1. c \in Events \cup Deferreds
    BY <1>2 DEF Callbacks
  <2>2. PendingPairs(b2) = PendingPairs(b) \cup {<<c, f>>}
    <3>1. ASSUME NEW p \in PendingPairs(b2) PROVE p \in PendingPairs(b) \cup {<<c, f>>}
      <4>1. PICK d \in Events \cup Deferreds, g \in ListFlags : p = <<d, g>> /\ g \in b2.flags[d]
        BY <3>1 DEF PendingPairs
      <4>2. g \in b.flags[d] \/ <<d, g>> = <<c, f>>
        BY <4>1 DEF BaseRec, Callbacks
      <4> QED BY <4>1, <4>2 DEF PendingPairs
    <3>2. ASSUME NEW p \in PendingPairs(b) PROVE p \in PendingPairs(b2)
      BY <3>2 DEF PendingPairs, BaseRec, Callbacks
    <3>3. <<c, f>> \in PendingPairs(b2)
      BY <2>1 DEF PendingPairs, BaseRec, Callbacks
    <3> QED BY <3>1, <3>2, <3>3
  <2>3. <<c, f>> \notin PendingPairs(b)
    BY DEF PendingPairs
  <2> HIDE DEF PendingPairs
  <2>4. Cardinality(PendingPairs(b) \cup {<<c, f>>}) = Cardinality(PendingPairs(b)) + 1
    BY <2>3, FlagSetsAreFinite, FS_AddElement
  <2> QED BY <1>2, <2>2, <2>4 DEF Counted
<1> QED BY <1>1, <1>2

\* Clearing a list flag removes one pair, unless the callback is internal.
LEMMA CountAfterClear ==
  ASSUME NEW b \in BaseRec, NEW b2 \in BaseRec, NEW c \in Callbacks, NEW f \in ListFlags,
         f \in b.flags[c], b2.flags = [b.flags EXCEPT ![c] = @ \ {f}]
  PROVE  Cardinality(PendingPairs(b2)) = Cardinality(PendingPairs(b)) - Counted(c)
<1>1. CASE c = Notify
  <2>1. Notify \notin Events \cup Deferreds
    BY ConstantsAssumption
  <2>2. PendingPairs(b2) = PendingPairs(b)
    BY <1>1, <2>1 DEF PendingPairs, BaseRec, Callbacks
  <2>3. Cardinality(PendingPairs(b)) \in Nat
    BY FlagSetsAreFinite, FS_CardinalityType
  <2> QED BY <1>1, <2>2, <2>3 DEF Counted
<1>2. CASE c # Notify
  <2>1. c \in Events \cup Deferreds
    BY <1>2 DEF Callbacks
  <2>2. PendingPairs(b2) = PendingPairs(b) \ {<<c, f>>}
    <3>1. ASSUME NEW p \in PendingPairs(b2) PROVE p \in PendingPairs(b) \ {<<c, f>>}
      <4>1. PICK d \in Events \cup Deferreds, g \in ListFlags : p = <<d, g>> /\ g \in b2.flags[d]
        BY <3>1 DEF PendingPairs
      <4>2. g \in b.flags[d] /\ <<d, g>> # <<c, f>>
        BY <4>1 DEF BaseRec, Callbacks
      <4> QED BY <4>1, <4>2 DEF PendingPairs
    <3>2. ASSUME NEW p \in PendingPairs(b) \ {<<c, f>>} PROVE p \in PendingPairs(b2)
      <4>1. PICK d \in Events \cup Deferreds, g \in ListFlags : p = <<d, g>> /\ g \in b.flags[d]
        BY <3>2 DEF PendingPairs
      <4>2. g \in b2.flags[d]
        BY <4>1, <3>2 DEF BaseRec, Callbacks
      <4> QED BY <4>1, <4>2 DEF PendingPairs
    <3> QED BY <3>1, <3>2
  <2>3. <<c, f>> \in PendingPairs(b)
    BY <2>1 DEF PendingPairs
  <2> HIDE DEF PendingPairs
  <2>4. Cardinality(PendingPairs(b) \ {<<c, f>>}) = Cardinality(PendingPairs(b)) - 1
    BY <2>3, FlagSetsAreFinite, FS_RemoveElement
  <2> QED BY <1>2, <2>2, <2>4 DEF Counted
<1> QED BY <1>1, <1>2

\* A callback that gets one of the two active flags is one more active callback.
LEMMA ActiveAfterSet ==
  ASSUME NEW b \in BaseRec, NEW b2 \in BaseRec, NEW c \in Callbacks,
         NEW f \in {"ACTIVE", "ACTIVE_LATER"}, b.flags[c] \cap {"ACTIVE", "ACTIVE_LATER"} = {},
         b2.flags = [b.flags EXCEPT ![c] = @ \cup {f}]
  PROVE  Cardinality(ActiveSet(b2)) = Cardinality(ActiveSet(b)) + 1
<1>1. ActiveSet(b2) = ActiveSet(b) \cup {c}
  BY DEF ActiveSet, BaseRec
<1>2. c \notin ActiveSet(b)
  BY DEF ActiveSet
<1> QED BY <1>1, <1>2, FlagSetsAreFinite, FS_AddElement

\* A callback that loses its only active flag is one active callback less.
LEMMA ActiveAfterClear ==
  ASSUME NEW b \in BaseRec, NEW b2 \in BaseRec, NEW c \in Callbacks,
         NEW f \in {"ACTIVE", "ACTIVE_LATER"}, b.flags[c] \cap {"ACTIVE", "ACTIVE_LATER"} = {f},
         b2.flags = [b.flags EXCEPT ![c] = @ \ {f}]
  PROVE  Cardinality(ActiveSet(b2)) = Cardinality(ActiveSet(b)) - 1
<1>1. ActiveSet(b2) = ActiveSet(b) \ {c}
  BY DEF ActiveSet, BaseRec
<1>2. c \in ActiveSet(b)
  BY DEF ActiveSet
<1> QED BY <1>1, <1>2, FlagSetsAreFinite, FS_RemoveElement

------------------------------------------------------------------------------
(* The queue primitives keep lists, flags and counters in step.            *)

BaseOK(b) == b \in BaseRec /\ QueuesMatch(b) /\ CountsMatch(b)

LEMMA FlagUpdates ==
  ASSUME NEW b \in BaseRec, NEW c \in Callbacks, NEW f \in ListFlags
  PROVE  /\ [b.flags EXCEPT ![c] = @ \cup {f}] \in [Callbacks -> SUBSET Flags]
         /\ [b.flags EXCEPT ![c] = @ \ {f}] \in [Callbacks -> SUBSET Flags]
BY DEF BaseRec, Flags

LEMMA TwoFields ==
  ASSUME NEW b \in BaseRec, NEW fl \in [Callbacks -> SUBSET Flags], NEW n \in Int
  PROVE  [b EXCEPT !.flags = fl, !.event_count = n] \in BaseRec
BY DEF BaseRec

LEMMA FlagPrimitivesTyped ==
  ASSUME NEW b \in BaseRec, NEW e \in Callbacks
  PROVE  /\ event_queue_insert_inserted(b, e) \in BaseRec
         /\ event_queue_remove_inserted(b, e) \in BaseRec
         /\ event_queue_remove_timeout(b, e) \in BaseRec
         /\ \A at \in Nat : e \in Events => event_queue_insert_timeout(b, e, at) \in BaseRec
<1>1. \A f \in ListFlags : /\ [b.flags EXCEPT ![e] = @ \cup {f}] \in [Callbacks -> SUBSET Flags]
                          /\ [b.flags EXCEPT ![e] = @ \ {f}] \in [Callbacks -> SUBSET Flags]
  BY FlagUpdates
<1>2. "INSERTED" \in ListFlags /\ "TIMEOUT" \in ListFlags
  BY DEF ListFlags
<1>3. b.event_count + Counted(e) \in Int /\ b.event_count - Counted(e) \in Int
  BY DEF BaseRec, Counted
<1>4. event_queue_insert_inserted(b, e) \in BaseRec
  BY <1>1, <1>2, <1>3, TwoFields DEF event_queue_insert_inserted
<1>5. event_queue_remove_inserted(b, e) \in BaseRec
  BY <1>1, <1>2, <1>3, TwoFields DEF event_queue_remove_inserted
<1>6. event_queue_remove_timeout(b, e) \in BaseRec
  BY <1>1, <1>2, <1>3, TwoFields DEF event_queue_remove_timeout
<1>7. ASSUME NEW at \in Nat, e \in Events PROVE event_queue_insert_timeout(b, e, at) \in BaseRec
  <2>1. [b.timeout EXCEPT ![e] = at] \in [Events -> Nat]
    BY <1>7 DEF BaseRec
  <2> DEFINE setf == [b.flags EXCEPT ![e] = @ \cup {"TIMEOUT"}]
             inc == b.event_count + Counted(e)
             tm == [b.timeout EXCEPT ![e] = at]
  <2>2. event_queue_insert_timeout(b, e, at) = [b EXCEPT !.flags = setf, !.event_count = inc,
                                                         !.timeout = tm]
    BY Zenon DEF event_queue_insert_timeout
  <2>3. setf \in [Callbacks -> SUBSET Flags] /\ inc \in Int /\ tm \in [Events -> Nat]
    BY <1>1, <1>2, <1>3, <2>1
  <2> HIDE DEF setf, inc, tm
  <2> QED BY <2>2, <2>3 DEF BaseRec
<1> QED BY <1>4, <1>5, <1>6, <1>7

LEMMA ActivePrimitivesTyped ==
  ASSUME NEW b \in BaseRec, NEW c \in Callbacks, Pri[c] \in Priorities
  PROVE  /\ (Append(b.active[Pri[c]], c) \in Seq(Callbacks) /\ "ACTIVE" \notin b.flags[c])
              => event_queue_insert_active(b, c) \in BaseRec
         /\ TAILQ_REMOVE(b.active[Pri[c]], c) \in Seq(Callbacks)
              => event_queue_remove_active(b, c) \in BaseRec
<1> DEFINE setf == [b.flags EXCEPT ![c] = @ \cup {"ACTIVE"}]
           clrf == [b.flags EXCEPT ![c] = @ \ {"ACTIVE"}]
           inc == b.event_count + Counted(c)
           dec == b.event_count - Counted(c)
           inca == b.event_count_active + 1
           deca == b.event_count_active - 1
           app == [b.active EXCEPT ![Pri[c]] = Append(@, c)]
           rem == [b.active EXCEPT ![Pri[c]] = TAILQ_REMOVE(@, c)]
<1>1. setf \in [Callbacks -> SUBSET Flags] /\ clrf \in [Callbacks -> SUBSET Flags]
  BY FlagUpdates DEF ListFlags
<1>2. inc \in Int /\ dec \in Int /\ inca \in Int /\ deca \in Int
  BY DEF BaseRec, Counted
<1>3. ASSUME Append(b.active[Pri[c]], c) \in Seq(Callbacks), "ACTIVE" \notin b.flags[c]
      PROVE  event_queue_insert_active(b, c) \in BaseRec
  <2>1. app \in [Priorities -> Seq(Callbacks)]
    BY <1>3 DEF BaseRec
  <2>2. event_queue_insert_active(b, c) = [b EXCEPT !.flags = setf, !.event_count = inc,
                                           !.event_count_active = inca, !.active = app]
    BY <1>3, Zenon DEF event_queue_insert_active
  <2> HIDE DEF setf, inc, inca, app
  <2> QED BY <1>1, <1>2, <2>1, <2>2 DEF BaseRec
<1>4. ASSUME TAILQ_REMOVE(b.active[Pri[c]], c) \in Seq(Callbacks)
      PROVE  event_queue_remove_active(b, c) \in BaseRec
  <2>1. rem \in [Priorities -> Seq(Callbacks)]
    BY <1>4 DEF BaseRec
  <2>2. event_queue_remove_active(b, c) = [b EXCEPT !.flags = clrf, !.event_count = dec,
                                           !.event_count_active = deca, !.active = rem]
    BY Zenon DEF event_queue_remove_active
  <2> HIDE DEF clrf, dec, deca, rem
  <2> QED BY <1>1, <1>2, <2>1, <2>2 DEF BaseRec
<1> QED BY <1>3, <1>4

LEMMA LaterPrimitivesTyped ==
  ASSUME NEW b \in BaseRec, NEW c \in Callbacks
  PROVE  /\ (/\ Append(b.later, c) \in Seq(Callbacks)
             /\ b.flags[c] \cap {"ACTIVE", "ACTIVE_LATER"} = {})
              => event_queue_insert_active_later(b, c) \in BaseRec
         /\ TAILQ_REMOVE(b.later, c) \in Seq(Callbacks)
              => event_queue_remove_active_later(b, c) \in BaseRec
<1> DEFINE setf == [b.flags EXCEPT ![c] = @ \cup {"ACTIVE_LATER"}]
           clrf == [b.flags EXCEPT ![c] = @ \ {"ACTIVE_LATER"}]
           inc == b.event_count + Counted(c)
           dec == b.event_count - Counted(c)
           inca == b.event_count_active + 1
           deca == b.event_count_active - 1
           app == Append(b.later, c)
           rem == TAILQ_REMOVE(b.later, c)
<1>1. setf \in [Callbacks -> SUBSET Flags] /\ clrf \in [Callbacks -> SUBSET Flags]
  BY FlagUpdates DEF ListFlags
<1>2. inc \in Int /\ dec \in Int /\ inca \in Int /\ deca \in Int
  BY DEF BaseRec, Counted
<1>3. ASSUME app \in Seq(Callbacks), b.flags[c] \cap {"ACTIVE", "ACTIVE_LATER"} = {}
      PROVE  event_queue_insert_active_later(b, c) \in BaseRec
  <2>1. event_queue_insert_active_later(b, c) = [b EXCEPT !.flags = setf, !.event_count = inc,
                                                 !.event_count_active = inca, !.later = app]
    BY <1>3, Zenon DEF event_queue_insert_active_later
  <2> HIDE DEF setf, inc, inca, app
  <2> QED BY <1>1, <1>2, <1>3, <2>1 DEF BaseRec
<1>4. ASSUME rem \in Seq(Callbacks)
      PROVE  event_queue_remove_active_later(b, c) \in BaseRec
  <2>1. event_queue_remove_active_later(b, c) = [b EXCEPT !.flags = clrf, !.event_count = dec,
                                                 !.event_count_active = deca, !.later = rem]
    BY Zenon DEF event_queue_remove_active_later
  <2> HIDE DEF clrf, dec, deca, rem
  <2> QED BY <1>1, <1>2, <1>4, <2>1 DEF BaseRec
<1> QED BY <1>3, <1>4

\* event_queue_insert_inserted of an event that is not inserted.
LEMMA InsertInserted ==
  ASSUME NEW b, BaseOK(b), NEW e \in Callbacks, "INSERTED" \notin b.flags[e]
  PROVE  LET b2 == event_queue_insert_inserted(b, e)
         IN BaseOK(b2) /\ b2.flags = [b.flags EXCEPT ![e] = @ \cup {"INSERTED"}]
<1> DEFINE b2 == event_queue_insert_inserted(b, e)
<1>1. b \in BaseRec /\ QueuesMatch(b) /\ CountsMatch(b) /\ "INSERTED" \in ListFlags
  BY DEF BaseOK, ListFlags
<1>2. b2 \in BaseRec
  BY <1>1, FlagPrimitivesTyped
<1>3. /\ b2.flags = [b.flags EXCEPT ![e] = @ \cup {"INSERTED"}]
      /\ b2.active = b.active /\ b2.later = b.later
      /\ b2.event_count = b.event_count + Counted(e)
      /\ b2.event_count_active = b.event_count_active
  BY <1>1 DEF BaseRec, event_queue_insert_inserted
<1> HIDE DEF b2
<1>4. QueuesMatch(b2)
  BY <1>1, <1>3 DEF BaseRec, QueuesMatch
<1>5. Cardinality(PendingPairs(b2)) = Cardinality(PendingPairs(b)) + Counted(e)
  BY <1>1, <1>2, <1>3, CountAfterSet
<1>6. ActiveSet(b2) = ActiveSet(b)
  BY <1>1, <1>3 DEF ActiveSet, BaseRec
<1>7. CountsMatch(b2)
  BY <1>1, <1>3, <1>5, <1>6 DEF CountsMatch
<1> QED BY <1>2, <1>3, <1>4, <1>7 DEF BaseOK, b2

\* event_queue_remove_inserted of an inserted event.
LEMMA RemoveInserted ==
  ASSUME NEW b, BaseOK(b), NEW e \in Callbacks, "INSERTED" \in b.flags[e]
  PROVE  LET b2 == event_queue_remove_inserted(b, e)
         IN BaseOK(b2) /\ b2.flags = [b.flags EXCEPT ![e] = @ \ {"INSERTED"}]
<1> DEFINE b2 == event_queue_remove_inserted(b, e)
<1>1. b \in BaseRec /\ QueuesMatch(b) /\ CountsMatch(b) /\ "INSERTED" \in ListFlags
  BY DEF BaseOK, ListFlags
<1>2. b2 \in BaseRec
  BY <1>1, FlagPrimitivesTyped
<1>3. /\ b2.flags = [b.flags EXCEPT ![e] = @ \ {"INSERTED"}]
      /\ b2.active = b.active /\ b2.later = b.later
      /\ b2.event_count = b.event_count - Counted(e)
      /\ b2.event_count_active = b.event_count_active
  BY <1>1 DEF BaseRec, event_queue_remove_inserted
<1> HIDE DEF b2
<1>4. QueuesMatch(b2)
  BY <1>1, <1>3 DEF BaseRec, QueuesMatch
<1>5. Cardinality(PendingPairs(b2)) = Cardinality(PendingPairs(b)) - Counted(e)
  BY <1>1, <1>2, <1>3, CountAfterClear
<1>6. ActiveSet(b2) = ActiveSet(b)
  BY <1>1, <1>3 DEF ActiveSet, BaseRec
<1>7. CountsMatch(b2)
  BY <1>1, <1>3, <1>5, <1>6 DEF CountsMatch
<1> QED BY <1>2, <1>3, <1>4, <1>7 DEF BaseOK, b2

\* event_queue_insert_timeout of an event without a timeout.
LEMMA InsertTimeout ==
  ASSUME NEW b, BaseOK(b), NEW e \in Events, NEW at \in Nat, "TIMEOUT" \notin b.flags[e]
  PROVE  LET b2 == event_queue_insert_timeout(b, e, at)
         IN BaseOK(b2) /\ b2.flags = [b.flags EXCEPT ![e] = @ \cup {"TIMEOUT"}]
<1> DEFINE b2 == event_queue_insert_timeout(b, e, at)
<1>0. e \in Callbacks
  BY DEF Callbacks
<1>1. b \in BaseRec /\ QueuesMatch(b) /\ CountsMatch(b) /\ "TIMEOUT" \in ListFlags
  BY DEF BaseOK, ListFlags
<1>2. b2 \in BaseRec
  BY <1>0, <1>1, FlagPrimitivesTyped
<1>3. /\ b2.flags = [b.flags EXCEPT ![e] = @ \cup {"TIMEOUT"}]
      /\ b2.active = b.active /\ b2.later = b.later
      /\ b2.event_count = b.event_count + Counted(e)
      /\ b2.event_count_active = b.event_count_active
  BY <1>1 DEF BaseRec, event_queue_insert_timeout
<1> HIDE DEF b2
<1>4. QueuesMatch(b2)
  BY <1>0, <1>1, <1>3 DEF BaseRec, QueuesMatch
<1>5. Cardinality(PendingPairs(b2)) = Cardinality(PendingPairs(b)) + Counted(e)
  BY <1>0, <1>1, <1>2, <1>3, CountAfterSet
<1>6. ActiveSet(b2) = ActiveSet(b)
  BY <1>0, <1>1, <1>3 DEF ActiveSet, BaseRec
<1>7. CountsMatch(b2)
  BY <1>1, <1>3, <1>5, <1>6 DEF CountsMatch
<1> QED BY <1>2, <1>3, <1>4, <1>7 DEF BaseOK, b2

\* event_queue_remove_timeout of an event with a timeout.
LEMMA RemoveTimeout ==
  ASSUME NEW b, BaseOK(b), NEW e \in Callbacks, "TIMEOUT" \in b.flags[e]
  PROVE  LET b2 == event_queue_remove_timeout(b, e)
         IN BaseOK(b2) /\ b2.flags = [b.flags EXCEPT ![e] = @ \ {"TIMEOUT"}]
<1> DEFINE b2 == event_queue_remove_timeout(b, e)
<1>1. b \in BaseRec /\ QueuesMatch(b) /\ CountsMatch(b) /\ "TIMEOUT" \in ListFlags
  BY DEF BaseOK, ListFlags
<1>2. b2 \in BaseRec
  BY <1>1, FlagPrimitivesTyped
<1>3. /\ b2.flags = [b.flags EXCEPT ![e] = @ \ {"TIMEOUT"}]
      /\ b2.active = b.active /\ b2.later = b.later
      /\ b2.event_count = b.event_count - Counted(e)
      /\ b2.event_count_active = b.event_count_active
  BY <1>1 DEF BaseRec, event_queue_remove_timeout
<1> HIDE DEF b2
<1>4. QueuesMatch(b2)
  BY <1>1, <1>3 DEF BaseRec, QueuesMatch
<1>5. Cardinality(PendingPairs(b2)) = Cardinality(PendingPairs(b)) - Counted(e)
  BY <1>1, <1>2, <1>3, CountAfterClear
<1>6. ActiveSet(b2) = ActiveSet(b)
  BY <1>1, <1>3 DEF ActiveSet, BaseRec
<1>7. CountsMatch(b2)
  BY <1>1, <1>3, <1>5, <1>6 DEF CountsMatch
<1> QED BY <1>2, <1>3, <1>4, <1>7 DEF BaseOK, b2

\* event_queue_insert_active of a callback that is not active.
LEMMA InsertActive ==
  ASSUME NEW b, BaseOK(b), NEW c \in Callbacks, b.flags[c] \cap {"ACTIVE", "ACTIVE_LATER"} = {}
  PROVE  LET b2 == event_queue_insert_active(b, c)
         IN BaseOK(b2) /\ b2.flags = [b.flags EXCEPT ![c] = @ \cup {"ACTIVE"}]
<1> DEFINE b2 == event_queue_insert_active(b, c)
           s == b.active[Pri[c]]
<1>1. /\ b \in BaseRec /\ QueuesMatch(b) /\ CountsMatch(b) /\ "ACTIVE" \in ListFlags
      /\ b.flags[c] \cap {"ACTIVE", "ACTIVE_LATER"} = {}
  BY DEF BaseOK, ListFlags, QueuesMatch
<1>2. Pri[c] \in Priorities /\ s \in Seq(Callbacks) /\ NoDuplicates(s) /\ ~InQueue(s, c)
  BY <1>1, ConstantsAssumption DEF BaseRec, QueuesMatch
<1>3. /\ Append(s, c) \in Seq(Callbacks) /\ NoDuplicates(Append(s, c))
      /\ \A d : InQueue(Append(s, c), d) <=> (InQueue(s, d) \/ d = c)
  BY <1>2, AppendToQueue
<1>4. b2 \in BaseRec
  BY <1>1, <1>2, <1>3, ActivePrimitivesTyped
<1>5. /\ b2.flags = [b.flags EXCEPT ![c] = @ \cup {"ACTIVE"}]
      /\ b2.active = [b.active EXCEPT ![Pri[c]] = Append(s, c)] /\ b2.later = b.later
      /\ b2.event_count = b.event_count + Counted(c)
      /\ b2.event_count_active = b.event_count_active + 1
  BY <1>1, <1>2 DEF BaseRec, event_queue_insert_active
<1> HIDE DEF b2
<1>6. QueuesMatch(b2)
  BY <1>1, <1>2, <1>3, <1>5 DEF BaseRec, QueuesMatch
<1>7. Cardinality(PendingPairs(b2)) = Cardinality(PendingPairs(b)) + Counted(c)
  BY <1>1, <1>4, <1>5, CountAfterSet
<1>8. Cardinality(ActiveSet(b2)) = Cardinality(ActiveSet(b)) + 1
  BY <1>1, <1>4, <1>5, ActiveAfterSet
<1>9. CountsMatch(b2)
  BY <1>1, <1>5, <1>7, <1>8 DEF CountsMatch
<1> QED BY <1>4, <1>5, <1>6, <1>9 DEF BaseOK, b2

\* event_queue_remove_active of an active callback.
LEMMA RemoveActive ==
  ASSUME NEW b, BaseOK(b), NEW c \in Callbacks, "ACTIVE" \in b.flags[c]
  PROVE  LET b2 == event_queue_remove_active(b, c)
         IN BaseOK(b2) /\ b2.flags = [b.flags EXCEPT ![c] = @ \ {"ACTIVE"}]
<1> DEFINE b2 == event_queue_remove_active(b, c)
           s == b.active[Pri[c]]
<1>1. /\ b \in BaseRec /\ QueuesMatch(b) /\ CountsMatch(b) /\ "ACTIVE" \in ListFlags
      /\ b.flags[c] \cap {"ACTIVE", "ACTIVE_LATER"} = {"ACTIVE"}
  BY DEF BaseOK, ListFlags, QueuesMatch
<1>2. Pri[c] \in Priorities /\ s \in Seq(Callbacks) /\ NoDuplicates(s)
  BY <1>1, ConstantsAssumption DEF BaseRec, QueuesMatch
<1>3. /\ TAILQ_REMOVE(s, c) \in Seq(Callbacks) /\ NoDuplicates(TAILQ_REMOVE(s, c))
      /\ \A d : InQueue(TAILQ_REMOVE(s, c), d) <=> (InQueue(s, d) /\ d # c)
  BY <1>2, RemoveFromQueue
<1>4. b2 \in BaseRec
  BY <1>1, <1>2, <1>3, ActivePrimitivesTyped
<1>5. /\ b2.flags = [b.flags EXCEPT ![c] = @ \ {"ACTIVE"}]
      /\ b2.active = [b.active EXCEPT ![Pri[c]] = TAILQ_REMOVE(s, c)] /\ b2.later = b.later
      /\ b2.event_count = b.event_count - Counted(c)
      /\ b2.event_count_active = b.event_count_active - 1
  BY <1>1, <1>2 DEF BaseRec, event_queue_remove_active
<1> HIDE DEF b2
<1>6. QueuesMatch(b2)
  BY <1>1, <1>2, <1>3, <1>5 DEF BaseRec, QueuesMatch
<1>7. Cardinality(PendingPairs(b2)) = Cardinality(PendingPairs(b)) - Counted(c)
  BY <1>1, <1>4, <1>5, CountAfterClear
<1>8. Cardinality(ActiveSet(b2)) = Cardinality(ActiveSet(b)) - 1
  BY <1>1, <1>4, <1>5, ActiveAfterClear
<1>9. CountsMatch(b2)
  BY <1>1, <1>5, <1>7, <1>8 DEF CountsMatch
<1> QED BY <1>4, <1>5, <1>6, <1>9 DEF BaseOK, b2

\* event_queue_insert_active_later of a callback that is not active.
LEMMA InsertActiveLater ==
  ASSUME NEW b, BaseOK(b), NEW c \in Callbacks, b.flags[c] \cap {"ACTIVE", "ACTIVE_LATER"} = {}
  PROVE  LET b2 == event_queue_insert_active_later(b, c)
         IN BaseOK(b2) /\ b2.flags = [b.flags EXCEPT ![c] = @ \cup {"ACTIVE_LATER"}]
<1> DEFINE b2 == event_queue_insert_active_later(b, c)
           s == b.later
<1>1. /\ b \in BaseRec /\ QueuesMatch(b) /\ CountsMatch(b) /\ "ACTIVE_LATER" \in ListFlags
      /\ b.flags[c] \cap {"ACTIVE", "ACTIVE_LATER"} = {}
  BY DEF BaseOK, ListFlags, QueuesMatch
<1>2. Pri[c] \in Priorities /\ s \in Seq(Callbacks) /\ NoDuplicates(s) /\ ~InQueue(s, c)
  BY <1>1, ConstantsAssumption DEF BaseRec, QueuesMatch
<1>3. /\ Append(s, c) \in Seq(Callbacks) /\ NoDuplicates(Append(s, c))
      /\ \A d : InQueue(Append(s, c), d) <=> (InQueue(s, d) \/ d = c)
  BY <1>2, AppendToQueue
<1>4. b2 \in BaseRec
  BY <1>1, <1>2, <1>3, LaterPrimitivesTyped
<1>5. /\ b2.flags = [b.flags EXCEPT ![c] = @ \cup {"ACTIVE_LATER"}]
      /\ b2.active = b.active /\ b2.later = Append(s, c)
      /\ b2.event_count = b.event_count + Counted(c)
      /\ b2.event_count_active = b.event_count_active + 1
  BY <1>1, <1>2 DEF BaseRec, event_queue_insert_active_later
<1> HIDE DEF b2
<1>6. QueuesMatch(b2)
  BY <1>1, <1>2, <1>3, <1>5 DEF BaseRec, QueuesMatch
<1>7. Cardinality(PendingPairs(b2)) = Cardinality(PendingPairs(b)) + Counted(c)
  BY <1>1, <1>4, <1>5, CountAfterSet
<1>8. Cardinality(ActiveSet(b2)) = Cardinality(ActiveSet(b)) + 1
  BY <1>1, <1>4, <1>5, ActiveAfterSet
<1>9. CountsMatch(b2)
  BY <1>1, <1>5, <1>7, <1>8 DEF CountsMatch
<1> QED BY <1>4, <1>5, <1>6, <1>9 DEF BaseOK, b2

\* event_queue_remove_active_later of a callback on the later queue.
LEMMA RemoveActiveLater ==
  ASSUME NEW b, BaseOK(b), NEW c \in Callbacks, "ACTIVE_LATER" \in b.flags[c]
  PROVE  LET b2 == event_queue_remove_active_later(b, c)
         IN BaseOK(b2) /\ b2.flags = [b.flags EXCEPT ![c] = @ \ {"ACTIVE_LATER"}]
<1> DEFINE b2 == event_queue_remove_active_later(b, c)
           s == b.later
<1>1. /\ b \in BaseRec /\ QueuesMatch(b) /\ CountsMatch(b) /\ "ACTIVE_LATER" \in ListFlags
      /\ b.flags[c] \cap {"ACTIVE", "ACTIVE_LATER"} = {"ACTIVE_LATER"}
  BY DEF BaseOK, ListFlags, QueuesMatch
<1>2. Pri[c] \in Priorities /\ s \in Seq(Callbacks) /\ NoDuplicates(s)
  BY <1>1, ConstantsAssumption DEF BaseRec, QueuesMatch
<1>3. /\ TAILQ_REMOVE(s, c) \in Seq(Callbacks) /\ NoDuplicates(TAILQ_REMOVE(s, c))
      /\ \A d : InQueue(TAILQ_REMOVE(s, c), d) <=> (InQueue(s, d) /\ d # c)
  BY <1>2, RemoveFromQueue
<1>4. b2 \in BaseRec
  BY <1>1, <1>2, <1>3, LaterPrimitivesTyped
<1>5. /\ b2.flags = [b.flags EXCEPT ![c] = @ \ {"ACTIVE_LATER"}]
      /\ b2.active = b.active /\ b2.later = TAILQ_REMOVE(s, c)
      /\ b2.event_count = b.event_count - Counted(c)
      /\ b2.event_count_active = b.event_count_active - 1
  BY <1>1, <1>2 DEF BaseRec, event_queue_remove_active_later
<1> HIDE DEF b2
<1>6. QueuesMatch(b2)
  BY <1>1, <1>2, <1>3, <1>5 DEF BaseRec, QueuesMatch
<1>7. Cardinality(PendingPairs(b2)) = Cardinality(PendingPairs(b)) - Counted(c)
  BY <1>1, <1>4, <1>5, CountAfterClear
<1>8. Cardinality(ActiveSet(b2)) = Cardinality(ActiveSet(b)) - 1
  BY <1>1, <1>4, <1>5, ActiveAfterClear
<1>9. CountsMatch(b2)
  BY <1>1, <1>5, <1>7, <1>8 DEF CountsMatch
<1> QED BY <1>4, <1>5, <1>6, <1>9 DEF BaseOK, b2

------------------------------------------------------------------------------
(* The operations on one callback, built from the primitives.              *)

\* Only the flags of c change, and no list flag: SetFinalizing and event_assign.
LEMMA OtherFlags ==
  ASSUME NEW b, BaseOK(b), NEW c \in Callbacks, NEW F \in SUBSET Flags,
         F \cap ListFlags = b.flags[c] \cap ListFlags
  PROVE  LET b2 == [b EXCEPT !.flags[c] = F]
         IN BaseOK(b2) /\ b2.flags = [b.flags EXCEPT ![c] = F]
<1> DEFINE b2 == [b EXCEPT !.flags[c] = F]
           fl == [b.flags EXCEPT ![c] = F]
<1>1. b \in BaseRec /\ QueuesMatch(b) /\ CountsMatch(b)
  BY DEF BaseOK
<1>2. fl \in [Callbacks -> SUBSET Flags]
  BY <1>1 DEF BaseRec
<1>3. \A d \in Callbacks : fl[d] \cap ListFlags = b.flags[d] \cap ListFlags
  BY <1>1 DEF BaseRec
<1>4. b2 = [b EXCEPT !.flags = fl]
  BY Zenon
<1> HIDE DEF b2, fl
<1>5. b2 \in BaseRec
  BY <1>1, <1>2, <1>4 DEF BaseRec
<1>6. /\ b2.flags = fl /\ b2.active = b.active /\ b2.later = b.later
      /\ b2.event_count = b.event_count /\ b2.event_count_active = b.event_count_active
  BY <1>1, <1>4 DEF BaseRec
<1>7. \A d \in Callbacks, f \in ListFlags : f \in b2.flags[d] <=> f \in b.flags[d]
  BY <1>3, <1>6
<1>8. QueuesMatch(b2)
  BY <1>1, <1>6, <1>7 DEF QueuesMatch, ListFlags
<1>9. PendingPairs(b2) = PendingPairs(b)
  <2>1. ASSUME NEW d \in Events \cup Deferreds, NEW f \in ListFlags
        PROVE  f \in b2.flags[d] <=> f \in b.flags[d]
    BY <1>7 DEF Callbacks
  <2> QED BY <2>1 DEF PendingPairs
<1>10. ActiveSet(b2) = ActiveSet(b)
  BY <1>7 DEF ActiveSet, ListFlags
<1>11. CountsMatch(b2)
  BY <1>1, <1>6, <1>9, <1>10 DEF CountsMatch
<1> QED BY <1>5, <1>6, <1>8, <1>11 DEF BaseOK, b2, fl

\* event_del_nolock_ takes the event off every list.
LEMMA DelEvent ==
  ASSUME NEW b, BaseOK(b), NEW e \in Callbacks
  PROVE  LET b2 == event_del_nolock_(b, e)
         IN /\ BaseOK(b2)
            /\ b2.flags = IF "FINALIZING" \in b.flags[e] THEN b.flags
                          ELSE [b.flags EXCEPT ![e] = @ \ ListFlags]
<1> DEFINE b1 == IF "TIMEOUT" \in b.flags[e] THEN event_queue_remove_timeout(b, e) ELSE b
           b2 == IF "ACTIVE" \in b1.flags[e] THEN event_queue_remove_active(b1, e)
                 ELSE IF "ACTIVE_LATER" \in b1.flags[e]
                 THEN event_queue_remove_active_later(b1, e) ELSE b1
           b3 == IF "INSERTED" \in b2.flags[e] THEN event_queue_remove_inserted(b2, e) ELSE b2
<1>0. event_del_nolock_(b, e) = IF "FINALIZING" \in b.flags[e] THEN b ELSE b3
  BY DEF event_del_nolock_
<1>1. b.flags \in [Callbacks -> SUBSET Flags] /\ ~({"ACTIVE", "ACTIVE_LATER"} \subseteq b.flags[e])
  BY DEF BaseOK, BaseRec, QueuesMatch
<1>2. BaseOK(b1) /\ b1.flags = [b.flags EXCEPT ![e] = @ \ {"TIMEOUT"}]
  BY <1>1, RemoveTimeout
<1> HIDE DEF b1
<1>3. /\ BaseOK(b2)
      /\ b2.flags = [b.flags EXCEPT ![e] = @ \ {"TIMEOUT", "ACTIVE", "ACTIVE_LATER"}]
  <2>1. CASE "ACTIVE" \in b1.flags[e]
    <3>1. BaseOK(b2) /\ b2.flags = [b1.flags EXCEPT ![e] = @ \ {"ACTIVE"}]
      BY <1>2, <2>1, RemoveActive
    <3> QED BY <1>1, <1>2, <2>1, <3>1
  <2>2. CASE "ACTIVE" \notin b1.flags[e] /\ "ACTIVE_LATER" \in b1.flags[e]
    <3>1. BaseOK(b2) /\ b2.flags = [b1.flags EXCEPT ![e] = @ \ {"ACTIVE_LATER"}]
      BY <1>2, <2>2, RemoveActiveLater
    <3> QED BY <1>1, <1>2, <2>2, <3>1
  <2>3. CASE "ACTIVE" \notin b1.flags[e] /\ "ACTIVE_LATER" \notin b1.flags[e]
    <3>1. b2 = b1
      BY <2>3
    <3> QED BY <1>1, <1>2, <2>3, <3>1
  <2> QED BY <2>1, <2>2, <2>3
<1> HIDE DEF b2
<1>4. BaseOK(b3) /\ b3.flags = [b.flags EXCEPT ![e] = @ \ ListFlags]
  <2>1. CASE "INSERTED" \in b2.flags[e]
    <3>1. BaseOK(b3) /\ b3.flags = [b2.flags EXCEPT ![e] = @ \ {"INSERTED"}]
      BY <1>3, <2>1, RemoveInserted
    <3> QED BY <1>1, <1>3, <3>1 DEF ListFlags
  <2>2. CASE "INSERTED" \notin b2.flags[e]
    <3>1. b3 = b2
      BY <2>2
    <3> QED BY <1>1, <1>3, <2>2, <3>1 DEF ListFlags
  <2> QED BY <2>1, <2>2
<1> HIDE DEF b3
<1> QED BY <1>0, <1>4

\* event_callback_activate_nolock_ puts the callback on the active queue.
LEMMA ActivateCallback ==
  ASSUME NEW b, BaseOK(b), NEW c \in Callbacks
  PROVE  LET b2 == event_callback_activate_nolock_(b, c)
         IN /\ BaseOK(b2)
            /\ b2.flags = IF b.flags[c] \cap {"FINALIZING", "ACTIVE"} # {} THEN b.flags
                          ELSE [b.flags EXCEPT ![c] = (@ \ {"ACTIVE_LATER"}) \cup {"ACTIVE"}]
<1> DEFINE b2 == event_callback_activate_nolock_(b, c)
<1>1. b.flags \in [Callbacks -> SUBSET Flags]
  BY DEF BaseOK, BaseRec
<1>2. CASE b.flags[c] \cap {"FINALIZING", "ACTIVE"} # {}
  BY <1>2 DEF event_callback_activate_nolock_
<1>3. CASE b.flags[c] \cap {"FINALIZING", "ACTIVE"} = {} /\ "ACTIVE_LATER" \in b.flags[c]
  <2> DEFINE b1 == event_queue_remove_active_later(b, c)
  <2>1. BaseOK(b1) /\ b1.flags = [b.flags EXCEPT ![c] = @ \ {"ACTIVE_LATER"}]
    BY <1>3, RemoveActiveLater
  <2>2. b2 = event_queue_insert_active(b1, c)
    BY <1>3 DEF event_callback_activate_nolock_
  <2> HIDE DEF b1, b2
  <2>3. b1.flags[c] \cap {"ACTIVE", "ACTIVE_LATER"} = {}
    BY <1>1, <1>3, <2>1
  <2>4. BaseOK(b2) /\ b2.flags = [b1.flags EXCEPT ![c] = @ \cup {"ACTIVE"}]
    BY <2>1, <2>2, <2>3, InsertActive
  <2>5. b2.flags = [b.flags EXCEPT ![c] = (@ \ {"ACTIVE_LATER"}) \cup {"ACTIVE"}]
    BY <1>1, <2>1, <2>4
  <2> QED BY <1>3, <2>4, <2>5 DEF b2
<1>4. CASE b.flags[c] \cap {"FINALIZING", "ACTIVE"} = {} /\ "ACTIVE_LATER" \notin b.flags[c]
  <2>1. b2 = event_queue_insert_active(b, c)
    BY <1>4 DEF event_callback_activate_nolock_
  <2>2. b.flags[c] \cap {"ACTIVE", "ACTIVE_LATER"} = {}
    BY <1>4
  <2> HIDE DEF b2
  <2>3. BaseOK(b2) /\ b2.flags = [b.flags EXCEPT ![c] = @ \cup {"ACTIVE"}]
    BY <2>1, <2>2, InsertActive
  <2>4. b2.flags = [b.flags EXCEPT ![c] = (@ \ {"ACTIVE_LATER"}) \cup {"ACTIVE"}]
    BY <1>1, <1>4, <2>3
  <2> QED BY <1>4, <2>3, <2>4 DEF b2
<1> QED BY <1>2, <1>3, <1>4

\* event_callback_cancel_nolock_ takes the callback off both active queues.
LEMMA CancelCallback ==
  ASSUME NEW b, BaseOK(b), NEW c \in Callbacks
  PROVE  LET b2 == event_callback_cancel_nolock_(b, c)
         IN /\ BaseOK(b2)
            /\ b2.flags = IF "FINALIZING" \in b.flags[c] THEN b.flags
                          ELSE [b.flags EXCEPT ![c] = @ \ {"ACTIVE", "ACTIVE_LATER"}]
<1> DEFINE b2 == event_callback_cancel_nolock_(b, c)
<1>1. b.flags \in [Callbacks -> SUBSET Flags] /\ ~({"ACTIVE", "ACTIVE_LATER"} \subseteq b.flags[c])
  BY DEF BaseOK, BaseRec, QueuesMatch
<1>2. CASE "FINALIZING" \in b.flags[c]
  BY <1>2 DEF event_callback_cancel_nolock_
<1>3. CASE "FINALIZING" \notin b.flags[c] /\ "ACTIVE" \in b.flags[c]
  <2>1. BaseOK(b2) /\ b2.flags = [b.flags EXCEPT ![c] = @ \ {"ACTIVE"}]
    BY <1>3, RemoveActive DEF event_callback_cancel_nolock_
  <2>2. b2.flags = [b.flags EXCEPT ![c] = @ \ {"ACTIVE", "ACTIVE_LATER"}]
    BY <1>1, <1>3, <2>1
  <2> QED BY <1>3, <2>1, <2>2
<1>4. CASE /\ b.flags[c] \cap {"FINALIZING", "ACTIVE"} = {}
           /\ "ACTIVE_LATER" \in b.flags[c]
  <2>1. BaseOK(b2) /\ b2.flags = [b.flags EXCEPT ![c] = @ \ {"ACTIVE_LATER"}]
    BY <1>4, RemoveActiveLater DEF event_callback_cancel_nolock_
  <2>2. b2.flags = [b.flags EXCEPT ![c] = @ \ {"ACTIVE", "ACTIVE_LATER"}]
    BY <1>1, <1>4, <2>1
  <2> QED BY <1>4, <2>1, <2>2
<1>5. CASE b.flags[c] \cap {"FINALIZING", "ACTIVE", "ACTIVE_LATER"} = {}
  <2>1. b2 = b
    BY <1>5 DEF event_callback_cancel_nolock_
  <2>2. b.flags = [b.flags EXCEPT ![c] = @ \ {"ACTIVE", "ACTIVE_LATER"}]
    BY <1>1, <1>5
  <2> QED BY <1>5, <2>1, <2>2
<1> QED BY <1>2, <1>3, <1>4, <1>5

\* event_queue_insert_active_later in any state of the callback.
LEMMA ActivateLater ==
  ASSUME NEW b, BaseOK(b), NEW c \in Callbacks
  PROVE  LET b2 == event_queue_insert_active_later(b, c)
         IN /\ BaseOK(b2)
            /\ b2.flags = IF b.flags[c] \cap {"ACTIVE", "ACTIVE_LATER"} # {} THEN b.flags
                          ELSE [b.flags EXCEPT ![c] = @ \cup {"ACTIVE_LATER"}]
<1>1. CASE b.flags[c] \cap {"ACTIVE", "ACTIVE_LATER"} # {}
  BY <1>1 DEF event_queue_insert_active_later
<1>2. CASE b.flags[c] \cap {"ACTIVE", "ACTIVE_LATER"} = {}
  BY <1>2, InsertActiveLater
<1> QED BY <1>1, <1>2

\* event_add_nolock_: what becomes of the flags of the event.
LEMMA AddEvent ==
  ASSUME NEW b, BaseOK(b), NEW e \in Events, NEW at \in Nat \cup {Forever}
  PROVE  LET b2 == event_add_nolock_(b, e, at)
         IN /\ BaseOK(b2)
            /\ \A c \in Callbacks \ {e} : b2.flags[c] = b.flags[c]
            /\ "FINALIZING" \in b2.flags[e] <=> "FINALIZING" \in b.flags[e]
            /\ "INSERTED" \in b2.flags[e] <=> ("INSERTED" \in b.flags[e] \/ NeedsEvmapAdd(b, e))
            /\ at # Forever => "TIMEOUT" \in b2.flags[e]
            /\ "ACTIVE_LATER" \in b2.flags[e] <=> "ACTIVE_LATER" \in b.flags[e]
            /\ "ACTIVE" \in b2.flags[e] => "ACTIVE" \in b.flags[e]
<1> DEFINE b1 == IF NeedsEvmapAdd(b, e) THEN event_queue_insert_inserted(b, e) ELSE b
           b2 == IF "TIMEOUT" \in b1.flags[e] THEN event_queue_remove_timeout(b1, e) ELSE b1
           b3 == IF "ACTIVE" \in b2.flags[e] /\ "TIMEOUT" \in ev_res[e]
                 THEN event_queue_remove_active(b2, e) ELSE b2
           b4 == event_queue_insert_timeout(b3, e, at)
<1>0. event_add_nolock_(b, e, at) = IF at = Forever THEN b1 ELSE b4
  BY DEF event_add_nolock_
<1>1. b.flags \in [Callbacks -> SUBSET Flags] /\ e \in Callbacks
  BY DEF BaseOK, BaseRec, Callbacks
<1>2. /\ BaseOK(b1)
      /\ b1.flags = [b.flags EXCEPT ![e] = IF NeedsEvmapAdd(b, e) THEN @ \cup {"INSERTED"} ELSE @]
  <2>1. CASE NeedsEvmapAdd(b, e)
    <3>1. "INSERTED" \notin b.flags[e]
      BY <2>1 DEF NeedsEvmapAdd
    <3> QED BY <1>1, <2>1, <3>1, InsertInserted
  <2>2. CASE ~NeedsEvmapAdd(b, e)
    BY <1>1, <2>2
  <2> QED BY <2>1, <2>2
<1> HIDE DEF b1
<1>3. BaseOK(b2) /\ b2.flags = [b1.flags EXCEPT ![e] = @ \ {"TIMEOUT"}]
  <2>1. b1.flags \in [Callbacks -> SUBSET Flags]
    BY <1>2 DEF BaseOK, BaseRec
  <2>2. CASE "TIMEOUT" \in b1.flags[e]
    BY <1>1, <1>2, <2>2, RemoveTimeout
  <2>3. CASE "TIMEOUT" \notin b1.flags[e]
    <3>1. b2 = b1
      BY <2>3
    <3> QED BY <1>1, <1>2, <2>1, <2>3, <3>1
  <2> QED BY <2>2, <2>3
<1> HIDE DEF b2
<1>4. BaseOK(b3) /\ (b3.flags = b2.flags \/ b3.flags = [b2.flags EXCEPT ![e] = @ \ {"ACTIVE"}])
  BY <1>1, <1>3, RemoveActive
<1> HIDE DEF b3
<1>5. "TIMEOUT" \notin b3.flags[e]
  BY <1>1, <1>2, <1>3, <1>4
<1>6. at # Forever => BaseOK(b4) /\ b4.flags = [b3.flags EXCEPT ![e] = @ \cup {"TIMEOUT"}]
  BY <1>4, <1>5, InsertTimeout
<1> HIDE DEF b4
<1>7. CASE at = Forever
  BY <1>0, <1>1, <1>2, <1>7
<1>8. CASE at # Forever
  <2>1. event_add_nolock_(b, e, at) = b4
    BY <1>0, <1>8
  <2>2. \A c \in Callbacks \ {e} : b4.flags[c] = b.flags[c]
    BY <1>1, <1>2, <1>3, <1>4, <1>6, <1>8
  <2>3. /\ "FINALIZING" \in b4.flags[e] <=> "FINALIZING" \in b.flags[e]
        /\ "INSERTED" \in b4.flags[e] <=> ("INSERTED" \in b.flags[e] \/ NeedsEvmapAdd(b, e))
        /\ "TIMEOUT" \in b4.flags[e]
        /\ "ACTIVE_LATER" \in b4.flags[e] <=> "ACTIVE_LATER" \in b.flags[e]
        /\ "ACTIVE" \in b4.flags[e] => "ACTIVE" \in b.flags[e]
    BY <1>1, <1>2, <1>3, <1>4, <1>6, <1>8
  <2> QED BY <1>6, <1>8, <2>1, <2>2, <2>3, Zenon
<1> QED BY <1>7, <1>8, Zenon

\* One turn of event_queue_make_later_events_active.
LEMMA MakeLaterActive ==
  ASSUME NEW b, BaseOK(b), b.later # <<>>
  PROVE  LET c == Head(b.later)
             b2 == event_queue_make_later_event_active(b)
         IN /\ BaseOK(b2) /\ c \in Callbacks
            /\ b2.flags = [b.flags EXCEPT ![c] = (@ \ {"ACTIVE_LATER"}) \cup {"ACTIVE"}]
<1> DEFINE c == Head(b.later)
           s == b.active[Pri[c]]
           fl == [b.flags EXCEPT ![c] = (@ \ {"ACTIVE_LATER"}) \cup {"ACTIVE"}]
           lat == Tail(b.later)
           act == [b.active EXCEPT ![Pri[c]] = Append(@, c)]
           b2 == event_queue_make_later_event_active(b)
<1>1. b \in BaseRec /\ QueuesMatch(b) /\ CountsMatch(b)
  BY DEF BaseOK
<1>2. /\ c \in Callbacks /\ InQueue(b.later, c)
      /\ lat \in Seq(Callbacks) /\ NoDuplicates(lat)
      /\ \A d : InQueue(lat, d) <=> (InQueue(b.later, d) /\ d # c)
  BY <1>1, HeadOfQueue DEF BaseRec, QueuesMatch
<1> HIDE DEF c, lat
<1>3. b.flags[c] \cap {"ACTIVE", "ACTIVE_LATER"} = {"ACTIVE_LATER"}
  BY <1>1, <1>2 DEF QueuesMatch
<1>4. Pri[c] \in Priorities /\ s \in Seq(Callbacks) /\ NoDuplicates(s) /\ ~InQueue(s, c)
  BY <1>1, <1>2, <1>3, ConstantsAssumption DEF BaseRec, QueuesMatch
<1>5. /\ Append(s, c) \in Seq(Callbacks) /\ NoDuplicates(Append(s, c))
      /\ \A d : InQueue(Append(s, c), d) <=> (InQueue(s, d) \/ d = c)
  BY <1>2, <1>4, AppendToQueue
<1>6. fl \in [Callbacks -> SUBSET Flags] /\ act \in [Priorities -> Seq(Callbacks)]
  BY <1>1, <1>2, <1>4, <1>5 DEF BaseRec, Flags, ListFlags
<1>7. b2 = [b EXCEPT !.flags = fl, !.later = lat, !.active = act]
  BY Zenon DEF event_queue_make_later_event_active, c, lat
<1>8. \A d \in Callbacks : fl[d] = IF d = c THEN (b.flags[c] \ {"ACTIVE_LATER"}) \cup {"ACTIVE"}
                                   ELSE b.flags[d]
  BY <1>1, <1>2 DEF BaseRec
<1>9. \A i \in Priorities : act[i] = IF i = Pri[c] THEN Append(s, c) ELSE b.active[i]
  BY <1>1, <1>4 DEF BaseRec
<1> HIDE DEF b2, fl, act
<1>10. b2 \in BaseRec
  BY <1>1, <1>2, <1>6, <1>7 DEF BaseRec
<1>11. /\ b2.flags = fl /\ b2.active = act /\ b2.later = lat
       /\ b2.event_count = b.event_count /\ b2.event_count_active = b.event_count_active
  BY <1>1, <1>7 DEF BaseRec
<1>12. QueuesMatch(b2)
  BY <1>1, <1>2, <1>3, <1>4, <1>5, <1>8, <1>9, <1>11 DEF QueuesMatch
<1>13. ActiveSet(b2) = ActiveSet(b)
  BY <1>3, <1>8, <1>11 DEF ActiveSet
<1>14. Cardinality(PendingPairs(b2)) = Cardinality(PendingPairs(b))
  <2> DEFINE flm == [b.flags EXCEPT ![c] = @ \ {"ACTIVE_LATER"}]
             bm == [b EXCEPT !.flags = flm]
  <2>1. flm \in [Callbacks -> SUBSET Flags] /\ fl = [flm EXCEPT ![c] = @ \cup {"ACTIVE"}]
    BY <1>1, <1>2 DEF BaseRec, fl
  <2>2. "ACTIVE_LATER" \in b.flags[c] /\ "ACTIVE" \notin flm[c]
    BY <1>1, <1>2, <1>3 DEF BaseRec
  <2>3. flm = [b.flags EXCEPT ![c] = @ \ {"ACTIVE_LATER"}]
    OBVIOUS
  <2> HIDE DEF flm
  <2>4. bm \in BaseRec /\ bm.flags = flm
    <3>1. flm \in [Callbacks -> SUBSET Flags]
      BY <2>1
    <3> QED BY <1>1, <3>1 DEF BaseRec
  <2> HIDE DEF bm
  <2>5. "ACTIVE" \in ListFlags /\ "ACTIVE_LATER" \in ListFlags
    BY DEF ListFlags
  <2>6. Cardinality(PendingPairs(bm)) = Cardinality(PendingPairs(b)) - Counted(c)
    BY <1>1, <1>2, <2>2, <2>3, <2>4, <2>5, CountAfterClear
  <2>7. Cardinality(PendingPairs(b2)) = Cardinality(PendingPairs(bm)) + Counted(c)
    <3>1. "ACTIVE" \notin bm.flags[c] /\ b2.flags = [bm.flags EXCEPT ![c] = @ \cup {"ACTIVE"}]
      BY <1>11, <2>1, <2>2, <2>4
    <3> QED BY <1>2, <1>10, <2>4, <2>5, <3>1, CountAfterSet
  <2>8. Cardinality(PendingPairs(b)) \in Nat /\ Counted(c) \in Nat
    BY <1>1, FlagSetsAreFinite, FS_CardinalityType DEF Counted
  <2> QED BY <2>6, <2>7, <2>8
<1>15. CountsMatch(b2)
  BY <1>1, <1>11, <1>13, <1>14 DEF CountsMatch
<1> QED BY <1>2, <1>10, <1>11, <1>12, <1>15 DEF BaseOK, b2, c, fl

------------------------------------------------------------------------------
(* The inductive invariant: the types, the queues, the counters, and the   *)
(* range of event_running_priority in the places that index with it.       *)

PriorityInRange ==
  /\ pc = "scan" => event_running_priority \in 0 .. NPri
  /\ pc \in {"run", "callback", "drain", "drained"} => event_running_priority \in Priorities

RestTyped ==
  /\ ev_res \in [Events \cup {Notify} -> SUBSET Results]
  /\ ev_io_timeout \in [Events -> Delays \cup {0}]
  /\ event_break \in BOOLEAN /\ event_gotterm \in BOOLEAN /\ event_continue \in BOOLEAN
  /\ n_deferreds_queued \in Nat
  /\ pc \in {"stopped", "iter", "later", "poll", "polled", "dispatch", "timeouts", "scan",
             "run", "callback", "drain", "drained"}
  /\ deadline \in Int /\ lag \in Int /\ ready \subseteq Fds /\ todo \subseteq IO \cup {Notify}
  /\ event_running_priority \in -1 .. NPri /\ count \in Nat
  /\ current_event \in Callbacks \cup {None}
  /\ exec \in [cb : Callbacks \cup {None}, fin : BOOLEAN] /\ waiters \in Nat
  /\ is_notify_pending \in BOOLEAN /\ notify_fd \in BOOLEAN
  /\ now \in Nat /\ tv_cache \in Nat \cup {Forever}
  /\ thr \in [Threads -> [pc : {"idle", "wait", "woken"}, ev : Events \cup {None}]]
  /\ quiet \in [Threads -> SUBSET Events] /\ armed \in [Events -> {"no", "untimed", "timed", "refused"}]
  /\ finruns \in [Events \cup Deferreds -> 0 .. 2]

IInv == BaseOK(q) /\ RestTyped /\ PriorityInRange

LEMMA IInvImplies == IInv <=> (TypeOK /\ QueuesMatchFlags /\ CountsMatchFlags /\ PriorityInRange)
BY DEF IInv, BaseOK, RestTyped, TypeOK, QueuesMatchFlags, CountsMatchFlags

LEMMA ConstantFacts ==
  /\ Delays \subseteq Nat /\ IO \subseteq Events /\ Persist \subseteq Events
  /\ ExitEvents \subseteq Events /\ ActiveWith \subseteq Results
  /\ NPri \in Nat /\ NPri > 0 /\ MaxDispatch \in Nat /\ None \notin Callbacks
  /\ Events \subseteq Callbacks /\ Deferreds \subseteq Callbacks /\ Notify \in Callbacks
BY ConstantsAssumption DEF Callbacks

LEMMA GetTimeIsNat ==
  ASSUME RestTyped
  PROVE  gettime \in Nat
BY DEF RestTyped, gettime, Forever

\* A base without events satisfies the invariant.
LEMMA InitIInv == Init => IInv
<1> SUFFICES ASSUME Init PROVE IInv
  OBVIOUS
<1> USE ConstantFacts
<1>1. q \in BaseRec
  <2>1. [c \in Callbacks |-> IF c = Notify THEN {"INSERTED"} ELSE {}] \in [Callbacks -> SUBSET Flags]
    BY DEF Flags, ListFlags
  <2>2. [i \in Priorities |-> <<>>] \in [Priorities -> Seq(Callbacks)] /\ <<>> \in Seq(Callbacks)
    OBVIOUS
  <2> QED BY <2>1, <2>2 DEF Init, BaseRec
<1>2. /\ \A c \in Callbacks : q.flags[c] = IF c = Notify THEN {"INSERTED"} ELSE {}
      /\ \A i \in Priorities : q.active[i] = <<>>
      /\ q.later = <<>> /\ q.event_count = 0 /\ q.event_count_active = 0
  BY DEF Init
<1>3. QueuesMatch(q)
  BY <1>2 DEF QueuesMatch, NoDuplicates, InQueue
<1>4. PendingPairs(q) = {} /\ ActiveSet(q) = {}
  <2>1. \A c \in Events \cup Deferreds : q.flags[c] = {}
    BY <1>2, ConstantsAssumption DEF Callbacks
  <2>2. PendingPairs(q) = {}
    BY <2>1 DEF PendingPairs
  <2>3. ActiveSet(q) = {}
    BY <1>2 DEF ActiveSet
  <2> QED BY <2>2, <2>3
<1>5. CountsMatch(q)
  BY <1>2, <1>4, FS_EmptySet DEF CountsMatch
<1>6. RestTyped
  <2>1. /\ ev_res \in [Events \cup {Notify} -> SUBSET Results]
        /\ ev_io_timeout \in [Events -> Delays \cup {0}]
    BY DEF Init
  <2>2. event_break \in BOOLEAN /\ event_gotterm \in BOOLEAN /\ event_continue \in BOOLEAN
    BY DEF Init
  <2>3. exec \in [cb : Callbacks \cup {None}, fin : BOOLEAN]
    BY DEF Init, NoExec
  <2>4. thr \in [Threads -> [pc : {"idle", "wait", "woken"}, ev : Events \cup {None}]]
    BY DEF Init, Idle
  <2>5. is_notify_pending \in BOOLEAN /\ notify_fd \in BOOLEAN
    BY DEF Init
  <2>6. /\ quiet \in [Threads -> SUBSET Events] /\ armed \in [Events -> {"no", "untimed", "timed", "refused"}]
        /\ finruns \in [Events \cup Deferreds -> 0 .. 2]
    BY DEF Init
  <2> QED BY <2>1, <2>2, <2>3, <2>4, <2>5, <2>6 DEF Init, RestTyped, Forever
<1>7. PriorityInRange
  BY DEF Init, PriorityInRange
<1> QED BY <1>1, <1>3, <1>5, <1>6, <1>7 DEF IInv, BaseOK

\* Facts about the shared pieces of the actions.
LEMMA NotifyTyped ==
  ASSUME RestTyped, NEW t, NEW why, evthread_notify_base(t, why)
  PROVE  is_notify_pending' \in BOOLEAN /\ notify_fd' \in BOOLEAN
BY DEF RestTyped, evthread_notify_base, ntf

LEMMA AddIInv ==
  ASSUME IInv, NEW t \in Threads \cup {Loop}, NEW e \in Events,
         NEW tv \in Delays \cup {Forever}, event_add(t, e, tv)
  PROVE  IInv'
<1> DEFINE at == IF tv = Forever THEN Forever ELSE gettime + tv
<1>1. at \in Nat \cup {Forever}
  BY GetTimeIsNat, ConstantFacts DEF IInv, Forever
<1>2. BaseOK(q')
  <2>1. q' = event_add_nolock_(q, e, at)
    BY DEF event_add
  <2> HIDE DEF at
  <2> QED BY <1>1, <2>1, AddEvent DEF IInv
<1>3. RestTyped'
  <2>1. is_notify_pending' \in BOOLEAN /\ notify_fd' \in BOOLEAN
    BY NotifyTyped DEF IInv, event_add
  <2>2. /\ ev_io_timeout' \in [Events -> Delays \cup {0}]
        /\ armed' \in [Events -> {"no", "untimed", "timed", "refused"}]
        /\ quiet' \in [Threads -> SUBSET Events]
    BY DEF IInv, RestTyped, event_add, Rearm
  <2> QED BY <2>1, <2>2 DEF IInv, RestTyped, event_add, ctl, where, cbvars, clock
<1>4. PriorityInRange'
  BY DEF IInv, PriorityInRange, event_add, where
<1> QED BY <1>2, <1>3, <1>4 DEF IInv

LEMMA DelIInv ==
  ASSUME IInv, NEW t \in Threads \cup {Loop}, NEW e \in Events,
         NEW m \in {"AUTOBLOCK", "BLOCK", "NOBLOCK"}, event_del(t, e, m)
  PROVE  IInv'
<1>1. BaseOK(q')
  BY DelEvent, ConstantFacts DEF IInv, event_del
<1>2. RestTyped'
  <2>1. is_notify_pending' \in BOOLEAN /\ notify_fd' \in BOOLEAN
    BY NotifyTyped DEF IInv, event_del
  <2>2. waiters' \in Nat
    BY DEF IInv, RestTyped, event_del
  <2>3. thr' \in [Threads -> [pc : {"idle", "wait", "woken"}, ev : Events \cup {None}]]
    <3>1. CASE MustWait(t, e, m)
      <4>1. t \in Threads
        BY <3>1 DEF MustWait
      <4>2. thr' = [thr EXCEPT ![t] = [pc |-> "wait", ev |-> e]]
        BY <3>1 DEF event_del
      <4> QED BY <4>1, <4>2 DEF IInv, RestTyped
    <3>2. CASE ~MustWait(t, e, m)
      BY <3>2 DEF IInv, RestTyped, event_del
    <3> QED BY <3>1, <3>2
  <2>4. quiet' \in [Threads -> SUBSET Events] /\ armed' \in [Events -> {"no", "untimed", "timed", "refused"}]
    BY DEF IInv, RestTyped, event_del
  <2> QED BY <2>1, <2>2, <2>3, <2>4 DEF IInv, RestTyped, event_del, ctl, where, clock
<1>3. PriorityInRange'
  BY DEF IInv, PriorityInRange, event_del, where
<1> QED BY <1>1, <1>2, <1>3 DEF IInv

LEMMA WaitingIInv ==
  ASSUME IInv, NEW t \in Threads, SpuriousWakeup(t) \/ event_del_return(t)
  PROVE  IInv'
<1>1. BaseOK(q')
  BY DEF IInv, SpuriousWakeup, event_del_return, qvars
<1>2. RestTyped'
  <2>1. thr' \in [Threads -> [pc : {"idle", "wait", "woken"}, ev : Events \cup {None}]]
    BY DEF IInv, RestTyped, SpuriousWakeup, event_del_return, Idle
  <2> QED BY <2>1 DEF IInv, RestTyped, SpuriousWakeup, event_del_return, qvars, ctl, where,
                      cbvars, ntf, clock, history
<1>3. PriorityInRange'
  BY DEF IInv, PriorityInRange, SpuriousWakeup, event_del_return, where
<1> QED BY <1>1, <1>2, <1>3 DEF IInv

LEMMA RemoveTimerIInv ==
  ASSUME IInv, NEW t \in Threads \cup {Loop}, NEW e \in Events, event_remove_timer(t, e)
  PROVE  IInv'
<1>1. BaseOK(q')
  BY RemoveTimeout, ConstantFacts DEF IInv, event_remove_timer
<1>2. RestTyped'
  <2>1. /\ ev_io_timeout' \in [Events -> Delays \cup {0}]
        /\ armed' \in [Events -> {"no", "untimed", "timed", "refused"}]
    BY DEF IInv, RestTyped, event_remove_timer
  <2> QED BY <2>1 DEF IInv, RestTyped, event_remove_timer, ctl, where, cbvars, ntf, clock
<1>3. PriorityInRange'
  BY DEF IInv, PriorityInRange, event_remove_timer, where
<1> QED BY <1>1, <1>2, <1>3 DEF IInv

\* event_active_nolock_, the part of five actions.
LEMMA ActiveNolock ==
  ASSUME RestTyped, NEW b, BaseOK(b), NEW e \in Events \cup {Notify}, NEW res \in Results,
         event_active_nolock_(b, e, res)
  PROVE  /\ BaseOK(q')
         /\ ev_res' \in [Events \cup {Notify} -> SUBSET Results]
         /\ event_continue' \in BOOLEAN
<1>1. BaseOK(q')
  BY ActivateCallback, ConstantFacts DEF event_active_nolock_
<1>2. ev_res' \in [Events \cup {Notify} -> SUBSET Results]
  BY DEF RestTyped, event_active_nolock_
<1>3. event_continue' \in BOOLEAN
  BY DEF RestTyped, event_active_nolock_
<1> QED BY <1>1, <1>2, <1>3

LEMMA ActiveIInv ==
  ASSUME IInv, NEW t \in Threads \cup {Loop}, NEW e \in Events, NEW res \in ActiveWith,
         event_active(t, e, res)
  PROVE  IInv'
<1>1. /\ BaseOK(q') /\ event_continue' \in BOOLEAN
      /\ ev_res' \in [Events \cup {Notify} -> SUBSET Results]
  BY ActiveNolock, ConstantFacts DEF IInv, event_active
<1>2. RestTyped'
  <2>1. is_notify_pending' \in BOOLEAN /\ notify_fd' \in BOOLEAN
    BY NotifyTyped DEF IInv, event_active
  <2>2. quiet' \in [Threads -> SUBSET Events]
    BY DEF IInv, RestTyped, event_active, Rearm
  <2> QED BY <1>1, <2>1, <2>2 DEF IInv, RestTyped, event_active, where, cbvars, clock
<1>3. PriorityInRange'
  BY DEF IInv, PriorityInRange, event_active, where
<1> QED BY <1>1, <1>2, <1>3 DEF IInv

LEMMA ActiveLaterIInv ==
  ASSUME IInv, NEW t \in Threads \cup {Loop}, NEW e \in Events, NEW res \in ActiveWith,
         event_active_later_(t, e, res)
  PROVE  IInv'
<1>1. BaseOK(q')
  BY ActivateLater, ConstantFacts DEF IInv, event_active_later_
<1>2. RestTyped'
  <2>1. is_notify_pending' \in BOOLEAN /\ notify_fd' \in BOOLEAN
    BY NotifyTyped DEF IInv, event_active_later_
  <2>2. quiet' \in [Threads -> SUBSET Events]
    BY DEF IInv, RestTyped, event_active_later_, Rearm
  <2>3. ev_res' \in [Events \cup {Notify} -> SUBSET Results]
    BY ConstantFacts DEF IInv, RestTyped, event_active_later_
  <2> QED BY <2>1, <2>2, <2>3 DEF IInv, RestTyped, event_active_later_, ctl, where, cbvars, clock
<1>3. PriorityInRange'
  BY DEF IInv, PriorityInRange, event_active_later_, where
<1> QED BY <1>1, <1>2, <1>3 DEF IInv

LEMMA DeferredIInv ==
  ASSUME IInv, NEW t \in Threads \cup {Loop}, NEW d \in Deferreds,
         event_deferred_cb_schedule_(t, d) \/ event_deferred_cb_cancel_(t, d)
  PROVE  IInv'
<1>1. BaseOK(q')
  <2>1. BaseOK(q) /\ d \in Callbacks
    BY ConstantFacts DEF IInv
  <2>2. /\ BaseOK(event_queue_insert_active_later(q, d))
        /\ BaseOK(event_callback_activate_nolock_(q, d))
        /\ BaseOK(event_callback_cancel_nolock_(q, d))
    BY <2>1, ActivateLater, ActivateCallback, CancelCallback
  <2> QED BY <2>2 DEF event_deferred_cb_schedule_, event_deferred_cb_cancel_
<1>2. RestTyped'
  <2>1. is_notify_pending' \in BOOLEAN /\ notify_fd' \in BOOLEAN
    <3>1. CASE event_deferred_cb_schedule_(t, d)
      BY <3>1, NotifyTyped DEF IInv, event_deferred_cb_schedule_
    <3>2. CASE event_deferred_cb_cancel_(t, d)
      BY <3>2 DEF IInv, RestTyped, event_deferred_cb_cancel_, ntf
    <3> QED BY <3>1, <3>2
  <2>2. n_deferreds_queued' \in Nat
    BY DEF IInv, RestTyped, event_deferred_cb_schedule_, event_deferred_cb_cancel_, ctl
  <2> QED BY <2>1, <2>2 DEF IInv, RestTyped, event_deferred_cb_schedule_,
                            event_deferred_cb_cancel_, ctl, where, cbvars, clock, history
<1>3. PriorityInRange'
  BY DEF IInv, PriorityInRange, event_deferred_cb_schedule_, event_deferred_cb_cancel_, where
<1> QED BY <1>1, <1>2, <1>3 DEF IInv

\* Setting EVLIST_FINALIZING.
LEMMA Finalizing ==
  ASSUME NEW b, BaseOK(b), NEW c \in Callbacks
  PROVE  BaseOK(SetFinalizing(b, c))
         /\ SetFinalizing(b, c).flags = [b.flags EXCEPT ![c] = @ \cup {"FINALIZING"}]
<1> DEFINE F == b.flags[c] \cup {"FINALIZING"}
<1>1. b.flags[c] \in SUBSET Flags
  BY DEF BaseOK, BaseRec
<1>2. F \in SUBSET Flags /\ F \cap ListFlags = b.flags[c] \cap ListFlags
  BY <1>1 DEF Flags, ListFlags
<1>3. SetFinalizing(b, c) = [b EXCEPT !.flags[c] = F]
  BY Zenon DEF SetFinalizing
<1>4. F = b.flags[c] \cup {"FINALIZING"}
  OBVIOUS
<1> HIDE DEF F
<1>5. BaseOK([b EXCEPT !.flags[c] = F]) /\ [b EXCEPT !.flags[c] = F].flags = [b.flags EXCEPT ![c] = F]
  BY <1>2, OtherFlags
<1>6. BaseOK(SetFinalizing(b, c)) /\ SetFinalizing(b, c).flags = [b.flags EXCEPT ![c] = F]
  BY <1>3, <1>5, Zenon
<1> QED BY <1>4, <1>6

LEMMA FinalizeIInv ==
  ASSUME IInv, NEW t \in Threads \cup {Loop}, NEW e \in Events, event_finalize(t, e)
  PROVE  IInv'
<1>1. BaseOK(q')
  <2> DEFINE b1 == event_del_nolock_(q, e)
             b2 == event_callback_activate_nolock_(b1, e)
  <2>1. BaseOK(b1)
    BY DelEvent, ConstantFacts DEF IInv
  <2>2. q' = SetFinalizing(b2, e)
    BY DEF event_finalize
  <2> HIDE DEF b1
  <2>3. BaseOK(b2)
    BY <2>1, ActivateCallback, ConstantFacts
  <2> HIDE DEF b2
  <2> QED BY <2>2, <2>3, Finalizing, ConstantFacts
<1>2. RestTyped'
  <2>1. is_notify_pending' \in BOOLEAN /\ notify_fd' \in BOOLEAN
    BY NotifyTyped DEF IInv, event_finalize
  <2>2. /\ ev_res' \in [Events \cup {Notify} -> SUBSET Results]
        /\ quiet' \in [Threads -> SUBSET Events]
        /\ armed' \in [Events -> {"no", "untimed", "timed", "refused"}]
    BY DEF IInv, RestTyped, event_finalize, Rearm
  <2>3. event_continue' \in BOOLEAN
    BY DEF IInv, RestTyped, event_finalize
  <2> QED BY <2>1, <2>2, <2>3 DEF IInv, RestTyped, event_finalize, where, cbvars, clock
<1>3. PriorityInRange'
  BY DEF IInv, PriorityInRange, event_finalize, where
<1> QED BY <1>1, <1>2, <1>3 DEF IInv

LEMMA CallbackFinalizeIInv ==
  ASSUME IInv, NEW t \in Threads \cup {Loop}, NEW d \in Deferreds, event_callback_finalize_(t, d)
  PROVE  IInv'
<1>1. BaseOK(q')
  <2> DEFINE b1 == event_callback_cancel_nolock_(q, d)
             b2 == event_callback_activate_nolock_(b1, d)
  <2>1. BaseOK(b1)
    BY CancelCallback, ConstantFacts DEF IInv
  <2>2. q' = SetFinalizing(b2, d)
    BY DEF event_callback_finalize_
  <2> HIDE DEF b1
  <2>3. BaseOK(b2)
    BY <2>1, ActivateCallback, ConstantFacts
  <2> HIDE DEF b2
  <2> QED BY <2>2, <2>3, Finalizing, ConstantFacts
<1>2. RestTyped'
  <2>1. is_notify_pending' \in BOOLEAN /\ notify_fd' \in BOOLEAN
    BY NotifyTyped DEF IInv, event_callback_finalize_
  <2> QED BY <2>1 DEF IInv, RestTyped, event_callback_finalize_, ctl, where, cbvars, clock, history
<1>3. PriorityInRange'
  BY DEF IInv, PriorityInRange, event_callback_finalize_, where
<1> QED BY <1>1, <1>2, <1>3 DEF IInv

LEMMA AssignIInv ==
  ASSUME IInv, NEW t \in Threads \cup {Loop}, NEW c \in Events \cup Deferreds, event_assign(t, c)
  PROVE  IInv'
<1>1. BaseOK(q')
  <2>1. BaseOK(q) /\ c \in Callbacks /\ {} \in SUBSET Flags
        /\ {} \cap ListFlags = q.flags[c] \cap ListFlags
    BY ConstantFacts DEF IInv, event_assign
  <2>2. BaseOK([q EXCEPT !.flags[c] = {}])
    BY <2>1, OtherFlags
  <2> QED BY <2>2, Zenon DEF event_assign
<1>2. RestTyped'
  <2>1. /\ ev_res' \in [Events \cup {Notify} -> SUBSET Results]
        /\ ev_io_timeout' \in [Events -> Delays \cup {0}]
    BY DEF IInv, RestTyped, event_assign
  <2>2. /\ armed' \in [Events -> {"no", "untimed", "timed", "refused"}]
        /\ finruns' \in [Events \cup Deferreds -> 0 .. 2]
    BY DEF IInv, RestTyped, event_assign
  <2> QED BY <2>1, <2>2 DEF IInv, RestTyped, event_assign, ctl, where, cbvars, ntf, clock
<1>3. PriorityInRange'
  BY DEF IInv, PriorityInRange, event_assign, where
<1> QED BY <1>1, <1>2, <1>3 DEF IInv

LEMMA LoopControlIInv ==
  ASSUME IInv, NEW t \in Threads \cup {Loop},
         event_base_loopbreak(t) \/ event_base_loopcontinue(t)
  PROVE  IInv'
<1>1. BaseOK(q')
  BY DEF IInv, event_base_loopbreak, event_base_loopcontinue, qvars
<1>2. RestTyped'
  <2>1. is_notify_pending' \in BOOLEAN /\ notify_fd' \in BOOLEAN
    BY NotifyTyped DEF IInv, event_base_loopbreak, event_base_loopcontinue
  <2>2. event_break' \in BOOLEAN /\ event_continue' \in BOOLEAN
    BY DEF IInv, RestTyped, event_base_loopbreak, event_base_loopcontinue
  <2> QED BY <2>1, <2>2 DEF IInv, RestTyped, event_base_loopbreak, event_base_loopcontinue,
                            qvars, where, cbvars, clock, history
<1>3. PriorityInRange'
  BY DEF IInv, PriorityInRange, event_base_loopbreak, event_base_loopcontinue, where
<1> QED BY <1>1, <1>2, <1>3 DEF IInv

LEMMA LoopExitIInv ==
  ASSUME IInv, NEW t \in Threads \cup {Loop}, NEW x \in ExitEvents,
         NEW tv \in Delays \cup {Forever}, event_base_loopexit(t, x, tv)
  PROVE  IInv'
<1>0. x \in Events /\ "TIMEOUT" \in Results
  BY ConstantFacts DEF Results
<1>1. /\ BaseOK(q') /\ event_continue' \in BOOLEAN
      /\ ev_res' \in [Events \cup {Notify} -> SUBSET Results]
  <2>1. CASE tv = Forever
    BY <1>0, <2>1, ActiveNolock DEF IInv, event_base_loopexit
  <2>2. CASE tv # Forever
    <3> DEFINE at == gettime + tv
    <3>1. at \in Nat \cup {Forever}
      BY <2>2, GetTimeIsNat, ConstantFacts DEF IInv
    <3>2. q' = event_add_nolock_(q, x, at) /\ UNCHANGED <<ev_res, event_continue>>
      BY <2>2 DEF event_base_loopexit
    <3> HIDE DEF at
    <3>3. BaseOK(q')
      BY <1>0, <3>1, <3>2, AddEvent DEF IInv
    <3> QED BY <3>2, <3>3 DEF IInv, RestTyped
  <2> QED BY <2>1, <2>2
<1>2. RestTyped'
  <2>1. is_notify_pending' \in BOOLEAN /\ notify_fd' \in BOOLEAN
    BY NotifyTyped DEF IInv, event_base_loopexit
  <2> QED BY <1>1, <2>1 DEF IInv, RestTyped, event_base_loopexit, where, cbvars, clock, history
<1>3. PriorityInRange'
  BY DEF IInv, PriorityInRange, event_base_loopexit, where
<1> QED BY <1>1, <1>2, <1>3 DEF IInv

\* virtual_event_count is independent of the queues.
LEMMA VirtualOnly ==
  ASSUME NEW b, BaseOK(b), NEW n \in Nat
  PROVE  BaseOK([b EXCEPT !.virtual = n])
<1> DEFINE b2 == [b EXCEPT !.virtual = n]
<1>1. b \in BaseRec /\ QueuesMatch(b) /\ CountsMatch(b)
  BY DEF BaseOK
<1>2. b2 \in BaseRec
  BY <1>1 DEF BaseRec
<1>3. /\ b2.flags = b.flags /\ b2.active = b.active /\ b2.later = b.later
      /\ b2.event_count = b.event_count /\ b2.event_count_active = b.event_count_active
  BY <1>1 DEF BaseRec
<1> HIDE DEF b2
<1>4. QueuesMatch(b2) /\ CountsMatch(b2)
  BY <1>1, <1>3 DEF QueuesMatch, CountsMatch, PendingPairs, ActiveSet
<1> QED BY <1>2, <1>4 DEF BaseOK, b2

LEMMA VirtualIInv ==
  ASSUME IInv, NEW t \in Threads \cup {Loop},
         event_base_add_virtual_(t) \/ event_base_del_virtual_(t)
  PROVE  IInv'
<1>1. BaseOK(q')
  <2>1. q.virtual \in Nat /\ BaseOK(q)
    BY DEF IInv, BaseOK, BaseRec
  <2>2. CASE event_base_add_virtual_(t)
    <3>1. q.virtual + 1 \in Nat
      BY <2>1
    <3>2. BaseOK([q EXCEPT !.virtual = q.virtual + 1])
      BY <2>1, <3>1, VirtualOnly
    <3> QED BY <2>2, <3>2, Zenon DEF event_base_add_virtual_
  <2>3. CASE event_base_del_virtual_(t)
    <3>1. q.virtual - 1 \in Nat
      BY <2>1, <2>3 DEF event_base_del_virtual_
    <3>2. BaseOK([q EXCEPT !.virtual = q.virtual - 1])
      BY <2>1, <3>1, VirtualOnly
    <3> QED BY <2>3, <3>2, Zenon DEF event_base_del_virtual_
  <2> QED BY <2>2, <2>3
<1>2. RestTyped'
  <2>1. is_notify_pending' \in BOOLEAN /\ notify_fd' \in BOOLEAN
    BY NotifyTyped DEF IInv, RestTyped, event_base_add_virtual_, event_base_del_virtual_, ntf
  <2> QED BY <2>1 DEF IInv, RestTyped, event_base_add_virtual_, event_base_del_virtual_,
                      ctl, where, cbvars, clock, history
<1>3. PriorityInRange'
  BY DEF IInv, PriorityInRange, event_base_add_virtual_, event_base_del_virtual_, where
<1> QED BY <1>1, <1>2, <1>3 DEF IInv

------------------------------------------------------------------------------
(* The steps of event_base_loop.                                           *)

LEMMA LeastNatural ==
  ASSUME NEW T, T \subseteq Nat, T # {}
  PROVE  \E x \in T : \A y \in T : x =< y
<1> DEFINE R == OpToRel(<, Nat)
<1>1. \A x, y \in Nat : x < y <=> <<x, y>> \in R
  BY DEF OpToRel
<1>2. \E x \in T : \A y \in T : ~(<<y, x>> \in R)
  BY NatLessThanWellFounded, WFMin
<1> HIDE DEF R
<1>3. PICK x \in T : \A y \in T : ~(<<y, x>> \in R)
  BY <1>2
<1>4. ASSUME NEW y \in T PROVE x =< y
  <2>1. x \in Nat /\ y \in Nat
    OBVIOUS
  <2>2. ~(y < x)
    BY <1>1, <1>3, <2>1, Zenon
  <2> QED BY <2>1, <2>2
<1> QED BY <1>4

\* A nonempty heap has a top.
LEMMA HeapHasTop ==
  ASSUME NEW b, BaseOK(b), TimeHeap(b) # {}
  PROVE  \E e \in Events : min_heap_top(b, e)
<1> DEFINE T == {b.timeout[e] : e \in TimeHeap(b)}
<1>1. b.timeout \in [Events -> Nat] /\ TimeHeap(b) \subseteq Events
  BY DEF BaseOK, BaseRec, TimeHeap
<1>2. T \subseteq Nat /\ T # {}
  BY <1>1
<1>3. PICK x \in T : \A y \in T : x =< y
  <2> HIDE DEF T
  <2> QED BY <1>2, LeastNatural
<1>4. PICK e \in TimeHeap(b) : x = b.timeout[e]
  BY <1>3
<1> QED BY <1>1, <1>3, <1>4 DEF min_heap_top

LEMMA LoopWaitIInv ==
  ASSUME IInv, loop_wait
  PROVE  IInv'
<1> DEFINE wait == IF N_ACTIVE_CALLBACKS(q) = 0 /\ "NONBLOCK" \notin LoopFlags
                   THEN timeout_next ELSE 0
<1>1. BaseOK(q')
  BY DEF IInv, loop_wait, qvars
<1>2. timeout_next \in Int
  <2>1. CASE TimeHeap(q) = {}
    BY <2>1 DEF timeout_next, Forever
  <2>2. CASE TimeHeap(q) # {}
    <3> DEFINE top == CHOOSE e \in Events : min_heap_top(q, e)
    <3>1. top \in Events
      BY <2>2, HeapHasTop DEF IInv
    <3>2. timeout_next = IF q.timeout[top] =< gettime THEN 0 ELSE q.timeout[top] - gettime
      BY <2>2 DEF timeout_next
    <3> HIDE DEF top
    <3>3. q.timeout[top] \in Nat /\ gettime \in Nat
      BY <3>1, GetTimeIsNat DEF IInv, BaseOK, BaseRec
    <3> QED BY <3>2, <3>3
  <2> QED BY <2>1, <2>2
<1>3. deadline' = (IF wait = Forever THEN Forever ELSE now + wait) /\ lag' = now - gettime
  BY DEF loop_wait
<1>4. wait \in Int
  BY <1>2
<1> HIDE DEF wait
<1>5. deadline' \in Int /\ lag' \in Int
  BY <1>3, <1>4, GetTimeIsNat DEF IInv, RestTyped, Forever
<1>6. RestTyped'
  BY <1>5 DEF IInv, RestTyped, loop_wait, qvars, cbvars, ntf, clock, history
<1>7. PriorityInRange'
  BY DEF PriorityInRange, loop_wait
<1> QED BY <1>1, <1>6, <1>7 DEF IInv

\* The steps that change neither the queues nor the priority being run.
LEMMA OuterLoopIInv ==
  ASSUME IInv, \/ loop_start \/ loop_exit \/ dispatch_enter \/ wait_timeout \/ wait_interrupted
               \/ wait_error \/ dispatch_locked \/ dispatch_leave
               \/ (\E fds \in SUBSET Fds : wait_ready(fds)) \/ wait_notified
  PROVE  IInv'
<1>1. BaseOK(q')
  BY DEF IInv, loop_start, loop_exit, dispatch_enter, wait_timeout, wait_interrupted, wait_error,
         dispatch_locked, dispatch_leave, wait_ready, wait_notified, LeavePoll, qvars
<1>2. RestTyped'
  <2>1. CASE loop_start
    BY <2>1 DEF IInv, RestTyped, loop_start, qvars, cbvars, ntf, history, Forever
  <2>2. CASE loop_exit
    BY <2>2 DEF IInv, RestTyped, loop_exit, LeaveLoop, qvars, cbvars, ntf, history, Forever
  <2>3. CASE dispatch_enter
    BY <2>3 DEF IInv, RestTyped, dispatch_enter, qvars, ctl, cbvars, ntf, history, Forever
  <2>4. ASSUME NEW fds \in SUBSET Fds, LeavePoll(fds) PROVE RestTyped'
    <3>1. ready' \subseteq Fds
      BY <2>4 DEF LeavePoll, Fds
    <3> QED BY <2>4, <3>1 DEF IInv, RestTyped, LeavePoll, qvars, ctl, cbvars, ntf, clock, history,
                              Forever
  <2>5. CASE wait_error
    BY <2>5 DEF IInv, RestTyped, wait_error, LeaveLoop, qvars, ctl, cbvars, ntf, history, Forever
  <2>6. CASE dispatch_locked
    BY <2>6 DEF IInv, RestTyped, dispatch_locked, qvars, ctl, cbvars, ntf, clock, history
  <2>7. CASE dispatch_leave
    BY <2>7 DEF IInv, RestTyped, dispatch_leave, qvars, ctl, cbvars, ntf, history
  <2> QED BY <2>1, <2>2, <2>3, <2>4, <2>5, <2>6, <2>7 DEF wait_timeout, wait_interrupted, wait_ready, wait_notified
<1>3. PriorityInRange'
  BY DEF PriorityInRange, loop_start, loop_exit, LeaveLoop, dispatch_enter, wait_timeout,
         wait_interrupted, wait_error, dispatch_locked, dispatch_leave, wait_ready, wait_notified, LeavePoll
<1> QED BY <1>1, <1>2, <1>3 DEF IInv

LEMMA MakeLaterIInv ==
  ASSUME IInv, make_later_active
  PROVE  IInv'
<1>1. BaseOK(q')
  BY MakeLaterActive DEF IInv, make_later_active
<1>2. RestTyped'
  BY DEF IInv, RestTyped, make_later_active, where, cbvars, ntf, clock, history
<1>3. PriorityInRange'
  BY DEF IInv, PriorityInRange, make_later_active, where
<1> QED BY <1>1, <1>2, <1>3 DEF IInv

LEMMA ActivationIInv ==
  ASSUME IInv, \/ \E c \in IO \cup {Notify} : dispatch_activate(c)
               \/ \E e \in Events : timeout_process(e)
  PROVE  IInv'
<1>1. ASSUME NEW c \in IO \cup {Notify}, dispatch_activate(c) PROVE IInv'
  <2>1. c \in Events \cup {Notify} /\ "READ" \in Results
    BY ConstantFacts DEF Results
  <2>2. /\ BaseOK(q') /\ event_continue' \in BOOLEAN
        /\ ev_res' \in [Events \cup {Notify} -> SUBSET Results]
    BY <1>1, <2>1, ActiveNolock DEF IInv, dispatch_activate
  <2>3. RestTyped'
    BY <1>1, <2>2 DEF IInv, RestTyped, dispatch_activate, cbvars, ntf, clock, history
  <2>4. PriorityInRange'
    BY <1>1 DEF IInv, PriorityInRange, dispatch_activate
  <2> QED BY <2>2, <2>3, <2>4 DEF IInv
<1>2. ASSUME NEW e \in Events, timeout_process(e) PROVE IInv'
  <2>1. BaseOK(event_del_nolock_(q, e)) /\ "TIMEOUT" \in Results
    BY DelEvent, ConstantFacts DEF IInv, Results
  <2>2. /\ BaseOK(q') /\ event_continue' \in BOOLEAN
        /\ ev_res' \in [Events \cup {Notify} -> SUBSET Results]
    BY <1>2, <2>1, ActiveNolock DEF IInv, timeout_process
  <2>3. RestTyped'
    BY <1>2, <2>2 DEF IInv, RestTyped, timeout_process, where, cbvars, ntf, clock, history
  <2>4. PriorityInRange'
    BY <1>2 DEF IInv, PriorityInRange, timeout_process, where
  <2> QED BY <2>2, <2>3, <2>4 DEF IInv
<1> QED BY <1>1, <1>2

\* Leaving event_process_active, and going on to the next queue.
LEMMA QueueDoneTyped ==
  ASSUME RestTyped, event_running_priority \in Priorities,
         (\E b, n : EndProcess(b, n)) \/ QueueDone
  PROVE  /\ pc' \in {"stopped", "iter", "scan"} /\ tv_cache' \in Nat \cup {Forever}
         /\ count' \in Nat /\ event_running_priority' \in -1 .. NPri
         /\ pc' = "scan" => event_running_priority' \in 0 .. NPri
<1>1. NPri \in Nat
  BY ConstantFacts
<1>2. ASSUME NEW b, NEW n, EndProcess(b, n)
      PROVE  /\ pc' \in {"stopped", "iter"} /\ tv_cache' \in Nat \cup {Forever}
             /\ count' \in Nat /\ event_running_priority' \in -1 .. NPri
  BY <1>1, <1>2 DEF RestTyped, EndProcess, LeaveLoop
<1>3. ASSUME QueueDone, ~(count > 0)
      PROVE  /\ pc' = "scan" /\ tv_cache' \in Nat \cup {Forever}
             /\ count' \in Nat /\ event_running_priority' \in 0 .. NPri
  BY <1>1, <1>3 DEF RestTyped, QueueDone, Priorities
<1> QED BY <1>1, <1>2, <1>3 DEF QueueDone

LEMMA TimeoutsDoneIInv ==
  ASSUME IInv, timeouts_done
  PROVE  IInv'
<1>1. BaseOK(q')
  BY DEF IInv, timeouts_done, qvars
<1>2. /\ pc' \in {"scan", "stopped", "iter"} /\ tv_cache' \in Nat \cup {Forever}
      /\ event_running_priority' \in -1 .. NPri
      /\ pc' = "scan" => event_running_priority' \in 0 .. NPri
  BY ConstantFacts DEF IInv, RestTyped, timeouts_done, LeaveLoop
<1>3. RestTyped'
  BY <1>2 DEF IInv, RestTyped, timeouts_done, qvars, ctl, cbvars, ntf, history
<1>4. PriorityInRange'
  BY <1>2 DEF PriorityInRange
<1> QED BY <1>1, <1>3, <1>4 DEF IInv

\* Some active queue is the first nonempty one from event_running_priority on.
LEMMA FirstNonEmpty ==
  ASSUME \E i \in Priorities : i >= event_running_priority /\ NonEmpty(i)
  PROVE  \E i \in Priorities :
           /\ i >= event_running_priority /\ NonEmpty(i)
           /\ \A j \in Priorities : j >= event_running_priority /\ NonEmpty(j) => i =< j
<1> DEFINE T == {i \in Priorities : i >= event_running_priority /\ NonEmpty(i)}
<1>1. T \subseteq Nat /\ T # {}
  BY ConstantFacts DEF Priorities
<1> HIDE DEF T
<1>2. PICK i \in T : \A j \in T : i =< j
  BY <1>1, LeastNatural
<1> QED BY <1>2 DEF T

LEMMA ScanIInv ==
  ASSUME IInv, scan_queues
  PROVE  IInv'
<1>1. BaseOK(q')
  BY DEF IInv, scan_queues, qvars
<1>2. /\ pc' \in {"run", "stopped", "iter"} /\ tv_cache' \in Nat \cup {Forever}
      /\ count' \in Nat /\ event_running_priority' \in -1 .. NPri
      /\ pc' = "run" => event_running_priority' \in Priorities
  <2>1. CASE \E i \in Priorities : i >= event_running_priority /\ NonEmpty(i)
    <3>1. /\ event_running_priority' = CHOOSE i \in Priorities :
               /\ i >= event_running_priority /\ NonEmpty(i)
               /\ \A j \in Priorities : j >= event_running_priority /\ NonEmpty(j) => i =< j
          /\ pc' = "run" /\ count' = 0 /\ UNCHANGED tv_cache
      BY <2>1 DEF scan_queues
    <3>2. \E i \in Priorities :
               /\ i >= event_running_priority /\ NonEmpty(i)
               /\ \A j \in Priorities : j >= event_running_priority /\ NonEmpty(j) => i =< j
      BY <2>1, FirstNonEmpty
    <3>3. event_running_priority' \in Priorities
      BY <3>1, <3>2
    <3> QED BY <3>1, <3>3, ConstantFacts DEF IInv, RestTyped, Priorities
  <2>2. CASE ~\E i \in Priorities : i >= event_running_priority /\ NonEmpty(i)
    <3>1. EndProcess(q, 0)
      BY <2>2 DEF scan_queues
    <3> QED BY <3>1, ConstantFacts DEF IInv, RestTyped, EndProcess, LeaveLoop
  <2> QED BY <2>1, <2>2
<1>3. RestTyped'
  BY <1>2 DEF IInv, RestTyped, scan_queues, qvars, ctl, cbvars, ntf, history
<1>4. PriorityInRange'
  BY <1>2 DEF PriorityInRange
<1> QED BY <1>1, <1>3, <1>4 DEF IInv

LEMMA QueueDrainedIInv ==
  ASSUME IInv, queue_drained
  PROVE  IInv'
<1>1. BaseOK(q')
  BY DEF IInv, queue_drained, qvars
<1>2. /\ pc' \in {"stopped", "iter", "scan"} /\ tv_cache' \in Nat \cup {Forever}
      /\ count' \in Nat /\ event_running_priority' \in -1 .. NPri
      /\ pc' = "scan" => event_running_priority' \in 0 .. NPri
  BY QueueDoneTyped DEF IInv, PriorityInRange, queue_drained
<1>3. RestTyped'
  BY <1>2 DEF IInv, RestTyped, queue_drained, qvars, ctl, cbvars, ntf, history
<1>4. PriorityInRange'
  BY <1>2 DEF PriorityInRange
<1> QED BY <1>1, <1>3, <1>4 DEF IInv

LEMMA CallbackReturnIInv ==
  ASSUME IInv, callback_return
  PROVE  IInv'
<1>1. BaseOK(q')
  BY DEF IInv, callback_return, qvars
<1>2. /\ pc' \in {"stopped", "iter", "scan", "run"} /\ tv_cache' \in Nat \cup {Forever}
      /\ count' \in Nat /\ event_running_priority' \in -1 .. NPri
      /\ pc' = "scan" => event_running_priority' \in 0 .. NPri
      /\ pc' = "run" => event_running_priority' \in Priorities
  <2>1. event_running_priority \in Priorities
    BY DEF IInv, PriorityInRange, callback_return
  <2>2. CASE (\E b, n : EndProcess(b, n)) \/ QueueDone
    BY <2>1, <2>2, QueueDoneTyped DEF IInv
  <2>3. CASE pc' = "run" /\ UNCHANGED <<event_running_priority, count, tv_cache>>
    BY <2>1, <2>3 DEF IInv, RestTyped
  <2> QED BY <2>2, <2>3 DEF callback_return
<1>3. RestTyped'
  <2>1. thr' \in [Threads -> [pc : {"idle", "wait", "woken"}, ev : Events \cup {None}]]
    BY DEF IInv, RestTyped, callback_return
  <2>2. exec' \in [cb : Callbacks \cup {None}, fin : BOOLEAN]
    BY DEF callback_return, NoExec
  <2>3. event_gotterm' \in BOOLEAN
    BY DEF callback_return
  <2>4. current_event' \in Callbacks \cup {None} /\ waiters' \in Nat
    BY DEF callback_return
  <2> QED BY <1>2, <2>1, <2>2, <2>3, <2>4 DEF IInv, RestTyped, callback_return, qvars, ntf, history
<1>4. PriorityInRange'
  BY <1>2 DEF PriorityInRange
<1> QED BY <1>1, <1>3, <1>4 DEF IInv

LEMMA DrainIInv ==
  ASSUME IInv, drain_read \/ drain_clear \/ Tick
  PROVE  IInv'
<1>1. BaseOK(q')
  BY DEF IInv, drain_read, drain_clear, Tick, qvars
<1>2. RestTyped'
  <2>1. CASE drain_read
    BY <2>1 DEF IInv, RestTyped, drain_read, qvars, ctl, cbvars, clock, history
  <2>2. CASE drain_clear
    BY <2>2 DEF IInv, RestTyped, drain_clear, qvars, ctl, cbvars, clock, history
  <2>3. CASE Tick
    BY <2>3 DEF IInv, RestTyped, Tick, qvars, ctl, where, cbvars, ntf, history
  <2> QED BY <2>1, <2>2, <2>3
<1>3. PriorityInRange'
  BY DEF IInv, PriorityInRange, drain_read, drain_clear, Tick, where
<1> QED BY <1>1, <1>2, <1>3 DEF IInv

\* Starting a callback: what StartCallback leaves to show is BaseOK of the queues.
LEMMA StartTyped ==
  ASSUME IInv, NEW c \in Callbacks, NEW b, BaseOK(b), NEW fin \in BOOLEAN, StartCallback(c, b, fin),
         ev_io_timeout' \in [Events -> Delays \cup {0}],
         armed' \in [Events -> {"no", "untimed", "timed", "refused"}],
         finruns' \in [Events \cup Deferreds -> 0 .. 2]
  PROVE  IInv'
<1>1. BaseOK(q')
  BY DEF StartCallback
<1>2. RestTyped'
  <2>1. exec' \in [cb : Callbacks \cup {None}, fin : BOOLEAN]
    BY DEF StartCallback
  <2>2. count' \in Nat
    BY DEF IInv, RestTyped, StartCallback, Counted
  <2>3. current_event' \in Callbacks \cup {None} /\ waiters' \in Nat /\ pc' \in {"drain", "callback"}
    BY DEF StartCallback
  <2> QED BY <2>1, <2>2, <2>3 DEF IInv, RestTyped, StartCallback, ctl, ntf, clock
<1>3. PriorityInRange'
  BY DEF IInv, PriorityInRange, StartCallback
<1> QED BY <1>1, <1>2, <1>3 DEF IInv

\* The callback taken off the queue is active, and leaving the queue keeps BaseOK.
LEMMA HeadIsActive ==
  ASSUME IInv, NEW c, NEW b, NEW fin, StartCallback(c, b, fin)
  PROVE  /\ c \in Callbacks /\ "ACTIVE" \in q.flags[c] /\ Pri[c] = event_running_priority
         /\ BaseOK(event_queue_remove_active(q, c))
         /\ event_queue_remove_active(q, c).flags = [q.flags EXCEPT ![c] = @ \ {"ACTIVE"}]
<1>1. event_running_priority \in Priorities
  BY DEF IInv, PriorityInRange, StartCallback
<1> DEFINE s == q.active[event_running_priority]
<1>2. s \in Seq(Callbacks) /\ NoDuplicates(s) /\ s # <<>> /\ c = Head(s)
  BY <1>1 DEF IInv, BaseOK, BaseRec, QueuesMatch, StartCallback
<1>3. c \in Callbacks /\ InQueue(s, c)
  <2> HIDE DEF s
  <2> QED BY <1>2, HeadOfQueue
<1>4. "ACTIVE" \in q.flags[c] /\ Pri[c] = event_running_priority
  BY <1>1, <1>3 DEF IInv, BaseOK, QueuesMatch
<1> QED BY <1>3, <1>4, RemoveActive DEF IInv

LEMMA RunIInv ==
  ASSUME IInv, \/ \E e \in Events : run_event(e) \/ run_persist(e)
               \/ \E c \in Deferreds \cup {Notify} : run_callback(c)
               \/ \E c \in Events \cup Deferreds : run_finalizer(c)
  PROVE  IInv'
<1>0. /\ ev_io_timeout \in [Events -> Delays \cup {0}]
      /\ armed \in [Events -> {"no", "untimed", "timed", "refused"}]
      /\ finruns \in [Events \cup Deferreds -> 0 .. 2]
  BY DEF IInv, RestTyped
<1>1. ASSUME NEW e \in Events, run_event(e) PROVE IInv'
  <2>1. BaseOK(event_del_nolock_(q, e)) /\ e \in Callbacks
    BY DelEvent, ConstantFacts DEF IInv
  <2>2. armed' \in [Events -> {"no", "untimed", "timed", "refused"}]
    BY <1>0, <1>1 DEF run_event
  <2> QED BY <1>0, <1>1, <2>1, <2>2, StartTyped DEF run_event
<1>2. ASSUME NEW c \in Deferreds \cup {Notify}, run_callback(c) PROVE IInv'
  <2>1. BaseOK(event_queue_remove_active(q, c)) /\ c \in Callbacks
    BY <1>2, HeadIsActive DEF run_callback
  <2> QED BY <1>0, <1>2, <2>1, StartTyped DEF run_callback
<1>3. ASSUME NEW c \in Events \cup Deferreds, run_finalizer(c) PROVE IInv'
  <2>1. BaseOK(event_queue_remove_active(q, c)) /\ c \in Callbacks
    BY <1>3, HeadIsActive DEF run_finalizer
  <2>2. finruns' \in [Events \cup Deferreds -> 0 .. 2]
    BY <1>0, <1>3 DEF run_finalizer
  <2> QED BY <1>0, <1>3, <2>1, <2>2, StartTyped DEF run_finalizer
<1>4. ASSUME NEW e \in Events, run_persist(e) PROVE IInv'
  <2> DEFINE b == event_queue_remove_active(q, e)
             b2 == event_add_nolock_(b, e, NextRun(e))
  <2>1. StartCallback(e, b, FALSE) \/ StartCallback(e, b2, FALSE)
    BY <1>4 DEF run_persist
  <2>2. BaseOK(b)
    BY <2>1, HeadIsActive
  <2>3. NextRun(e) \in Nat
    <3>1. q.timeout[e] \in Nat
      BY DEF IInv, BaseOK, BaseRec
    <3>2. gettime \in Nat
      BY GetTimeIsNat DEF IInv
    <3>3. ev_io_timeout[e] \in Nat
      <4>1. ev_io_timeout[e] \in Delays \cup {0}
        BY <1>0
      <4>2. \A x \in Delays \cup {0} : x \in Nat
        BY ConstantFacts
      <4> QED BY <4>1, <4>2, Zenon
    <3> QED BY <3>1, <3>2, <3>3 DEF NextRun
  <2> HIDE DEF b
  <2>4. BaseOK(b2)
    BY <2>2, <2>3, AddEvent
  <2> HIDE DEF b2
  <2>5. /\ UNCHANGED <<ev_io_timeout, finruns>>
        /\ armed' \in [Events -> {"no", "untimed", "timed", "refused"}]
    BY <1>0, <1>4 DEF run_persist
  <2>6. e \in Callbacks
    BY ConstantFacts
  <2> QED BY <1>0, <2>1, <2>2, <2>4, <2>5, <2>6, StartTyped
<1> QED BY <1>1, <1>2, <1>3, <1>4

\* Every step of the loop and of the threads keeps the invariant.
LEMMA StepIInv == IInv /\ [Next]_vars => IInv'
<1> SUFFICES ASSUME IInv, [Next]_vars PROVE IInv'
  OBVIOUS
<1>1. CASE LoopStep
  <2>1. CASE loop_wait
    BY <2>1, LoopWaitIInv
  <2>2. CASE \/ loop_exit \/ dispatch_enter \/ wait_timeout \/ dispatch_locked \/ dispatch_leave
             \/ (\E fds \in SUBSET Fds : wait_ready(fds)) \/ wait_notified
    BY <2>2, OuterLoopIInv
  <2>3. CASE make_later_active
    BY <2>3, MakeLaterIInv
  <2>4. CASE \/ \E c \in IO \cup {Notify} : dispatch_activate(c)
             \/ \E e \in Events : timeout_process(e)
    BY <2>4, ActivationIInv
  <2>5. CASE timeouts_done
    BY <2>5, TimeoutsDoneIInv
  <2>6. CASE scan_queues
    BY <2>6, ScanIInv
  <2>7. CASE queue_drained
    BY <2>7, QueueDrainedIInv
  <2>8. CASE \/ \E e \in Events : run_event(e) \/ run_persist(e)
             \/ \E c \in Deferreds \cup {Notify} : run_callback(c)
             \/ \E c \in Events \cup Deferreds : run_finalizer(c)
    BY <2>8, RunIInv
  <2>9. CASE drain_read \/ drain_clear
    BY <2>9, DrainIInv
  <2>10. CASE callback_return
    BY <2>10, CallbackReturnIInv
  <2> QED BY <1>1, <2>1, <2>2, <2>3, <2>4, <2>5, <2>6, <2>7, <2>8, <2>9, <2>10 DEF LoopStep
<1>2. CASE loop_start \/ wait_interrupted \/ wait_error \/ \E fds \in SUBSET Fds : wait_ready(fds)
  BY <1>2, OuterLoopIInv
<1>3. CASE Tick
  BY <1>3, DrainIInv
<1>4. ASSUME NEW t \in Threads \cup {Loop}, ApiCall(t) PROVE IInv'
  <2>1. CASE \E e \in Events, tv \in Delays \cup {Forever} : event_add(t, e, tv)
    BY <2>1, AddIInv
  <2>2. CASE \E e \in Events, m \in {"AUTOBLOCK", "BLOCK", "NOBLOCK"} : event_del(t, e, m)
    BY <2>2, DelIInv
  <2>3. CASE \E e \in Events : event_remove_timer(t, e)
    BY <2>3, RemoveTimerIInv
  <2>4. CASE \E e \in Events, res \in ActiveWith : event_active(t, e, res)
    BY <2>4, ActiveIInv
  <2>5. CASE \E e \in Events, res \in ActiveWith : event_active_later_(t, e, res)
    BY <2>5, ActiveLaterIInv
  <2>6. CASE \E e \in Events : event_finalize(t, e)
    BY <2>6, FinalizeIInv
  <2>7. CASE \E d \in Deferreds : event_deferred_cb_schedule_(t, d) \/ event_deferred_cb_cancel_(t, d)
    BY <2>7, DeferredIInv
  <2>8. CASE \E d \in Deferreds : event_callback_finalize_(t, d)
    BY <2>8, CallbackFinalizeIInv
  <2>9. CASE \E c \in Events \cup Deferreds : event_assign(t, c)
    BY <2>9, AssignIInv
  <2>10. CASE event_base_loopbreak(t) \/ event_base_loopcontinue(t)
    BY <2>10, LoopControlIInv
  <2>11. CASE \E x \in ExitEvents, tv \in Delays \cup {Forever} : event_base_loopexit(t, x, tv)
    BY <2>11, LoopExitIInv
  <2>12. CASE event_base_add_virtual_(t) \/ event_base_del_virtual_(t)
    BY <2>12, VirtualIInv
  <2> QED BY <1>4, <2>1, <2>2, <2>3, <2>4, <2>5, <2>6, <2>7, <2>8, <2>9, <2>10, <2>11, <2>12
          DEF ApiCall
<1>5. CASE \E t \in Threads : SpuriousWakeup(t) \/ event_del_return(t)
  BY <1>5, WaitingIInv
<1>6. CASE UNCHANGED vars
  BY <1>6 DEF IInv, RestTyped, PriorityInRange, vars, qvars, ctl, where, cbvars, ntf, clock, history
<1> QED BY <1>1, <1>2, <1>3, <1>4, <1>5, <1>6 DEF Next

LEMMA InvariantHolds == Spec => []IInv
BY InitIInv, StepIInv, PTL DEF Spec

\* Every variable keeps its type.
THEOREM TypeCorrect == Spec => []TypeOK
<1>1. IInv => TypeOK
  BY IInvImplies
<1> QED BY <1>1, InvariantHolds, PTL

\* The active queues and the later queue always agree with the EVLIST flags, as
\* event_base_assert_ok_nolock_ asserts: for every number of events and threads.
THEOREM QueuesAreConsistent == Spec => []QueuesMatchFlags
<1>1. IInv => QueuesMatchFlags
  BY IInvImplies
<1> QED BY <1>1, InvariantHolds, PTL

\* event_count and event_count_active never drift from the lists they count, so the loop
\* neither exits with an event pending nor spins on a count that no callback stands for.
THEOREM CountsAreConsistent == Spec => []CountsMatchFlags
<1>1. IInv => CountsMatchFlags
  BY IInvImplies
<1> QED BY <1>1, InvariantHolds, PTL

------------------------------------------------------------------------------
(* The notification protocol: NoLostWakeup and OversleepBounded.           *)

\* The backend will wait, or waits.
WouldSleep == deadline = Forever \/ now < deadline

HasWork(b) ==
  N_ACTIVE_CALLBACKS(b) > 0 \/ event_break \/ (deadline = Forever /\ NothingLeft(b))

\* The wait ends in time for every timeout.
Covered(b) ==
  \A e \in TimeHeap(b) : deadline # Forever /\ deadline =< b.timeout[e] + lag

\* A pending notification can be read, but for the moment between the read and the
\* clearing of is_notify_pending; and a loop that is about to wait, or waits, either has
\* nothing to do before its deadline or is woken by the notification fd.
WInv ==
  /\ is_notify_pending => notify_fd \/ pc = "drained"
  /\ pc \in {"later", "poll"} /\ WouldSleep =>
       \/ pc = "poll" /\ notify_fd
       \/ ~HasWork(q) /\ Covered(q)

LEMMA WInvImplies == WInv => NoLostWakeup /\ OversleepBounded
BY DEF WInv, NoLostWakeup, OversleepBounded, Sleeping, WouldSleep, HasWork, Covered

------------------------------------------------------------------------------
(* What the primitives and operations leave alone.                         *)

LEMMA PrimitiveFrames ==
  ASSUME NEW b \in BaseRec, NEW c \in Callbacks
  PROVE  /\ event_queue_insert_inserted(b, c).timeout = b.timeout
         /\ event_queue_insert_inserted(b, c).virtual = b.virtual
         /\ event_queue_remove_inserted(b, c).timeout = b.timeout
         /\ event_queue_remove_inserted(b, c).virtual = b.virtual
         /\ event_queue_remove_timeout(b, c).timeout = b.timeout
         /\ event_queue_remove_timeout(b, c).virtual = b.virtual
         /\ event_queue_remove_active(b, c).timeout = b.timeout
         /\ event_queue_remove_active(b, c).virtual = b.virtual
         /\ event_queue_remove_active_later(b, c).timeout = b.timeout
         /\ event_queue_remove_active_later(b, c).virtual = b.virtual
         /\ \A at : event_queue_insert_timeout(b, c, at).virtual = b.virtual
         /\ \A at : event_queue_insert_timeout(b, c, at).timeout = [b.timeout EXCEPT ![c] = at]
<1>1. /\ event_queue_insert_inserted(b, c).timeout = b.timeout
      /\ event_queue_insert_inserted(b, c).virtual = b.virtual
  BY DEF BaseRec, event_queue_insert_inserted
<1>2. /\ event_queue_remove_inserted(b, c).timeout = b.timeout
      /\ event_queue_remove_inserted(b, c).virtual = b.virtual
  BY DEF BaseRec, event_queue_remove_inserted
<1>3. /\ event_queue_remove_timeout(b, c).timeout = b.timeout
      /\ event_queue_remove_timeout(b, c).virtual = b.virtual
  BY DEF BaseRec, event_queue_remove_timeout
<1>4. /\ event_queue_remove_active(b, c).timeout = b.timeout
      /\ event_queue_remove_active(b, c).virtual = b.virtual
  BY DEF BaseRec, event_queue_remove_active
<1>5. /\ event_queue_remove_active_later(b, c).timeout = b.timeout
      /\ event_queue_remove_active_later(b, c).virtual = b.virtual
  BY DEF BaseRec, event_queue_remove_active_later
<1>6. ASSUME NEW at
      PROVE  /\ event_queue_insert_timeout(b, c, at).virtual = b.virtual
             /\ event_queue_insert_timeout(b, c, at).timeout = [b.timeout EXCEPT ![c] = at]
  BY DEF BaseRec, event_queue_insert_timeout
<1> QED BY <1>1, <1>2, <1>3, <1>4, <1>5, <1>6

LEMMA DelFrame ==
  ASSUME NEW b, BaseOK(b), NEW e \in Callbacks
  PROVE  /\ event_del_nolock_(b, e).timeout = b.timeout
         /\ event_del_nolock_(b, e).virtual = b.virtual
<1> DEFINE b1 == IF "TIMEOUT" \in b.flags[e] THEN event_queue_remove_timeout(b, e) ELSE b
           b2 == IF "ACTIVE" \in b1.flags[e] THEN event_queue_remove_active(b1, e)
                 ELSE IF "ACTIVE_LATER" \in b1.flags[e]
                 THEN event_queue_remove_active_later(b1, e) ELSE b1
           b3 == IF "INSERTED" \in b2.flags[e] THEN event_queue_remove_inserted(b2, e) ELSE b2
<1>0. event_del_nolock_(b, e) = IF "FINALIZING" \in b.flags[e] THEN b ELSE b3
  BY DEF event_del_nolock_
<1>1. BaseOK(b1) /\ b1.timeout = b.timeout /\ b1.virtual = b.virtual
  BY RemoveTimeout, PrimitiveFrames DEF BaseOK
<1> HIDE DEF b1
<1>2. BaseOK(b2) /\ b2.timeout = b.timeout /\ b2.virtual = b.virtual
  <2>1. b1 \in BaseRec
    BY <1>1 DEF BaseOK
  <2>2. CASE "ACTIVE" \in b1.flags[e]
    BY <1>1, <2>1, <2>2, RemoveActive, PrimitiveFrames
  <2>3. CASE "ACTIVE" \notin b1.flags[e] /\ "ACTIVE_LATER" \in b1.flags[e]
    BY <1>1, <2>1, <2>3, RemoveActiveLater, PrimitiveFrames
  <2>4. CASE "ACTIVE" \notin b1.flags[e] /\ "ACTIVE_LATER" \notin b1.flags[e]
    BY <1>1, <2>4
  <2> QED BY <2>2, <2>3, <2>4
<1> HIDE DEF b2
<1>3. b3.timeout = b.timeout /\ b3.virtual = b.virtual
  BY <1>2, PrimitiveFrames DEF BaseOK
<1> QED BY <1>0, <1>3

\* event_add_nolock_: the heap and the counters that the other lemmas leave out.
LEMMA AddFrame ==
  ASSUME NEW b, BaseOK(b), NEW e \in Events, NEW at \in Nat \cup {Forever}
  PROVE  LET b2 == event_add_nolock_(b, e, at)
         IN /\ b2.virtual = b.virtual
            /\ at = Forever => b2.timeout = b.timeout /\ ("TIMEOUT" \in b2.flags[e] <=> "TIMEOUT" \in b.flags[e])
            /\ at # Forever => b2.timeout = [b.timeout EXCEPT ![e] = at]
<1> DEFINE b1 == IF NeedsEvmapAdd(b, e) THEN event_queue_insert_inserted(b, e) ELSE b
           b2 == IF "TIMEOUT" \in b1.flags[e] THEN event_queue_remove_timeout(b1, e) ELSE b1
           b3 == IF "ACTIVE" \in b2.flags[e] /\ "TIMEOUT" \in ev_res[e]
                 THEN event_queue_remove_active(b2, e) ELSE b2
           b4 == event_queue_insert_timeout(b3, e, at)
<1>0. event_add_nolock_(b, e, at) = IF at = Forever THEN b1 ELSE b4
  BY DEF event_add_nolock_
<1>1. e \in Callbacks /\ b \in BaseRec /\ b.flags \in [Callbacks -> SUBSET Flags]
  BY ConstantFacts DEF BaseOK, BaseRec
<1>2. /\ BaseOK(b1) /\ b1.timeout = b.timeout /\ b1.virtual = b.virtual
      /\ "TIMEOUT" \in b1.flags[e] <=> "TIMEOUT" \in b.flags[e]
  <2>1. CASE NeedsEvmapAdd(b, e)
    <3>1. "INSERTED" \notin b.flags[e]
      BY <2>1 DEF NeedsEvmapAdd
    <3>2. BaseOK(b1) /\ b1.flags = [b.flags EXCEPT ![e] = @ \cup {"INSERTED"}]
      BY <1>1, <2>1, <3>1, InsertInserted
    <3>3. b1.timeout = b.timeout /\ b1.virtual = b.virtual
      BY <1>1, <2>1, PrimitiveFrames
    <3> QED BY <1>1, <3>2, <3>3
  <2>2. CASE ~NeedsEvmapAdd(b, e)
    BY <2>2
  <2> QED BY <2>1, <2>2
<1> HIDE DEF b1
<1>3. BaseOK(b2) /\ b2.timeout = b.timeout /\ b2.virtual = b.virtual
  BY <1>1, <1>2, RemoveTimeout, PrimitiveFrames DEF BaseOK
<1> HIDE DEF b2
<1>4. BaseOK(b3) /\ b3.timeout = b.timeout /\ b3.virtual = b.virtual
  BY <1>1, <1>3, RemoveActive, PrimitiveFrames DEF BaseOK
<1> HIDE DEF b3
<1>5. b4.timeout = [b.timeout EXCEPT ![e] = at] /\ b4.virtual = b.virtual
  BY <1>1, <1>4, PrimitiveFrames DEF BaseOK
<1> HIDE DEF b4
<1> QED BY <1>0, <1>2, <1>5

\* The counters are positive exactly when there is something to count.
LEMMA CountsDecide ==
  ASSUME NEW b, BaseOK(b)
  PROVE  /\ N_ACTIVE_CALLBACKS(b) > 0 <=> ActiveSet(b) # {}
         /\ N_ACTIVE_CALLBACKS(b) = 0 <=> ActiveSet(b) = {}
         /\ event_haveevents(b) <=> (b.virtual > 0 \/ PendingPairs(b) # {})
<1>1. IsFiniteSet(PendingPairs(b)) /\ IsFiniteSet(ActiveSet(b))
  BY FlagSetsAreFinite DEF BaseOK
<1>2. /\ Cardinality(PendingPairs(b)) \in Nat /\ Cardinality(ActiveSet(b)) \in Nat
      /\ Cardinality(PendingPairs(b)) = 0 <=> PendingPairs(b) = {}
      /\ Cardinality(ActiveSet(b)) = 0 <=> ActiveSet(b) = {}
  BY <1>1, FS_CardinalityType, FS_EmptySet
<1>3. /\ b.event_count = Cardinality(PendingPairs(b))
      /\ b.event_count_active = Cardinality(ActiveSet(b))
  BY DEF BaseOK, CountsMatch
<1> QED BY <1>2, <1>3 DEF N_ACTIVE_CALLBACKS, event_haveevents

------------------------------------------------------------------------------
(* The initial state, and the calls of the API.                            *)

LEMMA InitWInv == Init => WInv
BY DEF Init, WInv

\* An API call preserves WInv when a call that gives the loop something to do, or makes
\* its wait too long, notifies it.
LEMMA CallPreserves ==
  ASSUME RestTyped, WInv, NEW t \in Threads \cup {Loop}, NEW op, MayCall(t, op),
         NEW why, evthread_notify_base(t, why), UNCHANGED <<where, clock>>,
         (pc = "poll" /\ t # Loop /\ ~HasWork(q) /\ Covered(q) /\ ~why)
            => (~HasWork(q') /\ event_break' = event_break /\ Covered(q'))
  PROVE  WInv'
<1>1. /\ pc' = pc /\ deadline' = deadline /\ lag' = lag /\ now' = now
      /\ is_notify_pending \in BOOLEAN /\ notify_fd \in BOOLEAN
  BY DEF where, clock, RestTyped
<1>2. is_notify_pending' => notify_fd' \/ pc' = "drained"
  BY <1>1 DEF WInv, evthread_notify_base, ntf
<1>3. notify_fd => notify_fd'
  BY <1>1 DEF evthread_notify_base, ntf
<1>4. ASSUME pc' \in {"later", "poll"}, WouldSleep'
      PROVE  (pc' = "poll" /\ notify_fd') \/ (~HasWork(q)' /\ Covered(q)')
  <2>1. pc = "poll" /\ t # Loop /\ WouldSleep
    BY <1>1, <1>4 DEF MayCall, LockFree, WouldSleep, InUserCallback
  <2>2. CASE notify_fd
    BY <1>1, <1>3, <2>1, <2>2
  <2>3. CASE ~notify_fd /\ why
    <3>1. ~is_notify_pending
      BY <2>1, <2>3 DEF WInv
    <3>2. notify_fd'
      BY <2>1, <2>3, <3>1 DEF evthread_notify_base, EVBASE_NEED_NOTIFY
    <3> QED BY <1>1, <2>1, <3>2
  <2>4. CASE ~notify_fd /\ ~why
    <3>1. ~HasWork(q) /\ Covered(q)
      BY <2>1, <2>4 DEF WInv
    <3>2. ~HasWork(q') /\ event_break' = event_break /\ Covered(q')
      BY <2>1, <2>4, <3>1
    <3> QED BY <1>1, <3>2 DEF HasWork, Covered
  <2> QED BY <2>2, <2>3, <2>4
<1> QED BY <1>2, <1>4 DEF WInv

\* The loop still has nothing to do when no callback became active, no timeout was added
\* and something is left to wait for.
LEMMA StillQuiet ==
  ASSUME NEW b, BaseOK(b), NEW b2, BaseOK(b2), ~HasWork(b), Covered(b),
         ActiveSet(b2) = {},
         \A e \in TimeHeap(b2) : e \in TimeHeap(b) /\ b2.timeout[e] = b.timeout[e],
         deadline = Forever /\ event_haveevents(b) => event_haveevents(b2)
  PROVE  ~HasWork(b2) /\ Covered(b2)
<1>1. N_ACTIVE_CALLBACKS(b2) = 0 /\ ~(N_ACTIVE_CALLBACKS(b2) > 0)
  BY CountsDecide
<1>2. ~(N_ACTIVE_CALLBACKS(b) > 0) /\ N_ACTIVE_CALLBACKS(b) = 0
  BY CountsDecide DEF HasWork
<1>3. ~HasWork(b2)
  BY <1>1, <1>2 DEF HasWork, NothingLeft
<1>4. Covered(b2)
  BY DEF Covered
<1> QED BY <1>3, <1>4

\* While the loop has nothing to do no callback is active.
LEMMA NoneActive ==
  ASSUME NEW b, BaseOK(b), ~HasWork(b)
  PROVE  ActiveSet(b) = {} /\ \A c \in Callbacks : b.flags[c] \cap {"ACTIVE", "ACTIVE_LATER"} = {}
<1>1. ActiveSet(b) = {}
  BY CountsDecide DEF HasWork
<1> QED BY <1>1 DEF ActiveSet

\* event_add_nolock_ notifies when it has to: the new timeout is no earlier than some
\* other one otherwise.
LEMMA AddStaysQuiet ==
  ASSUME RestTyped, BaseOK(q), ~HasWork(q), Covered(q), NEW e \in Events,
         NEW at \in Nat \cup {Forever}, NEW tnow, ~AddNotifies(q, e, at, tnow)
  PROVE  ~HasWork(event_add_nolock_(q, e, at)) /\ Covered(event_add_nolock_(q, e, at))
<1> DEFINE b2 == event_add_nolock_(q, e, at)
<1>0. ~(at # Forever /\ \A f \in TimeHeap(b2) \ {e} : at < b2.timeout[f])
  BY DEF AddNotifies
<1>1. /\ BaseOK(b2)
      /\ \A c \in Callbacks \ {e} : b2.flags[c] = q.flags[c]
      /\ "INSERTED" \in q.flags[e] => "INSERTED" \in b2.flags[e]
      /\ at # Forever => "TIMEOUT" \in b2.flags[e]
      /\ "ACTIVE_LATER" \in b2.flags[e] <=> "ACTIVE_LATER" \in q.flags[e]
      /\ "ACTIVE" \in b2.flags[e] => "ACTIVE" \in q.flags[e]
  BY AddEvent
<1>2. /\ b2.virtual = q.virtual
      /\ at = Forever => b2.timeout = q.timeout /\ ("TIMEOUT" \in b2.flags[e] <=> "TIMEOUT" \in q.flags[e])
      /\ at # Forever => b2.timeout = [q.timeout EXCEPT ![e] = at]
  BY AddFrame
<1> HIDE DEF b2
<1>3. \A c \in Callbacks : q.flags[c] \cap {"ACTIVE", "ACTIVE_LATER"} = {}
  BY NoneActive
<1>4. e \in Callbacks /\ Events \subseteq Callbacks /\ Deferreds \subseteq Callbacks
  BY ConstantFacts
<1>5. ActiveSet(b2) = {}
  BY <1>1, <1>3, <1>4 DEF ActiveSet
<1>6. q.timeout \in [Events -> Nat] /\ b2.timeout \in [Events -> Nat] /\ q.virtual \in Nat
  BY <1>1 DEF BaseOK, BaseRec
<1>7. event_haveevents(q) => event_haveevents(b2)
  <2>1. ASSUME NEW p \in PendingPairs(q) PROVE p \in PendingPairs(b2)
    <3>1. /\ p \in (Events \cup Deferreds) \X ListFlags /\ p[2] \in q.flags[p[1]]
          /\ p[1] \in Callbacks /\ p[2] \in {"TIMEOUT", "INSERTED"}
      BY <1>3, <1>4 DEF PendingPairs, ListFlags
    <3>2. p[2] \in b2.flags[p[1]]
      BY <1>1, <1>2, <3>1
    <3> QED BY <3>1, <3>2 DEF PendingPairs
  <2> QED BY <1>1, <1>2, <2>1, CountsDecide
<1>8. CASE at = Forever
  <2>1. \A f \in TimeHeap(b2) : f \in TimeHeap(q) /\ b2.timeout[f] = q.timeout[f]
    BY <1>1, <1>2, <1>4, <1>8 DEF TimeHeap
  <2> QED BY <1>1, <1>5, <1>7, <2>1, StillQuiet DEF b2
<1>9. CASE at # Forever
  <2>1. PICK f \in TimeHeap(b2) \ {e} : ~(at < b2.timeout[f])
    BY <1>0, <1>9
  <2>2. \A g \in TimeHeap(b2) \ {e} : g \in TimeHeap(q) /\ b2.timeout[g] = q.timeout[g]
    BY <1>1, <1>2, <1>4, <1>6, <1>9 DEF TimeHeap
  <2>3. /\ f \in Events /\ q.timeout[f] \in Nat /\ q.timeout[f] =< at
        /\ deadline # Forever /\ deadline =< q.timeout[f] + lag
    BY <1>6, <1>9, <2>1, <2>2 DEF TimeHeap, Covered, Forever
  <2>4. deadline \in Int /\ lag \in Int /\ at \in Nat
    BY <1>9 DEF RestTyped
  <2>5. b2.timeout[e] = at /\ deadline =< at + lag
    BY <1>2, <1>6, <1>9, <2>3, <2>4
  <2>6. Covered(b2)
    BY <2>2, <2>3, <2>5 DEF Covered
  <2>7. N_ACTIVE_CALLBACKS(b2) = 0 /\ ~(N_ACTIVE_CALLBACKS(b2) > 0)
    BY <1>1, <1>5, CountsDecide
  <2>8. ~HasWork(b2)
    BY <2>3, <2>7 DEF HasWork
  <2> QED BY <2>6, <2>8 DEF b2
<1> QED BY <1>8, <1>9

\* event_del_nolock_ notifies when the last event went away, if the loop waits for no
\* timeout.
LEMMA DelStaysQuiet ==
  ASSUME BaseOK(q), ~HasWork(q), Covered(q), NEW e \in Events, ~DelNotifies(q, e)
  PROVE  ~HasWork(event_del_nolock_(q, e)) /\ Covered(event_del_nolock_(q, e))
<1> DEFINE b2 == event_del_nolock_(q, e)
<1>1. /\ BaseOK(b2)
      /\ b2.flags = IF "FINALIZING" \in q.flags[e] THEN q.flags
                    ELSE [q.flags EXCEPT ![e] = @ \ ListFlags]
      /\ b2.timeout = q.timeout /\ b2.virtual = q.virtual
  BY DelEvent, DelFrame, ConstantFacts
<1>2. \/ "FINALIZING" \in q.flags[e] \/ "INSERTED" \notin q.flags[e]
      \/ event_haveevents(b2) \/ N_ACTIVE_CALLBACKS(b2) # 0
  BY DEF DelNotifies
<1> HIDE DEF b2
<1>3. /\ \A c \in Callbacks : q.flags[c] \cap {"ACTIVE", "ACTIVE_LATER"} = {}
      /\ ActiveSet(q) = {}
  BY NoneActive
<1>4. e \in Callbacks /\ Events \subseteq Callbacks /\ Deferreds \subseteq Callbacks
      /\ q.flags \in [Callbacks -> SUBSET Flags]
  BY ConstantFacts DEF BaseOK, BaseRec
<1>5. \A c \in Callbacks : b2.flags[c] \subseteq q.flags[c]
  BY <1>1, <1>4
<1>6. ActiveSet(b2) = {}
  BY <1>3, <1>5 DEF ActiveSet
<1>7. \A f \in TimeHeap(b2) : f \in TimeHeap(q) /\ b2.timeout[f] = q.timeout[f]
  BY <1>1, <1>4, <1>5 DEF TimeHeap
<1>8. ASSUME deadline = Forever, event_haveevents(q) PROVE event_haveevents(b2)
  <2>1. TimeHeap(q) = {}
    BY <1>8 DEF Covered
  <2>2. N_ACTIVE_CALLBACKS(b2) = 0
    BY <1>1, <1>6, CountsDecide
  <2>3. CASE event_haveevents(b2)
    BY <2>3
  <2>4. CASE "FINALIZING" \in q.flags[e] \/ "INSERTED" \notin q.flags[e]
    <3>1. q.flags[e] \cap ListFlags = {} \/ "FINALIZING" \in q.flags[e]
      BY <1>3, <1>4, <2>1, <2>4 DEF TimeHeap, ListFlags
    <3>2. b2.flags = q.flags
      BY <1>1, <1>4, <3>1
    <3>3. PendingPairs(b2) = PendingPairs(q)
      BY <3>2 DEF PendingPairs
    <3> QED BY <1>1, <1>8, <3>3, CountsDecide
  <2> QED BY <1>2, <2>2, <2>3, <2>4
<1> QED BY <1>1, <1>6, <1>7, <1>8, StillQuiet DEF b2

------------------------------------------------------------------------------
(* One lemma per call.                                                     *)

LEMMA AddWInv ==
  ASSUME IInv, WInv, NEW t \in Threads \cup {Loop}, NEW e \in Events,
         NEW tv \in Delays \cup {Forever}, event_add(t, e, tv)
  PROVE  WInv'
<1> DEFINE at == IF tv = Forever THEN Forever ELSE gettime + tv
           why == AddNotifies(q, e, at, gettime)
<1>1. /\ MayCall(t, "add") /\ q' = event_add_nolock_(q, e, at) /\ evthread_notify_base(t, why)
      /\ UNCHANGED <<where, clock>> /\ event_break' = event_break
  BY DEF event_add, ctl
<1>2. BaseOK(q) /\ RestTyped
  BY DEF IInv
<1>3. at \in Nat \cup {Forever}
  BY <1>2, ConstantFacts, GetTimeIsNat DEF Forever
<1>4. (~HasWork(q) /\ Covered(q) /\ ~why) => (~HasWork(q') /\ Covered(q'))
  BY <1>1, <1>2, <1>3, AddStaysQuiet
<1> HIDE DEF why
<1> QED BY <1>1, <1>2, <1>4, CallPreserves

LEMMA DelWInv ==
  ASSUME IInv, WInv, NEW t \in Threads \cup {Loop}, NEW e \in Events,
         NEW m \in {"AUTOBLOCK", "BLOCK", "NOBLOCK"}, event_del(t, e, m)
  PROVE  WInv'
<1> DEFINE why == DelNotifies(q, e)
<1>1. /\ MayCall(t, "del") /\ q' = event_del_nolock_(q, e) /\ evthread_notify_base(t, why)
      /\ UNCHANGED <<where, clock>> /\ event_break' = event_break
  BY DEF event_del, ctl
<1>2. BaseOK(q) /\ RestTyped
  BY DEF IInv
<1>3. (~HasWork(q) /\ Covered(q) /\ ~why) => (~HasWork(q') /\ Covered(q'))
  BY <1>1, <1>2, DelStaysQuiet
<1> HIDE DEF why
<1> QED BY <1>1, <1>2, <1>3, CallPreserves

\* A call that notifies nobody is one whose reason to notify is FALSE.
LEMMA SilentCall ==
  ASSUME UNCHANGED ntf, NEW t
  PROVE  evthread_notify_base(t, FALSE)
BY DEF evthread_notify_base

\* event_remove_timer needs no notification: the loop wakes up for the timeout it waits for.
LEMMA RemoveTimerWInv ==
  ASSUME IInv, WInv, NEW t \in Threads \cup {Loop}, NEW e \in Events, event_remove_timer(t, e)
  PROVE  WInv'
<1>1. /\ MayCall(t, "remove_timer") /\ q' = event_queue_remove_timeout(q, e)
      /\ UNCHANGED <<where, clock>> /\ event_break' = event_break /\ UNCHANGED ntf
      /\ "TIMEOUT" \in q.flags[e]
  BY DEF event_remove_timer, ctl
<1>2. BaseOK(q) /\ RestTyped /\ q \in BaseRec /\ e \in Callbacks /\ Events \subseteq Callbacks
      /\ q.flags \in [Callbacks -> SUBSET Flags]
  BY ConstantFacts DEF IInv, BaseOK, BaseRec
<1>3. BaseOK(q') /\ q'.flags = [q.flags EXCEPT ![e] = @ \ {"TIMEOUT"}]
  BY <1>1, <1>2, RemoveTimeout
<1>4. q'.timeout = q.timeout
  BY <1>1, <1>2, PrimitiveFrames
<1>5. ASSUME ~HasWork(q), Covered(q) PROVE ~HasWork(q') /\ Covered(q')
  <2>1. ActiveSet(q') = {}
    BY <1>2, <1>3, <1>5, NoneActive DEF ActiveSet
  <2>2. deadline # Forever
    BY <1>1, <1>2, <1>5 DEF Covered, TimeHeap
  <2>3. \A f \in TimeHeap(q') : f \in TimeHeap(q) /\ q'.timeout[f] = q.timeout[f]
    BY <1>2, <1>3, <1>4 DEF TimeHeap
  <2> QED BY <1>2, <1>3, <1>5, <2>1, <2>2, <2>3, StillQuiet
<1>6. evthread_notify_base(t, FALSE)
  BY <1>1, SilentCall
<1> QED BY <1>1, <1>2, <1>5, <1>6, CallPreserves

\* A call that leaves the queues alone unless it notifies.
LEMMA NotifiesOrNothing ==
  ASSUME IInv, WInv, NEW t \in Threads \cup {Loop}, NEW op, MayCall(t, op),
         NEW why, evthread_notify_base(t, why), UNCHANGED <<where, clock>>,
         why \/ (q' = q /\ event_break' = event_break)
  PROVE  WInv'
<1>1. RestTyped
  BY DEF IInv
<1>2. (~HasWork(q) /\ Covered(q) /\ ~why)
         => (~HasWork(q') /\ event_break' = event_break /\ Covered(q'))
  OBVIOUS
<1> QED BY <1>1, <1>2, CallPreserves

LEMMA ActiveWInv ==
  ASSUME IInv, WInv, NEW t \in Threads \cup {Loop}, NEW e \in Events, NEW res \in ActiveWith,
         event_active(t, e, res) \/ event_active_later_(t, e, res)
  PROVE  WInv'
<1>1. CASE event_active(t, e, res)
  <2>1. /\ MayCall(t, "active") /\ evthread_notify_base(t, ActivateNotifies(q, e))
        /\ UNCHANGED <<where, clock>> /\ event_break' = event_break
        /\ q' = event_callback_activate_nolock_(q, e)
    BY <1>1 DEF event_active, event_active_nolock_
  <2>2. ActivateNotifies(q, e) \/ q' = q
    BY <2>1 DEF ActivateNotifies, event_callback_activate_nolock_
  <2> QED BY <2>1, <2>2, NotifiesOrNothing
<1>2. CASE event_active_later_(t, e, res)
  <2> DEFINE why == q.flags[e] \cap {"ACTIVE", "ACTIVE_LATER"} = {}
  <2>1. /\ MayCall(t, "active_later") /\ evthread_notify_base(t, why)
        /\ UNCHANGED <<where, clock>> /\ event_break' = event_break
        /\ q' = event_queue_insert_active_later(q, e)
    BY <1>2 DEF event_active_later_, ctl
  <2>2. why \/ q' = q
    BY <2>1 DEF event_queue_insert_active_later
  <2> HIDE DEF why
  <2> QED BY <2>1, <2>2, NotifiesOrNothing
<1> QED BY <1>1, <1>2

LEMMA ScheduleWInv ==
  ASSUME IInv, WInv, NEW t \in Threads \cup {Loop}, NEW d \in Deferreds,
         event_deferred_cb_schedule_(t, d)
  PROVE  WInv'
<1>0. /\ MayCall(t, "schedule") /\ UNCHANGED <<where, clock>> /\ event_break' = event_break
  BY DEF event_deferred_cb_schedule_
<1>1. CASE n_deferreds_queued > MaxDeferreds
  <2> DEFINE why == q.flags[d] \cap {"ACTIVE", "ACTIVE_LATER"} = {}
  <2>1. evthread_notify_base(t, why) /\ q' = event_queue_insert_active_later(q, d)
    BY <1>1 DEF event_deferred_cb_schedule_
  <2>2. why \/ q' = q
    BY <2>1 DEF event_queue_insert_active_later
  <2> HIDE DEF why
  <2> QED BY <1>0, <2>1, <2>2, NotifiesOrNothing
<1>2. CASE ~(n_deferreds_queued > MaxDeferreds)
  <2>1. /\ evthread_notify_base(t, ActivateNotifies(q, d))
        /\ q' = event_callback_activate_nolock_(q, d)
    BY <1>2 DEF event_deferred_cb_schedule_
  <2>2. ActivateNotifies(q, d) \/ q' = q
    BY <2>1 DEF ActivateNotifies, event_callback_activate_nolock_
  <2> QED BY <1>0, <2>1, <2>2, NotifiesOrNothing
<1> QED BY <1>1, <1>2

\* Cancelling needs no notification: a callback to cancel has woken the loop already.
LEMMA CancelWInv ==
  ASSUME IInv, WInv, NEW t \in Threads \cup {Loop}, NEW d \in Deferreds,
         event_deferred_cb_cancel_(t, d)
  PROVE  WInv'
<1>1. /\ MayCall(t, "cancel") /\ UNCHANGED <<where, clock>> /\ event_break' = event_break
      /\ q' = event_callback_cancel_nolock_(q, d) /\ UNCHANGED ntf
  BY DEF event_deferred_cb_cancel_, ctl
<1>2. evthread_notify_base(t, FALSE) /\ RestTyped /\ BaseOK(q) /\ d \in Callbacks
  BY <1>1, SilentCall, ConstantFacts DEF IInv
<1>3. ~HasWork(q) => q' = q
  BY <1>1, <1>2, NoneActive DEF event_callback_cancel_nolock_
<1> QED BY <1>1, <1>2, <1>3, CallPreserves

LEMMA AlwaysNotifiesWInv ==
  ASSUME IInv, WInv, NEW t \in Threads \cup {Loop},
         \/ \E e \in Events : event_finalize(t, e)
         \/ \E d \in Deferreds : event_callback_finalize_(t, d)
         \/ event_base_loopbreak(t) \/ event_base_loopcontinue(t)
  PROVE  WInv'
<1>1. evthread_notify_base(t, TRUE) /\ UNCHANGED <<where, clock>> /\ \E op : MayCall(t, op)
  BY DEF event_finalize, event_callback_finalize_, event_base_loopbreak, event_base_loopcontinue
<1> QED BY <1>1, NotifiesOrNothing

LEMMA AssignWInv ==
  ASSUME IInv, WInv, NEW t \in Threads \cup {Loop}, NEW c \in Events \cup Deferreds,
         event_assign(t, c)
  PROVE  WInv'
<1>1. /\ MayCall(t, "assign") /\ UNCHANGED <<where, clock>> /\ event_break' = event_break
      /\ q' = [q EXCEPT !.flags[c] = {}] /\ UNCHANGED ntf /\ q.flags[c] \cap ListFlags = {}
  BY DEF event_assign, ctl
<1>2. evthread_notify_base(t, FALSE) /\ RestTyped /\ BaseOK(q) /\ c \in Callbacks
      /\ q \in BaseRec /\ q.flags \in [Callbacks -> SUBSET Flags]
      /\ Events \subseteq Callbacks /\ Deferreds \subseteq Callbacks
  BY <1>1, SilentCall, ConstantFacts DEF IInv, BaseOK, BaseRec
<1>3. BaseOK(q') /\ q'.flags = [q.flags EXCEPT ![c] = {}]
  BY <1>1, <1>2, OtherFlags
<1>4. q'.timeout = q.timeout /\ q'.virtual = q.virtual
  BY <1>1, <1>2 DEF BaseRec
<1>5. PendingPairs(q') = PendingPairs(q)
  <2>1. ASSUME NEW p \in (Events \cup Deferreds) \X ListFlags
        PROVE  p[2] \in q'.flags[p[1]] <=> p[2] \in q.flags[p[1]]
    BY <1>1, <1>2, <1>3
  <2> QED BY <2>1 DEF PendingPairs
<1>6. ASSUME ~HasWork(q), Covered(q) PROVE ~HasWork(q') /\ Covered(q')
  <2>1. ActiveSet(q') = {}
    BY <1>2, <1>3, <1>6, NoneActive DEF ActiveSet
  <2>2. \A f \in TimeHeap(q') : f \in TimeHeap(q) /\ q'.timeout[f] = q.timeout[f]
    BY <1>2, <1>3, <1>4 DEF TimeHeap
  <2>3. event_haveevents(q) => event_haveevents(q')
    BY <1>2, <1>3, <1>4, <1>5, CountsDecide
  <2> QED BY <1>2, <1>3, <1>6, <2>1, <2>2, <2>3, StillQuiet
<1> QED BY <1>1, <1>2, <1>6, CallPreserves

LEMMA LoopExitWInv ==
  ASSUME IInv, WInv, NEW t \in Threads \cup {Loop}, NEW x \in ExitEvents,
         NEW tv \in Delays \cup {Forever}, event_base_loopexit(t, x, tv)
  PROVE  WInv'
<1>1. MayCall(t, "exit") /\ UNCHANGED <<where, clock>> /\ event_break' = event_break
  BY DEF event_base_loopexit
<1>2. CASE tv = Forever
  <2>1. evthread_notify_base(t, TRUE)
    BY <1>2 DEF event_base_loopexit
  <2> QED BY <1>1, <2>1, NotifiesOrNothing
<1>3. CASE tv # Forever
  <2> DEFINE at == gettime + tv
             why == AddNotifies(q, x, at, gettime)
  <2>1. q' = event_add_nolock_(q, x, at) /\ evthread_notify_base(t, why)
    BY <1>3 DEF event_base_loopexit
  <2>2. BaseOK(q) /\ RestTyped /\ x \in Events
    BY ConstantFacts DEF IInv
  <2>3. at \in Nat \cup {Forever}
    BY <1>3, <2>2, ConstantFacts, GetTimeIsNat DEF Forever
  <2>4. (~HasWork(q) /\ Covered(q) /\ ~why) => (~HasWork(q') /\ Covered(q'))
    BY <2>1, <2>2, <2>3, AddStaysQuiet
  <2> HIDE DEF why
  <2> QED BY <1>1, <2>1, <2>2, <2>4, CallPreserves
<1> QED BY <1>2, <1>3

\* The last virtual event notifies; with more than one, events are left.
LEMMA VirtualWInv ==
  ASSUME IInv, WInv, NEW t \in Threads \cup {Loop},
         event_base_add_virtual_(t) \/ event_base_del_virtual_(t)
  PROVE  WInv'
<1> DEFINE why == event_base_del_virtual_(t) /\ q.virtual = 1
<1>1. BaseOK(q) /\ RestTyped /\ q \in BaseRec /\ q.virtual \in Nat
  BY DEF IInv, BaseOK, BaseRec
<1>2. /\ MayCall(t, "virtual") /\ UNCHANGED <<where, clock>> /\ event_break' = event_break
      /\ evthread_notify_base(t, why)
      /\ \E n \in Nat : q' = [q EXCEPT !.virtual = n] /\ (~why => n > 0)
  <2>1. CASE event_base_del_virtual_(t)
    <3>1. /\ MayCall(t, "virtual") /\ UNCHANGED <<where, clock>> /\ event_break' = event_break
          /\ evthread_notify_base(t, q.virtual = 1)
          /\ q' = [q EXCEPT !.virtual = q.virtual - 1] /\ q.virtual > 0
      BY <2>1 DEF event_base_del_virtual_, ctl
    <3>2. why <=> q.virtual = 1
      BY <2>1
    <3>3. evthread_notify_base(t, why)
      BY <3>1, <3>2 DEF evthread_notify_base
    <3> HIDE DEF why
    <3>4. q.virtual - 1 \in Nat /\ (~why => q.virtual - 1 > 0)
      BY <1>1, <3>1, <3>2
    <3> QED BY <3>1, <3>3, <3>4
  <2>2. CASE ~event_base_del_virtual_(t)
    <3>1. /\ MayCall(t, "virtual") /\ UNCHANGED <<where, clock>> /\ event_break' = event_break
          /\ q' = [q EXCEPT !.virtual = q.virtual + 1] /\ UNCHANGED ntf
      BY <2>2 DEF event_base_add_virtual_, ctl
    <3>2. evthread_notify_base(t, why)
      BY <2>2, <3>1 DEF evthread_notify_base
    <3>3. q.virtual + 1 \in Nat /\ q.virtual + 1 > 0
      BY <1>1
    <3> QED BY <3>1, <3>2, <3>3
  <2> QED BY <2>1, <2>2
<1>3. PICK n \in Nat : q' = [q EXCEPT !.virtual = n] /\ (~why => n > 0)
  BY <1>2
<1>4. BaseOK(q') /\ q'.flags = q.flags /\ q'.timeout = q.timeout /\ q'.virtual = n
  BY <1>1, <1>3, VirtualOnly DEF BaseRec
<1> HIDE DEF why
<1>5. ASSUME ~HasWork(q), Covered(q), ~why PROVE ~HasWork(q') /\ Covered(q')
  <2>1. ActiveSet(q') = {}
    BY <1>1, <1>4, <1>5, NoneActive DEF ActiveSet
  <2>2. \A f \in TimeHeap(q') : f \in TimeHeap(q) /\ q'.timeout[f] = q.timeout[f]
    BY <1>4 DEF TimeHeap
  <2>3. event_haveevents(q')
    BY <1>3, <1>4, <1>5 DEF event_haveevents
  <2> QED BY <1>1, <1>4, <1>5, <2>1, <2>2, <2>3, StillQuiet
<1> QED BY <1>1, <1>2, <1>5, CallPreserves

------------------------------------------------------------------------------
(* The steps of the loop.                                                  *)

\* timeout_next computes the wait from the earliest timeout, and the loop waits only when
\* nothing is active and something is left to wait for.
LEMMA LoopWaitWInv ==
  ASSUME IInv, WInv, loop_wait
  PROVE  WInv'
<1> DEFINE wait == IF N_ACTIVE_CALLBACKS(q) = 0 /\ "NONBLOCK" \notin LoopFlags
                   THEN timeout_next ELSE 0
<1>1. /\ pc = "iter" /\ ~MustExit /\ pc' = "later" /\ q' = q /\ event_break' = event_break
      /\ deadline' = (IF wait = Forever THEN Forever ELSE now + wait)
      /\ lag' = now - gettime /\ now' = now
      /\ is_notify_pending' = is_notify_pending /\ notify_fd' = notify_fd
  BY DEF loop_wait, qvars, clock, ntf
<1>2. BaseOK(q) /\ RestTyped /\ gettime \in Nat /\ now \in Nat /\ q.timeout \in [Events -> Nat]
  BY GetTimeIsNat DEF IInv, RestTyped, BaseOK, BaseRec
<1>3. is_notify_pending' => notify_fd' \/ pc' = "drained"
  BY <1>1 DEF WInv
<1>4. ASSUME WouldSleep' PROVE ~HasWork(q)' /\ Covered(q)'
  <2>1. N_ACTIVE_CALLBACKS(q) = 0 /\ wait = timeout_next
    BY <1>1, <1>2, <1>4 DEF WouldSleep, Forever
  <2>2. ~HasWork(q)'
    BY <1>1, <2>1 DEF MustExit, HasWork, NothingLeft, N_ACTIVE_CALLBACKS, event_haveevents
  <2>3. ASSUME NEW e \in TimeHeap(q)
        PROVE  deadline' # Forever /\ deadline' =< q.timeout[e] + lag'
    <3> DEFINE top == CHOOSE f \in Events : min_heap_top(q, f)
    <3>1. top \in Events /\ min_heap_top(q, top)
      BY <1>2, <2>3, HeapHasTop
    <3>2. timeout_next = IF q.timeout[top] =< gettime THEN 0 ELSE q.timeout[top] - gettime
      BY <2>3 DEF timeout_next
    <3> HIDE DEF top
    <3>3. q.timeout[top] =< q.timeout[e] /\ q.timeout[top] \in Nat /\ q.timeout[e] \in Nat
      BY <1>2, <2>3, <3>1 DEF min_heap_top, TimeHeap
    <3>4. timeout_next \in Nat
      BY <1>2, <3>2, <3>3
    <3>5. deadline' = now + timeout_next /\ deadline' # Forever
      BY <1>1, <1>2, <2>1, <3>4 DEF Forever
    <3>6. ~(q.timeout[top] =< gettime)
      BY <1>1, <1>2, <1>4, <3>2, <3>4, <3>5 DEF WouldSleep
    <3> QED BY <1>1, <1>2, <3>2, <3>3, <3>5, <3>6
  <2> QED BY <1>1, <2>2, <2>3 DEF Covered, TimeHeap
<1> QED BY <1>3, <1>4 DEF WInv

\* Moving a callback from the later queue to its active queue changes no counter: what
\* loop_wait saw of the counters still holds.
LEMMA MakeLaterWInv ==
  ASSUME IInv, WInv, make_later_active
  PROVE  WInv'
<1>1. /\ pc = "later" /\ q.later # <<>> /\ pc' = pc /\ deadline' = deadline /\ now' = now
      /\ q' = event_queue_make_later_event_active(q) /\ event_break' = event_break
      /\ is_notify_pending' = is_notify_pending /\ notify_fd' = notify_fd /\ lag' = lag
  BY DEF make_later_active, where, clock, ntf
<1>2. BaseOK(q)
  BY DEF IInv
<1>3. CASE WouldSleep
  <2>1. ~HasWork(q)
    BY <1>1, <1>3 DEF WInv
  <2>2. Head(q.later) \in Callbacks /\ InQueue(q.later, Head(q.later))
    BY <1>1, <1>2, HeadOfQueue DEF BaseOK, BaseRec, QueuesMatch
  <2>3. "ACTIVE_LATER" \in q.flags[Head(q.later)]
    BY <1>2, <2>2 DEF BaseOK, QueuesMatch
  <2> QED BY <1>2, <2>1, <2>2, <2>3, NoneActive
<1>4. CASE ~WouldSleep
  BY <1>1, <1>4 DEF WInv, WouldSleep
<1> QED BY <1>3, <1>4

LEMMA EnterWInv ==
  ASSUME IInv, WInv, dispatch_enter
  PROVE  WInv'
BY DEF dispatch_enter, WInv, WouldSleep, HasWork, Covered, qvars, ctl, ntf

\* Time passes: a loop that would still wait would have waited before.
LEMMA TickWInv ==
  ASSUME IInv, WInv, Tick
  PROVE  WInv'
<1>1. /\ q' = q /\ event_break' = event_break /\ pc' = pc /\ deadline' = deadline /\ lag' = lag
      /\ is_notify_pending' = is_notify_pending /\ notify_fd' = notify_fd /\ now' = now + 1
      /\ now \in Nat /\ deadline \in Int
  BY DEF Tick, qvars, ctl, where, ntf, IInv, RestTyped
<1>2. WouldSleep' => WouldSleep
  BY <1>1 DEF WouldSleep
<1> QED BY <1>1, <1>2 DEF WInv, HasWork, Covered

\* The other steps leave the loop at a place where it does not wait; only drain_read
\* takes the notification, and drain_clear then clears the flag.
LEMMA ElsewhereWInv ==
  ASSUME IInv, WInv, pc' \notin {"later", "poll"}, pc # "drained", UNCHANGED ntf
  PROVE  WInv'
BY DEF WInv, ntf

LEMMA OtherLoopStepWInv ==
  ASSUME IInv, WInv,
         \/ loop_start \/ loop_exit \/ wait_timeout \/ wait_interrupted
         \/ wait_error \/ dispatch_locked \/ dispatch_leave
         \/ (\E fds \in SUBSET Fds : wait_ready(fds)) \/ wait_notified
         \/ \E c \in IO \cup {Notify} : dispatch_activate(c)
         \/ \E e \in Events : timeout_process(e)
         \/ timeouts_done \/ scan_queues \/ queue_drained \/ callback_return
         \/ \E e \in Events : run_event(e) \/ run_persist(e)
         \/ \E c \in Deferreds \cup {Notify} : run_callback(c)
         \/ \E c \in Events \cup Deferreds : run_finalizer(c)
  PROVE  WInv'
<1> USE DEF LeavePoll, LeaveLoop, EndProcess, QueueDone
<1>1. CASE \/ loop_start \/ loop_exit \/ wait_timeout \/ wait_interrupted
           \/ wait_error \/ dispatch_locked \/ dispatch_leave
           \/ (\E fds \in SUBSET Fds : wait_ready(fds)) \/ wait_notified
  <2>1. pc' \notin {"later", "poll"} /\ pc # "drained" /\ UNCHANGED ntf
    BY <1>1 DEF loop_start, loop_exit, wait_timeout, wait_interrupted, wait_error,
                dispatch_locked, dispatch_leave, wait_ready, wait_notified
  <2> QED BY <2>1, ElsewhereWInv
<1>2. CASE \/ \E c \in IO \cup {Notify} : dispatch_activate(c)
           \/ \E e \in Events : timeout_process(e)
  <2>1. pc' \notin {"later", "poll"} /\ pc # "drained" /\ UNCHANGED ntf
    BY <1>2 DEF dispatch_activate, timeout_process, where
  <2> QED BY <2>1, ElsewhereWInv
<1>3. CASE timeouts_done \/ scan_queues \/ queue_drained \/ callback_return
  <2>1. pc' \notin {"later", "poll"} /\ pc # "drained" /\ UNCHANGED ntf
    BY <1>3 DEF timeouts_done, scan_queues, queue_drained, callback_return
  <2> QED BY <2>1, ElsewhereWInv
<1>4. CASE \/ \E e \in Events : run_event(e) \/ run_persist(e)
           \/ \E c \in Deferreds \cup {Notify} : run_callback(c)
           \/ \E c \in Events \cup Deferreds : run_finalizer(c)
  <2>1. \E c, b, fin : StartCallback(c, b, fin)
    BY <1>4 DEF run_event, run_persist, run_callback, run_finalizer
  <2>2. pc' \notin {"later", "poll"} /\ pc # "drained" /\ UNCHANGED ntf
    BY <2>1 DEF StartCallback
  <2> QED BY <2>2, ElsewhereWInv
<1> QED BY <1>1, <1>2, <1>3, <1>4

LEMMA DrainWInv ==
  ASSUME IInv, WInv, drain_read \/ drain_clear
  PROVE  WInv'
BY DEF drain_read, drain_clear, WInv

LEMMA StepWInv == IInv /\ WInv /\ [Next]_vars => WInv'
<1> SUFFICES ASSUME IInv, WInv, [Next]_vars PROVE WInv'
  OBVIOUS
<1>1. CASE LoopStep
  BY <1>1, LoopWaitWInv, MakeLaterWInv, EnterWInv, OtherLoopStepWInv, DrainWInv DEF LoopStep
<1>2. CASE loop_start \/ wait_interrupted \/ wait_error \/ \E fds \in SUBSET Fds : wait_ready(fds)
  BY <1>2, OtherLoopStepWInv
<1>3. CASE Tick
  BY <1>3, TickWInv
<1>4. ASSUME NEW t \in Threads \cup {Loop}, ApiCall(t) PROVE WInv'
  BY <1>4, AddWInv, DelWInv, RemoveTimerWInv, ActiveWInv, ScheduleWInv, CancelWInv,
     AlwaysNotifiesWInv, AssignWInv, LoopExitWInv, VirtualWInv DEF ApiCall
<1>5. CASE \E t \in Threads : SpuriousWakeup(t) \/ event_del_return(t)
  BY <1>5 DEF SpuriousWakeup, event_del_return, WInv, WouldSleep, HasWork, Covered,
              qvars, ctl, where, ntf, clock
<1>6. CASE UNCHANGED vars
  BY <1>6 DEF WInv, WouldSleep, HasWork, Covered, vars, qvars, ctl, where, ntf, clock
<1> QED BY <1>1, <1>2, <1>3, <1>4, <1>5, <1>6 DEF Next

LEMMA WakeupInvariant == Spec => []WInv
BY InitWInv, StepWInv, InvariantHolds, PTL DEF Spec

\* Whatever the threads call while the loop sleeps, it is woken when there is a callback
\* to run, a loopbreak, or nothing left to wait for: evthread_notify_base suppresses a
\* write only when an earlier one is still to be read.
THEOREM NoWakeupIsLost == Spec => []NoLostWakeup
<1>1. WInv => NoLostWakeup
  BY WInvImplies
<1> QED BY <1>1, WakeupInvariant, PTL

\* The loop never sleeps past a scheduled timeout, whichever thread schedules it and
\* however often, by more than the staleness of the time it computed its wait from.
THEOREM SleepIsBounded == Spec => []OversleepBounded
<1>1. WInv => OversleepBounded
  BY WInvImplies
<1> QED BY <1>1, WakeupInvariant, PTL

------------------------------------------------------------------------------
(* The callbacks.                                                          *)

InCallback == pc \in {"callback", "drain", "drained"}

\* exec is set while a callback executes, current_event while it is no finalizer; what
\* evmap_io_active_ has still to activate is registered, since the lock is held; a
\* deferred callback has neither descriptor nor timeout.
ExecInv ==
  /\ InCallback => exec.cb # None
  /\ ~InCallback => exec = NoExec
  /\ current_event = IF exec.fin THEN None ELSE exec.cb
  /\ todo # {} => pc = "dispatch"
  /\ \A c \in todo : "INSERTED" \in q.flags[c]
  /\ \A d \in Deferreds : q.flags[d] \cap {"INSERTED", "TIMEOUT"} = {}

\* Flags F and n finalizer runs of one callback.
FinalOK(F, n) ==
  /\ n \in {0, 1}
  /\ "FINALIZING" \in F => F \cap ListFlags = IF n = 0 THEN {"ACTIVE"} ELSE {}
  /\ n # 0 => "FINALIZING" \in F

FinalInv ==
  \A c \in Events \cup Deferreds :
    FinalOK(q.flags[c], finruns[c]) /\ (finruns[c] # 0 => current_event # c)

\* Flags F, history a and interval tv of one event.
TimedOK(e, F, a, tv) ==
  /\ "FINALIZING" \in F => a = "no"
  /\ e \in Persist /\ a = "timed" => tv # 0
  /\ e \in Persist /\ a = "timed" => F \cap {"TIMEOUT", "ACTIVE"} # {}
  /\ e \in Persist /\ a = "refused" => e \in IO /\ "INSERTED" \notin F

TimedInv == \A e \in Events : TimedOK(e, q.flags[e], armed[e], ev_io_timeout[e])

CInv == ExecInv /\ FinalInv /\ TimedInv

\* The events a thread deleted are quiet, and it can only have deleted its own.
QuietInv ==
  \A t \in Threads : \A e \in quiet[t] :
    /\ e \notin ExitEvents /\ q.flags[e] \cap ListFlags = {}
    /\ exec = [cb |-> e, fin |-> FALSE] => thr[t] = [pc |-> "wait", ev |-> e]

\* An event more urgent than the queue that is being run is active.
UrgentActive ==
  \E e \in Events : "ACTIVE" \in q.flags[e] /\ Pri[e] < event_running_priority

\* event_continue tells the queue that is being run of every more urgent event, and is
\* seen before the next callback: the callback before it was counted, or was the internal
\* one, which runs at the highest priority.
UrgentInv ==
  /\ event_running_priority # -1 => pc \in {"scan", "run"} \/ InCallback
  /\ pc \in {"later", "poll", "polled", "dispatch", "timeouts", "scan", "run"} => ~event_continue
  /\ pc \in {"scan", "run"} => ~UrgentActive
  /\ InCallback /\ UrgentActive => event_continue
  /\ InCallback /\ count = 0 => event_running_priority = 0 /\ ~event_continue

LEMMA QuietInvImplies == QuietInv => DeletedEventsAreQuiet
BY DEF QuietInv, DeletedEventsAreQuiet

LEMMA FinalInvImplies == IInv /\ CInv => FinalizerRunsOnceAndLast
<1> SUFFICES ASSUME IInv, CInv, NEW c \in Events \cup Deferreds
             PROVE  /\ finruns[c] =< 1
                    /\ "FINALIZING" \in q.flags[c] =>
                         q.flags[c] \cap ListFlags = IF finruns[c] = 0 THEN {"ACTIVE"} ELSE {}
                    /\ finruns[c] > 0 =>
                         "FINALIZING" \in q.flags[c] /\ current_event # c /\ c \notin todo
  BY DEF FinalizerRunsOnceAndLast
<1>1. FinalOK(q.flags[c], finruns[c]) /\ (finruns[c] # 0 => current_event # c)
  BY DEF CInv, FinalInv
<1>2. finruns[c] # 0 => q.flags[c] \cap ListFlags = {}
  BY <1>1 DEF FinalOK
<1>3. c \in todo => "INSERTED" \in q.flags[c]
  BY DEF CInv, ExecInv
<1> QED BY <1>1, <1>2, <1>3 DEF FinalOK, ListFlags

LEMMA TimedInvImplies == CInv => PersistentTimerStaysScheduled
BY ConstantFacts DEF CInv, TimedInv, TimedOK, PersistentTimerStaysScheduled

LEMMA InitCInv == Init => CInv /\ QuietInv /\ UrgentInv
<1> SUFFICES ASSUME Init PROVE CInv /\ QuietInv /\ UrgentInv
  OBVIOUS
<1>0. q.flags = [c \in Callbacks |-> IF c = Notify THEN {"INSERTED"} ELSE {}]
  BY DEF Init
<1>1. \A c \in Events \cup Deferreds : q.flags[c] = {}
  BY <1>0, ConstantsAssumption DEF Callbacks
<1>2. ExecInv
  BY <1>1 DEF Init, ExecInv, NoExec, InCallback
<1>3. FinalInv
  BY <1>1 DEF Init, FinalInv, FinalOK
<1>4. TimedInv
  BY <1>1 DEF Init, TimedInv, TimedOK
<1>5. QuietInv
  BY DEF Init, QuietInv
<1>6. UrgentInv
  BY DEF Init, UrgentInv, InCallback
<1> QED BY <1>2, <1>3, <1>4, <1>5, <1>6 DEF CInv

------------------------------------------------------------------------------
(* A step that changes what belongs to one callback c.                     *)

OnlyAt(c) ==
  /\ \A d \in Callbacks \ {c} : q'.flags[d] = q.flags[d]
  /\ \A d \in Events \ {c} : armed'[d] = armed[d] /\ ev_io_timeout'[d] = ev_io_timeout[d]
  /\ \A d \in (Events \cup Deferreds) \ {c} : finruns'[d] = finruns[d]
  /\ UNCHANGED <<where, current_event, exec>>

LEMMA OneCallback ==
  ASSUME IInv, CInv, NEW c \in Callbacks, OnlyAt(c), pc # "dispatch",
         c \in Events \cup Deferreds =>
           FinalOK(q'.flags[c], finruns'[c]) /\ (finruns'[c] # 0 => finruns[c] # 0),
         c \in Events => TimedOK(c, q'.flags[c], armed'[c], ev_io_timeout'[c]),
         c \in Deferreds => q'.flags[c] \cap {"INSERTED", "TIMEOUT"} = {}
  PROVE  CInv'
<1>0. UNCHANGED <<pc, todo, current_event, exec>>
  BY DEF OnlyAt, where
<1>1. ExecInv'
  <2>1. todo = {}
    BY DEF CInv, ExecInv
  <2>2. \A d \in Deferreds : q'.flags[d] \cap {"INSERTED", "TIMEOUT"} = {}
    BY ConstantFacts DEF CInv, ExecInv, OnlyAt
  <2> QED BY <1>0, <2>1, <2>2 DEF CInv, ExecInv, InCallback
<1>2. FinalInv'
  BY <1>0, ConstantFacts DEF CInv, FinalInv, OnlyAt
<1>3. TimedInv'
  BY ConstantFacts DEF CInv, TimedInv, OnlyAt
<1> QED BY <1>1, <1>2, <1>3 DEF CInv

LEMMA OneCallbackQuiet ==
  ASSUME IInv, QuietInv, NEW c \in Callbacks, OnlyAt(c), UNCHANGED thr,
         \A t \in Threads : quiet'[t] \subseteq quiet[t],
         \A t \in Threads : c \in quiet'[t] => q'.flags[c] \cap ListFlags = {}
  PROVE  QuietInv'
<1>1. \A t \in Threads : quiet'[t] \subseteq Callbacks
  BY ConstantFacts DEF IInv, RestTyped
<1> QED BY <1>1, ZenonT(40) DEF QuietInv, OnlyAt

LEMMA OneCallbackUrgent ==
  ASSUME IInv, UrgentInv, NEW c \in Callbacks, OnlyAt(c), pc \notin {"scan", "run"},
         event_continue => event_continue',
         ~event_continue /\ event_continue' => Pri[c] < event_running_priority,
         "ACTIVE" \in q'.flags[c] /\ Pri[c] < event_running_priority =>
           "ACTIVE" \in q.flags[c] \/ event_continue'
  PROVE  UrgentInv'
<1>0. /\ UNCHANGED <<pc, event_running_priority, count>>
      /\ Pri[c] \in Nat /\ event_running_priority \in Int
  BY ConstantsAssumption DEF OnlyAt, where, Priorities, IInv, RestTyped
<1>1. UrgentActive' => UrgentActive \/ event_continue'
  BY <1>0, ConstantFacts DEF UrgentActive, OnlyAt
<1>2. event_running_priority =< 0 => (event_continue' => event_continue)
  BY <1>0
<1>3. ~InCallback => event_running_priority = -1
  BY DEF UrgentInv
<1> QED BY <1>0, <1>1, <1>2, <1>3 DEF UrgentInv, InCallback

------------------------------------------------------------------------------
(* The calls of the API.  Each keeps what is about all callbacks, the      *)
(* quiet events, and the urgent ones.                                      *)

Keeps == CInv' /\ (QuietInv => QuietInv') /\ (UrgentInv => UrgentInv')

\* An API call finds the lock free.
LEMMA ApiPlace ==
  ASSUME NEW t, NEW op, MayCall(t, op)
  PROVE  pc \notin {"dispatch", "scan", "run"}
BY DEF MayCall, LockFree

\* The flags of a callback whose finalizer may be scheduled or have run.
LEMMA FinalFacts ==
  ASSUME CInv, NEW c \in Events \cup Deferreds
  PROVE  /\ finruns[c] \in {0, 1}
         /\ "FINALIZING" \notin q.flags[c] => finruns[c] = 0
         /\ "FINALIZING" \in q.flags[c] => q.flags[c] \cap ListFlags \subseteq {"ACTIVE"}
         /\ "FINALIZING" \in q.flags[c] /\ finruns[c] = 0 => q.flags[c] \cap ListFlags = {"ACTIVE"}
BY DEF CInv, FinalInv, FinalOK

LEMMA RearmFacts ==
  ASSUME IInv, NEW c, Rearm(c)
  PROVE  \A t \in Threads : quiet'[t] \subseteq quiet[t] /\ c \notin quiet'[t]
BY DEF IInv, RestTyped, Rearm

LEMMA AddKeepsTimeout ==
  ASSUME NEW b, BaseOK(b), NEW e \in Events, NEW at \in Nat \cup {Forever}
  PROVE  /\ at # Forever => "TIMEOUT" \in event_add_nolock_(b, e, at).flags[e]
         /\ at = Forever => b.flags[e] \subseteq event_add_nolock_(b, e, at).flags[e]
<1>1. at # Forever => "TIMEOUT" \in event_add_nolock_(b, e, at).flags[e]
  BY AddEvent
<1>2. at = Forever => b.flags[e] \subseteq event_add_nolock_(b, e, at).flags[e]
  <2>1. b.flags[e] \subseteq event_queue_insert_inserted(b, e).flags[e]
    BY ConstantFacts DEF event_queue_insert_inserted, BaseOK, BaseRec
  <2>2. at = Forever => \/ event_add_nolock_(b, e, at) = event_queue_insert_inserted(b, e)
                        \/ event_add_nolock_(b, e, at) = b
    BY Zenon DEF event_add_nolock_
  <2> QED BY <2>1, <2>2
<1> QED BY <1>1, <1>2

LEMMA AddKeeps ==
  ASSUME IInv, CInv, NEW t \in Threads \cup {Loop}, NEW e \in Events,
         NEW tv \in Delays \cup {Forever}, event_add(t, e, tv)
  PROVE  Keeps
<1> DEFINE at == IF tv = Forever THEN Forever ELSE gettime + tv
<1>1. at \in Nat \cup {Forever} /\ (at = Forever <=> tv = Forever) /\ (tv # Forever => tv \in Nat)
  <2>1. gettime \in Nat
    BY GetTimeIsNat DEF IInv
  <2>2. Delays \subseteq Nat
    BY ConstantsAssumption
  <2> QED BY <2>1, <2>2 DEF Forever
<1>2. q' = event_add_nolock_(q, e, at) /\ BaseOK(q) /\ e \in Callbacks
  BY ConstantFacts DEF event_add, IInv
<1> HIDE DEF at
<1>3. /\ \A d \in Callbacks \ {e} : q'.flags[d] = q.flags[d]
      /\ "FINALIZING" \in q'.flags[e] <=> "FINALIZING" \in q.flags[e]
      /\ at # Forever => "TIMEOUT" \in q'.flags[e]
      /\ "ACTIVE" \in q'.flags[e] => "ACTIVE" \in q.flags[e]
  BY <1>1, <1>2, AddEvent
<1>4. at = Forever => q.flags[e] \subseteq q'.flags[e]
  BY <1>1, <1>2, AddKeepsTimeout
<1>5. OnlyAt(e)
  BY <1>3 DEF event_add, OnlyAt, cbvars, IInv, RestTyped
<1>6. "FINALIZING" \notin q.flags[e] /\ finruns' = finruns /\ UNCHANGED thr /\ UNCHANGED event_continue
      /\ pc \notin {"dispatch", "scan", "run"} /\ Rearm(e)
  BY ApiPlace DEF event_add, ctl
<1>7. CInv'
  <2>1. FinalOK(q'.flags[e], finruns'[e])
    BY <1>3, <1>6, FinalFacts DEF FinalOK
  <2>2. TimedOK(e, q'.flags[e], armed'[e], ev_io_timeout'[e])
    <3>1. TimedOK(e, q.flags[e], armed[e], ev_io_timeout[e])
      BY DEF CInv, TimedInv
    <3>2. CASE tv = Forever
      <4>1. /\ armed'[e] = "timed" => armed[e] = "timed"
            /\ armed'[e] # "no" /\ armed'[e] # "refused"
            /\ ev_io_timeout' = ev_io_timeout
        BY <3>2 DEF event_add, IInv, RestTyped, Forever
      <4> QED BY <1>1, <1>3, <1>4, <1>6, <3>1, <3>2, <4>1 DEF TimedOK
    <3>3. CASE tv # Forever
      <4>1. /\ e \in Persist => ev_io_timeout'[e] = tv
            /\ armed'[e] = IF tv > 0 THEN "timed" ELSE "untimed"
        BY <1>1, <3>3 DEF event_add, IInv, RestTyped
      <4> QED BY <1>1, <1>3, <1>6, <3>3, <4>1 DEF TimedOK
    <3> QED BY <3>2, <3>3
  <2>3. e \notin Deferreds
    BY ConstantsAssumption
  <2> QED BY <1>2, <1>5, <1>6, <2>1, <2>2, <2>3, OneCallback
<1>8. QuietInv => QuietInv'
  BY <1>2, <1>5, <1>6, RearmFacts, OneCallbackQuiet
<1>9. UrgentInv => UrgentInv'
  BY <1>2, <1>3, <1>5, <1>6, OneCallbackUrgent
<1> QED BY <1>7, <1>8, <1>9 DEF Keeps

LEMMA DelKeeps ==
  ASSUME IInv, CInv, NEW t \in Threads \cup {Loop}, NEW e \in Events,
         NEW m \in {"AUTOBLOCK", "BLOCK", "NOBLOCK"}, event_del(t, e, m)
  PROVE  Keeps
<1>1. /\ q'.flags = [q.flags EXCEPT ![e] = @ \ ListFlags] /\ e \in Callbacks
      /\ q.flags \in [Callbacks -> SUBSET Flags]
      /\ e \notin ExitEvents /\ "FINALIZING" \notin q.flags[e]
  BY DelEvent, ConstantFacts DEF event_del, IInv, Usable, BaseOK, BaseRec
<1>2. OnlyAt(e)
  BY <1>1 DEF event_del, OnlyAt, IInv, RestTyped
<1>3. /\ finruns' = finruns /\ UNCHANGED event_continue
      /\ pc \notin {"dispatch", "scan", "run"}
  BY ApiPlace DEF event_del, ctl
<1>4. q'.flags[e] \cap ListFlags = {} /\ "FINALIZING" \notin q'.flags[e]
  BY <1>1
<1>5. CInv'
  <2>1. FinalOK(q'.flags[e], finruns'[e])
    BY <1>1, <1>3, <1>4, FinalFacts DEF FinalOK
  <2>2. TimedOK(e, q'.flags[e], armed'[e], ev_io_timeout'[e])
    BY <1>4 DEF event_del, IInv, RestTyped, TimedOK
  <2>3. e \notin Deferreds
    BY ConstantsAssumption
  <2> QED BY <1>1, <1>2, <1>3, <2>1, <2>2, <2>3, OneCallback
<1>6. ASSUME QuietInv PROVE QuietInv'
  <2>1. SUFFICES ASSUME NEW u \in Threads, NEW f \in quiet'[u]
                 PROVE  /\ f \notin ExitEvents /\ q'.flags[f] \cap ListFlags = {}
                        /\ exec = [cb |-> f, fin |-> FALSE] => thr'[u] = [pc |-> "wait", ev |-> f]
    BY DEF QuietInv, event_del
  <2>2. f \in quiet[u] \/ (f = e /\ u = t /\ t # Loop /\ (m = "BLOCK" \/ (m = "AUTOBLOCK" /\ e \notin EvFinalize)))
    BY DEF event_del, IInv, RestTyped
  <2>3. f \in Events
    BY <2>2 DEF IInv, RestTyped
  <2>4. f \notin ExitEvents /\ q'.flags[f] \cap ListFlags = {}
    BY <1>1, <1>4, <1>6, <2>2, <2>3, ConstantFacts DEF QuietInv
  <2>5. ASSUME exec = [cb |-> f, fin |-> FALSE] PROVE thr'[u] = [pc |-> "wait", ev |-> f]
    <3>1. current_event = f
      BY <2>5 DEF CInv, ExecInv
    <3>2. CASE f \in quiet[u]
      <4>1. thr[u] = [pc |-> "wait", ev |-> f]
        BY <1>6, <2>5, <3>2 DEF QuietInv
      <4>2. u # t
        <5>1. thr[t] = Idle \/ t = Loop
          BY DEF event_del, MayCall
        <5> QED BY <4>1, <5>1, ConstantsAssumption DEF Idle
      <4> QED BY <4>1, <4>2 DEF event_del, IInv, RestTyped
    <3>3. CASE f \notin quiet[u]
      <4>1. MustWait(t, e, m)
        BY <2>2, <3>1, <3>3 DEF MustWait
      <4> QED BY <2>2, <3>3, <4>1 DEF event_del, IInv, RestTyped
    <3> QED BY <3>2, <3>3
  <2> QED BY <2>4, <2>5
<1>7. UrgentInv => UrgentInv'
  BY <1>1, <1>2, <1>3, <1>4, OneCallbackUrgent DEF ListFlags
<1> QED BY <1>5, <1>6, <1>7 DEF Keeps


LEMMA RemoveTimerKeeps ==
  ASSUME IInv, CInv, NEW t \in Threads \cup {Loop}, NEW e \in Events, event_remove_timer(t, e)
  PROVE  Keeps
<1>1. /\ q'.flags = [q.flags EXCEPT ![e] = @ \ {"TIMEOUT"}] /\ e \in Callbacks
      /\ q.flags \in [Callbacks -> SUBSET Flags] /\ "TIMEOUT" \in q.flags[e]
  BY RemoveTimeout, ConstantFacts DEF event_remove_timer, IInv, BaseOK, BaseRec
<1>2. OnlyAt(e)
  BY <1>1 DEF event_remove_timer, OnlyAt, IInv, RestTyped, cbvars
<1>3. /\ finruns' = finruns /\ quiet' = quiet /\ UNCHANGED thr /\ UNCHANGED event_continue
      /\ pc \notin {"dispatch", "scan", "run"}
  BY ApiPlace DEF event_remove_timer, ctl
<1>4. "FINALIZING" \notin q.flags[e]
  BY <1>1, FinalFacts DEF ListFlags
<1>5. CInv'
  <2>1. FinalOK(q'.flags[e], finruns'[e])
    BY <1>1, <1>3, <1>4, FinalFacts DEF FinalOK
  <2>2. TimedOK(e, q'.flags[e], armed'[e], ev_io_timeout'[e])
    BY <1>1, <1>4 DEF event_remove_timer, IInv, RestTyped, TimedOK
  <2>3. e \notin Deferreds
    BY ConstantsAssumption
  <2> QED BY <1>1, <1>2, <1>3, <2>1, <2>2, <2>3, OneCallback
<1>6. QuietInv => QuietInv'
  <2>1. QuietInv => \A u \in Threads : e \notin quiet'[u]
    BY <1>1, <1>3 DEF QuietInv, ListFlags
  <2> QED BY <1>1, <1>2, <1>3, <2>1, OneCallbackQuiet
<1>7. UrgentInv => UrgentInv'
  BY <1>1, <1>2, <1>3, OneCallbackUrgent
<1> QED BY <1>5, <1>6, <1>7 DEF Keeps

\* event_active_nolock_ sets event_continue exactly for a more urgent event.
LEMMA ActiveNolockFlags ==
  ASSUME NEW b, BaseOK(b), NEW e \in Callbacks, NEW res, event_active_nolock_(b, e, res)
  PROVE  /\ q'.flags = IF b.flags[e] \cap {"FINALIZING", "ACTIVE"} # {} THEN b.flags
                       ELSE [b.flags EXCEPT ![e] = (@ \ {"ACTIVE_LATER"}) \cup {"ACTIVE"}]
         /\ event_continue' = (event_continue
              \/ (b.flags[e] \cap {"FINALIZING", "ACTIVE"} = {} /\ Pri[e] < event_running_priority))
<1>1. q' = event_callback_activate_nolock_(b, e)
  BY DEF event_active_nolock_
<1>2. event_continue' = (event_continue
        \/ (b.flags[e] \cap {"FINALIZING", "ACTIVE"} = {} /\ Pri[e] < event_running_priority))
  BY Zenon DEF event_active_nolock_
<1> QED BY <1>1, <1>2, ActivateCallback

LEMMA ActiveKeeps ==
  ASSUME IInv, CInv, NEW t \in Threads \cup {Loop}, NEW e \in Events, NEW res \in ActiveWith,
         event_active(t, e, res)
  PROVE  Keeps
<1>0. BaseOK(q) /\ e \in Callbacks /\ "FINALIZING" \notin q.flags[e]
      /\ q.flags \in [Callbacks -> SUBSET Flags] /\ event_continue \in BOOLEAN
      /\ event_active_nolock_(q, e, res)
  BY ConstantFacts DEF event_active, IInv, BaseOK, BaseRec, RestTyped
<1>1. /\ q'.flags = IF q.flags[e] \cap {"FINALIZING", "ACTIVE"} # {} THEN q.flags
                    ELSE [q.flags EXCEPT ![e] = (@ \ {"ACTIVE_LATER"}) \cup {"ACTIVE"}]
      /\ event_continue' = (event_continue
           \/ (q.flags[e] \cap {"FINALIZING", "ACTIVE"} = {} /\ Pri[e] < event_running_priority))
  BY <1>0, ActiveNolockFlags
<1>2. OnlyAt(e)
  BY <1>0, <1>1 DEF event_active, OnlyAt, cbvars
<1>3. /\ UNCHANGED <<finruns, armed, ev_io_timeout, thr>> /\ Rearm(e)
      /\ pc \notin {"dispatch", "scan", "run"}
  BY ApiPlace DEF event_active
<1>4. /\ q.flags[e] \cap {"TIMEOUT", "ACTIVE"} \subseteq q'.flags[e]
      /\ "FINALIZING" \notin q'.flags[e]
      /\ "INSERTED" \in q'.flags[e] => "INSERTED" \in q.flags[e]
  BY <1>0, <1>1
<1>5. CInv'
  <2>1. FinalOK(q'.flags[e], finruns'[e])
    BY <1>0, <1>3, <1>4, FinalFacts DEF FinalOK
  <2>2. TimedOK(e, q'.flags[e], armed'[e], ev_io_timeout'[e])
    BY <1>3, <1>4 DEF CInv, TimedInv, TimedOK
  <2>3. e \notin Deferreds
    BY ConstantsAssumption
  <2> QED BY <1>0, <1>2, <1>3, <2>1, <2>2, <2>3, OneCallback
<1>6. QuietInv => QuietInv'
  BY <1>0, <1>2, <1>3, RearmFacts, OneCallbackQuiet
<1>7. UrgentInv => UrgentInv'
  <2>1. /\ event_continue => event_continue'
        /\ ~event_continue /\ event_continue' => Pri[e] < event_running_priority
        /\ "ACTIVE" \in q'.flags[e] /\ Pri[e] < event_running_priority =>
             "ACTIVE" \in q.flags[e] \/ event_continue'
    BY <1>0, <1>1
  <2> QED BY <1>0, <1>2, <1>3, <2>1, OneCallbackUrgent
<1> QED BY <1>5, <1>6, <1>7 DEF Keeps

LEMMA ActiveLaterKeeps ==
  ASSUME IInv, CInv, NEW t \in Threads \cup {Loop}, NEW e \in Events, NEW res \in ActiveWith,
         event_active_later_(t, e, res)
  PROVE  Keeps
<1>0. BaseOK(q) /\ e \in Callbacks /\ "FINALIZING" \notin q.flags[e]
      /\ q.flags \in [Callbacks -> SUBSET Flags]
      /\ q' = event_queue_insert_active_later(q, e)
  BY ConstantFacts DEF event_active_later_, IInv, BaseOK, BaseRec
<1>1. q'.flags = IF q.flags[e] \cap {"ACTIVE", "ACTIVE_LATER"} # {} THEN q.flags
                 ELSE [q.flags EXCEPT ![e] = @ \cup {"ACTIVE_LATER"}]
  BY <1>0, ActivateLater
<1>2. OnlyAt(e)
  BY <1>0, <1>1 DEF event_active_later_, OnlyAt, cbvars
<1>3. /\ UNCHANGED <<finruns, armed, ev_io_timeout, thr, event_continue>> /\ Rearm(e)
      /\ pc \notin {"dispatch", "scan", "run"}
  BY ApiPlace DEF event_active_later_, ctl
<1>4. /\ q'.flags[e] \cap {"TIMEOUT", "ACTIVE"} = q.flags[e] \cap {"TIMEOUT", "ACTIVE"}
      /\ "FINALIZING" \notin q'.flags[e]
      /\ "INSERTED" \in q'.flags[e] => "INSERTED" \in q.flags[e]
  BY <1>0, <1>1
<1>5. CInv'
  <2>1. FinalOK(q'.flags[e], finruns'[e])
    BY <1>0, <1>3, <1>4, FinalFacts DEF FinalOK
  <2>2. TimedOK(e, q'.flags[e], armed'[e], ev_io_timeout'[e])
    BY <1>3, <1>4 DEF CInv, TimedInv, TimedOK
  <2>3. e \notin Deferreds
    BY ConstantsAssumption
  <2> QED BY <1>0, <1>2, <1>3, <2>1, <2>2, <2>3, OneCallback
<1>6. QuietInv => QuietInv'
  BY <1>0, <1>2, <1>3, RearmFacts, OneCallbackQuiet
<1>7. UrgentInv => UrgentInv'
  BY <1>0, <1>2, <1>3, <1>4, OneCallbackUrgent
<1> QED BY <1>5, <1>6, <1>7 DEF Keeps

\* A call on a deferred callback d, which is in no thread's quiet set.
LEMMA DeferredKeeps ==
  ASSUME IInv, CInv, NEW d \in Deferreds, OnlyAt(d), UNCHANGED <<thr, history, event_continue>>,
         pc \notin {"dispatch", "scan", "run"},
         FinalOK(q'.flags[d], finruns[d]), q'.flags[d] \cap {"INSERTED", "TIMEOUT"} = {},
         \A e \in Events : e # d
  PROVE  Keeps
<1>0. d \in Callbacks /\ d \notin Events /\ finruns' = finruns /\ quiet' = quiet
  BY ConstantFacts DEF history
<1>1. CInv'
  BY <1>0, OneCallback
<1>2. QuietInv => QuietInv'
  <2>1. \A u \in Threads : d \notin quiet'[u]
    BY <1>0 DEF IInv, RestTyped
  <2> QED BY <1>0, <2>1, OneCallbackQuiet
<1>3. UrgentInv => UrgentInv'
  <2>1. UrgentActive' <=> UrgentActive
    BY <1>0, ConstantFacts DEF UrgentActive, OnlyAt, where
  <2> QED BY <2>1 DEF UrgentInv, InCallback, OnlyAt, where
<1> QED BY <1>1, <1>2, <1>3 DEF Keeps

LEMMA ScheduleKeeps ==
  ASSUME IInv, CInv, NEW t \in Threads \cup {Loop}, NEW d \in Deferreds,
         event_deferred_cb_schedule_(t, d) \/ event_deferred_cb_cancel_(t, d)
  PROVE  Keeps
<1>0. /\ BaseOK(q) /\ d \in Callbacks /\ q.flags \in [Callbacks -> SUBSET Flags]
      /\ \A e \in Events : e # d
  BY ConstantsAssumption DEF Callbacks, IInv, BaseOK, BaseRec
<1>1. /\ UNCHANGED <<thr, history, event_continue, where, cbvars, ev_io_timeout>>
      /\ pc \notin {"dispatch", "scan", "run"}
      /\ \/ q' = event_queue_insert_active_later(q, d)
         \/ q' = event_callback_activate_nolock_(q, d)
         \/ q' = event_callback_cancel_nolock_(q, d)
  BY ApiPlace DEF event_deferred_cb_schedule_, event_deferred_cb_cancel_, ctl
<1>2. /\ \/ q'.flags = q.flags
         \/ /\ q'.flags = [q.flags EXCEPT ![d] = @ \cup {"ACTIVE_LATER"}]
            /\ q.flags[d] \cap {"ACTIVE", "ACTIVE_LATER"} = {}
         \/ /\ q'.flags = [q.flags EXCEPT ![d] = (@ \ {"ACTIVE_LATER"}) \cup {"ACTIVE"}]
            /\ "FINALIZING" \notin q.flags[d]
         \/ /\ q'.flags = [q.flags EXCEPT ![d] = @ \ {"ACTIVE", "ACTIVE_LATER"}]
            /\ "FINALIZING" \notin q.flags[d]
  BY <1>0, <1>1, ActivateLater, ActivateCallback, CancelCallback
<1>3. Usable(d) /\ finruns[d] = 0
  BY ConstantsAssumption DEF event_deferred_cb_schedule_, event_deferred_cb_cancel_, Usable
<1>4. OnlyAt(d)
  BY <1>0, <1>1, <1>2 DEF OnlyAt, cbvars, history
<1>5. FinalOK(q'.flags[d], finruns[d])
  BY <1>0, <1>2, <1>3, FinalFacts DEF FinalOK, ListFlags
<1>6. q'.flags[d] \cap {"INSERTED", "TIMEOUT"} = {}
  <2>1. q.flags[d] \cap {"INSERTED", "TIMEOUT"} = {}
    BY DEF CInv, ExecInv
  <2> QED BY <1>0, <1>2, <2>1
<1> QED BY <1>0, <1>1, <1>4, <1>5, <1>6, DeferredKeeps


LEMMA FinalizeKeeps ==
  ASSUME IInv, CInv, NEW t \in Threads \cup {Loop}, NEW e \in Events, event_finalize(t, e)
  PROVE  Keeps
<1>0. BaseOK(q) /\ e \in Callbacks /\ "FINALIZING" \notin q.flags[e] /\ e \notin Deferreds
      /\ q.flags \in [Callbacks -> SUBSET Flags] /\ event_continue \in BOOLEAN
  BY ConstantsAssumption DEF Callbacks, event_finalize, IInv, BaseOK, BaseRec, RestTyped
<1>1. /\ \A d \in Callbacks \ {e} : q'.flags[d] = q.flags[d]
      /\ q'.flags[e] \cap ListFlags = {"ACTIVE"} /\ "FINALIZING" \in q'.flags[e]
  <2> DEFINE b1 == event_del_nolock_(q, e)
             b2 == event_callback_activate_nolock_(b1, e)
  <2>1. BaseOK(b1) /\ b1.flags = [q.flags EXCEPT ![e] = @ \ ListFlags]
    BY <1>0, DelEvent
  <2>2. q' = SetFinalizing(b2, e)
    BY DEF event_finalize
  <2> HIDE DEF b1
  <2>3. b1.flags[e] \cap {"FINALIZING", "ACTIVE"} = {} /\ b1.flags \in [Callbacks -> SUBSET Flags]
    BY <1>0, <2>1 DEF ListFlags
  <2>4. BaseOK(b2) /\ b2.flags = [b1.flags EXCEPT ![e] = (@ \ {"ACTIVE_LATER"}) \cup {"ACTIVE"}]
    BY <1>0, <2>1, <2>3, ActivateCallback
  <2> HIDE DEF b2
  <2>5. q'.flags = [b2.flags EXCEPT ![e] = @ \cup {"FINALIZING"}]
    BY <1>0, <2>2, <2>4, Finalizing
  <2> QED BY <1>0, <2>1, <2>3, <2>4, <2>5 DEF ListFlags
<1>2. OnlyAt(e)
  BY <1>1 DEF event_finalize, OnlyAt, cbvars, IInv, RestTyped
<1>3. /\ UNCHANGED <<finruns, ev_io_timeout, thr>> /\ Rearm(e)
      /\ pc \notin {"dispatch", "scan", "run"} /\ armed'[e] = "no"
  BY ApiPlace DEF event_finalize, IInv, RestTyped
<1>4. CInv'
  <2>1. FinalOK(q'.flags[e], finruns'[e])
    BY <1>0, <1>1, <1>3, FinalFacts DEF FinalOK
  <2>2. TimedOK(e, q'.flags[e], armed'[e], ev_io_timeout'[e])
    BY <1>3 DEF TimedOK
  <2> QED BY <1>0, <1>2, <1>3, <2>1, <2>2, OneCallback
<1>5. QuietInv => QuietInv'
  BY <1>0, <1>2, <1>3, RearmFacts, OneCallbackQuiet
<1>6. UrgentInv => UrgentInv'
  <2>1. event_continue' = (event_continue \/ Pri[e] < event_running_priority)
    BY Zenon DEF event_finalize
  <2> QED BY <1>0, <1>2, <1>3, <2>1, OneCallbackUrgent
<1> QED BY <1>4, <1>5, <1>6 DEF Keeps

LEMMA CallbackFinalizeKeeps ==
  ASSUME IInv, CInv, NEW t \in Threads \cup {Loop}, NEW d \in Deferreds, event_callback_finalize_(t, d)
  PROVE  Keeps
<1>0. /\ BaseOK(q) /\ d \in Callbacks /\ "FINALIZING" \notin q.flags[d]
      /\ q.flags \in [Callbacks -> SUBSET Flags] /\ \A e \in Events : e # d
      /\ q.flags[d] \cap {"INSERTED", "TIMEOUT"} = {}
  BY ConstantsAssumption DEF Callbacks, event_callback_finalize_, IInv, BaseOK, BaseRec, CInv, ExecInv
<1>1. /\ \A c \in Callbacks \ {d} : q'.flags[c] = q.flags[c]
      /\ q'.flags[d] \cap ListFlags = {"ACTIVE"} /\ "FINALIZING" \in q'.flags[d]
  <2> DEFINE b1 == event_callback_cancel_nolock_(q, d)
             b2 == event_callback_activate_nolock_(b1, d)
  <2>1. BaseOK(b1) /\ b1.flags = [q.flags EXCEPT ![d] = @ \ {"ACTIVE", "ACTIVE_LATER"}]
    BY <1>0, CancelCallback
  <2>2. q' = SetFinalizing(b2, d)
    BY DEF event_callback_finalize_
  <2> HIDE DEF b1
  <2>3. b1.flags[d] \cap {"FINALIZING", "ACTIVE"} = {} /\ b1.flags \in [Callbacks -> SUBSET Flags]
    BY <1>0, <2>1
  <2>4. BaseOK(b2) /\ b2.flags = [b1.flags EXCEPT ![d] = (@ \ {"ACTIVE_LATER"}) \cup {"ACTIVE"}]
    BY <1>0, <2>1, <2>3, ActivateCallback
  <2> HIDE DEF b2
  <2>5. q'.flags = [b2.flags EXCEPT ![d] = @ \cup {"FINALIZING"}]
    BY <1>0, <2>2, <2>4, Finalizing
  <2> QED BY <1>0, <2>1, <2>3, <2>4, <2>5 DEF ListFlags
<1>2. /\ UNCHANGED <<thr, history, event_continue, where, cbvars, ev_io_timeout>>
      /\ pc \notin {"dispatch", "scan", "run"}
  BY ApiPlace DEF event_callback_finalize_, ctl
<1>3. OnlyAt(d)
  BY <1>1, <1>2 DEF OnlyAt, cbvars, history
<1>4. FinalOK(q'.flags[d], finruns[d])
  BY <1>0, <1>1, FinalFacts DEF FinalOK
<1>5. q'.flags[d] \cap {"INSERTED", "TIMEOUT"} = {}
  BY <1>1 DEF ListFlags
<1> QED BY <1>0, <1>2, <1>3, <1>4, <1>5, DeferredKeeps

LEMMA AssignKeeps ==
  ASSUME IInv, CInv, NEW t \in Threads \cup {Loop}, NEW c \in Events \cup Deferreds, event_assign(t, c)
  PROVE  Keeps
<1>0. c \in Callbacks /\ q \in BaseRec /\ q.flags \in [Callbacks -> SUBSET Flags]
  BY ConstantFacts DEF IInv, BaseOK, BaseRec
<1>1. q'.flags = [q.flags EXCEPT ![c] = {}]
  BY <1>0 DEF event_assign, BaseRec
<1>2. /\ finruns'[c] = 0 /\ \A d \in (Events \cup Deferreds) \ {c} : finruns'[d] = finruns[d]
      /\ c \in Events => armed'[c] = "no"
      /\ \A d \in Events \ {c} : armed'[d] = armed[d] /\ ev_io_timeout'[d] = ev_io_timeout[d]
  BY DEF event_assign, IInv, RestTyped
<1>3. /\ UNCHANGED <<where, cbvars, thr, quiet, event_continue>>
      /\ pc \notin {"dispatch", "scan", "run"}
  BY ApiPlace DEF event_assign, ctl
<1>4. OnlyAt(c)
  BY <1>0, <1>1, <1>2, <1>3 DEF OnlyAt, cbvars
<1>5. q'.flags[c] = {}
  BY <1>0, <1>1
<1>6. CInv'
  BY <1>0, <1>2, <1>3, <1>4, <1>5, OneCallback DEF FinalOK, TimedOK
<1>7. QuietInv => QuietInv'
  BY <1>0, <1>3, <1>4, <1>5, OneCallbackQuiet
<1>8. UrgentInv => UrgentInv'
  BY <1>0, <1>3, <1>4, <1>5, OneCallbackUrgent
<1> QED BY <1>6, <1>7, <1>8 DEF Keeps

LEMMA LoopExitKeeps ==
  ASSUME IInv, CInv, NEW t \in Threads \cup {Loop}, NEW x \in ExitEvents,
         NEW tv \in Delays \cup {Forever}, event_base_loopexit(t, x, tv)
  PROVE  Keeps
<1>0. /\ BaseOK(q) /\ x \in Callbacks /\ x \in Events /\ x \notin Persist /\ x \notin Deferreds
      /\ q.flags \in [Callbacks -> SUBSET Flags] /\ q.flags[x] = {} /\ event_continue \in BOOLEAN
  BY ConstantsAssumption DEF Callbacks, event_base_loopexit, IInv, BaseOK, BaseRec, RestTyped
<1>1. /\ UNCHANGED <<where, cbvars, thr, history, ev_io_timeout>>
      /\ pc \notin {"dispatch", "scan", "run"}
  BY ApiPlace DEF event_base_loopexit
<1>2. /\ \A d \in Callbacks \ {x} : q'.flags[d] = q.flags[d]
      /\ "FINALIZING" \notin q'.flags[x]
      /\ event_continue => event_continue'
      /\ ~event_continue /\ event_continue' => Pri[x] < event_running_priority
      /\ "ACTIVE" \in q'.flags[x] /\ Pri[x] < event_running_priority => event_continue'
  <2>1. CASE tv = Forever
    <3>1. event_active_nolock_(q, x, "TIMEOUT")
      BY <2>1 DEF event_base_loopexit
    <3>2. /\ q'.flags = [q.flags EXCEPT ![x] = (@ \ {"ACTIVE_LATER"}) \cup {"ACTIVE"}]
          /\ event_continue' = (event_continue \/ Pri[x] < event_running_priority)
      BY <1>0, <3>1, ActiveNolockFlags
    <3>3. /\ \A d \in Callbacks \ {x} : q'.flags[d] = q.flags[d]
          /\ "FINALIZING" \notin q'.flags[x]
      BY <1>0, <3>2
    <3>4. event_continue' <=> (event_continue \/ Pri[x] < event_running_priority)
      BY <3>2
    <3> QED BY <3>3, <3>4, Zenon
  <2>2. CASE tv # Forever
    <3>1. gettime + tv \in Nat
      BY <2>2, GetTimeIsNat, ConstantFacts DEF IInv
    <3>2. q' = event_add_nolock_(q, x, gettime + tv) /\ UNCHANGED event_continue
      BY <2>2 DEF event_base_loopexit
    <3>3. /\ \A d \in Callbacks \ {x} : q'.flags[d] = q.flags[d]
          /\ "FINALIZING" \in q'.flags[x] <=> "FINALIZING" \in q.flags[x]
          /\ "ACTIVE" \in q'.flags[x] => "ACTIVE" \in q.flags[x]
      BY <1>0, <3>1, <3>2, AddEvent
    <3> QED BY <1>0, <3>2, <3>3
  <2> QED BY <2>1, <2>2
<1>3. OnlyAt(x)
  BY <1>1, <1>2 DEF OnlyAt, cbvars, history
<1>4. CInv'
  <2>1. FinalOK(q'.flags[x], finruns'[x]) /\ finruns' = finruns
    BY <1>0, <1>1, <1>2, FinalFacts DEF FinalOK, history
  <2>2. TimedOK(x, q'.flags[x], armed'[x], ev_io_timeout'[x])
    BY <1>0, <1>2 DEF TimedOK
  <2> QED BY <1>0, <1>1, <1>3, <2>1, <2>2, OneCallback
<1>5. QuietInv => QuietInv'
  <2>1. quiet' = quiet /\ (QuietInv => \A u \in Threads : x \notin quiet[u])
    BY <1>1 DEF QuietInv, history
  <2> QED BY <1>0, <1>1, <1>3, <2>1, OneCallbackQuiet
<1>6. UrgentInv => UrgentInv'
  BY <1>0, <1>1, <1>2, <1>3, OneCallbackUrgent
<1> QED BY <1>4, <1>5, <1>6 DEF Keeps

\* A step that leaves the flags, the loop's place and the histories alone.
LEMMA SameFlagsKeep ==
  ASSUME IInv, CInv, q'.flags = q.flags,
         UNCHANGED <<ev_io_timeout, pc, todo, current_event, exec, history>>
  PROVE  /\ CInv'
         /\ thr' = thr => (QuietInv => QuietInv')
         /\ UNCHANGED <<event_continue, event_running_priority, count>> => (UrgentInv => UrgentInv')
<1>1. ExecInv'
  BY DEF CInv, ExecInv, InCallback
<1>2. FinalInv'
  BY DEF CInv, FinalInv, history
<1>3. TimedInv'
  BY DEF CInv, TimedInv, history
<1>4. thr' = thr => (QuietInv => QuietInv')
  BY DEF QuietInv, history
<1>5. UNCHANGED <<event_continue, event_running_priority, count>> => (UrgentInv => UrgentInv')
  BY DEF UrgentInv, UrgentActive, InCallback
<1> QED BY <1>1, <1>2, <1>3, <1>4, <1>5 DEF CInv

LEMMA VirtualKeeps ==
  ASSUME IInv, CInv, NEW t \in Threads \cup {Loop},
         event_base_add_virtual_(t) \/ event_base_del_virtual_(t)
  PROVE  Keeps
<1>1. q'.flags = q.flags
  BY DEF IInv, BaseOK, BaseRec, event_base_add_virtual_, event_base_del_virtual_
<1>2. UNCHANGED <<ev_io_timeout, ctl, where, cbvars, thr, history>>
  BY DEF event_base_add_virtual_, event_base_del_virtual_
<1> QED BY <1>1, <1>2, SameFlagsKeep DEF Keeps, where, cbvars, ctl

\* event_base_loopbreak; event_base_loopcontinue sets event_continue for no event.
LEMMA LoopControlKeeps ==
  ASSUME IInv, CInv, NEW t \in Threads \cup {Loop},
         event_base_loopbreak(t) \/ event_base_loopcontinue(t)
  PROVE  CInv' /\ (QuietInv => QuietInv') /\ ("continue" \notin Ops /\ UrgentInv => UrgentInv')
<1>1. q'.flags = q.flags /\ UNCHANGED <<ev_io_timeout, where, cbvars, thr, history>>
  BY DEF event_base_loopbreak, event_base_loopcontinue, qvars
<1>2. "continue" \notin Ops => UNCHANGED event_continue
  BY DEF event_base_loopbreak, event_base_loopcontinue, MayCall
<1> QED BY <1>1, <1>2, SameFlagsKeep DEF where, cbvars

\* A thread that waited in event_del returns; the clock; nothing at all.
LEMMA ReturnKeeps ==
  ASSUME IInv, CInv, NEW t \in Threads, event_del_return(t)
  PROVE  Keeps
<1>1. q'.flags = q.flags /\ UNCHANGED <<ev_io_timeout, where, cbvars, ctl, history>>
  BY DEF event_del_return, qvars
<1>2. ASSUME QuietInv PROVE QuietInv'
  <2>1. \A u \in Threads : thr[u].pc = "wait" => thr'[u] = thr[u]
    BY DEF event_del_return, IInv, RestTyped
  <2>2. \A u \in Threads : \A e : thr[u] = [pc |-> "wait", ev |-> e] => thr'[u] = thr[u]
    BY <2>1
  <2> HIDE DEF QuietInv
  <2>3. q'.flags = q.flags /\ exec' = exec /\ quiet' = quiet
    BY <1>1 DEF cbvars, history
  <2> QED BY <1>2, <2>2, <2>3 DEF QuietInv
<1> QED BY <1>1, <1>2, SameFlagsKeep DEF Keeps, where, cbvars, ctl

LEMMA SpuriousKeeps ==
  ASSUME IInv, CInv, NEW t \in Threads, SpuriousWakeup(t)
  PROVE  CInv' /\ Spurious /\ (UrgentInv => UrgentInv')
<1>1. q'.flags = q.flags /\ UNCHANGED <<ev_io_timeout, where, cbvars, ctl, history>>
  BY DEF SpuriousWakeup, qvars
<1> QED BY <1>1, SameFlagsKeep DEF SpuriousWakeup, where, cbvars, ctl

LEMMA TickKeeps ==
  ASSUME IInv, CInv, Tick \/ UNCHANGED vars
  PROVE  Keeps
<1>1. q'.flags = q.flags /\ UNCHANGED <<ev_io_timeout, where, cbvars, ctl, thr, history>>
  BY DEF Tick, vars, qvars
<1> QED BY <1>1, SameFlagsKeep DEF Keeps, where, cbvars, ctl


------------------------------------------------------------------------------
(* The steps of the loop.                                                  *)

\* The loop goes from one place to another, neither of them in a callback.
LEMMA MoveKeeps ==
  ASSUME IInv, CInv, q'.flags = q.flags,
         UNCHANGED <<ev_io_timeout, current_event, exec, thr, history>>, InCallback' <=> InCallback,
         todo' # {} => pc' = "dispatch", \A c \in todo' : "INSERTED" \in q.flags[c]
  PROVE  CInv' /\ (QuietInv => QuietInv')
<1>1. ExecInv'
  BY DEF CInv, ExecInv
<1>2. FinalInv'
  BY DEF CInv, FinalInv, history
<1>3. TimedInv'
  BY DEF CInv, TimedInv, history
<1>4. QuietInv => QuietInv'
  BY DEF QuietInv, history
<1> QED BY <1>1, <1>2, <1>3, <1>4 DEF CInv

LEMMA TodoElsewhere ==
  ASSUME CInv, pc # "dispatch"
  PROVE  todo = {}
BY DEF CInv, ExecInv

LEMMA OuterLoopKeeps ==
  ASSUME IInv, CInv,
         \/ loop_start \/ loop_exit \/ loop_wait \/ dispatch_enter \/ wait_timeout
         \/ wait_interrupted \/ wait_error \/ dispatch_locked \/ dispatch_leave
         \/ (\E fds \in SUBSET Fds : wait_ready(fds)) \/ wait_notified
  PROVE  Keeps
<1>1. CASE dispatch_locked
  <2>1. /\ q'.flags = q.flags /\ pc = "polled" /\ pc' = "dispatch"
        /\ UNCHANGED <<ev_io_timeout, current_event, exec, thr, history>>
        /\ UNCHANGED <<event_continue, event_running_priority>>
        /\ \A c \in todo' : "INSERTED" \in q.flags[c]
    BY <1>1 DEF dispatch_locked, qvars, cbvars, ctl
  <2>2. CInv' /\ (QuietInv => QuietInv')
    BY <2>1, MoveKeeps DEF InCallback
  <2>3. UrgentInv => UrgentInv'
    BY <2>1 DEF UrgentInv, InCallback
  <2> QED BY <2>2, <2>3 DEF Keeps
<1>2. CASE \/ loop_start \/ loop_exit \/ loop_wait \/ dispatch_enter \/ wait_timeout
           \/ wait_interrupted \/ wait_error \/ dispatch_leave
           \/ (\E fds \in SUBSET Fds : wait_ready(fds)) \/ wait_notified
  <2>1. /\ q'.flags = q.flags /\ todo' = todo /\ (pc = "dispatch" => todo = {})
        /\ UNCHANGED <<ev_io_timeout, current_event, exec, thr, history>>
        /\ UNCHANGED event_running_priority
        /\ pc \in {"stopped", "iter", "later", "poll", "dispatch"}
        /\ pc' \in {"stopped", "iter", "later", "poll", "polled", "timeouts"}
    BY <1>2 DEF loop_start, loop_exit, loop_wait, dispatch_enter, wait_timeout, wait_interrupted,
                wait_error, dispatch_leave, wait_ready, wait_notified, LeavePoll, LeaveLoop, qvars, cbvars
  <2>2. todo' = {}
    BY <2>1, TodoElsewhere
  <2>3. CInv' /\ (QuietInv => QuietInv')
    BY <2>1, <2>2, MoveKeeps DEF InCallback
  <2>4. pc' \notin {"stopped", "iter"} =>
          ~event_continue' \/ (event_continue' = event_continue /\ pc \in {"later", "poll", "dispatch"})
    BY <1>2 DEF loop_start, loop_exit, loop_wait, dispatch_enter, wait_timeout, wait_interrupted,
                wait_error, dispatch_leave, wait_ready, wait_notified, LeavePoll, LeaveLoop, ctl
  <2>5. UrgentInv => UrgentInv'
    BY <2>1, <2>4 DEF UrgentInv, InCallback
  <2> QED BY <2>3, <2>5 DEF Keeps
<1> QED BY <1>1, <1>2

LEMMA MakeLaterKeeps ==
  ASSUME IInv, CInv, make_later_active
  PROVE  Keeps
<1>0. /\ BaseOK(q) /\ q.flags \in [Callbacks -> SUBSET Flags] /\ q.later # <<>> /\ pc = "later"
      /\ q' = event_queue_make_later_event_active(q)
      /\ UNCHANGED <<where, cbvars, thr, history, ev_io_timeout, event_continue>>
  BY DEF make_later_active, IInv, BaseOK, BaseRec
<1> DEFINE c == Head(q.later)
<1>1. /\ c \in Callbacks
      /\ q'.flags = [q.flags EXCEPT ![c] = (@ \ {"ACTIVE_LATER"}) \cup {"ACTIVE"}]
  BY <1>0, MakeLaterActive
<1>2. "ACTIVE_LATER" \in q.flags[c]
  <2>1. InQueue(q.later, c)
    BY <1>0, HeadOfQueue DEF BaseOK, BaseRec, QueuesMatch
  <2> QED BY <1>0, <1>1, <2>1 DEF BaseOK, QueuesMatch
<1> HIDE DEF c
<1>3. OnlyAt(c)
  BY <1>0, <1>1 DEF OnlyAt, cbvars, history
<1>4. c \in Events \cup Deferreds => "FINALIZING" \notin q.flags[c]
  BY <1>2, FinalFacts DEF ListFlags
<1>5. c \in Deferreds => q.flags[c] \cap {"INSERTED", "TIMEOUT"} = {}
  BY DEF CInv, ExecInv
<1>6. q'.flags[c] = (q.flags[c] \ {"ACTIVE_LATER"}) \cup {"ACTIVE"} /\ finruns' = finruns
      /\ quiet' = quiet /\ armed' = armed
  BY <1>0, <1>1 DEF history
<1>7. CInv'
  <2>1. c \in Events \cup Deferreds => FinalOK(q'.flags[c], finruns'[c])
    BY <1>4, <1>6, FinalFacts DEF FinalOK
  <2>2. c \in Events => TimedOK(c, q'.flags[c], armed'[c], ev_io_timeout'[c])
    BY <1>0, <1>6 DEF CInv, TimedInv, TimedOK
  <2> QED BY <1>0, <1>1, <1>3, <1>5, <1>6, <2>1, <2>2, OneCallback
<1>8. QuietInv => QuietInv'
  <2>1. QuietInv => \A u \in Threads : c \notin quiet'[u]
    BY <1>2, <1>6 DEF QuietInv, ListFlags
  <2> QED BY <1>0, <1>1, <1>3, <1>6, <2>1, OneCallbackQuiet
<1>9. UrgentInv => UrgentInv'
  <2>1. UrgentInv => ~(Pri[c] < event_running_priority)
    BY <1>0, <1>1, ConstantsAssumption DEF UrgentInv, InCallback, Priorities
  <2> QED BY <1>0, <1>1, <1>3, <2>1, OneCallbackUrgent
<1> QED BY <1>7, <1>8, <1>9 DEF Keeps

LEMMA TimeoutKeeps ==
  ASSUME IInv, CInv, NEW e \in Events, timeout_process(e)
  PROVE  Keeps
<1>0. /\ BaseOK(q) /\ e \in Callbacks /\ q.flags \in [Callbacks -> SUBSET Flags]
      /\ pc = "timeouts" /\ "TIMEOUT" \in q.flags[e] /\ e \notin Deferreds
      /\ UNCHANGED <<where, cbvars, thr, history, ev_io_timeout>> /\ event_continue \in BOOLEAN
  BY ConstantsAssumption DEF Callbacks, timeout_process, Due, min_heap_top, TimeHeap, IInv, BaseOK,
                             BaseRec, RestTyped
<1>1. "FINALIZING" \notin q.flags[e]
  BY <1>0, FinalFacts DEF ListFlags
<1> DEFINE b == event_del_nolock_(q, e)
<1>2. BaseOK(b) /\ b.flags = [q.flags EXCEPT ![e] = @ \ ListFlags]
  BY <1>0, <1>1, DelEvent
<1>3. event_active_nolock_(b, e, "TIMEOUT")
  BY DEF timeout_process
<1> HIDE DEF b
<1>4. b.flags[e] \cap {"FINALIZING", "ACTIVE", "INSERTED"} = {} /\ b.flags \in [Callbacks -> SUBSET Flags]
  BY <1>0, <1>1, <1>2 DEF ListFlags
<1>5. /\ q'.flags = [b.flags EXCEPT ![e] = (@ \ {"ACTIVE_LATER"}) \cup {"ACTIVE"}]
      /\ event_continue' = (event_continue \/ Pri[e] < event_running_priority)
  BY <1>0, <1>2, <1>3, <1>4, ActiveNolockFlags
<1>6. /\ \A d \in Callbacks \ {e} : q'.flags[d] = q.flags[d]
      /\ "FINALIZING" \notin q'.flags[e] /\ "ACTIVE" \in q'.flags[e] /\ "INSERTED" \notin q'.flags[e]
  BY <1>0, <1>2, <1>4, <1>5
<1>7. OnlyAt(e) /\ finruns' = finruns /\ quiet' = quiet /\ armed' = armed
  BY <1>0, <1>6 DEF OnlyAt, cbvars, history
<1>8. CInv'
  <2>1. FinalOK(q'.flags[e], finruns'[e])
    BY <1>1, <1>6, <1>7, FinalFacts DEF FinalOK
  <2>2. TimedOK(e, q'.flags[e], armed'[e], ev_io_timeout'[e])
    BY <1>0, <1>6, <1>7 DEF CInv, TimedInv, TimedOK
  <2> QED BY <1>0, <1>7, <2>1, <2>2, OneCallback
<1>9. QuietInv => QuietInv'
  <2>1. QuietInv => \A u \in Threads : e \notin quiet'[u]
    BY <1>0, <1>7 DEF QuietInv, ListFlags
  <2> QED BY <1>0, <1>7, <2>1, OneCallbackQuiet
<1>10. UrgentInv => UrgentInv'
  <2>1. UrgentInv => ~(Pri[e] < event_running_priority)
    BY <1>0, ConstantsAssumption DEF UrgentInv, InCallback, Priorities
  <2>2. event_continue' <=> (event_continue \/ Pri[e] < event_running_priority)
    BY <1>5
  <2> QED BY <1>0, <1>7, <2>1, <2>2, OneCallbackUrgent
<1> QED BY <1>8, <1>9, <1>10 DEF Keeps

LEMMA DispatchKeeps ==
  ASSUME IInv, CInv, NEW c \in IO \cup {Notify}, dispatch_activate(c)
  PROVE  Keeps
<1>0. /\ BaseOK(q) /\ c \in Callbacks /\ q.flags \in [Callbacks -> SUBSET Flags]
      /\ pc = "dispatch" /\ "INSERTED" \in q.flags[c] /\ c \notin Deferreds
      /\ todo' = todo \ {c} /\ event_active_nolock_(q, c, "READ") /\ todo \subseteq Callbacks
      /\ UNCHANGED <<pc, event_running_priority, count, cbvars, thr, history, ev_io_timeout>>
      /\ event_continue \in BOOLEAN
  BY ConstantsAssumption DEF Callbacks, dispatch_activate, CInv, ExecInv, IInv, BaseOK, BaseRec, RestTyped
<1>1. c \in Events => "FINALIZING" \notin q.flags[c]
  BY <1>0, FinalFacts DEF ListFlags
<1>2. /\ q'.flags = IF q.flags[c] \cap {"FINALIZING", "ACTIVE"} # {} THEN q.flags
                    ELSE [q.flags EXCEPT ![c] = (@ \ {"ACTIVE_LATER"}) \cup {"ACTIVE"}]
      /\ event_continue' = (event_continue
           \/ (q.flags[c] \cap {"FINALIZING", "ACTIVE"} = {} /\ Pri[c] < event_running_priority))
  BY <1>0, ActiveNolockFlags
<1>3. /\ \A d \in Callbacks \ {c} : q'.flags[d] = q.flags[d]
      /\ q.flags[c] \ {"ACTIVE_LATER"} \subseteq q'.flags[c]
      /\ "FINALIZING" \in q'.flags[c] => "FINALIZING" \in q.flags[c]
      /\ "INSERTED" \in q'.flags[c] => "INSERTED" \in q.flags[c]
  BY <1>0, <1>2
<1>4. ExecInv'
  <2>1. \A d \in todo' : "INSERTED" \in q'.flags[d]
    BY <1>0, <1>3 DEF CInv, ExecInv
  <2>2. \A d \in Deferreds : q'.flags[d] = q.flags[d]
    BY <1>0, <1>3, ConstantFacts
  <2> QED BY <1>0, <2>1, <2>2 DEF CInv, ExecInv, InCallback, cbvars
<1>5. FinalInv'
  <2>1. ASSUME NEW d \in Events \cup Deferreds
        PROVE  FinalOK(q'.flags[d], finruns[d])
    <3>1. CASE d = c
      BY <1>0, <1>1, <1>3, <3>1, FinalFacts DEF FinalOK
    <3>2. CASE d # c
      BY <1>3, <3>2, ConstantFacts DEF CInv, FinalInv
    <3> QED BY <3>1, <3>2
  <2> QED BY <1>0, <2>1 DEF CInv, FinalInv, history, cbvars
<1>6. TimedInv'
  <2>1. ASSUME NEW d \in Events
        PROVE  TimedOK(d, q'.flags[d], armed[d], ev_io_timeout[d])
    <3>1. TimedOK(d, q.flags[d], armed[d], ev_io_timeout[d]) /\ d \in Callbacks
      BY ConstantFacts DEF CInv, TimedInv
    <3>2. CASE d = c
      BY <1>3, <3>1, <3>2 DEF TimedOK
    <3>3. CASE d # c
      BY <1>3, <3>1, <3>3
    <3> QED BY <3>2, <3>3
  <2> QED BY <1>0, <2>1 DEF TimedInv, history
<1>7. ASSUME QuietInv PROVE QuietInv'
  <2>1. \A u \in Threads : c \notin quiet[u] /\ quiet[u] \subseteq Callbacks
    BY <1>0, <1>7, ConstantFacts DEF QuietInv, ListFlags, IInv, RestTyped
  <2>2. quiet' = quiet /\ exec' = exec /\ thr' = thr
    BY <1>0 DEF history, cbvars
  <2>3. \A u \in Threads : \A e \in quiet[u] : q'.flags[e] = q.flags[e]
    BY <1>3, <2>1
  <2> QED BY <1>7, <2>2, <2>3 DEF QuietInv
<1>8. ASSUME UrgentInv PROVE UrgentInv'
  <2>1. event_running_priority = -1 /\ ~event_continue
    BY <1>0, <1>8 DEF UrgentInv, InCallback
  <2>2. Pri[c] \in Nat
    BY <1>0, ConstantsAssumption DEF Priorities
  <2>3. ~(Pri[c] < event_running_priority)
    BY <2>1, <2>2
  <2>4. ~event_continue'
    BY <1>2, <2>1, <2>3, Zenon
  <2> QED BY <1>0, <2>1, <2>4 DEF UrgentInv, InCallback
<1> QED BY <1>4, <1>5, <1>6, <1>7, <1>8 DEF Keeps, CInv


\* timeouts_done, scan_queues and queue_drained: the loop looks for the queue to run.  A
\* queue is left for a less urgent one only when it is empty.
LEMMA EndProcessUrgent ==
  ASSUME NEW b, NEW n, EndProcess(b, n), UrgentInv
  PROVE  UrgentInv'
BY DEF EndProcess, LeaveLoop, UrgentInv, UrgentActive, InCallback

LEMMA EmptyQueue ==
  ASSUME IInv, NEW i \in Priorities, q.active[i] = <<>>, NEW e \in Events, "ACTIVE" \in q.flags[e]
  PROVE  Pri[e] # i
<1>1. ~InQueue(q.active[i], e)
  BY DEF InQueue
<1> QED BY <1>1, ConstantFacts DEF IInv, BaseOK, QueuesMatch

LEMMA ScanKeeps ==
  ASSUME IInv, CInv, timeouts_done \/ scan_queues \/ queue_drained
  PROVE  Keeps
<1>0. /\ q' = q /\ UNCHANGED <<ev_io_timeout, current_event, exec, thr, history, todo, event_continue>>
      /\ pc \in {"timeouts", "scan", "run"} /\ pc' \in {"iter", "stopped", "scan", "run"}
  BY DEF timeouts_done, scan_queues, queue_drained, LeaveLoop, EndProcess, QueueDone, qvars, cbvars, ctl
<1>1. CInv' /\ (QuietInv => QuietInv')
  <2>1. todo = {}
    BY <1>0, TodoElsewhere
  <2> QED BY <1>0, <2>1, MoveKeeps DEF InCallback
<1>2. ASSUME UrgentInv PROVE UrgentInv'
  <2>0. /\ event_running_priority \in Int /\ \A e \in Events : Pri[e] \in Nat /\ Pri[e] \in Priorities
        /\ ~event_continue'
    BY <1>0, <1>2, ConstantsAssumption DEF IInv, RestTyped, Callbacks, Priorities, UrgentInv
  <2>1. CASE timeouts_done
    <3>1. CASE pc' = "scan" /\ event_running_priority' = 0
      <4>1. ~UrgentActive'
        BY <1>0, <2>0, <3>1 DEF UrgentActive
      <4> QED BY <2>0, <3>1, <4>1 DEF UrgentInv, InCallback
    <3>2. CASE UNCHANGED event_running_priority /\ pc' \in {"iter", "stopped"}
      BY <1>0, <1>2, <2>0, <2>1, <3>2 DEF timeouts_done, UrgentInv, InCallback
    <3> QED BY <2>1, <3>1, <3>2 DEF timeouts_done, LeaveLoop
  <2>2. CASE scan_queues
    <3>1. CASE \E i \in Priorities : i >= event_running_priority /\ NonEmpty(i)
      <4> DEFINE p == CHOOSE i \in Priorities :
               /\ i >= event_running_priority /\ NonEmpty(i)
               /\ \A j \in Priorities : j >= event_running_priority /\ NonEmpty(j) => i =< j
      <4>1. event_running_priority' = p /\ pc' = "run" /\ count' = 0 /\ pc = "scan"
        BY <2>2, <3>1, Zenon DEF scan_queues
      <4>2. /\ p \in Priorities
            /\ \A j \in Priorities : j >= event_running_priority /\ NonEmpty(j) => p =< j
        BY <3>1, FirstNonEmpty
      <4> HIDE DEF p
      <4>3. ASSUME NEW e \in Events, "ACTIVE" \in q.flags[e] PROVE Pri[e] >= p
        <5>1. Pri[e] >= event_running_priority
          BY <1>2, <2>0, <4>1, <4>3 DEF UrgentInv, UrgentActive
        <5>2. NonEmpty(Pri[e])
          BY <2>0, <4>3, EmptyQueue DEF NonEmpty
        <5> QED BY <2>0, <4>2, <5>1, <5>2
      <4>4. ~UrgentActive'
        BY <1>0, <2>0, <4>1, <4>2, <4>3 DEF UrgentActive, Priorities
      <4> QED BY <2>0, <4>1, <4>4 DEF UrgentInv, InCallback
    <3>2. CASE ~\E i \in Priorities : i >= event_running_priority /\ NonEmpty(i)
      <4>1. EndProcess(q, 0)
        BY <2>2, <3>2 DEF scan_queues
      <4> QED BY <1>2, <4>1, EndProcessUrgent
    <3> QED BY <3>1, <3>2
  <2>3. CASE queue_drained
    <3>1. CASE count > 0
      BY <1>2, <2>3, <3>1, EndProcessUrgent DEF queue_drained, QueueDone
    <3>2. CASE ~(count > 0)
      <4>1. /\ pc = "run" /\ pc' = "scan" /\ event_running_priority' = event_running_priority + 1
            /\ q.active[event_running_priority] = <<>> /\ event_running_priority \in Priorities
        BY <2>3, <3>2 DEF queue_drained, QueueDone, IInv, PriorityInRange
      <4>2. ASSUME NEW e \in Events, "ACTIVE" \in q.flags[e]
            PROVE  Pri[e] >= event_running_priority /\ Pri[e] # event_running_priority
        BY <1>2, <2>0, <4>1, <4>2, EmptyQueue DEF UrgentInv, UrgentActive
      <4>3. ~UrgentActive'
        BY <1>0, <2>0, <4>1, <4>2 DEF UrgentActive
      <4> QED BY <2>0, <4>1, <4>3 DEF UrgentInv, InCallback
    <3> QED BY <3>1, <3>2
  <2> QED BY <2>1, <2>2, <2>3
<1> QED BY <1>1, <1>2 DEF Keeps

LEMMA DrainKeeps ==
  ASSUME IInv, CInv, drain_read \/ drain_clear
  PROVE  Keeps
<1>1. /\ q' = q /\ UNCHANGED <<ev_io_timeout, cbvars, thr, history, todo, ctl>>
      /\ UNCHANGED <<event_running_priority, count>>
      /\ pc \in {"drain", "drained"} /\ pc' \in {"drained", "callback"}
  BY DEF drain_read, drain_clear, qvars
<1>2. CInv' /\ (QuietInv => QuietInv')
  <2>1. todo = {}
    BY <1>1, TodoElsewhere
  <2> QED BY <1>1, <2>1, MoveKeeps DEF InCallback, cbvars
<1>3. UrgentInv => UrgentInv'
  BY <1>1 DEF UrgentInv, UrgentActive, InCallback, ctl
<1> QED BY <1>2, <1>3 DEF Keeps

LEMMA ReturnFromCallbackKeeps ==
  ASSUME IInv, CInv, callback_return
  PROVE  Keeps
<1>0. /\ q' = q /\ UNCHANGED <<ev_io_timeout, history, todo, event_continue>>
      /\ pc = "callback" /\ pc' \in {"iter", "stopped", "scan", "run"}
      /\ exec' = NoExec /\ current_event' = None
  BY DEF callback_return, LeaveLoop, EndProcess, QueueDone, qvars
<1>1. ExecInv'
  <2>1. todo' = {}
    BY <1>0, TodoElsewhere
  <2> QED BY <1>0, <2>1 DEF CInv, ExecInv, InCallback, NoExec
<1>2. FinalInv'
  <2>1. \A c \in Events \cup Deferreds : c # None
    BY ConstantFacts
  <2> QED BY <1>0, <2>1 DEF CInv, FinalInv, history
<1>3. TimedInv'
  BY <1>0 DEF CInv, TimedInv, history
<1>4. ASSUME QuietInv PROVE QuietInv'
  <2>1. \A u \in Threads : \A e \in quiet[u] : e # None
    BY ConstantFacts DEF IInv, RestTyped
  <2> QED BY <1>0, <1>4, <2>1 DEF QuietInv, NoExec, history
<1>5. ASSUME UrgentInv PROVE UrgentInv'
  <2>1. CASE event_break
    BY <1>5, <2>1, EndProcessUrgent DEF callback_return
  <2>2. CASE ~event_break /\ count >= MaxToProcess
    BY <1>5, <2>2, EndProcessUrgent DEF callback_return
  <2>3. CASE ~event_break /\ ~(count >= MaxToProcess) /\ event_continue
    <3>1. count # 0
      BY <1>0, <1>5, <2>3 DEF UrgentInv, InCallback
    <3>2. count > 0
      BY <3>1 DEF IInv, RestTyped
    <3> QED BY <1>5, <2>3, <3>2, EndProcessUrgent DEF callback_return, QueueDone
  <2>4. CASE ~event_break /\ ~(count >= MaxToProcess) /\ ~event_continue
    <3>1. pc' = "run" /\ UNCHANGED <<event_running_priority, count>>
      BY <2>4 DEF callback_return
    <3>2. ~UrgentActive
      BY <1>0, <1>5, <2>4 DEF UrgentInv, InCallback
    <3> QED BY <1>0, <2>4, <3>1, <3>2 DEF UrgentInv, UrgentActive, InCallback
  <2> QED BY <2>1, <2>2, <2>3, <2>4
<1> QED BY <1>1, <1>2, <1>3, <1>4, <1>5 DEF Keeps, CInv


\* A callback c of the queue that is being run starts: it was active, so no thread has
\* it deleted; its own flags change, and its own history.
LEMMA StartKeeps ==
  ASSUME IInv, CInv, NEW c, NEW b, NEW fin \in BOOLEAN, StartCallback(c, b, fin),
         \A d \in Callbacks \ {c} : b.flags[d] = q.flags[d],
         \A d \in Events \ {c} : armed'[d] = armed[d], ev_io_timeout' = ev_io_timeout,
         \A d \in (Events \cup Deferreds) \ {c} : finruns'[d] = finruns[d],
         c \in Events \cup Deferreds =>
           FinalOK(b.flags[c], finruns'[c]) /\ (finruns'[c] # 0 => finruns[c] # 0 \/ fin),
         c \in Events => TimedOK(c, b.flags[c], armed'[c], ev_io_timeout[c]),
         c \in Deferreds => b.flags[c] \cap {"INSERTED", "TIMEOUT"} = {}
  PROVE  Keeps
<1>0. /\ c \in Callbacks /\ "ACTIVE" \in q.flags[c] /\ Pri[c] = event_running_priority
      /\ c # None
  BY HeadIsActive, ConstantFacts
<1>1. /\ q' = b /\ pc = "run" /\ pc' \in {"callback", "drain"} /\ (pc' = "drain" <=> c = Notify)
      /\ exec' = [cb |-> c, fin |-> fin] /\ current_event' = IF fin THEN None ELSE c
      /\ UNCHANGED <<todo, thr, quiet, ctl, event_running_priority>>
      /\ (fin <=> "FINALIZING" \in q.flags[c])
  BY DEF StartCallback
<1>2. ExecInv'
  <2>1. todo' = {}
    BY <1>1, TodoElsewhere
  <2>2. \A d \in Deferreds : q'.flags[d] \cap {"INSERTED", "TIMEOUT"} = {}
    BY <1>1, ConstantFacts DEF CInv, ExecInv
  <2> QED BY <1>0, <1>1, <2>1, <2>2 DEF ExecInv, InCallback
<1>3. FinalInv'
  <2>1. SUFFICES ASSUME NEW d \in Events \cup Deferreds
                 PROVE  /\ FinalOK(q'.flags[d], finruns'[d])
                        /\ finruns'[d] # 0 => current_event' # d
    BY DEF FinalInv
  <2>2. d # None /\ d \in Callbacks
    BY ConstantFacts
  <2>3. CASE d = c
    <3>1. finruns'[d] # 0 => fin
      BY <1>1, <2>3, FinalFacts
    <3> QED BY <1>1, <2>2, <2>3, <3>1
  <2>4. CASE d # c
    BY <1>1, <2>2, <2>4 DEF CInv, FinalInv
  <2> QED BY <2>3, <2>4
<1>4. TimedInv'
  BY <1>1, ConstantFacts DEF CInv, TimedInv
<1>5. ASSUME QuietInv PROVE QuietInv'
  <2>1. \A u \in Threads : \A e \in quiet[u] : e # c /\ e \in Callbacks
    BY <1>0, <1>5, ConstantFacts DEF QuietInv, ListFlags, IInv, RestTyped
  <2>2. \A u \in Threads : \A e \in quiet[u] : q'.flags[e] = q.flags[e]
    BY <1>1, <2>1
  <2>3. \A u \in Threads : \A e \in quiet[u] : exec' # [cb |-> e, fin |-> FALSE]
    BY <1>1, <2>1
  <2>4. quiet' = quiet
    BY <1>1
  <2> QED BY <1>5, <2>2, <2>3, <2>4, ZenonT(40) DEF QuietInv
<1>6. ASSUME UrgentInv PROVE UrgentInv'
  <2>1. ~UrgentActive /\ ~event_continue /\ ~event_continue'
    BY <1>1, <1>6 DEF UrgentInv, ctl
  <2>2. ~UrgentActive'
    <3>1. Pri[c] \in Int
      BY <1>0, ConstantsAssumption DEF Priorities
    <3>2. ~(Pri[c] < event_running_priority)
      BY <1>0, <3>1
    <3> QED BY <1>0, <1>1, <2>1, <3>2, ConstantFacts DEF UrgentActive
  <2>3. count' = 0 => c = Notify
    <3>1. count' = IF count < MaxDispatch THEN count + Counted(c) ELSE count
      BY DEF StartCallback
    <3>2. count \in Nat /\ MaxDispatch \in Nat /\ MaxDispatch > 0
      BY ConstantsAssumption DEF IInv, RestTyped
    <3> QED BY <3>1, <3>2 DEF Counted
  <2>4. c = Notify => event_running_priority = 0
    BY <1>0, ConstantsAssumption
  <2> QED BY <1>1, <2>1, <2>2, <2>3, <2>4 DEF UrgentInv, InCallback
<1> QED BY <1>2, <1>3, <1>4, <1>5, <1>6 DEF Keeps, CInv

\* The flags of a callback that starts and is removed from its queue.
LEMMA RemovedFlags ==
  ASSUME IInv, CInv, NEW c \in Callbacks, NEW b, NEW fin, StartCallback(c, b, fin)
  PROVE  LET r == event_queue_remove_active(q, c)
         IN /\ BaseOK(r) /\ \A d \in Callbacks \ {c} : r.flags[d] = q.flags[d]
            /\ r.flags[c] = q.flags[c] \ {"ACTIVE"}
<1>1. BaseOK(event_queue_remove_active(q, c))
      /\ event_queue_remove_active(q, c).flags = [q.flags EXCEPT ![c] = @ \ {"ACTIVE"}]
  BY HeadIsActive
<1>2. q.flags \in [Callbacks -> SUBSET Flags]
  BY DEF IInv, BaseOK, BaseRec
<1> QED BY <1>1, <1>2

LEMMA RunEventKeeps ==
  ASSUME IInv, CInv, NEW e \in Events, run_event(e)
  PROVE  Keeps
<1>0. /\ StartCallback(e, event_del_nolock_(q, e), FALSE) /\ e \in Callbacks /\ e \notin Deferreds
      /\ "FINALIZING" \notin q.flags[e] /\ q.flags \in [Callbacks -> SUBSET Flags]
      /\ armed' = [armed EXCEPT ![e] = "no"] /\ UNCHANGED <<ev_io_timeout, finruns>>
  BY ConstantsAssumption DEF Callbacks, run_event, StartCallback, IInv, BaseOK, BaseRec
<1> DEFINE b == event_del_nolock_(q, e)
<1>1. b.flags = [q.flags EXCEPT ![e] = @ \ ListFlags]
  BY <1>0, DelEvent DEF IInv
<1>2. StartCallback(e, b, FALSE)
  BY <1>0
<1> HIDE DEF b
<1>3. /\ \A d \in Callbacks \ {e} : b.flags[d] = q.flags[d]
      /\ "FINALIZING" \notin b.flags[e]
  BY <1>0, <1>1
<1>4. FinalOK(b.flags[e], finruns'[e]) /\ finruns'[e] = 0
  BY <1>0, <1>3, FinalFacts DEF FinalOK
<1>5. /\ \A d \in Events \ {e} : armed'[d] = armed[d]
      /\ TimedOK(e, b.flags[e], armed'[e], ev_io_timeout[e])
  BY <1>0, <1>3 DEF TimedOK, IInv, RestTyped
<1> QED BY <1>0, <1>2, <1>3, <1>4, <1>5, StartKeeps

LEMMA RunCallbackKeeps ==
  ASSUME IInv, CInv, NEW c \in Deferreds \cup {Notify}, run_callback(c)
  PROVE  Keeps
<1> DEFINE b == event_queue_remove_active(q, c)
<1>0. /\ StartCallback(c, b, FALSE) /\ c \in Callbacks /\ c \notin Events
      /\ UNCHANGED <<ev_io_timeout, armed, finruns>>
  BY ConstantsAssumption DEF Callbacks, run_callback
<1>1. "FINALIZING" \notin q.flags[c]
  BY <1>0 DEF StartCallback
<1>2. /\ \A d \in Callbacks \ {c} : b.flags[d] = q.flags[d]
      /\ b.flags[c] = q.flags[c] \ {"ACTIVE"}
  BY <1>0, RemovedFlags
<1> HIDE DEF b
<1>3. c \in Deferreds => FinalOK(b.flags[c], finruns'[c]) /\ finruns'[c] = 0
  BY <1>0, <1>1, <1>2, FinalFacts DEF FinalOK
<1>4. c \in Deferreds => b.flags[c] \cap {"INSERTED", "TIMEOUT"} = {}
  BY <1>2 DEF CInv, ExecInv
<1> QED BY <1>0, <1>2, <1>3, <1>4, StartKeeps

LEMMA RunFinalizerKeeps ==
  ASSUME IInv, CInv, NEW c \in Events \cup Deferreds, run_finalizer(c)
  PROVE  Keeps
<1> DEFINE b == event_queue_remove_active(q, c)
<1>0. /\ StartCallback(c, b, TRUE) /\ c \in Callbacks /\ "FINALIZING" \in q.flags[c]
      /\ finruns' = [finruns EXCEPT ![c] = IF @ < 2 THEN @ + 1 ELSE @]
      /\ UNCHANGED <<ev_io_timeout, armed>>
  BY ConstantFacts DEF run_finalizer, StartCallback
<1>1. "ACTIVE" \in q.flags[c]
  BY <1>0, HeadIsActive
<1>2. /\ \A d \in Callbacks \ {c} : b.flags[d] = q.flags[d]
      /\ b.flags[c] = q.flags[c] \ {"ACTIVE"}
  BY <1>0, RemovedFlags
<1> HIDE DEF b
<1>3. FinalOK(q.flags[c], finruns[c])
  BY DEF CInv, FinalInv
<1>4. finruns[c] = 0 /\ q.flags[c] \cap ListFlags = {"ACTIVE"}
  BY <1>0, <1>1, <1>3 DEF FinalOK, ListFlags
<1>5. /\ finruns'[c] = 1 /\ \A d \in (Events \cup Deferreds) \ {c} : finruns'[d] = finruns[d]
  BY <1>0, <1>4 DEF IInv, RestTyped
<1>6. b.flags[c] \cap ListFlags = {} /\ "FINALIZING" \in b.flags[c]
  BY <1>0, <1>2, <1>4
<1>7. FinalOK(b.flags[c], finruns'[c])
  BY <1>5, <1>6 DEF FinalOK
<1>8. c \in Events => TimedOK(c, b.flags[c], armed'[c], ev_io_timeout[c])
  <2>1. c \in Events => armed[c] = "no"
    BY <1>0 DEF CInv, TimedInv, TimedOK
  <2> QED BY <1>0, <2>1 DEF TimedOK
<1>9. b.flags[c] \cap {"INSERTED", "TIMEOUT"} = {}
  BY <1>6 DEF ListFlags
<1> QED BY <1>0, <1>2, <1>5, <1>7, <1>8, <1>9, StartKeeps

LEMMA RunPersistKeeps ==
  ASSUME IInv, CInv, NEW e \in Events, run_persist(e)
  PROVE  Keeps
<1> DEFINE b == event_queue_remove_active(q, e)
           b2 == event_add_nolock_(b, e, NextRun(e))
<1>0. /\ e \in Persist /\ e \in Callbacks /\ e \notin Deferreds
      /\ UNCHANGED <<ev_io_timeout, finruns>> /\ \A d \in Events \ {e} : armed'[d] = armed[d]
      /\ \/ StartCallback(e, b, FALSE) /\ ev_io_timeout[e] = 0 /\ armed' = armed
         \/ /\ StartCallback(e, b, FALSE) /\ NeedsEvmapAdd(b, e)
            /\ armed'[e] = IF armed[e] = "timed" THEN "refused" ELSE armed[e]
         \/ /\ StartCallback(e, b2, FALSE) /\ ev_io_timeout[e] # 0
            /\ armed'[e] = IF armed[e] = "refused" THEN "timed" ELSE armed[e]
  <2>1. armed \in [Events -> {"no", "untimed", "timed", "refused"}] /\ e \in Callbacks /\ e \notin Deferreds
    BY ConstantsAssumption DEF Callbacks, IInv, RestTyped
  <2>2. /\ e \in Persist /\ UNCHANGED <<ev_io_timeout, finruns>>
        /\ \/ StartCallback(e, b, FALSE) /\ ev_io_timeout[e] = 0 /\ armed' = armed
           \/ /\ StartCallback(e, b, FALSE) /\ NeedsEvmapAdd(b, e)
              /\ armed' = [armed EXCEPT ![e] = IF @ = "timed" THEN "refused" ELSE @]
           \/ /\ StartCallback(e, b2, FALSE) /\ ev_io_timeout[e] # 0
              /\ armed' = [armed EXCEPT ![e] = IF @ = "refused" THEN "timed" ELSE @]
    BY DEF run_persist
  <2> HIDE DEF b, b2
  <2> QED BY <2>1, <2>2
<1>1. "FINALIZING" \notin q.flags[e]
  BY <1>0 DEF StartCallback
<1>2. /\ BaseOK(b) /\ \A d \in Callbacks \ {e} : b.flags[d] = q.flags[d]
      /\ b.flags[e] = q.flags[e] \ {"ACTIVE"}
  BY <1>0, RemovedFlags
<1>3. NextRun(e) \in Nat
  <2>1. q.timeout[e] \in Nat /\ gettime \in Nat
    BY GetTimeIsNat DEF IInv, BaseOK, BaseRec
  <2>2. ev_io_timeout[e] \in Nat
    <3>1. ev_io_timeout[e] \in Delays \cup {0}
      BY DEF IInv, RestTyped
    <3>2. \A x \in Delays \cup {0} : x \in Nat
      BY ConstantFacts
    <3> QED BY <3>1, <3>2, Zenon
  <2> QED BY <2>1, <2>2 DEF NextRun
<1> HIDE DEF b
<1>4. /\ \A d \in Callbacks \ {e} : b2.flags[d] = b.flags[d]
      /\ "FINALIZING" \in b2.flags[e] <=> "FINALIZING" \in b.flags[e]
      /\ "TIMEOUT" \in b2.flags[e]
  <2>1. NextRun(e) # Forever /\ NextRun(e) \in Nat \cup {Forever}
    BY <1>3 DEF Forever
  <2> QED BY <1>2, <2>1, AddEvent
<1> HIDE DEF b2
<1>5. TimedOK(e, q.flags[e], armed[e], ev_io_timeout[e])
  BY DEF CInv, TimedInv
<1>6. CASE \/ StartCallback(e, b, FALSE) /\ ev_io_timeout[e] = 0 /\ armed' = armed
           \/ /\ StartCallback(e, b, FALSE) /\ NeedsEvmapAdd(b, e)
              /\ armed'[e] = IF armed[e] = "timed" THEN "refused" ELSE armed[e]
  <2>1. FinalOK(b.flags[e], finruns'[e]) /\ finruns'[e] = 0
    BY <1>0, <1>1, <1>2, FinalFacts DEF FinalOK
  <2>2. TimedOK(e, b.flags[e], armed'[e], ev_io_timeout[e])
    BY <1>0, <1>1, <1>2, <1>5, <1>6 DEF TimedOK, NeedsEvmapAdd
  <2> QED BY <1>0, <1>2, <1>6, <2>1, <2>2, StartKeeps
<1>7. CASE /\ StartCallback(e, b2, FALSE) /\ ev_io_timeout[e] # 0
           /\ armed'[e] = IF armed[e] = "refused" THEN "timed" ELSE armed[e]
  <2>1. FinalOK(b2.flags[e], finruns'[e]) /\ finruns'[e] = 0
    BY <1>0, <1>1, <1>2, <1>4, FinalFacts DEF FinalOK
  <2>2. TimedOK(e, b2.flags[e], armed'[e], ev_io_timeout[e])
    BY <1>0, <1>1, <1>2, <1>4, <1>5, <1>7 DEF TimedOK
  <2>3. \A d \in Callbacks \ {e} : b2.flags[d] = q.flags[d]
    BY <1>2, <1>4
  <2> QED BY <1>0, <1>7, <2>1, <2>2, <2>3, StartKeeps
<1> QED BY <1>0, <1>6, <1>7

------------------------------------------------------------------------------
(* Every step.                                                             *)

LEMMA LoopStepKeeps ==
  ASSUME IInv, CInv,
         \/ LoopStep \/ loop_start \/ wait_interrupted \/ wait_error \/ Tick \/ UNCHANGED vars
         \/ \E fds \in SUBSET Fds : wait_ready(fds)
  PROVE  Keeps
BY OuterLoopKeeps, MakeLaterKeeps, DispatchKeeps, TimeoutKeeps, ScanKeeps, RunEventKeeps,
   RunCallbackKeeps, RunPersistKeeps, RunFinalizerKeeps, DrainKeeps, ReturnFromCallbackKeeps, TickKeeps
   DEF LoopStep

LEMMA ApiCallKeeps ==
  ASSUME IInv, CInv, NEW t \in Threads \cup {Loop}, ApiCall(t)
  PROVE  CInv' /\ (QuietInv => QuietInv') /\ ("continue" \notin Ops /\ UrgentInv => UrgentInv')
<1>1. CASE event_base_loopbreak(t) \/ event_base_loopcontinue(t)
  BY <1>1, LoopControlKeeps
<1>2. CASE ~(event_base_loopbreak(t) \/ event_base_loopcontinue(t))
  <2>1. Keeps
    BY <1>2, AddKeeps, DelKeeps, RemoveTimerKeeps, ActiveKeeps, ActiveLaterKeeps, FinalizeKeeps,
       ScheduleKeeps, CallbackFinalizeKeeps, AssignKeeps, LoopExitKeeps, VirtualKeeps DEF ApiCall
  <2> QED BY <2>1 DEF Keeps
<1> QED BY <1>1, <1>2

LEMMA StepKeeps ==
  ASSUME IInv, CInv, [Next]_vars
  PROVE  /\ CInv'
         /\ ~Spurious /\ QuietInv => QuietInv'
         /\ "continue" \notin Ops /\ UrgentInv => UrgentInv'
<1>1. CASE \/ LoopStep \/ loop_start \/ wait_interrupted \/ wait_error \/ Tick \/ UNCHANGED vars
           \/ \E fds \in SUBSET Fds : wait_ready(fds)
  BY <1>1, LoopStepKeeps DEF Keeps
<1>2. CASE \E t \in Threads \cup {Loop} : ApiCall(t)
  BY <1>2, ApiCallKeeps
<1>3. CASE \E t \in Threads : SpuriousWakeup(t)
  BY <1>3, SpuriousKeeps
<1>4. CASE \E t \in Threads : event_del_return(t)
  BY <1>4, ReturnKeeps DEF Keeps
<1> QED BY <1>1, <1>2, <1>3, <1>4 DEF Next


\* No API call starts a callback.
LEMMA ApiLeavesExec ==
  ASSUME NEW t, ApiCall(t)
  PROVE  exec' = exec
<1>1. ASSUME NEW e, NEW tv, event_add(t, e, tv) PROVE exec' = exec
  BY <1>1 DEF event_add, cbvars
<1>2. ASSUME NEW e, NEW m, event_del(t, e, m) PROVE exec' = exec
  BY <1>2 DEF event_del
<1>3. ASSUME NEW e, event_remove_timer(t, e) \/ event_finalize(t, e) PROVE exec' = exec
  BY <1>3 DEF event_remove_timer, event_finalize, cbvars
<1>4. ASSUME NEW e, NEW res, event_active(t, e, res) \/ event_active_later_(t, e, res)
      PROVE  exec' = exec
  BY <1>4 DEF event_active, event_active_later_, cbvars
<1>5. ASSUME NEW d, \/ event_deferred_cb_schedule_(t, d) \/ event_deferred_cb_cancel_(t, d)
                    \/ event_callback_finalize_(t, d) \/ event_assign(t, d)
      PROVE  exec' = exec
  BY <1>5 DEF event_deferred_cb_schedule_, event_deferred_cb_cancel_, event_callback_finalize_,
              event_assign, cbvars
<1>6. ASSUME \/ event_base_loopbreak(t) \/ event_base_loopcontinue(t)
             \/ event_base_add_virtual_(t) \/ event_base_del_virtual_(t)
      PROVE  exec' = exec
  BY <1>6 DEF event_base_loopbreak, event_base_loopcontinue, event_base_add_virtual_,
              event_base_del_virtual_, cbvars
<1>7. ASSUME NEW x, NEW tv, event_base_loopexit(t, x, tv) PROVE exec' = exec
  BY <1>7 DEF event_base_loopexit, cbvars
<1> QED BY <1>1, <1>2, <1>3, <1>4, <1>5, <1>6, <1>7 DEF ApiCall

LEMMA CallbackInvariant == Spec => []CInv
<1>1. IInv /\ CInv /\ [Next]_vars => CInv'
  BY StepKeeps
<1> QED BY <1>1, InitCInv, InvariantHolds, PTL DEF Spec

\* event_del and event_del_block in another thread keep their promise: when they have
\* returned, the event is on no list and its callback does not run, however the threads
\* and the loop interleave.  EVTHREAD_COND_WAIT is called once and not in a loop
\* (event.c:2893), so condition variables must not wake up spuriously.
THEOREM DeletedEventsStayQuiet ==
  ASSUME ~Spurious
  PROVE  Spec => []DeletedEventsAreQuiet
<1>1. IInv /\ CInv /\ QuietInv /\ [Next]_vars => QuietInv'
  BY StepKeeps
<1>2. Init => QuietInv
  BY InitCInv
<1>3. Spec => []QuietInv
  BY <1>1, <1>2, InvariantHolds, CallbackInvariant, PTL DEF Spec
<1>4. QuietInv => DeletedEventsAreQuiet
  BY QuietInvImplies
<1> QED BY <1>3, <1>4, PTL

\* event_finalize and event_callback_finalize_: the finalizer is queued once, runs once,
\* and when it has run neither a list, nor the loop over ready descriptors, nor
\* current_event refers to the callback, so that it may free the memory.
THEOREM FinalizersRunOnceAndLast == Spec => []FinalizerRunsOnceAndLast
<1>1. IInv /\ CInv => FinalizerRunsOnceAndLast
  BY FinalInvImplies
<1> QED BY <1>1, InvariantHolds, CallbackInvariant, PTL

\* event_persist_closure schedules a persistent event with an interval again, timer or
\* I/O event, also when it was activated by hand, was late, or was added again while
\* active; only an evmap_io_add_ that fails there ends it, and then as unregistered.
THEOREM PersistentTimersStayScheduled == Spec => []PersistentTimerStaysScheduled
<1>1. CInv => PersistentTimerStaysScheduled
  BY TimedInvImplies
<1> QED BY <1>1, CallbackInvariant, PTL

\* event_process_active starts no callback while an event of higher priority is active,
\* for any number of priorities and any limit on callbacks, if nobody calls
\* event_base_loopcontinue (see the README for what happens if somebody does).
THEOREM UrgentEventsGoFirst ==
  ASSUME "continue" \notin Ops
  PROVE  Spec => PriorityRespected
<1> DEFINE Respects == exec = NoExec /\ exec' # NoExec =>
             \A e \in Events : "ACTIVE" \in q.flags[e] => Pri[e] >= Pri[exec'.cb]
<1>1. IInv /\ CInv /\ UrgentInv /\ [Next]_vars => UrgentInv'
  BY StepKeeps
<1>2. Init => UrgentInv
  BY InitCInv
<1>3. Spec => []UrgentInv
  BY <1>1, <1>2, InvariantHolds, CallbackInvariant, PTL DEF Spec
<1>4. IInv /\ UrgentInv /\ [Next]_vars => [Respects]_vars
  <2> SUFFICES ASSUME IInv, UrgentInv, Next, exec = NoExec, exec' # NoExec,
                      NEW e \in Events, "ACTIVE" \in q.flags[e]
               PROVE  Pri[e] >= Pri[exec'.cb]
    OBVIOUS
  <2>1. \E c, b, fin : StartCallback(c, b, fin)
    <3>1. exec' # exec
      OBVIOUS
    <3>2. \/ callback_return
          \/ \E f \in Events : run_event(f) \/ run_persist(f)
          \/ \E c \in Deferreds \cup {Notify} : run_callback(c)
          \/ \E c \in Events \cup Deferreds : run_finalizer(c)
      <4>1. CASE \/ LoopStep \/ loop_start \/ wait_interrupted \/ wait_error \/ Tick
                 \/ \E fds \in SUBSET Fds : wait_ready(fds)
        BY <3>1, <4>1 DEF LoopStep, loop_exit, loop_wait, make_later_active, dispatch_enter,
           wait_ready, wait_notified, wait_timeout, LeavePoll, dispatch_locked, dispatch_activate, dispatch_leave,
           timeout_process, timeouts_done, scan_queues, queue_drained, drain_read, drain_clear,
           loop_start, wait_interrupted, wait_error, Tick, cbvars
      <4>2. CASE \E t \in Threads \cup {Loop} : ApiCall(t)
        BY <3>1, <4>2, ApiLeavesExec
      <4>3. CASE \E t \in Threads : SpuriousWakeup(t) \/ event_del_return(t)
        BY <3>1, <4>3 DEF SpuriousWakeup, event_del_return, cbvars
      <4> QED BY <4>1, <4>2, <4>3 DEF Next
    <3>3. ~callback_return
      BY DEF callback_return
    <3> QED BY <3>2, <3>3 DEF run_event, run_persist, run_callback, run_finalizer
  <2>2. PICK c, b, fin : StartCallback(c, b, fin)
    BY <2>1
  <2>3. c \in Callbacks /\ Pri[c] = event_running_priority /\ exec'.cb = c /\ pc = "run"
    <3>1. exec' = [cb |-> c, fin |-> fin] /\ pc = "run"
      BY <2>2 DEF StartCallback
    <3>2. c \in Callbacks /\ Pri[c] = event_running_priority
      BY <2>2, HeadIsActive
    <3> QED BY <3>1, <3>2
  <2>4. Pri[e] \in Int /\ Pri[c] \in Int
    BY <2>3, ConstantsAssumption, ConstantFacts DEF Priorities
  <2> QED BY <2>3, <2>4 DEF UrgentInv, UrgentActive
<1> QED BY <1>3, <1>4, InvariantHolds, PTL DEF Spec, PriorityRespected
=============================================================================
