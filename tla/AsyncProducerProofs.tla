------------------------ MODULE AsyncProducerProofs ------------------------
(***************************************************************************)
(* What holds of AsyncProducer for every number of triggers, every list of *)
(* payloads and rows, every limit and every way a broker may fail.         *)
(***************************************************************************)
EXTENDS AsyncProducer, FiniteSetTheorems, TLAPS

\* Updating one entry of a function of functions keeps its type.
LEMMA NestedUpdate ==
  ASSUME NEW S, NEW T, NEW V, NEW f \in [S -> [T -> V]],
         NEW s \in S, NEW t \in T, NEW v \in V
  PROVE  [f EXCEPT ![s][t] = v] \in [S -> [T -> V]]
  <1>1. [f[s] EXCEPT ![t] = v] \in [T -> V]
    OBVIOUS
  <1>2. [f EXCEPT ![s] = [f[s] EXCEPT ![t] = v]] \in [S -> [T -> V]]
    BY <1>1
  <1>. QED
    BY <1>2

LEMMA Bounds == MaxTagChanges \in Nat
  BY ProducerAssumption DEF ProducerAssumption

USE DEF Kinds, Threads, NoRow

(***************************************************************************)
(* Type correctness.                                                       *)
(***************************************************************************)
LEMMA InitType == Init => TypeOK
<1> SUFFICES ASSUME Init PROVE TypeOK
  OBVIOUS
<1>1. /\ sent \in Seq([payload : Nat \cup {NoRow}, row : Nat \cup {NoRow}])
      /\ tried \in Seq([Kinds -> Nat \cup {NoRow}])
  BY DEF Init
<1>2. tagChanges \in 0 .. MaxTagChanges
  BY ProducerAssumption DEF ProducerAssumption, Init
<1>3. limit \in Nat \cup {NoLimit}
  BY ProducerAssumption DEF ProducerAssumption, Init
<1>4. item \in [Threads -> [Kinds -> Nat \cup {NoRow}]]
  BY DEF Init
<1>5. /\ iteration \in [Kinds -> Nat]
      /\ locked \in [Kinds -> BOOLEAN]
      /\ produced \in [Threads -> Nat]
      /\ pc \in [Threads -> Labels]
  BY DEF Init, Labels
<1>. QED
  BY <1>1, <1>2, <1>3, <1>4, <1>5 DEF Init, TypeOK

\* What GoTo leaves of the threads' state is well typed.
LEMMA GoToType ==
  ASSUME TypeOK, NEW t \in Threads, NEW label \in Labels, GoTo(t, label)
  PROVE  /\ pc' \in [Threads -> Labels]
         /\ kind' \in [Threads -> Kinds]
         /\ searching' \in [Threads -> BOOLEAN]
         /\ item' \in [Threads -> [Kinds -> Nat \cup {NoRow}]]
         /\ tmp' \in [Threads -> Nat]
  BY DEF GoTo, TypeOK

\* And so is what StartProduce leaves of it.
LEMMA StartProduceType ==
  ASSUME TypeOK, NEW t \in Threads, StartProduce(t), UNCHANGED tmp
  PROVE  /\ pc' \in [Threads -> Labels]
         /\ kind' \in [Threads -> Kinds]
         /\ searching' \in [Threads -> BOOLEAN]
         /\ item' \in [Threads -> [Kinds -> Nat \cup {NoRow}]]
         /\ tmp' \in [Threads -> Nat]
  BY DEF StartProduce, TypeOK, Labels

LEMMA NextType == TypeOK /\ [Next]_vars => TypeOK'
<1> SUFFICES ASSUME TypeOK, [Next]_vars PROVE TypeOK'
  OBVIOUS
<1> USE DEF shared, history, Rest
<1>1. CASE LoopTop
  <2>1. CASE GoTo(Loop, "done")
    BY <1>1, <2>1, GoToType DEF LoopTop, TypeOK, Labels
  <2>2. CASE StartProduce(Loop) /\ UNCHANGED tmp
    BY <1>1, <2>2, StartProduceType DEF LoopTop, TypeOK
  <2>. QED
    BY <1>1, <2>1, <2>2 DEF LoopTop
<1>2. CASE LoopCount
  <2>1. limit' \in Nat \cup {NoLimit}
    BY <1>2 DEF LoopCount, LimitAfter, TypeOK
  <2>. QED
    BY <1>2, <2>1, GoToType DEF LoopCount, TypeOK, Labels
<1>3. ASSUME NEW t \in Callers, TriggerByRequest(t) \/ TriggerByConsumer(t)
      PROVE  TypeOK'
  <2>1. PICK refused \in BOOLEAN : Trigger(t, refused)
    <3>1. (NoneActive("payload") \/ LoopEnd) \in BOOLEAN /\ LoopEnd \in BOOLEAN
      BY DEF NoneActive, LoopEnd, TypeOK
    <3>. QED
      BY <1>3, <3>1 DEF TriggerByRequest, TriggerByConsumer
  <2>2. CASE GoTo(t, "refused")
    BY <2>1, <2>2, GoToType DEF Trigger, TypeOK, Labels
  <2>3. CASE StartProduce(t) /\ UNCHANGED tmp
    BY <2>1, <2>3, StartProduceType DEF Trigger, TypeOK
  <2>. QED
    BY <2>1, <2>2, <2>3 DEF Trigger
<1>4. ASSUME NEW t \in Threads, Produce(t) PROVE TypeOK'
  <2>0. Hand(t) => tried' \in Seq([Kinds -> Nat \cup {NoRow}])
    <3>1. item[t] \in [Kinds -> Nat \cup {NoRow}]
      BY DEF TypeOK
    <3>. QED
      BY <3>1 DEF Hand, TypeOK
  <2>1. CASE ReadCurrent(t)
    <3>1. CASE GoTo(t, "dead")
      BY <2>1, <3>1, GoToType DEF ReadCurrent, TypeOK, Labels
    <3>2. CASE iteration[kind[t]] \in 0 .. LastIndex(kind[t])
      <4>1. kind[t] \in Kinds /\ iteration[kind[t]] \in Nat
        BY DEF TypeOK
      <4>2. item' \in [Threads -> [Kinds -> Nat \cup {NoRow}]]
        <5>1. item' = [item EXCEPT ![t][kind[t]] = iteration[kind[t]]]
          BY <2>1, <3>2 DEF ReadCurrent
        <5>2. item \in [Threads -> [Kinds -> Nat \cup {NoRow}]]
          BY DEF TypeOK
        <5>. HIDE DEF Kinds, Threads, NoRow
        <5>3. [item EXCEPT ![t][kind[t]] = iteration[kind[t]]]
                \in [Threads -> [Kinds -> Nat \cup {NoRow}]]
          BY <4>1, <5>2, NestedUpdate
        <5>. QED
          BY <5>1, <5>3
      <4>. QED
        BY <2>1, <3>2, <4>2 DEF ReadCurrent, TypeOK, Labels
    <3>. QED
      BY <2>1, <3>1, <3>2 DEF ReadCurrent
  <2>2. CASE LoadIteration(t)
    BY <2>2 DEF LoadIteration, TypeOK, Labels
  <2>3. CASE StoreIteration(t)
    <3>1. kind[t] \in Kinds /\ tmp[t] + 1 \in Nat /\ iteration \in [Kinds -> Nat]
      BY DEF TypeOK
    <3>2. iteration' \in [Kinds -> Nat]
      BY <2>3, <3>1 DEF StoreIteration
    <3>. QED
      BY <2>3, <3>2, GoToType DEF StoreIteration, TypeOK, Labels
  <2>4. CASE TestEnd(t)
    BY <2>4, GoToType DEF TestEnd, TypeOK, Labels
  <2>5. CASE SetLock(t)
    BY <2>5, GoToType DEF SetLock, TypeOK, Labels
  <2>6. CASE ResetIteration(t)
    BY <2>6, GoToType DEF ResetIteration, TypeOK, Labels
  <2>7. CASE TestTag(t)
    BY <2>7 DEF TestTag, Chosen, GoTo, TypeOK, Labels
  <2>8. CASE CheckAny(t)
    <3>1. item' \in [Threads -> [Kinds -> Nat \cup {NoRow}]]
      <4>1. CASE item' = item
        BY <4>1 DEF TypeOK
      <4>2. CASE item' = [item EXCEPT ![t]["row"] = NoRow]
        <5>1. item \in [Threads -> [Kinds -> Nat \cup {NoRow}]] /\ "row" \in Kinds
          BY DEF TypeOK
        <5>. HIDE DEF Kinds, Threads, NoRow
        <5>. QED
          BY <4>2, <5>1, NestedUpdate
      <4>. QED
        BY <2>8, <4>1, <4>2 DEF CheckAny, GoTo
    <3>. QED
      BY <2>8, <3>1 DEF CheckAny, GoTo, TypeOK, Labels
  <2>9. CASE Send(t)
    <3>1. [payload |-> item[t]["payload"], row |-> item[t]["row"]]
            \in [payload : Nat \cup {NoRow}, row : Nat \cup {NoRow}]
      BY DEF TypeOK
    <3>2. sent' \in Seq([payload : Nat \cup {NoRow}, row : Nat \cup {NoRow}])
      BY <2>9, <3>1 DEF Hand, Send, TypeOK
    <3>3. produced' \in [Threads -> Nat] /\ late' \in Nat
      BY <2>9 DEF Hand, Send, TypeOK
    <3>. QED
      BY <2>9, <2>0, <3>2, <3>3, GoToType DEF Hand, Send, TypeOK, Labels
  <2>10. CASE Refused(t)
    BY <2>10, <2>0, GoToType DEF Hand, Refused, TypeOK, Labels
  <2>11. CASE Raised(t)
    BY <2>11, <2>0, GoToType DEF Raised, TypeOK, Labels
  <2>12. CASE LoadCounter(t)
    BY <2>12 DEF LoadCounter, TypeOK, Labels
  <2>13. CASE StoreCounter(t)
    <3>1. counter' \in Nat
      BY <2>13 DEF StoreCounter, TypeOK
    <3>2. \E label \in Labels : GoTo(t, label)
      BY <2>13 DEF StoreCounter, Labels
    <3>. QED
      BY <2>13, <3>1, <3>2, GoToType DEF StoreCounter, TypeOK
  <2>. QED
    BY <1>4, <2>1, <2>2, <2>3, <2>4, <2>5, <2>6, <2>7, <2>8, <2>9, <2>10,
       <2>11, <2>12, <2>13 DEF Produce
<1>5. CASE Requests
  <2>1. tagChanges' \in 0 .. MaxTagChanges
    <3>1. tagChanges \in 0 .. MaxTagChanges
      BY DEF TypeOK
    <3>2. CASE SetTags
      BY <3>1, <3>2, Bounds DEF SetTags
    <3>3. CASE ResetIterators
      BY <3>1, <3>3, Bounds DEF ResetIterators, vars
    <3>4. CASE StopLoops
      BY <3>1, <3>4 DEF StopLoops
    <3>. QED
      BY <1>5, <3>2, <3>3, <3>4 DEF Requests
  <2>. QED
    BY <1>5, <2>1 DEF Requests, SetTags, ResetIterators, StopLoops, vars, TypeOK
<1>6. CASE UNCHANGED vars
  BY <1>6 DEF vars, TypeOK
<1>. QED
  BY <1>1, <1>2, <1>3, <1>4, <1>5, <1>6 DEF Next

\* Every variable keeps its type, whatever the threads do.
THEOREM TypeCorrect == Spec => []TypeOK
  BY InitType, NextType, PTL DEF Spec
-----------------------------------------------------------------------------
(***************************************************************************)
(* An index out of range is always being repaired.  The invariant is       *)
(* inductive as it stands: the thread whose write moved the index past the *)
(* end is at the test, and leaves the repair only by resetting the index   *)
(* or by finding that another thread has written a good one.               *)
(***************************************************************************)
LEMMA ListsStart == 0 <= LastIndex("payload") /\ (Rows # <<>> => 0 <= LastIndex("row"))
                    /\ \A k \in Kinds : LastIndex(k) \in Int
  BY ProducerAssumption DEF ProducerAssumption, LastIndex, Items

LEMMA InitIndex == Init => IndexSafeAtRest
  BY ListsStart DEF Init, IndexSafeAtRest

\* A step that writes no index and takes no thread out of a repair.
LEMMA SameIndex ==
  ASSUME IndexSafeAtRest, UNCHANGED iteration,
         \A t \in Threads, k \in Kinds : Repairing(t, k) => Repairing(t, k)'
  PROVE  IndexSafeAtRest'
  BY DEF IndexSafeAtRest

LEMMA NextIndex == TypeOK /\ IndexSafeAtRest /\ [Next]_vars => IndexSafeAtRest'
<1> SUFFICES ASSUME TypeOK, IndexSafeAtRest, [Next]_vars PROVE IndexSafeAtRest'
  OBVIOUS
<1> USE DEF shared
<1>1. CASE LoopTop \/ LoopCount
  BY <1>1, SameIndex DEF LoopTop, LoopCount, StartProduce, GoTo, Repairing, TypeOK
<1>2. ASSUME NEW t \in Callers, TriggerByRequest(t) \/ TriggerByConsumer(t)
      PROVE  IndexSafeAtRest'
  BY <1>2, SameIndex DEF TriggerByRequest, TriggerByConsumer, Trigger,
     StartProduce, GoTo, Repairing, TypeOK
<1>3. ASSUME NEW t \in Threads, Produce(t) PROVE IndexSafeAtRest'
  <2>1. CASE ReadCurrent(t) \/ LoadIteration(t)
    BY <2>1, SameIndex DEF ReadCurrent, LoadIteration, GoTo, Repairing, TypeOK
  <2>2. CASE StoreIteration(t)
    <3>1. \A k \in Kinds : k = kind[t] => Repairing(t, k)'
      BY <2>2 DEF StoreIteration, GoTo, Repairing, TypeOK
    <3>2. \A k \in Kinds : k # kind[t] => iteration'[k] = iteration[k]
      BY <2>2 DEF StoreIteration, TypeOK
    <3>3. \A s \in Threads, k \in Kinds : Repairing(s, k) => Repairing(s, k)'
      BY <2>2 DEF StoreIteration, GoTo, Repairing, TypeOK
    <3>4. SUFFICES ASSUME NEW k \in Kinds, \A s \in Threads : ~Repairing(s, k)'
                   PROVE  iteration'[k] <= LastIndex(k) \/ (k = "row" /\ Rows = <<>>)
      BY DEF IndexSafeAtRest
    <3>5. k # kind[t] /\ \A s \in Threads : ~Repairing(s, k)
      BY <3>1, <3>3, <3>4
    <3>. QED
      BY <3>2, <3>5 DEF IndexSafeAtRest
  <2>3. CASE TestEnd(t)
    <3>1. CASE PastEnd(kind[t])
      BY <2>3, <3>1, SameIndex DEF TestEnd, GoTo, Repairing, TypeOK
    <3>2. CASE ~PastEnd(kind[t])
      <4>1. \A s \in Threads, k \in Kinds :
              Repairing(s, k) => (k = kind[t] \/ Repairing(s, k)')
        BY <2>3 DEF TestEnd, GoTo, Repairing, TypeOK
      <4>2. kind[t] \in Kinds /\ iteration[kind[t]] <= LastIndex(kind[t])
        BY <3>2, ListsStart DEF PastEnd, TypeOK
      <4>. QED
        BY <2>3, <4>1, <4>2 DEF IndexSafeAtRest, TestEnd
    <3>. QED
      BY <3>1, <3>2
  <2>4. CASE SetLock(t)
    BY <2>4, SameIndex DEF SetLock, GoTo, Repairing, TypeOK
  <2>5. CASE ResetIteration(t)
    <3>1. kind[t] \in Kinds /\ iteration' = [iteration EXCEPT ![kind[t]] = 0]
      BY <2>5 DEF ResetIteration, TypeOK
    <3>2. \A s \in Threads, k \in Kinds :
            Repairing(s, k) => (k = kind[t] \/ Repairing(s, k)')
      BY <2>5 DEF ResetIteration, GoTo, Repairing, TypeOK
    <3>3. \A k \in Kinds : k # kind[t] => iteration'[k] = iteration[k]
      BY <3>1 DEF TypeOK
    <3>4. iteration'[kind[t]] = 0
      BY <3>1 DEF TypeOK
    <3>. QED
      BY <3>1, <3>2, <3>3, <3>4, ListsStart DEF IndexSafeAtRest
  <2>6. CASE TestTag(t) \/ CheckAny(t)
    BY <2>6, SameIndex DEF TestTag, CheckAny, Chosen, GoTo, Repairing, TypeOK
  <2>7. CASE Send(t) \/ Refused(t) \/ Raised(t) \/ LoadCounter(t) \/ StoreCounter(t)
    BY <2>7, SameIndex DEF Hand, Send, Refused, Raised, LoadCounter, StoreCounter, GoTo,
       Repairing, TypeOK
  <2>. QED
    BY <1>3, <2>1, <2>2, <2>3, <2>4, <2>5, <2>6, <2>7 DEF Produce
<1>4. CASE Requests
  BY <1>4, SameIndex DEF Requests, SetTags, ResetIterators, StopLoops, vars, Repairing
<1>5. CASE UNCHANGED vars
  BY <1>5, SameIndex DEF vars, Repairing
<1>. QED
  BY <1>1, <1>2, <1>3, <1>4, <1>5 DEF Next

\* With any number of threads producing at once, an index of the producer is
\* out of range only while a thread is on its way to reset it.
THEOREM IndexRepaired == Spec => []IndexSafeAtRest
  BY InitIndex, NextIndex, TypeCorrect, PTL DEF Spec
-----------------------------------------------------------------------------
(***************************************************************************)
(* The loop's limit: what is left of it and what was sent add up to no     *)
(* more than the limit, counting the message of an iteration that is not   *)
(* yet counted down; an iteration only starts with something left.         *)
(***************************************************************************)
InIteration == pc[Loop] \notin {"top", "done"}
NotCountedDown == IF pc[Loop] \in {"finish", "count", "returned", "dead"} THEN 1 ELSE 0
LimitInv ==
  Limit # NoLimit =>
    /\ limit \in Nat
    /\ InIteration => limit > 0
    /\ produced[Loop] + limit <= Limit + NotCountedDown

LEMMA LimitOK == (Limit # NoLimit => Limit \in Nat) /\ Loop \notin Callers
  BY ProducerAssumption DEF ProducerAssumption

\* A step of another thread, or of the loop within its iteration.
LEMMA SameLimit ==
  ASSUME LimitInv, TypeOK, UNCHANGED <<limit, produced>>,
         InIteration' => InIteration,
         NotCountedDown' = 1 \/ NotCountedDown = 0
  PROVE  LimitInv'
  BY LimitOK DEF LimitInv, TypeOK, NotCountedDown

LEMMA NextLimit == TypeOK /\ LimitInv /\ [Next]_vars => LimitInv'
<1> SUFFICES ASSUME TypeOK, LimitInv, [Next]_vars PROVE LimitInv'
  OBVIOUS
<1> USE DEF shared, history, Rest
<1>1. CASE LoopTop
  <2>1. CASE GoTo(Loop, "done")
    BY <1>1, <2>1, SameLimit DEF LoopTop, GoTo, InIteration, NotCountedDown, TypeOK
  <2>2. CASE LoopGoesOn /\ StartProduce(Loop)
    BY <1>1, <2>2, LimitOK DEF LoopTop, LoopGoesOn, StartProduce, LimitInv,
       NotCountedDown, TypeOK
  <2>. QED
    BY <1>1, <2>1, <2>2 DEF LoopTop
<1>2. CASE LoopCount
  <2>1. SUFFICES ASSUME Limit # NoLimit
                 PROVE  /\ limit' \in Nat /\ ~InIteration'
                        /\ produced'[Loop] + limit' <= Limit + NotCountedDown'
    BY DEF LimitInv
  <2>2. limit \in Nat /\ limit > 0 /\ produced[Loop] + limit <= Limit + 1
    BY <1>2, <2>1 DEF LoopCount, LimitInv, InIteration, NotCountedDown
  <2>3. limit' = limit - 1 /\ produced' = produced
    BY <1>2, <2>2, ProducerAssumption DEF ProducerAssumption, LoopCount, LimitAfter
  <2>4. pc'[Loop] = "top"
    BY <1>2 DEF LoopCount, GoTo, TypeOK
  <2>. QED
    BY <2>1, <2>2, <2>3, <2>4, LimitOK DEF InIteration, NotCountedDown, TypeOK
<1>3. ASSUME NEW t \in Callers, TriggerByRequest(t) \/ TriggerByConsumer(t)
      PROVE  LimitInv'
  BY <1>3, SameLimit, LimitOK DEF TriggerByRequest, TriggerByConsumer, Trigger,
     StartProduce, GoTo, InIteration, NotCountedDown, TypeOK
<1>4. ASSUME NEW t \in Threads, Produce(t) PROVE LimitInv'
  <2>1. CASE Send(t)
    <3>1. CASE t = Loop
      BY <2>1, <3>1, LimitOK DEF Hand, Send, GoTo, LimitInv, InIteration,
         NotCountedDown, TypeOK
    <3>2. CASE t # Loop
      <4>1. produced'[Loop] = produced[Loop] /\ pc'[Loop] = pc[Loop] /\ limit' = limit
        BY <2>1, <3>2 DEF Hand, Send, GoTo, TypeOK
      <4>. QED
        BY <4>1 DEF LimitInv, InIteration, NotCountedDown
    <3>. QED
      BY <3>1, <3>2
  <2>2. CASE ~Send(t)
    <3>1. UNCHANGED <<limit, produced>>
      BY <1>4, <2>2 DEF Produce, ReadCurrent, LoadIteration, StoreIteration, TestEnd,
         SetLock, ResetIteration, TestTag, CheckAny, Hand, Refused, Raised, LoadCounter,
         StoreCounter
    <3>2. InIteration' => InIteration
      BY <1>4, <2>2 DEF Produce, ReadCurrent, LoadIteration, StoreIteration, TestEnd,
         SetLock, ResetIteration, TestTag, Chosen, CheckAny, Hand, Refused, Raised,
         LoadCounter, StoreCounter, GoTo, InIteration, TypeOK
    <3>3. NotCountedDown' = 1 \/ NotCountedDown = 0
      BY <1>4, <2>2 DEF Produce, ReadCurrent, LoadIteration, StoreIteration, TestEnd,
         SetLock, ResetIteration, TestTag, Chosen, CheckAny, Hand, Refused, Raised,
         LoadCounter, StoreCounter, GoTo, NotCountedDown, TypeOK
    <3>. QED
      BY <3>1, <3>2, <3>3, SameLimit
  <2>. QED
    BY <2>1, <2>2
<1>5. CASE Requests
  BY <1>5, SameLimit DEF Requests, SetTags, ResetIterators, StopLoops, vars, InIteration,
     NotCountedDown
<1>6. CASE UNCHANGED vars
  BY <1>6, SameLimit DEF vars, InIteration, NotCountedDown
<1>. QED
  BY <1>1, <1>2, <1>3, <1>4, <1>5, <1>6 DEF Next

\* The scheduled loop sends no more messages than its limit, whatever the
\* triggers, the tags and the broker do.
THEOREM LimitKept == Spec => []LoopWithinLimit
<1>1. Init => LimitInv
  BY LimitOK DEF Init, LimitInv, InIteration, NotCountedDown
<1>2. TypeOK /\ LimitInv => LoopWithinLimit
  BY LimitOK DEF TypeOK, LimitInv, LoopWithinLimit, InIteration, NotCountedDown
<1>. QED
  BY <1>1, <1>2, NextLimit, TypeCorrect, PTL DEF Spec
-----------------------------------------------------------------------------
(***************************************************************************)
(* After stop is set, the loop sends at most the message it is working on: *)
(* once it has sent it, it is on its way to the test of stop.              *)
(***************************************************************************)
StopInv ==
  /\ ~stop => late = 0
  /\ late = 0 \/ (late = 1 /\ pc[Loop] \in {"finish", "count", "returned", "top",
                                           "done", "dead"})

LEMMA SameStop ==
  ASSUME StopInv, late' = late, stop' = stop,
         late = 0 \/ pc'[Loop] \in {"finish", "count", "returned", "top", "done", "dead"}
  PROVE  StopInv'
  BY DEF StopInv

LEMMA NextStop == TypeOK /\ StopInv /\ [Next]_vars => StopInv'
<1> SUFFICES ASSUME TypeOK, StopInv, [Next]_vars PROVE StopInv'
  OBVIOUS
<1> USE DEF shared, history, Rest
<1>1. CASE LoopTop
  BY <1>1, SameStop DEF LoopTop, LoopGoesOn, GoTo, StartProduce, StopInv, TypeOK
<1>2. CASE LoopCount
  BY <1>2, SameStop DEF LoopCount, GoTo, StopInv, TypeOK
<1>3. ASSUME NEW t \in Callers, TriggerByRequest(t) \/ TriggerByConsumer(t)
      PROVE  StopInv'
  BY <1>3, SameStop, LimitOK DEF TriggerByRequest, TriggerByConsumer, Trigger,
     StartProduce, GoTo, StopInv, TypeOK
<1>4. ASSUME NEW t \in Threads, Produce(t) PROVE StopInv'
  <2>1. CASE Send(t)
    BY <2>1 DEF Hand, Send, GoTo, StopInv, TypeOK
  <2>2. CASE ~Send(t)
    <3>1. late' = late /\ stop' = stop
      BY <1>4, <2>2 DEF Produce, ReadCurrent, LoadIteration, StoreIteration, TestEnd,
         SetLock, ResetIteration, TestTag, CheckAny, Hand, Refused, Raised, LoadCounter,
         StoreCounter
    <3>2. late = 0 \/ pc'[Loop] \in {"finish", "count", "returned", "top", "done",
                                      "dead"}
      BY <1>4, <2>2 DEF Produce, ReadCurrent, LoadIteration, StoreIteration, TestEnd,
         SetLock, ResetIteration, TestTag, Chosen, CheckAny, Hand, Refused, Raised,
         LoadCounter, StoreCounter, GoTo, StopInv, TypeOK
    <3>. QED
      BY <3>1, <3>2, SameStop
  <2>. QED
    BY <2>1, <2>2
<1>5. CASE Requests
  BY <1>5 DEF Requests, SetTags, ResetIterators, StopLoops, vars, StopInv
<1>6. CASE UNCHANGED vars
  BY <1>6, SameStop DEF vars, StopInv
<1>. QED
  BY <1>1, <1>2, <1>3, <1>4, <1>5, <1>6 DEF Next

\* stop_loops lets the loop send at most one more message.
THEOREM StopKept == Spec => []AtMostOneAfterStop
<1>1. Init => StopInv
  BY DEF Init, StopInv
<1>2. StopInv => AtMostOneAfterStop
  BY DEF StopInv, AtMostOneAfterStop
<1>. QED
  BY <1>1, <1>2, NextStop, TypeCorrect, PTL DEF Spec
-----------------------------------------------------------------------------
(***************************************************************************)
(* The counter: the messages sent but not yet counted are those of the     *)
(* threads that are about to count, and a count that is lost only lowers   *)
(* the counter.                                                            *)
(***************************************************************************)
Pending == {t \in Threads : pc[t] \in {"finish", "count"}}
CountInv ==
  /\ counter + Cardinality(Pending) <= Len(sent)
  /\ \A t \in Threads :
       pc[t] = "count" => tmp[t] + Cardinality(Pending) <= Len(sent)

LEMMA PendingFinite == IsFiniteSet(Pending) /\ Cardinality(Pending) \in Nat
<1>1. IsFiniteSet(Threads)
  BY ProducerAssumption, FS_AddElement DEF ProducerAssumption
<1>2. Pending \in SUBSET Threads
  BY DEF Pending
<1>. QED
  BY <1>1, <1>2, FS_Subset, FS_CardinalityType

LEMMA SentLength == TypeOK => Len(sent) \in Nat /\ counter \in Nat
  BY DEF TypeOK

\* A step that neither sends nor counts.
LEMMA SameCount ==
  ASSUME CountInv, UNCHANGED <<counter, sent>>, Pending' = Pending,
         \A t \in Threads : pc'[t] = "count" => pc[t] = "count" /\ tmp'[t] = tmp[t]
  PROVE  CountInv'
  BY DEF CountInv

LEMMA NextCount == TypeOK /\ CountInv /\ [Next]_vars => CountInv'
<1> SUFFICES ASSUME TypeOK, CountInv, [Next]_vars PROVE CountInv'
  OBVIOUS
<1> USE DEF shared, history, Rest
<1>1. CASE LoopTop
  BY <1>1, SameCount DEF LoopTop, StartProduce, GoTo, Pending, TypeOK
<1>2. CASE LoopCount
  BY <1>2, SameCount DEF LoopCount, GoTo, Pending, TypeOK
<1>3. ASSUME NEW t \in Callers, TriggerByRequest(t) \/ TriggerByConsumer(t)
      PROVE  CountInv'
  BY <1>3, SameCount DEF TriggerByRequest, TriggerByConsumer, Trigger, StartProduce,
     GoTo, Pending, TypeOK
<1>4. ASSUME NEW t \in Threads, Produce(t) PROVE CountInv'
  <2>1. CASE Send(t)
    <3>1. Pending' = Pending \cup {t} /\ t \notin Pending
      BY <2>1 DEF Hand, Send, GoTo, Pending, TypeOK
    <3>2. Cardinality(Pending') = Cardinality(Pending) + 1
      BY <3>1, PendingFinite, FS_AddElement
    <3>3. Len(sent') = Len(sent) + 1
      <4>1. [payload |-> item[t]["payload"], row |-> item[t]["row"]]
              \in [payload : Nat \cup {NoRow}, row : Nat \cup {NoRow}]
        BY DEF TypeOK
      <4>. QED
        BY <2>1, <4>1 DEF Hand, Send, TypeOK
    <3>4. counter' = counter /\ tmp' = tmp
          /\ \A s \in Threads : pc'[s] = "count" => pc[s] = "count"
      BY <2>1 DEF Hand, Send, GoTo, TypeOK
    <3>5. Len(sent) \in Nat /\ counter \in Nat /\ \A s \in Threads : tmp[s] \in Nat
      BY SentLength DEF TypeOK
    <3>6. counter' + Cardinality(Pending') <= Len(sent')
      BY <3>2, <3>3, <3>4, <3>5, PendingFinite DEF CountInv
    <3>7. ASSUME NEW s \in Threads, pc'[s] = "count"
          PROVE  tmp'[s] + Cardinality(Pending') <= Len(sent')
      <4>1. tmp[s] + Cardinality(Pending) <= Len(sent) /\ tmp'[s] = tmp[s]
        BY <3>4, <3>7 DEF CountInv
      <4>. QED
        BY <3>2, <3>3, <3>5, <4>1, PendingFinite
    <3>. QED
      BY <3>6, <3>7 DEF CountInv
  <2>2. CASE LoadCounter(t)
    <3>1. Pending' = Pending /\ sent' = sent /\ counter' = counter
      BY <2>2 DEF LoadCounter, Pending, TypeOK
    <3>2. \A s \in Threads : pc'[s] = "count" =>
            \/ pc[s] = "count" /\ tmp'[s] = tmp[s]
            \/ tmp'[s] = counter
      BY <2>2 DEF LoadCounter, TypeOK
    <3>. QED
      BY <3>1, <3>2 DEF CountInv
  <2>3. CASE StoreCounter(t)
    <3>1. Pending' = Pending \ {t} /\ t \in Pending
      BY <2>3 DEF StoreCounter, GoTo, Pending, TypeOK
    <3>2. Cardinality(Pending') = Cardinality(Pending) - 1
      BY <3>1, PendingFinite, FS_RemoveElement
    <3>3. sent' = sent /\ tmp' = tmp /\ counter' = tmp[t] + 1 /\ tmp[t] \in Nat
          /\ pc[t] = "count" /\ \A s \in Threads : pc'[s] = "count" => pc[s] = "count"
      BY <2>3 DEF StoreCounter, GoTo, TypeOK
    <3>4. tmp[t] + Cardinality(Pending) <= Len(sent)
      BY <3>3 DEF CountInv
    <3>5. counter' + Cardinality(Pending') <= Len(sent')
      BY <3>2, <3>3, <3>4, PendingFinite, SentLength
    <3>6. ASSUME NEW s \in Threads, pc'[s] = "count"
          PROVE  tmp'[s] + Cardinality(Pending') <= Len(sent')
      <4>1. tmp[s] \in Nat /\ tmp[s] + Cardinality(Pending) <= Len(sent)
        BY <3>3, <3>6 DEF CountInv, TypeOK
      <4>. QED
        BY <3>2, <3>3, <4>1, PendingFinite, SentLength
    <3>. QED
      BY <3>5, <3>6 DEF CountInv
  <2>4. CASE ReadCurrent(t) \/ LoadIteration(t) \/ StoreIteration(t) \/ TestEnd(t)
             \/ SetLock(t) \/ ResetIteration(t)
    BY <2>4, SameCount DEF ReadCurrent, LoadIteration, StoreIteration, TestEnd,
       SetLock, ResetIteration, GoTo, Pending, TypeOK
  <2>5. CASE TestTag(t) \/ CheckAny(t) \/ Refused(t) \/ Raised(t)
    BY <2>5, SameCount DEF TestTag, Chosen, CheckAny, Hand, Refused, Raised, GoTo, Pending,
       TypeOK
  <2>. QED
    BY <1>4, <2>1, <2>2, <2>3, <2>4, <2>5 DEF Produce
<1>5. CASE Requests
  BY <1>5, SameCount DEF Requests, SetTags, ResetIterators, StopLoops, vars, Pending
<1>6. CASE UNCHANGED vars
  BY <1>6, SameCount DEF vars, Pending
<1>. QED
  BY <1>1, <1>2, <1>3, <1>4, <1>5, <1>6 DEF Next

\* producedMessages never exceeds the number of messages sent, though its
\* updates race: an update that is lost or goes backwards only lowers it.
THEOREM CountKept == Spec => []NeverOvercounted
<1>1. Init => CountInv
  <2> SUFFICES ASSUME Init PROVE CountInv
    OBVIOUS
  <2>1. Pending = {}
    BY DEF Init, Pending
  <2>. QED
    BY <2>1, FS_EmptySet DEF Init, CountInv
<1>2. TypeOK /\ CountInv => NeverOvercounted
  BY PendingFinite, SentLength DEF CountInv, NeverOvercounted
<1>. QED
  BY <1>1, <1>2, NextCount, TypeCorrect, PTL DEF Spec
-----------------------------------------------------------------------------
(***************************************************************************)
(* What is sent while the tags stay as they are.                           *)
(***************************************************************************)
Walking == {"load", "store", "test", "lock", "reset", "tag", "check"}
Taken(t, k) == item[t][k] \in 0 .. LastIndex(k)
Good(t, k) == Taken(t, k) /\ Active(Items(k)[item[t][k] + 1])

\* A thread that walks a list holds an item of it; past the payloads, an
\* active payload; when it sends, an active row or none for want of one.
HoldsActive(t) ==
  /\ pc[t] \in Walking => Taken(t, kind[t])
  /\ pc[t] = "send" \/ (kind[t] = "row" /\ pc[t] \in Walking \cup {"read"}) =>
       Good(t, "payload")
  /\ pc[t] = "send" /\ HasDataset =>
       IF item[t]["row"] = NoRow THEN NoneActive("row") ELSE Good(t, "row")
ActiveInv == OnlyActiveSent /\ (tagChanges = 0 => \A t \in Threads : HoldsActive(t))

\* Another thread's locals are its own.
LEMMA OthersHold ==
  ASSUME NEW u, HoldsActive(u), tags' = tags,
         pc'[u] = pc[u], kind'[u] = kind[u], item'[u] = item[u]
  PROVE  HoldsActive(u)'
  BY DEF HoldsActive, Good, Taken, Active, NoneActive, LastIndex

\* The types that the steps of one thread rest on.
LEMMA LocalTypes ==
  ASSUME TypeOK, NEW t \in Threads
  PROVE  /\ pc \in [Threads -> Labels] /\ kind \in [Threads -> Kinds]
         /\ item \in [Threads -> [Kinds -> Nat \cup {NoRow}]]
         /\ kind[t] \in Kinds
  BY DEF TypeOK

LEMMA ItemUpdate ==
  ASSUME TypeOK, NEW t \in Threads, NEW k \in Kinds, NEW v,
         item' = [item EXCEPT ![t][k] = v]
  PROVE  /\ \A u \in Threads : u # t => item'[u] = item[u]
         /\ \A j \in Kinds : item'[t][j] = IF j = k THEN v ELSE item[t][j]
  BY DEF TypeOK

\* The steps of produce() but the sending, which keeps the locals.
LEMMA ProduceHolds ==
  ASSUME TypeOK, NEW t \in Threads, HoldsActive(t), Produce(t), tags' = tags
  PROVE  HoldsActive(t)'
<1>. USE LocalTypes DEF shared, Rest, history
<1>1. CASE ReadCurrent(t)
  <2>1. CASE GoTo(t, "dead")
    BY <2>1 DEF GoTo, HoldsActive, Walking
  <2>2. CASE /\ iteration[kind[t]] \in 0 .. LastIndex(kind[t]) /\ pc[t] = "read"
             /\ item' = [item EXCEPT ![t][kind[t]] = iteration[kind[t]]]
             /\ pc' = [pc EXCEPT ![t] = "load"] /\ kind' = kind
    <3>1. pc'[t] = "load" /\ kind'[t] = kind[t]
      BY <2>2
    <3>2. \A j \in Kinds : item'[t][j] = IF j = kind[t] THEN iteration[kind[t]] ELSE item[t][j]
      BY <2>2, ItemUpdate
    <3>3. Taken(t, kind[t])'
      BY <2>2, <3>1, <3>2 DEF Taken, LastIndex
    <3>4. kind[t] = "row" => Good(t, "payload")'
      BY <2>2, <3>2 DEF HoldsActive, Good, Taken, Active, LastIndex
    <3>. QED
      BY <3>1, <3>3, <3>4 DEF HoldsActive, Taken
  <2>. QED
    BY <1>1, <2>1, <2>2 DEF ReadCurrent
<1>2. CASE LoadIteration(t) \/ StoreIteration(t) \/ TestEnd(t) \/ SetLock(t) \/ ResetIteration(t)
  <2>1. pc[t] \in Walking /\ pc'[t] \in Walking /\ pc'[t] # "send"
    BY <1>2 DEF LoadIteration, StoreIteration, TestEnd, SetLock, ResetIteration, GoTo, Walking
  <2>2. kind' = kind /\ item' = item
    BY <1>2 DEF LoadIteration, StoreIteration, TestEnd, SetLock, ResetIteration, GoTo
  <2>3. pc'[t] # "read"
    BY <2>1 DEF Walking
  <2>. QED
    BY <2>1, <2>2, <2>3 DEF HoldsActive, Good, Taken, Active, LastIndex
<1>3. CASE TestTag(t)
  <2>1. Taken(t, kind[t]) /\ pc[t] = "tag" /\ item' = item
    BY <1>3 DEF TestTag, Chosen, GoTo, HoldsActive, Walking
  <2>2. Taken(t, kind[t])' <=> item[t][kind'[t]] \in 0 .. LastIndex(kind'[t])
    BY <2>1 DEF Taken, LastIndex
  <2>3. \A k \in Kinds : Good(t, k)' <=> Good(t, k)
    BY <2>1 DEF Good, Taken, Active, LastIndex
  <2>4. kind[t] = "row" => Good(t, "payload")
    BY <2>1 DEF HoldsActive, Walking
  <2>5. CASE Good(t, kind[t]) /\ kind[t] = "payload" /\ HasDataset
    <3>1. pc'[t] = "read"
      BY <1>3, <2>5 DEF TestTag, Chosen, Good
    <3>. QED
      BY <2>3, <2>5, <3>1 DEF HoldsActive, Walking
  <2>6. CASE Good(t, kind[t]) /\ ~(kind[t] = "payload" /\ HasDataset)
    <3>1. pc'[t] = "send"
      BY <1>3, <2>6 DEF TestTag, Chosen, Good, GoTo
    <3>2. Good(t, "payload") /\ (HasDataset => Good(t, "row"))
      BY <2>4, <2>6
    <3>3. HasDataset => item[t]["row"] # NoRow
      BY <3>2 DEF Good, Taken, LastIndex
    <3>. QED
      BY <2>1, <2>3, <3>1, <3>2, <3>3 DEF HoldsActive, Walking
  <2>7. CASE ~Good(t, kind[t])
    <3>1. pc'[t] \in {"read", "check"} /\ kind' = kind
      BY <1>3, <2>1, <2>7 DEF TestTag, Good, GoTo
    <3>2. Taken(t, kind[t])'
      BY <2>1, <3>1 DEF Taken, LastIndex
    <3>. QED
      BY <2>3, <2>4, <3>1, <3>2 DEF HoldsActive, Walking, Taken
  <2>. QED
    BY <2>5, <2>6, <2>7
<1>4. CASE CheckAny(t)
  <2>1. Taken(t, kind[t]) /\ (kind[t] = "row" => Good(t, "payload"))
    BY <1>4 DEF CheckAny, HoldsActive, Walking
  <2>2. CASE pc' = [pc EXCEPT ![t] = "tag"] /\ UNCHANGED <<kind, item>>
    BY <2>1, <2>2 DEF HoldsActive, Walking, Good, Taken, Active, LastIndex
  <2>3. CASE GoTo(t, "returned")
    BY <2>3 DEF GoTo, HoldsActive, Walking
  <2>4. CASE /\ NoneActive(kind[t]) /\ kind[t] = "row" /\ pc' = [pc EXCEPT ![t] = "send"]
             /\ item' = [item EXCEPT ![t]["row"] = NoRow] /\ kind' = kind
    <3>1. pc'[t] = "send" /\ item'[t]["row"] = NoRow /\ item'[t]["payload"] = item[t]["payload"]
      BY <2>4, ItemUpdate
    <3>2. NoneActive("row")'
      BY <2>4 DEF NoneActive, Active
    <3>3. Good(t, "payload")'
      BY <2>1, <2>4, <3>1 DEF Good, Taken, Active, LastIndex
    <3>. QED
      BY <3>1, <3>2, <3>3 DEF HoldsActive, Walking
  <2>. QED
    BY <1>4, <2>2, <2>3, <2>4 DEF CheckAny
<1>5. CASE Send(t) \/ Refused(t) \/ Raised(t) \/ LoadCounter(t) \/ StoreCounter(t)
  <2>1. pc'[t] \in {"finish", "returned", "dead", "count"}
    BY <1>5 DEF Hand, Send, Refused, Raised, LoadCounter, StoreCounter, GoTo
  <2>. QED
    BY <2>1 DEF HoldsActive, Walking
<1>. QED
  BY <1>1, <1>2, <1>3, <1>4, <1>5 DEF Produce

LEMMA SentFrame ==
  ASSUME OnlyActiveSent, sent' = sent, tagChanges' = 0 => tagChanges = 0 /\ tags' = tags
  PROVE  OnlyActiveSent'
  BY DEF OnlyActiveSent, Active, NoneActive

LEMMA SendActive ==
  ASSUME TypeOK, ActiveInv, NEW t \in Threads, Send(t)
  PROVE  OnlyActiveSent'
<1>. DEFINE e == [payload |-> item[t]["payload"], row |-> item[t]["row"]]
<1>1. SUFFICES ASSUME tagChanges = 0 PROVE OnlyActiveSent'
  BY DEF OnlyActiveSent, Hand, Send
<1>2. sent' = Append(sent, e) /\ tags' = tags /\ tagChanges' = tagChanges /\ pc[t] = "send"
  BY DEF Hand, Send, shared
<1>3. /\ Active(Payloads[item[t]["payload"] + 1])
      /\ HasDataset => IF item[t]["row"] = NoRow THEN NoneActive("row")
                       ELSE Active(Rows[item[t]["row"] + 1])
  BY <1>1, <1>2 DEF ActiveInv, HoldsActive, Good, Items
<1>4. e.payload = item[t]["payload"] /\ e.row = item[t]["row"]
  OBVIOUS
<1>5. \A i \in DOMAIN sent' :
        (i \in DOMAIN sent /\ sent'[i] = sent[i]) \/ sent'[i] = e
  <2>1. sent \in Seq([payload : Nat \cup {NoRow}, row : Nat \cup {NoRow}])
    BY DEF TypeOK
  <2>. HIDE DEF e
  <2>. QED
    BY <1>2, <2>1
<1>6. \A tag : Active(tag)' <=> Active(tag)
  BY <1>2 DEF Active
<1>7. NoneActive("row")' <=> NoneActive("row")
  BY <1>2 DEF NoneActive, Active
<1>. HIDE DEF e
<1>. QED
  BY <1>1, <1>2, <1>3, <1>4, <1>5, <1>6, <1>7 DEF OnlyActiveSent, ActiveInv

LEMMA ActiveStep == TypeOK /\ ActiveInv /\ [Next]_vars => ActiveInv'
<1>. SUFFICES ASSUME TypeOK, ActiveInv, [Next]_vars PROVE ActiveInv'
  OBVIOUS
<1>. USE DEF shared, Rest, history
<1>1. ASSUME NEW t \in Threads, tags' = tags, tagChanges' = tagChanges, OnlyActiveSent',
             tagChanges = 0 => HoldsActive(t)',
             \A u \in Threads \ {t} : /\ pc'[u] = pc[u] /\ kind'[u] = kind[u]
                                      /\ item'[u] = item[u]
      PROVE  ActiveInv'
  <2>1. tagChanges = 0 => \A u \in Threads : HoldsActive(u)'
    BY <1>1, OthersHold DEF ActiveInv
  <2>. QED
    BY <1>1, <2>1 DEF ActiveInv
<1>2. ASSUME NEW t \in Threads, Produce(t) PROVE ActiveInv'
  <2>1. tags' = tags /\ tagChanges' = tagChanges
    BY <1>2 DEF Produce, ReadCurrent, LoadIteration, StoreIteration, TestEnd, SetLock,
                ResetIteration, TestTag, CheckAny, Hand, Send, Refused, Raised, LoadCounter,
                StoreCounter
  <2>2. OnlyActiveSent'
    <3>1. CASE Send(t)
      BY <3>1, SendActive
    <3>2. CASE ~Send(t)
      <4>1. sent' = sent
        BY <1>2, <3>2 DEF Produce, ReadCurrent, LoadIteration, StoreIteration, TestEnd,
                          SetLock, ResetIteration, TestTag, CheckAny, Hand, Refused, Raised,
                          LoadCounter, StoreCounter
      <4>. QED
        BY <2>1, <4>1, SentFrame DEF ActiveInv
    <3>. QED
      BY <3>1, <3>2
  <2>3. tagChanges = 0 => HoldsActive(t)'
    BY <1>2, <2>1, ProduceHolds DEF ActiveInv
  <2>4. \A u \in Threads \ {t} : pc'[u] = pc[u] /\ kind'[u] = kind[u] /\ item'[u] = item[u]
    <3>1. pc \in [Threads -> Labels] /\ kind \in [Threads -> Kinds]
          /\ item \in [Threads -> [Kinds -> Nat \cup {NoRow}]]
      BY DEF TypeOK
    <3>. QED
      BY <1>2, <3>1 DEF Produce, ReadCurrent, LoadIteration, StoreIteration, TestEnd, SetLock,
                  ResetIteration, TestTag, CheckAny, Hand, Send, Refused, Raised, LoadCounter,
                  StoreCounter, Chosen, GoTo
  <2>. QED
    BY <1>1, <2>1, <2>2, <2>3, <2>4
<1>3. ASSUME NEW t \in Threads, UNCHANGED <<tags, tagChanges, sent>>,
             \/ StartProduce(t)
             \/ \E label \in {"done", "refused", "top"} : GoTo(t, label)
      PROVE  ActiveInv'
  <2>1. OnlyActiveSent'
    BY <1>3, SentFrame DEF ActiveInv
  <2>2. HoldsActive(t)'
    <3>1. CASE StartProduce(t)
      <4>1. pc'[t] = "read" /\ kind'[t] = "payload"
        BY <3>1, LocalTypes DEF StartProduce
      <4>. QED
        BY <4>1 DEF HoldsActive, Walking
    <3>2. CASE \E label \in {"done", "refused", "top"} : GoTo(t, label)
      <4>1. pc'[t] \in {"done", "refused", "top"}
        BY <3>2, LocalTypes DEF GoTo
      <4>. QED
        BY <4>1 DEF HoldsActive, Walking
    <3>. QED
      BY <1>3, <3>1, <3>2
  <2>3. \A u \in Threads \ {t} : pc'[u] = pc[u] /\ kind'[u] = kind[u] /\ item'[u] = item[u]
    BY <1>3, LocalTypes DEF StartProduce, GoTo
  <2>. QED
    BY <1>1, <1>3, <2>1, <2>2, <2>3
<1>4. CASE LoopTop \/ LoopCount
  BY <1>3, <1>4 DEF LoopTop, LoopCount
<1>5. ASSUME NEW t \in Callers, TriggerByRequest(t) \/ TriggerByConsumer(t)
      PROVE  ActiveInv'
  BY <1>3, <1>5 DEF TriggerByRequest, TriggerByConsumer, Trigger
<1>6. CASE SetTags
  <2>1. tagChanges' # 0 /\ sent' = sent
    BY <1>6, Bounds DEF SetTags, TypeOK
  <2>. QED
    BY <2>1, SentFrame DEF ActiveInv
<1>7. CASE ResetIterators \/ StopLoops \/ UNCHANGED vars
  <2>1. UNCHANGED <<tags, tagChanges, sent, pc, kind, item>>
    BY <1>7 DEF ResetIterators, StopLoops, vars
  <2>2. OnlyActiveSent'
    BY <2>1, SentFrame DEF ActiveInv
  <2>3. tagChanges = 0 => \A u \in Threads : HoldsActive(u)'
    BY <2>1, OthersHold DEF ActiveInv
  <2>. QED
    BY <2>1, <2>2, <2>3 DEF ActiveInv
<1>. QED
  BY <1>2, <1>4, <1>5, <1>6, <1>7 DEF Next, Requests

\* However many threads search the lists at once and wrap around them, what
\* each of them sends is active, unless the tags changed.
THEOREM SentActive == Spec => []OnlyActiveSent
<1>1. Init => ActiveInv
  BY DEF Init, ActiveInv, OnlyActiveSent, HoldsActive, Walking
<1>2. ActiveInv => OnlyActiveSent
  BY DEF ActiveInv
<1>. QED
  BY <1>1, <1>2, InitType, NextType, ActiveStep, PTL DEF Spec
-----------------------------------------------------------------------------
(***************************************************************************)
(* The order of a producer that only its loop uses.  The invariant says of *)
(* each list where its walk is: waiting, at the item that was read, or     *)
(* done with an item to be tried.  From where it is, the search can only    *)
(* find the item whose turn it is after the last message.  A list that is *)
(* not looped is on its first pass until its lock is set: until then the   *)
(* search only moves forward.                                              *)
(***************************************************************************)
Walk == {"load", "store", "test", "lock", "reset", "tag", "check"}
Waiting(k) ==
  \/ pc[Loop] \in {"top", "finish", "count", "returned"}
  \/ pc[Loop] = "read" /\ kind[Loop] = k
  \/ pc[Loop] \in Walk \cup {"read"} /\ kind[Loop] = "payload" /\ k = "row"
Walked(k) == pc[Loop] \in Walk /\ kind[Loop] = k
Held(k) ==
  \/ pc[Loop] = "send"
  \/ pc[Loop] \in Walk \cup {"read"} /\ kind[Loop] = "row" /\ k = "payload"

\* Where the search after the last message begins, and where one from p on
\* finds no other item than it would.
Resume(k) == IF tried = <<>> THEN 0 ELSE tried[Len(tried)][k] + 1
SameTurn(k, p) == \A i \in Int : Due(k, p, i) => Due(k, Resume(k), i)

FirstPass(k) == ~Looped(k) /\ ~locked[k]
Turn(k, p) == SameTurn(k, p) /\ (FirstPass(k) => Resume(k) <= p)

Wrapped(k, i) == IF i + 1 > LastIndex(k) THEN 0 ELSE i + 1
At(k, i) ==
  /\ i \in 0 .. LastIndex(k)
  /\ pc[Loop] \in {"load", "store"} => iteration[k] = i
  /\ pc[Loop] = "store" => tmp[Loop] = i
  /\ pc[Loop] \in {"test", "lock", "reset"} => iteration[k] = i + 1
  /\ pc[Loop] \in {"lock", "reset"} => i = LastIndex(k)
  /\ pc[Loop] \in {"tag", "check"} => iteration[k] = Wrapped(k, i)
  /\ pc[Loop] \in {"reset", "tag", "check"} /\ FirstPass(k) => i < LastIndex(k)

WaitingOK(k) == Waiting(k) /\ ~NoneActive(k) => Turn(k, iteration[k])
WalkedOK(k) ==
  Walked(k) => /\ At(k, item[Loop][k])
               /\ ~NoneActive(k) => Turn(k, item[Loop][k])
HeldOK(k) ==
  Held(k) => IF NoneActive(k) THEN k = "row" /\ item[Loop][k] = NoRow
             ELSE /\ Due(k, Resume(k), item[Loop][k])
                  /\ iteration[k] = Wrapped(k, item[Loop][k])
                  /\ FirstPass(k) => /\ Resume(k) <= item[Loop][k]
                                     /\ item[Loop][k] < LastIndex(k)
Rowless ==
  pc[Loop] \in Walk \cup {"read"} /\ kind[Loop] = "payload" => item[Loop]["row"] = NoRow

\* An iteration starts only while no list that is not looped has gone back.
PastOK ==
  pc[Loop] \in Walk \cup {"read", "send"} =>
    \A n \in DOMAIN tried : \A k \in Kinds : ~NoneActive(k) /\ GoesBack(k, n) => Looped(k)

OrderInv ==
  tagChanges = 0 /\ ~Triggered =>
    /\ InConfiguredOrder /\ Rowless /\ PastOK
    /\ \A k \in Kinds : WaitingOK(k) /\ WalkedOK(k) /\ HeldOK(k)

LEMMA TurnPast ==
  ASSUME NEW k \in Kinds, NEW p \in Int, SameTurn(k, p), ~ActiveAt(k, p)
  PROVE  SameTurn(k, p + 1)
<1>1. ASSUME NEW i \in Int, Due(k, p + 1, i) PROVE Due(k, p, i)
  <2>1. ActiveAt(k, i) /\ i # p
    BY <1>1 DEF Due
  <2>2. ASSUME NEW j \in Skipped(k, p, i), j # p PROVE j \in Skipped(k, p + 1, i)
    BY <2>1, <2>2, ListsStart DEF Skipped
  <2>3. \A j \in Skipped(k, p, i) : ~ActiveAt(k, j)
    BY <1>1, <2>2 DEF Due
  <2>. QED
    BY <2>1, <2>3 DEF Due
<1>. QED
  BY <1>1 DEF SameTurn

LEMMA TurnWraps ==
  ASSUME NEW k \in Kinds, NEW p \in Int, p > LastIndex(k), NEW i \in Int, Due(k, 0, i)
  PROVE  Due(k, p, i)
<1>1. i \in 0 .. LastIndex(k)
  BY DEF Due, ActiveAt
<1>2. Skipped(k, p, i) \subseteq Skipped(k, 0, i)
  BY <1>1, ListsStart DEF Skipped
<1>. QED
  BY <1>2 DEF Due

\* The search that leaves an inactive item behind.
LEMMA TurnMoves ==
  ASSUME NEW k \in Kinds, NEW i \in 0 .. LastIndex(k), SameTurn(k, i), ~ActiveAt(k, i)
  PROVE  SameTurn(k, Wrapped(k, i))
<1>1. SameTurn(k, i + 1)
  BY TurnPast
<1>2. CASE i + 1 > LastIndex(k)
  <2>1. \A j \in Int : Due(k, 0, j) => Due(k, i + 1, j)
    BY <1>2, TurnWraps
  <2>. QED
    BY <1>1, <1>2, <2>1 DEF SameTurn, Wrapped
<1>3. CASE ~(i + 1 > LastIndex(k))
  BY <1>1, <1>3 DEF Wrapped
<1>. QED
  BY <1>2, <1>3

\* The search from an active item finds that item.
LEMMA TurnCome ==
  ASSUME NEW k \in Kinds, NEW i \in 0 .. LastIndex(k), SameTurn(k, i), ActiveAt(k, i)
  PROVE  Due(k, Resume(k), i)
<1>1. Skipped(k, i, i) = {}
  BY DEF Skipped
<1>. QED
  BY <1>1, ListsStart DEF Due, SameTurn

LEMMA ActiveItem ==
  ASSUME NEW k \in Kinds, NEW i \in 0 .. LastIndex(k)
  PROVE  /\ ActiveAt(k, i) <=> Active(Items(k)[i + 1])
         /\ ActiveAt(k, i) => ~NoneActive(k)
<1>1. i + 1 \in DOMAIN Items(k)
  BY ProducerAssumption DEF ProducerAssumption, Items, LastIndex
<1>. QED
  BY <1>1 DEF ActiveAt, NoneActive

LEMMA InitOrder == Init => OrderInv
<1> SUFFICES ASSUME Init PROVE OrderInv
  OBVIOUS
<1>1. \A k \in Kinds : Turn(k, iteration[k])
  BY DEF Init, SameTurn, Turn, Resume
<1>2. pc[Loop] = "top" /\ tried = <<>>
  <2>1. Loop \in Threads
    OBVIOUS
  <2>. QED
    BY <2>1 DEF Init
<1>. QED
  BY <1>1, <1>2 DEF OrderInv, InConfiguredOrder, Rowless, PastOK, WaitingOK, WalkedOK, HeldOK,
     Waiting, Walked, Held, Walk

\* What a step that hands nothing to the broker leaves as it was.
Kept == \A k \in Kinds : locked[k] => locked'[k]

LEMMA NothingSent ==
  ASSUME UNCHANGED <<tried, tags>>, Kept
  PROVE  /\ \A k \in Kinds : NoneActive(k)' <=> NoneActive(k)
         /\ \A k \in Kinds : Resume(k)' = Resume(k)
         /\ \A k \in Kinds : FirstPass(k)' => FirstPass(k)
         /\ \A k \in Kinds, p, i \in Int : Due(k, p, i)' <=> Due(k, p, i)
         /\ \A k \in Kinds, p \in Int : SameTurn(k, p) => SameTurn(k, p)'
         /\ \A k \in Kinds, p \in Int : Turn(k, p) => Turn(k, p)'
         /\ tagChanges = 0 /\ ~Triggered /\ InConfiguredOrder => InConfiguredOrder'
         /\ PastOK /\ (pc'[Loop] \in Walk \cup {"read", "send"} =>
                         pc[Loop] \in Walk \cup {"read", "send"}) => PastOK'
<1>1. \A k \in Kinds : (NoneActive(k)' <=> NoneActive(k)) /\ Resume(k)' = Resume(k)
  BY DEF NoneActive, Active, Resume
<1>2. \A k, p, i : Due(k, p, i)' <=> Due(k, p, i)
  BY DEF Due, ActiveAt, Active
<1>3. \A k \in Kinds, p \in Int : SameTurn(k, p) => SameTurn(k, p)'
  BY <1>1, <1>2 DEF SameTurn
<1>4. \A k \in Kinds : FirstPass(k)' => FirstPass(k)
  BY DEF FirstPass, Kept
<1>5. \A k \in Kinds, p \in Int : Turn(k, p) => Turn(k, p)'
  BY <1>1, <1>3, <1>4 DEF Turn
<1>6. \A k, n : GoesBack(k, n)' <=> GoesBack(k, n)
  BY DEF GoesBack
<1>7. tagChanges = 0 /\ ~Triggered /\ InConfiguredOrder => InConfiguredOrder'
  <2> SUFFICES ASSUME tagChanges = 0, ~Triggered, InConfiguredOrder,
                      NEW n \in DOMAIN tried, NEW k \in Kinds
               PROVE  IF NoneActive(k)' THEN tried[n][k] = NoRow
                      ELSE /\ Due(k, IF n = 1 THEN 0 ELSE tried[n - 1][k] + 1, tried[n][k])'
                           /\ GoesBack(k, n)' => Looped(k) \/ (locked'[k] /\ n = Len(tried))
    BY DEF InConfiguredOrder
  <2>1. IF NoneActive(k) THEN tried[n][k] = NoRow
        ELSE /\ Due(k, IF n = 1 THEN 0 ELSE tried[n - 1][k] + 1, tried[n][k])
             /\ GoesBack(k, n) => Looped(k) \/ (locked[k] /\ n = Len(tried))
    BY DEF InConfiguredOrder
  <2>. QED
    BY <1>1, <1>2, <1>6, <2>1 DEF Kept
<1>8. PastOK /\ (pc'[Loop] \in Walk \cup {"read", "send"} =>
                   pc[Loop] \in Walk \cup {"read", "send"}) => PastOK'
  BY <1>1, <1>6 DEF PastOK
<1>. QED
  BY <1>1, <1>2, <1>3, <1>4, <1>5, <1>7, <1>8

\* A step that hands nothing to the broker, at the walk's own item.
LEMMA TurnKept ==
  ASSUME NEW k \in Kinds, NEW i \in 0 .. LastIndex(k), Turn(k, i), ~ActiveAt(k, i),
         FirstPass(k) => i < LastIndex(k), Resume(k) \in Int
  PROVE  Turn(k, Wrapped(k, i))
<1>1. SameTurn(k, Wrapped(k, i))
  BY TurnMoves DEF Turn
<1>2. FirstPass(k) => Resume(k) <= Wrapped(k, i)
  BY ListsStart DEF Turn, Wrapped
<1>. QED
  BY <1>1, <1>2 DEF Turn

\* The locks are never taken back, and neither is an accepted trigger.
LEMMA LocksKept == TypeOK /\ [Next]_vars => Kept
<1> SUFFICES ASSUME TypeOK, [Next]_vars PROVE Kept
  OBVIOUS
<1>1. \/ locked' = locked
      \/ \E k \in Kinds : locked' = [locked EXCEPT ![k] = TRUE]
  <2>1. ASSUME NEW t \in Threads, SetLock(t)
        PROVE  \E k \in Kinds : locked' = [locked EXCEPT ![k] = TRUE]
    BY <2>1 DEF SetLock, TypeOK
  <2>2. ASSUME NEW t \in Threads, Produce(t), ~SetLock(t) PROVE locked' = locked
    BY <2>2 DEF Produce, shared, ReadCurrent, LoadIteration, StoreIteration, TestEnd,
       ResetIteration, TestTag, CheckAny, Send, Refused, Raised, LoadCounter, StoreCounter
  <2>3. ASSUME NEW t \in Callers, TriggerByRequest(t) \/ TriggerByConsumer(t)
        PROVE  locked' = locked
    BY <2>3 DEF TriggerByRequest, TriggerByConsumer, Trigger, shared
  <2>4. LoopTop \/ LoopCount \/ Requests \/ UNCHANGED vars => locked' = locked
    BY DEF LoopTop, LoopCount, Requests, SetTags, ResetIterators, StopLoops, vars, shared
  <2>. QED
    BY <2>1, <2>2, <2>3, <2>4 DEF Next
<1>. QED
  BY <1>1 DEF Kept, TypeOK

LEMMA TriggersKept ==
  ASSUME TypeOK, [Next]_vars, ~Triggered'
  PROVE  /\ ~Triggered
         /\ \A t \in Callers : ~Produce(t)
         /\ \A t \in Callers :
              TriggerByRequest(t) \/ TriggerByConsumer(t) => GoTo(t, "refused")
<1>1. \A t \in Callers : t # Loop /\ t \in Threads
  BY ProducerAssumption DEF ProducerAssumption
<1>2. ASSUME NEW t \in Callers, Produce(t)
      PROVE  pc[t] \notin {"idle", "refused"} /\ pc'[t] \notin {"idle", "refused"}
  <2>1. pc \in [Threads -> Labels] /\ t \in Threads
    BY <1>1 DEF TypeOK
  <2>. QED
    BY <1>2, <2>1 DEF Produce, ReadCurrent, LoadIteration, StoreIteration, TestEnd, SetLock,
       ResetIteration, TestTag, Chosen, CheckAny, Hand, Send, Refused, Raised, LoadCounter,
       StoreCounter, GoTo
<1>3. \A t \in Callers : ~Produce(t)
  BY <1>2 DEF Triggered
<1>4. ASSUME NEW t \in Callers, TriggerByRequest(t) \/ TriggerByConsumer(t)
      PROVE  GoTo(t, "refused") /\ pc[t] = "idle"
  <2>1. PICK refused : Trigger(t, refused)
    BY <1>4 DEF TriggerByRequest, TriggerByConsumer
  <2>2. ~StartProduce(t)
    BY <1>1 DEF StartProduce, Triggered, TypeOK
  <2>. QED
    BY <2>1, <2>2 DEF Trigger
<1>5. ASSUME NEW t \in Callers PROVE pc[t] \in {"idle", "refused"}
  <2>1. pc'[t] \in {"idle", "refused"}
    BY DEF Triggered
  <2>2. CASE LoopTop \/ LoopCount
    BY <1>1, <2>1, <2>2 DEF LoopTop, LoopCount, StartProduce, GoTo, TypeOK
  <2>3. ASSUME NEW u \in Callers, TriggerByRequest(u) \/ TriggerByConsumer(u)
        PROVE  pc[t] \in {"idle", "refused"}
    BY <1>1, <1>4, <2>1, <2>3 DEF GoTo, TypeOK
  <2>4. CASE Produce(Loop)
    <3>1. pc'[t] = pc[t]
      BY <1>1, <2>4 DEF Produce, ReadCurrent, LoadIteration, StoreIteration, TestEnd, SetLock,
         ResetIteration, TestTag, Chosen, CheckAny, Hand, Send, Refused, Raised, LoadCounter,
         StoreCounter, GoTo, TypeOK
    <3>. QED
      BY <2>1, <3>1
  <2>5. CASE Requests \/ UNCHANGED vars
    BY <2>1, <2>5 DEF Requests, SetTags, ResetIterators, StopLoops, vars
  <2>. QED
    BY <1>3, <2>2, <2>3, <2>4, <2>5 DEF Next
<1>. QED
  BY <1>3, <1>4, <1>5 DEF Triggered

LEMMA ElementIn ==
  ASSUME NEW S, NEW s \in Seq(S), NEW i \in DOMAIN s
  PROVE  s[i] \in S
  OBVIOUS

LEMMA LoopType ==
  ASSUME TypeOK
  PROVE  /\ Loop \in Threads /\ pc[Loop] \in Labels /\ kind[Loop] \in Kinds
         /\ \A k \in Kinds : iteration[k] \in Nat
         /\ \A k \in Kinds : item[Loop][k] \in Int
         /\ tmp[Loop] \in Nat
         /\ \A k \in Kinds : Resume(k) \in Int
<1>1. \A k \in Kinds : Resume(k) \in Int
  <2>1. CASE tried = <<>>
    BY <2>1 DEF Resume
  <2>2. CASE tried # <<>>
    <3>1. /\ tried \in Seq([Kinds -> Nat \cup {NoRow}])
          /\ Len(tried) \in DOMAIN tried
      BY <2>2 DEF TypeOK
    <3>2. tried[Len(tried)] \in [Kinds -> Nat \cup {NoRow}]
      BY <3>1, ElementIn
    <3>3. \A k \in Kinds : tried[Len(tried)][k] \in Int
      BY <3>2
    <3>. QED
      BY <2>2, <3>3 DEF Resume
  <2>. QED
    BY <2>1, <2>2
<1>2. Loop \in Threads
  OBVIOUS
<1>3. \A k \in Kinds : item[Loop][k] \in Int
  BY <1>2 DEF TypeOK
<1>. QED
  BY <1>1, <1>2, <1>3 DEF TypeOK

\* A step that sends nothing and leaves the walks where they are.
LEMMA StayInOrder ==
  ASSUME TypeOK, OrderInv, tagChanges = 0, ~Triggered, Kept,
         UNCHANGED <<tried, tags, iteration>>,
         \A k \in Kinds : item'[Loop][k] = item[Loop][k], tmp'[Loop] = tmp[Loop],
         kind'[Loop] = kind[Loop], pc'[Loop] = pc[Loop]
  PROVE  OrderInv'
<1>1. InConfiguredOrder' /\ Rowless' /\ PastOK'
  BY NothingSent, LoopType DEF OrderInv, Rowless
<1>2. ASSUME NEW k \in Kinds PROVE (WaitingOK(k) /\ WalkedOK(k) /\ HeldOK(k))'
  <2>1. WaitingOK(k) /\ WalkedOK(k) /\ HeldOK(k)
    BY DEF OrderInv
  <2>2. (Waiting(k)' <=> Waiting(k)) /\ (Walked(k)' <=> Walked(k)) /\ (Held(k)' <=> Held(k))
    BY DEF Waiting, Walked, Held
  <2>3. WaitingOK(k)'
    BY <2>1, <2>2, NothingSent, LoopType DEF WaitingOK
  <2>4. WalkedOK(k)'
    BY <2>1, <2>2, NothingSent, LoopType DEF WalkedOK, At, Wrapped
  <2>5. HeldOK(k)'
    BY <2>1, <2>2, NothingSent, LoopType DEF HeldOK, Wrapped
  <2>. QED
    BY <2>3, <2>4, <2>5
<1>. QED
  BY <1>1, <1>2 DEF OrderInv

\* A step within a walk leaves the other list where it was.
LEMMA OtherList ==
  ASSUME TypeOK, OrderInv, tagChanges = 0, ~Triggered, Kept, UNCHANGED <<tried, tags>>,
         kind'[Loop] = kind[Loop], pc[Loop] \in Walk \cup {"read"},
         pc'[Loop] \in Walk \cup {"read"}, NEW k \in Kinds, k # kind[Loop],
         iteration'[k] = iteration[k], item'[Loop][k] = item[Loop][k]
  PROVE  (WaitingOK(k) /\ WalkedOK(k) /\ HeldOK(k))'
<1>1. WaitingOK(k) /\ HeldOK(k)
  BY DEF OrderInv
<1>2. (Waiting(k)' <=> Waiting(k)) /\ (Held(k)' <=> Held(k)) /\ ~Walked(k)'
  BY DEF Waiting, Held, Walked, Walk
<1>3. WaitingOK(k)'
  BY <1>1, <1>2, NothingSent, LoopType DEF WaitingOK
<1>4. HeldOK(k)'
  BY <1>1, <1>2, NothingSent, LoopType DEF HeldOK, Wrapped
<1>. QED
  BY <1>2, <1>3, <1>4 DEF WalkedOK

\* A step of the walk that stays at its item.
LEMMA WalkOn ==
  ASSUME TypeOK, OrderInv, tagChanges = 0, ~Triggered, Kept,
         UNCHANGED <<tried, tags, kind, item>>,
         pc[Loop] \in Walk, pc'[Loop] \in Walk,
         \A k \in Kinds : k # kind[Loop] => iteration'[k] = iteration[k],
         At(kind[Loop], item[Loop][kind[Loop]])'
  PROVE  OrderInv'
<1>1. ASSUME NEW k \in Kinds, k # kind[Loop]
      PROVE  (WaitingOK(k) /\ WalkedOK(k) /\ HeldOK(k))'
  BY <1>1, OtherList
<1>2. ASSUME NEW k \in Kinds, k = kind[Loop]
      PROVE  (WaitingOK(k) /\ WalkedOK(k) /\ HeldOK(k))'
  <2>1. ~Waiting(k)' /\ ~Held(k)'
    BY <1>2 DEF Waiting, Held, Walk
  <2>2. WalkedOK(k) /\ Walked(k)
    BY <1>2 DEF OrderInv, Walked
  <2>3. At(k, item[Loop][k])'
    BY <1>2
  <2>4. ~NoneActive(k)' => Turn(k, item[Loop][k])'
    BY <2>2, NothingSent, LoopType DEF WalkedOK
  <2>. QED
    BY <2>1, <2>3, <2>4 DEF WaitingOK, WalkedOK, HeldOK
<1>3. InConfiguredOrder' /\ Rowless' /\ PastOK'
  BY NothingSent DEF OrderInv, Rowless
<1>. QED
  BY <1>1, <1>2, <1>3 DEF OrderInv

LEMMA NextOrder ==
  ASSUME TypeOK, OrderInv, [Next]_vars
  PROVE  OrderInv'
<1> SUFFICES ASSUME tagChanges' = 0, ~Triggered' PROVE OrderInv'
  BY DEF OrderInv
<1> USE DEF shared, history, Rest
<1>0. /\ Kept /\ ~Triggered /\ \A t \in Callers : ~Produce(t)
      /\ \A t \in Callers :
           TriggerByRequest(t) \/ TriggerByConsumer(t) => GoTo(t, "refused")
  BY LocksKept, TriggersKept
<1>9. tagChanges = 0 /\ ~SetTags
  <2>1. tagChanges \in Nat
    BY Bounds DEF TypeOK
  <2>2. ~SetTags
    BY <2>1 DEF SetTags
  <2>3. ASSUME NEW t \in Threads, Produce(t) PROVE tagChanges' = tagChanges
    BY <2>3 DEF Produce, ReadCurrent, LoadIteration, StoreIteration, TestEnd, SetLock,
       ResetIteration, TestTag, CheckAny, Send, Refused, Raised, LoadCounter, StoreCounter
  <2>4. ASSUME NEW t \in Callers, TriggerByRequest(t) \/ TriggerByConsumer(t)
        PROVE  tagChanges' = tagChanges
    BY <2>4 DEF TriggerByRequest, TriggerByConsumer, Trigger
  <2>5. LoopTop \/ LoopCount \/ ResetIterators \/ StopLoops \/ UNCHANGED vars
        => tagChanges' = tagChanges
    BY DEF LoopTop, LoopCount, ResetIterators, StopLoops, vars
  <2>. QED
    BY <2>2, <2>3, <2>4, <2>5 DEF Next, Requests
<1>1. tagChanges = 0 /\ ~SetTags /\ Kept /\ ~Triggered
  BY <1>0, <1>9
<1>2. OrderInv /\ InConfiguredOrder /\ Rowless /\ PastOK
  BY <1>1 DEF OrderInv
<1>3. \A k \in Kinds : WaitingOK(k) /\ WalkedOK(k) /\ HeldOK(k)
  BY <1>1 DEF OrderInv
<1>4. CASE LoopTop
  <2>1. UNCHANGED <<tried, tags, iteration>>
    BY <1>4 DEF LoopTop
  <2>2. CASE GoTo(Loop, "done")
    <3>1. pc'[Loop] = "done"
      BY <2>2, LoopType DEF GoTo, TypeOK
    <3>. QED
      BY <1>1, <1>2, <2>1, <3>1, <1>1, NothingSent DEF OrderInv, Rowless, WaitingOK, WalkedOK,
         HeldOK, Waiting, Walked, Held, Walk
  <2>3. CASE StartProduce(Loop)
    <3>1. /\ pc'[Loop] = "read" /\ kind'[Loop] = "payload"
          /\ item'[Loop]["row"] = NoRow
      BY <2>3, LoopType DEF StartProduce, TypeOK
    <3>2. ASSUME NEW k \in Kinds PROVE WaitingOK(k)'
      <4>1. Waiting(k)
        BY <1>4 DEF LoopTop, Waiting
      <4>. QED
        BY <1>1, <1>3, <2>1, <4>1, NothingSent, LoopType DEF WaitingOK
    \* Nothing has gone back: what did is locked, and the loop would have ended.
    <3>3. PastOK'
      <4>1. SUFFICES ASSUME NEW m \in DOMAIN tried, NEW k \in Kinds, ~NoneActive(k),
                            GoesBack(k, m), ~Looped(k)
                     PROVE  FALSE
        BY <1>1, <2>1, NothingSent DEF PastOK, GoesBack
      <4>2. locked[k]
        BY <1>1, <1>2, <4>1 DEF InConfiguredOrder
      <4>3. k = "row" => HasDataset
        BY <4>1, ProducerAssumption DEF ProducerAssumption, NoneActive, Items
      <4>4. ~LoopEnd
        BY <1>4, <2>3, LoopType DEF LoopTop, LoopGoesOn, StartProduce, GoTo, TypeOK
      <4>. QED
        BY <4>2, <4>3, <4>4 DEF LoopEnd
    <3>. QED
      BY <1>1, <1>2, <2>1, <3>1, <3>2, <3>3, NothingSent DEF OrderInv, Rowless, WalkedOK,
         HeldOK, Walked, Held, Walk
  <2>. QED
    BY <1>4, <2>2, <2>3 DEF LoopTop
<1>5. CASE LoopCount
  <2>1. UNCHANGED <<tried, tags, iteration>> /\ pc[Loop] = "returned" /\ pc'[Loop] = "top"
    BY <1>5, LoopType DEF LoopCount, GoTo, TypeOK
  <2>2. ASSUME NEW k \in Kinds PROVE WaitingOK(k)'
    BY <1>1, <1>3, <2>1, NothingSent, LoopType DEF WaitingOK, Waiting
  <2>. QED
    BY <1>1, <1>2, <2>1, <2>2, NothingSent DEF OrderInv, Rowless, WalkedOK, HeldOK,
       Walked, Held, Walk
<1>6. CASE ResetIterators \/ StopLoops \/ UNCHANGED vars
  BY <1>1, <1>2, <1>6, StayInOrder DEF ResetIterators, StopLoops, vars
<1>8. ASSUME NEW t \in Callers, TriggerByRequest(t) \/ TriggerByConsumer(t)
      PROVE  OrderInv'
  <2>1. GoTo(t, "refused") /\ t # Loop /\ t \in Threads
    BY <1>0, <1>8, ProducerAssumption DEF ProducerAssumption
  <2>2. pc'[Loop] = pc[Loop] /\ UNCHANGED <<kind, item, tmp>>
    BY <2>1, LoopType DEF GoTo, TypeOK
  <2>3. UNCHANGED <<tried, tags, iteration>>
    BY <1>8 DEF TriggerByRequest, TriggerByConsumer, Trigger
  <2>. QED
    BY <1>1, <1>2, <2>2, <2>3, StayInOrder
<1>7. ASSUME Produce(Loop) PROVE OrderInv'
  <2> DEFINE k0 == kind[Loop]
             i0 == item[Loop][k0]
  <2>0. UNCHANGED tags /\ k0 \in Kinds /\ Loop \in Threads
    BY <1>7, LoopType DEF Produce, ReadCurrent, LoadIteration, StoreIteration, TestEnd,
       SetLock, ResetIteration, TestTag, CheckAny, Hand, Send, Raised, Refused, LoadCounter,
       StoreCounter
  <2>1. CASE ReadCurrent(Loop)
    <3>1. CASE GoTo(Loop, "dead")
      <4>1. pc'[Loop] = "dead"
        BY <3>1, LoopType DEF GoTo, TypeOK
      <4>. QED
        BY <1>1, <1>2, <2>0, <2>1, <4>1, NothingSent DEF ReadCurrent, OrderInv, Rowless,
           WaitingOK, WalkedOK, HeldOK, Waiting, Walked, Held, Walk
    <3>2. CASE iteration[k0] \in 0 .. LastIndex(k0)
      <4>1. /\ pc[Loop] = "read" /\ pc'[Loop] = "load" /\ UNCHANGED <<tried, iteration>>
            /\ kind'[Loop] = k0 /\ item'[Loop][k0] = iteration[k0]
            /\ \A k \in Kinds : k # k0 => item'[Loop][k] = item[Loop][k]
        BY <2>0, <2>1, <3>2 DEF ReadCurrent, TypeOK
      <4>2. ASSUME NEW k \in Kinds, k # k0
            PROVE  (WaitingOK(k) /\ WalkedOK(k) /\ HeldOK(k))'
        BY <1>1, <1>2, <2>0, <4>1, <4>2, OtherList DEF Walk
      <4>3. ASSUME NEW k \in Kinds, k = k0
            PROVE  (WaitingOK(k) /\ WalkedOK(k) /\ HeldOK(k))'
        <5>1. ~Waiting(k)' /\ ~Held(k)'
          BY <4>1, <4>3 DEF Waiting, Held, Walk
        <5>2. WaitingOK(k) /\ Waiting(k)
          BY <1>3, <4>1, <4>3 DEF Waiting
        <5>3. At(k, item[Loop][k])'
          BY <3>2, <4>1, <4>3, LoopType DEF At
        <5>4. ~NoneActive(k)' => Turn(k, item[Loop][k])'
          BY <1>1, <2>0, <4>1, <4>3, <5>2, NothingSent, LoopType DEF WaitingOK
        <5>. QED
          BY <5>1, <5>3, <5>4 DEF WaitingOK, WalkedOK, HeldOK
      <4>4. InConfiguredOrder' /\ Rowless' /\ PastOK'
        BY <1>1, <1>2, <2>0, <4>1, NothingSent DEF Rowless
      <4>. QED
        BY <4>2, <4>3, <4>4 DEF OrderInv
    <3>. QED
      BY <2>1, <3>1, <3>2 DEF ReadCurrent
  <2>2. ASSUME pc[Loop] \in Walk PROVE At(k0, i0) /\ (~NoneActive(k0) => Turn(k0, i0))
    BY <1>3, <2>0, <2>2 DEF Walked, WalkedOK
  <2>3. CASE LoadIteration(Loop)
    <3>1. /\ pc[Loop] = "load" /\ pc'[Loop] = "store" /\ tmp'[Loop] = iteration[k0]
          /\ UNCHANGED <<tried, tags, kind, item, iteration>>
      BY <2>0, <2>3 DEF LoadIteration, TypeOK
    <3>2. At(k0, i0)'
      BY <2>2, <3>1 DEF At, Walk
    <3>. QED
      BY <1>1, <1>2, <3>1, <3>2, WalkOn DEF Walk
  <2>4. CASE StoreIteration(Loop)
    <3>1. /\ pc[Loop] = "store" /\ pc'[Loop] = "test" /\ iteration'[k0] = tmp[Loop] + 1
          /\ UNCHANGED <<tried, tags, kind, item>>
          /\ \A k \in Kinds : k # k0 => iteration'[k] = iteration[k]
      BY <2>0, <2>4 DEF StoreIteration, GoTo, TypeOK
    <3>2. At(k0, i0)'
      BY <2>2, <3>1 DEF At, Walk
    <3>. QED
      BY <1>1, <1>2, <3>1, <3>2, WalkOn DEF Walk
  <2>5. CASE TestEnd(Loop)
    <3>1. /\ pc[Loop] = "test"
          /\ pc'[Loop] = IF ~PastEnd(k0) THEN "tag"
                         ELSE IF Looped(k0) THEN "reset" ELSE "lock"
          /\ UNCHANGED <<tried, tags, kind, item, iteration, locked>>
      BY <2>0, <2>5 DEF TestEnd, GoTo, TypeOK
    <3>2. At(k0, i0)'
      <4>1. i0 \in 0 .. LastIndex(k0) /\ iteration[k0] = i0 + 1
        BY <2>2, <3>1 DEF At, Walk
      <4>. QED
        BY <2>0, <3>1, <4>1, ListsStart DEF At, PastEnd, Wrapped, FirstPass
    <3>. QED
      BY <1>1, <1>2, <3>1, <3>2, WalkOn DEF Walk
  <2>6. CASE SetLock(Loop)
    <3>1. /\ pc[Loop] = "lock" /\ pc'[Loop] = "reset" /\ locked'[k0]
          /\ UNCHANGED <<tried, tags, kind, item, iteration>>
      BY <2>0, <2>6 DEF SetLock, GoTo, TypeOK
    <3>2. At(k0, i0)'
      BY <2>2, <3>1 DEF At, Walk, FirstPass
    <3>. QED
      BY <1>1, <1>2, <3>1, <3>2, WalkOn DEF Walk
  <2>7. CASE ResetIteration(Loop)
    <3>1. /\ pc[Loop] = "reset" /\ pc'[Loop] = "tag" /\ iteration'[k0] = 0
          /\ UNCHANGED <<tried, tags, kind, item>>
          /\ UNCHANGED locked
          /\ \A k \in Kinds : k # k0 => iteration'[k] = iteration[k]
      BY <2>0, <2>7 DEF ResetIteration, GoTo, TypeOK
    <3>2. At(k0, i0)'
      BY <2>0, <2>2, <3>1, ListsStart DEF At, Walk, Wrapped, FirstPass
    <3>. QED
      BY <1>1, <1>2, <3>1, <3>2, WalkOn DEF Walk
  \* The item that was walked to is active: it is the one whose turn it is.
  <2>8. ASSUME pc[Loop] = "tag", Active(Items(k0)[i0 + 1])
        PROVE  /\ ~NoneActive(k0) /\ Due(k0, Resume(k0), i0) /\ iteration[k0] = Wrapped(k0, i0)
               /\ FirstPass(k0) => Resume(k0) <= i0 /\ i0 < LastIndex(k0)
    <3>1. At(k0, i0) /\ (~NoneActive(k0) => Turn(k0, i0)) /\ i0 \in 0 .. LastIndex(k0)
      BY <2>2, <2>8 DEF Walk, At
    <3>2. ActiveAt(k0, i0) /\ ~NoneActive(k0)
      BY <2>0, <2>8, <3>1, ActiveItem
    <3>. QED
      BY <2>0, <2>8, <3>1, <3>2, TurnCome DEF At, Turn
  <2>9. CASE TestTag(Loop)
    <3>1. pc[Loop] = "tag" /\ UNCHANGED <<tried, tags, item, iteration, locked>>
      BY <2>9 DEF TestTag, Chosen, GoTo
    <3>2. CASE ~Active(Items(k0)[i0 + 1]) /\ ~searching[Loop]
      <4>1. pc'[Loop] = "check" /\ UNCHANGED kind
        BY <2>0, <2>9, <3>2 DEF TestTag, GoTo, TypeOK
      <4>2. At(k0, i0)'
        BY <2>2, <3>1, <4>1 DEF At, Walk, Wrapped, FirstPass
      <4>. QED
        BY <1>1, <1>2, <3>1, <4>1, <4>2, WalkOn DEF Walk
    <3>3. CASE ~Active(Items(k0)[i0 + 1]) /\ searching[Loop]
      <4>1. pc'[Loop] = "read" /\ UNCHANGED kind
        BY <2>0, <2>9, <3>3 DEF TestTag, GoTo, TypeOK
      <4>2. ASSUME NEW k \in Kinds, k # k0
            PROVE  (WaitingOK(k) /\ WalkedOK(k) /\ HeldOK(k))'
        BY <1>1, <1>2, <2>0, <3>1, <4>1, <4>2, OtherList DEF Walk
      <4>3. ASSUME NEW k \in Kinds, k = k0
            PROVE  (WaitingOK(k) /\ WalkedOK(k) /\ HeldOK(k))'
        <5>1. ~Walked(k)' /\ ~Held(k)'
          BY <4>1, <4>3 DEF Walked, Held, Walk
        <5>2. ~NoneActive(k) => Turn(k, iteration[k])
          <6>1. SUFFICES ASSUME ~NoneActive(k0) PROVE Turn(k0, iteration[k0])
            BY <4>3
          <6>2. /\ Turn(k0, i0) /\ i0 \in 0 .. LastIndex(k0)
                /\ iteration[k0] = Wrapped(k0, i0)
                /\ FirstPass(k0) => i0 < LastIndex(k0)
            BY <2>2, <3>1, <6>1 DEF Walk, At
          <6>3. ~ActiveAt(k0, i0)
            BY <2>0, <3>3, <6>2, ActiveItem
          <6>. QED
            BY <2>0, <6>2, <6>3, TurnKept, LoopType
        <5>3. ~NoneActive(k)' => Turn(k, iteration[k])'
          BY <1>1, <2>0, <3>1, <5>2, NothingSent, LoopType
        <5>. QED
          BY <5>1, <5>3 DEF WaitingOK, WalkedOK, HeldOK
      <4>4. InConfiguredOrder' /\ Rowless' /\ PastOK'
        BY <1>1, <1>2, <2>0, <3>1, <4>1, NothingSent DEF Rowless, Walk
      <4>. QED
        BY <4>2, <4>3, <4>4 DEF OrderInv
    <3>4. CASE Active(Items(k0)[i0 + 1]) /\ k0 = "payload" /\ HasDataset
      <4>1. pc'[Loop] = "read" /\ kind'[Loop] = "row"
        BY <2>0, <2>9, <3>4 DEF TestTag, Chosen, TypeOK
      <4>2. HeldOK("payload")'
        <5>1. LET i == item[Loop]["payload"]
              IN  /\ ~NoneActive("payload") /\ Due("payload", Resume("payload"), i)
                  /\ iteration["payload"] = Wrapped("payload", i)
                  /\ FirstPass("payload") => Resume("payload") <= i /\ i < LastIndex("payload")
          BY <2>8, <3>1, <3>4
        <5>. QED
          BY <1>1, <2>0, <3>1, <5>1, NothingSent, LoopType DEF HeldOK, Wrapped
      <4>3. WaitingOK("row")'
        <5>1. WaitingOK("row") /\ Waiting("row")
          BY <1>3, <3>1, <3>4 DEF Waiting, Walk
        <5>. QED
          BY <1>1, <2>0, <3>1, <5>1, NothingSent, LoopType DEF WaitingOK
      <4>4. /\ ~Held("row")' /\ ~Waiting("payload")'
            /\ ~Walked("row")' /\ ~Walked("payload")'
        BY <4>1 DEF Held, Waiting, Walked, Walk
      <4>5. InConfiguredOrder' /\ Rowless' /\ PastOK'
        BY <1>1, <1>2, <2>0, <3>1, <4>1, NothingSent DEF Rowless, Walk
      <4>. QED
        BY <4>2, <4>3, <4>4, <4>5 DEF OrderInv, WaitingOK, WalkedOK, HeldOK
    <3>5. CASE Active(Items(k0)[i0 + 1]) /\ ~(k0 = "payload" /\ HasDataset)
      <4>1. pc'[Loop] = "send" /\ UNCHANGED kind
        BY <2>0, <2>9, <3>5 DEF TestTag, Chosen, GoTo, TypeOK
      <4>2. ASSUME NEW k \in Kinds, k = k0 PROVE HeldOK(k)'
        <5>1. /\ ~NoneActive(k) /\ Due(k, Resume(k), item[Loop][k])
              /\ iteration[k] = Wrapped(k, item[Loop][k])
              /\ FirstPass(k) => Resume(k) <= item[Loop][k] /\ item[Loop][k] < LastIndex(k)
          BY <2>8, <3>1, <3>5, <4>2
        <5>. QED
          BY <1>1, <2>0, <3>1, <5>1, NothingSent, LoopType DEF HeldOK, Wrapped
      <4>3. ASSUME k0 = "payload" PROVE HeldOK("row")'
        <5>1. NoneActive("row")' /\ item[Loop]["row"] = NoRow
          BY <1>2, <3>1, <3>5, <4>3, ProducerAssumption DEF ProducerAssumption, NoneActive, Items, Rowless, Walk
        <5>. QED
          BY <3>1, <5>1 DEF HeldOK
      <4>4. ASSUME k0 = "row" PROVE HeldOK("payload")'
        <5>1. HeldOK("payload") /\ Held("payload")
          BY <1>3, <3>1, <4>4 DEF Held, Walk
        <5>. QED
          BY <1>1, <2>0, <3>1, <5>1, NothingSent, LoopType DEF HeldOK, Wrapped
      <4>5. \A k \in Kinds : HeldOK(k)'
        BY <2>0, <4>2, <4>3, <4>4
      <4>6. \A k \in Kinds : ~Waiting(k)' /\ ~Walked(k)'
        BY <4>1 DEF Waiting, Walked, Walk
      <4>7. InConfiguredOrder' /\ Rowless' /\ PastOK'
        BY <1>1, <1>2, <2>0, <3>1, <4>1, NothingSent DEF Rowless, Walk
      <4>. QED
        BY <4>5, <4>6, <4>7 DEF OrderInv, WaitingOK, WalkedOK
    <3>. QED
      BY <3>2, <3>3, <3>4, <3>5
  <2>10. CASE CheckAny(Loop)
    <3>1. pc[Loop] = "check" /\ UNCHANGED <<tried, tags, iteration, locked>>
      BY <2>10 DEF CheckAny
    <3>2. CASE ~NoneActive(k0)
      <4>1. pc'[Loop] = "tag" /\ UNCHANGED <<kind, item>>
        BY <2>0, <2>10, <3>2 DEF CheckAny, TypeOK
      <4>2. At(k0, i0)'
        BY <2>2, <3>1, <4>1 DEF At, Walk, Wrapped, FirstPass
      <4>. QED
        BY <1>1, <1>2, <3>1, <4>1, <4>2, WalkOn DEF Walk
    <3>3. CASE NoneActive(k0) /\ k0 = "payload"
      <4>1. pc'[Loop] = "returned" /\ UNCHANGED <<kind, item>>
        BY <2>0, <2>10, <3>3 DEF CheckAny, GoTo, TypeOK
      <4>2. WaitingOK("row")'
        <5>1. WaitingOK("row") /\ Waiting("row")
          BY <1>3, <3>1, <3>3 DEF Waiting, Walk
        <5>. QED
          BY <1>1, <2>0, <3>1, <5>1, NothingSent, LoopType DEF WaitingOK
      <4>3. WaitingOK("payload")'
        BY <1>1, <2>0, <3>1, <3>3, NothingSent DEF WaitingOK
      <4>4. \A k \in Kinds : ~Held(k)' /\ ~Walked(k)'
        BY <4>1 DEF Held, Walked, Walk
      <4>5. InConfiguredOrder' /\ Rowless' /\ PastOK'
        BY <1>1, <1>2, <2>0, <3>1, <4>1, NothingSent DEF Rowless, Walk
      <4>. QED
        BY <4>2, <4>3, <4>4, <4>5 DEF OrderInv, HeldOK, WalkedOK
    <3>4. CASE NoneActive(k0) /\ k0 = "row"
      <4>1. /\ pc'[Loop] = "send" /\ UNCHANGED kind /\ item'[Loop]["row"] = NoRow
            /\ item'[Loop]["payload"] = item[Loop]["payload"]
        <5>1. item' = [item EXCEPT ![Loop]["row"] = NoRow] /\ UNCHANGED kind
              /\ pc' = [pc EXCEPT ![Loop] = "send"]
          BY <2>0, <2>10, <3>4 DEF CheckAny
        <5>. QED
          BY <2>0, <5>1 DEF TypeOK
      <4>2. HeldOK("row")'
        BY <1>1, <2>0, <3>1, <3>4, <4>1, NothingSent DEF HeldOK
      <4>3. HeldOK("payload")'
        <5>1. HeldOK("payload") /\ Held("payload")
          BY <1>3, <3>1, <3>4 DEF Held, Walk
        <5>. QED
          BY <1>1, <2>0, <3>1, <4>1, <5>1, NothingSent, LoopType DEF HeldOK, Wrapped
      <4>4. \A k \in Kinds : ~Waiting(k)' /\ ~Walked(k)'
        BY <4>1 DEF Waiting, Walked, Walk
      <4>5. InConfiguredOrder' /\ Rowless' /\ PastOK'
        BY <1>1, <1>2, <2>0, <3>1, <4>1, NothingSent DEF Rowless, Walk
      <4>. QED
        BY <4>2, <4>3, <4>4, <4>5 DEF OrderInv, WaitingOK, WalkedOK
    <3>. QED
      BY <2>0, <3>2, <3>3, <3>4
  <2>11. CASE Send(Loop) \/ Refused(Loop) \/ Raised(Loop)
    <3>1. /\ pc[Loop] = "send" /\ pc'[Loop] \in {"finish", "returned", "dead"}
          /\ UNCHANGED <<tags, iteration, locked>>
          /\ tried' = Append(tried, item[Loop])
      BY <2>0, <2>11 DEF Hand, Send, Refused, Raised, GoTo, TypeOK
    <3>2. /\ Len(tried') = Len(tried) + 1 /\ DOMAIN tried' = 1 .. Len(tried) + 1
          /\ \A n \in 1 .. Len(tried) : tried'[n] = tried[n]
          /\ tried'[Len(tried) + 1] = item[Loop]
          /\ Len(tried) \in Nat /\ DOMAIN tried = 1 .. Len(tried)
      <4>1. tried \in Seq([Kinds -> Nat \cup {NoRow}])
        BY DEF TypeOK
      <4>. QED
        BY <3>1, <4>1
    <3>3. /\ \A k \in Kinds : NoneActive(k)' <=> NoneActive(k)
          /\ \A k, p, i : Due(k, p, i)' <=> Due(k, p, i)
          /\ \A k \in Kinds : FirstPass(k)' <=> FirstPass(k)
      BY <3>1 DEF NoneActive, Due, ActiveAt, Active, FirstPass
    <3>4. \A k \in Kinds : HeldOK(k) /\ Held(k)
      BY <1>3, <3>1 DEF Held
    <3>5. InConfiguredOrder'
      <4>1. SUFFICES ASSUME NEW n \in 1 .. Len(tried) + 1, NEW k \in Kinds
                     PROVE  IF NoneActive(k) THEN tried'[n][k] = NoRow
                            ELSE /\ Due(k, IF n = 1 THEN 0 ELSE tried'[n - 1][k] + 1, tried'[n][k])
                                 /\ GoesBack(k, n)' =>
                                      Looped(k) \/ (locked[k] /\ n = Len(tried) + 1)
        BY <3>1, <3>2, <3>3 DEF InConfiguredOrder
      <4>2. CASE n \in 1 .. Len(tried)
        <5>1. n > 1 => n - 1 \in 1 .. Len(tried)
          BY <4>2, <3>2
        <5>2. IF NoneActive(k) THEN tried[n][k] = NoRow
              ELSE Due(k, IF n = 1 THEN 0 ELSE tried[n - 1][k] + 1, tried[n][k])
          BY <1>1, <1>2, <3>2, <4>2 DEF InConfiguredOrder
        <5>3. GoesBack(k, n)' => GoesBack(k, n)
          BY <3>2, <4>2, <5>1 DEF GoesBack
        <5>4. ~NoneActive(k) /\ GoesBack(k, n) => Looped(k)
          BY <1>2, <3>1, <3>2, <4>2 DEF PastOK
        <5>. QED
          BY <3>2, <4>2, <5>1, <5>2, <5>3, <5>4
      <4>3. CASE n = Len(tried) + 1
        <5>1. Resume(k) = IF n = 1 THEN 0 ELSE tried'[n - 1][k] + 1
          BY <3>2, <4>3 DEF Resume
        <5>2. ~NoneActive(k) /\ GoesBack(k, n)' => ~FirstPass(k)
          <6>1. ~NoneActive(k) /\ FirstPass(k) => Resume(k) <= item[Loop][k]
            BY <3>4 DEF HeldOK
          <6>2. item[Loop][k] \in Int /\ Resume(k) \in Int
            BY LoopType
          <6>3. GoesBack(k, n)' => n > 1 /\ item[Loop][k] <= tried'[n - 1][k]
            BY <3>2, <4>3 DEF GoesBack
          <6>4. n > 1 => tried'[n - 1][k] \in Int
            <7>1. n > 1 => n - 1 \in DOMAIN tried /\ tried'[n - 1] = tried[n - 1]
              BY <3>2, <4>3
            <7>2. tried \in Seq([Kinds -> Nat \cup {NoRow}])
              BY DEF TypeOK
            <7>3. n > 1 => tried[n - 1] \in [Kinds -> Nat \cup {NoRow}]
              BY <7>1, <7>2, ElementIn
            <7>. QED
              BY <7>1, <7>3
          <6>. QED
            BY <5>1, <6>1, <6>2, <6>3, <6>4
        <5>. QED
          BY <3>2, <3>4, <4>3, <5>1, <5>2 DEF HeldOK, FirstPass
      <4>. QED
        BY <3>2, <4>2, <4>3
    <3>6. ASSUME NEW k \in Kinds, ~NoneActive(k)' PROVE Turn(k, iteration[k])'
      <4>1. \E i \in 0 .. LastIndex(k) :
              /\ i = item[Loop][k] /\ iteration[k] = Wrapped(k, i)
              /\ FirstPass(k) => i < LastIndex(k)
        BY <3>3, <3>4, <3>6 DEF HeldOK, Due, ActiveAt
      <4>2. PICK i \in 0 .. LastIndex(k) :
              /\ i = item[Loop][k] /\ iteration[k] = Wrapped(k, i)
              /\ FirstPass(k) => i < LastIndex(k)
        BY <4>1
      <4>3. Resume(k)' = i + 1
        BY <3>2, <4>2 DEF Resume
      <4>4. \A j \in Int : Due(k, iteration[k], j) => Due(k, i + 1, j)
        BY <4>2, TurnWraps DEF Wrapped
      <4>5. \A j \in Int : Due(k, iteration[k], j)' => Due(k, Resume(k), j)'
        BY <3>1, <3>3, <4>3, <4>4
      <4>6. FirstPass(k)' => Resume(k)' <= iteration'[k]
        BY <3>1, <3>3, <4>2, <4>3, ListsStart DEF Wrapped
      <4>. QED
        BY <4>5, <4>6 DEF SameTurn, Turn
    <3>. QED
      BY <3>1, <3>5, <3>6 DEF OrderInv, Rowless, PastOK, WaitingOK, WalkedOK, HeldOK,
         Walked, Held, Walk
  <2>13. CASE LoadCounter(Loop) \/ StoreCounter(Loop)
    <3>1. /\ pc[Loop] \in {"finish", "count"} /\ pc'[Loop] \in {"count", "returned"}
          /\ UNCHANGED <<tried, tags, iteration>>
      BY <2>0, <2>13 DEF LoadCounter, StoreCounter, GoTo, TypeOK
    <3>2. ASSUME NEW k \in Kinds PROVE WaitingOK(k)'
      BY <1>1, <1>3, <3>1, NothingSent, LoopType DEF WaitingOK, Waiting
    <3>. QED
      BY <1>1, <1>2, <3>1, <3>2, NothingSent DEF OrderInv, Rowless, WalkedOK, HeldOK,
         Walked, Held, Walk
  <2>. QED
    BY <1>7, <2>1, <2>3, <2>4, <2>5, <2>6, <2>7, <2>9, <2>10, <2>11, <2>13
    DEF Produce
<1>. QED
  BY <1>0, <1>1, <1>4, <1>5, <1>6, <1>7, <1>8 DEF Next, Requests

\* Until a trigger is accepted, and whatever the broker does with the messages,
\* the loop hands the active payloads and rows to it in the order of the
\* configuration, for all lists, tags and limits; it goes back in a list that is
\* not looped only with its last message, the one that finds the list exhausted.
THEOREM ConfiguredOrder == Spec => []InConfiguredOrder
<1>1. TypeOK /\ OrderInv /\ [Next]_vars => OrderInv'
  BY NextOrder
<1>2. OrderInv => InConfiguredOrder
  BY DEF OrderInv, InConfiguredOrder
<1>. QED
  BY <1>1, <1>2, InitOrder, TypeCorrect, PTL DEF Spec
=============================================================================
