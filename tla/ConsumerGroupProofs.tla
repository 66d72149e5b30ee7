------------------------ MODULE ConsumerGroupProofs ------------------------
(***************************************************************************)
(* What holds of ConsumerGroup for every number of readers, every type of  *)
(* broker, all consumers and all streams of messages.                      *)
(***************************************************************************)
EXTENDS ConsumerGroup, FiniteSetTheorems, SequenceTheorems, WellFoundedInduction, TLAPS

(***************************************************************************)
(* Type correctness.                                                       *)
(***************************************************************************)
\* A set of consumers or messages has a least element.
LEMMA LeastExists ==
  ASSUME NEW S, S \subseteq Nat, S # {}
  PROVE  \E x \in S : \A y \in S : x <= y
  <1>. DEFINE Less == {p \in Nat \X Nat : p[1] < p[2]}
  <1>1. IsWellFoundedOn(Less, Nat)
    BY NatLessThanWellFounded DEF OpToRel
  <1>2. PICK x \in S : \A y \in S : <<y, x>> \notin Less
    <2>. HIDE DEF Less
    <2>. QED
      BY <1>1, WFMin
  <1>3. ASSUME NEW y \in S PROVE x <= y
    <2>1. x \in Nat /\ y \in Nat
      OBVIOUS
    <2>2. ~ (y < x)
      BY <1>2, <2>1
    <2>. QED
      BY <2>1, <2>2
  <1>. QED
    BY <1>3

\* What the sequence operators return, and an update of one sequence of many.
LEMMA SeqFacts ==
  ASSUME NEW T, NEW s \in Seq(T)
  PROVE  /\ \A i \in 1 .. Len(s) : s[i] \in T
         /\ \A e \in T : Append(s, e) \in Seq(T) /\ Len(Append(s, e)) = Len(s) + 1
         /\ s # <<>> => /\ Head(s) \in T /\ Tail(s) \in Seq(T)
                        /\ Len(Tail(s)) = Len(s) - 1
  OBVIOUS

LEMMA EmptySeqLen ==
  ASSUME NEW T, NEW s \in Seq(T)
  PROVE  Len(s) \in Nat /\ (s # <<>> <=> Len(s) # 0)
  OBVIOUS

LEMMA UpdateSeq ==
  ASSUME NEW I, NEW T, NEW f \in [I -> Seq(T)], NEW i \in I, NEW s \in Seq(T)
  PROVE  [f EXCEPT ![i] = s] \in [I -> Seq(T)]
  OBVIOUS

LEMMA ConstantsType ==
  /\ Ids \subseteq Nat \ {0} /\ Messages \subseteq Nat \ {0}
  /\ IsFiniteSet(Readers) /\ Shared \notin Readers
  /\ MaxDeletes \in Nat /\ Beyond \subseteq SUBSET Ids
  /\ \A c \in Ids : Consumers[c].capture \in Nat
  /\ backend \in Backends => Sent \subseteq Messages
<1>1. /\ IsFiniteSet(Readers) /\ Shared \notin Readers /\ MaxDeletes \in Nat
      /\ Stream \in Seq(Kinds) /\ Beyond \subseteq SUBSET Ids
      /\ Published \in [Backends -> 0 .. Len(Stream)]
      /\ Consumers \in Seq([matches : SUBSET Kinds, capture : Nat, produces : BOOLEAN])
  BY GroupAssumption DEF GroupAssumption
<1>2. Ids = 1 .. Len(Consumers) /\ Len(Consumers) \in Nat
  BY <1>1 DEF Ids
<1>3. Messages = 1 .. Len(Stream) /\ Len(Stream) \in Nat
  BY <1>1 DEF Messages
<1>4. ASSUME NEW c \in Ids PROVE Consumers[c].capture \in Nat
  <2>1. Consumers[c] \in [matches : SUBSET Kinds, capture : Nat, produces : BOOLEAN]
    BY <1>1, <1>2, SeqFacts
  <2>. QED
    BY <2>1
<1>5. ASSUME backend \in Backends PROVE Sent \subseteq Messages
  <2>1. Published[backend] \in 0 .. Len(Stream)
    BY <1>1, <1>5
  <2>. QED
    BY <1>3, <2>1 DEF Sent
<1>. QED
  BY <1>1, <1>2, <1>3, <1>4, <1>5

LEMMA MatchingType == \A kind : Matching(kind) \in Ids \cup {Nobody}
<1>1. TAKE kind
<1>2. CASE \E c \in Ids : kind \in Consumers[c].matches
  <2>. DEFINE S == {c \in Ids : kind \in Consumers[c].matches}
  <2>1. S \subseteq Nat /\ S # {}
    BY <1>2, ConstantsType
  <2>2. PICK x \in S : \A y \in S : x <= y
    BY <2>1, LeastExists
  <2>3. x \in Ids /\ kind \in Consumers[x].matches
        /\ \A d \in Ids : kind \in Consumers[d].matches => x <= d
    BY <2>2
  <2>. QED
    BY <1>2, <2>3 DEF Matching
<1>3. CASE ~ \E c \in Ids : kind \in Consumers[c].matches
  BY <1>3 DEF Matching
<1>. QED
  BY <1>2, <1>3

\* Where a reader's consumer and message are set.
Handling == {"log", "record", "testLog", "popLog", "testRecords", "popRecords", "react"}
Holding == Handling \cup {"match", "settle"}
Held ==
  \A r \in Readers :
    /\ pc[r] \in Handling => consumer[r] \in Ids
    /\ pc[r] \in Holding => message[r] \in Messages

LocalInv == TypeOK /\ Held

LEMMA InitLocal == Init => LocalInv
<1> SUFFICES ASSUME Init PROVE LocalInv
  OBVIOUS
<1>1. PICK started \in Starts : pc = [r \in Readers |-> IF r \in started THEN "top" ELSE "none"]
  BY DEF Init
<1>2. [i \in Sent |-> i] \in Seq(Messages)
  <2>1. Sent = 1 .. Published[backend] /\ Published[backend] \in Nat
    BY GroupAssumption DEF GroupAssumption, Init, Sent
  <2>2. Sent \subseteq Messages
    BY ConstantsType DEF Init
  <2>. QED
    BY <2>1, <2>2
<1>3. queue \in [Readers \cup {Shared} -> Seq(Messages)]
  BY <1>2 DEF Init
<1>4. <<>> \in Seq(Messages)
  OBVIOUS
<1>5. /\ log \in [Ids -> Seq(Messages)] /\ records \in [Ids -> Seq(Messages)]
      /\ captured \in [Ids -> Seq(Messages)] /\ recorded \in [Ids -> Seq(Messages)]
  BY <1>4 DEF Init
<1>6. /\ pc \in [Readers -> Labels] /\ backend \in Backends
      /\ message \in [Readers -> Messages \cup {Nobody}]
      /\ consumer \in [Readers -> Ids \cup {Nobody}]
      /\ late \in [Readers -> Nat]
  BY <1>1 DEF Init, Labels
<1>7. stop \in BOOLEAN /\ deletes \in 0 .. MaxDeletes /\ reacted \subseteq Messages
  <2>1. stop = FALSE /\ deletes = 0 /\ reacted = {} /\ owing = {}
    BY DEF Init
  <2>2. stop \in BOOLEAN /\ reacted \subseteq Messages
    BY <2>1
  <2>3. 0 \in 0 .. MaxDeletes
    BY ConstantsType
  <2>. QED
    BY <2>1, <2>2, <2>3
<1>8. TypeOK
  <2>1. uncounted \subseteq Ids
    BY ConstantsType DEF Init
  <2>2. returned \subseteq Messages /\ unfinished \in [Ids -> Nat]
    BY DEF Init
  <2>. QED
    BY <1>3, <1>5, <1>6, <1>7, <2>1, <2>2 DEF TypeOK, Init
<1>9. Held
  BY <1>1 DEF Held, Handling, Holding
<1>. QED
  BY <1>8, <1>9 DEF LocalInv

LEMMA SubscriptionType == \A r \in Readers : Subscription(r) \in Readers \cup {Shared}
  BY DEF Subscription

\* A step of a reader that keeps its locals, or has left the places that use
\* them, keeps Held.
LEMMA GoToHeld ==
  ASSUME LocalInv, NEW r \in Readers, NEW label \in Labels, GoTo(r, label),
         UNCHANGED <<message, consumer>>,
         label \in Handling => pc[r] \in Handling,
         label \in Holding => pc[r] \in Holding
  PROVE  pc' \in [Readers -> Labels] /\ Held'
  BY DEF LocalInv, TypeOK, Held, GoTo

\* A message sent again.
LEMMA SendKeeps ==
  ASSUME TypeOK, NEW s \in Readers \cup {Shared}, NEW m \in Messages,
         SendAgain(s, m) \/ UNCHANGED offers
  PROVE  /\ queue' \in [Readers \cup {Shared} -> Seq(Messages)]
         /\ returned' \subseteq Messages
<1>. USE DEF offers
<1>1. queue[s] \in Seq(Messages)
  BY DEF TypeOK
<1>2. Append(queue[s], m) \in Seq(Messages)
  BY <1>1, SeqFacts
<1>3. CASE SendAgain(s, m)
  <2>1. queue' = [queue EXCEPT ![s] = Append(queue[s], m)]
    BY <1>3 DEF SendAgain
  <2>. QED
    BY <1>2, <1>3, <2>1, UpdateSeq DEF SendAgain, TypeOK
<1>4. CASE UNCHANGED offers
  BY <1>4 DEF TypeOK
<1>. QED
  BY <1>3, <1>4

LEMMA FailKeeps ==
  ASSUME LocalInv, NEW r \in Readers, NEW error, Fail(r, error), pc[r] \in Holding,
         UNCHANGED <<message, consumer>>
  PROVE  /\ pc' \in [Readers -> Labels] /\ Held'
         /\ queue' \in [Readers \cup {Shared} -> Seq(Messages)]
         /\ returned' \subseteq Messages
  <1>1. message[r] \in Messages
    BY DEF LocalInv, Held
  <1>2. /\ queue' \in [Readers \cup {Shared} -> Seq(Messages)]
        /\ returned' \subseteq Messages
    BY <1>1, SubscriptionType, SendKeeps DEF LocalInv, Fail
  <1>3. pc' \in [Readers -> Labels] /\ Held'
    BY GoToHeld DEF Fail, Labels, Handling, Holding
  <1>. QED
    BY <1>2, <1>3

LEMMA NextLocal == LocalInv /\ [Next]_vars => LocalInv'
<1> SUFFICES ASSUME LocalInv, [Next]_vars PROVE LocalInv'
  OBVIOUS
<1> USE DEF history, stores, locals, setting, offers
<1> USE ConstantsType
<1>1. ASSUME NEW r \in Readers, Consume(r) \/ PollNothing(r)
      PROVE  LocalInv'
  <2>. DEFINE m == message[r]
              c == consumer[r]
  <2>1. CASE TestStop(r)
    <3>1. pc' \in [Readers -> Labels] /\ Held'
      BY <2>1, GoToHeld DEF TestStop, Labels, Handling, Holding
    <3>. QED
      BY <2>1, <3>1 DEF TestStop, LocalInv, TypeOK
  <2>2. CASE PollNothing(r)
    <3>1. pc' \in [Readers -> Labels] /\ Held'
      BY <2>2, GoToHeld DEF PollNothing, Labels, Handling, Holding
    <3>. QED
      BY <2>2, <3>1 DEF PollNothing, LocalInv, TypeOK
  <2>3. CASE Receive(r)
    <3>. DEFINE s == Subscription(r)
    <3>1. s \in Readers \cup {Shared} /\ queue[s] \in Seq(Messages) /\ queue[s] # <<>>
      BY <2>3, SubscriptionType DEF Receive, LocalInv, TypeOK
    <3>2. Head(queue[s]) \in Messages /\ Tail(queue[s]) \in Seq(Messages)
      BY <3>1
    <3>3. queue' \in [Readers \cup {Shared} -> Seq(Messages)]
      BY <2>3, <3>1, <3>2 DEF Receive, LocalInv, TypeOK
    <3>4. message' \in [Readers -> Messages \cup {Nobody}] /\ message'[r] \in Messages
      BY <2>3, <3>2 DEF Receive, LocalInv, TypeOK
    <3>5. pc' \in [Readers -> Labels] /\ late' \in [Readers -> Nat]
      BY <2>3 DEF Receive, GoTo, LocalInv, TypeOK, Labels
    <3>6. Held'
      BY <2>3, <3>4 DEF Receive, GoTo, LocalInv, TypeOK, Held, Handling, Holding
    <3>. QED
      BY <2>3, <3>3, <3>4, <3>5, <3>6 DEF Receive, LocalInv, TypeOK
  <2>4. CASE Match(r)
    <3>1. CASE Raises(m)
      <4>1. /\ pc' \in [Readers -> Labels] /\ Held'
            /\ queue' \in [Readers \cup {Shared} -> Seq(Messages)]
            /\ returned' \subseteq Messages
        BY <2>4, <3>1, FailKeeps DEF Match, Holding
      <4>. QED
        BY <2>4, <3>1, <4>1 DEF Match, LocalInv, TypeOK
    <3>2. CASE ~Raises(m)
      <4>. DEFINE found == Matching(Stream[m])
      <4>1. found \in Ids \cup {Nobody}
        BY MatchingType
      <4>. HIDE DEF found
      <4>2. /\ consumer' = [consumer EXCEPT ![r] = found] /\ UNCHANGED <<queue, returned, message>>
            /\ pc[r] = "match" /\ GoTo(r, IF found = Nobody THEN "settle" ELSE "log")
        BY <2>4, <3>2 DEF Match, found
      <4>3. consumer' \in [Readers -> Ids \cup {Nobody}] /\ pc' \in [Readers -> Labels]
        BY <4>1, <4>2 DEF GoTo, LocalInv, TypeOK, Labels
      <4>4. Held'
        BY <4>1, <4>2 DEF GoTo, LocalInv, TypeOK, Held, Handling, Holding
      <4>. QED
        BY <2>4, <4>2, <4>3, <4>4 DEF Match, LocalInv, TypeOK
    <3>. QED
      BY <3>1, <3>2
  <2>5. CASE AppendLog(r)
    <3>1. c \in Ids /\ m \in Messages
      BY <2>5 DEF AppendLog, LocalInv, Held, Handling, Holding
    <3>2. log' \in [Ids -> Seq(Messages)] /\ captured' \in [Ids -> Seq(Messages)]
      <4>1. /\ log \in [Ids -> Seq(Messages)] /\ captured \in [Ids -> Seq(Messages)]
            /\ log' = [log EXCEPT ![c] = Append(log[c], m)]
            /\ captured' = [captured EXCEPT ![c] = Append(captured[c], m)]
        BY <2>5 DEF AppendLog, LocalInv, TypeOK
      <4>2. log[c] \in Seq(Messages) /\ captured[c] \in Seq(Messages)
        BY <3>1, <4>1
      <4>3. Append(log[c], m) \in Seq(Messages) /\ Append(captured[c], m) \in Seq(Messages)
        BY <3>1, <4>2, SeqFacts
      <4>. QED
        BY <3>1, <4>1, <4>3, UpdateSeq
    <3>3. pc' \in [Readers -> Labels] /\ Held'
      BY <2>5, GoToHeld DEF AppendLog, Labels, Handling, Holding
    <3>. QED
      BY <2>5, <3>2, <3>3 DEF AppendLog, LocalInv, TypeOK
  <2>6. CASE AddRecord(r)
    <3>1. c \in Ids /\ m \in Messages
      BY <2>6 DEF AddRecord, LocalInv, Held, Handling, Holding
    <3>2. records' \in [Ids -> Seq(Messages)] /\ recorded' \in [Ids -> Seq(Messages)]
      <4>1. /\ records \in [Ids -> Seq(Messages)] /\ recorded \in [Ids -> Seq(Messages)]
            /\ records' = [records EXCEPT ![c] = Append(records[c], m)]
            /\ recorded' = [recorded EXCEPT ![c] = Append(recorded[c], m)]
        BY <2>6 DEF AddRecord, LocalInv, TypeOK
      <4>2. records[c] \in Seq(Messages) /\ recorded[c] \in Seq(Messages)
        BY <3>1, <4>1
      <4>3. Append(records[c], m) \in Seq(Messages) /\ Append(recorded[c], m) \in Seq(Messages)
        BY <3>1, <4>2, SeqFacts
      <4>. QED
        BY <3>1, <4>1, <4>3, UpdateSeq
    <3>3. pc' \in [Readers -> Labels] /\ Held'
      BY <2>6, GoToHeld DEF AddRecord, Labels, Handling, Holding
    <3>. QED
      BY <2>6, <3>2, <3>3 DEF AddRecord, LocalInv, TypeOK
  <2>7. CASE TestLog(r) \/ TestRecords(r)
    <3>1. pc' \in [Readers -> Labels] /\ Held'
      BY <2>7, GoToHeld DEF TestLog, TestRecords, Labels, Handling, Holding
    <3>. QED
      BY <2>7, <3>1 DEF TestLog, TestRecords, LocalInv, TypeOK
  <2>8. CASE PopLog(r)
    <3>1. c \in Ids
      BY <2>8 DEF PopLog, LocalInv, Held, Handling
    <3>2. log[c] # <<>> => Tail(log[c]) \in Seq(Messages)
      <4>1. log[c] \in Seq(Messages)
        BY <3>1 DEF LocalInv, TypeOK
      <4>. QED
        BY <4>1, SeqFacts
    <3>3. CASE log[c] = <<>>
      <4>1. /\ pc' \in [Readers -> Labels] /\ Held'
            /\ queue' \in [Readers \cup {Shared} -> Seq(Messages)]
            /\ returned' \subseteq Messages
        BY <2>8, <3>3, FailKeeps DEF PopLog, Handling, Holding
      <4>. QED
        BY <2>8, <3>3, <4>1 DEF PopLog, LocalInv, TypeOK
    <3>4. CASE log[c] # <<>>
      <4>1. pc' \in [Readers -> Labels] /\ Held'
        BY <2>8, <3>4, GoToHeld DEF PopLog, Labels, Handling, Holding
      <4>2. log' \in [Ids -> Seq(Messages)]
        <5>1. log' = [log EXCEPT ![c] = Tail(log[c])]
          BY <2>8, <3>1, <3>4 DEF PopLog, LocalInv, TypeOK
        <5>. QED
          BY <3>1, <3>2, <3>4, <5>1, UpdateSeq DEF LocalInv, TypeOK
      <4>3. UNCHANGED <<offers, setting, message, consumer, records, stop, deletes, history>>
        BY <2>8, <3>4 DEF PopLog
      <4>. QED
        BY <4>1, <4>2, <4>3 DEF LocalInv, TypeOK
    <3>. QED
      BY <3>3, <3>4
  <2>9. CASE PopRecords(r)
    <3>1. c \in Ids
      BY <2>9 DEF PopRecords, LocalInv, Held, Handling
    <3>2. records[c] # <<>> => Tail(records[c]) \in Seq(Messages)
      <4>1. records[c] \in Seq(Messages)
        BY <3>1 DEF LocalInv, TypeOK
      <4>. QED
        BY <4>1, SeqFacts
    <3>3. CASE records[c] = <<>>
      <4>1. /\ pc' \in [Readers -> Labels] /\ Held'
            /\ queue' \in [Readers \cup {Shared} -> Seq(Messages)]
            /\ returned' \subseteq Messages
        BY <2>9, <3>3, FailKeeps DEF PopRecords, Handling, Holding
      <4>. QED
        BY <2>9, <3>3, <4>1 DEF PopRecords, LocalInv, TypeOK
    <3>4. CASE records[c] # <<>>
      <4>1. pc' \in [Readers -> Labels] /\ Held'
        BY <2>9, <3>4, GoToHeld DEF PopRecords, Labels, Handling, Holding
      <4>2. records' \in [Ids -> Seq(Messages)]
        <5>1. records' = [records EXCEPT ![c] = Tail(records[c])]
          BY <2>9, <3>1, <3>4 DEF PopRecords, LocalInv, TypeOK
        <5>. QED
          BY <3>1, <3>2, <3>4, <5>1, UpdateSeq DEF LocalInv, TypeOK
      <4>3. /\ UNCHANGED <<offers, setting, message, consumer, log, stop, deletes, captured,
                           recorded, reacted, unfinished, late>>
            /\ owing' \subseteq Readers
        BY <2>9, <3>4 DEF PopRecords, LocalInv, TypeOK
      <4>. QED
        BY <4>1, <4>2, <4>3 DEF LocalInv, TypeOK
    <3>. QED
      BY <3>3, <3>4
  <2>10. CASE React(r)
    <3>1. m \in Messages
      BY <2>10 DEF React, LocalInv, Held, Handling, Holding
    <3>2. reacted' \subseteq Messages
      BY <2>10, <3>1 DEF React, LocalInv, TypeOK
    <3>3. pc' \in [Readers -> Labels] /\ Held'
      BY <2>10, GoToHeld DEF React, Labels, Handling, Holding
    <3>. QED
      BY <2>10, <3>2, <3>3 DEF React, LocalInv, TypeOK
  <2>11. CASE Settle(r)
    <3>1. m \in Messages
      BY <2>11 DEF Settle, LocalInv, Held, Holding
    <3>2. /\ queue' \in [Readers \cup {Shared} -> Seq(Messages)]
          /\ returned' \subseteq Messages
      <4>1. SendAgain(Subscription(r), m) \/ UNCHANGED offers
        BY <2>11 DEF Settle
      <4>. QED
        BY <3>1, <4>1, SubscriptionType, SendKeeps DEF LocalInv
    <3>3. pc' \in [Readers -> Labels] /\ Held'
      BY <2>11, GoToHeld DEF Settle, Labels, Handling, Holding
    <3>. QED
      BY <2>11, <3>2, <3>3 DEF Settle, LocalInv, TypeOK
  <2>12. CASE CannotCount(r)
    <3>1. /\ pc' \in [Readers -> Labels] /\ Held'
          /\ queue' \in [Readers \cup {Shared} -> Seq(Messages)]
          /\ returned' \subseteq Messages
      BY <2>12, FailKeeps DEF CannotCount, Handling, Holding
    <3>2. unfinished' \in [Ids -> Nat]
      <4>1. PICK d \in Ids : unfinished' = [unfinished EXCEPT ![d] = @ + 1]
        BY <2>12 DEF CannotCount, LocalInv, Held, Handling
      <4>2. unfinished \in [Ids -> Nat]
        BY DEF LocalInv, TypeOK
      <4>3. unfinished[d] + 1 \in Nat
        BY <4>1, <4>2
      <4>. QED
        BY <4>1, <4>2, <4>3
    <3>. QED
      BY <2>12, <3>1, <3>2 DEF CannotCount, LocalInv, TypeOK
  <2>. QED
    BY <1>1, <2>1, <2>2, <2>3, <2>4, <2>5, <2>6, <2>7, <2>8, <2>9, <2>10, <2>11, <2>12
       DEF Consume
<1>2. ASSUME NEW c \in Ids, Delete(c) PROVE LocalInv'
  <2>1. <<>> \in Seq(Messages)
    OBVIOUS
  <2>2. records' \in [Ids -> Seq(Messages)] /\ recorded' \in [Ids -> Seq(Messages)]
        /\ deletes' \in 0 .. MaxDeletes
    BY <1>2, <2>1 DEF Delete, LocalInv, TypeOK
  <2>. QED
    BY <1>2, <2>2 DEF Delete, LocalInv, TypeOK, Held
<1>3. CASE StopLoops
  BY <1>3 DEF StopLoops, LocalInv, TypeOK, Held
<1>4. CASE UNCHANGED vars
  BY <1>4 DEF vars, LocalInv, TypeOK, Held
<1>5. ASSUME NEW m \in Sent, Reappear(m) PROVE LocalInv'
  <2>1. m \in Messages
    BY DEF LocalInv, TypeOK
  <2>2. /\ queue' \in [Readers \cup {Shared} -> Seq(Messages)]
        /\ returned' \subseteq Messages
    BY <1>5, <2>1, SendKeeps DEF Reappear, LocalInv
  <2>. QED
    BY <1>5, <2>2 DEF Reappear, LocalInv, TypeOK, Held
<1>. QED
  BY <1>1, <1>2, <1>3, <1>4, <1>5 DEF Next

LEMMA AlwaysLocal == Spec => []LocalInv
  BY InitLocal, NextLocal, PTL DEF Spec

\* The lists and the readers' locals keep their types, and a reader that
\* handles a message has one and, once it matched, a consumer.
THEOREM TypeCorrect == Spec => []TypeOK
<1>1. LocalInv => TypeOK
  BY DEF LocalInv
<1>. QED
  BY <1>1, AlwaysLocal, PTL
-----------------------------------------------------------------------------
(***************************************************************************)
(* A polling reader is past its test of stop only if stop was not set when *)
(* it tested, so that the message it then receives is its first late one.  *)
(***************************************************************************)
LateInv ==
  \A r \in Readers :
    /\ late[r] <= 1
    /\ ~stop => late[r] = 0
    /\ pc[r] = "poll" => late[r] = 0

\* A step that takes no message.
LEMMA SameLate ==
  ASSUME LateInv, late' = late, stop => stop',
         \A r \in Readers : pc'[r] = "poll" => late[r] = 0
  PROVE  LateInv'
  BY DEF LateInv

LEMMA NextLate == LocalInv /\ LateInv /\ [Next]_vars => LateInv'
<1> SUFFICES ASSUME LocalInv, LateInv, [Next]_vars PROVE LateInv'
  OBVIOUS
<1> USE DEF history, stores, locals, setting, offers
<1>0. pc \in [Readers -> Labels] /\ late \in [Readers -> Nat]
  BY DEF LocalInv, TypeOK
<1>1. ASSUME NEW r \in Readers, Consume(r) \/ PollNothing(r)
      PROVE  LateInv'
  <2>1. CASE TestStop(r)
    <3>1. \A q \in Readers : pc'[q] = "poll" => (pc[q] = "poll" \/ ~stop)
      BY <1>0, <2>1 DEF TestStop, GoTo
    <3>. QED
      BY <2>1, <3>1, SameLate DEF TestStop, LateInv
  <2>2. CASE Receive(r)
    <3>1. \A q \in Readers : pc'[q] = "poll" => pc[q] = "poll" /\ q # r
      BY <1>0, <2>2 DEF Receive, GoTo
    <3>2. \A q \in Readers : q # r => late'[q] = late[q]
      BY <1>0, <2>2 DEF Receive
    <3>3. late'[r] = IF stop /\ Polls THEN late[r] + 1 ELSE late[r]
      BY <1>0, <2>2 DEF Receive
    <3>4. Polls => late[r] = 0
      BY <2>2 DEF Receive, LateInv
    <3>5. stop' = stop
      BY <2>2 DEF Receive
    <3>. QED
      BY <1>0, <3>1, <3>2, <3>3, <3>4, <3>5 DEF LateInv
  <2>3. CASE Match(r)
    <3>1. \A q \in Readers : pc'[q] = "poll" => pc[q] = "poll"
      BY <1>0, <2>3 DEF Match, Fail, GoTo
    <3>. QED
      BY <2>3, <3>1, SameLate DEF Match, LateInv
  <2>4. CASE PollNothing(r) \/ AppendLog(r) \/ AddRecord(r) \/ TestLog(r) \/ TestRecords(r)
             \/ React(r) \/ Settle(r)
    <3>1. \A q \in Readers : pc'[q] = "poll" => pc[q] = "poll"
      BY <1>0, <2>4 DEF PollNothing, AppendLog, AddRecord, TestLog, TestRecords, React,
         Settle, GoTo
    <3>2. UNCHANGED <<late, stop>>
      BY <2>4 DEF PollNothing, AppendLog, AddRecord, TestLog, TestRecords, React, Settle
    <3>. QED
      BY <3>1, <3>2, SameLate DEF LateInv
  <2>5. CASE PopLog(r) \/ PopRecords(r) \/ CannotCount(r)
    <3>1. \A q \in Readers : pc'[q] = "poll" => pc[q] = "poll"
      BY <1>0, <2>5 DEF PopLog, PopRecords, CannotCount, Fail, GoTo
    <3>2. UNCHANGED <<late, stop>>
      BY <2>5 DEF PopLog, PopRecords, CannotCount
    <3>. QED
      BY <3>1, <3>2, SameLate DEF LateInv
  <2>. QED
    BY <1>1, <2>1, <2>2, <2>3, <2>4, <2>5 DEF Consume
<1>2. ASSUME NEW c \in Ids, Delete(c) PROVE LateInv'
  BY <1>2, SameLate DEF Delete, LateInv
<1>3. CASE StopLoops
  BY <1>3, SameLate DEF StopLoops, LateInv
<1>4. CASE UNCHANGED vars
  BY <1>4, SameLate DEF vars, LateInv
<1>5. ASSUME NEW m \in Sent, Reappear(m) PROVE LateInv'
  BY <1>5, SameLate DEF Reappear, LateInv
<1>. QED
  BY <1>1, <1>2, <1>3, <1>4, <1>5 DEF Next

\* After stop_loops a reader of Kafka, Redis or SQS takes at most one message.
THEOREM StopKept == Spec => []AtMostOneAfterStop
<1>1. Init => LateInv
  BY DEF Init, LateInv
<1>2. LateInv => AtMostOneAfterStop
  BY DEF LateInv, AtMostOneAfterStop
<1>. QED
  BY <1>1, <1>2, NextLate, AlwaysLocal, PTL DEF Spec
-----------------------------------------------------------------------------
(***************************************************************************)
(* The lists.  Whoever is between its append and its pop accounts for one  *)
(* element: a log has at least that many, so that no pop finds it empty,   *)
(* and at most as many more as capture says and could not be counted.  The *)
(* same holds of records, but a DELETE takes away the lower bound.         *)
(***************************************************************************)
Trimmers(c) == {r \in Readers : Trimming(r, c)}
Cutters(c) == {r \in Readers : Cutting(r, c)}

LogSize(c) ==
  /\ Cardinality(Trimmers(c)) <= Len(log[c])
  /\ Len(log[c]) <= Consumers[c].capture + unfinished[c] + Cardinality(Trimmers(c))
RecordsSize(c) ==
  /\ deletes = 0 => Cardinality(Cutters(c)) <= Len(records[c])
  /\ Len(records[c]) <= Consumers[c].capture + Cardinality(Cutters(c))
SizeInv == \A c \in Ids : LogSize(c) /\ RecordsSize(c)

ListInv == SizeInv /\ DeathHasCause

LEMMA ReadersFinite ==
  \A c : /\ IsFiniteSet(Trimmers(c)) /\ Cardinality(Trimmers(c)) \in Nat
         /\ IsFiniteSet(Cutters(c)) /\ Cardinality(Cutters(c)) \in Nat
<1>1. TAKE c
<1>2. Trimmers(c) \in SUBSET Readers /\ Cutters(c) \in SUBSET Readers
  BY DEF Trimmers, Cutters
<1>. QED
  BY <1>2, ConstantsType, FS_Subset, FS_CardinalityType

LEMMA ListLengths ==
  ASSUME TypeOK, NEW c \in Ids
  PROVE  /\ log[c] \in Seq(Messages) /\ Len(log[c]) \in Nat
         /\ records[c] \in Seq(Messages) /\ Len(records[c]) \in Nat
         /\ Consumers[c].capture \in Nat /\ unfinished[c] \in Nat
         /\ log[c] # <<>> <=> Len(log[c]) # 0
         /\ records[c] # <<>> <=> Len(records[c]) # 0
<1>1. log[c] \in Seq(Messages) /\ records[c] \in Seq(Messages)
  BY DEF TypeOK
<1>2. Len(log[c]) \in Nat /\ (log[c] # <<>> <=> Len(log[c]) # 0)
  BY <1>1, EmptySeqLen
<1>3. Len(records[c]) \in Nat /\ (records[c] # <<>> <=> Len(records[c]) # 0)
  BY <1>1, EmptySeqLen
<1>4. Consumers[c].capture \in Nat /\ unfinished[c] \in Nat
  BY ConstantsType DEF TypeOK
<1>. QED
  BY <1>1, <1>2, <1>3, <1>4

\* What a step leaves of the sizes that it does not touch.
LEMMA SameLog ==
  ASSUME NEW c \in Ids, LogSize(c), log'[c] = log[c], unfinished'[c] = unfinished[c],
         Trimmers(c)' = Trimmers(c)
  PROVE  LogSize(c)'
  BY DEF LogSize

LEMMA SameRecords ==
  ASSUME NEW c \in Ids, RecordsSize(c), records'[c] = records[c], deletes' = deletes,
         Cutters(c)' = Cutters(c)
  PROVE  RecordsSize(c)'
  BY DEF RecordsSize

LEMMA OneConsumer ==
  ASSUME SizeInv, NEW c \in Ids, LogSize(c)', RecordsSize(c)', deletes' = deletes,
         \A d \in Ids : d # c =>
           /\ log'[d] = log[d] /\ Trimmers(d)' = Trimmers(d)
           /\ records'[d] = records[d] /\ Cutters(d)' = Cutters(d)
           /\ unfinished'[d] = unfinished[d]
  PROVE  SizeInv'
<1>1. ASSUME NEW d \in Ids, d # c PROVE LogSize(d)' /\ RecordsSize(d)'
  BY <1>1, SameLog, SameRecords DEF SizeInv
<1>. QED
  BY <1>1 DEF SizeInv

LEMMA SameDeaths ==
  ASSUME DeathHasCause, UNCHANGED <<deletes, backend, unfinished>>,
         \A r \in Readers : pc'[r] = "dead" =>
           pc[r] = "dead" /\ message'[r] = message[r] /\ consumer'[r] = consumer[r]
  PROVE  DeathHasCause'
  BY DEF DeathHasCause, Raises

LEMMA NextList == LocalInv /\ ListInv /\ [Next]_vars => ListInv'
<1> SUFFICES ASSUME LocalInv, ListInv, [Next]_vars PROVE ListInv'
  OBVIOUS
<1> USE DEF history, stores, locals, setting, offers
<1>0. /\ pc \in [Readers -> Labels] /\ TypeOK /\ SizeInv /\ DeathHasCause
      /\ consumer \in [Readers -> Ids \cup {Nobody}]
  BY DEF LocalInv, ListInv, TypeOK
<1>1. ASSUME NEW r \in Readers, Consume(r) \/ PollNothing(r)
      PROVE  ListInv'
  <2>1. CASE TestStop(r) \/ PollNothing(r) \/ Receive(r) \/ React(r) \/ Settle(r)
    <3>1. \A d \in Ids : Trimmers(d)' = Trimmers(d) /\ Cutters(d)' = Cutters(d)
      BY <1>0, <2>1 DEF TestStop, PollNothing, Receive, React, Settle, GoTo, Trimmers,
         Trimming, Cutters, Cutting
    <3>2. UNCHANGED <<log, records, deletes, backend, unfinished>>
      BY <2>1 DEF TestStop, PollNothing, Receive, React, Settle
    <3>3. SizeInv'
      BY <1>0, <3>1, <3>2, SameLog, SameRecords DEF SizeInv
    <3>4. \A q \in Readers : pc'[q] = "dead" =>
            pc[q] = "dead" /\ message'[q] = message[q] /\ consumer'[q] = consumer[q]
      BY <1>0, <2>1 DEF TestStop, PollNothing, Receive, React, Settle, GoTo, TypeOK
    <3>. QED
      BY <1>0, <3>2, <3>3, <3>4, SameDeaths DEF ListInv
  <2>2. CASE Match(r)
    <3>1. /\ pc[r] = "match" /\ pc'[r] \in {"top", "dead", "settle", "log"}
          /\ \A q \in Readers : q # r => pc'[q] = pc[q] /\ consumer'[q] = consumer[q]
      BY <1>0, <2>2 DEF Match, Fail, GoTo
    <3>2. \A d \in Ids : Trimmers(d)' = Trimmers(d) /\ Cutters(d)' = Cutters(d)
      BY <1>0, <3>1 DEF Trimmers, Trimming, Cutters, Cutting
    <3>3. UNCHANGED <<log, records, deletes, backend, message, unfinished>>
      BY <2>2 DEF Match
    <3>4. SizeInv'
      BY <1>0, <3>2, <3>3, SameLog, SameRecords DEF SizeInv
    <3>5. pc'[r] = "dead" => message[r] # Nobody /\ Raises(message[r])
      <4>1. message[r] # Nobody
        BY <3>1, ConstantsType DEF LocalInv, Held, Holding, Nobody
      <4>. QED
        BY <1>0, <2>2, <4>1 DEF Match, GoTo
    <3>6. DeathHasCause'
      BY <1>0, <3>1, <3>3, <3>5 DEF DeathHasCause, Raises
    <3>. QED
      BY <3>4, <3>6 DEF ListInv
  <2>3. CASE AppendLog(r)
    <3>1. PICK c \in Ids :
          /\ c = consumer[r] /\ pc[r] = "log" /\ log' = [log EXCEPT ![c] = Append(@, message[r])]
          /\ GoTo(r, "record")
          /\ UNCHANGED <<backend, message, consumer, records, deletes, unfinished>>
      BY <2>3 DEF AppendLog, LocalInv, Held, Handling
    <3>2. Trimmers(c)' = Trimmers(c) \cup {r} /\ r \notin Trimmers(c)
      BY <1>0, <3>1 DEF GoTo, Trimmers, Trimming
    <3>3. \A d \in Ids : /\ Cutters(d)' = Cutters(d)
                         /\ d # c => Trimmers(d)' = Trimmers(d) /\ log'[d] = log[d]
      BY <1>0, <3>1 DEF GoTo, Trimmers, Trimming, Cutters, Cutting, TypeOK
    <3>4. LogSize(c)'
      <4>1. Cardinality(Trimmers(c)') = Cardinality(Trimmers(c)) + 1
        BY <3>2, ReadersFinite, FS_AddElement
      <4>2. message[r] \in Messages
        BY <3>1 DEF LocalInv, Held, Holding, Handling
      <4>3. log'[c] = Append(log[c], message[r])
        BY <1>0, <3>1 DEF TypeOK
      <4>4. Len(log'[c]) = Len(log[c]) + 1
        BY <1>0, <3>1, <4>2, <4>3, ListLengths, SeqFacts
      <4>. QED
        BY <1>0, <3>1, <4>1, <4>4, ListLengths, ReadersFinite DEF SizeInv, LogSize
    <3>5. SizeInv'
      <4>1. RecordsSize(c)'
        BY <1>0, <3>1, <3>3, SameRecords DEF SizeInv
      <4>. QED
        BY <1>0, <3>1, <3>3, <3>4, <4>1, OneConsumer
    <3>6. \A q \in Readers : pc'[q] = "dead" => pc[q] = "dead"
      BY <1>0, <3>1 DEF GoTo
    <3>. QED
      BY <1>0, <3>1, <3>5, <3>6, SameDeaths DEF ListInv
  <2>4. CASE AddRecord(r)
    <3>1. PICK c \in Ids :
          /\ c = consumer[r] /\ pc[r] = "record"
          /\ records' = [records EXCEPT ![c] = Append(@, message[r])]
          /\ GoTo(r, "testLog")
          /\ UNCHANGED <<backend, message, consumer, log, deletes, unfinished>>
      BY <2>4 DEF AddRecord, LocalInv, Held, Handling
    <3>2. Cutters(c)' = Cutters(c) \cup {r} /\ r \notin Cutters(c)
      BY <1>0, <3>1 DEF GoTo, Cutters, Cutting
    <3>3. \A d \in Ids : /\ Trimmers(d)' = Trimmers(d)
                         /\ d # c => Cutters(d)' = Cutters(d) /\ records'[d] = records[d]
      BY <1>0, <3>1 DEF GoTo, Trimmers, Trimming, Cutters, Cutting, TypeOK
    <3>4. RecordsSize(c)'
      <4>1. Cardinality(Cutters(c)') = Cardinality(Cutters(c)) + 1
        BY <3>2, ReadersFinite, FS_AddElement
      <4>2. message[r] \in Messages
        BY <3>1 DEF LocalInv, Held, Holding, Handling
      <4>3. records'[c] = Append(records[c], message[r])
        BY <1>0, <3>1 DEF TypeOK
      <4>4. Len(records'[c]) = Len(records[c]) + 1
        BY <1>0, <3>1, <4>2, <4>3, ListLengths, SeqFacts
      <4>. QED
        BY <1>0, <3>1, <4>1, <4>4, ListLengths, ReadersFinite DEF SizeInv, RecordsSize
    <3>5. SizeInv'
      <4>1. LogSize(c)'
        BY <1>0, <3>1, <3>3, SameLog DEF SizeInv
      <4>. QED
        BY <1>0, <3>1, <3>3, <3>4, <4>1, OneConsumer
    <3>6. \A q \in Readers : pc'[q] = "dead" => pc[q] = "dead"
      BY <1>0, <3>1 DEF GoTo
    <3>. QED
      BY <1>0, <3>1, <3>5, <3>6, SameDeaths DEF ListInv
  <2>5. CASE TestLog(r)
    <3>1. PICK c \in Ids :
          /\ c = consumer[r] /\ pc[r] = "testLog"
          /\ GoTo(r, IF Over(log, c) THEN "popLog" ELSE "testRecords")
          /\ UNCHANGED <<backend, message, consumer, log, records, deletes, unfinished>>
      BY <2>5 DEF TestLog, LocalInv, Held, Handling
    <3>2. \A d \in Ids : /\ Cutters(d)' = Cutters(d)
                         /\ d # c => Trimmers(d)' = Trimmers(d)
      BY <1>0, <3>1 DEF GoTo, Trimmers, Trimming, Cutters, Cutting
    <3>3. LogSize(c)'
      <4>1. CASE Over(log, c)
        <5>1. Trimmers(c)' = Trimmers(c)
          BY <1>0, <3>1, <4>1 DEF GoTo, Trimmers, Trimming
        <5>. QED
          BY <1>0, <3>1, <5>1, SameLog DEF SizeInv
      <4>2. CASE ~Over(log, c)
        <5>1. Trimmers(c)' = Trimmers(c) \ {r} /\ r \in Trimmers(c)
          BY <1>0, <3>1, <4>2 DEF GoTo, Trimmers, Trimming
        <5>2. Cardinality(Trimmers(c)') = Cardinality(Trimmers(c)) - 1
          BY <5>1, ReadersFinite, FS_RemoveElement
        <5>3. Cardinality(Trimmers(c)') \in Nat
          BY <5>1, ReadersFinite, FS_RemoveElement, FS_CardinalityType
        <5>4. Len(log[c]) <= Consumers[c].capture
          BY <1>0, <3>1, <4>2, ListLengths DEF Over
        <5>. QED
          BY <1>0, <3>1, <5>2, <5>3, <5>4, ListLengths, ReadersFinite DEF SizeInv, LogSize
      <4>. QED
        BY <4>1, <4>2
    <3>4. SizeInv'
      <4>1. RecordsSize(c)'
        BY <1>0, <3>1, <3>2, SameRecords DEF SizeInv
      <4>. QED
        BY <1>0, <3>1, <3>2, <3>3, <4>1, OneConsumer
    <3>5. \A q \in Readers : pc'[q] = "dead" => pc[q] = "dead"
      BY <1>0, <3>1 DEF GoTo
    <3>. QED
      BY <1>0, <3>1, <3>4, <3>5, SameDeaths DEF ListInv
  <2>6. CASE PopLog(r)
    <3>1. PICK c \in Ids : c = consumer[r] /\ pc[r] = "popLog"
      BY <2>6 DEF PopLog, LocalInv, Held, Handling
    <3>2. r \in Trimmers(c)
      BY <3>1 DEF Trimmers, Trimming
    <3>3. log[c] # <<>>
      <4>1. Cardinality(Trimmers(c)) # 0
        BY <3>2, ReadersFinite, FS_EmptySet
      <4>. QED
        BY <1>0, <3>1, <4>1, ListLengths, ReadersFinite DEF SizeInv, LogSize
    <3>4. /\ log' = [log EXCEPT ![c] = Tail(@)] /\ GoTo(r, "testRecords")
          /\ UNCHANGED <<backend, message, consumer, records, deletes, unfinished>>
      BY <2>6, <3>1, <3>3 DEF PopLog
    <3>5. \A d \in Ids : /\ Cutters(d)' = Cutters(d)
                         /\ d # c => Trimmers(d)' = Trimmers(d) /\ log'[d] = log[d]
      BY <1>0, <3>1, <3>4 DEF GoTo, Trimmers, Trimming, Cutters, Cutting, TypeOK
    <3>6. LogSize(c)'
      <4>1. Trimmers(c)' = Trimmers(c) \ {r}
        BY <1>0, <3>1, <3>4 DEF GoTo, Trimmers, Trimming
      <4>2. Cardinality(Trimmers(c)') = Cardinality(Trimmers(c)) - 1
        BY <3>2, <4>1, ReadersFinite, FS_RemoveElement
      <4>3. log'[c] = Tail(log[c])
        BY <1>0, <3>1, <3>4 DEF TypeOK
      <4>4. Len(log'[c]) = Len(log[c]) - 1
        BY <1>0, <3>1, <3>3, <4>3, ListLengths, SeqFacts
      <4>5. unfinished'[c] = unfinished[c] /\ unfinished[c] \in Nat
        BY <1>0, <3>1, <3>4 DEF TypeOK
      <4>6. /\ Cardinality(Trimmers(c)) <= Len(log[c])
            /\ Len(log[c]) <= Consumers[c].capture + unfinished[c] + Cardinality(Trimmers(c))
        BY <1>0, <3>1 DEF SizeInv, LogSize
      <4>7. Cardinality(Trimmers(c)) \in Nat /\ Len(log[c]) \in Nat
            /\ Consumers[c].capture \in Nat
        BY <1>0, <3>1, ListLengths, ReadersFinite
      <4>. QED
        BY <4>2, <4>4, <4>5, <4>6, <4>7 DEF LogSize
    <3>7. SizeInv'
      <4>1. RecordsSize(c)'
        BY <1>0, <3>4, <3>5, SameRecords DEF SizeInv
      <4>. QED
        BY <1>0, <3>4, <3>5, <3>6, <4>1, OneConsumer
    <3>8. \A q \in Readers : pc'[q] = "dead" => pc[q] = "dead"
      BY <1>0, <3>4 DEF GoTo
    <3>. QED
      BY <1>0, <3>4, <3>7, <3>8, SameDeaths DEF ListInv
  <2>7. CASE TestRecords(r)
    <3>1. PICK c \in Ids :
          /\ c = consumer[r] /\ pc[r] = "testRecords"
          /\ GoTo(r, IF Over(records, c) THEN "popRecords" ELSE "react")
          /\ UNCHANGED <<backend, message, consumer, log, records, deletes, unfinished>>
      BY <2>7 DEF TestRecords, LocalInv, Held, Handling
    <3>2. \A d \in Ids : /\ Trimmers(d)' = Trimmers(d)
                         /\ d # c => Cutters(d)' = Cutters(d)
      BY <1>0, <3>1 DEF GoTo, Trimmers, Trimming, Cutters, Cutting
    <3>3. RecordsSize(c)'
      <4>1. CASE Over(records, c)
        <5>1. Cutters(c)' = Cutters(c)
          BY <1>0, <3>1, <4>1 DEF GoTo, Cutters, Cutting
        <5>. QED
          BY <1>0, <3>1, <5>1, SameRecords DEF SizeInv
      <4>2. CASE ~Over(records, c)
        <5>1. Cutters(c)' = Cutters(c) \ {r} /\ r \in Cutters(c)
          BY <1>0, <3>1, <4>2 DEF GoTo, Cutters, Cutting
        <5>2. Cardinality(Cutters(c)') = Cardinality(Cutters(c)) - 1
          BY <5>1, ReadersFinite, FS_RemoveElement
        <5>3. Cardinality(Cutters(c)') \in Nat
          BY <5>1, ReadersFinite, FS_RemoveElement, FS_CardinalityType
        <5>4. Len(records[c]) <= Consumers[c].capture
          BY <1>0, <3>1, <4>2, ListLengths DEF Over
        <5>. QED
          BY <1>0, <3>1, <5>2, <5>3, <5>4, ListLengths, ReadersFinite
             DEF SizeInv, RecordsSize
      <4>. QED
        BY <4>1, <4>2
    <3>4. SizeInv'
      <4>1. LogSize(c)'
        BY <1>0, <3>1, <3>2, SameLog DEF SizeInv
      <4>. QED
        BY <1>0, <3>1, <3>2, <3>3, <4>1, OneConsumer
    <3>5. \A q \in Readers : pc'[q] = "dead" => pc[q] = "dead"
      BY <1>0, <3>1 DEF GoTo
    <3>. QED
      BY <1>0, <3>1, <3>4, <3>5, SameDeaths DEF ListInv
  <2>8. CASE PopRecords(r)
    <3>1. PICK c \in Ids :
          /\ c = consumer[r] /\ pc[r] = "popRecords" /\ pc'[r] \in {"top", "dead", "react"}
          /\ \A q \in Readers : q # r => pc'[q] = pc[q]
          /\ UNCHANGED <<backend, message, consumer, log, deletes, unfinished>>
      BY <1>0, <2>8 DEF PopRecords, Fail, GoTo, LocalInv, Held, Handling
    <3>2. Cutters(c)' = Cutters(c) \ {r} /\ r \in Cutters(c)
      BY <1>0, <3>1 DEF Cutters, Cutting
    <3>3. /\ Cardinality(Cutters(c)') = Cardinality(Cutters(c)) - 1
          /\ Cardinality(Cutters(c)') \in Nat
      BY <3>2, ReadersFinite, FS_RemoveElement, FS_CardinalityType
    <3>4. \A d \in Ids : Trimmers(d)' = Trimmers(d)
      BY <1>0, <3>1 DEF Trimmers, Trimming
    <3>5. \A d \in Ids : d # c => Cutters(d)' = Cutters(d) /\ records'[d] = records[d]
      BY <1>0, <2>8, <3>1 DEF PopRecords, Cutters, Cutting, TypeOK
    <3>6. RecordsSize(c)' /\ (records[c] = <<>> => deletes # 0)
      <4>1. CASE records[c] = <<>>
        <5>1. records'[c] = <<>> /\ Len(records[c]) = 0
          BY <2>8, <3>1, <4>1 DEF PopRecords
        <5>2. deletes # 0
          BY <1>0, <3>1, <3>3, <5>1, ReadersFinite DEF SizeInv, RecordsSize
        <5>. QED
          BY <1>0, <3>1, <3>3, <5>1, <5>2, ListLengths DEF RecordsSize
      <4>2. CASE records[c] # <<>>
        <5>1. records'[c] = Tail(records[c])
          BY <1>0, <2>8, <3>1, <4>2 DEF PopRecords, TypeOK
        <5>2. Len(records'[c]) = Len(records[c]) - 1
          BY <1>0, <3>1, <4>2, <5>1, ListLengths, SeqFacts
        <5>. QED
          BY <1>0, <3>1, <3>3, <4>2, <5>2, ListLengths, ReadersFinite
             DEF SizeInv, RecordsSize
      <4>. QED
        BY <4>1, <4>2
    <3>7. SizeInv'
      <4>1. LogSize(c)'
        BY <1>0, <3>1, <3>4, <3>5, SameLog DEF SizeInv
      <4>. QED
        BY <1>0, <3>1, <3>4, <3>5, <3>6, <4>1, OneConsumer
    <3>8. pc'[r] = "dead" => deletes > 0
      <4>1. pc'[r] = "dead" => records[c] = <<>>
        BY <1>0, <2>8, <3>1 DEF PopRecords, GoTo
      <4>. QED
        BY <1>0, <3>6, <4>1 DEF TypeOK
    <3>9. DeathHasCause'
      BY <1>0, <3>1, <3>8 DEF DeathHasCause, Raises
    <3>. QED
      BY <3>7, <3>9 DEF ListInv
  <2>9. CASE CannotCount(r)
    <3>1. PICK c \in Ids :
          /\ c = consumer[r] /\ pc[r] = "record" /\ pc'[r] \in {"top", "dead"}
          /\ \A q \in Readers : q # r => pc'[q] = pc[q]
          /\ unfinished' = [unfinished EXCEPT ![c] = @ + 1]
          /\ UNCHANGED <<backend, message, consumer, log, records, deletes>>
      BY <1>0, <2>9 DEF CannotCount, Fail, GoTo, LocalInv, Held, Handling
    <3>2. /\ unfinished'[c] = unfinished[c] + 1 /\ unfinished'[c] > 0
          /\ \A d \in Ids : unfinished[d] > 0 => unfinished'[d] > 0
          /\ \A d \in Ids : d # c => unfinished'[d] = unfinished[d]
      BY <1>0, <3>1 DEF TypeOK
    <3>3. Trimmers(c)' = Trimmers(c) \ {r} /\ r \in Trimmers(c)
      BY <1>0, <3>1 DEF Trimmers, Trimming
    <3>4. /\ Cardinality(Trimmers(c)') = Cardinality(Trimmers(c)) - 1
          /\ Cardinality(Trimmers(c)') \in Nat
      BY <3>3, ReadersFinite, FS_RemoveElement, FS_CardinalityType
    <3>5. \A d \in Ids : /\ Cutters(d)' = Cutters(d)
                         /\ d # c => Trimmers(d)' = Trimmers(d)
      BY <1>0, <3>1 DEF Trimmers, Trimming, Cutters, Cutting
    <3>6. LogSize(c)'
      BY <1>0, <3>1, <3>2, <3>4, ListLengths, ReadersFinite DEF SizeInv, LogSize
    <3>7. RecordsSize(c)'
      BY <1>0, <3>1, <3>5, SameRecords DEF SizeInv
    <3>8. SizeInv'
      BY <1>0, <3>1, <3>2, <3>5, <3>6, <3>7, OneConsumer
    <3>9. c # Nobody /\ \A q \in Readers : consumer[q] # Nobody => consumer[q] \in Ids
      BY <1>0, <3>1, ConstantsType DEF Nobody
    <3>10. DeathHasCause'
      BY <1>0, <3>1, <3>2, <3>9 DEF DeathHasCause, Raises
    <3>. QED
      BY <3>8, <3>10 DEF ListInv
  <2>. QED
    BY <1>1, <2>1, <2>2, <2>3, <2>4, <2>5, <2>6, <2>7, <2>8, <2>9 DEF Consume
<1>2. ASSUME NEW c \in Ids, Delete(c) PROVE ListInv'
  <2>1. /\ UNCHANGED <<pc, consumer, message, backend, log, unfinished>>
        /\ deletes' = deletes + 1 /\ deletes' > 0
        /\ records' = [records EXCEPT ![c] = <<>>]
    BY <1>0, <1>2 DEF Delete, TypeOK
  <2>2. \A d \in Ids : Trimmers(d)' = Trimmers(d) /\ Cutters(d)' = Cutters(d)
    BY <2>1 DEF Trimmers, Trimming, Cutters, Cutting
  <2>3. ASSUME NEW d \in Ids PROVE RecordsSize(d)'
    <3>1. records'[d] = IF d = c THEN <<>> ELSE records[d]
      BY <1>0, <2>1 DEF TypeOK
    <3>2. Len(records'[d]) <= Consumers[d].capture + Cardinality(Cutters(d))
      <4>1. CASE d = c
        <5>1. Len(records'[d]) = 0
          BY <3>1, <4>1
        <5>. QED
          BY <1>0, <5>1, ListLengths, ReadersFinite
      <4>2. CASE d # c
        BY <1>0, <3>1, <4>2 DEF SizeInv, RecordsSize
      <4>. QED
        BY <4>1, <4>2
    <3>. QED
      BY <2>1, <2>2, <3>2 DEF RecordsSize
  <2>4. SizeInv'
    BY <1>0, <2>1, <2>2, <2>3, SameLog DEF SizeInv
  <2>5. DeathHasCause'
    BY <2>1 DEF DeathHasCause
  <2>. QED
    BY <2>4, <2>5 DEF ListInv
<1>3. CASE StopLoops \/ UNCHANGED vars \/ \E m \in Sent : Reappear(m)
  <2>1. UNCHANGED <<pc, consumer, message, backend, log, records, deletes, unfinished>>
    BY <1>3 DEF StopLoops, Reappear, vars
  <2>2. \A d \in Ids : Trimmers(d)' = Trimmers(d) /\ Cutters(d)' = Cutters(d)
    BY <2>1 DEF Trimmers, Trimming, Cutters, Cutting
  <2>3. SizeInv'
    BY <1>0, <2>1, <2>2, SameLog, SameRecords DEF SizeInv
  <2>. QED
    BY <1>0, <2>1, <2>3, SameDeaths DEF ListInv
<1>. QED
  BY <1>1, <1>2, <1>3 DEF Next

LEMMA InitList == Init => ListInv
<1> SUFFICES ASSUME Init PROVE ListInv
  OBVIOUS
<1>1. \A r \in Readers : pc[r] \in {"top", "none"}
  BY DEF Init
<1>2. ASSUME NEW c \in Ids PROVE LogSize(c) /\ RecordsSize(c)
  <2>1. Trimmers(c) = {} /\ Cutters(c) = {}
    BY <1>1 DEF Trimmers, Trimming, Cutters, Cutting
  <2>2. log[c] = <<>> /\ records[c] = <<>> /\ unfinished[c] = 0
    BY DEF Init
  <2>3. Len(log[c]) = 0 /\ Len(records[c]) = 0
    BY <2>2
  <2>. QED
    BY <2>1, <2>2, <2>3, FS_EmptySet, ConstantsType DEF LogSize, RecordsSize
<1>. QED
  BY <1>1, <1>2 DEF ListInv, SizeInv, DeathHasCause

LEMMA AlwaysList == Spec => [](LocalInv /\ ListInv)
  BY InitLocal, NextLocal, InitList, NextList, PTL DEF Spec

\* However many readers handle the messages of a group at once, a list is longer
\* than capture only while one of them has yet to trim it, and the log by the
\* messages that could not be counted.
THEOREM CaptureBounds == Spec => []CaptureKept
<1>1. ASSUME LocalInv, ListInv PROVE CaptureKept
  <2> SUFFICES ASSUME NEW c \in Ids
               PROVE  /\ (\A r \in Readers : ~Trimming(r, c)) =>
                           Len(log[c]) <= Consumers[c].capture + unfinished[c]
                      /\ (\A r \in Readers : ~Cutting(r, c)) =>
                           Len(records[c]) <= Consumers[c].capture
    BY DEF CaptureKept
  <2>1. LogSize(c) /\ RecordsSize(c) /\ TypeOK
    BY <1>1 DEF ListInv, SizeInv, LocalInv
  <2>2. (\A r \in Readers : ~Trimming(r, c)) => Cardinality(Trimmers(c)) = 0
    BY FS_EmptySet DEF Trimmers
  <2>3. (\A r \in Readers : ~Cutting(r, c)) => Cardinality(Cutters(c)) = 0
    BY FS_EmptySet DEF Cutters
  <2>. QED
    BY <2>1, <2>2, <2>3, ListLengths DEF LogSize, RecordsSize
<1>. QED
  BY <1>1, AlwaysList, PTL

\* A reader dies of a message that raises or that it cannot count, or of a DELETE
\* before its records.pop(0), never because another reader popped a list empty.
THEOREM DeathsExplained == Spec => []DeathHasCause
<1>1. ListInv => DeathHasCause
  BY DEF ListInv
<1>. QED
  BY <1>1, AlwaysList, PTL
-----------------------------------------------------------------------------
(***************************************************************************)
(* A message is captured once for each subscription: it is in the queue of *)
(* a subscription, or one of its readers has it and has not appended it,   *)
(* or it is spent there.  What a reader holds is not in the queue as well, *)
(* nor with another reader, so that to append it spends it.  All this is   *)
(* said of the messages that the broker did not send again.                *)
(***************************************************************************)
In(m, list) == \E i \in 1 .. Len(list) : list[i] = m
\* No element is there twice, but for those in again.
Distinct(list, again) ==
  \A i, j \in 1 .. Len(list) : list[i] = list[j] => i = j \/ list[i] \in again

\* The reader has a message that it may still append or give back.
Unsettled(r) ==
  \/ pc[r] \in {"match", "log"}
  \/ pc[r] = "settle" /\ consumer[r] = Nobody
Takes(r, s, m) == Unsettled(r) /\ Subscription(r) = s /\ message[r] = m
Pending(s, m) == In(m, queue[s]) \/ \E r \in Readers : Takes(r, s, m)
Spent(m) == {s \in Subscriptions : ~Pending(s, m)}

TokenInv ==
  /\ \A s \in Readers \cup {Shared} : Distinct(queue[s], returned)
  /\ \A r \in Readers : Unsettled(r) =>
       message[r] \in returned \/ ~In(message[r], queue[Subscription(r)])
  /\ \A r, q \in Readers :
       Unsettled(r) /\ Takes(q, Subscription(r), message[r]) =>
         q = r \/ message[r] \in returned
CountInv ==
  \A m \in Messages \ returned, c \in Ids : Times(m, c) <= Cardinality(Spent(m))
OnceInv == TokenInv /\ CountInv

LEMMA TailIn ==
  ASSUME NEW T, NEW list \in Seq(T), list # <<>>, NEW again
  PROVE  /\ \A m : In(m, list) <=> m = Head(list) \/ In(m, Tail(list))
         /\ Distinct(list, again) =>
              /\ Distinct(Tail(list), again)
              /\ Head(list) \in again \/ ~In(Head(list), Tail(list))
<1>1. /\ Len(list) \in Nat \ {0} /\ Len(Tail(list)) = Len(list) - 1
      /\ Head(list) = list[1]
      /\ \A i \in 1 .. Len(list) - 1 : Tail(list)[i] = list[i + 1]
  OBVIOUS
<1>2. ASSUME NEW m, In(m, list) PROVE m = Head(list) \/ In(m, Tail(list))
  <2>1. PICK i \in 1 .. Len(list) : list[i] = m
    BY <1>2 DEF In
  <2>2. CASE i = 1
    BY <1>1, <2>1, <2>2
  <2>3. CASE i # 1
    <3>1. i - 1 \in 1 .. Len(list) - 1 /\ i - 1 + 1 = i
      BY <1>1, <2>3
    <3>2. Tail(list)[i - 1] = m
      BY <1>1, <2>1, <3>1
    <3>. QED
      BY <1>1, <3>1, <3>2 DEF In
  <2>. QED
    BY <2>2, <2>3
<1>3. ASSUME NEW m, m = Head(list) \/ In(m, Tail(list)) PROVE In(m, list)
  <2>1. CASE m = Head(list)
    BY <1>1, <2>1 DEF In
  <2>2. CASE In(m, Tail(list))
    <3>1. PICK i \in 1 .. Len(list) - 1 : Tail(list)[i] = m
      BY <1>1, <2>2 DEF In
    <3>2. i + 1 \in 1 .. Len(list) /\ list[i + 1] = m
      BY <1>1, <3>1
    <3>. QED
      BY <3>2 DEF In
  <2>. QED
    BY <1>3, <2>1, <2>2
<1>4. ASSUME Distinct(list, again)
      PROVE  /\ Distinct(Tail(list), again)
             /\ Head(list) \in again \/ ~In(Head(list), Tail(list))
  <2>1. ASSUME NEW i \in 1 .. Len(list) - 1, NEW j \in 1 .. Len(list) - 1,
               Tail(list)[i] = Tail(list)[j]
        PROVE  i = j \/ Tail(list)[i] \in again
    <3>1. /\ i + 1 \in 1 .. Len(list) /\ j + 1 \in 1 .. Len(list)
          /\ list[i + 1] = list[j + 1] /\ Tail(list)[i] = list[i + 1]
      BY <1>1, <2>1
    <3>2. i + 1 = j + 1 \/ list[i + 1] \in again
      BY <1>4, <3>1 DEF Distinct
    <3>. QED
      BY <3>1, <3>2
  <2>2. ASSUME NEW i \in 1 .. Len(list) - 1, Tail(list)[i] = Head(list)
        PROVE  Head(list) \in again
    <3>1. i + 1 \in 1 .. Len(list) /\ 1 \in 1 .. Len(list) /\ list[i + 1] = list[1]
      BY <1>1, <2>2
    <3>2. i + 1 = 1 \/ list[i + 1] \in again
      BY <1>4, <3>1 DEF Distinct
    <3>. QED
      BY <1>1, <3>1, <3>2
  <2>. QED
    BY <1>1, <2>1, <2>2 DEF Distinct, In
<1>. QED
  BY <1>2, <1>3, <1>4

LEMMA AppendIn ==
  ASSUME NEW T, NEW list \in Seq(T), NEW e \in T, NEW again
  PROVE  /\ \A m : In(m, Append(list, e)) <=> m = e \/ In(m, list)
         /\ Distinct(list, again) => Distinct(Append(list, e), again \cup {e})
<1>1. /\ Len(list) \in Nat /\ Len(Append(list, e)) = Len(list) + 1
      /\ Append(list, e)[Len(list) + 1] = e
      /\ \A i \in 1 .. Len(list) : Append(list, e)[i] = list[i]
  OBVIOUS
<1>2. ASSUME NEW i \in 1 .. Len(list) + 1
      PROVE  i \in 1 .. Len(list) \/ i = Len(list) + 1
  BY <1>1
<1>3. \A m : In(m, Append(list, e)) => m = e \/ In(m, list)
  BY <1>1, <1>2 DEF In
<1>4. \A m : m = e \/ In(m, list) => In(m, Append(list, e))
  <2>1. Len(list) + 1 \in 1 .. Len(list) + 1 /\ 1 .. Len(list) \subseteq 1 .. Len(list) + 1
    BY <1>1
  <2>. QED
    BY <1>1, <2>1 DEF In
<1>5. ASSUME Distinct(list, again) PROVE Distinct(Append(list, e), again \cup {e})
  <2>. SUFFICES ASSUME NEW i \in 1 .. Len(list) + 1, NEW j \in 1 .. Len(list) + 1,
                       Append(list, e)[i] = Append(list, e)[j],
                       Append(list, e)[i] \notin again \cup {e}
                PROVE  i = j
    BY <1>1 DEF Distinct
  <2>1. CASE i \in 1 .. Len(list) /\ j \in 1 .. Len(list)
    BY <1>1, <1>5, <2>1 DEF Distinct
  <2>2. i \in 1 .. Len(list) /\ j \in 1 .. Len(list)
    BY <1>1, <1>2
  <2>. QED
    BY <2>1, <2>2
<1>. QED
  BY <1>3, <1>4, <1>5

\* To append a message once more.
LEMMA TimesAppend ==
  ASSUME NEW c \in Ids, NEW e \in Messages, NEW m \in Messages, TypeOK,
         captured'[c] = Append(captured[c], e)
  PROVE  Times(m, c)' = IF m = e THEN Times(m, c) + 1 ELSE Times(m, c)
<1>. DEFINE old == {i \in DOMAIN captured[c] : captured[c][i] = m}
            new == {i \in DOMAIN captured'[c] : captured'[c][i] = m}
<1>1. captured[c] \in Seq(Messages)
  BY DEF TypeOK
<1>2. /\ Len(captured[c]) \in Nat /\ DOMAIN captured[c] = 1 .. Len(captured[c])
      /\ DOMAIN captured'[c] = 1 .. Len(captured[c]) + 1
      /\ captured'[c][Len(captured[c]) + 1] = e
      /\ \A i \in 1 .. Len(captured[c]) : captured'[c][i] = captured[c][i]
  BY <1>1
<1>3. IsFiniteSet(old)
  <2>1. IsFiniteSet(1 .. Len(captured[c]))
    BY <1>2, FS_Interval
  <2>2. old \in SUBSET (1 .. Len(captured[c]))
    BY <1>2
  <2>. QED
    BY <2>1, <2>2, FS_Subset
<1>4. /\ \A i \in 1 .. Len(captured[c]) + 1 :
           i \in 1 .. Len(captured[c]) \/ i = Len(captured[c]) + 1
      /\ Len(captured[c]) + 1 \notin 1 .. Len(captured[c])
      /\ Len(captured[c]) + 1 \in 1 .. Len(captured[c]) + 1
      /\ 1 .. Len(captured[c]) \subseteq 1 .. Len(captured[c]) + 1
  BY <1>2
<1>5. CASE m = e
  <2>1. new = old \cup {Len(captured[c]) + 1}
    BY <1>2, <1>4, <1>5
  <2>2. Len(captured[c]) + 1 \notin old
    BY <1>2, <1>4
  <2>3. Cardinality(new) = Cardinality(old) + 1
    <3>. HIDE DEF old, new
    <3>. QED
      BY <1>3, <2>1, <2>2, FS_AddElement
  <2>. QED
    BY <1>5, <2>3 DEF Times
<1>6. CASE m # e
  <2>1. new = old
    BY <1>2, <1>4, <1>6
  <2>. QED
    BY <1>6, <2>1 DEF Times
<1>. QED
  BY <1>5, <1>6

LEMMA TimesType ==
  ASSUME TypeOK, NEW m \in Messages, NEW c \in Ids
  PROVE  Times(m, c) \in Nat
<1>. DEFINE found == {i \in DOMAIN captured[c] : captured[c][i] = m}
<1>1. captured[c] \in Seq(Messages)
  BY DEF TypeOK
<1>2. DOMAIN captured[c] = 1 .. Len(captured[c]) /\ Len(captured[c]) \in Nat
  BY <1>1
<1>3. found \in SUBSET (1 .. Len(captured[c])) /\ IsFiniteSet(1 .. Len(captured[c]))
  BY <1>2, FS_Interval
<1>4. Cardinality(found) \in Nat
  BY <1>3, FS_Subset, FS_CardinalityType
<1>. QED
  BY <1>4 DEF Times

LEMMA SpentFinite ==
  \A m : IsFiniteSet(Spent(m)) /\ Cardinality(Spent(m)) \in Nat
<1>1. TAKE m
<1>2. Spent(m) \in SUBSET (Readers \cup {Shared})
  BY SubscriptionType DEF Spent, Subscriptions
<1>3. IsFiniteSet(Readers \cup {Shared})
  BY ConstantsType, FS_AddElement
<1>. QED
  BY <1>2, <1>3, FS_Subset, FS_CardinalityType

\* Pops find an element, unless a DELETE emptied the records.
LEMMA PopsFind ==
  ASSUME LocalInv, ListInv, NEW r \in Readers
  PROVE  /\ pc[r] = "popLog" => log[consumer[r]] # <<>>
         /\ pc[r] = "popRecords" /\ deletes = 0 => records[consumer[r]] # <<>>
<1>0. TypeOK /\ SizeInv
  BY DEF LocalInv, ListInv
<1>1. ASSUME pc[r] = "popLog" PROVE log[consumer[r]] # <<>>
  <2>1. PICK c \in Ids : c = consumer[r]
    BY <1>1 DEF LocalInv, Held, Handling
  <2>2. r \in Trimmers(c)
    BY <1>1, <2>1 DEF Trimmers, Trimming
  <2>3. Cardinality(Trimmers(c)) # 0
    BY <2>2, ReadersFinite, FS_EmptySet
  <2>. QED
    BY <1>0, <2>1, <2>3, ListLengths, ReadersFinite DEF SizeInv, LogSize
<1>2. ASSUME pc[r] = "popRecords", deletes = 0 PROVE records[consumer[r]] # <<>>
  <2>1. PICK c \in Ids : c = consumer[r]
    BY <1>2 DEF LocalInv, Held, Handling
  <2>2. r \in Cutters(c)
    BY <1>2, <2>1 DEF Cutters, Cutting
  <2>3. Cardinality(Cutters(c)) # 0
    BY <2>2, ReadersFinite, FS_EmptySet
  <2>. QED
    BY <1>0, <1>2, <2>1, <2>3, ListLengths, ReadersFinite DEF SizeInv, RecordsSize
<1>. QED
  BY <1>1, <1>2

\* A step that captures nothing and brings nothing back that was not sent again.
LEMMA SameCount ==
  ASSUME TypeOK, CountInv, captured' = captured, Subscriptions' = Subscriptions,
         returned \subseteq returned',
         \A s \in Subscriptions, m \in Messages \ returned' : Pending(s, m)' => Pending(s, m)
  PROVE  CountInv'
<1>. SUFFICES ASSUME NEW m \in Messages \ returned', NEW c \in Ids
              PROVE  Times(m, c)' <= Cardinality(Spent(m)')
  BY DEF CountInv
<1>1. Times(m, c)' = Times(m, c)
  BY DEF Times
<1>2. Spent(m) \in SUBSET (Spent(m)')
  BY DEF Spent
<1>3. IsFiniteSet(Spent(m)')
  <2>1. IsFiniteSet(Readers \cup {Shared})
    BY ConstantsType, FS_AddElement
  <2>2. Spent(m)' \in SUBSET (Readers \cup {Shared})
    BY SubscriptionType DEF Spent, Subscriptions
  <2>. QED
    BY <2>1, <2>2, FS_Subset
<1>4. Cardinality(Spent(m)) <= Cardinality(Spent(m)') /\ Cardinality(Spent(m)') \in Nat
  BY <1>2, <1>3, FS_Subset, FS_CardinalityType
<1>5. Times(m, c) <= Cardinality(Spent(m))
  BY DEF CountInv
<1>. QED
  BY <1>1, <1>4, <1>5, SpentFinite, TimesType

\* The readers that were started, and what they subscribe to, never change.
LEMMA SameReaders ==
  ASSUME TypeOK, [Next]_vars
  PROVE  /\ \A r \in Readers : pc'[r] = "none" <=> pc[r] = "none"
         /\ \A r : Subscription(r)' = Subscription(r)
         /\ Subscriptions' = Subscriptions
<1>. USE DEF history, stores, locals, setting, offers
<1>0. pc \in [Readers -> Labels]
  BY DEF TypeOK
<1>1. /\ backend' = backend
      /\ \A r \in Readers : pc'[r] = "none" <=> pc[r] = "none"
  <2>1. ASSUME NEW r \in Readers, Consume(r) \/ PollNothing(r)
        PROVE  backend' = backend /\ \A q \in Readers : pc'[q] = "none" <=> pc[q] = "none"
    <3>1. /\ pc[r] # "none" /\ pc'[r] # "none"
          /\ \A q \in Readers : q # r => pc'[q] = pc[q]
      BY <1>0, <2>1 DEF Consume, TestStop, PollNothing, Receive, Match, AppendLog, CannotCount,
         AddRecord, TestLog, PopLog, TestRecords, PopRecords, React, Settle, Fail, GoTo
    <3>2. backend' = backend
      BY <2>1 DEF Consume, TestStop, PollNothing, Receive, Match, AppendLog, CannotCount,
         AddRecord, TestLog, PopLog, TestRecords, PopRecords, React, Settle
    <3>. QED
      BY <3>1, <3>2
  <2>2. CASE \/ (\E c \in Ids : Delete(c)) \/ StopLoops \/ UNCHANGED vars
             \/ \E m \in Sent : Reappear(m)
    BY <2>2 DEF Delete, StopLoops, Reappear, vars
  <2>. QED
    BY <2>1, <2>2 DEF Next
<1>2. \A r : Subscription(r)' = Subscription(r)
  BY <1>1 DEF Subscription
<1>. QED
  BY <1>1, <1>2 DEF Subscriptions

\* A step after which no reader holds more than it held before.
LEMMA FewerHeld ==
  ASSUME TypeOK, TokenInv, [Next]_vars, UNCHANGED <<queue, returned, message>>,
         \A q \in Readers : Unsettled(q)' => Unsettled(q)
  PROVE  TokenInv' /\ \A s, m : Pending(s, m)' => Pending(s, m)
<1>1. \A q \in Readers : \A s, m : Takes(q, s, m)' => Takes(q, s, m)
  BY SameReaders DEF Takes
<1>2. \A s, m : Pending(s, m)' => Pending(s, m)
  BY <1>1 DEF Pending
<1>3. TokenInv'
  BY <1>1, SameReaders DEF TokenInv
<1>. QED
  BY <1>2, <1>3

\* A step that captures nothing and after which nothing more is pending.
LEMMA KeepsOnce ==
  ASSUME TypeOK, OnceInv, [Next]_vars, captured' = captured, returned' = returned,
         TokenInv => TokenInv' /\ \A s \in Readers \cup {Shared} : \A m : Pending(s, m)' => Pending(s, m)
  PROVE  OnceInv'
<1>1. Subscriptions \subseteq Readers \cup {Shared}
  BY SubscriptionType DEF Subscriptions
<1>. QED
  BY <1>1, SameReaders, SameCount DEF OnceInv

\* The broker has a message again, and what was said of it is void.
LEMMA SendsOnce ==
  ASSUME TypeOK, OnceInv, [Next]_vars, NEW home \in Readers \cup {Shared},
         NEW m \in Messages, SendAgain(home, m), message' = message, captured' = captured,
         \A q \in Readers : Unsettled(q)' => Unsettled(q)
  PROVE  OnceInv'
<1>0. queue \in [Readers \cup {Shared} -> Seq(Messages)] /\ TokenInv /\ CountInv
  BY DEF TypeOK, OnceInv
<1>1. /\ queue'[home] = Append(queue[home], m) /\ returned' = returned \cup {m}
      /\ \A s \in Readers \cup {Shared} : s # home => queue'[s] = queue[s]
  BY <1>0 DEF SendAgain
<1>2. \A q \in Readers : \A s, k : Takes(q, s, k)' => Takes(q, s, k)
  BY SameReaders DEF Takes
<1>3. /\ \A k : In(k, queue'[home]) <=> k = m \/ In(k, queue[home])
      /\ Distinct(queue[home], returned) => Distinct(queue'[home], returned')
  <2>1. queue[home] \in Seq(Messages)
    BY <1>0
  <2>2. /\ \A k : In(k, Append(queue[home], m)) <=> k = m \/ In(k, queue[home])
        /\ Distinct(queue[home], returned)
             => Distinct(Append(queue[home], m), returned \cup {m})
    BY <2>1, AppendIn
  <2>. QED
    BY <1>1, <2>2
<1>4. \A s \in Readers \cup {Shared} : Distinct(queue'[s], returned')
  <2>1. \A s \in Readers \cup {Shared} : Distinct(queue[s], returned)
    BY <1>0 DEF TokenInv
  <2>2. \A s \in Readers \cup {Shared} : Distinct(queue[s], returned')
    BY <1>1, <2>1 DEF Distinct
  <2>. QED
    BY <1>1, <1>3, <2>1, <2>2
<1>5. ASSUME NEW s \in Readers \cup {Shared}, NEW k, k \notin returned'
      PROVE  /\ In(k, queue'[s]) => In(k, queue[s])
             /\ Pending(s, k)' => Pending(s, k)
  <2>1. In(k, queue'[s]) => In(k, queue[s])
    BY <1>1, <1>3, <1>5
  <2>. QED
    BY <1>2, <2>1 DEF Pending
<1>6. ASSUME NEW q \in Readers, Unsettled(q)'
      PROVE  message'[q] \in returned' \/ ~In(message'[q], queue'[Subscription(q)'])
  <2>1. /\ message[q] \in returned \/ ~In(message[q], queue[Subscription(q)])
        /\ Subscription(q)' = Subscription(q) /\ Subscription(q) \in Readers \cup {Shared}
    BY <1>0, <1>6, SameReaders, SubscriptionType DEF TokenInv
  <2>. QED
    BY <1>1, <1>5, <2>1
<1>7. \A p, q \in Readers :
        Unsettled(p)' /\ Takes(q, Subscription(p), message[p])' =>
          q = p \/ message'[p] \in returned'
  BY <1>0, <1>1, <1>2, SameReaders DEF TokenInv
<1>8. TokenInv'
  BY <1>4, <1>6, <1>7 DEF TokenInv
<1>9. CountInv'
  <2>1. Subscriptions \subseteq Readers \cup {Shared}
    BY SubscriptionType DEF Subscriptions
  <2>. QED
    BY <1>0, <1>1, <1>5, <2>1, SameReaders, SameCount
<1>. QED
  BY <1>8, <1>9 DEF OnceInv

LEMMA ReceiveOnce ==
  ASSUME LocalInv, OnceInv, [Next]_vars, NEW r \in Readers, Receive(r) PROVE OnceInv'
<1>. USE DEF history, stores, locals, setting, offers
<1>. DEFINE home == Subscription(r)
            m == Head(queue[home])
<1>0. /\ queue \in [Readers \cup {Shared} -> Seq(Messages)] /\ home \in Readers \cup {Shared}
      /\ pc \in [Readers -> Labels] /\ message \in [Readers -> Messages \cup {Nobody}]
  BY SubscriptionType DEF LocalInv, TypeOK
<1>1. /\ queue[home] # <<>> /\ message' = [message EXCEPT ![r] = m]
      /\ queue' = [queue EXCEPT ![home] = Tail(@)] /\ pc[r] \in {"poll", "top"}
      /\ GoTo(r, "match") /\ UNCHANGED <<captured, returned, consumer>>
  BY DEF Receive
<1>. SUFFICES ASSUME TokenInv
              PROVE  TokenInv' /\ \A s \in Readers \cup {Shared} : \A k : Pending(s, k)' => Pending(s, k)
  BY <1>1, KeepsOnce DEF LocalInv
<1>. HIDE DEF home, m
<1>2. /\ queue'[home] = Tail(queue[home]) /\ queue[home] \in Seq(Messages)
      /\ \A s \in Readers \cup {Shared} : s # home => queue'[s] = queue[s]
      /\ message'[r] = m /\ \A q \in Readers : q # r => message'[q] = message[q]
  BY <1>0, <1>1
<1>3. /\ \A k : In(k, queue[home]) <=> k = m \/ In(k, queue'[home])
      /\ Distinct(queue'[home], returned) /\ (m \in returned \/ ~In(m, queue'[home]))
  BY <1>0, <1>1, <1>2, TailIn DEF TokenInv, m
<1>4. /\ \A q \in Readers : q # r => (Unsettled(q)' <=> Unsettled(q))
      /\ \A q : Subscription(q)' = Subscription(q)
  BY <1>0, <1>1, SameReaders DEF Unsettled, GoTo, LocalInv
<1>5. \A q \in Readers : \A s, k : Takes(q, s, k)' =>
        IF q = r THEN s = home /\ k = m ELSE Takes(q, s, k)
  BY <1>2, <1>4 DEF Takes, home
<1>6. ASSUME NEW s \in Readers \cup {Shared}, NEW k, Pending(s, k)' PROVE Pending(s, k)
  <2>1. CASE In(k, queue'[s])
    BY <1>2, <1>3, <2>1 DEF Pending
  <2>2. CASE \E q \in Readers : Takes(q, s, k)'
    BY <1>3, <1>5, <2>2 DEF Pending
  <2>. QED
    BY <1>6, <2>1, <2>2 DEF Pending
<1>7. \A s \in Readers \cup {Shared} : Distinct(queue'[s], returned')
  BY <1>1, <1>2, <1>3 DEF TokenInv
<1>8. ASSUME NEW q \in Readers, Unsettled(q)'
      PROVE  message'[q] \in returned' \/ ~In(message'[q], queue'[Subscription(q)'])
  <2>1. CASE q = r
    BY <1>1, <1>2, <1>3, <1>4, <2>1 DEF home
  <2>2. CASE q # r
    <3>1. /\ message[q] \in returned \/ ~In(message[q], queue[Subscription(q)])
          /\ Subscription(q) \in Readers \cup {Shared}
      BY <1>4, <1>8, <2>2, SubscriptionType DEF TokenInv
    <3>. QED
      BY <1>1, <1>2, <1>3, <1>4, <2>2, <3>1
  <2>. QED
    BY <2>1, <2>2
<1>9. ASSUME NEW p \in Readers, NEW q \in Readers, Unsettled(p)',
             Takes(q, Subscription(p), message[p])'
      PROVE  q = p \/ message'[p] \in returned'
  <2>1. CASE p = r /\ q # r
    <3>1. Takes(q, home, m)
      BY <1>2, <1>4, <1>5, <1>9, <2>1 DEF home, Takes
    <3>2. m \in returned \/ ~In(m, queue[home])
      BY <3>1 DEF Takes, TokenInv
    <3>. QED
      BY <1>1, <1>2, <1>3, <2>1, <3>2
  <2>2. CASE p # r /\ q = r
    <3>1. Subscription(p) = home /\ message[p] = m /\ Unsettled(p)
      BY <1>2, <1>4, <1>5, <1>9, <2>2 DEF Takes, home
    <3>2. m \in returned \/ ~In(m, queue[home])
      BY <3>1 DEF TokenInv
    <3>. QED
      BY <1>1, <1>2, <1>3, <2>2, <3>1, <3>2
  <2>3. CASE p # r /\ q # r
    <3>1. Unsettled(p) /\ Takes(q, Subscription(p), message[p])
      BY <1>2, <1>4, <1>9, <2>3 DEF Takes
    <3>2. q = p \/ message[p] \in returned
      BY <3>1 DEF TokenInv
    <3>. QED
      BY <1>1, <1>2, <2>3, <3>2
  <2>. QED
    BY <2>1, <2>2, <2>3
<1>. QED
  BY <1>6, <1>7, <1>8, <1>9 DEF TokenInv

\* To append the message to a log spends it.
LEMMA AppendOnce ==
  ASSUME LocalInv, OnceInv, [Next]_vars, NEW r \in Readers, AppendLog(r) PROVE OnceInv'
<1>. USE DEF history, stores, locals, setting, offers
<1>0. TypeOK /\ pc \in [Readers -> Labels]
  BY DEF LocalInv, TypeOK
<1>1. PICK c \in Ids, m \in Messages : c = consumer[r] /\ m = message[r]
  BY DEF AppendLog, LocalInv, Held, Handling, Holding
<1>2. /\ captured' = [captured EXCEPT ![c] = Append(@, m)]
      /\ pc[r] = "log" /\ GoTo(r, "record") /\ UNCHANGED <<queue, returned, message, consumer>>
  BY <1>1 DEF AppendLog
<1>3. /\ \A q \in Readers : Unsettled(q)' => Unsettled(q)
      /\ Unsettled(r) /\ ~Unsettled(r)'
  BY <1>0, <1>2 DEF GoTo, Unsettled
<1>. SUFFICES ASSUME TokenInv, CountInv PROVE TokenInv' /\ CountInv'
  BY DEF OnceInv
<1>4. TokenInv' /\ \A s, k : Pending(s, k)' => Pending(s, k)
  BY <1>0, <1>2, <1>3, FewerHeld
<1>5. ASSUME NEW k \in Messages \ returned, NEW d \in Ids
      PROVE  Times(k, d)' <= Cardinality(Spent(k)')
  <2>1. Spent(k) \in SUBSET (Spent(k)')
    BY <1>0, <1>4, SameReaders DEF Spent
  <2>2. IsFiniteSet(Spent(k)')
    <3>1. IsFiniteSet(Readers \cup {Shared})
      BY ConstantsType, FS_AddElement
    <3>2. Spent(k)' \in SUBSET (Readers \cup {Shared})
      BY <1>0, SameReaders, SubscriptionType DEF Spent, Subscriptions
    <3>. QED
      BY <3>1, <3>2, FS_Subset
  <2>3. /\ Cardinality(Spent(k)) <= Cardinality(Spent(k)')
        /\ Cardinality(Spent(k)') \in Nat /\ Cardinality(Spent(k)) \in Nat
        /\ Cardinality(Spent(k)') = Cardinality(Spent(k)) => Spent(k)' = Spent(k)
    BY <2>1, <2>2, SpentFinite, FS_Subset, FS_CardinalityType
  <2>4. Times(k, d) <= Cardinality(Spent(k)) /\ Times(k, d) \in Nat
    BY <1>0, TimesType DEF CountInv
  <2>5. CASE k = m /\ d = c
    <3>0. PICK home : home = Subscription(r)
      OBVIOUS
    <3>1. captured'[c] = Append(captured[c], m)
      BY <1>0, <1>2 DEF TypeOK
    <3>2. Times(k, d)' = Times(k, d) + 1
      BY <1>0, <2>5, <3>1, TimesAppend
    <3>3. home \in Subscriptions
      BY <1>2, <3>0 DEF Subscriptions
    <3>4. Pending(home, m)
      BY <1>1, <1>3, <3>0 DEF Pending, Takes
    <3>5. ~In(m, queue[home]) /\ \A q \in Readers : Takes(q, home, m) => q = r
      BY <1>1, <1>3, <2>5, <3>0 DEF TokenInv
    <3>6. ~Pending(home, m)'
      <4>1. \A q \in Readers : Takes(q, home, m)' => Takes(q, home, m) /\ q # r
        BY <1>0, <1>2, <1>3, SameReaders DEF Takes
      <4>2. ~In(m, queue'[home])
        BY <1>2, <3>5
      <4>. QED
        BY <3>5, <4>1, <4>2 DEF Pending
    <3>7. home \in Spent(k)' /\ home \notin Spent(k)
      BY <1>0, <2>5, <3>3, <3>4, <3>6, SameReaders DEF Spent
    <3>. QED
      BY <2>3, <2>4, <3>2, <3>7
  <2>6. CASE d = c /\ k # m
    <3>1. captured'[c] = Append(captured[c], m)
      BY <1>0, <1>2 DEF TypeOK
    <3>2. Times(k, d)' = Times(k, d)
      BY <1>0, <2>6, <3>1, TimesAppend
    <3>. QED
      BY <2>3, <2>4, <3>2
  <2>7. CASE d # c
    <3>1. captured'[d] = captured[d]
      BY <1>0, <1>2, <2>7 DEF TypeOK
    <3>2. Times(k, d)' = Times(k, d)
      BY <3>1 DEF Times
    <3>. QED
      BY <2>3, <2>4, <3>2
  <2>. QED
    BY <2>5, <2>6, <2>7
<1>. QED
  BY <1>2, <1>4, <1>5 DEF CountInv

LEMMA NextOnce == LocalInv /\ OnceInv /\ [Next]_vars => OnceInv'
<1> SUFFICES ASSUME LocalInv, OnceInv, [Next]_vars PROVE OnceInv'
  OBVIOUS
<1> USE DEF history, stores, locals, setting, offers
<1>0. TypeOK /\ pc \in [Readers -> Labels] /\ consumer \in [Readers -> Ids \cup {Nobody}]
  BY DEF LocalInv, TypeOK
<1>1. ASSUME NEW r \in Readers, Consume(r) \/ PollNothing(r)
      PROVE  OnceInv'
  <2>1. CASE TestStop(r) \/ PollNothing(r) \/ AddRecord(r) \/ TestLog(r) \/ TestRecords(r)
    <3>1. \A q \in Readers : Unsettled(q)' => Unsettled(q)
      BY <1>0, <2>1 DEF TestStop, PollNothing, AddRecord, TestLog, TestRecords, GoTo, Unsettled
    <3>2. UNCHANGED <<queue, returned, message, captured>>
      BY <2>1 DEF TestStop, PollNothing, AddRecord, TestLog, TestRecords
    <3>. QED
      BY <1>0, <3>1, <3>2, FewerHeld, KeepsOnce
  <2>2. CASE Receive(r)
    BY <2>2, ReceiveOnce
  <2>3. CASE AppendLog(r)
    BY <2>3, AppendOnce
  <2>4. CASE React(r)
    <3>1. consumer[r] # Nobody
      BY <2>4, ConstantsType DEF React, LocalInv, Held, Handling, Nobody
    <3>2. \A q \in Readers : Unsettled(q)' => Unsettled(q)
      BY <1>0, <2>4, <3>1 DEF React, GoTo, Unsettled
    <3>3. UNCHANGED <<queue, returned, message, captured>>
      BY <2>4 DEF React
    <3>. QED
      BY <1>0, <3>2, <3>3, FewerHeld, KeepsOnce
  <2>5. CASE Match(r) \/ PopLog(r) \/ PopRecords(r) \/ CannotCount(r) \/ Settle(r)
    <3>1. UNCHANGED <<message, captured>> /\ pc[r] \in Holding
      BY <2>5 DEF Match, PopLog, PopRecords, CannotCount, Settle, Holding, Handling
    <3>2. SendAgain(Subscription(r), message[r]) \/ UNCHANGED offers
      BY <2>5 DEF Match, PopLog, PopRecords, CannotCount, Settle, Fail
    <3>3. \A q \in Readers : Unsettled(q)' => Unsettled(q)
      <4>1. \A q \in Readers : q # r => pc'[q] = pc[q] /\ consumer'[q] = consumer[q]
        BY <1>0, <2>5 DEF Match, PopLog, PopRecords, CannotCount, Settle, Fail, GoTo
      <4>2. Unsettled(r)' => pc[r] = "match"
        BY <1>0, <2>5 DEF Match, PopLog, PopRecords, CannotCount, Settle, Fail, GoTo, Unsettled
      <4>. QED
        BY <4>1, <4>2 DEF Unsettled
    <3>4. message[r] \in Messages /\ Subscription(r) \in Readers \cup {Shared}
      BY <3>1, SubscriptionType DEF LocalInv, Held
    <3>5. CASE SendAgain(Subscription(r), message[r])
      BY <1>0, <3>1, <3>3, <3>4, <3>5, SendsOnce
    <3>6. CASE UNCHANGED offers
      BY <1>0, <3>1, <3>3, <3>6, FewerHeld, KeepsOnce
    <3>. QED
      BY <3>2, <3>5, <3>6
  <2>. QED
    BY <1>1, <2>1, <2>2, <2>3, <2>4, <2>5 DEF Consume
<1>2. ASSUME NEW m \in Sent, Reappear(m) PROVE OnceInv'
  <2>1. m \in Messages
    BY ConstantsType DEF LocalInv, TypeOK
  <2>2. UNCHANGED <<pc, consumer, message, captured>> /\ SendAgain(Shared, m)
    BY <1>2 DEF Reappear
  <2>3. \A q \in Readers : Unsettled(q)' => Unsettled(q)
    BY <2>2 DEF Unsettled
  <2>. QED
    BY <1>0, <2>1, <2>2, <2>3, SendsOnce
<1>3. CASE StopLoops \/ UNCHANGED vars \/ \E c \in Ids : Delete(c)
  <2>1. UNCHANGED <<pc, consumer, queue, returned, message, captured>>
    BY <1>3 DEF StopLoops, Delete, vars
  <2>2. \A q \in Readers : Unsettled(q)' => Unsettled(q)
    BY <2>1 DEF Unsettled
  <2>. QED
    BY <1>0, <2>1, <2>2, FewerHeld, KeepsOnce
<1>. QED
  BY <1>1, <1>2, <1>3 DEF Next

LEMMA InitOnce == Init => OnceInv
<1> SUFFICES ASSUME Init PROVE TokenInv /\ CountInv
  BY DEF OnceInv
<1>1. \A r \in Readers : ~Unsettled(r)
  BY DEF Init, Unsettled
<1>2. ASSUME NEW s \in Readers \cup {Shared} PROVE Distinct(queue[s], returned)
  <2>1. queue[s] = [i \in Sent |-> i] /\ Sent = 1 .. Published[backend]
    BY DEF Init, Sent
  <2>2. Published[backend] \in Nat
    BY GroupAssumption DEF Init, GroupAssumption
  <2>3. Len(queue[s]) = Published[backend]
    BY <2>1, <2>2
  <2>. QED
    BY <2>1, <2>3 DEF Distinct
<1>3. ASSUME NEW m \in Messages, NEW c \in Ids PROVE Times(m, c) <= Cardinality(Spent(m))
  <2>1. captured[c] = <<>>
    BY DEF Init
  <2>2. {i \in DOMAIN captured[c] : captured[c][i] = m} = {}
    BY <2>1
  <2>3. Times(m, c) = 0
    BY <2>2, FS_EmptySet DEF Times
  <2>. QED
    BY <2>3, SpentFinite
<1>. QED
  BY <1>1, <1>2, <1>3 DEF TokenInv, CountInv, Takes

\* Each subscription captures a message at most once, whatever becomes of the
\* readers in between, unless the broker sent the message again.
THEOREM OncePerSubscription == Spec => []CapturedOnce
<1>1. ASSUME LocalInv, OnceInv PROVE CapturedOnce
  <2> SUFFICES ASSUME NEW m \in Messages \ returned, NEW c \in Ids
               PROVE  Times(m, c) <= Cardinality(Subscriptions)
    BY DEF CapturedOnce
  <2>1. Times(m, c) <= Cardinality(Spent(m)) /\ Times(m, c) \in Nat
    BY <1>1, TimesType DEF OnceInv, CountInv, LocalInv
  <2>2. IsFiniteSet(Readers \cup {Shared})
    BY ConstantsType, FS_AddElement
  <2>3. Subscriptions \in SUBSET (Readers \cup {Shared}) /\ Spent(m) \in SUBSET Subscriptions
    BY SubscriptionType DEF Subscriptions, Spent
  <2>4. IsFiniteSet(Subscriptions) /\ Cardinality(Subscriptions) \in Nat
    BY <2>2, <2>3, FS_Subset, FS_CardinalityType
  <2>5. Cardinality(Spent(m)) <= Cardinality(Subscriptions)
    BY <2>3, <2>4, FS_Subset
  <2>. QED
    BY <2>1, <2>4, <2>5, SpentFinite
<1>. QED
  BY <1>1, InitOnce, NextOnce, InitLocal, NextLocal, PTL DEF Spec
-----------------------------------------------------------------------------
(***************************************************************************)
(* A lone reader.  A list holds the last elements of its history, as many  *)
(* as capture says and one more between the append and the pop; the reader *)
(* is about to pop only a list that is one too long or, in its records,    *)
(* one that a DELETE emptied together with their history.                  *)
(***************************************************************************)
Dropped(list, n) == IF Len(list) > n THEN Len(list) - n ELSE 0

LEMMA LastType ==
  ASSUME NEW T, NEW list \in Seq(T), NEW n \in Nat
  PROVE  /\ Dropped(list, n) \in Nat /\ Dropped(list, n) <= Len(list) /\ Len(list) \in Nat
         /\ LastOf(list, n) \in Seq(T)
         /\ Len(LastOf(list, n)) = Len(list) - Dropped(list, n)
         /\ \A i \in 1 .. Len(list) - Dropped(list, n) :
              LastOf(list, n)[i] = list[i + Dropped(list, n)]
<1>. DEFINE drop == Dropped(list, n)
<1>1. Len(list) \in Nat /\ drop \in Nat /\ drop <= Len(list)
  BY DEF Dropped
<1>. HIDE DEF drop
<1>2. \A i \in 1 + drop .. Len(list) : list[i] \in T
  BY <1>1
<1>3. /\ SubSeq(list, 1 + drop, Len(list)) \in Seq(T)
      /\ Len(SubSeq(list, 1 + drop, Len(list))) =
           IF 1 + drop <= Len(list) THEN Len(list) - (1 + drop) + 1 ELSE 0
      /\ \A i \in 1 .. Len(list) - (1 + drop) + 1 :
           SubSeq(list, 1 + drop, Len(list))[i] = list[1 + drop + i - 1]
  BY <1>1, <1>2, SubSeqProperties
<1>4. LastOf(list, n) = SubSeq(list, 1 + drop, Len(list))
  BY DEF LastOf, drop, Dropped
<1>5. Len(LastOf(list, n)) = Len(list) - drop
  BY <1>1, <1>3, <1>4
<1>6. \A i \in 1 .. Len(list) - drop : LastOf(list, n)[i] = list[i + drop]
  <2>. TAKE i \in 1 .. Len(list) - drop
  <2>1. i \in 1 .. Len(list) - (1 + drop) + 1 /\ 1 + drop + i - 1 = i + drop
    BY <1>1
  <2>. QED
    BY <1>3, <1>4, <2>1
<1>. QED
  BY <1>1, <1>3, <1>4, <1>5, <1>6 DEF drop

\* The last n + 1 elements after an append are the last n before it and the new.
LEMMA LastAppend ==
  ASSUME NEW T, NEW list \in Seq(T), NEW n \in Nat, NEW e \in T
  PROVE  Append(LastOf(list, n), e) = LastOf(Append(list, e), n + 1)
<1>. DEFINE longer == Append(list, e)
            last == LastOf(list, n)
            one == Append(last, e)
            two == LastOf(longer, n + 1)
            drop == Dropped(list, n)
<1>1. /\ longer \in Seq(T) /\ Len(longer) = Len(list) + 1
      /\ \A i \in 1 .. Len(list) : longer[i] = list[i]
      /\ longer[Len(list) + 1] = e
  BY AppendProperties
<1>2. /\ Len(list) \in Nat /\ drop \in Nat /\ drop <= Len(list)
      /\ last \in Seq(T) /\ Len(last) = Len(list) - drop
      /\ \A i \in 1 .. Len(list) - drop : last[i] = list[i + drop]
  BY LastType
<1>3. Dropped(longer, n + 1) = drop
  BY <1>1, <1>2 DEF Dropped
<1>4. /\ one \in Seq(T) /\ Len(one) = Len(last) + 1
      /\ \A i \in 1 .. Len(last) : one[i] = last[i]
      /\ one[Len(last) + 1] = e
  <2>. HIDE DEF last
  <2>. QED
    BY <1>2, AppendProperties
<1>5. /\ two \in Seq(T) /\ Len(two) = Len(longer) - drop
      /\ \A i \in 1 .. Len(longer) - drop : two[i] = longer[i + drop]
  <2>1. n + 1 \in Nat
    OBVIOUS
  <2>. HIDE DEF longer, drop
  <2>. QED
    BY <1>1, <1>3, <2>1, LastType
<1>. HIDE DEF one, two, drop, last, longer
<1>6. ASSUME NEW i \in 1 .. Len(one) PROVE one[i] = two[i]
  <2>1. CASE i \in 1 .. Len(last)
    <3>1. i + drop \in 1 .. Len(list) /\ i \in 1 .. Len(longer) - drop
      BY <1>1, <1>2, <2>1
    <3>. QED
      BY <1>1, <1>2, <1>4, <1>5, <2>1, <3>1
  <2>2. CASE i = Len(last) + 1
    <3>1. i + drop = Len(list) + 1 /\ i \in 1 .. Len(longer) - drop
      BY <1>1, <1>2, <2>2
    <3>. QED
      BY <1>1, <1>4, <1>5, <2>2, <3>1
  <2>3. i \in 1 .. Len(last) \/ i = Len(last) + 1
    BY <1>2, <1>4
  <2>. QED
    BY <2>1, <2>2, <2>3
<1>7. Len(one) = Len(two)
  BY <1>1, <1>2, <1>4, <1>5
<1>8. one = two
  BY <1>4, <1>5, <1>6, <1>7, SeqEqual
<1>. QED
  BY <1>8 DEF one, two, last, longer

\* What is one too long loses its first element; what is not stays.
LEMMA LastTrim ==
  ASSUME NEW T, NEW list \in Seq(T), NEW n \in Nat
  PROVE  /\ Len(LastOf(list, n + 1)) > n => Tail(LastOf(list, n + 1)) = LastOf(list, n)
         /\ Len(LastOf(list, n + 1)) <= n => LastOf(list, n + 1) = LastOf(list, n)
<1>. DEFINE long == LastOf(list, n + 1)
            last == LastOf(list, n)
            more == Dropped(list, n)
            less == Dropped(list, n + 1)
<1>0. n + 1 \in Nat
  OBVIOUS
<1>1. /\ less \in Nat /\ less <= Len(list) /\ Len(list) \in Nat
      /\ long \in Seq(T) /\ Len(long) = Len(list) - less
      /\ \A i \in 1 .. Len(list) - less : long[i] = list[i + less]
  BY <1>0, LastType
<1>2. /\ more \in Nat /\ more <= Len(list)
      /\ last \in Seq(T) /\ Len(last) = Len(list) - more
      /\ \A i \in 1 .. Len(list) - more : last[i] = list[i + more]
  BY LastType
<1>. HIDE DEF long, last
<1>3. /\ Len(long) > n => more = less + 1
      /\ Len(long) <= n => more = 0 /\ less = 0
  BY <1>1 DEF Dropped
<1>. HIDE DEF more, less
<1>4. ASSUME Len(long) > n PROVE Tail(long) = last
  <2>1. more = less + 1 /\ long # <<>>
    <3>1. Len(long) # 0
      BY <1>1, <1>4
    <3>. QED
      BY <1>1, <1>3, <1>4, <3>1, EmptySeqLen
  <2>2. /\ Tail(long) \in Seq(T) /\ Len(Tail(long)) = Len(long) - 1
        /\ \A i \in 1 .. Len(Tail(long)) : Tail(long)[i] = long[i + 1]
    BY <1>1, <2>1, HeadTailProperties
  <2>3. Len(Tail(long)) = Len(list) - more /\ Len(last) = Len(list) - more
    BY <1>1, <1>2, <2>1, <2>2
  <2>4. ASSUME NEW i \in 1 .. Len(list) - more PROVE Tail(long)[i] = last[i]
    <3>1. i + 1 \in 1 .. Len(list) - less /\ i + 1 + less = i + more
      BY <1>1, <1>2, <2>1
    <3>. QED
      BY <1>1, <1>2, <2>2, <2>3, <3>1
  <2>. QED
    BY <1>2, <2>2, <2>3, <2>4, SeqEqual
<1>5. ASSUME Len(long) <= n PROVE long = last
  <2>1. more = 0 /\ less = 0
    BY <1>1, <1>3, <1>5
  <2>2. \A i \in 1 .. Len(long) : long[i] = last[i]
    BY <1>1, <1>2, <2>1
  <2>. QED
    BY <1>1, <1>2, <2>1, <2>2, SeqEqual
<1>. QED
  BY <1>4, <1>5 DEF long, last

Lone == \A r, q \in Readers : pc[r] # "none" /\ pc[q] # "none" => r = q
LogLast(c) ==
  unfinished[c] = 0 =>
    /\ (\A r \in Readers : ~Trimming(r, c)) =>
         log[c] = LastOf(captured[c], Consumers[c].capture)
    /\ \A r \in Readers : Trimming(r, c) =>
         /\ log[c] = LastOf(captured[c], Consumers[c].capture + 1)
         /\ pc[r] = "popLog" => Over(log, c)
RecordsLast(c) ==
  /\ (\A r \in Readers : ~Cutting(r, c)) =>
       records[c] = LastOf(recorded[c], Consumers[c].capture)
  /\ \A r \in Readers : Cutting(r, c) =>
       /\ records[c] = LastOf(recorded[c], Consumers[c].capture + 1)
       /\ pc[r] = "popRecords" => Over(records, c) \/ records[c] = <<>>
LastInv == Lone => \A c \in Ids : LogLast(c) /\ RecordsLast(c)

\* What a step leaves alone.
LEMMA SameLogLast ==
  ASSUME NEW c \in Ids, LogLast(c), log'[c] = log[c], captured'[c] = captured[c],
         unfinished'[c] = unfinished[c],
         \A r \in Readers : Trimming(r, c)' <=> Trimming(r, c),
         \A r \in Readers : Trimming(r, c) => (pc'[r] = "popLog" <=> pc[r] = "popLog")
  PROVE  LogLast(c)'
  BY DEF LogLast, Over

LEMMA SameRecordsLast ==
  ASSUME NEW c \in Ids, RecordsLast(c), records'[c] = records[c], recorded'[c] = recorded[c],
         \A r \in Readers : Cutting(r, c)' <=> Cutting(r, c),
         \A r \in Readers : Cutting(r, c) => (pc'[r] = "popRecords" <=> pc[r] = "popRecords")
  PROVE  RecordsLast(c)'
  BY DEF RecordsLast, Over

\* A step of the lone reader r with consumer c, which is the only one it disturbs.
LEMMA LoneStep ==
  ASSUME LastInv, Lone, NEW r \in Readers, NEW c \in Ids, LogLast(c)', RecordsLast(c)',
         pc \in [Readers -> Labels], consumer[r] = c,
         \A q \in Readers : q # r => pc'[q] = pc[q], consumer' = consumer,
         \A d \in Ids : d # c =>
           /\ log'[d] = log[d] /\ captured'[d] = captured[d]
           /\ records'[d] = records[d] /\ recorded'[d] = recorded[d]
           /\ unfinished'[d] = unfinished[d]
  PROVE  LastInv'
<1>. SUFFICES ASSUME NEW d \in Ids, d # c PROVE LogLast(d)' /\ RecordsLast(d)'
  BY DEF LastInv
<1>1. LogLast(d) /\ RecordsLast(d)
  BY DEF LastInv
<1>2. \A q \in Readers :
        /\ Trimming(q, d)' <=> Trimming(q, d)
        /\ Cutting(q, d)' <=> Cutting(q, d)
        /\ Trimming(q, d) \/ Cutting(q, d) => pc'[q] = pc[q]
  BY DEF Trimming, Cutting
<1>. QED
  BY <1>1, <1>2, SameLogLast, SameRecordsLast

LEMMA NextLast == LocalInv /\ ListInv /\ LastInv /\ [Next]_vars => LastInv'
<1> SUFFICES ASSUME LocalInv, ListInv, LastInv, [Next]_vars, Lone' PROVE LastInv'
  BY DEF LastInv
<1> USE DEF history, stores, locals, setting, offers
<1>0. /\ pc \in [Readers -> Labels] /\ TypeOK /\ Lone
      /\ consumer \in [Readers -> Ids \cup {Nobody}]
      /\ \A c \in Ids : LogLast(c) /\ RecordsLast(c)
  <2>1. TypeOK
    BY DEF LocalInv
  <2>2. Lone
    BY <2>1, SameReaders DEF Lone
  <2>. QED
    BY <2>1, <2>2 DEF TypeOK, LastInv
<1>1. ASSUME NEW r \in Readers, Consume(r) \/ PollNothing(r)
      PROVE  LastInv'
  <2>0. /\ pc[r] # "none"
        /\ \A q \in Readers : q # r => pc[q] = "none" /\ pc'[q] = pc[q]
    <3>1. /\ pc[r] # "none" /\ \A q \in Readers : q # r => pc'[q] = pc[q]
      BY <1>0, <1>1 DEF Consume, TestStop, PollNothing, Receive, Match, AppendLog, CannotCount,
         AddRecord, TestLog, PopLog, TestRecords, PopRecords, React, Settle, Fail, GoTo
    <3>. QED
      BY <1>0, <3>1 DEF Lone
  <2>1. CASE TestStop(r) \/ PollNothing(r) \/ Receive(r) \/ Match(r) \/ React(r) \/ Settle(r)
    <3>1. UNCHANGED <<log, records, captured, recorded, unfinished>>
      BY <2>1 DEF TestStop, PollNothing, Receive, Match, React, Settle
    <3>2. /\ pc[r] \in {"top", "poll", "match", "react", "settle"}
          /\ pc'[r] \in {"top", "poll", "closed", "match", "dead", "log", "settle"}
      BY <1>0, <2>1 DEF TestStop, PollNothing, Receive, Match, React, Settle, Fail, GoTo
    <3>3. \A q \in Readers, c \in Ids :
            ~Trimming(q, c) /\ ~Trimming(q, c)' /\ ~Cutting(q, c) /\ ~Cutting(q, c)'
      BY <2>0, <3>2 DEF Trimming, Cutting
    <3>. QED
      BY <1>0, <3>1, <3>3, SameLogLast, SameRecordsLast DEF LastInv
  <2>2. CASE Consume(r) /\ pc[r] \in {"log", "record", "testLog", "popLog", "testRecords",
                                     "popRecords"}
    <3>0. PICK c \in Ids, m \in Messages : c = consumer[r] /\ m = message[r]
      BY <2>2 DEF LocalInv, Held, Handling, Holding
    <3>1. /\ \A q \in Readers : q # r =>
               /\ ~Trimming(q, c) /\ ~Trimming(q, c)'
               /\ ~Cutting(q, c) /\ ~Cutting(q, c)'
          /\ Trimming(r, c) <=> pc[r] \in {"record", "testLog", "popLog"}
          /\ Cutting(r, c) <=> pc[r] \in {"testLog", "popLog", "testRecords", "popRecords"}
      BY <2>0, <3>0 DEF Trimming, Cutting
    <3>2. /\ consumer' = consumer
          /\ \A d \in Ids : d # c =>
               /\ log'[d] = log[d] /\ captured'[d] = captured[d]
               /\ records'[d] = records[d] /\ recorded'[d] = recorded[d]
               /\ unfinished'[d] = unfinished[d]
      BY <1>0, <2>2, <3>0 DEF Consume, TestStop, Receive, Match, AppendLog, CannotCount,
         AddRecord, TestLog, PopLog, TestRecords, PopRecords, React, Settle, TypeOK
    <3>3. /\ Trimming(r, c)' <=> pc'[r] \in {"record", "testLog", "popLog"}
          /\ Cutting(r, c)' <=> pc'[r] \in {"testLog", "popLog", "testRecords", "popRecords"}
      BY <3>0, <3>2 DEF Trimming, Cutting
    <3>4. /\ Consumers[c].capture \in Nat
          /\ log[c] \in Seq(Messages) /\ records[c] \in Seq(Messages)
          /\ captured[c] \in Seq(Messages) /\ recorded[c] \in Seq(Messages)
      BY <1>0, ListLengths DEF TypeOK
    <3>5. LogLast(c) /\ RecordsLast(c)
      BY <1>0
    <3>6. SUFFICES LogLast(c)' /\ RecordsLast(c)'
      BY <1>0, <2>0, <3>0, <3>2, LoneStep
    <3>7. CASE AppendLog(r)
      <4>1. /\ pc[r] = "log" /\ pc'[r] = "record" /\ UNCHANGED <<records, recorded, unfinished>>
            /\ log'[c] = Append(log[c], m) /\ captured'[c] = Append(captured[c], m)
        BY <1>0, <3>0, <3>7 DEF AppendLog, GoTo, TypeOK
      <4>2. unfinished[c] = 0 => log[c] = LastOf(captured[c], Consumers[c].capture)
        BY <3>1, <3>5, <4>1 DEF LogLast
      <4>3. unfinished[c] = 0 => log'[c] = LastOf(captured'[c], Consumers[c].capture + 1)
        <5>1. Append(LastOf(captured[c], Consumers[c].capture), m)
                = LastOf(Append(captured[c], m), Consumers[c].capture + 1)
          BY <3>4, LastAppend
        <5>. QED
          BY <4>1, <4>2, <5>1
      <4>4. LogLast(c)'
        BY <3>1, <3>3, <4>1, <4>3 DEF LogLast
      <4>5. RecordsLast(c)'
        BY <3>1, <3>3, <3>5, <4>1, SameRecordsLast
      <4>. QED
        BY <4>4, <4>5
    <3>8. CASE AddRecord(r)
      <4>1. /\ pc[r] = "record" /\ pc'[r] = "testLog" /\ UNCHANGED <<log, captured, unfinished>>
            /\ records'[c] = Append(records[c], m) /\ recorded'[c] = Append(recorded[c], m)
        BY <1>0, <3>0, <3>8 DEF AddRecord, GoTo, TypeOK
      <4>2. records[c] = LastOf(recorded[c], Consumers[c].capture)
        BY <3>1, <3>5, <4>1 DEF RecordsLast
      <4>3. records'[c] = LastOf(recorded'[c], Consumers[c].capture + 1)
        <5>1. Append(LastOf(recorded[c], Consumers[c].capture), m)
                = LastOf(Append(recorded[c], m), Consumers[c].capture + 1)
          BY <3>4, LastAppend
        <5>. QED
          BY <4>1, <4>2, <5>1
      <4>4. RecordsLast(c)'
        BY <3>1, <3>3, <4>1, <4>3 DEF RecordsLast
      <4>5. LogLast(c)'
        BY <2>0, <3>1, <3>3, <3>5, <4>1, SameLogLast
      <4>. QED
        BY <4>4, <4>5
    <3>9. CASE TestLog(r)
      <4>1. /\ pc[r] = "testLog" /\ UNCHANGED <<log, captured, records, recorded, unfinished>>
            /\ pc'[r] = IF Over(log, c) THEN "popLog" ELSE "testRecords"
        BY <1>0, <3>0, <3>9 DEF TestLog, GoTo
      <4>2. unfinished[c] = 0 => log[c] = LastOf(captured[c], Consumers[c].capture + 1)
        BY <3>1, <3>5, <4>1 DEF LogLast
      <4>3. LogLast(c)'
        <5>1. CASE Over(log, c)
          BY <3>1, <3>3, <4>1, <4>2, <5>1 DEF LogLast, Over
        <5>2. CASE ~Over(log, c)
          <6>1. Len(log[c]) <= Consumers[c].capture
            BY <3>4, <5>2 DEF Over
          <6>2. unfinished[c] = 0 => log[c] = LastOf(captured[c], Consumers[c].capture)
            BY <3>4, <4>2, <6>1, LastTrim
          <6>. QED
            BY <3>1, <3>3, <4>1, <5>2, <6>2 DEF LogLast
        <5>. QED
          BY <5>1, <5>2
      <4>4. RecordsLast(c)'
        BY <3>1, <3>3, <3>5, <4>1, SameRecordsLast
      <4>. QED
        BY <4>3, <4>4
    <3>10. CASE PopLog(r)
      <4>1. pc[r] = "popLog" /\ log[c] # <<>>
        BY <3>0, <3>10, PopsFind DEF PopLog
      <4>2. /\ pc'[r] = "testRecords" /\ log'[c] = Tail(log[c])
            /\ UNCHANGED <<captured, records, recorded, unfinished>>
        BY <1>0, <3>0, <3>10, <4>1 DEF PopLog, GoTo, TypeOK
      <4>3. unfinished[c] = 0 =>
              log[c] = LastOf(captured[c], Consumers[c].capture + 1) /\ Over(log, c)
        BY <3>1, <3>5, <4>1 DEF LogLast
      <4>4. unfinished[c] = 0 => log'[c] = LastOf(captured[c], Consumers[c].capture)
        BY <3>4, <4>2, <4>3, LastTrim DEF Over
      <4>5. LogLast(c)'
        BY <3>1, <3>3, <4>2, <4>4 DEF LogLast
      <4>6. RecordsLast(c)'
        BY <3>1, <3>3, <3>5, <4>1, <4>2, SameRecordsLast
      <4>. QED
        BY <4>5, <4>6
    <3>11. CASE TestRecords(r)
      <4>1. /\ pc[r] = "testRecords" /\ UNCHANGED <<log, captured, records, recorded, unfinished>>
            /\ pc'[r] = IF Over(records, c) THEN "popRecords" ELSE "react"
        BY <1>0, <3>0, <3>11 DEF TestRecords, GoTo
      <4>2. records[c] = LastOf(recorded[c], Consumers[c].capture + 1)
        BY <3>1, <3>5, <4>1 DEF RecordsLast
      <4>3. RecordsLast(c)'
        <5>1. CASE Over(records, c)
          BY <3>1, <3>3, <4>1, <4>2, <5>1 DEF RecordsLast, Over
        <5>2. CASE ~Over(records, c)
          <6>1. Len(records[c]) <= Consumers[c].capture
            BY <3>4, <5>2 DEF Over
          <6>2. records[c] = LastOf(recorded[c], Consumers[c].capture)
            BY <3>4, <4>2, <6>1, LastTrim
          <6>. QED
            BY <3>1, <3>3, <4>1, <5>2, <6>2 DEF RecordsLast
        <5>. QED
          BY <5>1, <5>2
      <4>4. LogLast(c)'
        BY <2>0, <3>1, <3>3, <3>5, <4>1, SameLogLast
      <4>. QED
        BY <4>3, <4>4
    <3>12. CASE PopRecords(r)
      <4>1. /\ pc[r] = "popRecords" /\ UNCHANGED <<log, captured, recorded, unfinished>>
            /\ pc'[r] \in {"top", "dead", "react"}
            /\ records'[c] = IF records[c] = <<>> THEN <<>> ELSE Tail(records[c])
        BY <1>0, <3>0, <3>12 DEF PopRecords, Fail, GoTo, TypeOK
      <4>2. /\ records[c] = LastOf(recorded[c], Consumers[c].capture + 1)
            /\ Over(records, c) \/ records[c] = <<>>
        BY <3>1, <3>5, <4>1 DEF RecordsLast
      <4>3. records'[c] = LastOf(recorded[c], Consumers[c].capture)
        <5>1. CASE records[c] = <<>>
          <6>1. Len(records[c]) <= Consumers[c].capture
            BY <3>4, <5>1
          <6>. QED
            BY <3>4, <4>1, <4>2, <5>1, <6>1, LastTrim
        <5>2. CASE records[c] # <<>>
          BY <3>4, <4>1, <4>2, <5>2, LastTrim DEF Over
        <5>. QED
          BY <5>1, <5>2
      <4>4. RecordsLast(c)'
        BY <3>1, <3>3, <4>1, <4>3 DEF RecordsLast
      <4>5. LogLast(c)'
        BY <2>0, <3>1, <3>3, <3>5, <4>1, SameLogLast
      <4>. QED
        BY <4>4, <4>5
    <3>13. CASE CannotCount(r)
      <4>1. /\ pc[r] = "record" /\ pc'[r] \in {"top", "dead"}
            /\ UNCHANGED <<log, captured, records, recorded>>
            /\ unfinished'[c] = unfinished[c] + 1
        BY <1>0, <3>0, <3>13 DEF CannotCount, Fail, GoTo, TypeOK
      <4>2. unfinished'[c] # 0
        BY <1>0, <4>1 DEF TypeOK
      <4>3. LogLast(c)'
        BY <4>2 DEF LogLast
      <4>4. RecordsLast(c)'
        BY <2>0, <3>1, <3>3, <3>5, <4>1, SameRecordsLast
      <4>. QED
        BY <4>3, <4>4
    <3>. QED
      BY <2>2, <3>7, <3>8, <3>9, <3>10, <3>11, <3>12, <3>13
         DEF Consume, TestStop, Receive, Match, React, Settle
  <2>. QED
    BY <1>1, <2>1, <2>2 DEF Consume, AppendLog, CannotCount, AddRecord, TestLog, PopLog, TestRecords,
       PopRecords
<1>2. ASSUME NEW c \in Ids, Delete(c) PROVE LastInv'
  <2>1. UNCHANGED <<pc, consumer, log, captured, unfinished>>
        /\ records' = [records EXCEPT ![c] = <<>>] /\ recorded' = [recorded EXCEPT ![c] = <<>>]
    BY <1>2 DEF Delete
  <2>2. \A d \in Ids, q \in Readers :
          (Trimming(q, d)' <=> Trimming(q, d)) /\ (Cutting(q, d)' <=> Cutting(q, d))
    BY <2>1 DEF Trimming, Cutting
  <2>3. ASSUME NEW d \in Ids PROVE LogLast(d)' /\ RecordsLast(d)'
    <3>1. LogLast(d)'
      BY <1>0, <2>1, <2>2, SameLogLast
    <3>2. CASE d # c
      <4>1. records'[d] = records[d] /\ recorded'[d] = recorded[d]
        BY <1>0, <2>1, <3>2 DEF TypeOK
      <4>. QED
        BY <1>0, <2>1, <2>2, <3>1, <4>1, SameRecordsLast
    <3>3. CASE d = c
      <4>1. records'[d] = <<>> /\ recorded'[d] = <<>>
        BY <1>0, <2>1, <3>3 DEF TypeOK
      <4>2. Consumers[d].capture \in Nat
        BY ConstantsType
      <4>3. /\ LastOf(<<>>, Consumers[d].capture) = <<>>
            /\ LastOf(<<>>, Consumers[d].capture + 1) = <<>>
        BY <4>2 DEF LastOf
      <4>. QED
        BY <3>1, <4>1, <4>3 DEF RecordsLast
    <3>. QED
      BY <3>2, <3>3
  <2>. QED
    BY <2>3 DEF LastInv
<1>3. CASE StopLoops \/ UNCHANGED vars \/ \E m \in Sent : Reappear(m)
  <2>1. UNCHANGED <<pc, consumer, log, captured, records, recorded, unfinished>>
    BY <1>3 DEF StopLoops, Reappear, vars
  <2>2. \A d \in Ids, q \in Readers :
          (Trimming(q, d)' <=> Trimming(q, d)) /\ (Cutting(q, d)' <=> Cutting(q, d))
    BY <2>1 DEF Trimming, Cutting
  <2>. QED
    BY <1>0, <2>1, <2>2, SameLogLast, SameRecordsLast DEF LastInv
<1>. QED
  BY <1>1, <1>2, <1>3 DEF Next

LEMMA InitLast == Init => LastInv
<1> SUFFICES ASSUME Init, NEW c \in Ids PROVE LogLast(c) /\ RecordsLast(c)
  BY DEF LastInv
<1>1. \A r \in Readers : ~Trimming(r, c) /\ ~Cutting(r, c)
  BY DEF Init, Trimming, Cutting
<1>2. log[c] = <<>> /\ captured[c] = <<>> /\ records[c] = <<>> /\ recorded[c] = <<>>
  BY DEF Init
<1>3. LastOf(<<>>, Consumers[c].capture) = <<>>
  BY ConstantsType DEF LastOf
<1>. QED
  BY <1>1, <1>2, <1>3 DEF LogLast, RecordsLast

\* A lone reader that is not handling a message leaves the last messages of each
\* consumer in its log, if all of them could be counted, and in its records the
\* last since the latest DELETE.
THEOREM LastOnesStored == Spec => []StoresLast
<1>1. ASSUME LocalInv, LastInv PROVE StoresLast
  <2> SUFFICES ASSUME Alone, AtRest, NEW c \in Ids
               PROVE  /\ unfinished[c] = 0 => HasLast(log, captured, c)
                      /\ HasLast(records, recorded, c)
    BY DEF StoresLast
  <2>1. Lone
    <3>. DEFINE started == {r \in Readers : pc[r] # "none"}
    <3>1. IsFiniteSet(started)
      <4>1. started \in SUBSET Readers
        OBVIOUS
      <4>. QED
        BY <4>1, ConstantsType, FS_Subset
    <3>2. PICK x : started = {x}
      BY <3>1, FS_Singleton DEF Alone
    <3>. QED
      BY <3>2 DEF Lone
  <2>2. \A r \in Readers : ~Trimming(r, c) /\ ~Cutting(r, c)
    BY DEF AtRest, Trimming, Cutting
  <2>. QED
    BY <1>1, <2>1, <2>2 DEF LastInv, LogLast, RecordsLast, HasLast
<1>. QED
  BY <1>1, InitLast, NextLast, InitLocal, NextLocal, InitList, NextList, PTL DEF Spec
-----------------------------------------------------------------------------
(***************************************************************************)
(* The group implements Capture with the logs and with the records.  A     *)
(* reader that is about to pop found the list too long when it looked; the *)
(* pops of others since then shorten it by one each, but each of them is a *)
(* reader more that has no pop to do.  So the elements and the readers     *)
(* without a pop remain, together, more than capture.                      *)
(***************************************************************************)
LogPoppers(c) == {r \in Readers : consumer[r] = c /\ pc[r] = "popLog"}
RecordPoppers(c) == {r \in Readers : consumer[r] = c /\ pc[r] = "popRecords"}

LogSlack(c) ==
  LogPoppers(c) # {} =>
    Len(log[c]) + Cardinality(Started \ LogPoppers(c)) > Consumers[c].capture
\* A DELETE excuses those that it comes upon.
RecordsSlack(c) ==
  RecordPoppers(c) \ owing # {} =>
    Len(records[c]) + Cardinality(Started \ RecordPoppers(c)) > Consumers[c].capture

OwnMessage ==
  \A r \in Readers : pc[r] \in {"log", "record"} => Matching(Stream[message[r]]) = consumer[r]
OwingPops == \A r \in owing : pc[r] = "popRecords"

SlackInv == OwnMessage /\ OwingPops /\ \A c \in Ids : LogSlack(c) /\ RecordsSlack(c)

\* What a step of a reader does to its place and its locals.
LEMMA ReaderMoves ==
  ASSUME LocalInv, NEW r \in Readers, Consume(r) \/ PollNothing(r)
  PROVE  /\ pc[r] # "none" /\ pc'[r] # "none"
         /\ \A q \in Readers : q # r =>
              pc'[q] = pc[q] /\ consumer'[q] = consumer[q] /\ message'[q] = message[q]
         /\ pc[r] # "match" => consumer'[r] = consumer[r]
         /\ pc[r] \notin {"log", "popLog"} => log' = log
         /\ pc[r] \notin {"record", "popRecords"} => records' = records
         /\ pc[r] # "popRecords" => owing' = owing
         /\ pc'[r] = "popLog" => pc[r] = "testLog" /\ Over(log, consumer[r])
         /\ pc'[r] = "popRecords" => pc[r] = "testRecords" /\ Over(records, consumer[r])
         /\ pc'[r] = "log" => /\ pc[r] = "match" /\ message'[r] = message[r]
                              /\ consumer'[r] = Matching(Stream[message[r]])
         /\ pc'[r] = "record" => pc[r] = "log" /\ message'[r] = message[r]
         /\ pc[r] = "log" => AppendLog(r)
         /\ pc[r] = "popLog" => PopLog(r)
         /\ pc[r] = "record" => AddRecord(r) \/ CannotCount(r)
         /\ pc[r] # "record" => unfinished' = unfinished
         /\ pc[r] = "popRecords" => PopRecords(r)
<1>. USE DEF history, stores, locals, setting, offers, GoTo
<1>0. /\ pc \in [Readers -> Labels] /\ consumer \in [Readers -> Ids \cup {Nobody}]
      /\ message \in [Readers -> Messages \cup {Nobody}]
  BY DEF LocalInv, TypeOK
<1>1. CASE TestStop(r) \/ PollNothing(r)
  BY <1>0, <1>1 DEF TestStop, PollNothing
<1>2. CASE Receive(r)
  BY <1>0, <1>2 DEF Receive
<1>3. CASE Match(r)
  <2>. DEFINE found == Matching(Stream[message[r]])
  <2>. HIDE DEF found
  <2>1. /\ pc[r] = "match" /\ UNCHANGED <<message, log, records, owing, unfinished>>
        /\ \/ consumer' = consumer /\ pc' = [pc EXCEPT ![r] = "top"]
           \/ consumer' = consumer /\ pc' = [pc EXCEPT ![r] = "dead"]
           \/ consumer' = [consumer EXCEPT ![r] = found]
              /\ pc' = [pc EXCEPT ![r] = IF found = Nobody THEN "settle" ELSE "log"]
    BY <1>3 DEF Match, Fail, found
  <2>. QED
    BY <1>0, <2>1 DEF found
<1>4. CASE AppendLog(r)
  BY <1>0, <1>4 DEF AppendLog
<1>5. CASE AddRecord(r)
  BY <1>0, <1>5 DEF AddRecord
<1>6. CASE TestLog(r)
  BY <1>0, <1>6 DEF TestLog
<1>7. CASE PopLog(r)
  BY <1>0, <1>7 DEF PopLog, Fail
<1>8. CASE TestRecords(r)
  BY <1>0, <1>8 DEF TestRecords
<1>9. CASE PopRecords(r)
  BY <1>0, <1>9 DEF PopRecords, Fail
<1>10. CASE React(r)
  BY <1>0, <1>10 DEF React
<1>11. CASE Settle(r)
  BY <1>0, <1>11 DEF Settle
<1>12. CASE CannotCount(r)
  BY <1>0, <1>12 DEF CannotCount, Fail
<1>. QED
  BY <1>1, <1>2, <1>3, <1>4, <1>5, <1>6, <1>7, <1>8, <1>9, <1>10, <1>11, <1>12 DEF Consume

\* Neither the event loop nor the broker moves a reader.
LoopStep ==
  StopLoops \/ UNCHANGED vars \/ (\E c \in Ids : Delete(c)) \/ \E m \in Sent : Reappear(m)
LEMMA LoopMoves ==
  ASSUME LoopStep
  PROVE  UNCHANGED <<pc, message, consumer, log, unfinished>>
  BY DEF LoopStep, StopLoops, Delete, Reappear, vars, locals, stores, history

LEMMA StartedStays ==
  ASSUME LocalInv, [Next]_vars
  PROVE  Started' = Started
<1>1. ASSUME NEW r \in Readers, Consume(r) \/ PollNothing(r)
      PROVE  Started' = Started
  BY <1>1, ReaderMoves DEF Started
<1>2. CASE LoopStep
  BY <1>2, LoopMoves DEF Started
<1>. QED
  BY <1>1, <1>2 DEF Next, LoopStep

LEMMA StartedFinite ==
  /\ Started \in SUBSET Readers /\ IsFiniteSet(Started) /\ Cardinality(Started) \in Nat
  /\ \A c : /\ IsFiniteSet(Started \ LogPoppers(c))
            /\ Cardinality(Started \ LogPoppers(c)) \in Nat
            /\ IsFiniteSet(Started \ RecordPoppers(c))
            /\ Cardinality(Started \ RecordPoppers(c)) \in Nat
<1>1. Started \in SUBSET Readers
  BY DEF Started
<1>2. \A c : Started \ LogPoppers(c) \in SUBSET Readers /\ Started \ RecordPoppers(c) \in SUBSET Readers
  BY <1>1
<1>. QED
  BY <1>1, <1>2, ConstantsType, FS_Subset, FS_CardinalityType

\* A popper that is done is a reader more without a pop to do.
LEMMA OneMoreIdle ==
  ASSUME NEW P \in SUBSET Started, NEW r \in P
  PROVE  /\ Cardinality(Started \ (P \ {r})) = Cardinality(Started \ P) + 1
         /\ Cardinality(Started \ P) \in Nat
         /\ Cardinality(Started \ P) + 1 <= Cardinality(Started)
<1>1. IsFiniteSet(Started) /\ Cardinality(Started) \in Nat
  BY StartedFinite
<1>2. IsFiniteSet(Started \ P) /\ Cardinality(Started \ P) \in Nat
  <2>1. Started \ P \in SUBSET Started
    OBVIOUS
  <2>. QED
    BY <1>1, <2>1, FS_Subset, FS_CardinalityType
<1>3. Started \ (P \ {r}) = (Started \ P) \cup {r} /\ r \notin Started \ P
  OBVIOUS
<1>4. Cardinality(Started \ (P \ {r})) = Cardinality(Started \ P) + 1
  BY <1>2, <1>3, FS_AddElement
<1>5. Cardinality(Started \ (P \ {r})) <= Cardinality(Started)
  <2>1. Started \ (P \ {r}) \in SUBSET Started
    OBVIOUS
  <2>. QED
    BY <1>1, <2>1, FS_Subset
<1>. QED
  BY <1>2, <1>4, <1>5

LEMMA NextOwn ==
  ASSUME LocalInv, SlackInv, [Next]_vars
  PROVE  OwnMessage' /\ OwingPops'
<1>0. OwnMessage /\ OwingPops /\ owing \subseteq Readers
  BY DEF SlackInv, LocalInv, TypeOK
<1>1. ASSUME NEW r \in Readers, Consume(r) \/ PollNothing(r)
      PROVE  OwnMessage' /\ OwingPops'
  <2>1. OwnMessage'
    BY <1>0, <1>1, ReaderMoves DEF OwnMessage
  <2>2. OwingPops'
    <3>1. CASE pc[r] = "popRecords"
      <4>1. owing' = owing \ {r}
        BY <1>1, <3>1, ReaderMoves DEF PopRecords
      <4>. QED
        BY <1>0, <1>1, <4>1, ReaderMoves DEF OwingPops
    <3>2. CASE pc[r] # "popRecords"
      <4>1. owing' = owing /\ r \notin owing
        BY <1>0, <1>1, <3>2, ReaderMoves DEF OwingPops
      <4>. QED
        BY <1>0, <1>1, <4>1, ReaderMoves DEF OwingPops
    <3>. QED
      BY <3>1, <3>2
  <2>. QED
    BY <2>1, <2>2
<1>2. CASE LoopStep
  <2>1. OwnMessage'
    BY <1>0, <1>2, LoopMoves DEF OwnMessage
  <2>2. owing' = owing \/ \E c \in Ids : owing' = owing \cup RecordPoppers(c)
    BY <1>2 DEF LoopStep, StopLoops, Delete, Reappear, vars, history, RecordPoppers
  <2>. QED
    BY <1>0, <1>2, <2>1, <2>2, LoopMoves DEF OwingPops, RecordPoppers
<1>. QED
  BY <1>1, <1>2 DEF Next, LoopStep

LEMMA NextLogSlack ==
  ASSUME LocalInv, ListInv, SlackInv, [Next]_vars, NEW c \in Ids
  PROVE  LogSlack(c)'
<1>0. /\ LogSlack(c) /\ TypeOK /\ Started' = Started
      /\ log \in [Ids -> Seq(Messages)]
  BY StartedStays DEF SlackInv, LocalInv, TypeOK
<1>1. /\ Len(log[c]) \in Nat /\ Consumers[c].capture \in Nat
      /\ Cardinality(Started \ LogPoppers(c)) \in Nat
  BY <1>0, ListLengths, StartedFinite
<1>2. ASSUME NEW r \in Readers, Consume(r) \/ PollNothing(r)
      PROVE  LogSlack(c)'
  <2>1. CASE pc[r] = "popLog" /\ consumer[r] = c
    <3>1. LogPoppers(c)' = LogPoppers(c) \ {r} /\ r \in LogPoppers(c)
      BY <1>2, <2>1, ReaderMoves DEF LogPoppers
    <3>2. LogPoppers(c) \in SUBSET Started
      BY DEF LogPoppers, Started
    <3>3. Cardinality(Started \ LogPoppers(c)') = Cardinality(Started \ LogPoppers(c)) + 1
      BY <3>1, <3>2, OneMoreIdle
    <3>4. Len(log'[c]) \in Nat /\ Len(log'[c]) >= Len(log[c]) - 1
      <4>1. log'[c] = log[c] \/ (log[c] # <<>> /\ log'[c] = Tail(log[c]))
        BY <1>0, <1>2, <2>1, ReaderMoves DEF PopLog
      <4>. QED
        BY <1>0, <1>1, <4>1, SeqFacts, EmptySeqLen
    <3>. QED
      BY <1>0, <1>1, <3>1, <3>3, <3>4 DEF LogSlack
  <2>2. CASE pc'[r] = "popLog" /\ consumer[r] = c
    <3>1. log' = log /\ Len(log[c]) > Consumers[c].capture
      BY <1>2, <2>2, ReaderMoves DEF Over
    <3>2. Cardinality(Started \ LogPoppers(c))' \in Nat
      <4>1. Started' \ LogPoppers(c)' \in SUBSET Readers
        BY <1>0 DEF Started
      <4>. QED
        BY <4>1, ConstantsType, FS_Subset, FS_CardinalityType
    <3>. QED
      BY <1>1, <3>1, <3>2 DEF LogSlack
  <2>3. CASE consumer[r] # c \/ (pc[r] # "popLog" /\ pc'[r] # "popLog")
    <3>1. LogPoppers(c)' = LogPoppers(c)
      BY <1>2, <2>3, ReaderMoves DEF LogPoppers
    <3>2. Len(log'[c]) \in Nat /\ Len(log'[c]) >= Len(log[c])
      <4>1. CASE pc[r] = "log"
        <5>1. message[r] \in Messages
          BY <4>1 DEF LocalInv, Held, Holding, Handling
        <5>2. log'[c] = log[c] \/ log'[c] = Append(log[c], message[r])
          BY <1>0, <1>2, <4>1, ReaderMoves DEF AppendLog
        <5>. QED
          BY <1>0, <1>1, <5>1, <5>2, SeqFacts
      <4>2. CASE pc[r] = "popLog"
        <5>1. log'[c] = log[c]
          BY <1>0, <1>2, <2>3, <4>2, ReaderMoves DEF PopLog
        <5>. QED
          BY <1>1, <5>1
      <4>3. CASE pc[r] \notin {"log", "popLog"}
        BY <1>1, <1>2, <4>3, ReaderMoves
      <4>. QED
        BY <4>1, <4>2, <4>3
    <3>. QED
      BY <1>0, <1>1, <3>1, <3>2 DEF LogSlack
  <2>. QED
    BY <2>1, <2>2, <2>3
<1>3. CASE LoopStep
  BY <1>0, <1>3, LoopMoves DEF LogSlack, LogPoppers
<1>. QED
  BY <1>2, <1>3 DEF Next, LoopStep

LEMMA NextRecordsSlack ==
  ASSUME LocalInv, ListInv, SlackInv, [Next]_vars, NEW c \in Ids
  PROVE  RecordsSlack(c)'
<1>0. /\ RecordsSlack(c) /\ OwingPops /\ TypeOK /\ Started' = Started
      /\ records \in [Ids -> Seq(Messages)]
  BY StartedStays DEF SlackInv, LocalInv, TypeOK
<1>1. /\ Len(records[c]) \in Nat /\ Consumers[c].capture \in Nat
      /\ Cardinality(Started \ RecordPoppers(c)) \in Nat
  BY <1>0, ListLengths, StartedFinite
<1>2. ASSUME NEW r \in Readers, Consume(r) \/ PollNothing(r)
      PROVE  RecordsSlack(c)'
  <2>1. CASE pc[r] = "popRecords" /\ consumer[r] = c
    <3>1. /\ RecordPoppers(c)' = RecordPoppers(c) \ {r} /\ r \in RecordPoppers(c)
          /\ owing' = owing \ {r}
      <4>1. owing' = owing \ {r}
        BY <1>2, <2>1, ReaderMoves DEF PopRecords
      <4>. QED
        BY <1>2, <2>1, <4>1, ReaderMoves DEF RecordPoppers
    <3>2. RecordPoppers(c) \in SUBSET Started
      BY DEF RecordPoppers, Started
    <3>3. Cardinality(Started \ RecordPoppers(c)') = Cardinality(Started \ RecordPoppers(c)) + 1
      BY <3>1, <3>2, OneMoreIdle
    <3>4. Len(records'[c]) \in Nat /\ Len(records'[c]) >= Len(records[c]) - 1
      <4>1. records'[c] = records[c] \/ (records[c] # <<>> /\ records'[c] = Tail(records[c]))
        BY <1>0, <1>2, <2>1, ReaderMoves DEF PopRecords
      <4>. QED
        BY <1>0, <1>1, <4>1, SeqFacts, EmptySeqLen
    <3>. QED
      BY <1>0, <1>1, <3>1, <3>3, <3>4 DEF RecordsSlack
  <2>2. CASE pc'[r] = "popRecords" /\ consumer[r] = c
    <3>1. records' = records /\ Len(records[c]) > Consumers[c].capture
      BY <1>2, <2>2, ReaderMoves DEF Over
    <3>2. Cardinality(Started \ RecordPoppers(c))' \in Nat
      <4>1. Started' \ RecordPoppers(c)' \in SUBSET Readers
        BY <1>0 DEF Started
      <4>. QED
        BY <4>1, ConstantsType, FS_Subset, FS_CardinalityType
    <3>. QED
      BY <1>1, <3>1, <3>2 DEF RecordsSlack
  <2>3. CASE consumer[r] # c \/ (pc[r] # "popRecords" /\ pc'[r] # "popRecords")
    <3>1. RecordPoppers(c)' = RecordPoppers(c)
      BY <1>2, <2>3, ReaderMoves DEF RecordPoppers
    <3>2. RecordPoppers(c) \ owing' = RecordPoppers(c) \ owing
      <4>1. CASE pc[r] = "popRecords"
        <5>1. owing' = owing \ {r} /\ r \notin RecordPoppers(c)
          BY <1>2, <2>3, <4>1, ReaderMoves DEF PopRecords, RecordPoppers
        <5>. QED
          BY <5>1
      <4>2. CASE pc[r] # "popRecords"
        BY <1>2, <4>2, ReaderMoves
      <4>. QED
        BY <4>1, <4>2
    <3>3. Len(records'[c]) \in Nat /\ Len(records'[c]) >= Len(records[c])
      <4>1. CASE pc[r] = "record"
        <5>1. message[r] \in Messages
          BY <4>1 DEF LocalInv, Held, Holding, Handling
        <5>2. records'[c] = records[c] \/ records'[c] = Append(records[c], message[r])
          BY <1>0, <1>2, <4>1, ReaderMoves DEF AddRecord, CannotCount, stores
        <5>. QED
          BY <1>0, <1>1, <5>1, <5>2, SeqFacts
      <4>2. CASE pc[r] = "popRecords"
        <5>1. records'[c] = records[c]
          BY <1>0, <1>2, <2>3, <4>2, ReaderMoves DEF PopRecords
        <5>. QED
          BY <1>1, <5>1
      <4>3. CASE pc[r] \notin {"record", "popRecords"}
        BY <1>1, <1>2, <4>3, ReaderMoves
      <4>. QED
        BY <4>1, <4>2, <4>3
    <3>. QED
      BY <1>0, <1>1, <3>1, <3>2, <3>3 DEF RecordsSlack
  <2>. QED
    BY <2>1, <2>2, <2>3
<1>3. ASSUME NEW d \in Ids, Delete(d)
      PROVE  RecordsSlack(c)'
  <2>1. /\ RecordPoppers(c)' = RecordPoppers(c) /\ owing' = owing \cup RecordPoppers(d)
        /\ c # d => records'[c] = records[c]
    BY <1>0, <1>3, LoopMoves DEF LoopStep, Delete, RecordPoppers
  <2>2. CASE c = d
    BY <2>1, <2>2 DEF RecordsSlack
  <2>3. CASE c # d
    BY <1>0, <2>1, <2>3 DEF RecordsSlack
  <2>. QED
    BY <2>2, <2>3
<1>4. CASE StopLoops \/ UNCHANGED vars \/ \E m \in Sent : Reappear(m)
  <2>1. UNCHANGED <<records, owing, pc, consumer>>
    BY <1>4 DEF StopLoops, Reappear, vars, locals, stores, history
  <2>. QED
    BY <1>0, <2>1 DEF RecordsSlack, RecordPoppers
<1>. QED
  BY <1>2, <1>3, <1>4 DEF Next

LEMMA NextSlack == LocalInv /\ ListInv /\ SlackInv /\ [Next]_vars => SlackInv'
  BY NextOwn, NextLogSlack, NextRecordsSlack DEF SlackInv

LEMMA InitSlack == Init => SlackInv
<1>. SUFFICES ASSUME Init PROVE SlackInv
  OBVIOUS
<1>1. /\ \A r \in Readers : pc[r] \in {"top", "none"}
      /\ owing = {}
  BY DEF Init
<1>2. \A c : LogPoppers(c) = {} /\ RecordPoppers(c) = {}
  BY <1>1 DEF LogPoppers, RecordPoppers
<1>. QED
  BY <1>1, <1>2 DEF SlackInv, OwnMessage, OwingPops, LogSlack, RecordsSlack

\* A message that a reader is about to store is its consumer's, and whoever has
\* one too many to trim is another reader.
LEMMA StoresOwn ==
  ASSUME LocalInv, SlackInv, NEW r \in Readers, pc[r] \in {"log", "record"}
  PROVE  /\ r \in Started /\ consumer[r] \in Ids
         /\ message[r] \in Accepts[consumer[r]]
<1>1. consumer[r] \in Ids /\ message[r] \in Messages
  BY DEF LocalInv, Held, Handling, Holding
<1>2. Matching(Stream[message[r]]) = consumer[r]
  BY DEF SlackInv, OwnMessage
<1>. QED
  BY <1>1, <1>2 DEF Accepts, Started

LEMMA OthersFewer ==
  ASSUME NEW r \in Started, NEW S \in SUBSET Started, r \notin S
  PROVE  Cardinality(S) \in Nat /\ Cardinality(S) < Cardinality(Started)
<1>1. S \cup {r} \in SUBSET Started
  OBVIOUS
<1>2. IsFiniteSet(S) /\ Cardinality(S) \in Nat
  BY StartedFinite, FS_Subset, FS_CardinalityType
<1>3. Cardinality(S \cup {r}) = Cardinality(S) + 1
  BY <1>2, FS_AddElement
<1>4. Cardinality(S \cup {r}) <= Cardinality(Started)
  BY <1>1, StartedFinite, FS_Subset
<1>. QED
  BY <1>2, <1>3, <1>4, StartedFinite

\* Capture counts with its own instance of Cardinality, which is the same.
LEMMA SameCardinality ==
  \A S : Log!Cardinality(S) = Cardinality(S) /\ Records!Cardinality(S) = Cardinality(S)
  BY DEF Cardinality, Log!Cardinality, Records!Cardinality

LEMMA RecordsNext ==
  ASSUME NEW r \in Readers, NEW c \in Ids,
         Records!Store(r, c) \/ Records!Drop(r, c) \/ Records!DropNothing(r, c)
  PROVE  Records!Next
  BY DEF Records!Next

LEMMA InitCaptures == Init => Log!Init /\ Records!Init
<1>. SUFFICES ASSUME Init PROVE Log!Init /\ Records!Init
  OBVIOUS
<1>1. Started \subseteq Readers
  BY DEF Started
<1>2. [c \in Ids |-> {r \in owing : consumer[r] = c}] = [c \in Ids |-> {}]
  BY DEF Init
<1>. QED
  BY <1>1, <1>2 DEF Init, Log!Init, Records!Init

LEMMA LogStep ==
  ASSUME LocalInv, ListInv, SlackInv, [Next]_vars
  PROVE  [Log!Next]_(Log!vars)
<1>0. /\ Started' = Started /\ TypeOK /\ log \in [Ids -> Seq(Messages)]
      /\ Cardinality(Started) \in Nat
  BY StartedStays, StartedFinite DEF LocalInv, TypeOK
<1>1. ASSUME log' = log, unfinished' = unfinished PROVE UNCHANGED Log!vars
  BY <1>0, <1>1 DEF Log!vars
<1>2. ASSUME NEW r \in Readers, Consume(r) \/ PollNothing(r)
      PROVE  [Log!Next]_(Log!vars)
  <2>. DEFINE c == consumer[r]
  <2>1. CASE pc[r] = "log"
    <3>1. r \in Started /\ c \in Ids /\ message[r] \in Accepts[c]
      BY <2>1, StoresOwn
    <3>2. log' = [log EXCEPT ![c] = Append(@, message[r])]
      BY <1>2, <2>1, ReaderMoves DEF AppendLog
    <3>3. Len(log[c]) < Size[c] + Cardinality(Started) + unfinished[c]
      <4>1. Trimmers(c) \in SUBSET Started /\ r \notin Trimmers(c)
        BY <2>1 DEF Trimmers, Trimming, Started
      <4>2. Cardinality(Trimmers(c)) \in Nat /\ Cardinality(Trimmers(c)) < Cardinality(Started)
        BY <3>1, <4>1, OthersFewer
      <4>3. Len(log[c]) <= Consumers[c].capture + unfinished[c] + Cardinality(Trimmers(c))
        BY <3>1 DEF ListInv, SizeInv, LogSize
      <4>. QED
        BY <1>0, <3>1, <4>2, <4>3, ListLengths DEF Size
    <3>4. Log!Store(r, c)
      BY <1>0, <1>2, <2>1, <3>1, <3>2, <3>3, ReaderMoves, SameCardinality DEF Log!Store
    <3>. QED
      BY <1>2, <3>1, <3>4 DEF Log!Next
  <2>2. CASE pc[r] = "popLog" /\ log[c] # <<>>
    <3>1. c \in Ids /\ r \in LogPoppers(c) /\ LogPoppers(c) \in SUBSET Started
      BY <2>2 DEF LocalInv, Held, Handling, LogPoppers, Started
    <3>2. log' = [log EXCEPT ![c] = Tail(@)]
      BY <1>2, <2>2, ReaderMoves DEF PopLog
    <3>3. Len(log[c]) + Cardinality(Started) > Size[c] + 1
      <4>1. Len(log[c]) + Cardinality(Started \ LogPoppers(c)) > Consumers[c].capture
        BY <3>1 DEF SlackInv, LogSlack
      <4>2. /\ Cardinality(Started \ LogPoppers(c)) \in Nat
            /\ Cardinality(Started \ LogPoppers(c)) + 1 <= Cardinality(Started)
        BY <3>1, OneMoreIdle
      <4>. QED
        BY <1>0, <3>1, <4>1, <4>2, ListLengths DEF Size
    <3>4. Log!Drop(r, c)
      <4>1. [[d \in Ids |-> {}] EXCEPT ![c] = @ \ {r}] = [d \in Ids |-> {}]
        OBVIOUS
      <4>. QED
        BY <1>0, <1>2, <2>2, <3>1, <3>2, <3>3, <4>1, ReaderMoves, SameCardinality DEF Log!Drop
    <3>. QED
      BY <1>2, <3>1, <3>4 DEF Log!Next
  <2>3. CASE pc[r] = "record" /\ CannotCount(r)
    <3>1. r \in Started /\ c \in Ids
      BY <2>3, StoresOwn
    <3>2. log[c] # <<>>
      <4>1. r \in Trimmers(c)
        BY <2>3 DEF Trimmers, Trimming
      <4>2. Cardinality(Trimmers(c)) # 0
        BY <4>1, ReadersFinite, FS_EmptySet
      <4>3. Cardinality(Trimmers(c)) <= Len(log[c])
        BY <3>1 DEF ListInv, SizeInv, LogSize
      <4>. QED
        BY <1>0, <3>1, <4>2, <4>3, ListLengths, ReadersFinite
    <3>3. unfinished' = [unfinished EXCEPT ![c] = @ + 1] /\ log' = log
      BY <2>3 DEF CannotCount, stores
    <3>4. Log!BreakOff(r, c)
      BY <1>0, <3>1, <3>2, <3>3 DEF Log!BreakOff
    <3>. QED
      BY <1>2, <3>1, <3>4 DEF Log!Next
  <2>4. CASE /\ pc[r] # "log" /\ ~(pc[r] = "popLog" /\ log[c] # <<>>)
             /\ ~(pc[r] = "record" /\ CannotCount(r))
    <3>1. log' = log
      BY <1>2, <2>4, ReaderMoves DEF PopLog
    <3>2. unfinished' = unfinished
      BY <1>2, <2>4, ReaderMoves DEF AddRecord
    <3>. QED
      BY <1>1, <3>1, <3>2
  <2>. QED
    BY <2>1, <2>2, <2>3, <2>4
<1>3. CASE LoopStep
  BY <1>1, <1>3, LoopMoves
<1>. QED
  BY <1>2, <1>3 DEF Next, LoopStep

LEMMA RecordsStep ==
  ASSUME LocalInv, ListInv, SlackInv, [Next]_vars
  PROVE  [Records!Next]_(Records!vars)
<1>. DEFINE owed == [d \in Ids |-> {q \in owing : consumer[q] = d}]
<1>0. /\ Started' = Started /\ TypeOK /\ records \in [Ids -> Seq(Messages)]
      /\ Cardinality(Started) \in Nat /\ OwingPops /\ owing \subseteq Readers
      /\ owing \subseteq Started
  BY StartedStays, StartedFinite DEF LocalInv, TypeOK, SlackInv, OwingPops, Started
<1>1. ASSUME records' = records, owing' = owing, \A q \in owing : consumer'[q] = consumer[q]
      PROVE  UNCHANGED Records!vars
  <2>1. owed' = owed
    BY <1>1
  <2>. QED
    BY <1>0, <1>1, <2>1 DEF Records!vars
<1>2. ASSUME NEW r \in Readers, Consume(r) \/ PollNothing(r)
      PROVE  [Records!Next]_(Records!vars)
  <2>0. \A q \in owing : consumer'[q] = consumer[q]
    BY <1>0, <1>2, ReaderMoves DEF OwingPops
  <2>1. CASE pc[r] = "record" /\ AddRecord(r)
    <3>0. PICK c \in Ids : c = consumer[r]
      BY <2>1, StoresOwn
    <3>1. /\ r \in Started /\ message[r] \in Accepts[c] /\ r \notin owing
      BY <1>0, <2>1, <3>0, StoresOwn DEF OwingPops
    <3>2. records' = [records EXCEPT ![c] = Append(@, message[r])] /\ owing' = owing
      BY <1>2, <2>1, <3>0, ReaderMoves DEF AddRecord
    <3>3. Len(records[c]) < Size[c] + Cardinality(Started) + [d \in Ids |-> 0][c]
      <4>1. Cutters(c) \in SUBSET Started /\ r \notin Cutters(c)
        BY <2>1 DEF Cutters, Cutting, Started
      <4>2. Cardinality(Cutters(c)) \in Nat /\ Cardinality(Cutters(c)) < Cardinality(Started)
        BY <3>1, <4>1, OthersFewer
      <4>3. Len(records[c]) <= Consumers[c].capture + Cardinality(Cutters(c))
        BY <3>1 DEF ListInv, SizeInv, RecordsSize
      <4>4. [d \in Ids |-> 0][c] = 0
        BY <3>0
      <4>. QED
        BY <1>0, <3>1, <4>2, <4>3, <4>4, ListLengths DEF Size
    <3>4. owed' = owed /\ r \notin owed[c]
      BY <2>0, <3>1, <3>2
    <3>5. Records!Store(r, c)
      BY <1>0, <3>1, <3>2, <3>3, <3>4, SameCardinality DEF Records!Store
    <3>. QED
      BY <3>5, RecordsNext
  <2>2. CASE pc[r] = "popRecords"
    <3>0. PICK c \in Ids : c = consumer[r]
      BY <2>2 DEF LocalInv, Held, Handling
    <3>1. r \in RecordPoppers(c) /\ RecordPoppers(c) \in SUBSET Started /\ r \in Started
      BY <2>2, <3>0 DEF RecordPoppers, Started
    <3>2. /\ owing' = owing \ {r}
          /\ IF records[c] = <<>> THEN records' = records
             ELSE records' = [records EXCEPT ![c] = Tail(@)]
      BY <1>2, <2>2, <3>0, ReaderMoves DEF PopRecords
    <3>3. owed' = [owed EXCEPT ![c] = @ \ {r}]
      <4>1. \A d \in Ids : {q \in owing' : consumer'[q] = d}
                             = {q \in owing : consumer[q] = d} \ {r}
        BY <2>0, <3>2
      <4>2. \A d \in Ids : d # c => r \notin {q \in owing : consumer[q] = d}
        BY <3>0
      <4>3. owed' = [d \in Ids |-> {q \in owing : consumer[q] = d} \ {r}]
        BY <4>1
      <4>4. [owed EXCEPT ![c] = @ \ {r}]
            = [d \in Ids |-> {q \in owing : consumer[q] = d} \ {r}]
        <5>1. \A d \in Ids : d # c => owed[d] \ {r} = owed[d]
          BY <4>2
        <5>2. owed = [d \in Ids |-> owed[d]]
          OBVIOUS
        <5>3. \A d \in Ids : owed[d] = {q \in owing : consumer[q] = d}
          OBVIOUS
        <5>. HIDE DEF owed
        <5>4. [owed EXCEPT ![c] = @ \ {r}] = [d \in Ids |-> owed[d] \ {r}]
          BY <5>1, <5>2
        <5>. QED
          BY <5>3, <5>4
      <4>. QED
        BY <4>3, <4>4
    <3>4. CASE records[c] # <<>>
      <4>1. r \in owed[c] \/ Len(records[c]) + Cardinality(Started) > Size[c] + 1
        <5>1. CASE r \in owing
          BY <3>0, <5>1
        <5>2. CASE r \notin owing
          <6>1. Len(records[c]) + Cardinality(Started \ RecordPoppers(c)) > Consumers[c].capture
            BY <3>1, <5>2 DEF SlackInv, RecordsSlack
          <6>2. /\ Cardinality(Started \ RecordPoppers(c)) \in Nat
                /\ Cardinality(Started \ RecordPoppers(c)) + 1 <= Cardinality(Started)
            BY <3>1, OneMoreIdle
          <6>. QED
            BY <1>0, <3>1, <6>1, <6>2, ListLengths DEF Size
        <5>. QED
          BY <5>1, <5>2
      <4>2. Records!Drop(r, c)
        BY <1>0, <3>1, <3>2, <3>3, <3>4, <4>1, SameCardinality DEF Records!Drop
      <4>. QED
        BY <4>2, RecordsNext
    <3>5. CASE records[c] = <<>> /\ r \in owing
      <4>1. Records!DropNothing(r, c)
        <5>1. r \in owed[c]
          BY <3>0, <3>5
        <5>. QED
          BY <1>0, <3>2, <3>3, <3>5, <5>1 DEF Records!DropNothing
      <4>. QED
        BY <4>1, RecordsNext
    <3>6. CASE records[c] = <<>> /\ r \notin owing
      <4>1. records' = records /\ owing' = owing
        BY <3>2, <3>6
      <4>. QED
        BY <1>1, <2>0, <4>1
    <3>. QED
      BY <3>4, <3>5, <3>6
  <2>3. CASE pc[r] \notin {"record", "popRecords"}
    BY <1>1, <1>2, <2>0, <2>3, ReaderMoves
  <2>4. CASE CannotCount(r)
    <3>1. records' = records /\ owing' = owing
      BY <2>4 DEF CannotCount, stores
    <3>. QED
      BY <1>1, <2>0, <3>1
  <2>. QED
    BY <1>2, <2>1, <2>2, <2>3, <2>4, ReaderMoves
<1>3. ASSUME NEW c \in Ids, Delete(c)
      PROVE  [Records!Next]_(Records!vars)
  <2>. DEFINE excused == owed[c] \cup RecordPoppers(c)
  <2>1. /\ records' = [records EXCEPT ![c] = <<>>] /\ consumer' = consumer
        /\ owing' = owing \cup RecordPoppers(c)
    BY <1>3, LoopMoves DEF LoopStep, Delete, RecordPoppers
  <2>2. owed' = [owed EXCEPT ![c] = excused]
    <3>1. \A d \in Ids : {q \in owing' : consumer'[q] = d}
             = IF d = c THEN excused ELSE {q \in owing : consumer[q] = d}
      BY <2>1 DEF RecordPoppers
    <3>. QED
      BY <3>1
  <2>3. excused \in SUBSET Started
    BY <1>0 DEF RecordPoppers, Started
  <2>4. Records!Clear(c)
    <3>. HIDE DEF excused
    <3>. QED
      BY <1>0, <2>1, <2>2, <2>3 DEF Records!Clear
  <2>. QED
    BY <2>4 DEF Records!Next
<1>4. CASE StopLoops \/ UNCHANGED vars \/ \E m \in Sent : Reappear(m)
  <2>1. UNCHANGED <<records, owing, consumer>>
    BY <1>4 DEF StopLoops, Reappear, vars, locals, stores, history
  <2>. QED
    BY <1>1, <2>1
<1>. QED
  BY <1>2, <1>3, <1>4 DEF Next

\* Whatever the readers' steps overlap with, a consumer's log keeps the last of
\* its messages in order: only the oldest go, and not before there are as many
\* as capture asks for, up to one less for each reader but one.
LEMMA CapturesLog == Spec => LogCaptures
<1>. QED
  BY InitCaptures, LogStep, InitLocal, NextLocal, InitList, NextList, InitSlack, NextSlack, PTL
     DEF Spec, LogCaptures, Log!Spec

\* The records do so too, but for one element of the new list for each reader
\* that a DELETE came upon between its test and its pop.
LEMMA CapturesRecords == Spec => RecordsCapture
<1>. QED
  BY InitCaptures, RecordsStep, InitLocal, NextLocal, InitList, NextList, InitSlack, NextSlack, PTL
     DEF Spec, RecordsCapture, Records!Spec

\* Both lists of every consumer show what Capture promises.
THEOREM ListsImplement == Spec => ListsCapture
<1>. QED
  BY CapturesLog, CapturesRecords DEF ListsCapture
=============================================================================
