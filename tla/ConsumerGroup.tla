--------------------------- MODULE ConsumerGroup ---------------------------
(***************************************************************************)
(* The consumers of one topic (AsyncConsumerGroup and AsyncConsumer of     *)
(* services/asynchronous/__init__.py) and the threads that feed it: the    *)
(* consume() of each broker's group.  run_loops starts a group once for    *)
(* every service that comes after it, its own included, and PubSub calls   *)
(* back from a pool, so several threads may handle messages of one group   *)
(* at once, without a lock; the event loop serves DELETE on a consumer and *)
(* stops the loops when a configuration is posted.                         *)
(***************************************************************************)
EXTENDS Integers, Sequences, FiniteSets

CONSTANTS
  Readers,     \* the threads that may run consume() or its callbacks
  Shared,      \* the subscription they share, unless each has its own
  Backends,    \* the types of broker to look at
  Kinds,       \* what the patterns of the consumers tell apart
  Raising,     \* kinds that raise KeyError in match_attr
  Consumers,   \* per consumer: what it matches, capture, whether it produces
  Beyond,      \* the sets of consumers whose actor may have no statistics
  Stream,      \* the kinds of the messages, in the order they are published
  Published,   \* per type of broker, how many of them are (a bound)
  Starts,      \* the sets of readers that run_loops may start
  MaxDeletes,  \* bound on DELETE /async/consumers/...
  MaxReturns,  \* bound on the messages that Redis makes visible again
  MaxUnfinished \* bound on the messages that cannot be counted

Ids == DOMAIN Consumers
Messages == DOMAIN Stream

ASSUME GroupAssumption ==
  /\ Shared \notin Readers /\ IsFiniteSet(Readers)
  /\ Backends \subseteq {"kafka", "redis", "amazonsqs", "amqp", "mqtt", "gpubsub"}
  /\ Raising \subseteq Kinds
  /\ Consumers \in Seq([matches : SUBSET Kinds, capture : Nat, produces : BOOLEAN])
  /\ Stream \in Seq(Kinds) /\ Published \in [Backends -> 0 .. Len(Stream)]
  /\ Starts \subseteq SUBSET Readers /\ Beyond \subseteq SUBSET Ids
  /\ MaxDeletes \in Nat /\ MaxReturns \in Nat /\ MaxUnfinished \in Nat

VARIABLES
  backend,     \* service.type
  uncounted,   \* consumers whose actor.id is no index of the service's statistics
  queue,       \* of each subscription: the messages the broker has for it
  returned,    \* messages that the broker sent again
  pc, message, consumer,   \* of each reader: where it is, its locals
  log,         \* AsyncConsumer.log of each consumer
  records,     \* single_log_service.records
  stop,        \* AsyncConsumerGroup.stop
  deletes,     \* requests served, for the bound
  captured,    \* what each consumer appended to its log so far
  recorded,    \* ... and to its records since the last DELETE
  reacted,     \* messages whose capture was followed by the producer's checks
  unfinished,  \* of each consumer, messages that finish() could not count
  late,        \* messages each polling reader received after stop was set
  owing        \* readers that a DELETE came upon between their test and their pop

setting == <<backend, uncounted>>
offers == <<queue, returned>>
locals == <<pc, message, consumer>>
stores == <<log, records>>
history == <<captured, recorded, reacted, unfinished, late, owing>>
vars == <<setting, offers, locals, stores, stop, deletes, history>>

Nobody == 0   \* no consumer, no message
Sent == 1 .. Published[backend]   \* the messages published

Init ==
  /\ backend \in Backends /\ uncounted \in Beyond
  /\ returned = {}
  /\ queue = [s \in Readers \cup {Shared} |-> [i \in Sent |-> i]]
  /\ \E started \in Starts :
       pc = [r \in Readers |-> IF r \in started THEN "top" ELSE "none"]
  /\ message = [r \in Readers |-> Nobody]
  /\ consumer = [r \in Readers |-> Nobody]
  /\ log = [c \in Ids |-> <<>>] /\ records = [c \in Ids |-> <<>>]
  /\ stop = FALSE /\ deletes = 0
  /\ captured = [c \in Ids |-> <<>>] /\ recorded = [c \in Ids |-> <<>>]
  /\ reacted = {} /\ unfinished = [c \in Ids |-> 0]
  /\ late = [r \in Readers |-> 0] /\ owing = {}

(***************************************************************************)
(* The brokers, as consume() uses them.  Kafka, Redis and SQS are polled   *)
(* in a loop that looks at stop; AMQP, MQTT and PubSub push, and nothing   *)
(* calls the _stop() of their groups.  SQS deletes a message when it was   *)
(* handled and PubSub has it acknowledged when it matched.  Redis only     *)
(* hides what is received: nobody deletes it, and when its visibility      *)
(* timeout is over it is there again, whatever became of it.  The others   *)
(* have let it go when it was received.  With MQTT every thread subscribes.*)
(***************************************************************************)
Polls == backend \in {"kafka", "redis", "amazonsqs"}
Subscription(r) == IF backend = "mqtt" THEN r ELSE Shared
GivenBack == backend \in {"amazonsqs", "gpubsub"}
\* SQS's loop catches KeyError and connects again, PubSub's pool everything.
Survives(error) == backend = "gpubsub" \/ (backend = "amazonsqs" /\ error = "KeyError")

\* Redis and MQTT messages come without the headers whose matching raises.
Raises(m) == Stream[m] \in Raising /\ backend \notin {"redis", "mqtt"}

SendAgain(s, m) ==
  /\ queue' = [queue EXCEPT ![s] = Append(@, m)]
  /\ returned' = returned \cup {m}

GoTo(r, label) == pc' = [pc EXCEPT ![r] = label]

TestStopNever(r) ==   \* a faulty variant: stop is not looked at
  /\ Polls /\ pc[r] = "top"
  /\ GoTo(r, "poll")
  /\ UNCHANGED <<setting, offers, message, consumer, stores, stop, deletes, history>>

TestStop(r) ==
  /\ Polls /\ pc[r] = "top"
  /\ GoTo(r, IF stop THEN "closed" ELSE "poll")
  /\ UNCHANGED <<setting, offers, message, consumer, stores, stop, deletes, history>>

\* A poll may return nothing, in time or because the connection failed.
PollNothing(r) ==
  /\ pc[r] = "poll"
  /\ GoTo(r, "top")
  /\ UNCHANGED <<setting, offers, message, consumer, stores, stop, deletes, history>>

Receive(r) ==
  LET s == Subscription(r)
  IN /\ pc[r] = IF Polls THEN "poll" ELSE "top"
     /\ queue[s] # <<>>
     /\ message' = [message EXCEPT ![r] = Head(queue[s])]
     /\ queue' = [queue EXCEPT ![s] = Tail(@)]
     /\ late' = [late EXCEPT ![r] = IF stop /\ Polls THEN @ + 1 ELSE @]
     /\ GoTo(r, "match")
     /\ UNCHANGED <<setting, returned, consumer, stores, stop, deletes, captured,
                    recorded, reacted, unfinished, owing>>

\* What becomes of the thread and of its message when handling it raises.
Fail(r, error) ==
  /\ GoTo(r, IF Survives(error) THEN "top" ELSE "dead")
  /\ IF GivenBack THEN SendAgain(Subscription(r), message[r]) ELSE UNCHANGED offers

\* receiveMessage() without deleteMessage(): each is visible again, once at most
\* in the model.
Reappear(m) ==
  /\ backend = "redis" /\ Cardinality(returned) < MaxReturns
  /\ m \notin returned /\ \A i \in DOMAIN queue[Shared] : queue[Shared][i] # m
  /\ SendAgain(Shared, m)
  /\ UNCHANGED <<setting, locals, stores, stop, deletes, history>>

(***************************************************************************)
(* consume_message, after_consume_match.                                   *)
(***************************************************************************)
\* The first consumer of the group whose patterns the message fulfils.
Matching(kind) ==
  IF \E c \in Ids : kind \in Consumers[c].matches
  THEN CHOOSE c \in Ids : /\ kind \in Consumers[c].matches
                          /\ \A d \in Ids : kind \in Consumers[d].matches => c <= d
  ELSE Nobody

Match(r) ==
  LET kind == Stream[message[r]]
  IN /\ pc[r] = "match"
     /\ IF Raises(message[r])
        THEN Fail(r, "KeyError") /\ UNCHANGED consumer
        ELSE /\ consumer' = [consumer EXCEPT ![r] = Matching(kind)]
             /\ GoTo(r, IF Matching(kind) = Nobody THEN "settle" ELSE "log")
             /\ UNCHANGED offers
     /\ UNCHANGED <<setting, message, stores, stop, deletes, history>>

\* matched_consumer.log.append.
AppendLog(r) ==
  LET c == consumer[r]
  IN /\ pc[r] = "log"
     /\ log' = [log EXCEPT ![c] = Append(@, message[r])]
     /\ captured' = [captured EXCEPT ![c] = Append(@, message[r])]
     /\ GoTo(r, "record")
     /\ UNCHANGED <<setting, offers, message, consumer, records, stop, deletes,
                    recorded, reacted, unfinished, late, owing>>

\* finish() counts the message at endpoints[actor_id] of the service's statistics.
\* There may be none: an actor before this one neither consumes nor produces, or
\* POST /config, once it has stopped the loops, replaces the statistics.
CannotCount(r) ==
  LET c == consumer[r]
  IN /\ pc[r] = "record" /\ (stop \/ c \in uncounted)
     /\ \A d \in Ids : unfinished[d] < MaxUnfinished
     /\ unfinished' = [unfinished EXCEPT ![c] = @ + 1]
     /\ Fail(r, "IndexError")
     /\ UNCHANGED <<setting, message, consumer, stores, stop, deletes, captured,
                    recorded, reacted, late, owing>>

\* finish(), then single_log_service.add_record.
AddRecord(r) ==
  LET c == consumer[r]
  IN /\ pc[r] = "record" /\ (stop \/ c \notin uncounted)
     /\ records' = [records EXCEPT ![c] = Append(@, message[r])]
     /\ recorded' = [recorded EXCEPT ![c] = Append(@, message[r])]
     /\ GoTo(r, "testLog")
     /\ UNCHANGED <<setting, offers, message, consumer, log, stop, deletes,
                    captured, reacted, unfinished, late, owing>>

OverByOne(list, c) ==   \* a faulty variant: one too many
  Len(list[c]) > Consumers[c].capture + 1

Over(list, c) == Len(list[c]) > Consumers[c].capture

TestLog(r) ==
  /\ pc[r] = "testLog"
  /\ GoTo(r, IF Over(log, consumer[r]) THEN "popLog" ELSE "testRecords")
  /\ UNCHANGED <<setting, offers, message, consumer, stores, stop, deletes, history>>

PopFirstConsumers(r) ==   \* a faulty variant: of the group's first consumer
  /\ pc[r] = "popLog"
  /\ IF log[1] = <<>>
     THEN Fail(r, "IndexError") /\ UNCHANGED log
     ELSE /\ log' = [log EXCEPT ![1] = Tail(@)]
          /\ GoTo(r, "testRecords")
          /\ UNCHANGED offers
  /\ UNCHANGED <<setting, message, consumer, records, stop, deletes, history>>

\* list.pop(0) of an empty list raises IndexError.
PopLog(r) ==
  LET c == consumer[r]
  IN /\ pc[r] = "popLog"
     /\ IF log[c] = <<>>
        THEN Fail(r, "IndexError") /\ UNCHANGED log
        ELSE /\ log' = [log EXCEPT ![c] = Tail(@)]
             /\ GoTo(r, "testRecords")
             /\ UNCHANGED offers
     /\ UNCHANGED <<setting, message, consumer, records, stop, deletes, history>>

TestRecords(r) ==
  /\ pc[r] = "testRecords"
  /\ GoTo(r, IF Over(records, consumer[r]) THEN "popRecords" ELSE "react")
  /\ UNCHANGED <<setting, offers, message, consumer, stores, stop, deletes, history>>

PopLatest(r) ==   \* a faulty variant: pop() drops the newest
  LET c == consumer[r]
  IN /\ pc[r] = "popRecords" /\ records[c] # <<>>
     /\ records' = [records EXCEPT ![c] = SubSeq(@, 1, Len(@) - 1)]
     /\ owing' = owing \ {r}
     /\ GoTo(r, "react")
     /\ UNCHANGED <<setting, offers, message, consumer, log, stop, deletes,
                    captured, recorded, reacted, unfinished, late>>

\* A DELETE since the test leaves a new, empty list to pop from.
PopRecords(r) ==
  LET c == consumer[r]
  IN /\ pc[r] = "popRecords"
     /\ IF records[c] = <<>>
        THEN Fail(r, "IndexError") /\ UNCHANGED records
        ELSE /\ records' = [records EXCEPT ![c] = Tail(@)]
             /\ GoTo(r, "react")
             /\ UNCHANGED offers
     /\ owing' = owing \ {r}
     /\ UNCHANGED <<setting, message, consumer, log, stop, deletes, captured,
                    recorded, reacted, unfinished, late>>

\* The actor's producer is triggered unless its lists have ended: what follows
\* is AsyncProducer's TriggerByConsumer.
React(r) ==
  /\ pc[r] = "react"
  /\ reacted' = IF Consumers[consumer[r]].produces THEN reacted \cup {message[r]}
                ELSE reacted
  /\ GoTo(r, "settle")
  /\ UNCHANGED <<setting, offers, message, consumer, stores, stop, deletes, captured,
                 recorded, unfinished, late, owing>>

SettleKeeps(r) ==   \* a faulty variant: SQS's message is not deleted
  /\ pc[r] = "settle"
  /\ queue' = IF GivenBack THEN [queue EXCEPT ![Subscription(r)] = Append(@, message[r])]
              ELSE queue
  /\ GoTo(r, "top")
  /\ UNCHANGED <<setting, returned, message, consumer, stores, stop, deletes, history>>

SettleReturns(r) ==   \* a faulty variant: consume() ends after a message
  /\ pc[r] = "settle"
  /\ GoTo(r, "closed")
  /\ UNCHANGED <<setting, offers, message, consumer, stores, stop, deletes, history>>

\* consume_message returned: SQS deletes the message, matched or not; PubSub
\* sends one that nobody matched again.
Settle(r) ==
  /\ pc[r] = "settle"
  /\ IF backend = "gpubsub" /\ consumer[r] = Nobody
     THEN SendAgain(Subscription(r), message[r]) ELSE UNCHANGED offers
  /\ GoTo(r, "top")
  /\ UNCHANGED <<setting, message, consumer, stores, stop, deletes, history>>

(***************************************************************************)
(* The event loop.                                                         *)
(***************************************************************************)
\* DELETE /async/consumers/...: single_log_service.records becomes a new list.
Delete(c) ==
  /\ deletes < MaxDeletes
  /\ deletes' = deletes + 1
  /\ records' = [records EXCEPT ![c] = <<>>]
  /\ recorded' = [recorded EXCEPT ![c] = <<>>]
  /\ owing' = owing \cup {r \in Readers : pc[r] = "popRecords" /\ consumer[r] = c}
  /\ UNCHANGED <<setting, offers, locals, log, stop, captured, reacted, unfinished, late>>

StopLoops ==
  /\ ~stop
  /\ stop' = TRUE
  /\ UNCHANGED <<setting, offers, locals, stores, deletes, history>>

Consume(r) ==
  \/ TestStop(r) \/ Receive(r) \/ Match(r) \/ AppendLog(r)
  \/ CannotCount(r) \/ AddRecord(r) \/ TestLog(r) \/ PopLog(r) \/ TestRecords(r)
  \/ PopRecords(r) \/ React(r) \/ Settle(r)

Next ==
  \/ \E r \in Readers : Consume(r) \/ PollNothing(r)
  \/ \E m \in Sent : Reappear(m)
  \/ \E c \in Ids : Delete(c)
  \/ StopLoops

Spec == Init /\ [][Next]_vars

\* The threads run, and a message that stays at the broker is received at last.
FairSpec ==
  /\ Spec
  /\ \A r \in Readers : WF_vars(Consume(r)) /\ SF_vars(Receive(r))
-----------------------------------------------------------------------------
Labels == {"none", "top", "poll", "match", "log", "record", "testLog",
           "popLog", "testRecords", "popRecords", "react", "settle", "closed", "dead"}

TypeOK ==
  /\ backend \in Backends /\ uncounted \subseteq Ids
  /\ returned \subseteq Messages
  /\ queue \in [Readers \cup {Shared} -> Seq(Messages)]
  /\ pc \in [Readers -> Labels]
  /\ message \in [Readers -> Messages \cup {Nobody}]
  /\ consumer \in [Readers -> Ids \cup {Nobody}]
  /\ log \in [Ids -> Seq(Messages)] /\ records \in [Ids -> Seq(Messages)]
  /\ stop \in BOOLEAN /\ deletes \in 0 .. MaxDeletes
  /\ captured \in [Ids -> Seq(Messages)] /\ recorded \in [Ids -> Seq(Messages)]
  /\ reacted \subseteq Messages /\ unfinished \in [Ids -> Nat]
  /\ late \in [Readers -> Nat] /\ owing \subseteq Readers

\* However many readers append and trim at the same time, a list is longer than
\* capture only while one of them has yet to trim it, and the log by what could
\* not be counted: the tests and the pops that overlap take away enough.
Trimming(r, c) == consumer[r] = c /\ pc[r] \in {"record", "testLog", "popLog"}
Cutting(r, c) == consumer[r] = c /\ pc[r] \in {"testLog", "popLog", "testRecords", "popRecords"}
CaptureKept ==
  \A c \in Ids :
    /\ (\A r \in Readers : ~Trimming(r, c)) =>
         Len(log[c]) <= Consumers[c].capture + unfinished[c]
    /\ (\A r \in Readers : ~Cutting(r, c)) => Len(records[c]) <= Consumers[c].capture

\* With one reader, which is not handling a message, a consumer has the last
\* messages that it matched, as many as capture says, if all could be counted,
\* and in its records those since the last DELETE: a DELETE in the middle of it
\* breaks nothing.
LastOf(list, n) == SubSeq(list, 1 + (IF Len(list) > n THEN Len(list) - n ELSE 0), Len(list))
HasLast(list, all, c) == list[c] = LastOf(all[c], Consumers[c].capture)
AtRest == \A r \in Readers : pc[r] \in {"none", "top", "poll", "closed"}
Alone == Cardinality({r \in Readers : pc[r] # "none"}) = 1
StoresLast ==
  Alone /\ AtRest =>
    \A c \in Ids : /\ unfinished[c] = 0 => HasLast(log, captured, c)
                   /\ HasLast(records, recorded, c)

\* However many readers there are and whatever is deleted, the log and the records
\* show what Capture promises: they are cut at the old end only, and no shorter
\* than the readers' overlapping pops explain.
Accepts == [c \in Ids |-> {m \in Messages : Matching(Stream[m]) = c}]
Size == [c \in Ids |-> Consumers[c].capture]
Started == {r \in Readers : pc[r] # "none"}
Log == INSTANCE Capture WITH
         readers <- Started, list <- log, owed <- [c \in Ids |-> {}],
         left <- unfinished
Records == INSTANCE Capture WITH
         readers <- Started, list <- records,
         owed <- [c \in Ids |-> {r \in owing : consumer[r] = c}],
         left <- [c \in Ids |-> 0]
LogCaptures == Log!Spec
RecordsCapture == Records!Spec
ListsCapture == LogCaptures /\ RecordsCapture

\* A reader dies of a message that raises, of a DELETE between its test and its
\* pop, or where it cannot count the message, and of nothing else: readers never
\* pop from each other's empty list.
DeathHasCause ==
  \A r \in Readers : pc[r] = "dead" =>
    \/ deletes > 0
    \/ message[r] # Nobody /\ Raises(message[r])
    \/ consumer[r] # Nobody /\ unfinished[consumer[r]] > 0

\* Kafka, Redis and SQS: each reader handles at most one more message after
\* stop_loops, and so takes no more than that from the new configuration.
AtMostOneAfterStop == \A r \in Readers : late[r] <= 1

\* A message is captured at most once by each subscription, unless the broker
\* sent it again: Redis what it had hidden, SQS and PubSub what was not handled.
Times(m, c) == Cardinality({i \in DOMAIN captured[c] : captured[c][i] = m})
Subscriptions == {Subscription(r) : r \in {q \in Readers : pc[q] # "none"}}
CapturedOnce ==
  \A m \in Messages \ returned, c \in Ids : Times(m, c) <= Cardinality(Subscriptions)

\* Every message that matches is captured by the first consumer it matches and
\* triggers that actor's producer, unless the loops are stopped, a reader died or
\* one could not be counted.
Handled(m) ==
  \E c \in Ids :
    /\ Stream[m] \in Consumers[c].matches
    /\ \A d \in 1 .. c - 1 : Stream[m] \notin Consumers[d].matches
    /\ Times(m, c) > 0 /\ (Consumers[c].produces => m \in reacted)
Matched(m) == ~Raises(m) /\ \E c \in Ids : Stream[m] \in Consumers[c].matches
EachHandled ==
  <>(\/ stop \/ \E r \in Readers : pc[r] = "dead"
     \/ \E c \in Ids : unfinished[c] > 0
     \/ \A m \in Sent : Matched(m) => Handled(m))
=============================================================================
