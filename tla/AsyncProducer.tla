--------------------------- MODULE AsyncProducer ---------------------------
(***************************************************************************)
(* One AsyncProducer of mockintosh/services/asynchronous/__init__.py and   *)
(* the threads that call its produce(): the daemon thread of               *)
(* AsyncActor.run_produce_loop and one daemon thread per trigger (an HTTP  *)
(* endpoint, the management API, or a consumer that matched a message).    *)
(* The threads share the producer's attributes without any lock of         *)
(* Python's: an attribute read, the read and the write of "+=", and a      *)
(* test are separate steps here, because CPython 3.9 (the Dockerfile's)    *)
(* may switch threads between any two bytecodes.                           *)
(*                                                                         *)
(* The list of payloads and the rows of the dataset are walked by the same *)
(* code written twice; a step is written once here, for either kind.       *)
(***************************************************************************)
EXTENDS Integers, Sequences, FiniteSets

CONSTANTS
  Loop,            \* the thread that runs AsyncActor.run_produce_loop
  Callers,         \* one thread for each trigger of the producer
  Payloads,        \* the tag of each payload of payload_list
  HasDataset,      \* whether the actor has a dataset, which may be empty
  Rows,            \* the tag of each row of the dataset
  Tags, NoTag,     \* the tags of the configuration; an item without one
  TagSets,         \* the values service.tags may take
  PayloadsLooped,  \* actor.multi_payloads_looped
  RowsLooped,      \* actor.dataset_looped
  Limit, NoLimit,  \* actor.limit, NoLimit when it is None
  Failures,        \* how a broker may fail: "refused" (AMQP), "raised"
  MaxTagChanges,   \* bound on POST /tag
  MaxSent          \* bound on the messages of a loop without a limit

Threads == {Loop} \cup Callers
Kinds == {"payload", "row"}
Items(k) == IF k = "payload" THEN Payloads ELSE Rows
Looped(k) == IF k = "payload" THEN PayloadsLooped ELSE RowsLooped
NoRow == -1

ASSUME ProducerAssumption ==
  /\ Loop \notin Callers
  /\ IsFiniteSet(Callers)
  /\ Payloads \in Seq(Tags \cup {NoTag}) /\ Rows \in Seq(Tags \cup {NoTag})
  /\ NoTag \notin Tags /\ TagSets \subseteq SUBSET Tags
  /\ Payloads # <<>>
  /\ HasDataset \in BOOLEAN /\ (~HasDataset => Rows = <<>>)
  /\ PayloadsLooped \in BOOLEAN /\ RowsLooped \in BOOLEAN
  /\ Limit \in Nat \cup {NoLimit} /\ NoLimit \notin Nat
  /\ Failures \subseteq {"refused", "raised"}
  /\ MaxTagChanges \in Nat /\ MaxSent \in Nat

VARIABLES
  iteration,   \* payload_iteration and dataset_iteration
  locked,      \* lock_payload and lock_dataset
  counter,     \* AsyncProducer.counter
  tags,        \* service.tags
  stop,        \* actor.stop
  limit,       \* actor.limit, counted down by the loop
  pc, kind, searching, item, tmp,   \* of each thread: where it is, its locals
  tagChanges,  \* POST /tag requests served, for the bound
  tried,       \* the items of each message handed to the broker, in order
  sent,        \* those of them that the broker took
  produced,    \* how many of them each thread sent
  late         \* how many the loop sent after stop was set

shared == <<iteration, locked, counter, tags, stop, limit>>
history == <<tried, sent, produced, late>>
vars == <<shared, pc, kind, searching, item, tmp, tagChanges, history>>

Active(tag) == tag = NoTag \/ tag \in tags
NoneActive(k) == \A i \in DOMAIN Items(k) : ~Active(Items(k)[i])
LastIndex(k) == Len(Items(k)) - 1

Init ==
  /\ iteration = [k \in Kinds |-> 0]
  /\ locked = [k \in Kinds |-> FALSE]
  /\ counter = 0
  /\ tags \in TagSets
  /\ stop = FALSE
  /\ limit = Limit
  /\ pc = [t \in Threads |-> IF t = Loop THEN "top" ELSE "idle"]
  /\ kind = [t \in Threads |-> "payload"]
  /\ searching = [t \in Threads |-> FALSE]
  /\ item = [t \in Threads |-> [k \in Kinds |-> NoRow]]
  /\ tmp = [t \in Threads |-> 0]
  /\ tagChanges = 0
  /\ tried = <<>> /\ sent = <<>> /\ produced = [t \in Threads |-> 0] /\ late = 0

(***************************************************************************)
(* The checks made before a thread calls produce().  The locks and stop    *)
(* only ever change from FALSE to TRUE, so reading them one after the      *)
(* other and finding all of them FALSE is the same as reading them at      *)
(* once, when the first is read.                                           *)
(***************************************************************************)
LoopEnd == locked["payload"] \/ (HasDataset /\ locked["row"])
\* Faulty variants (named in PROJECT.json): each is a slip in the definition
\* that follows it, and some property tells it from the code.
LoopIgnoresStop == limit # 0 /\ ~LoopEnd
LimitUncounted == limit
PastEndOffByOne(k) == iteration[k] > LastIndex(k) + 1
PastEndEarly(k) == iteration[k] >= LastIndex(k)

LoopGoesOn == limit # 0 /\ ~stop /\ ~LoopEnd
LimitAfter == IF limit # NoLimit /\ limit > 0 THEN limit - 1 ELSE limit
PastEnd(k) == iteration[k] > LastIndex(k)

StartProduce(t) ==
  /\ pc' = [pc EXCEPT ![t] = "read"]
  /\ kind' = [kind EXCEPT ![t] = "payload"]
  /\ searching' = [searching EXCEPT ![t] = FALSE]
  /\ item' = [item EXCEPT ![t] = [k \in Kinds |-> NoRow]]

GoTo(t, label) ==
  /\ pc' = [pc EXCEPT ![t] = label]
  /\ UNCHANGED <<kind, searching, item, tmp>>

Rest == <<tagChanges, history>>

\* An iteration of "while self.limit is None or self.limit > 0".
LoopTop ==
  /\ pc[Loop] = "top"
  /\ \/ /\ ~LoopGoesOn
        /\ GoTo(Loop, "done")
     \/ /\ LoopGoesOn
        /\ Limit = NoLimit => Len(sent) < MaxSent
        /\ StartProduce(Loop)
        /\ UNCHANGED tmp
  /\ UNCHANGED <<shared, Rest>>

\* After produce() and the delay, one iteration less is left.
LoopCount ==
  /\ pc[Loop] = "returned"
  /\ limit' = LimitAfter
  /\ GoTo(Loop, "top")
  /\ UNCHANGED <<iteration, locked, counter, tags, stop, Rest>>

\* A trigger that is accepted starts a thread; one that is refused does not
\* (410, or a log line when the trigger is a consumed message).
Trigger(t, refused) ==
  /\ pc[t] = "idle"
  /\ \/ /\ ~refused
        /\ StartProduce(t)
        /\ UNCHANGED tmp
     \/ /\ refused
        /\ GoTo(t, "refused")
  /\ UNCHANGED <<shared, Rest>>

\* POST /async/producers/... and response.triggerAsyncProducer.
TriggerByRequest(t) == Trigger(t, NoneActive("payload") \/ LoopEnd)

\* The consumer's actor also produces: the tags are not checked first.
TriggerByConsumer(t) == Trigger(t, LoopEnd)

(***************************************************************************)
(* produce(): get_payload(), then get_dataset_row(), one walk each.        *)
(***************************************************************************)
\* get_current_payload, get_current_dataset_row: an index past the end
\* raises IndexError, which nothing catches: the thread ends.
ReadCurrent(t) ==
  /\ pc[t] = "read"
  /\ IF iteration[kind[t]] \notin 0 .. LastIndex(kind[t])
     THEN GoTo(t, "dead")
     ELSE /\ item' = [item EXCEPT ![t][kind[t]] = iteration[kind[t]]]
          /\ pc' = [pc EXCEPT ![t] = "load"]
          /\ UNCHANGED <<kind, searching, tmp>>
  /\ UNCHANGED <<shared, Rest>>

\* "self.payload_iteration += 1" reads the attribute...
LoadIteration(t) ==
  /\ pc[t] = "load"
  /\ tmp' = [tmp EXCEPT ![t] = iteration[kind[t]]]
  /\ pc' = [pc EXCEPT ![t] = "store"]
  /\ UNCHANGED <<shared, kind, searching, item, Rest>>

\* ... and writes it.
StoreIteration(t) ==
  /\ pc[t] = "store"
  /\ iteration' = [iteration EXCEPT ![kind[t]] = tmp[t] + 1]
  /\ GoTo(t, "test")
  /\ UNCHANGED <<locked, counter, tags, stop, limit, Rest>>

\* The test that finds the end of the list reads the attribute again.
TestEnd(t) ==
  /\ pc[t] = "test"
  /\ GoTo(t, IF ~PastEnd(kind[t]) THEN "tag"
             ELSE IF Looped(kind[t]) THEN "reset" ELSE "lock")
  /\ UNCHANGED <<shared, Rest>>

SetLock(t) ==
  /\ pc[t] = "lock"
  /\ locked' = [locked EXCEPT ![kind[t]] = TRUE]
  /\ GoTo(t, "reset")
  /\ UNCHANGED <<iteration, counter, tags, stop, limit, Rest>>

ResetIteration(t) ==
  /\ pc[t] = "reset"
  /\ iteration' = [iteration EXCEPT ![kind[t]] = 0]
  /\ GoTo(t, "tag")
  /\ UNCHANGED <<locked, counter, tags, stop, limit, Rest>>

\* An item is chosen: the payload before the row, the row before sending.
Chosen(t) ==
  IF kind[t] = "payload" /\ HasDataset
  THEN /\ kind' = [kind EXCEPT ![t] = "row"]
       /\ searching' = [searching EXCEPT ![t] = FALSE]
       /\ pc' = [pc EXCEPT ![t] = "read"]
       /\ UNCHANGED <<item, tmp>>
  ELSE GoTo(t, "send")

TestTagOnce(t) ==   \* a faulty variant: the search takes one step
  /\ pc[t] = "tag"
  /\ IF Active(Items(kind[t])[item[t][kind[t]] + 1]) \/ searching[t]
     THEN Chosen(t) ELSE GoTo(t, "check")
  /\ UNCHANGED <<shared, Rest>>

TestTagStale(t) ==  \* another: the search does not read the next item
  /\ pc[t] = "tag"
  /\ IF Active(Items(kind[t])[item[t][kind[t]] + 1]) THEN Chosen(t)
     ELSE GoTo(t, IF searching[t] THEN "tag" ELSE "check")
  /\ UNCHANGED <<shared, Rest>>

\* The item's tag decides: the test of "if", then the one of "while".
TestTag(t) ==
  /\ pc[t] = "tag"
  /\ IF Active(Items(kind[t])[item[t][kind[t]] + 1]) THEN Chosen(t)
     ELSE GoTo(t, IF searching[t] THEN "read" ELSE "check")
  /\ UNCHANGED <<shared, Rest>>

\* check_tags, check_dataset: with no active item there is no search. Without
\* a payload produce() returns; without a row it goes on and sends.
CheckAny(t) ==
  /\ pc[t] = "check"
  /\ IF ~NoneActive(kind[t])
     THEN /\ searching' = [searching EXCEPT ![t] = TRUE]
          /\ pc' = [pc EXCEPT ![t] = "tag"]
          /\ UNCHANGED <<kind, item, tmp>>
     ELSE IF kind[t] = "payload" THEN GoTo(t, "returned")
     ELSE /\ item' = [item EXCEPT ![t]["row"] = NoRow]
          /\ pc' = [pc EXCEPT ![t] = "send"]
          /\ UNCHANGED <<kind, searching, tmp>>
  /\ UNCHANGED <<shared, Rest>>

(***************************************************************************)
(* produce(): _produce() hands the message to the broker.  AMQP's          *)
(* connection error is caught and produce() returns, any other exception   *)
(* ends the thread.  What was taken from the lists is not put back.        *)
(***************************************************************************)
Hand(t) ==
  /\ pc[t] = "send"
  /\ tried' = Append(tried, item[t])

Send(t) ==
  /\ Hand(t)
  /\ sent' = Append(sent, [payload |-> item[t]["payload"], row |-> item[t]["row"]])
  /\ produced' = [produced EXCEPT ![t] = @ + 1]
  /\ late' = IF stop /\ t = Loop THEN late + 1 ELSE late
  /\ GoTo(t, "finish")
  /\ UNCHANGED <<shared, tagChanges>>

RefusedCounted(t) ==   \* a faulty variant: counted all the same
  /\ Hand(t) /\ "refused" \in Failures
  /\ GoTo(t, "finish")
  /\ UNCHANGED <<shared, tagChanges, sent, produced, late>>

Refused(t) ==
  /\ Hand(t) /\ "refused" \in Failures
  /\ GoTo(t, "returned")
  /\ UNCHANGED <<shared, tagChanges, sent, produced, late>>

Raised(t) ==
  /\ Hand(t) /\ "raised" \in Failures
  /\ GoTo(t, "dead")
  /\ UNCHANGED <<shared, tagChanges, sent, produced, late>>

\* set_last_timestamp_and_inc_counter: "self.counter += 1" reads...
LoadCounter(t) ==
  /\ pc[t] = "finish"
  /\ tmp' = [tmp EXCEPT ![t] = counter]
  /\ pc' = [pc EXCEPT ![t] = "count"]
  /\ UNCHANGED <<shared, kind, searching, item, Rest>>

\* ... and writes; a trigger's thread ends, the loop's sleeps and goes on.
StoreCounter(t) ==
  /\ pc[t] = "count"
  /\ counter' = tmp[t] + 1
  /\ GoTo(t, "returned")
  /\ UNCHANGED <<iteration, locked, tags, stop, limit, Rest>>

(***************************************************************************)
(* The event loop's requests to the management API.                        *)
(***************************************************************************)
\* POST /tag: service.tags of every AsyncService is replaced.
SetTags ==
  /\ tagChanges < MaxTagChanges
  /\ tags' \in TagSets
  /\ tagChanges' = tagChanges + 1
  /\ UNCHANGED <<iteration, locked, counter, stop, limit, pc, kind, searching,
                 item, tmp, history>>

\* POST /reset-iterators assigns producer.iteration, an attribute that no
\* other line of the program reads: nothing that matters changes.
ResetIterators == UNCHANGED vars

\* stop_loops, when a new configuration is posted.
StopLoops ==
  /\ ~stop
  /\ stop' = TRUE
  /\ UNCHANGED <<iteration, locked, counter, tags, limit, pc, kind, searching,
                 item, tmp, Rest>>

Produce(t) ==
  \/ ReadCurrent(t) \/ LoadIteration(t) \/ StoreIteration(t) \/ TestEnd(t)
  \/ SetLock(t) \/ ResetIteration(t) \/ TestTag(t) \/ CheckAny(t)
  \/ Send(t) \/ Refused(t) \/ Raised(t) \/ LoadCounter(t) \/ StoreCounter(t)

Requests == SetTags \/ ResetIterators \/ StopLoops

Next ==
  \/ LoopTop \/ LoopCount
  \/ \E t \in Callers : TriggerByRequest(t) \/ TriggerByConsumer(t)
  \/ \E t \in Threads : Produce(t)
  \/ Requests

Spec == Init /\ [][Next]_vars

\* The operating system runs every thread that is started; nothing forces a
\* client to send a request.
FairSpec ==
  /\ Spec
  /\ WF_vars(LoopTop \/ LoopCount)
  /\ \A t \in Threads : WF_vars(Produce(t))
-----------------------------------------------------------------------------
Labels == {"top", "idle", "refused", "read", "load", "store", "test", "lock",
           "reset", "tag", "check", "send", "finish", "count", "returned",
           "done", "dead"}

TypeOK ==
  /\ iteration \in [Kinds -> Nat]
  /\ locked \in [Kinds -> BOOLEAN]
  /\ counter \in Nat
  /\ tags \in TagSets
  /\ stop \in BOOLEAN
  /\ limit \in Nat \cup {NoLimit}
  /\ pc \in [Threads -> Labels]
  /\ kind \in [Threads -> Kinds]
  /\ searching \in [Threads -> BOOLEAN]
  /\ item \in [Threads -> [Kinds -> Nat \cup {NoRow}]]
  /\ tmp \in [Threads -> Nat]
  /\ tagChanges \in 0 .. MaxTagChanges
  /\ tried \in Seq([Kinds -> Nat \cup {NoRow}])
  /\ sent \in Seq([payload : Nat \cup {NoRow}, row : Nat \cup {NoRow}])
  /\ produced \in [Threads -> Nat] /\ late \in Nat

\* However many threads produce at once, an index is past the end of its list
\* only while some thread is between incrementing it and resetting it: what
\* the race of increment_payload_iteration breaks is repaired by it.
Repairing(t, k) == kind[t] = k /\ pc[t] \in {"test", "lock", "reset"}
IndexSafeAtRest ==
  \A k \in Kinds : (\A t \in Threads : ~Repairing(t, k)) =>
    (iteration[k] <= LastIndex(k) \/ (k = "row" /\ Rows = <<>>))

\* The limit of the scheduled loop bounds what the loop sends, through every
\* early return of produce() and with triggers produced in between.
LoopWithinLimit == Limit # NoLimit => produced[Loop] <= Limit

\* stop_loops lets the loop send the message it is working on and no other.
AtMostOneAfterStop == late <= 1

\* "producedMessages" never counts a message that the broker did not take.
NeverOvercounted == counter <= Len(sent)

\* With tags that do not change, whatever the interleaving, no thread sends
\* an inactive payload, or a row that is inactive, or no row though one is
\* active.
OnlyActiveSent ==
  tagChanges = 0 => \A i \in DOMAIN sent :
    /\ Active(Payloads[sent[i].payload + 1])
    /\ HasDataset =>
         IF sent[i].row = NoRow THEN NoneActive("row")
         ELSE Active(Rows[sent[i].row + 1])

\* The item whose turn it is, looking from index p on: the first active one,
\* where those before p come after the last of the list.
ActiveAt(k, i) == i \in 0 .. LastIndex(k) /\ Active(Items(k)[i + 1])
Skipped(k, p, i) ==
  {j \in 0 .. LastIndex(k) : IF p <= i THEN p <= j /\ j < i ELSE p <= j \/ j < i}
Due(k, p, i) == ActiveAt(k, i) /\ \A j \in Skipped(k, p, i) : ~ActiveAt(k, j)

\* A producer that only its own loop uses hands the active payloads to the
\* broker in the order of the configuration, each with the active row whose
\* turn it is: the skipping searches and the wrapping agree with it. A looped
\* list goes around and around; one that is not goes back at most once, in
\* the search of the very message that exhausts it, which is the loop's last.
Triggered == \E t \in Callers : pc[t] \notin {"idle", "refused"}
GoesBack(k, n) == n > 1 /\ tried[n][k] <= tried[n - 1][k]
InConfiguredOrder ==
  tagChanges = 0 /\ ~Triggered =>
    \A n \in DOMAIN tried : \A k \in Kinds :
      IF NoneActive(k) THEN tried[n][k] = NoRow
      ELSE /\ Due(k, IF n = 1 THEN 0 ELSE tried[n - 1][k] + 1, tried[n][k])
           /\ GoesBack(k, n) => Looped(k) \/ (locked[k] /\ n = Len(tried))

\* "By default a producer loops through its payloads indefinitely [...] To
\* disable this behavior, set multiPayloadsLooped to false": without triggers
\* the loop then sends no payload a second time.
SentOnceIfNotLooped ==
  ~PayloadsLooped /\ ~Triggered =>
    \A m, n \in DOMAIN sent : sent[m].payload = sent[n].payload => m = n

\* Once tags no longer change, a thread that started to produce gets out of
\* the search for an active item, unless the change left none active or
\* another thread moves the index under it: it sends, gives up or fails.
Walks(t) == pc[t] \in {"read", "load", "store", "test", "lock", "reset", "tag", "check"}
Alone(t) == \A u \in Threads \ {t} : ~Walks(u)
ProduceEnds ==
  \A t \in Threads :
    pc[t] = "read" /\ Alone(t) ~>
      (pc[t] \in {"returned", "dead"} \/ NoneActive(kind[t]) \/ ~Alone(t))
=============================================================================
