------------------------------ MODULE Capture ------------------------------
(***************************************************************************)
(* What docs/Async.md promises of `capture': of the messages that a        *)
(* consumer accepts a list shows the last ones, in their order, as many as *)
(* its size says.  With one reader that is so but for the message just     *)
(* stored.  Each reader more may leave one message too many for a moment,  *)
(* or take one too many away; and each that a DELETE came upon between its *)
(* decision to take one away and the deed may take one of the new list,    *)
(* once.  A message whose handling breaks off before the list is cut stays *)
(* there on top of that.  ConsumerGroup is shown to implement this with    *)
(* either of the lists that it keeps of a consumer.                        *)
(***************************************************************************)
EXTENDS Integers, Sequences, FiniteSets

CONSTANTS Readers, Ids, Messages,
          Accepts,  \* per consumer, the messages that are its own
          Size      \* per consumer, how many it shows

VARIABLES readers,  \* those that read this topic
          list,     \* of each consumer
          owed,     \* per consumer, the readers that a DELETE came upon
          left      \* per consumer, the messages whose handling broke off
vars == <<readers, list, owed, left>>

Init ==
  /\ readers \subseteq Readers
  /\ list = [c \in Ids |-> <<>>]
  /\ owed = [c \in Ids |-> {}]
  /\ left = [c \in Ids |-> 0]

Store(r, c) ==
  /\ r \in readers \ owed[c]
  /\ Len(list[c]) < Size[c] + Cardinality(readers) + left[c]
  /\ \E m \in Accepts[c] : list' = [list EXCEPT ![c] = Append(@, m)]
  /\ UNCHANGED <<readers, owed, left>>

\* What is left is at most one less than Size for each reader but one, unless a
\* DELETE came in between.
Drop(r, c) ==
  /\ r \in readers /\ list[c] # <<>>
  /\ r \in owed[c] \/ Len(list[c]) + Cardinality(readers) > Size[c] + 1
  /\ list' = [list EXCEPT ![c] = Tail(@)]
  /\ owed' = [owed EXCEPT ![c] = @ \ {r}]
  /\ UNCHANGED <<readers, left>>

DropNothing(r, c) ==
  /\ r \in owed[c] /\ list[c] = <<>>
  /\ owed' = [owed EXCEPT ![c] = @ \ {r}]
  /\ UNCHANGED <<readers, list, left>>

\* The reader goes, the message it stored remains.
BreakOff(r, c) ==
  /\ r \in readers /\ list[c] # <<>>
  /\ left' = [left EXCEPT ![c] = @ + 1]
  /\ UNCHANGED <<readers, list, owed>>

Clear(c) ==
  /\ list' = [list EXCEPT ![c] = <<>>]
  /\ \E late \in SUBSET readers : owed' = [owed EXCEPT ![c] = late]
  /\ UNCHANGED <<readers, left>>

Next ==
  \E c \in Ids :
    \/ Clear(c)
    \/ \E r \in Readers : Store(r, c) \/ Drop(r, c) \/ DropNothing(r, c) \/ BreakOff(r, c)
Spec == Init /\ [][Next]_vars
=============================================================================
