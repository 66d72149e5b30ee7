-------------------------- MODULE MCConsumerGroup --------------------------
(***************************************************************************)
(* Small instances of ConsumerGroup: two readers, two consumers of one     *)
(* topic whose patterns overlap, and messages of every kind.               *)
(***************************************************************************)
EXTENDS ConsumerGroup, TLC

CONSTANTS r1, r2

OneOrTwo == {{r1}, {r1, r2}}

AllBackends == {"kafka", "redis", "amazonsqs", "amqp", "mqtt", "gpubsub"}

\* x matches both consumers, y the second one, z none, w raises.
AllKinds == {"x", "y", "z", "w"}
RaisingKinds == {"w"}
\* Two is the least size at which Capture has to allow for a pop that a DELETE
\* came before.
Overlapping ==
  <<[matches |-> {"x"}, capture |-> 2, produces |-> TRUE],
    [matches |-> {"x", "y"}, capture |-> 0, produces |-> FALSE]>>
Mixed == <<"x", "z", "y", "x", "w", "x">>
\* Fewer where each reader has a subscription of its own or messages come back,
\* where x or y is there more often than it was published.
LongStreams == {"kafka", "amazonsqs", "amqp"}
FewerIfRepeated ==
  [b \in AllBackends |-> IF b \in LongStreams THEN 6 ELSE IF b = "redis" THEN 3 ELSE 5]

\* Either consumer's actor has statistics, or the second one's has none.
NoneOrSecond == {{}, {2}}

=============================================================================
