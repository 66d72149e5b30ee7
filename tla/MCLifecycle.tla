---------------------------- MODULE MCLifecycle ----------------------------
(* Small configurations for Lifecycle. *)
EXTENDS Lifecycle

Http(name, port, routes) == [name |-> name, port |-> port, type |-> "http", items |-> routes]
Broker(type, acts) == [name |-> type, port |-> 0, type |-> type, items |-> acts]
Reader(topic) == [consume |-> topic, produce |-> "", delay |-> FALSE]
Loop(topic) == [consume |-> "", produce |-> topic, delay |-> TRUE]
Idler == [consume |-> "", produce |-> "", delay |-> FALSE]
Echo == [consume |-> "in", produce |-> "out", delay |-> FALSE]
Broken == [consume |-> "in", produce |-> "mismatch", delay |-> FALSE]

One == <<Http("a", 1, <<"x">>), Broker("kafka", <<Loop("out"), Reader("in")>>)>>
Two == <<Http("a", 1, <<"x">>), Http("b", 2, <<"y">>)>>
Wrong == <<Broker("redis", <<Broken>>)>>
MCFiles == {One, Two, Wrong}
MCPosted == {
  <<Http("a", 1, <<"x", "z">>), Broker("amqp", <<Idler, Echo>>)>>,  \* an id too high
  <<Broker("redis", <<Reader("in"), Broken>>), Broker("kafka", <<Loop("out")>>)>>,   \* raises
  <<Broker("gpubsub", <<Reader("in")>>), Http("b", 2, <<"y">>)>>,      \* other places
  <<Http("a", 1, <<"x">>), Http("b", 2, <<"y", "unreadable">>)>>,      \* raises too
  <<Http("c", 1, <<"y">>), Http("b", 2, <<>>)>>}
MCLists == {{}, {"a"}}
=============================================================================
