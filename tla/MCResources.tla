---------------------------- MODULE MCResources ----------------------------
(***************************************************************************)
(* Two services of HTTP, one of Kafka and the globals; a file next to the  *)
(* configuration, two below directories, a directory, and a path with a    *)
(* template in it.                                                         *)
(***************************************************************************)
EXTENDS Resources

A == <<"a">>
B == <<"d", "b">>
C == <<"d", "e", "c">>
D == <<"d">>
T == <<"t">>
Raised == <<>>

MCPaths == {A, B, C, D, T}
MCHidden == {T}
MCServices == 1..3
MCHttpServices == {1, 2}

None == [file |-> <<>>, comma |-> FALSE]
Response(headers, body) ==
  [headers |-> headers, body |-> body, comma |-> FALSE, plain |-> FALSE]
Plain(body) == [Response(<<>>, body) EXCEPT !.plain = TRUE]
Comma == [Response(<<>>, <<>>) EXCEPT !.comma = TRUE]
Endpoint(responses, dataset) ==
  [multi |-> Len(responses) > 1, responses |-> responses, schema |-> <<>>,
   query |-> <<>>, dataset |-> dataset]
Http(endpoints) == [oas |-> <<>>, endpoints |-> endpoints, actors |-> <<>>]
Actor(value, dataset, schema) ==
  [produce |-> <<[value |-> value, headers |-> <<>>]>>, dataset |-> dataset,
   schema |-> schema, headers |-> <<>>]
Kafka(actors) == [oas |-> <<>>, endpoints |-> <<>>, actors |-> actors]
Config(s1, s2, s3) ==
  [services |-> <<s1, s2, s3>>, globals |-> <<>>, analysable |-> TRUE]

MCConfigs ==
  {[Config(Http(<<Endpoint(<<Response(<<>>, <<A>>)>>, [None EXCEPT !.file = <<B>>])>>),
           [Http(<<Endpoint(<<Response(<<C>>, <<>>)>>, None)>>) EXCEPT !.oas = <<A>>],
           Kafka(<<>>))
      EXCEPT !.globals = <<B>>],
   Config(Http(<<[Endpoint(<<>>, None) EXCEPT !.schema = <<C>>, !.query = <<T>>]>>),
          Http(<<>>),
          Kafka(<<Actor(<<D>>, None, <<>>)>>)),
   \* the first service is refused; the second would not be
   Config(Http(<<Endpoint(<<Response(<<>>, <<A>>), Comma>>, None)>>),
          Http(<<Endpoint(<<Plain(<<B>>), Comma>>, None)>>),
          Kafka(<<>>)),
   \* refused at the dataset of the last
   Config(Http(<<Endpoint(<<Response(<<C>>, <<D>>)>>, None)>>),
          Http(<<>>),
          Kafka(<<Actor(<<B>>, [None EXCEPT !.comma = TRUE], <<A>>)>>)),
   [Config(Http(<<Endpoint(<<Response(<<>>, <<B>>)>>, None)>>), Http(<<>>), Kafka(<<>>))
      EXCEPT !.analysable = FALSE]}

MCDisk ==
  {[files |-> {A, B, C}, dirs |-> {D, <<"d", "e">>}],
   [files |-> {B, <<"d", "x">>, <<"other">>}, dirs |-> {D, <<"d", "e">>}],
   [files |-> {D}, dirs |-> {}]}

=============================================================================
