------------------------- MODULE MCHttpAlternative -------------------------
(***************************************************************************)
(* Small instances of HttpAlternative.                                     *)
(***************************************************************************)
EXTENDS HttpAlternative, TLC

CONSTANTS a, b

TwoTags == {a, b}
AnyTags == {{}, {a}, {a, b}}

Of(responses, rows, looped, rowsLooped, dataset, file) ==
  [items |-> ("response" :> responses @@ "dataset" :> rows),
   looped |-> ("response" :> looped @@ "dataset" :> rowsLooped),
   hasDataset |-> dataset, fromFile |-> file]

SomeLists == {<<NoTag, a, b>>, <<a, NoTag>>, <<b, a>>, <<NoTag, Empty>>}
SomeRows == {<<a, NoTag>>, <<Empty, a>>, <<>>}

SomeAlternatives ==
  {Of(r, <<>>, l, TRUE, FALSE, FALSE) : r \in SomeLists, l \in BOOLEAN}
  \cup {Of(r, d, l, m, TRUE, f) : r \in {<<>>, <<NoTag, Empty, a>>}, d \in SomeRows,
          l \in BOOLEAN, m \in BOOLEAN, f \in BOOLEAN}
=============================================================================
