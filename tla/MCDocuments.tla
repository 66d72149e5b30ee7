---------------------------- MODULE MCDocuments ----------------------------
(***************************************************************************)
(* A small instance of Documents: paths of one or two segments, of which   *)
(* "c+" is read as a regular expression that does not fit itself.          *)
(***************************************************************************)
EXTENDS Documents, TLC

SomeRegexes == "c+" :> {"c"} @@ "a|b" :> {"a", "b"}

No == <<>>
End(path, method, headers, query, status) ==
  [path |-> path, method |-> method, headers |-> headers, query |-> query,
   response |-> Single(status)]
\* The first of several responses; one with headers.
Several(e) == [e EXCEPT !.response.listed = TRUE]
Headed(e) == [e EXCEPT !.response.headers = TRUE]

\* A name, an expression and a text in one place, each with methods of its own.
Mixed ==
  <<End(<<Var("x")>>, "get", No, "q" :> "1", "template"),
    End(<<Expr("a|b")>>, "post", "h" :> AnyValue, No, "201"),
    Several(End(<<Text("a")>>, "get", No, "q" :> "1", "404")),
    End(<<Text("a")>>, "put", No, "p" :> AnyValue, "RST"),
    End(<<Text("a")>>, "get", No, No, "201")>>
\* Two expressions that a document does not tell apart, and one that is a text.
Alike ==
  <<End(<<Expr("a|b"), Text("a")>>, "get", No, No, "200"),
    End(<<Expr("c"), Text("a")>>, "put", No, No, "200"),
    End(<<Text("a"), Var("y")>>, "get", "h" :> "1", No, "FIN")>>
Few == <<End(<<Var("x")>>, "get", "h" :> "1", No, "200"),
         End(<<Var("y"), Expr("b")>>, "get", No, No, "200")>>
MCFiles == {Mixed, Alike, Few}
\* What its document says of headers makes the import fail.
WithHeaders == [Few EXCEPT ![1] = Headed(@)]
MCPosted == {WithHeaders, <<>>}

Ask1(method, url, headers, query) ==
  [method |-> method, url |-> url, headers |-> headers, query |-> query, image |-> FALSE]
MCRequests == {
  Ask1("get", <<"a">>, "h" :> "2" @@ "host" :> "1", No),
  Ask1("get", <<"a">>, "h" :> "1" @@ "k" :> "1", "q" :> <<"2">>),
  Ask1("get", <<"a">>, "h" :> "3" @@ "k" :> "1", "q" :> <<"2">>),
  Ask1("put", <<"a", "b">>, No, "q" :> <<"1", "2">>),
  Ask1("get", <<"c+">>, No, No),
  [Ask1("put", <<"b">>, No, No) EXCEPT !.image = TRUE]}
MCUrls == {<<"a">>, <<"b">>, <<"c">>, <<"c+">>, <<"a", "a">>, <<"a", "b">>, <<"c", "a">>}
MCNumbered == <<"param1", "param2">>
MCRank == Segment("a") :> 2 @@ Segment("b") :> 3 @@ Segment("c+") :> 4
          @@ Param("param1") :> 5 @@ Param("param2") :> 6 @@ Param("x") :> 7 @@ Param("y") :> 8
=============================================================================
