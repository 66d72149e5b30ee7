--------------------------- MODULE MCHttpService ---------------------------
(***************************************************************************)
(* A small instance of HttpService: service 1 has a fallback server, 2 has *)
(* none.  The path "any" fits every URL, "fixed" only one of them and goes *)
(* first.                                                                  *)
(***************************************************************************)
EXTENDS HttpService, TLC

TwoPaths == [any |-> [urls |-> {"u", "v"}, priority |-> 2],
             fixed |-> [urls |-> {"u"}, priority |-> 0]]

Endpoint(path, method, accepts, silent, outcomes) ==
  [path |-> path, method |-> method, accepts |-> accepts, silent |-> silent, outcomes |-> outcomes]

\* Two alternatives of one path with a more static path in between, ...
ManyEndpoints ==
  <<Endpoint("any", "get", {"x"}, {}, {"response"}),
    Endpoint("fixed", "get", {"x", "y"}, {}, {"FIN", "error", "raises"}),
    Endpoint("any", "get", {"x", "y"}, {}, {"gone", "no row"})>>
\* ... an endpoint for OPTIONS, two that note no failure of "y", ...
OneEndpoint == <<Endpoint("fixed", "options", {"x"}, {"y"}, {"response", "RST"})>>
SomeEndpoints ==
  <<Endpoint("any", "get", {"x"}, {"y"}, {"response", "405", "no row"}),
    Endpoint("any", "get", {"z"}, {"y"}, {"RST"})>>

Small == 1 :> ManyEndpoints @@ 2 :> SomeEndpoints
Other == 1 :> SomeEndpoints @@ 2 :> OneEndpoint
TwoConfigs == {Small, Other}

Ask(s, url, method, content) == [service |-> s, url |-> url, method |-> method, content |-> content]
SomeRequests ==
  {Ask(1, "u", "get", "x"), Ask(1, "v", "get", "y"), Ask(1, "v", "put", "x"),
   Ask(2, "u", "get", "x"), Ask(2, "v", "get", "y"), Ask(2, "v", "get", "w"), Ask(2, "u", "get", "z"),
   Ask(2, "u", "options", "x"), Ask(2, "v", "post", "y")}
=============================================================================
