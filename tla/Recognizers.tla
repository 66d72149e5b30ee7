---------------------------- MODULE Recognizers ----------------------------
(***************************************************************************)
(* What analyze_http_service makes of the templates of an endpoint         *)
(* (recognizers.py), and what match_alternative does with the result       *)
(* (handlers.py).  A segment of a path is text, or has braces: around a    *)
(* name that becomes a parameter, or an expression (regEx, env) that the   *)
(* engine renders.  The conditions on headers and on the query string are  *)
(* functions from keys to a value or to what {{name}} stands for.          *)
(***************************************************************************)
EXTENDS Integers, Sequences, FiniteSets, SequencesExt

CONSTANT Regexes   \* of rendered segments that are not plain text: what they fit

AnySegment == "([^/]+)"
AnyValue == "(.*)"

Text(t) == [braces |-> FALSE, compiled |-> t, name |-> ""]
Var(n) == [braces |-> TRUE, compiled |-> AnySegment, name |-> n]
Expr(c) == [braces |-> TRUE, compiled |-> c, name |-> ""]

\* Mutated: an expression leaves a static path static.
PriorityOfNames(path) ==
  LET upTo[n \in 0 .. Len(path)] ==
        IF n = 0 THEN 0 ELSE IF path[n].name # "" THEN 2 ELSE upTo[n - 1]
  IN  upTo[Len(path)]

\* handle_param and handle_new_parts, over the segments of a path.
Priority(path) ==
  LET upTo[n \in 0 .. Len(path)] ==
        IF n = 0 THEN 0
        ELSE IF path[n].name # "" THEN 2
        ELSE IF upTo[n - 1] = 0 /\ path[n].braces THEN 1 ELSE upTo[n - 1]
  IN  upTo[Len(path)]

Pattern(path) == [i \in DOMAIN path |-> path[i].compiled]

FitsSegment(c, u) ==
  \/ c = AnySegment
  \/ IF c \in DOMAIN Regexes THEN u \in Regexes[c] ELSE u = c
\* re.fullmatch of a rendered path and the path of a request.
FitsPath(pattern, url) ==
  Len(pattern) = Len(url) /\ \A i \in DOMAIN url : FitsSegment(pattern[i], url[i])

\* Each key is there, and its value is the one asked for.  A key of the query
\* string may come several times: get_query_argument returns the last value.
FitsHeaders(e, r) == \A h \in DOMAIN e.headers :
  h \in DOMAIN r.headers /\ e.headers[h] \in {AnyValue, r.headers[h]}
FitsQuery(e, r) == \A q \in DOMAIN e.query :
  q \in DOMAIN r.query /\ e.query[q] \in {AnyValue, Last(r.query[q])}
Accepts(e, r) == FitsHeaders(e, r) /\ FitsQuery(e, r)
=============================================================================
