----------------------------- MODULE Documents -----------------------------
(***************************************************************************)
(* The configurations that Mockintosh writes itself, for one HTTP service: *)
(* GET /oas describes its endpoints (management.py, services/http.py) in a *)
(* document from which a service can be started (transpilers.py), and GET  *)
(* /unhandled makes endpoints of the requests that nothing answered, to be *)
(* posted or put into the file.  Either way a service is built again from  *)
(* what an earlier one left, and its routes are compared with the earlier. *)
(* Of a response there are its status, whether it stands in a list, as     *)
(* several do, and whether it has headers that a document names (those of  *)
(* JSON are lost).  Bodies and the fallback server are left out;           *)
(* statistics and logs of the requests are HttpService's.                  *)
(***************************************************************************)
EXTENDS Recognizers

CONSTANTS
  Files, Posted,           \* endpoints the service may start with, and be given
  Requests, Urls,          \* what clients ask for; the paths they know of
  Ignored,                 \* UNHANDLED_IGNORED_HEADERS
  Numbered,                \* "param1", "param2", ...
  Rank,                    \* where the segments of documents come in a sorted list
  MaxRequests, MaxChanges  \* bounds on requests, and on changes of the service

VARIABLES
  endpoints,   \* the endpoints of the service, as configured
  loaded,      \* whether its paths were sorted, as they are when it starts
  capture,     \* unhandled_data of its rule
  unhandled,   \* unhandled_data.requests: of each identifier, the requests
  asked, changes,   \* for the bounds
  learnt,      \* the requests behind the prototypes the service was last given
  source       \* the document it was started from, or NoDocument

vars == <<endpoints, loaded, capture, unhandled, asked, changes, learnt, source>>

NoDocument == <<>>   \* a document of no paths comes from no endpoints

(***************************************************************************)
(* merge_alternatives and make_app: the endpoints of one rendered path     *)
(* share an entry, which has the priority of the first of them.            *)
(***************************************************************************)
PatternOf(i) == Pattern(endpoints[i].path)
Patterns == {PatternOf(i) : i \in DOMAIN endpoints}
Of(p) == {i \in DOMAIN endpoints : PatternOf(i) = p}
FirstOf(p) == Min(Of(p))
PriorityOf(p) == Priority(endpoints[FirstOf(p)].path)
Before(p, q) ==
  IF loaded /\ PriorityOf(p) # PriorityOf(q) THEN PriorityOf(p) < PriorityOf(q)
  ELSE FirstOf(p) <= FirstOf(q)

Fitting(url) == {p \in Patterns : FitsPath(p, url)}
Route(url) == CHOOSE p \in Fitting(url) : \A q \in Fitting(url) : Before(p, q)

Alternatives(r) == {i \in Of(Route(r.url)) : endpoints[i].method = r.method}
Answered(r) ==
  Fitting(r.url) # {} /\ \E i \in Alternatives(r) : Accepts(endpoints[i], r)

(***************************************************************************)
(* GET /unhandled.                                                         *)
(***************************************************************************)
Identifier(r) == <<r.method, r.url>>
Insert(r) ==
  LET known == {i \in DOMAIN unhandled : unhandled[i].id = Identifier(r)}
  IN  IF known = {} THEN Append(unhandled, [id |-> Identifier(r), rows |-> <<r>>])
      ELSE [unhandled EXCEPT ![Min(known)].rows = Append(@, r)]

Single(status) == [status |-> status, listed |-> FALSE, headers |-> FALSE]

\* Mutated: those of the last request.
LastHeaders(rows) == Last(rows).headers

\* The headers of the last request that each of the others has, with that value.
CommonHeaders(rows) ==
  LET h == Last(rows).headers
  IN  [k \in {n \in DOMAIN h \ Ignored : \A i \in DOMAIN rows :
                n \in DOMAIN rows[i].headers /\ rows[i].headers[n] = h[n]} |-> h[k]]

Prototype(rows) ==
  LET r == Last(rows)
  IN  [path |-> [i \in DOMAIN r.url |-> Text(r.url[i])], method |-> r.method,
       headers |-> CommonHeaders(rows),
       query |-> [q \in DOMAIN r.query |-> Head(r.query[q])],
       response |-> Single("200")]

\* None of an identifier whose requests were deleted.
Prototypes ==
  FlattenSeq([i \in DOMAIN unhandled |->
    IF unhandled[i].rows = <<>> THEN <<>> ELSE <<Prototype(unhandled[i].rows)>>])

(***************************************************************************)
(* GET /oas: for each path, one operation per method, from the first       *)
(* endpoint that has it.  A segment with braces becomes a parameter, an    *)
(* expression one that is named by its number.  All operations of a path   *)
(* add their keys to ONE dictionary of the query string.  Two paths that   *)
(* are written the same leave the later one.                               *)
(***************************************************************************)
Segment(t) == [param |-> FALSE, is |-> t]
Param(n) == [param |-> TRUE, is |-> n]

Form(path) ==
  [i \in DOMAIN path |->
     IF ~path[i].braces THEN Segment(path[i].compiled)
     ELSE Param(IF path[i].name # "" THEN path[i].name
                ELSE Numbered[Cardinality({j \in 1..i : path[j].braces})])]

\* Paths of text, names and expressions whose segments the documents can order,
\* where no text looks as a parameter does.
IsPath(path) ==
  /\ path \in Seq(Range(path))
  /\ \A i \in DOMAIN path : path[i].braces \in BOOLEAN /\ (path[i].name # "" => path[i].braces)
  /\ Form(path) \in Seq(DOMAIN Rank)
IsConfiguration(c) == c \in Seq(Range(c)) /\ \A i \in DOMAIN c : IsPath(c[i].path)

ASSUME DocumentsAssumption ==
  /\ MaxRequests \in Nat /\ MaxChanges \in Nat
  /\ \A c \in Files \cup Posted : IsConfiguration(c)
  /\ \A r \in Requests :
       /\ r.url \in Seq(STRING) /\ \A i \in DOMAIN r.url : Segment(r.url[i]) \in DOMAIN Rank
       /\ \A q \in DOMAIN r.query : Len(r.query[q]) > 0
  /\ \A s \in DOMAIN Rank :
       /\ Rank[s] \in Nat
       /\ \A t \in DOMAIN Rank : Rank[s] = Rank[t] => s = t
       /\ s \in {Segment(s.is), Param(s.is)}
       /\ s.is # (IF s.param THEN "" ELSE AnySegment)

\* The elements of a set in a sequence, as the pairs of it order them.
InOrder(S, pairs) ==
  [n \in 1 .. Cardinality(S) |->
     CHOOSE x \in S : Cardinality({y \in S : <<y, x>> \in pairs}) = n - 1]
Increasing(S) == InOrder(S, {e \in S \X S : e[1] < e[2]})

\* Mutated: the last of each.
LastOfMethods(p) ==
  Increasing({i \in Of(p) : \A j \in Of(p) : endpoints[j].method = endpoints[i].method => j <= i})
FirstOfMethods(p) ==
  Increasing({i \in Of(p) : \A j \in Of(p) : endpoints[j].method = endpoints[i].method => i <= j})

Plain == [status |-> "200", headers |-> FALSE]
NotSaid == [status |-> "default", headers |-> FALSE]
StatusIn(status) == IF status = "template" THEN "default" ELSE status

\* Of a list of responses nothing is read, and 200 is written.  One that closes
\* the connection is left out, for which build_oas_methods puts "default", as
\* stands for a status that is no number.
Described(response) ==
  IF response.listed THEN Plain
  ELSE IF response.status \in {"RST", "FIN"} THEN NotSaid
  ELSE [status |-> StatusIn(response.status), headers |-> response.headers]

Operations(p) ==
  LET first == FirstOfMethods(p)
  IN  [k \in DOMAIN first |->
         [method |-> endpoints[first[k]].method,
          headers |-> DOMAIN endpoints[first[k]].headers,
          query |-> UNION {DOMAIN endpoints[first[j]].query : j \in 1..k},
          response |-> Described(endpoints[first[k]].response)]]

FormOf(p) == Form(endpoints[FirstOf(p)].path)
Document ==
  [f \in {FormOf(p) : p \in Patterns} |->
     LET alike == {p \in Patterns : FormOf(p) = f}
     IN  Operations(CHOOSE p \in alike : \A q \in alike : Before(q, p))]

(***************************************************************************)
(* OASToConfigTranspiler: an endpoint per operation, in the order of the   *)
(* document, whose paths are sorted.  Required parameters become           *)
(* conditions that any value meets, and the response a list of one.        *)
(***************************************************************************)
Sooner(f, g) ==
  \/ \E i \in DOMAIN f \cap DOMAIN g :
       Rank[f[i]] < Rank[g[i]] /\ \A j \in 1..(i - 1) : f[j] = g[j]
  \/ Len(f) < Len(g) /\ \A i \in DOMAIN f : f[i] = g[i]
Sorted(F) == InOrder(F, {e \in F \X F : Sooner(e[1], e[2])})

Handlebars(f) == [i \in DOMAIN f |-> IF f[i].param THEN Var(f[i].is) ELSE Text(f[i].is)]

StatusOut(status) == IF status = "default" THEN "200" ELSE status
Listed(response) == [Single(StatusOut(response.status)) EXCEPT !.listed = TRUE]

\* Mutated: parameters in headers are skipped.
TranspiledBare(f, o) ==
  [path |-> Handlebars(f), method |-> o.method,
   headers |-> <<>>, query |-> [q \in o.query |-> AnyValue],
   response |-> Listed(o.response)]

Transpiled(f, o) ==
  [path |-> Handlebars(f), method |-> o.method,
   headers |-> [h \in o.headers |-> AnyValue], query |-> [q \in o.query |-> AnyValue],
   response |-> Listed(o.response)]

Transpile(d) ==
  LET paths == Sorted(DOMAIN d)
  IN  FlattenSeq([k \in DOMAIN paths |->
        [i \in DOMAIN d[paths[k]] |-> Transpiled(paths[k], d[paths[k]][i])]])

-----------------------------------------------------------------------------
Init ==
  /\ endpoints \in Files /\ loaded = TRUE
  /\ capture = FALSE /\ unhandled = <<>>
  /\ asked = 0 /\ changes = 0 /\ learnt = {} /\ source = NoDocument

\* The handler's end for 404, 405 and 400 alike: insert_unhandled_data, unless
\* the client accepts nothing but images or the path ends as theirs do.
Ask(r) ==
  /\ asked < MaxRequests /\ asked' = asked + 1
  /\ unhandled' = IF capture /\ ~Answered(r) /\ ~r.image THEN Insert(r) ELSE unhandled
  /\ UNCHANGED <<endpoints, loaded, capture, changes, learnt, source>>

\* POST /unhandled; DELETE /unhandled keeps the keys of the dictionary.
SetCapture(on) ==
  /\ capture # on /\ capture' = on
  /\ UNCHANGED <<endpoints, loaded, unhandled, asked, changes, learnt, source>>
DeleteUnhandled ==
  /\ unhandled' = [i \in DOMAIN unhandled |-> [unhandled[i] EXCEPT !.rows = <<>>]]
  /\ UNCHANGED <<endpoints, loaded, capture, asked, changes, learnt, source>>

Becomes(new) == changes < MaxChanges /\ changes' = changes + 1 /\ endpoints' = new
\* POST /config of the service leaves what was recorded, and the order as posted.
PostConfig(new) == Becomes(new) /\ loaded' = FALSE /\ UNCHANGED <<capture, unhandled, asked>>
\* A new process, with the routes sorted and nothing recorded.
Start(new) ==
  Becomes(new) /\ loaded' = TRUE /\ capture' = FALSE /\ unhandled' = <<>> /\ UNCHANGED asked

Post(c) == PostConfig(c) /\ learnt' = {} /\ source' = NoDocument

\* The prototypes alone or after the endpoints there are, posted or started with.
Adopt ==
  /\ Prototypes # <<>>
  /\ \E kept \in {<<>>, endpoints} :
       PostConfig(kept \o Prototypes) \/ Start(kept \o Prototypes)
  /\ learnt' = UNION {Range(unhandled[i].rows) : i \in DOMAIN unhandled}
  /\ source' = NoDocument

\* _transpile_headers looks for a type where the document has a schema: with a
\* header of a response in it, the new process ends before it has a service.
Import ==
  LET document == Document
  IN /\ endpoints # <<>>
     /\ \A f \in DOMAIN document : \A k \in DOMAIN document[f] :
          ~document[f][k].response.headers
     /\ Start(Transpile(document))
     /\ learnt' = {} /\ source' = document

Next ==
  \/ \E r \in Requests : Ask(r)
  \/ \E on \in BOOLEAN : SetCapture(on)
  \/ DeleteUnhandled
  \/ \E c \in Posted : Post(c)
  \/ Adopt
  \/ Import

Spec == Init /\ [][Next]_vars

-----------------------------------------------------------------------------
(***************************************************************************)
(* Properties.                                                             *)
(***************************************************************************)
Static(path) == \A i \in DOMAIN path : ~path[i].braces

\* docs/Matching.md: "static values have a higher priority over named
\* parameters and regEx".  In a service that was started, a request whose path
\* an all-static one fits is never routed to one with parameters, wherever the
\* file has them.
StaticFirst ==
  loaded => \A u \in Urls :
    (\E p \in Fitting(u) : Static(endpoints[FirstOf(p)].path))
      => Static(endpoints[FirstOf(Route(u))].path)

\* A service that was given prototypes answers the requests they were made
\* from, all those of an identifier that agree with its last one in the query
\* string, in whatever headers they differ.  Not so where the request's path,
\* read as a regular expression, does not fit itself, a key of its query came
\* several times, or a path listed earlier fits too.
Replayable(r) ==
  /\ FitsPath(r.url, r.url)
  /\ \A q \in DOMAIN r.query : Len(r.query[q]) = 1
  /\ \A s \in learnt : Identifier(s) = Identifier(r) => s.query = r.query
Hidden(r) == \E p \in Fitting(r.url) : p # r.url /\ Before(p, r.url)
LearntAnswered == \A r \in learnt : Replayable(r) /\ ~Hidden(r) => Answered(r)

\* The document has every path a request may be routed to, and under it every
\* method, requiring at least what the first endpoint asks for, unless another
\* path of the service is written the same in it.
FitsForm(f, url) ==
  Len(f) = Len(url) /\ \A i \in DOMAIN f : f[i].param \/ FitsSegment(f[i].is, url[i])
Documented ==
  LET document == Document
  IN \A u \in Urls : Fitting(u) # {} =>
    LET p == Route(u)
        f == FormOf(p)
    IN  /\ f \in DOMAIN document /\ FitsForm(f, u)
        /\ (\A q \in Patterns : FormOf(q) = f => q = p) =>
             \A i \in Of(p) : \E k \in DOMAIN document[f] :
               /\ document[f][k].method = endpoints[i].method
               /\ (\A j \in Of(p) : j < i => endpoints[j].method # endpoints[i].method)
                    => DOMAIN endpoints[i].query \subseteq document[f][k].query

\* A service started from a document has, for each operation, an endpoint that
\* answers with the status the document says; and it describes itself by the
\* same document, if no two of its paths differ in nothing but the names of their
\* parameters, except that it says 200 of every response.
Unnamed(f) == [i \in DOMAIN f |-> IF f[i].param THEN Param("") ELSE f[i]]
Retold(d) ==
  [f \in DOMAIN d |-> [k \in DOMAIN d[f] |-> [d[f][k] EXCEPT !.response = Plain]]]
ComesBack ==
  source # NoDocument =>
    /\ \A f \in DOMAIN source : \A k \in DOMAIN source[f] : \E e \in Range(endpoints) :
         /\ e.path = Handlebars(f) /\ e.method = source[f][k].method
         /\ e.response.status = StatusOut(source[f][k].response.status)
    /\ (\A f, g \in DOMAIN source : Unnamed(f) = Unnamed(g) => f = g)
         => Document = Retold(source)
=============================================================================
