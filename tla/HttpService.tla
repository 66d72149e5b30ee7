---------------------------- MODULE HttpService ----------------------------
(***************************************************************************)
(* The HTTP services: how GenericHandler (handlers.py) finds the endpoint  *)
(* that answers a request, what it leaves in the statistics, the traffic   *)
(* log and the unhandled requests, and how the management API (management  *)
(* .py) changes all of that in between.  Handlers run on Tornado's event   *)
(* loop: they are interrupted only where they await an answer of the       *)
(* fallback server, and the rest of a handler is one step.  The multiple   *)
(* responses of an endpoint are HttpAlternative's.                         *)
(***************************************************************************)
EXTENDS Integers, Sequences, FiniteSets, FiniteSetsExt

CONSTANTS
  N, Http,         \* the number of services; the ids of those that are HTTP
  Fallback,        \* the HTTP services with a fallbackTo
  Paths,           \* of each path: the URLs it matches, and its priority
  MaxEndpoints, Configs,   \* what a configuration gives the HTTP services
  Requests,        \* what clients may ask for
  Images, Idle,    \* the contents that ask for an image; no request
  Handlers,        \* one for each request that may wait at the same time
  MaxRequests, MaxChanges   \* bounds on both kinds of requests

Services == 1 .. N
None == 0          \* internal_endpoint_id before any alternative was looked at
Outcomes == {"raises", "gone", "no row", "response", "405", "error", "RST", "FIN"}
Answers == {"response", "405", "error"}
StatusOf(o) == CASE o = "response" -> 200 [] o = "405" -> 405 [] o = "error" -> 500

ASSUME ServiceAssumption ==
  /\ N \in Nat /\ Http \subseteq Services /\ Fallback \subseteq Http
  /\ MaxEndpoints \in Nat /\ MaxRequests \in Nat /\ MaxChanges \in Nat
  /\ \A c \in Configs : DOMAIN c = Http /\ \A s \in Http :
       /\ Len(c[s]) \in 0 .. MaxEndpoints /\ DOMAIN c[s] = 1 .. Len(c[s])
       /\ \A i \in DOMAIN c[s] :
            c[s][i].path \in DOMAIN Paths /\ c[s][i].outcomes \subseteq Outcomes
  /\ \A p \in DOMAIN Paths : Paths[p].priority \in Nat
  /\ \A r \in Requests : r.service \in Http

VARIABLES
  config,      \* the endpoints that the routes of each HTTP service are made of
  sorted,      \* whether those routes are in the order of their priorities
  known,       \* how many services definition.stats has
  size,        \* how many endpoints each of them has
  requests, codes,     \* request_counter, status_code_distribution of each
  logging, records,    \* logs.services[...].enabled, the number of its records
  capture, rows,       \* unhandled_data of the rules, the number of its rows
  waiting,     \* the requests whose handlers await the fallback server
  served, changes,     \* requests so far, for the bounds
  failed,      \* whether the last POST /config failed half-way
  reply,       \* the last answer, until the configuration changes
  ended, missed,       \* requests that ended since the statistics were reset, and
                       \* those of them that the code passes over
  forwarded,           \* requests that ended at the fallback server since then
  since        \* whether every status counted since then should be logged

stats == <<known, size, requests, codes>>
logs == <<logging, records>>
unhandled == <<capture, rows>>
ghosts == <<failed, reply, ended, missed, forwarded, since>>
vars == <<config, sorted, stats, logs, unhandled, waiting, served, changes, ghosts>>

\* <<0, 0>> stands for Stats itself and <<s, 0>> for service s: every counter
\* of an endpoint is added to its parents'.  The threads of actors add to the
\* one of Stats with no lock, so with asynchronous services it is not the event
\* loop's to count: it is Lifecycle's total, and no tally here.
Globals == IF Http = Services THEN {<<0, 0>>} ELSE {}
Tallies == Globals \cup (Services \X (0 .. MaxEndpoints))
Zero == [t \in Tallies |-> 0]
Increase(f, s, e) ==
  [t \in Tallies |-> IF t \in {<<s, e>>, <<s, 0>>, <<0, 0>>} THEN f[t] + 1 ELSE f[t]]
ZeroOf(f, s) == [t \in Tallies |-> IF t[1] = s THEN 0 ELSE f[t]]
OfStats(f) == [t \in Tallies |-> IF t \in Globals THEN f[t] ELSE 0]
NoneYet == [s \in Services |-> 0]

SizeOf(c) == [s \in Services |-> IF s \in Http THEN Len(c[s]) ELSE 0]

Init ==
  /\ config \in Configs /\ sorted = [s \in Http |-> TRUE]
  /\ known = N /\ size = SizeOf(config) /\ requests = Zero /\ codes = Zero
  /\ logging = [s \in Services |-> FALSE] /\ records = NoneYet
  /\ capture = [s \in Services |-> FALSE] /\ rows = NoneYet
  /\ waiting = [h \in Handlers |-> Idle]
  /\ served = 0 /\ changes = 0
  /\ failed = FALSE /\ reply = Idle
  /\ ended = NoneYet /\ missed = NoneYet /\ forwarded = NoneYet
  /\ since = [s \in Services |-> FALSE]

(***************************************************************************)
(* merge_alternatives collects the endpoints of a path, in the order of    *)
(* the configuration; a request is matched with the first path that fits,  *)
(* then with the alternatives of that path and its method.                 *)
(***************************************************************************)
IsOptions(r) == r.method = "options"
Fits(s, i, r) == r.url \in Paths[config[s][i].path].urls
FirstOf(s, p) == CHOOSE i \in DOMAIN config[s] :
  config[s][i].path = p /\ \A j \in DOMAIN config[s] : config[s][j].path = p => i <= j

BeforeUnsorted(s, p, q) == FirstOf(s, p) <= FirstOf(s, q)   \* a faulty variant

Before(s, p, q) ==
  IF sorted[s] /\ Paths[p].priority # Paths[q].priority
  THEN Paths[p].priority < Paths[q].priority
  ELSE FirstOf(s, p) <= FirstOf(s, q)

Fitting(r) == {config[r.service][i].path : i \in {j \in DOMAIN config[r.service] : Fits(r.service, j, r)}}
Known(r) == Fitting(r) # {}
Route(r) == CHOOSE p \in Fitting(r) : \A q \in Fitting(r) : Before(r.service, p, q)
OnRoute(r) == {i \in DOMAIN config[r.service] : config[r.service][i].path = Route(r)}
Alternatives(r) == {i \in OnRoute(r) : config[r.service][i].method = r.method}

Accepting(r) == {i \in Alternatives(r) : r.content \in config[r.service][i].accepts}
Answering(r) == Min(Accepting(r))

\* The alternatives that failed before one was accepted; the last that noted it.
Tried(r) == {i \in Alternatives(r) : \A j \in Accepting(r) : i < j}

NotNoted(r) == None   \* a faulty variant: no failing condition notes its endpoint

Blamed(r) ==
  LET noted == {i \in Tried(r) : r.content \notin config[r.service][i].silent}
  IN IF noted = {} THEN None ELSE Max(noted)

(***************************************************************************)
(* on_finish.  Where the statistics lack an entry it raises, after the log *)
(* was written, and nobody counts the request.                             *)
(***************************************************************************)
Counted(s, e) == s <= known /\ e \in 1 .. size[s]

LogNothing(s) == UNCHANGED records   \* a faulty variant

Log(s) == records' = [records EXCEPT ![s] = IF logging[s] THEN @ + 1 ELSE @]

Count(s, e, status) ==
  codes' = IF status = 405 THEN IF s <= known THEN Increase(codes, s, 0) ELSE codes
           ELSE IF Counted(s, e) THEN Increase(codes, s, e) ELSE codes

Ends(s, e, status, isOptions) ==
  /\ Log(s)
  /\ IF status = 500 \/ isOptions THEN UNCHANGED codes ELSE Count(s, e, status)

\* History: a request that ended, unless it was OPTIONS or had no path (those
\* are counted only when the connection is closed); whether it is passed over.
Ended(r, closed, over) ==
  LET one == IF closed \/ (Known(r) /\ ~IsOptions(r)) THEN 1 ELSE 0
  IN /\ ended' = [ended EXCEPT ![r.service] = @ + one]
     /\ missed' = [missed EXCEPT ![r.service] = IF over THEN @ + one ELSE @]
\* No endpoint is noted: all that were tried failed by a condition that notes none.
Silent(r) == \A i \in Tried(r) : r.content \in config[r.service][i].silent
Replied(r, e, status) == reply' = [request |-> r, endpoint |-> e, status |-> status]

Arrives == served < MaxRequests /\ served' = served + 1

(***************************************************************************)
(* super_verb when an alternative accepts the request.                     *)
(***************************************************************************)
Outcome(r, o) ==
  /\ Arrives /\ Known(r) /\ Accepting(r) # {}
  /\ o \in config[r.service][Answering(r)].outcomes
Quiet == UNCHANGED <<config, sorted, known, size, logging, unhandled, waiting, changes,
                     failed, forwarded>>

\* The multiple responses or the dataset are exhausted: 410, by loop_alternative.
Gone(r) ==
  LET s == r.service
      e == Answering(r)
  IN /\ Outcome(r, "gone")
     /\ Ends(s, e, 410, IsOptions(r)) /\ Ended(r, FALSE, FALSE)
     /\ Replied(r, e, 410)
     /\ UNCHANGED <<requests, since>> /\ Quiet

\* An empty row of a dataset, or an empty one of several responses, ends the
\* request before its endpoint is noted.
NoRow(r) ==
  LET s == r.service
  IN /\ Outcome(r, "no row")
     /\ Ends(s, Blamed(r), 200, IsOptions(r)) /\ Ended(r, FALSE, Silent(r))
     /\ Replied(r, Answering(r), 200)
     /\ UNCHANGED <<requests, since>> /\ Quiet

\* Matching raised (a schema that cannot be read), or increase_request_counter
\* did because the statistics lack the endpoint.
Uncounted(r) ==
  /\ \/ Outcome(r, "raises")
     \/ /\ \E o \in Answers \cup {"RST", "FIN"} : Outcome(r, o)
        /\ ~Counted(r.service, Answering(r))
  /\ Ends(r.service, Answering(r), 500, IsOptions(r)) /\ Ended(r, FALSE, TRUE)
  /\ Replied(r, Answering(r), 500)
  /\ UNCHANGED <<requests, since>> /\ Quiet

Increased(r) ==
  /\ Counted(r.service, Answering(r))
  /\ requests' = Increase(requests, r.service, Answering(r))

\* The response, or 500 when rendering it raised.
Answer(r) ==
  \E o \in Answers :
    LET s == r.service
        e == Answering(r)
        status == StatusOf(o)
    IN /\ Outcome(r, o) /\ Increased(r)
       /\ Ends(s, e, status, IsOptions(r)) /\ Ended(r, FALSE, status = 500)
       /\ Replied(r, e, status)
       /\ UNCHANGED since /\ Quiet

\* The connection is closed and counted at once.  FIN goes on to on_finish,
\* which only logs it; RST never gets there.
Close(r) ==
  LET s == r.service
      e == Answering(r)
  IN /\ Outcome(r, "FIN") /\ Increased(r)
     /\ codes' = Increase(codes, s, e) /\ Log(s)
     /\ Ended(r, TRUE, FALSE)
     /\ Replied(r, e, 200)
     /\ UNCHANGED since /\ Quiet

Reset(r) ==
  LET s == r.service
      e == Answering(r)
  IN /\ Outcome(r, "RST") /\ Increased(r)
     /\ codes' = Increase(codes, s, e)
     /\ Ended(r, TRUE, FALSE) /\ since' = [since EXCEPT ![s] = FALSE]
     /\ Replied(r, e, 0)
     /\ UNCHANGED records /\ Quiet

\* Automatic CORS: the path is known but has no endpoint for OPTIONS.
Cors(r) ==
  /\ Arrives /\ IsOptions(r) /\ Known(r) /\ Alternatives(r) = {}
  /\ Ends(r.service, None, 204, TRUE) /\ Ended(r, FALSE, FALSE)
  /\ Replied(r, None, 204)
  /\ UNCHANGED <<requests, since>> /\ Quiet

(***************************************************************************)
(* raise_http_error: no path, no endpoint for the method, none that the    *)
(* request fulfils.  methods is None only in the first case.               *)
(***************************************************************************)
Refused(r) ==
  \/ ~Known(r)
  \/ Known(r) /\ Alternatives(r) = {} /\ ~IsOptions(r)
  \/ Known(r) /\ Alternatives(r) # {} /\ Accepting(r) = {}
Refusal(r) == IF ~Known(r) THEN 404 ELSE IF Alternatives(r) = {} THEN 405 ELSE 400
Culprit(r) == IF Known(r) /\ Alternatives(r) # {} THEN Blamed(r) ELSE None

Insert(s, r, on) == rows' = [rows EXCEPT ![s] = IF on /\ r.content \notin Images THEN @ + 1 ELSE @]

\* Without a fallback server the handler answers at once.
Refuse(r) ==
  LET s == r.service
      skipped == IsOptions(r) \/ ~Known(r)
  IN /\ Arrives /\ Refused(r) /\ s \notin Fallback
     /\ Insert(s, r, capture[s])
     /\ Ends(s, Culprit(r), Refusal(r), skipped)
     /\ Ended(r, FALSE, Refusal(r) = 400 /\ Silent(r))
     /\ Replied(r, None, Refusal(r))
     /\ UNCHANGED <<config, sorted, known, size, requests, logging, capture, waiting,
                    changes, failed, forwarded, since>>

\* With one it keeps what initialize() gave it and waits.
Forward(r) ==
  /\ Arrives /\ Refused(r) /\ r.service \in Fallback
  /\ \E h \in Handlers :
       /\ waiting[h] = Idle
       /\ waiting' = [waiting EXCEPT ![h] =
            [request |-> r, endpoint |-> Culprit(r), capture |-> capture[r.service],
             skipped |-> IsOptions(r) \/ ~Known(r)]]
  /\ UNCHANGED <<config, sorted, stats, logs, unhandled, changes, ghosts>>

\* It ends with the server's status, 504 or 502 when there is none, or 500.
ForwardEnds(h, answered) ==
  LET w == waiting[h]
      s == w.request.service
  IN /\ w # Idle
     /\ \E status \in IF answered THEN {200, 405} ELSE {504, 500} :
          Ends(s, w.endpoint, status, w.skipped)
     /\ waiting' = [waiting EXCEPT ![h] = Idle]
     /\ forwarded' = [forwarded EXCEPT ![s] = @ + 1]
     /\ Insert(s, w.request, answered /\ w.capture)
     /\ UNCHANGED <<config, sorted, known, size, requests, logging, capture, served,
                    changes, failed, reply, ended, missed, since>>

Forwarded(h) == ForwardEnds(h, TRUE)
ForwardFails(h) == ForwardEnds(h, FALSE)

(***************************************************************************)
(* The management API, of all services or of one.                          *)
(***************************************************************************)
Scopes == {Services} \cup {{s} : s \in Http}
Changes == changes < MaxChanges /\ changes' = changes + 1

NotCounted(S) ==
  /\ ended' = [s \in Services |-> IF s \in S THEN 0 ELSE ended[s]]
  /\ missed' = [s \in Services |-> IF s \in S THEN 0 ELSE missed[s]]
  /\ forwarded' = [s \in Services |-> IF s \in S THEN 0 ELSE forwarded[s]]
  /\ since' = [s \in Services |-> IF s \in S THEN logging[s] ELSE since[s]]

\* DELETE /stats.
ResetStats ==
  /\ Changes
  /\ requests' = Zero /\ codes' = Zero
  /\ NotCounted(Services)
  /\ UNCHANGED <<config, sorted, known, size, logs, unhandled, waiting, served, failed, reply>>

ResetServiceOnly(s) ==   \* a faulty variant: its endpoints keep theirs
  /\ Changes /\ s <= known
  /\ requests' = [requests EXCEPT ![<<s, 0>>] = 0]
  /\ codes' = [codes EXCEPT ![<<s, 0>>] = 0]
  /\ NotCounted({s})
  /\ UNCHANGED <<config, sorted, known, size, logs, unhandled, waiting, served, failed, reply>>

ResetServiceStats(s) ==
  /\ Changes /\ s <= known
  /\ requests' = ZeroOf(requests, s) /\ codes' = ZeroOf(codes, s)
  /\ NotCounted({s})
  /\ UNCHANGED <<config, sorted, known, size, logs, unhandled, waiting, served, failed, reply>>

\* POST and DELETE /traffic-log.
SetLogging(S, on) ==
  /\ Changes
  /\ logging' = [s \in Services |-> IF s \in S THEN on ELSE logging[s]]
  /\ since' = [s \in Services |-> IF s \in S THEN on /\ (since[s] \/ codes[<<s, 0>>] = 0)
                               ELSE since[s]]
  /\ UNCHANGED <<config, sorted, stats, records, unhandled, waiting, served, failed, reply,
                 ended, missed, forwarded>>

ResetLogs(S) ==
  /\ Changes
  /\ records' = [s \in Services |-> IF s \in S THEN 0 ELSE records[s]]
  /\ since' = [s \in Services |-> since[s] /\ (s \in S => codes[<<s, 0>>] = 0)]
  /\ UNCHANGED <<config, sorted, stats, logging, unhandled, waiting, served, failed, reply,
                 ended, missed, forwarded>>

\* POST and DELETE /unhandled.
SetCapture(S, on) ==
  /\ Changes
  /\ capture' = [s \in Services |-> IF s \in S \cap Http THEN on ELSE capture[s]]
  /\ UNCHANGED <<config, sorted, stats, logs, rows, waiting, served, ghosts>>

ClearUnhandled(S) ==
  /\ Changes
  /\ rows' = [s \in Services |-> IF s \in S THEN 0 ELSE rows[s]]
  /\ UNCHANGED <<config, sorted, stats, logs, capture, waiting, served, ghosts>>

\* POST /config: definition.analyze and update_service, which does not sort.
Configure(c) ==
  /\ Changes
  /\ config' = c /\ sorted' = [s \in Http |-> FALSE]
  /\ known' = N /\ size' = SizeOf(c)
  /\ requests' = Zero /\ codes' = Zero
  /\ NotCounted(Services)
  /\ failed' = FALSE /\ reply' = Idle
  /\ UNCHANGED <<logs, unhandled, waiting, served>>

\* analyze() raised after k services, with the statistics emptied: the routes
\* and all the counters of Stats itself stay.
FailConfigure(k) ==
  /\ Changes
  /\ known' = k /\ size' = NoneYet
  /\ requests' = OfStats(requests) /\ codes' = OfStats(codes)
  /\ NotCounted(Services)
  /\ failed' = TRUE
  /\ UNCHANGED <<config, sorted, logs, unhandled, waiting, served, reply>>

AddEndpoints(s, endpoints) ==   \* a faulty variant: the old ones are kept
  size' = [size EXCEPT ![s] = @ + Len(endpoints)]

NewEndpoints(s, endpoints) == size' = [size EXCEPT ![s] = Len(endpoints)]

\* POST /config of one service.
ConfigureService(s, endpoints) ==
  /\ Changes /\ s <= known
  /\ config' = [config EXCEPT ![s] = endpoints] /\ sorted' = [sorted EXCEPT ![s] = FALSE]
  /\ NewEndpoints(s, endpoints)
  /\ requests' = ZeroOf(requests, s) /\ codes' = ZeroOf(codes, s)
  /\ NotCounted({s})
  /\ reply' = Idle
  /\ UNCHANGED <<known, logs, unhandled, waiting, served, failed>>

Handle(r) ==
  \/ Gone(r) \/ NoRow(r) \/ Uncounted(r) \/ Answer(r) \/ Close(r) \/ Reset(r)
  \/ Cors(r) \/ Refuse(r) \/ Forward(r)

Manage ==
  \/ ResetStats
  \/ \E s \in Http : ResetServiceStats(s)
  \/ \E S \in Scopes, on \in BOOLEAN : SetLogging(S, on) \/ SetCapture(S, on)
  \/ \E S \in Scopes : ResetLogs(S) \/ ClearUnhandled(S)
  \/ \E c \in Configs : Configure(c) \/ \E s \in Http : ConfigureService(s, c[s])
  \/ \E k \in 0 .. N : FailConfigure(k)

Next ==
  \/ \E r \in Requests : Handle(r)
  \/ \E h \in Handlers : Forwarded(h) \/ ForwardFails(h)
  \/ Manage

Spec == Init /\ [][Next]_vars
-----------------------------------------------------------------------------
Waiting == [request : Requests, endpoint : 0 .. MaxEndpoints, capture : BOOLEAN, skipped : BOOLEAN]
Reply == [request : Requests, endpoint : 0 .. MaxEndpoints,
          status : {200, 204, 400, 404, 405, 410, 500, 0}]

TypeOK ==
  /\ DOMAIN config = Http /\ \A s \in Http : config[s] \in {c[s] : c \in Configs}
  /\ sorted \in [Http -> BOOLEAN]
  /\ known \in 0 .. N /\ size \in [Services -> 0 .. MaxEndpoints]
  /\ requests \in [Tallies -> Nat] /\ codes \in [Tallies -> Nat]
  /\ logging \in [Services -> BOOLEAN] /\ records \in [Services -> Nat]
  /\ capture \in [Services -> BOOLEAN] /\ rows \in [Services -> Nat]
  /\ waiting \in [Handlers -> Waiting \cup {Idle}]
  /\ served \in 0 .. MaxRequests /\ changes \in 0 .. MaxChanges
  /\ failed \in BOOLEAN /\ reply \in Reply \cup {Idle}
  /\ ended \in [Services -> Nat] /\ missed \in [Services -> Nat]
  /\ forwarded \in [Services -> Nat] /\ since \in [Services -> BOOLEAN]

\* A request is answered by the first endpoint it fulfils among those of a
\* path, and as long as no configuration was posted no endpoint with a more
\* static path would fit; it is refused only when that path has none for it.
Fulfils(s, i, r) ==
  /\ Fits(s, i, r) /\ config[s][i].method = r.method /\ r.content \in config[s][i].accepts
Priority(s, i) == Paths[config[s][i].path].priority
FirstMatch ==
  reply # Idle =>
    LET r == reply.request
        s == r.service
        e == reply.endpoint
    IN /\ e # None =>
            /\ Fulfils(s, e, r)
            /\ \A i \in 1 .. e - 1 : config[s][i].path = config[s][e].path => ~Fulfils(s, i, r)
            /\ sorted[s] => \A i \in DOMAIN config[s] :
                 Fits(s, i, r) => Priority(s, e) <= Priority(s, i)
       /\ e = None => \A i \in DOMAIN config[s] : Fulfils(s, i, r) =>
            \E j \in DOMAIN config[s] : Fits(s, j, r) /\ config[s][j].path # config[s][i].path

\* The counters of a service are those of its endpoints together, except for
\* the statuses 405; where all services are HTTP, so that only the event loop
\* counts, the global ones are at least those of the services: across resets of
\* one level or the other and new configurations.
SumOf(f, T) == Cardinality(UNION {{t} \X (1 .. f[t]) : t \in T})
Inside(s) == {<<s, e>> : e \in 1 .. MaxEndpoints}
StatsAddUp ==
  /\ \A s \in Services :
       /\ requests[<<s, 0>>] = SumOf(requests, Inside(s))
       /\ codes[<<s, 0>>] >= SumOf(codes, Inside(s))
  /\ \A t \in Globals, f \in {requests, codes} : f[t] >= SumOf(f, {<<s, 0>> : s \in Services})

\* What the routes select has its place in the statistics, unless the last
\* POST /config failed half-way: three structures are kept in step.
StatsMatchRoutes ==
  ~failed => known = N /\ \A s \in Http : size[s] = Len(config[s])

\* Of the requests that end, in whichever way, each has its status counted
\* exactly once, but for those passed over (missed): the answers 500, and the
\* 400s and the empty rows for which every condition that failed was a silent
\* one, where on_finish raises for want of an endpoint.  A request that was
\* forwarded is counted at most once.
AnsweredCounted ==
  ~failed => \A s \in Http : codes[<<s, 0>>] - (ended[s] - missed[s]) \in 0 .. forwarded[s]

\* As long as a service's log is enabled every status counted has its record,
\* whatever the order of resets.
LogsCoverStats == \A s \in Http : since[s] => codes[<<s, 0>>] <= records[s]
-----------------------------------------------------------------------------
(***************************************************************************)
(* What the documentation says and the code does not do.                   *)
(***************************************************************************)
\* "static values have a higher priority over named parameters and regEx"
StaticFirst ==
  (reply # Idle /\ reply.endpoint # None) =>
    LET s == reply.request.service
    IN \A i \in DOMAIN config[s] :
         Fits(s, i, reply.request) => Priority(s, reply.endpoint) <= Priority(s, i)
=============================================================================
