----------------------------- MODULE Lifecycle -----------------------------
(***************************************************************************)
(* From one configuration to the next: the start of the program, POST      *)
(* /config of the management API and SIGHUP, with the threads that earlier *)
(* configurations left running.  run() builds a Definition (analyze) and   *)
(* an HttpServer (load), registers the signal and serves; POST /config     *)
(* stops the loops, empties the lists the classes keep, analyses the new   *)
(* configuration and starts its loops, all in the same process; SIGHUP     *)
(* stops everything and has run() called again.  The module's stats and    *)
(* logs and every class's list live as long as the process does.           *)
(*                                                                         *)
(* The event loop is the main thread, and the signal's handler runs on it  *)
(* between two of its steps.  What a message matches and carries is in     *)
(* ConsumerGroup and AsyncProducer: here a thread receives it or produces  *)
(* it, and counts it.                                                      *)
(***************************************************************************)
EXTENDS Integers, Sequences, FiniteSets, SequencesExt

CONSTANTS
  Files,      \* the configurations the file may hold when it is read
  Posted,     \* the configurations that are posted
  Lists,      \* what services_list may be: a set of names, {} for all of them
  MaxPosts, MaxHangups, MaxMessages,   \* bounds on each,
  MaxEvents                            \* and on all of them together

Nothing == ""   \* the topic of an actor that does not consume, or not produce
Consumes(a) == a.consume # Nothing

Async == {"kafka", "redis", "amazonsqs", "amqp", "mqtt", "gpubsub"}
Polled == {"kafka", "redis", "amazonsqs"}   \* their consume() looks at stop

ASSUME LifecycleAssumption ==
  /\ \A c \in Files \cup Posted :
       /\ Len(c) \in Nat /\ DOMAIN c = 1..Len(c)
       /\ \A i \in DOMAIN c :
            /\ c[i].items \in Seq(Range(c[i].items))
            /\ \/ c[i].type = "http"
               \/ c[i].type \in Async /\ \E k \in DOMAIN c[i].items :
                    Consumes(c[i].items[k]) \/ c[i].items[k].produce # Nothing
  /\ MaxPosts \in Nat /\ MaxHangups \in Nat /\ MaxMessages \in Nat
  /\ MaxEvents \in Nat

VARIABLES
  at,         \* the next step of the main thread, in run() or in post()
  new,        \* the definition in the making: configuration, next service, base
              \* of its services' ids, and whether it was posted
  todo,       \* the services that run_loops has still to start
  root,       \* definition.config_root: configuration, generation, base
  data,       \* definition.data
  listed,     \* services_list
  registered, hup,   \* sighup_handler is in place; it has run
  numbered,   \* len(ConfigService.services)
  https,      \* HttpService.services
  asyncs,     \* AsyncService.services
  actors,     \* AsyncActor.actors
  groups,     \* AsyncConsumerGroup.groups
  stopped,    \* the actors and groups whose stop is set
  apps,       \* http_server._apps.apps, without the entries that are None
  stats,      \* stats.services: of each, the hints of its endpoints
  total,      \* stats.request_counter
  logs,       \* logs.services: their names
  threads,    \* the threads of run_loops that have not ended
  count,      \* generations, calls of run_loops, threads, posts, hangups, messages
  since, undone,       \* messages counted since the reset; a late write undid it
  failed, interrupted, restarted,  \* what befell the definition in force
  torn        \* a signal once broke into a post: its leftovers outlive the restart

main == <<at, new, todo, registered, hup>>
definition == <<root, data, listed, apps>>
lists == <<numbered, https, asyncs, actors, groups>>
counters == <<total, since, undone>>
marks == <<failed, interrupted, restarted, torn>>
vars == <<main, definition, lists, stopped, stats, logs, threads, count, counters, marks>>

No == 0   \* no endpoint

\* One more of a bounded kind of event.
May(kind, max) == /\ count[kind] < max
                  /\ count.posts + count.hangups + count.messages < MaxEvents
Now(step) == at' = step /\ UNCHANGED <<registered, hup>>
\* Mutated: the services are counted from 0.
PlanFromZero(config, post) == [config |-> config, k |-> 0, base |-> 0, post |-> post]
Plan(config, post) == [config |-> config, k |-> 1, base |-> 0, post |-> post]

Init ==
  /\ at = "build" /\ new \in {Plan(c, FALSE) : c \in Files} /\ todo = <<>>
  /\ root = [config |-> <<>>, gen |-> 0, base |-> 0] /\ data = <<>>
  /\ listed \in Lists /\ registered = FALSE /\ hup = FALSE
  /\ numbered = 0 /\ https = <<>> /\ asyncs = <<>> /\ actors = {} /\ groups = <<>>
  /\ stopped = {} /\ apps = <<>> /\ stats = <<>> /\ total = 0 /\ logs = <<>>
  /\ threads = {}
  /\ count = [gens |-> 0, rounds |-> 0, threads |-> 0,
              posts |-> 0, hangups |-> 0, messages |-> 0]
  /\ since = 0 /\ undone = FALSE
  /\ failed = FALSE /\ interrupted = FALSE /\ restarted = FALSE /\ torn = FALSE

\* An exception nothing catches, or the signal's default action: the process
\* ends and its daemon threads with it.
Exit == /\ at' = "down" /\ threads' = {} /\ todo' = <<>>
        /\ registered' = FALSE /\ hup' = FALSE

(***************************************************************************)
(* Definition.analyze.  ConfigRootBuilder.build numbers the services; then *)
(* each enters logs and stats and its objects the lists of their classes.  *)
(* An actor's consumer and producer each add an endpoint to the statistics *)
(* and take its position for an id; an HTTP service adds its own later.    *)
(***************************************************************************)
Build ==
  /\ at = "build" /\ Now("analyze")
  /\ new' = [new EXCEPT !.base = numbered]
  /\ numbered' = numbered + Len(new.config)
  /\ data' = IF new.post THEN data ELSE new.config
  /\ count' = [count EXCEPT !.gens = @ + 1]
  /\ UNCHANGED <<todo, root, listed, apps, https, asyncs, actors, groups, stopped, stats,
                 logs, threads, counters, marks>>

Service == new.config[new.k]
Sid == new.base + new.k
ActorId(gen, sid, k) == [of |-> "actor", gen |-> gen, sid |-> sid, k |-> k, round |-> 0]

Mismatch(a) == a.produce = "mismatch"   \* AsyncProducerListQueueMismatch
Produces(a) == a.produce # Nothing /\ ~Mismatch(a)
Raising(items) == {k \in DOMAIN items : Mismatch(items[k])}
\* analyze_http_service raises too: a template or a query is read where it can
\* fail to be, and the service has the n endpoints before it.
Unreadable(items) == {k \in DOMAIN items : items[k] = "unreadable"}
ReadTo(items, n) ==
  /\ n = Len(items) \/ n + 1 \in Unreadable(items)
  /\ \A k \in Unreadable(items) : n < k
Raises ==
  IF Service.type = "http" THEN Unreadable(Service.items) # {} ELSE Raising(Service.items) # {}
\* The actors constructed: all, or up to the one that raises.
Constructed == {k \in DOMAIN Service.items : \A j \in Raising(Service.items) : k <= j}

GetHint(k, a) == <<"GET", a.consume, k>>
PutHint(k, a) == <<"PUT", a.produce, k>>
Hints(k, a) == (IF Consumes(a) THEN <<GetHint(k, a)>> ELSE <<>>)
            \o (IF Produces(a) THEN <<PutHint(k, a)>> ELSE <<>>)
\* What the first k actors add.
Added(items, k) == FlattenSeq([j \in 1..k |-> Hints(j, items[j])])
Loops(a) == ~Consumes(a) /\ Produces(a) /\ a.delay

\* Mutated: the ids are taken before the endpoints are added.
SetActorEarly(items, k, before) ==
  LET n == before + Len(Added(items, k - 1)) IN
  [topic |-> items[k].consume, reads |-> n, writes |-> n, loops |-> Loops(items[k])]

\* set_consumer and set_producer of actor k of a service that had before endpoints.
SetActor(items, k, before) ==
  [topic |-> items[k].consume,
   reads |-> IF Consumes(items[k]) THEN before + Len(Added(items, k - 1)) + 1 ELSE No,
   writes |-> IF Produces(items[k]) THEN before + Len(Added(items, k)) ELSE No,
   loops |-> Loops(items[k])]

AnalyzeHttp ==
  /\ Service.type = "http"
  /\ \E n \in 0..Len(Service.items) :
       /\ ReadTo(Service.items, n)
       /\ https' = Append(https, [sid |-> Sid, name |-> Service.name, port |-> Service.port,
                                  routes |-> SubSeq(Service.items, 1, n)])
  /\ stats' = Append(stats, <<>>)
  /\ UNCHANGED <<asyncs, actors>>

AnalyzeAsync ==
  /\ Service.type # "http"
  /\ LET added == Append(stats, <<>>)
         before == Len(added[Sid])
         items == Service.items
     IN  /\ stats' = [added EXCEPT ![Sid] = @ \o Added(items, Cardinality(Constructed))]
         /\ asyncs' = Append(asyncs, [gen |-> count.gens, sid |-> Sid, type |-> Service.type,
              actors |-> [k \in Constructed |-> SetActor(items, k, before)]])
         /\ actors' = actors \cup {ActorId(count.gens, Sid, k) : k \in Constructed}
  /\ UNCHANGED https

\* A signal in the middle of a post leaves more ids given than stats has entries.
InStats(sid) == sid \in DOMAIN stats

Analyze ==
  /\ at = "analyze" /\ new.k <= Len(new.config)
  /\ logs' = Append(logs, Service.name)
  /\ IF Service.type # "http" /\ Sid > Len(stats) + 1
     THEN Exit /\ UNCHANGED <<new, failed, stats, https, asyncs, actors>>
     ELSE /\ AnalyzeHttp \/ AnalyzeAsync
          /\ IF ~Raises
             THEN /\ Now("analyze") /\ new' = [new EXCEPT !.k = @ + 1]
                  /\ UNCHANGED <<todo, threads, failed>>
             ELSE IF new.post   \* answered 500, nothing is put back
                  THEN Now("serve") /\ failed' = TRUE /\ UNCHANGED <<new, todo, threads>>
                  ELSE Exit /\ UNCHANGED <<new, failed>>
  /\ UNCHANGED <<definition, numbered, groups, stopped, count, counters, interrupted,
                 restarted, torn>>

Analyzed ==
  /\ at = "analyze" /\ new.k > Len(new.config)
  /\ Now(IF new.post THEN "update" ELSE "load")
  /\ root' = [config |-> new.config, gen |-> count.gens, base |-> new.base]
  /\ UNCHANGED <<new, todo, data, listed, apps, lists, stopped, stats, logs, threads, count,
                 counters, marks>>

(***************************************************************************)
(* HttpServer.load: an application for every HTTP service the command line *)
(* lists, each on its port (services with a hostname, which may share one, *)
(* are left out).  merge_alternatives appends the endpoints to the stats.  *)
(***************************************************************************)
LoadGuard(s) == listed = {} \/ s.name \in listed
Loaded == {i \in DOMAIN https : LoadGuard(https[i])}
PortTaken == \E i, j \in Loaded : i < j /\ https[i].port = https[j].port   \* OSError

\* merge_alternatives of several services, one after the other, on statistics s.
MergeAll(s, which) ==
  [sid \in DOMAIN s |-> s[sid] \o FlattenSeq(
     [i \in DOMAIN https |-> IF i \in which /\ https[i].sid = sid
                             THEN https[i].routes ELSE <<>>])]

Load ==
  /\ at = "load"
  /\ IF PortTaken \/ \E i \in Loaded : ~InStats(https[i].sid)
     THEN Exit /\ UNCHANGED <<apps, stats>>
     ELSE /\ apps' = [i \in Loaded |->   \* place: where the configuration has it
               [port |-> https[i].port, sid |-> https[i].sid,
                place |-> https[i].sid - root.base, routes |-> https[i].routes]]
          /\ stats' = MergeAll(stats, Loaded)
          /\ Now("register") /\ UNCHANGED <<todo, threads>>
  /\ UNCHANGED <<new, root, data, listed, lists, stopped, logs, count, counters, marks>>

Register ==
  /\ at = "register" /\ at' = "run" /\ registered' = TRUE
  /\ UNCHANGED <<new, todo, hup, definition, lists, stopped, stats, logs, threads, count,
                 counters, marks>>

(***************************************************************************)
(* run_loops: for each service a produce loop per actor that has one and a *)
(* group per topic, then a thread for EVERY group listed so far.           *)
(***************************************************************************)
RunLoops ==
  /\ at = "run" /\ Now("start") /\ todo' = asyncs
  /\ count' = [count EXCEPT !.rounds = @ + 1]
  /\ UNCHANGED <<new, definition, lists, stopped, stats, logs, threads, counters, marks>>

\* consume() and consume_message, as far as the thread's own place goes.
Thread(n, id, type, members) ==
  [n |-> n, id |-> id, type |-> type, members |-> members,
   pc |-> "wait", k |-> No, endpoint |-> No, held |-> 0, stale |-> FALSE]

LooksAtStop(t) == t.id.of = "actor" \/ t.type \in Polled
Survives(t) == t.id.of = "group" /\ t.type = "gpubsub"
\* Mutated: groups do not look at stop between messages.
MayLeaveActor(t) == t.id.of = "actor" /\ t.id \in stopped
MayLeave(t) == LooksAtStop(t) /\ t.id \in stopped

Reading(s) == {k \in DOMAIN s.actors : s.actors[k].topic # Nothing}
SameTopic(s, k) == {j \in Reading(s) : s.actors[j].topic = s.actors[k].topic}
GroupsOf(s) ==
  LET firsts == {k \in Reading(s) : k = Min(SameTopic(s, k))}
  IN  [i \in 1..Cardinality(firsts) |->
         LET k == SetToSortSeq(firsts, <)[i]
         IN  [id |-> [of |-> "group", gen |-> s.gen, sid |-> s.sid, k |-> k,
                      round |-> count.rounds],
              type |-> s.type,
              members |-> {<<j, s.actors[j].reads>> : j \in SameTopic(s, k)}]]

StartService ==
  /\ at = "start" /\ todo # <<>>
  /\ LET s == Head(todo)
         all == groups \o GroupsOf(s)
         n == count.threads
         started == {Thread(n + k, ActorId(s.gen, s.sid, k), s.type, {<<k, s.actors[k].writes>>}) :
                      k \in {j \in DOMAIN s.actors : s.actors[j].loops}}
              \cup {Thread(n + Len(s.actors) + g, all[g].id, all[g].type, all[g].members) :
                      g \in DOMAIN all}
     IN  \* a thread that finds stop set at its first look is gone at once
         /\ threads' = threads \cup {t \in started : ~MayLeave(t)}
         /\ groups' = all
         /\ count' = [count EXCEPT !.threads = @ + Len(s.actors) + Len(all)]
  /\ todo' = Tail(todo)
  /\ UNCHANGED <<at, new, registered, hup, definition, numbered, https, asyncs, actors,
                 stopped, stats, logs, counters, marks>>

Started ==
  /\ at = "start" /\ todo = <<>> /\ Now("serve")
  /\ UNCHANGED <<new, todo, definition, lists, stopped, stats, logs, threads, count,
                 counters, marks>>

(***************************************************************************)
(* POST /config.  Restricted fields are compared for HTTP services alone,  *)
(* with the service at the same place of the configuration in force.  Each *)
(* refusal, and the IndexError when there is none at that place, leaves    *)
(* everything as it was.                                                   *)
(***************************************************************************)
Allowed(config) ==
  \A i \in DOMAIN config : config[i].type = "http" =>
    /\ i \in DOMAIN data /\ data[i].type = "http" /\ data[i].port = config[i].port

\* Mutated: the groups are not told; nobody is told.
StopActors ==
  /\ stopped' = stopped \cup actors
  /\ asyncs' = <<>> /\ actors' = {} /\ groups' = <<>>
StopNobody ==
  /\ stopped' = stopped
  /\ asyncs' = <<>> /\ actors' = {} /\ groups' = <<>>

StopLoops ==
  /\ stopped' = stopped \cup actors \cup {groups[g].id : g \in DOMAIN groups}
  /\ asyncs' = <<>> /\ actors' = {} /\ groups' = <<>>
ClearLists == https' = <<>> /\ numbered' = 0

Post(config) ==
  /\ at = "serve" /\ ~hup /\ May("posts", MaxPosts) /\ Allowed(config)
  /\ count' = [count EXCEPT !.posts = @ + 1]
  /\ StopLoops /\ ClearLists
  /\ stats' = <<>>
  /\ new' = Plan(config, TRUE) /\ Now("build")
  /\ failed' = FALSE /\ interrupted' = FALSE /\ restarted' = FALSE
  /\ UNCHANGED <<todo, definition, logs, threads, counters, torn>>

\* Mutated: the applications keep what they had.
OldRoutes(i) == apps[i].routes
NewRoutes(i) == https[i].routes   \* path_methods, by internal_http_service_id

\* update_service of every HTTP service listed, up to one that has no
\* application: the AttributeError ends the request, its own entries written.
Update ==
  /\ at = "update"
  /\ LET bad == DOMAIN https \ DOMAIN apps
         reached == {i \in DOMAIN https : \A j \in bad : i <= j}
         cleared == [sid \in DOMAIN stats |->
                       IF \E i \in reached : https[i].sid = sid THEN <<>> ELSE stats[sid]]
     IN  /\ stats' = MergeAll(cleared, reached)
         /\ logs' = [sid \in DOMAIN logs |->
                       IF \E i \in reached : https[i].sid = sid
                       THEN (CHOOSE h \in Range(https) : h.sid = sid).name ELSE logs[sid]]
         /\ apps' = [i \in DOMAIN apps |->
                       IF i \in reached THEN [apps[i] EXCEPT !.routes = NewRoutes(i)] ELSE apps[i]]
         /\ failed' = (bad # {})
         /\ Now(IF bad = {} THEN "reset" ELSE "serve")
  /\ UNCHANGED <<new, todo, root, data, listed, lists, stopped, threads, count, counters,
                 interrupted, restarted, torn>>

\* Mutated: the services are reset, the total is not.
ResetServices == total' = total
ResetTotal == total' = 0

\* stats.reset(); a thread inside += writes the old total back plus one.
Reset ==
  /\ at = "reset" /\ Now("run")
  /\ ResetTotal /\ since' = 0 /\ undone' = FALSE
  /\ threads' = {[t EXCEPT !.stale = (t.pc = "held")] : t \in threads}
  /\ data' = new.config
  /\ UNCHANGED <<new, todo, root, listed, apps, lists, stopped, stats, logs, count, marks>>

(***************************************************************************)
(* SIGHUP.  Before sighup_handler is registered, and once it has run, the  *)
(* signal ends the process; so does the handler itself while there is no   *)
(* event loop to stop.  Otherwise the main thread finishes what it was     *)
(* doing on the emptied lists before run() returns and is called again.    *)
(***************************************************************************)
Hangup ==
  /\ at # "down" /\ May("hangups", MaxHangups)
  /\ count' = [count EXCEPT !.hangups = @ + 1]
  /\ IF ~registered \/ (at \in {"run", "start"} /\ ~new.post)
     THEN Exit /\ UNCHANGED <<lists, stopped, interrupted, torn>>
     ELSE /\ registered' = FALSE /\ hup' = TRUE
          /\ StopLoops /\ ClearLists
          /\ interrupted' = (at # "serve") /\ torn' = (torn \/ at # "serve")
          /\ UNCHANGED <<at, todo, threads>>
  /\ UNCHANGED <<new, definition, stats, logs, counters, failed, restarted>>

Restart ==
  /\ at = "serve" /\ hup
  /\ at' = "build" /\ hup' = FALSE
  /\ new' \in {Plan(c, FALSE) : c \in Files}
  /\ failed' = FALSE /\ restarted' = TRUE
  /\ UNCHANGED <<todo, registered, definition, lists, stopped, stats, logs, threads, count,
                 counters, interrupted, torn>>

(***************************************************************************)
(* The threads.  A produce loop and the consume() of the polled brokers    *)
(* look at stop before each message; the callbacks of the others never do. *)
(* A message is counted at its endpoint, its service and in total, then    *)
(* its status, then its time at the position of the ACTOR.  An IndexError  *)
(* ends the thread, unless PubSub's pool called it.                        *)
(***************************************************************************)
Becomes(t, u) == threads' = (threads \ {t}) \cup {u}
\* Back at the top of its loop, where it leaves or waits for the next message.
Resumes(t) ==
  IF MayLeave(t) THEN threads' = threads \ {t}
  ELSE Becomes(t, [t EXCEPT !.pc = "wait", !.k = No, !.endpoint = No, !.held = 0])
Fails(t) == IF Survives(t) THEN Resumes(t)
            ELSE Becomes(t, [t EXCEPT !.pc = "died", !.stale = FALSE])
HasEndpoint(sid, e) == InStats(sid) /\ e \in DOMAIN stats[sid]

\* Nothing came (or, of a produce loop, one message more than MaxMessages lets
\* this model count), and the loop looks at stop.
Idle(t) ==
  /\ t.pc = "wait" /\ MayLeave(t)
  /\ t.id.of = "group" \/ ~May("messages", MaxMessages)
  /\ threads' = threads \ {t}
  /\ UNCHANGED <<count, counters>>

Message(t) ==
  /\ t.pc = "wait" /\ May("messages", MaxMessages)
  /\ count' = [count EXCEPT !.messages = @ + 1]
  /\ \E m \in t.members : Becomes(t, [t EXCEPT !.pc = "busy", !.k = m[1], !.endpoint = m[2]])
  /\ UNCHANGED counters

\* increase_request_counter: the read and the write of the total's +=.
ReadTotal(t) ==
  /\ t.pc = "busy"
  /\ IF HasEndpoint(t.id.sid, t.endpoint)
     THEN Becomes(t, [t EXCEPT !.pc = "held", !.held = total]) ELSE Fails(t)
  /\ UNCHANGED <<count, counters>>

WriteTotal(t) ==
  /\ t.pc = "held"
  /\ total' = t.held + 1 /\ since' = since + 1
  /\ undone' = (undone \/ t.stale)
  /\ Becomes(t, [t EXCEPT !.pc = "counted", !.stale = FALSE])
  /\ UNCHANGED count

\* add_status_code, add_request_elapsed_time, the record and the answer.
Finish(t) ==
  /\ t.pc = "counted"
  /\ IF HasEndpoint(t.id.sid, t.endpoint) /\ HasEndpoint(t.id.sid, t.k)
     THEN Resumes(t) ELSE Fails(t)
  /\ UNCHANGED <<count, counters>>

ThreadStep(t) ==
  /\ Idle(t) \/ Message(t) \/ ReadTotal(t) \/ WriteTotal(t) \/ Finish(t)
  /\ UNCHANGED <<main, definition, lists, stopped, stats, logs, marks>>

Boot == Build \/ Analyze \/ Analyzed \/ Load \/ Register
Looping == RunLoops \/ StartService \/ Started
Posting == (\E c \in Posted : Post(c)) \/ Update \/ Reset
Signals == Hangup \/ Restart
Next == Boot \/ Looping \/ Posting \/ Signals \/ \E t \in threads : ThreadStep(t)

\* A thread that was told to stop is scheduled, and its poll returns.
StoppedSteps == \E t \in threads : LooksAtStop(t) /\ t.id \in stopped /\ ThreadStep(t)
Spec == Init /\ [][Next]_vars /\ WF_vars(StoppedSteps)

-----------------------------------------------------------------------------
(***************************************************************************)
(* Properties.                                                             *)
(***************************************************************************)
Settled == at = "serve" /\ ~hup   \* the program serves, nothing is under way
Looking == {t \in threads : t.pc # "died" /\ LooksAtStop(t)}

\* Type invariant.
TypeOK ==
  /\ at \in {"build", "analyze", "load", "register", "run", "start", "serve",
            "update", "reset", "down"}
  /\ new.post \in BOOLEAN /\ new.base \in Nat /\ new.k \in 1..(Len(new.config) + 1)
  /\ data \in Files \cup Posted \cup {<<>>}
  /\ root.gen \in 0..count.gens /\ numbered \in Nat
  /\ {registered, hup, undone, failed, interrupted, restarted, torn} \subseteq BOOLEAN
  /\ \A id \in stopped \cup actors \cup {t.id : t \in threads} : id.gen \in 1..count.gens
  /\ DOMAIN apps \subseteq Nat
  /\ total \in Nat /\ since \in Nat
  /\ \A t \in threads : /\ t.pc \in {"wait", "busy", "held", "counted", "died"}
                        /\ t.n \in 1..count.threads /\ t.held \in Nat

\* No loop of an earlier configuration goes on unasked: whenever the program
\* serves, every thread that looks at stop and is not of the configuration in
\* force has been told to stop, however many posts failed on the way (unless a
\* SIGHUP broke into a post: what that post had still to build is started).
OldStopped ==
  Settled /\ ~interrupted =>
    \A t \in Looking : t.id.gen # root.gen => t.id \in stopped

\* Every consumer, producer and route counts at the endpoint that has its own
\* hint, and every HTTP service logs under its own name: the ids handed out
\* while services were added, endpoints appended and update_service emptied
\* some of the lists again still point where they should.
SamePlaces == \A i \in DOMAIN apps :
  i \in DOMAIN https /\ https[i].sid - root.base = apps[i].place
HintAt(sid, e) == IF HasEndpoint(sid, e) THEN stats[sid][e] ELSE <<>>
Whole == Settled /\ ~failed /\ ~interrupted /\ ~restarted
CountsAtHome ==
  Whole =>
    /\ \A i \in DOMAIN root.config : root.config[i].type # "http" =>
         \E s \in Range(asyncs) :
           /\ s.gen = root.gen /\ s.sid = i
           /\ \A k \in DOMAIN s.actors : LET a == root.config[i].items[k] IN
                /\ Consumes(a) => HintAt(i, s.actors[k].reads) = GetHint(k, a)
                /\ Produces(a) => HintAt(i, s.actors[k].writes) = PutHint(k, a)
    /\ SamePlaces => \A i \in DOMAIN apps : apps[i].sid = apps[i].place =>
         /\ stats[apps[i].sid] = apps[i].routes
         /\ logs[apps[i].sid] = root.config[apps[i].sid].name

\* While HTTP services keep their places, each application answers with the
\* endpoints of the service that has its port in the configuration in force,
\* through posts that were refused or failed half-way and through restarts.
AppsServe ==
  Settled /\ ~failed /\ ~torn /\ SamePlaces =>
    \A i \in DOMAIN apps : LET s == root.config[apps[i].place] IN
      apps[i].port = s.port /\ apps[i].routes = s.items

\* While threads count, posts empty and refill the statistics they count in:
\* a thread that was not told to stop is never ended by an IndexError for it.
\* One that is counts its time at the position of its actor among the actors,
\* where the service has fewer endpoints.
CurrentSurvive ==
  [][\A t \in threads : \A u \in threads' :
       u.n = t.n /\ u.pc = "died" /\ t.pc # "died" =>
         t.id \in stopped \/ (InStats(t.id.sid) /\ t.k > Len(stats[t.id.sid]))]_vars

\* The total of the statistics loses messages two threads count at once, but
\* never has more than were counted since the reset, but for a += the reset
\* fell into.
TotalNotAbove == ~undone => total <= since

\* Threads that were told to stop and look at stop do end, over and over: no
\* configuration leaves one behind.
StoppedEnd == []<>(\A t \in Looking : t.id \notin stopped)
=============================================================================
