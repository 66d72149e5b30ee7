---------------------------- MODULE RenderQueue ----------------------------
(***************************************************************************)
(* mockintosh/templating.py: every template is rendered by one thread, the *)
(* RenderingJob, which takes the tasks from a queue.  The event loop (Main) *)
(* and the threads of the asynchronous producers and consumers (Workers)    *)
(* push a task and block until its result arrives.  The named counters are *)
(* shared: the job copies them when it starts a task, the requester writes *)
(* back the ones the template used when it has the result.  SIGHUP's       *)
(* handler runs on the main thread, between any two of its bytecodes.      *)
(***************************************************************************)
EXTENDS Naturals, Sequences, FiniteSets

CONSTANTS
  Main,         \* the thread of Tornado's event loop
  Workers,      \* the threads of producers and consumers
  Names,        \* the counters the templates use
  Preset,       \* those that exist before the first task
  Dummy,        \* the task that kill() pushes
  Free,         \* the value of a mutex no thread holds
  Raises,       \* whether a template may raise what render() does not catch
  Hups,         \* whether SIGHUP may arrive
  MaxRequests   \* bound on the requests of each thread

Requesters == {Main} \cup Workers

ASSUME RenderAssumption ==
  /\ Main \notin Workers
  /\ Dummy \notin Requesters /\ Free \notin Requesters
  /\ IsFiniteSet(Names) /\ Preset \subseteq Names
  /\ Raises \in BOOLEAN /\ Hups \in BOOLEAN
  /\ MaxRequests \in Nat

VARIABLES
  queue,      \* RenderingQueue._in
  mutex,      \* the lock inside queue.Queue
  data,       \* Counters.data; 0 stands for a name that is not in it
  job,        \* where RenderingJob.run is
  task,       \* the task it renders
  snapshot,   \* the counters injected into it so far
  left, size, \* of the iteration over Counters.data
  stop,       \* RenderingJob.stop
  pc,         \* where each requester is
  name,       \* the counter its template uses
  result,     \* the number in its result, 0 until there is one
  hup,        \* the signal's handler: "none", "running", "done"
  requests,   \* requests made by each thread, for the bound
  given,      \* the numbers rendered, in order
  late        \* how many tasks were rendered after stop was set

jobVars == <<job, task, snapshot, left, size>>
callers == <<pc, name, result, requests>>
vars == <<queue, mutex, data, jobVars, stop, callers, hup, given, late>>

Present == {n \in Names : data[n] # 0}

Init ==
  /\ queue = <<>> /\ mutex = Free
  /\ data = [n \in Names |-> IF n \in Preset THEN 1 ELSE 0]
  /\ job = "check" /\ task = Dummy
  /\ snapshot = [n \in Names |-> 0] /\ left = {} /\ size = 0
  /\ stop = FALSE /\ hup = "none"
  /\ pc = [r \in Requesters |-> "idle"]
  /\ name \in [Requesters -> Names]
  /\ result = [r \in Requesters |-> 0]
  /\ requests = [r \in Requesters |-> 0]
  /\ given = <<>> /\ late = 0

(***************************************************************************)
(* TemplateRenderer.render, called by a handler, and what follows it.      *)
(***************************************************************************)
\* While the signal's handler runs, what it interrupted does not go on.
Runs(r) == r = Main => hup # "running"

GoTo(r, label) == pc' = [pc EXCEPT ![r] = label]

\* A handler begins to render a template.  One that SIGHUP interrupted, and those
\* of the same turn of the event loop, may still do so before run() returns.
Request(r) ==
  /\ pc[r] = "idle" /\ Runs(r)
  /\ requests[r] < MaxRequests
  /\ requests' = [requests EXCEPT ![r] = @ + 1]
  /\ \E n \in Names : name' = [name EXCEPT ![r] = n]
  /\ result' = [result EXCEPT ![r] = 0]
  /\ GoTo(r, "put")
  /\ UNCHANGED <<queue, mutex, data, jobVars, stop, hup, given, late>>

\* queue.Queue.put takes the mutex, which is not reentrant...
LockQueue(r) ==
  /\ pc[r] = "put" /\ Runs(r) /\ mutex = Free
  /\ mutex' = r
  /\ GoTo(r, "locked")
  /\ UNCHANGED <<queue, data, jobVars, stop, name, result, requests, hup, given, late>>

PushKeepsMutex(r) ==   \* a faulty variant: the mutex is not released
  /\ pc[r] = "locked" /\ Runs(r)
  /\ queue' = Append(queue, r)
  /\ GoTo(r, "wait")
  /\ UNCHANGED <<mutex, data, jobVars, stop, name, result, requests, hup, given, late>>

\* ... appends the task and releases it.
Push(r) ==
  /\ pc[r] = "locked" /\ Runs(r)
  /\ queue' = Append(queue, r)
  /\ mutex' = Free
  /\ GoTo(r, "wait")
  /\ UNCHANGED <<data, jobVars, stop, name, result, requests, hup, given, late>>

PopulateNothing(r) ==   \* a faulty variant: nothing is written back
  /\ pc[r] = "populate" /\ Runs(r)
  /\ GoTo(r, "idle")
  /\ UNCHANGED <<queue, mutex, data, jobVars, stop, name, result, requests, hup, given,
                 late>>

\* result_queue.get returns; populate_counters writes the counter back.
Populate(r) ==
  /\ pc[r] = "populate" /\ Runs(r)
  /\ data' = [data EXCEPT ![name[r]] = result[r]]
  /\ GoTo(r, "idle")
  /\ UNCHANGED <<queue, mutex, jobVars, stop, name, result, requests, hup, given, late>>

(***************************************************************************)
(* RenderingJob.run and RenderingTask.render.                              *)
(***************************************************************************)
JobNeverChecks ==   \* a faulty variant: stop is not tested
  /\ job = "check"
  /\ job' = "pop"
  /\ UNCHANGED <<queue, mutex, data, task, snapshot, left, size, stop, callers, hup,
                 given, late>>

JobCheck ==
  /\ job = "check"
  /\ job' = IF stop THEN "stopped" ELSE "pop"
  /\ UNCHANGED <<queue, mutex, data, task, snapshot, left, size, stop, callers, hup,
                 given, late>>

JobPeeks ==   \* a faulty variant: the task stays in the queue
  /\ job = "pop" /\ mutex = Free /\ queue # <<>>
  /\ task' = Head(queue)
  /\ job' = IF task' = Dummy THEN "render" ELSE "update"
  /\ UNCHANGED <<queue, mutex, data, snapshot, left, size, stop, callers, hup, given,
                 late>>

\* The queue's get blocks; the dummy task of kill() has no counters.
JobPop ==
  /\ job = "pop" /\ mutex = Free /\ queue # <<>>
  /\ task' = Head(queue)
  /\ queue' = Tail(queue)
  /\ job' = IF task' = Dummy THEN "render" ELSE "update"
  /\ UNCHANGED <<mutex, data, snapshot, left, size, stop, callers, hup, given, late>>

\* update_counters iterates over the dictionary the requesters write to...
JobUpdate ==
  /\ job = "update"
  /\ left' = Present
  /\ size' = Cardinality(Present)
  /\ snapshot' = [n \in Names |-> 0]
  /\ job' = "iterate"
  /\ UNCHANGED <<queue, mutex, data, task, stop, callers, hup, given, late>>

\* ... and a name inserted meanwhile raises RuntimeError: the thread ends.
JobIterate ==
  /\ job = "iterate"
  /\ IF Cardinality(Present) # size
     THEN job' = "dead" /\ UNCHANGED <<snapshot, left>>
     ELSE IF left = {}
     THEN job' = "render" /\ UNCHANGED <<snapshot, left>>
     ELSE \E n \in left :
            /\ snapshot' = [snapshot EXCEPT ![n] = data[n]]
            /\ left' = left \ {n}
            /\ UNCHANGED job
  /\ UNCHANGED <<queue, mutex, data, task, size, stop, callers, hup, given, late>>

\* {{counter name}} adds one to the injected value; the result is put into
\* the requester's own queue, and wakes it.
JobRender ==
  /\ job = "render"
  /\ IF task = Dummy
     THEN UNCHANGED <<pc, result, given>>
     ELSE /\ result' = [result EXCEPT ![task] = snapshot[name[task]] + 1]
          /\ GoTo(task, "populate")
          /\ given' = Append(given, [name |-> name[task], number |-> result'[task]])
  /\ job' = "check"
  /\ late' = IF stop THEN late + 1 ELSE late
  /\ UNCHANGED <<queue, mutex, data, task, snapshot, left, size, stop, name, requests,
                 hup>>

\* An exception of a helper other than those the engines catch.
JobRaise ==
  /\ job = "render" /\ Raises /\ task # Dummy
  /\ job' = "dead"
  /\ UNCHANGED <<queue, mutex, data, task, snapshot, left, size, stop, callers, hup,
                 given, late>>

(***************************************************************************)
(* SIGHUP: http_server.stop(), then RenderingJob.kill().                   *)
(***************************************************************************)
Hup ==
  /\ Hups /\ hup = "none" /\ pc[Main] # "restarted"
  /\ stop' = TRUE
  /\ hup' = "running"
  /\ UNCHANGED <<queue, mutex, data, jobVars, callers, given, late>>

HupForgetsDummy ==   \* a faulty variant: nothing wakes the job
  /\ hup = "running"
  /\ hup' = "done"
  /\ UNCHANGED <<queue, mutex, data, jobVars, stop, callers, given, late>>

\* The dummy task needs the queue's mutex: if the handler interrupted
\* Main between LockQueue and Push, it never gets it.
HupPush ==
  /\ hup = "running" /\ mutex = Free
  /\ queue' = Append(queue, Dummy)
  /\ hup' = "done"
  /\ UNCHANGED <<mutex, data, jobVars, stop, callers, given, late>>

\* http_server.run() returns in main, and run() starts over.
Restart ==
  /\ hup = "done" /\ pc[Main] = "idle"
  /\ GoTo(Main, "restarted")
  /\ UNCHANGED <<queue, mutex, data, jobVars, stop, name, result, requests, hup, given,
                 late>>

Requester(r) == LockQueue(r) \/ Push(r) \/ Populate(r)
Job == JobCheck \/ JobPop \/ JobUpdate \/ JobIterate \/ JobRender \/ JobRaise

Next ==
  \/ \E r \in Requesters : Request(r) \/ Requester(r)
  \/ Job
  \/ Hup \/ HupPush \/ Restart

Spec == Init /\ [][Next]_vars

\* Threads that can run do run, a mutex that is released again and again is
\* got in the end; requests and signals come or do not come.
FairSpec ==
  /\ Spec
  /\ WF_vars(JobCheck \/ JobUpdate \/ JobIterate \/ JobRender) /\ SF_vars(JobPop)
  /\ \A r \in Requesters : SF_vars(LockQueue(r)) /\ WF_vars(Push(r) \/ Populate(r))
  /\ SF_vars(HupPush) /\ WF_vars(Restart)
-----------------------------------------------------------------------------
TypeOK ==
  /\ queue \in Seq(Requesters \cup {Dummy})
  /\ mutex \in Requesters \cup {Free}
  /\ data \in [Names -> Nat]
  /\ job \in {"check", "pop", "update", "iterate", "render", "stopped", "dead"}
  /\ task \in Requesters \cup {Dummy}
  /\ snapshot \in [Names -> Nat] /\ left \subseteq Names /\ size \in Nat
  /\ stop \in BOOLEAN /\ hup \in {"none", "running", "done"}
  /\ pc \in [Requesters -> {"idle", "put", "locked", "wait", "populate", "restarted"}]
  /\ name \in [Requesters -> Names]
  /\ result \in [Requesters -> Nat] /\ requests \in [Requesters -> Nat]
  /\ given \in Seq([name : Names, number : Nat]) /\ late \in Nat

\* A requester waits exactly while its task is in the queue, once, or in the
\* hands of the job: no task is lost, none is rendered twice.
Copies(r) == Cardinality({i \in DOMAIN queue : queue[i] = r})
Working(r) == task = r /\ job \in {"update", "iterate", "render", "dead"}
OneTaskEach ==
  \A r \in Requesters :
    Copies(r) + (IF Working(r) THEN 1 ELSE 0) = IF pc[r] = "wait" THEN 1 ELSE 0

\* After kill() the job renders at most the task it has or is about to get.
AtMostOneAfterKill == late <= 1

\* A counter never runs ahead of the uses of it, however its updates race.
Uses(n) == Cardinality({i \in DOMAIN given : given[i].name = n})
Start(n) == IF n \in Preset THEN 1 ELSE 0
CountersNotAhead ==
  \A n \in Names :
    /\ data[n] <= Start(n) + Uses(n)
    /\ \A i \in DOMAIN given : given[i].name = n => given[i].number <= Start(n) + Uses(n)

\* As long as only the event loop renders, a counter gives consecutive numbers.
CountersConsecutive ==
  (\A w \in Workers : requests[w] = 0) => \A i \in DOMAIN given :
    given[i].number = Start(given[i].name) +
      Cardinality({j \in 1 .. i : given[j].name = given[i].name})

\* The rendering thread ends after kill(), whatever it was doing.
KillEndsJob == hup = "done" ~> job \in {"stopped", "dead"}

\* Every requester gets its result, however requests and counters race, unless
\* the rendering thread was killed or died meanwhile.
EveryTaskRendered ==
  \A r \in Requesters : pc[r] = "put" ~> (pc[r] = "populate" \/ stop \/ job = "dead")
-----------------------------------------------------------------------------
(***************************************************************************)
(* What the documentation says and the code does not do.                   *)
(***************************************************************************)
\* "sending SIGHUP to Mockintosh's process will cause it to re-read
\* configuration file and restart the server"
HupRestarts == hup = "running" ~> pc[Main] = "restarted"
=============================================================================
