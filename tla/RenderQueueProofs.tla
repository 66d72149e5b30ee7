------------------------- MODULE RenderQueueProofs -------------------------
(***************************************************************************)
(* What holds of RenderQueue for every number of threads that render,      *)
(* every set of counters and any number of requests.                       *)
(***************************************************************************)
EXTENDS RenderQueue, FiniteSetTheorems, TLAPS

(***************************************************************************)
(* Type correctness.                                                       *)
(***************************************************************************)
LEMMA PresentFinite ==
  /\ IsFiniteSet(Present) /\ Cardinality(Present) \in Nat
  /\ Present \subseteq Names
  BY FS_Subset, FS_CardinalityType, RenderAssumption DEF RenderAssumption, Present

\* What the operators on the queue return.
LEMMA QueueFacts ==
  ASSUME NEW T, NEW s \in Seq(T)
  PROVE  /\ \A e \in T : /\ Append(s, e) \in Seq(T) /\ Len(Append(s, e)) = Len(s) + 1
                         /\ Append(s, e)[Len(s) + 1] = e
                         /\ \A i \in 1 .. Len(s) : Append(s, e)[i] = s[i]
         /\ s # <<>> => /\ Head(s) \in T /\ Tail(s) \in Seq(T) /\ Head(s) = s[1]
                        /\ Len(s) \in Nat \ {0} /\ Len(Tail(s)) = Len(s) - 1
                        /\ \A i \in 1 .. Len(s) - 1 : Tail(s)[i] = s[i + 1]
  OBVIOUS

LEMMA TypeInit == Init => TypeOK
<1>. SUFFICES ASSUME Init PROVE TypeOK
  OBVIOUS
<1>1. queue \in Seq(Requesters \cup {Dummy}) /\ given \in Seq([name : Names, number : Nat])
  BY DEF Init
<1>2. /\ data \in [Names -> Nat] /\ snapshot \in [Names -> Nat]
      /\ left \subseteq Names /\ size \in Nat
  BY DEF Init
<1>3. /\ pc \in [Requesters -> {"idle", "put", "locked", "wait", "populate", "restarted"}]
      /\ name \in [Requesters -> Names]
      /\ result \in [Requesters -> Nat] /\ requests \in [Requesters -> Nat]
  BY DEF Init
<1>. QED
  BY <1>1, <1>2, <1>3 DEF Init, TypeOK

LEMMA RequesterTypes ==
  ASSUME TypeOK, NEW r \in Requesters, Request(r) \/ Requester(r)
  PROVE  TypeOK'
<1>1. CASE Request(r)
  <2>1. PICK n \in Names : name' = [name EXCEPT ![r] = n]
    BY <1>1 DEF Request
  <2>2. name \in [Requesters -> Names] /\ requests \in [Requesters -> Nat]
    BY DEF TypeOK
  <2>3. requests' \in [Requesters -> Nat]
    <3>1. requests[r] + 1 \in Nat
      BY <2>2
    <3>2. requests' = [requests EXCEPT ![r] = @ + 1]
      BY <1>1 DEF Request
    <3>. QED
      BY <2>2, <3>1, <3>2
  <2>4. result' \in [Requesters -> Nat]
    BY <1>1 DEF TypeOK, Request
  <2>5. name' \in [Requesters -> Names]
    BY <2>1, <2>2
  <2>6. pc' \in [Requesters -> {"idle", "put", "locked", "wait", "populate", "restarted"}]
    BY <1>1 DEF TypeOK, Request, GoTo
  <2>. QED
    BY <1>1, <2>3, <2>4, <2>5, <2>6 DEF TypeOK, Request, jobVars
<1>2. CASE LockQueue(r)
  BY <1>2 DEF TypeOK, LockQueue, GoTo, jobVars
<1>3. CASE Push(r)
  <2>1. queue' \in Seq(Requesters \cup {Dummy})
    BY <1>3, QueueFacts DEF TypeOK, Push
  <2>. QED
    BY <1>3, <2>1 DEF TypeOK, Push, GoTo, jobVars
<1>4. CASE Populate(r)
  BY <1>4 DEF TypeOK, Populate, GoTo, jobVars
<1>. QED
  BY <1>1, <1>2, <1>3, <1>4 DEF Requester

LEMMA JobTypes ==
  ASSUME TypeOK, Job
  PROVE  TypeOK'
<1>1. CASE JobCheck
  BY <1>1 DEF TypeOK, JobCheck, callers
<1>2. CASE JobPop
  <2>1. task' \in Requesters \cup {Dummy} /\ queue' \in Seq(Requesters \cup {Dummy})
    BY <1>2, QueueFacts DEF TypeOK, JobPop
  <2>. QED
    BY <1>2, <2>1 DEF TypeOK, JobPop, callers
<1>3. CASE JobUpdate
  BY <1>3, PresentFinite DEF TypeOK, JobUpdate, callers
<1>4. CASE JobIterate
  BY <1>4 DEF TypeOK, JobIterate, callers
<1>5. CASE JobRender
  <2>1. CASE task = Dummy
    BY <1>5, <2>1 DEF TypeOK, JobRender
  <2>2. CASE task # Dummy
    <3>1. task \in Requesters /\ name[task] \in Names /\ snapshot[name[task]] + 1 \in Nat
      BY <2>2 DEF TypeOK
    <3>2. result'[task] = snapshot[name[task]] + 1
      BY <1>5, <2>2, <3>1 DEF TypeOK, JobRender
    <3>3. given' \in Seq([name : Names, number : Nat])
      <4>. DEFINE e == [name |-> name[task], number |-> result'[task]]
      <4>1. given' = Append(given, e)
        BY <1>5, <2>2 DEF JobRender
      <4>2. e \in [name : Names, number : Nat]
        BY <3>1, <3>2
      <4>3. given \in Seq([name : Names, number : Nat])
        BY DEF TypeOK
      <4>. HIDE DEF e
      <4>. QED
        BY <4>1, <4>2, <4>3
    <3>4. result' \in [Requesters -> Nat]
      BY <1>5, <2>2, <3>1 DEF TypeOK, JobRender
    <3>5. pc' \in [Requesters -> {"idle", "put", "locked", "wait", "populate", "restarted"}]
      BY <1>5, <2>2, <3>1 DEF TypeOK, JobRender, GoTo
    <3>6. job' = "check" /\ late' \in Nat
      BY <1>5 DEF TypeOK, JobRender
    <3>7. UNCHANGED <<queue, mutex, data, task, snapshot, left, size, stop, name, requests, hup>>
      BY <1>5 DEF JobRender
    <3>. QED
      BY <3>3, <3>4, <3>5, <3>6, <3>7 DEF TypeOK
  <2>. QED
    BY <2>1, <2>2
<1>6. CASE JobRaise
  BY <1>6 DEF TypeOK, JobRaise, callers
<1>. QED
  BY <1>1, <1>2, <1>3, <1>4, <1>5, <1>6 DEF Job

LEMMA SignalTypes ==
  ASSUME TypeOK, Hup \/ HupPush \/ Restart
  PROVE  TypeOK'
<1>1. CASE Hup
  BY <1>1 DEF TypeOK, Hup, jobVars, callers
<1>2. CASE HupPush
  <2>1. queue' \in Seq(Requesters \cup {Dummy})
    BY <1>2, QueueFacts DEF TypeOK, HupPush
  <2>. QED
    BY <1>2, <2>1 DEF TypeOK, HupPush, jobVars, callers
<1>3. CASE Restart
  BY <1>3 DEF TypeOK, Restart, GoTo, jobVars, Requesters
<1>. QED
  BY <1>1, <1>2, <1>3

LEMMA TypeStep == TypeOK /\ [Next]_vars => TypeOK'
<1>. SUFFICES ASSUME TypeOK, [Next]_vars PROVE TypeOK'
  OBVIOUS
<1>1. CASE UNCHANGED vars
  BY <1>1 DEF TypeOK, vars, jobVars, callers
<1>2. CASE Next
  BY <1>2, RequesterTypes, JobTypes, SignalTypes DEF Next
<1>. QED
  BY <1>1, <1>2

\* The state of the queue, the rendering thread, the counters and the threads
\* that wait keeps its types.
THEOREM TypeCorrect == Spec => []TypeOK
  BY TypeInit, TypeStep, PTL DEF Spec
-----------------------------------------------------------------------------
(***************************************************************************)
(* After kill() the job is on its last task.                               *)
(***************************************************************************)
LateInv ==
  /\ late \in Nat /\ late <= 1
  /\ late # 0 => stop /\ job \in {"check", "stopped"}

LEMMA LateStep == LateInv /\ [Next]_vars => LateInv'
<1>. SUFFICES ASSUME LateInv, [Next]_vars PROVE LateInv'
  OBVIOUS
<1>1. ASSUME NEW r \in Requesters, Request(r) \/ Requester(r) PROVE LateInv'
  BY <1>1 DEF LateInv, Request, Requester, LockQueue, Push, Populate, jobVars
<1>2. CASE JobCheck
  BY <1>2 DEF LateInv, JobCheck
<1>3. CASE JobPop \/ JobUpdate \/ JobIterate \/ JobRaise
  BY <1>3 DEF LateInv, JobPop, JobUpdate, JobIterate, JobRaise
<1>4. CASE JobRender
  BY <1>4 DEF LateInv, JobRender
<1>5. CASE Hup \/ HupPush \/ Restart
  BY <1>5 DEF LateInv, Hup, HupPush, Restart, jobVars
<1>6. CASE UNCHANGED vars
  BY <1>6 DEF LateInv, vars, jobVars
<1>. QED
  BY <1>1, <1>2, <1>3, <1>4, <1>5, <1>6 DEF Next, Job

\* After kill() the rendering thread renders at most one more task, whichever
\* line it was at when the signal came.
THEOREM KillKept == Spec => []AtMostOneAfterKill
<1>1. Init => LateInv
  BY DEF Init, LateInv
<1>2. LateInv => AtMostOneAfterKill
  BY DEF LateInv, AtMostOneAfterKill
<1>. QED
  BY <1>1, <1>2, LateStep, PTL DEF Spec
-----------------------------------------------------------------------------
(***************************************************************************)
(* A waiting requester has one task, in the queue or with the job.         *)
(***************************************************************************)
Queued(r) == \E i \in DOMAIN queue : queue[i] = r
TaskInv ==
  /\ \A i, j \in DOMAIN queue : queue[i] = queue[j] /\ queue[i] # Dummy => i = j
  /\ \A r \in Requesters : pc[r] = "wait" <=> (Queued(r) \/ Working(r))
  /\ \A r \in Requesters : ~(Queued(r) /\ Working(r))
  /\ job \in {"update", "iterate"} => task # Dummy

\* A task is queued by whoever does not wait; the queue stays as it was.
LEMMA Pushed ==
  ASSUME TypeOK, NEW e \in Requesters \cup {Dummy}, queue' = Append(queue, e)
  PROVE  /\ DOMAIN queue' = DOMAIN queue \cup {Len(queue) + 1}
         /\ Len(queue) + 1 \notin DOMAIN queue
         /\ queue'[Len(queue) + 1] = e
         /\ \A i \in DOMAIN queue : queue'[i] = queue[i]
         /\ \A r \in Requesters : Queued(r)' <=> (Queued(r) \/ r = e)
<1>1. /\ DOMAIN queue' = DOMAIN queue \cup {Len(queue) + 1}
      /\ Len(queue) + 1 \notin DOMAIN queue
      /\ queue'[Len(queue) + 1] = e
      /\ \A i \in DOMAIN queue : queue'[i] = queue[i]
  <2>1. queue \in Seq(Requesters \cup {Dummy})
    BY DEF TypeOK
  <2>2. /\ Len(queue') = Len(queue) + 1 /\ DOMAIN queue' = 1..Len(queue')
        /\ DOMAIN queue = 1..Len(queue) /\ Len(queue) \in Nat
    BY <2>1
  <2>3. /\ queue'[Len(queue) + 1] = e
        /\ \A i \in 1..Len(queue) : queue'[i] = queue[i]
    BY <2>1
  <2> QED BY <2>2, <2>3
<1>2. \A r \in Requesters : Queued(r)' <=> (Queued(r) \/ r = e)
  BY <1>1 DEF Queued
<1>. QED
  BY <1>1, <1>2

LEMMA Popped ==
  ASSUME TypeOK, TaskInv, queue # <<>>, queue' = Tail(queue)
  PROVE  /\ Head(queue) \in Requesters \cup {Dummy}
         /\ \A i, j \in DOMAIN queue' : queue'[i] = queue'[j] /\ queue'[i] # Dummy => i = j
         /\ \A r \in Requesters : Queued(r) <=> (Queued(r)' \/ r = Head(queue))
         /\ \A r \in Requesters : r = Head(queue) => ~Queued(r)'
<1>1. /\ Head(queue) = queue[1] /\ 1 \in DOMAIN queue
      /\ Head(queue) \in Requesters \cup {Dummy}
      /\ \A i \in DOMAIN queue' : /\ i + 1 \in DOMAIN queue /\ queue'[i] = queue[i + 1]
                                  /\ i \in Nat \ {0}
      /\ \A i \in DOMAIN queue : i = 1 \/ (i - 1 \in DOMAIN queue' /\ (i - 1) + 1 = i)
  <2>1. queue \in Seq(Requesters \cup {Dummy})
    BY DEF TypeOK
  <2>2. /\ Len(queue) \in Nat \ {0} /\ DOMAIN queue = 1..Len(queue)
        /\ Len(queue') = Len(queue) - 1 /\ DOMAIN queue' = 1..(Len(queue) - 1)
    BY <2>1
  <2>3. Head(queue) = queue[1] /\ queue[1] \in Requesters \cup {Dummy}
    BY <2>1
  <2>4. \A i \in 1..(Len(queue) - 1) : queue'[i] = queue[i + 1]
    BY <2>1, <2>2
  <2> QED BY <2>2, <2>3, <2>4
<1>2. \A i, j \in DOMAIN queue' : queue'[i] = queue'[j] /\ queue'[i] # Dummy => i = j
  BY <1>1 DEF TaskInv
<1>3. ASSUME NEW r \in Requesters PROVE Queued(r) <=> (Queued(r)' \/ r = Head(queue))
  <2>1. ASSUME Queued(r) PROVE Queued(r)' \/ r = Head(queue)
    <3>1. PICK i \in DOMAIN queue : queue[i] = r
      BY <2>1 DEF Queued
    <3>2. CASE i = 1
      BY <1>1, <3>1, <3>2
    <3>3. CASE i # 1
      <4>1. i - 1 \in DOMAIN queue' /\ queue'[i - 1] = queue[i]
        BY <1>1, <3>3
      <4>. QED
        BY <3>1, <4>1 DEF Queued
    <3>. QED
      BY <3>2, <3>3
  <2>2. ASSUME Queued(r)' \/ r = Head(queue) PROVE Queued(r)
    BY <1>1, <2>2 DEF Queued
  <2>. QED
    BY <2>1, <2>2
<1>4. ASSUME NEW r \in Requesters, r = Head(queue) PROVE ~Queued(r)'
  <2>1. SUFFICES ASSUME NEW i \in DOMAIN queue', queue'[i] = r PROVE FALSE
    BY DEF Queued
  <2>2. r # Dummy
    BY RenderAssumption DEF RenderAssumption
  <2>3. i + 1 \in DOMAIN queue /\ queue[i + 1] = queue[1] /\ i + 1 # 1
    BY <1>1, <1>4, <2>1
  <2>. QED
    BY <1>1, <1>4, <2>2, <2>3 DEF TaskInv
<1>. QED
  BY <1>1, <1>2, <1>3, <1>4

\* Steps that leave the queue and the job's task alone.
LEMMA TaskFrame ==
  ASSUME TypeOK, TaskInv, UNCHANGED <<queue, task, job>>,
         \A r \in Requesters : pc'[r] = "wait" <=> pc[r] = "wait"
  PROVE  TaskInv'
  BY DEF TaskInv, Queued, Working

LEMMA TaskRequester ==
  ASSUME TypeOK, TaskInv, NEW r \in Requesters, Request(r) \/ Requester(r)
  PROVE  TaskInv'
<1>1. CASE Request(r) \/ LockQueue(r) \/ Populate(r)
  <2>1. UNCHANGED <<queue, task, job>>
    BY <1>1 DEF Request, LockQueue, Populate, jobVars
  <2>2. \A q \in Requesters : pc'[q] = "wait" <=> pc[q] = "wait"
    BY <1>1 DEF TypeOK, Request, LockQueue, Populate, GoTo
  <2>. QED
    BY <2>1, <2>2, TaskFrame
<1>2. CASE Push(r)
  <2>1. /\ queue' = Append(queue, r) /\ UNCHANGED <<task, job>> /\ pc[r] = "locked"
        /\ \A q \in Requesters : pc'[q] = IF q = r THEN "wait" ELSE pc[q]
    BY <1>2 DEF TypeOK, Push, GoTo, jobVars
  <2>2. ~Queued(r) /\ ~Working(r)
    BY <2>1 DEF TaskInv
  <2>3. \A i, j \in DOMAIN queue' : queue'[i] = queue'[j] /\ queue'[i] # Dummy => i = j
    BY <2>1, <2>2, Pushed DEF TaskInv, Queued
  <2>4. \A q \in Requesters : Working(q)' = Working(q)
    BY <2>1 DEF Working
  <2>5. \A q \in Requesters : Queued(q)' <=> (Queued(q) \/ q = r)
    BY <2>1, Pushed
  <2>6. \A q \in Requesters : pc'[q] = "wait" <=> (Queued(q)' \/ Working(q)')
    BY <2>1, <2>4, <2>5 DEF TaskInv
  <2>7. \A q \in Requesters : ~(Queued(q)' /\ Working(q)')
    BY <2>2, <2>4, <2>5 DEF TaskInv
  <2>. QED
    BY <2>1, <2>3, <2>6, <2>7 DEF TaskInv
<1>. QED
  BY <1>1, <1>2 DEF Requester

LEMMA TaskJob ==
  ASSUME TypeOK, TaskInv, Job
  PROVE  TaskInv'
<1>1. CASE JobCheck \/ JobUpdate \/ JobIterate \/ JobRaise
  <2>1. UNCHANGED <<queue, task, pc>>
    BY <1>1 DEF JobCheck, JobUpdate, JobIterate, JobRaise, callers
  <2>2. \A r \in Requesters : Working(r)' <=> Working(r)
    BY <1>1 DEF JobCheck, JobUpdate, JobIterate, JobRaise, Working
  <2>3. job' \in {"update", "iterate"} => task # Dummy
    BY <1>1 DEF JobCheck, JobUpdate, JobIterate, JobRaise, TaskInv
  <2>. QED
    BY <2>1, <2>2, <2>3 DEF TaskInv, Queued
<1>2. CASE JobPop
  <2>1. /\ queue # <<>> /\ queue' = Tail(queue) /\ task' = Head(queue) /\ pc' = pc
        /\ job = "pop" /\ job' = IF task' = Dummy THEN "render" ELSE "update"
    BY <1>2 DEF JobPop, callers
  <2>2. \A r \in Requesters : ~Working(r) /\ (Working(r)' <=> r = Head(queue))
    BY <2>1, RenderAssumption DEF Working, RenderAssumption
  <2>3. /\ \A i, j \in DOMAIN queue' : queue'[i] = queue'[j] /\ queue'[i] # Dummy => i = j
        /\ \A r \in Requesters : Queued(r) <=> (Queued(r)' \/ r = Head(queue))
        /\ \A r \in Requesters : r = Head(queue) => ~Queued(r)'
    BY <2>1, Popped
  <2>4. \A r \in Requesters : pc'[r] = "wait" <=> (Queued(r)' \/ Working(r)')
    BY <2>1, <2>2, <2>3 DEF TaskInv
  <2>5. \A r \in Requesters : ~(Queued(r)' /\ Working(r)')
    BY <2>2, <2>3
  <2>. QED
    BY <2>1, <2>3, <2>4, <2>5 DEF TaskInv
<1>3. CASE JobRender
  <2>1. UNCHANGED <<queue, task>> /\ job = "render" /\ job' = "check"
    BY <1>3 DEF JobRender
  <2>2. \A r \in Requesters : (Working(r) <=> task = r) /\ ~Working(r)'
    BY <2>1 DEF Working
  <2>3. \A r \in Requesters : pc'[r] = IF r = task THEN "populate" ELSE pc[r]
    BY <1>3, RenderAssumption DEF TypeOK, JobRender, GoTo, RenderAssumption
  <2>. QED
    BY <2>1, <2>2, <2>3 DEF TaskInv, Queued
<1>. QED
  BY <1>1, <1>2, <1>3 DEF Job

LEMMA TaskStep == TypeOK /\ TaskInv /\ [Next]_vars => TaskInv'
<1>. SUFFICES ASSUME TypeOK, TaskInv, [Next]_vars PROVE TaskInv'
  OBVIOUS
<1>1. CASE Hup \/ Restart \/ UNCHANGED vars
  <2>1. UNCHANGED <<queue, task, job>>
    BY <1>1 DEF Hup, Restart, vars, jobVars
  <2>2. \A r \in Requesters : pc'[r] = "wait" <=> pc[r] = "wait"
    BY <1>1 DEF TypeOK, Hup, Restart, vars, callers, GoTo
  <2>. QED
    BY <2>1, <2>2, TaskFrame
<1>2. CASE HupPush
  <2>1. queue' = Append(queue, Dummy) /\ UNCHANGED <<task, job, pc>>
    BY <1>2 DEF HupPush, jobVars, callers
  <2>2. \A r \in Requesters : r # Dummy
    BY RenderAssumption DEF RenderAssumption
  <2>3. \A i, j \in DOMAIN queue' : queue'[i] = queue'[j] /\ queue'[i] # Dummy => i = j
    BY <2>1, Pushed DEF TaskInv
  <2>4. \A r \in Requesters : Queued(r)' <=> Queued(r)
    BY <2>1, <2>2, Pushed
  <2>5. \A r \in Requesters : Working(r)' <=> Working(r)
    BY <2>1 DEF Working
  <2>. QED
    BY <2>1, <2>3, <2>4, <2>5 DEF TaskInv
<1>. QED
  BY <1>1, <1>2, TaskRequester, TaskJob DEF Next

\* The positions of one value in a sequence that has it at most once.
LEMMA CopiesOfOne ==
  ASSUME TypeOK, TaskInv, NEW r \in Requesters
  PROVE  Copies(r) = IF Queued(r) THEN 1 ELSE 0
<1>. DEFINE places == {i \in DOMAIN queue : queue[i] = r}
<1>1. CASE Queued(r)
  <2>1. PICK i \in DOMAIN queue : queue[i] = r
    BY <1>1 DEF Queued
  <2>2. places = {i}
    BY <2>1, RenderAssumption DEF TaskInv, RenderAssumption
  <2>. QED
    BY <1>1, <2>2, FS_Singleton DEF Copies
<1>2. CASE ~Queued(r)
  <2>1. places = {}
    BY <1>2 DEF Queued
  <2>. QED
    BY <1>2, <2>1, FS_EmptySet DEF Copies
<1>. QED
  BY <1>1, <1>2

LEMMA TasksInit == Init => TaskInv
  BY DEF Init, TaskInv, Queued, Working

\* However requests, kill() and exceptions interleave, a requester waits
\* exactly while its task is in the queue, once, or with the job.
THEOREM TasksKept == Spec => []OneTaskEach
<1>1. TypeOK /\ TaskInv => OneTaskEach
  BY CopiesOfOne DEF TaskInv, OneTaskEach
<1>. QED
  BY <1>1, TasksInit, TypeInit, TypeStep, TaskStep, PTL DEF Spec
-----------------------------------------------------------------------------
(***************************************************************************)
(* The numbers that templates show against the uses of their counters.     *)
(***************************************************************************)
Numbers == [name : Names, number : Nat]
AheadInv ==
  \A n \in Names :
    /\ data[n] <= Start(n) + Uses(n) /\ snapshot[n] <= Start(n) + Uses(n)
    /\ \A i \in DOMAIN given : given[i].name = n => given[i].number <= Start(n) + Uses(n)
    /\ \A r \in Requesters : name[r] = n => result[r] <= Start(n) + Uses(n)

LEMMA UsesType ==
  ASSUME given \in Seq(Numbers), NEW n
  PROVE  Uses(n) \in Nat /\ Start(n) \in {0, 1}
<1>1. IsFiniteSet(1 .. Len(given)) /\ DOMAIN given = 1 .. Len(given)
  BY FS_Interval
<1>2. IsFiniteSet({i \in DOMAIN given : given[i].name = n})
  BY <1>1, FS_Subset
<1>. QED
  BY <1>2, FS_CardinalityType DEF Uses, Start

\* A number that is rendered is one more use of its counter.
LEMMA UsesGrow ==
  ASSUME given \in Seq(Numbers), NEW e \in Numbers, given' = Append(given, e)
  PROVE  /\ DOMAIN given' = DOMAIN given \cup {Len(given) + 1}
         /\ Len(given) + 1 \notin DOMAIN given
         /\ given'[Len(given) + 1] = e /\ \A i \in DOMAIN given : given'[i] = given[i]
         /\ \A n : Uses(n)' = IF n = e.name THEN Uses(n) + 1 ELSE Uses(n)
<1>1. /\ DOMAIN given' = DOMAIN given \cup {Len(given) + 1}
      /\ Len(given) + 1 \notin DOMAIN given
      /\ given'[Len(given) + 1] = e /\ \A i \in DOMAIN given : given'[i] = given[i]
  OBVIOUS
<1>2. ASSUME NEW n PROVE Uses(n)' = IF n = e.name THEN Uses(n) + 1 ELSE Uses(n)
  <2>. DEFINE old == {i \in DOMAIN given : given[i].name = n}
              new == {i \in DOMAIN given' : given'[i].name = n}
  <2>1. IsFiniteSet(old)
    <3>1. IsFiniteSet(1 .. Len(given)) /\ DOMAIN given = 1 .. Len(given)
      BY FS_Interval
    <3>. QED
      BY <3>1, FS_Subset
  <2>2. Uses(n) = Cardinality(old) /\ Uses(n)' = Cardinality(new)
    BY DEF Uses
  <2>3. CASE n = e.name
    <3>1. PICK k : new = old \cup {k} /\ k \notin old
      BY <1>1, <2>3
    <3>. HIDE DEF old, new
    <3>2. Cardinality(old \cup {k}) = Cardinality(old) + 1
      BY <2>1, <3>1, FS_AddElement
    <3>. QED
      BY <2>2, <2>3, <3>1, <3>2
  <2>4. CASE n # e.name
    <3>1. new = old
      BY <1>1, <2>4
    <3>. QED
      BY <2>2, <2>4, <3>1
  <2>. QED
    BY <2>3, <2>4
<1>. QED
  BY <1>1, <1>2

\* Steps that render nothing keep the uses.
LEMMA UsesKept == ASSUME UNCHANGED given PROVE \A n : Uses(n)' = Uses(n)
  BY DEF Uses

LEMMA GivenType == TypeOK => given \in Seq(Numbers)
  BY DEF TypeOK, Numbers

LEMMA AheadFrame ==
  ASSUME TypeOK, AheadInv, UNCHANGED <<data, snapshot, given, name, result>>
  PROVE  AheadInv'
  BY UsesKept DEF AheadInv, Start

LEMMA AheadRequester ==
  ASSUME TypeOK, AheadInv, NEW r \in Requesters, Request(r) \/ Requester(r)
  PROVE  AheadInv'
<1>. USE GivenType, UsesType
<1>1. CASE Request(r)
  <2>1. UNCHANGED <<data, snapshot, given>>
    BY <1>1 DEF Request, jobVars
  <2>2. PICK m \in Names : name' = [name EXCEPT ![r] = m]
    BY <1>1 DEF Request
  <2>3. \A q \in Requesters : q # r => name'[q] = name[q] /\ result'[q] = result[q]
    BY <1>1, <2>2 DEF TypeOK, Request
  <2>4. result'[r] = 0
    BY <1>1 DEF TypeOK, Request
  <2>. QED
    BY <2>1, <2>3, <2>4, UsesKept DEF AheadInv, Start
<1>2. CASE LockQueue(r) \/ Push(r)
  BY <1>2, AheadFrame DEF LockQueue, Push, jobVars
<1>3. CASE Populate(r)
  <2>1. UNCHANGED <<snapshot, given, name, result>>
    BY <1>3 DEF Populate, jobVars
  <2>2. \A n \in Names : data'[n] = IF n = name[r] THEN result[r] ELSE data[n]
    BY <1>3 DEF TypeOK, Populate
  <2>. QED
    BY <2>1, <2>2, UsesKept DEF AheadInv, Start
<1>. QED
  BY <1>1, <1>2, <1>3 DEF Requester

LEMMA AheadJob ==
  ASSUME TypeOK, AheadInv, Job
  PROVE  AheadInv'
<1>. USE GivenType, UsesType
<1>1. CASE JobCheck \/ JobPop \/ JobRaise
  BY <1>1, AheadFrame DEF JobCheck, JobPop, JobRaise, callers
<1>2. CASE JobUpdate
  <2>1. UNCHANGED <<data, given, name, result>>
    BY <1>2 DEF JobUpdate, callers
  <2>2. \A n \in Names : snapshot'[n] = 0
    BY <1>2 DEF JobUpdate
  <2>. QED
    BY <2>1, <2>2, UsesKept DEF AheadInv, Start
<1>3. CASE JobIterate
  <2>1. UNCHANGED <<data, given, name, result>>
    BY <1>3 DEF JobIterate, callers
  <2>2. \A n \in Names : snapshot'[n] = snapshot[n] \/ snapshot'[n] = data[n]
    BY <1>3 DEF TypeOK, JobIterate
  <2>. QED
    BY <2>1, <2>2, UsesKept DEF AheadInv, Start
<1>4. CASE JobRender /\ task = Dummy
  BY <1>4, AheadFrame DEF JobRender
<1>5. CASE JobRender /\ task # Dummy
  <2>1. PICK m \in Names, q \in Requesters : m = name[task] /\ q = task
    BY <1>5 DEF TypeOK
  <2>2. PICK e \in Numbers : /\ e.name = m /\ e.number = snapshot[m] + 1
                             /\ given' = Append(given, e) /\ result'[q] = e.number
    <3>1. result'[q] = snapshot[m] + 1 /\ snapshot[m] + 1 \in Nat
      <4>1. result' = [result EXCEPT ![q] = snapshot[m] + 1]
        BY <1>5, <2>1 DEF JobRender
      <4>2. result \in [Requesters -> Nat] /\ snapshot \in [Names -> Nat]
        BY DEF TypeOK
      <4>. QED
        BY <4>1, <4>2
    <3>2. given' = Append(given, [name |-> m, number |-> result'[q]])
      BY <1>5, <2>1 DEF JobRender
    <3>3. [name |-> m, number |-> result'[q]] \in Numbers
      BY <3>1 DEF Numbers
    <3>. QED
      BY <3>1, <3>2, <3>3
  <2>3. /\ UNCHANGED <<data, snapshot, name>>
        /\ \A p \in Requesters : p # q => result'[p] = result[p]
    BY <1>5, <2>1 DEF TypeOK, JobRender
  <2>4. \A n \in Names : Uses(n)' = IF n = m THEN Uses(n) + 1 ELSE Uses(n)
    BY <2>2, UsesGrow
  <2>5. /\ \A n \in Names : Uses(n) <= Uses(n)' /\ Uses(n)' \in Nat /\ Start(n)' = Start(n)
        /\ e.number <= Start(m) + Uses(m)'
    <3>1. \A n \in Names : /\ Uses(n) \in Nat /\ Start(n) \in {0, 1} /\ Start(n)' = Start(n)
                            /\ snapshot[n] \in Nat /\ snapshot[n] <= Start(n) + Uses(n)
      BY DEF AheadInv, Start, TypeOK
    <3>2. ASSUME NEW n \in Names
          PROVE  Uses(n) <= Uses(n)' /\ Uses(n)' \in Nat /\ Start(n)' = Start(n)
      BY <2>4, <3>1
    <3>3. Uses(m)' = Uses(m) + 1
      BY <2>2, <2>4
    <3>. QED
      BY <2>2, <3>1, <3>2, <3>3
  <2>6. ASSUME NEW n \in Names
        PROVE data'[n] <= Start(n) + Uses(n)' /\ snapshot'[n] <= Start(n) + Uses(n)'
    <3>1. data[n] <= Start(n) + Uses(n) /\ snapshot[n] <= Start(n) + Uses(n)
      BY DEF AheadInv
    <3>. QED
      <4>1. /\ Uses(n) \in Nat /\ Start(n) \in {0, 1}
            /\ data[n] \in Nat /\ snapshot[n] \in Nat
        BY DEF TypeOK
      <4>. QED
        BY <2>3, <2>5, <3>1, <4>1
  <2>7. ASSUME NEW n \in Names, NEW i \in DOMAIN given', given'[i].name = n
        PROVE given'[i].number <= Start(n) + Uses(n)'
    <3>1. CASE i \in DOMAIN given
      <4>1. given'[i] = given[i] /\ given[i] \in Numbers
        BY <2>2, <3>1, UsesGrow
      <4>2. given[i].number <= Start(n) + Uses(n) /\ given[i].number \in Nat
        BY <2>7, <3>1, <4>1 DEF AheadInv, Numbers
      <4>. QED
        BY <2>5, <4>1, <4>2
    <3>2. CASE i \notin DOMAIN given
      <4>1. given'[i] = e
        BY <2>2, <2>7, <3>2, UsesGrow
      <4>. QED
        BY <2>2, <2>5, <2>7, <4>1
    <3>. QED
      BY <3>1, <3>2
  <2>8. ASSUME NEW p \in Requesters, NEW n \in Names, name'[p] = n
        PROVE result'[p] <= Start(n) + Uses(n)'
    <3>1. CASE p = q
      BY <2>1, <2>2, <2>3, <2>5, <2>8, <3>1
    <3>2. CASE p # q
      <4>1. result'[p] = result[p] /\ result[p] <= Start(n) + Uses(n) /\ result[p] \in Nat
        BY <2>3, <2>8, <3>2 DEF AheadInv, TypeOK
      <4>. QED
        BY <2>5, <4>1
    <3>. QED
      BY <3>1, <3>2
  <2>. QED
    BY <2>5, <2>6, <2>7, <2>8 DEF AheadInv
<1>. QED
  BY <1>1, <1>2, <1>3, <1>4, <1>5 DEF Job

LEMMA AheadStep == TypeOK /\ AheadInv /\ [Next]_vars => AheadInv'
<1>. SUFFICES ASSUME TypeOK, AheadInv, [Next]_vars PROVE AheadInv'
  OBVIOUS
<1>1. CASE Hup \/ HupPush \/ Restart \/ UNCHANGED vars
  BY <1>1, AheadFrame DEF Hup, HupPush, Restart, vars, jobVars, callers
<1>. QED
  BY <1>1, AheadRequester, AheadJob DEF Next

\* Copies and late writes of a counter only ever lose uses of it: no number is
\* above the uses so far, whichever threads count with it.
THEOREM CountersBehind == Spec => []CountersNotAhead
<1>1. ASSUME Init PROVE AheadInv
  <2>1. /\ given = <<>> /\ \A n \in Names : data[n] = Start(n) /\ snapshot[n] = 0
        /\ \A r \in Requesters : result[r] = 0
    BY <1>1 DEF Init, Start
  <2>2. given \in Seq(Numbers)
    BY <2>1
  <2>. QED
    BY <2>1, <2>2, UsesType DEF AheadInv, Start
<1>2. AheadInv => CountersNotAhead
  BY DEF AheadInv, CountersNotAhead
<1>. QED
  BY <1>1, <1>2, TypeInit, TypeStep, AheadStep, PTL DEF Spec
-----------------------------------------------------------------------------
(***************************************************************************)
(* While only the event loop renders: the copy that a template counts with *)
(* is the dictionary, and the dictionary has all uses but the one whose    *)
(* result has not been written back.                                       *)
(***************************************************************************)
OnlyMain == \A w \in Workers : requests[w] = 0
Counting == task # Dummy /\ job \in {"iterate", "render"}
NumberAt(i) ==
  given[i].number = Start(given[i].name) +
    Cardinality({j \in 1 .. i : given[j].name = given[i].name})
SingleInv ==
  OnlyMain =>
    /\ \A w \in Workers : pc[w] = "idle"
    /\ \A i \in DOMAIN given : NumberAt(i)
    /\ \A n \in Names : pc[Main] # "populate" \/ n # name[Main] =>
         data[n] = Start(n) + Uses(n)
    /\ pc[Main] = "populate" => result[Main] = Start(name[Main]) + Uses(name[Main])
    /\ Counting =>
         \A n \in Names : snapshot[n] = IF job = "iterate" /\ n \in left THEN 0 ELSE data[n]

LEMMA SingleFrame ==
  ASSUME SingleInv, OnlyMain' => OnlyMain,
         UNCHANGED <<data, given, name, result, snapshot, left>>,
         Counting' => Counting /\ job' = job,
         \A w \in Workers : pc[w] = "idle" /\ OnlyMain' => pc'[w] = "idle",
         pc[Main] = "populate" <=> pc'[Main] = "populate"
  PROVE  SingleInv'
  BY UsesKept DEF SingleInv, Start, NumberAt

\* A thread that renders for a worker has a request of it.
LEMMA CountsForMain ==
  ASSUME TypeOK, TaskInv, SingleInv, OnlyMain, task # Dummy,
         job \in {"update", "iterate", "render"}
  PROVE  task = Main /\ pc[Main] = "wait"
<1>1. task \in Requesters
  BY DEF TypeOK
<1>2. pc[task] = "wait"
  BY <1>1 DEF TaskInv, Working
<1>3. task \notin Workers
  BY <1>2 DEF SingleInv
<1>. QED
  BY <1>1, <1>2, <1>3 DEF Requesters

LEMMA SingleRequester ==
  ASSUME TypeOK, TaskInv, SingleInv, NEW r \in Requesters, Request(r) \/ Requester(r)
  PROVE  SingleInv'
<1>0. Main \in Requesters /\ Workers \subseteq Requesters /\ Main \notin Workers
  BY RenderAssumption DEF RenderAssumption, Requesters
<1>1. SUFFICES ASSUME OnlyMain' PROVE SingleInv'
  BY DEF SingleInv
<1>2. r = Main /\ OnlyMain
  <2>1. CASE Request(r)
    <3>1. requests' = [requests EXCEPT ![r] = requests[r] + 1] /\ requests \in [Requesters -> Nat]
      BY <2>1 DEF Request, TypeOK
    <3>2. requests'[r] # 0
      BY <3>1
    <3>3. r \notin Workers
      BY <1>1, <3>2 DEF OnlyMain
    <3>. QED
      BY <1>0, <1>1, <3>1, <3>3 DEF OnlyMain, Requesters
  <2>2. CASE Requester(r)
    <3>1. OnlyMain
      BY <1>1, <2>2 DEF OnlyMain, Requester, LockQueue, Push, Populate
    <3>2. pc[r] # "idle"
      BY <2>2 DEF Requester, LockQueue, Push, Populate
    <3>. QED
      BY <3>1, <3>2 DEF SingleInv, Requesters
  <2>. QED
    BY <2>1, <2>2
<1>3. \A w \in Workers : pc'[w] = "idle"
  BY <1>0, <1>2 DEF TypeOK, SingleInv, Request, Requester, LockQueue, Push, Populate, GoTo
<1>4. UNCHANGED <<given, snapshot, left, job, task>>
  BY DEF Request, Requester, LockQueue, Push, Populate, jobVars
<1>5. CASE LockQueue(r) \/ Push(r)
  <2>1. UNCHANGED <<data, name, result>>
    BY <1>5 DEF LockQueue, Push
  <2>2. pc[Main] # "populate" /\ pc'[Main] # "populate"
    BY <1>0, <1>2, <1>5 DEF TypeOK, LockQueue, Push, GoTo
  <2>. QED
    BY <1>2, <1>3, <1>4, <2>1, <2>2, SingleFrame DEF Counting
<1>6. CASE Request(r)
  <2>1. pc[Main] = "idle" /\ pc'[Main] = "put" /\ UNCHANGED data
    BY <1>0, <1>2, <1>6 DEF TypeOK, Request, GoTo
  <2>2. \A n \in Names : data'[n] = Start(n) + Uses(n)
    BY <1>2, <2>1 DEF SingleInv
  <2>. QED
    BY <1>2, <1>3, <1>4, <2>1, <2>2, UsesKept DEF SingleInv, Counting, Start, NumberAt
<1>7. CASE Populate(r)
  <2>1. /\ pc[Main] = "populate" /\ pc'[Main] = "idle"
        /\ data' = [data EXCEPT ![name[Main]] = result[Main]]
    BY <1>0, <1>2, <1>7 DEF TypeOK, Populate, GoTo
  <2>2. data \in [Names -> Nat]
    BY DEF TypeOK
  <2>3. \A n \in Names : data'[n] = Start(n) + Uses(n)
    BY <1>2, <2>1, <2>2 DEF SingleInv
  <2>4. ~Counting
    BY <1>2, <2>1, CountsForMain DEF Counting
  <2>. QED
    BY <1>2, <1>3, <1>4, <2>1, <2>3, <2>4, UsesKept DEF SingleInv, Counting, Start, NumberAt
<1>. QED
  BY <1>5, <1>6, <1>7 DEF Requester

\* A number that is rendered for the event loop is the next of its counter.
LEMMA SingleRender ==
  ASSUME TypeOK, TaskInv, SingleInv, JobRender, task # Dummy, OnlyMain
  PROVE  SingleInv'
<1>0. Main \in Requesters /\ Workers \subseteq Requesters /\ Main \notin Workers
  BY RenderAssumption DEF RenderAssumption, Requesters
<1>1. task = Main /\ pc[Main] = "wait" /\ job = "render"
  BY CountsForMain DEF JobRender
<1>2. PICK m \in Names : m = name[Main]
  BY <1>0 DEF TypeOK
<1>3. \A n \in Names : data[n] = Start(n) + Uses(n) /\ snapshot[n] = data[n]
  BY <1>1 DEF SingleInv, Counting
<1>4. /\ result' = [result EXCEPT ![Main] = snapshot[m] + 1]
      /\ given' = Append(given, [name |-> m, number |-> result'[Main]])
      /\ pc' = [pc EXCEPT ![Main] = "populate"] /\ job' = "check"
      /\ UNCHANGED <<data, name>>
  BY <1>1, <1>2 DEF JobRender, GoTo
<1>5. /\ result'[Main] = snapshot[m] + 1 /\ snapshot[m] + 1 \in Nat
      /\ pc'[Main] = "populate" /\ \A w \in Workers : pc'[w] = "idle"
  <2>1. result \in [Requesters -> Nat] /\ snapshot \in [Names -> Nat]
    BY DEF TypeOK
  <2>2. \A w \in Workers : pc[w] = "idle"
    BY DEF SingleInv
  <2>. QED
    BY <1>0, <1>4, <2>1, <2>2 DEF TypeOK
<1>6. PICK e \in Numbers : /\ e.name = m /\ e.number = snapshot[m] + 1
                           /\ given' = Append(given, e)
  <2>1. [name |-> m, number |-> result'[Main]] \in Numbers
    BY <1>5 DEF Numbers
  <2>. QED
    BY <1>4, <1>5, <2>1
<1>7. /\ given \in Seq(Numbers) /\ given' \in Seq(Numbers)
      /\ \A n \in Names : Uses(n) \in Nat /\ Start(n) \in {0, 1} /\ Start(n)' = Start(n)
      /\ \A n \in Names : Uses(n)' = IF n = m THEN Uses(n) + 1 ELSE Uses(n)
  BY <1>6, UsesGrow, GivenType, UsesType DEF Start
<1>8. e.number = Start(m) + Uses(m)' /\ result'[Main] = Start(m) + Uses(m)'
  BY <1>3, <1>5, <1>6, <1>7
<1>9. ASSUME NEW i \in DOMAIN given' PROVE NumberAt(i)'
  <2>1. DOMAIN given = 1 .. Len(given) /\ DOMAIN given' = 1 .. Len(given) + 1
        /\ Len(given) \in Nat
    BY <1>6, <1>7
  <2>2. /\ given'[Len(given) + 1] = e
        /\ \A j \in DOMAIN given : given'[j] = given[j]
    BY <1>6, <1>7, UsesGrow
  <2>3. CASE i \in DOMAIN given
    <3>1. {j \in 1 .. i : given'[j].name = given'[i].name}
            = {j \in 1 .. i : given[j].name = given[i].name}
      BY <2>1, <2>2, <2>3
    <3>2. NumberAt(i)
      BY <2>3 DEF SingleInv
    <3>. QED
      BY <2>2, <2>3, <3>1, <3>2 DEF NumberAt, Start
  <2>4. CASE i \notin DOMAIN given
    <3>1. i = Len(given) + 1 /\ given'[i] = e
      BY <2>1, <2>2, <2>4
    <3>2. {j \in 1 .. i : given'[j].name = given'[i].name}
            = {j \in DOMAIN given' : given'[j].name = m}
      BY <1>6, <2>1, <3>1
    <3>. QED
      BY <1>6, <1>8, <3>1, <3>2 DEF NumberAt, Uses, Start
  <2>. QED
    BY <2>3, <2>4
<1>10. \A n \in Names : n # name[Main] => data'[n] = Start(n) + Uses(n)'
  BY <1>2, <1>3, <1>4, <1>7
<1>11. result'[Main] = Start(name[Main]) + Uses(name[Main])' /\ name' = name
  BY <1>2, <1>4, <1>8
<1>. QED
  BY <1>4, <1>5, <1>9, <1>10, <1>11 DEF SingleInv, Counting, Start

LEMMA SingleJob ==
  ASSUME TypeOK, TaskInv, SingleInv, Job
  PROVE  SingleInv'
<1>1. requests' = requests
  BY DEF Job, JobCheck, JobPop, JobUpdate, JobIterate, JobRender, JobRaise, callers
<1>2. SUFFICES ASSUME OnlyMain PROVE SingleInv'
  BY <1>1 DEF SingleInv, OnlyMain
<1>3. CASE JobCheck \/ JobPop \/ JobRaise
  <2>1. UNCHANGED <<data, given, callers, snapshot, left>> /\ ~Counting'
    BY <1>3 DEF JobCheck, JobPop, JobRaise, Counting
  <2>. QED
    BY <1>2, <2>1, SingleFrame DEF callers
<1>4. CASE JobUpdate
  <2>1. UNCHANGED <<data, given, pc, name, result>> /\ job' = "iterate" /\ left' = Present
    BY <1>4 DEF JobUpdate, callers
  <2>2. \A n \in Names : snapshot'[n] = 0 /\ (n \notin left' => data'[n] = 0)
    BY <1>4 DEF JobUpdate, Present
  <2>. QED
    BY <1>2, <2>1, <2>2, UsesKept DEF SingleInv, NumberAt, Start
<1>5. CASE JobIterate
  <2>1. UNCHANGED <<data, given, pc, name, result, task>> /\ job = "iterate"
    BY <1>5 DEF JobIterate, callers
  <2>2. Counting' => Counting /\
          \A n \in Names : snapshot'[n] = IF job' = "iterate" /\ n \in left' THEN 0 ELSE data[n]
    <3>1. SUFFICES ASSUME Counting'
                   PROVE \A n \in Names :
                     snapshot'[n] = IF job' = "iterate" /\ n \in left' THEN 0 ELSE data[n]
      BY <2>1 DEF Counting
    <3>2. \A n \in Names : snapshot[n] = IF n \in left THEN 0 ELSE data[n]
      BY <1>2, <2>1, <3>1 DEF SingleInv, Counting
    <3>3. snapshot \in [Names -> Nat] /\ left \subseteq Names
      BY DEF TypeOK
    <3>4. CASE left = {} /\ UNCHANGED snapshot /\ job' = "render"
      BY <3>2, <3>4
    <3>5. CASE \E n \in left : /\ snapshot' = [snapshot EXCEPT ![n] = data[n]]
                               /\ left' = left \ {n} /\ job' = job
      BY <2>1, <3>2, <3>3, <3>5
    <3>. QED
      BY <1>5, <3>1, <3>4, <3>5 DEF JobIterate, Counting
  <2>. QED
    BY <1>2, <2>1, <2>2, UsesKept DEF SingleInv, NumberAt, Start
<1>6. CASE JobRender /\ task = Dummy
  <2>1. UNCHANGED <<data, given, pc, name, result, snapshot, left>> /\ ~Counting'
    BY <1>6 DEF JobRender, Counting
  <2>. QED
    BY <1>2, <2>1, SingleFrame
<1>7. CASE JobRender /\ task # Dummy
  BY <1>2, <1>7, SingleRender
<1>. QED
  BY <1>3, <1>4, <1>5, <1>6, <1>7 DEF Job

LEMMA SingleStep == TypeOK /\ TaskInv /\ SingleInv /\ [Next]_vars => SingleInv'
<1>. SUFFICES ASSUME TypeOK, TaskInv, SingleInv, [Next]_vars PROVE SingleInv'
  OBVIOUS
<1>1. CASE Hup \/ HupPush \/ Restart \/ UNCHANGED vars
  <2>1. UNCHANGED <<data, given, name, result, snapshot, left, job, task, requests>>
    BY <1>1 DEF Hup, HupPush, Restart, vars, jobVars, callers
  <2>2. Main \notin Workers /\ pc \in [Requesters -> {"idle", "put", "locked", "wait",
                                                     "populate", "restarted"}]
    BY RenderAssumption DEF RenderAssumption, TypeOK
  <2>3. (pc[Main] = "populate" <=> pc'[Main] = "populate")
        /\ \A w \in Workers : pc'[w] = pc[w]
    BY <1>1, <2>2 DEF Hup, HupPush, Restart, vars, callers, GoTo, Requesters
  <2>. QED
    BY <2>1, <2>3, SingleFrame DEF OnlyMain, Counting
<1>. QED
  BY <1>1, SingleRequester, SingleJob DEF Next

\* As long as only the event loop renders, each counter shows 1, 2, 3, ...:
\* the copy, the template's increment and the late write agree.
THEOREM NumbersInOrder == Spec => []CountersConsecutive
<1>1. ASSUME Init PROVE SingleInv
  <2>1. /\ given = <<>> /\ \A n \in Names : data[n] = Start(n)
        /\ \A w \in Workers : pc[w] = "idle"
        /\ pc[Main] = "idle" /\ ~Counting
    BY <1>1 DEF Init, Start, Counting, Requesters
  <2>2. \A n : Uses(n) = 0
    BY <2>1, FS_EmptySet DEF Uses
  <2>. QED
    BY <2>1, <2>2 DEF SingleInv, Start
<1>2. SingleInv => CountersConsecutive
  BY DEF SingleInv, CountersConsecutive, OnlyMain, NumberAt
<1>. QED
  BY <1>1, <1>2, TypeInit, TypeStep, TasksInit, TaskStep, SingleStep, PTL DEF Spec
=============================================================================
