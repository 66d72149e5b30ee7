--------------------------- MODULE LifecycleProofs ---------------------------
(***************************************************************************)
(* Proofs about Lifecycle, for any configurations and any number of posts, *)
(* signals and messages: after every post and every restart only threads   *)
(* of the configuration in force go on unasked, every application serves   *)
(* its own service, the total of the statistics stays within what was      *)
(* counted, nobody who goes on loses the endpoint he counts at, and every  *)
(* actor and route counts at its own.                                      *)
(***************************************************************************)
EXTENDS Lifecycle, SequenceTheorems, FiniteSetTheorems, WellFoundedInduction, TLAPS

-----------------------------------------------------------------------------
(***************************************************************************)
(* Sequences by what is in them.                                           *)
(***************************************************************************)
IsList(s) == s \in Seq(Range(s))

LEMMA EmptyList == IsList(<<>>) /\ Range(<<>>) = {}
BY DEF IsList, Range

LEMMA AppendList ==
  ASSUME NEW s, IsList(s), NEW x
  PROVE  IsList(Append(s, x)) /\ Range(Append(s, x)) = Range(s) \cup {x}
<1> DEFINE S == Range(s) \cup {x}
           u == Append(s, x)
<1>1. s \in Seq(S)
  BY DEF IsList
<1>2. u \in Seq(S) /\ Len(u) = Len(s) + 1 /\ u[Len(s) + 1] = x
  BY <1>1
<1>3. \A i \in 1..Len(s) : u[i] = s[i]
  BY <1>1
<1>4. DOMAIN s = 1..Len(s) /\ DOMAIN u = 1..(Len(s) + 1) /\ Len(s) \in Nat
  BY <1>1, <1>2
<1>5. \A i \in DOMAIN u : i \in DOMAIN s \/ i = Len(s) + 1
  BY <1>4
<1> HIDE DEF u
<1>6. Range(u) \subseteq S
  BY <1>2, <1>3, <1>4, <1>5 DEF Range
<1>7. S \subseteq Range(u)
  <2>1. \A i \in DOMAIN s : i \in DOMAIN u /\ u[i] = s[i]
    BY <1>3, <1>4
  <2>2. x \in Range(u)
    BY <1>2, <1>4 DEF Range
  <2> QED BY <2>1, <2>2 DEF Range
<1>8. Range(u) = S
  BY <1>6, <1>7
<1> QED BY <1>2, <1>8 DEF IsList, u

LEMMA ConcatList ==
  ASSUME NEW s, IsList(s), NEW u, IsList(u)
  PROVE  IsList(s \o u) /\ Range(s \o u) = Range(s) \cup Range(u)
<1> DEFINE S == Range(s) \cup Range(u)
           w == s \o u
<1>1. s \in Seq(S) /\ u \in Seq(S)
  BY DEF IsList
<1>2. w \in Seq(S) /\ Len(w) = Len(s) + Len(u)
  BY <1>1
<1>3. /\ \A i \in 1..Len(s) : w[i] = s[i]
      /\ \A i \in 1..Len(u) : w[Len(s) + i] = u[i]
  BY <1>1
<1>4. /\ DOMAIN s = 1..Len(s) /\ DOMAIN u = 1..Len(u) /\ DOMAIN w = 1..(Len(s) + Len(u))
      /\ Len(s) \in Nat /\ Len(u) \in Nat
  BY <1>1, <1>2
<1> HIDE DEF w
<1>5. S \subseteq Range(w)
  <2>1. \A i \in DOMAIN s : i \in DOMAIN w /\ w[i] = s[i]
    BY <1>3, <1>4
  <2>2. \A i \in DOMAIN u : Len(s) + i \in DOMAIN w /\ w[Len(s) + i] = u[i]
    BY <1>3, <1>4
  <2> QED BY <2>1, <2>2 DEF Range
<1>6. Range(w) \subseteq S
  BY <1>2, <1>4 DEF Range
<1>7. Range(w) = S
  BY <1>5, <1>6
<1> QED BY <1>2, <1>7 DEF IsList, w

LEMMA TailList ==
  ASSUME NEW s, IsList(s), s # <<>>
  PROVE  IsList(Tail(s)) /\ Range(Tail(s)) \subseteq Range(s) /\ Head(s) \in Range(s)
<1> DEFINE u == Tail(s)
<1>1. /\ u \in Seq(Range(s)) /\ Len(u) = Len(s) - 1 /\ Len(s) \in Nat /\ Len(s) > 0
      /\ \A i \in 1..Len(u) : u[i] = s[i + 1]
      /\ Head(s) \in Range(s)
  BY DEF IsList
<1>2. DOMAIN u = 1..Len(u) /\ Len(u) \in Nat
  BY <1>1
<1> HIDE DEF u
<1>3. \A i \in 1..Len(u) : u[i] \in Range(u)
  BY <1>2 DEF Range
<1>4. u \in Seq(Range(u))
  BY <1>1, <1>2, <1>3
<1>5. Range(u) \subseteq Range(s)
  BY <1>1, <1>2 DEF Range
<1> QED BY <1>1, <1>4, <1>5 DEF IsList, u

-----------------------------------------------------------------------------
(***************************************************************************)
(* What the fields may hold, as far as the proofs look at them.            *)
(***************************************************************************)
Fields == {"n", "id", "type", "members", "pc", "k", "endpoint", "held", "stale"}
Finite(list) == \A s \in Range(list) : IsFiniteSet(DOMAIN s.actors)
Typed ==
  /\ "gens" \in DOMAIN count /\ count.gens \in Nat
  /\ IsList(asyncs) /\ IsList(todo) /\ IsList(groups)
  /\ Finite(asyncs) /\ Finite(todo)
  /\ numbered \in Nat
  /\ new \in [config : Files \cup Posted, k : Nat \ {0}, base : Nat, post : BOOLEAN]
  /\ \A t \in threads : DOMAIN t = Fields

\* Whoever looks at stop is told already, or in a list that stop_loops goes
\* through; so is every actor that run_loops has still to start.
Ids(list) == {g.id : g \in Range(list)}
Known == \A t \in Looking : t.id \in stopped \cup actors \cup Ids(groups)
IdsOf(s) == {ActorId(s.gen, s.sid, k) : k \in DOMAIN s.actors}
TodoKnown == \A s \in Range(todo) : IdsOf(s) \subseteq actors \cup stopped
AsyncsKnown == \A s \in Range(asyncs) : IdsOf(s) \subseteq actors

\* What the main thread has at each of its steps, unless a signal came between.
AllStopped == \A t \in Looking : t.id \in stopped
OnlyNew == \A t \in Looking : t.id \in stopped \/ t.id.gen = root.gen
OfGen(list, gen) == \A s \in Range(list) : s.gen = gen
Preparing == {"build", "analyze", "load", "register", "run", "update", "reset"}
Orderly ==
  /\ at \in Preparing => AllStopped /\ groups = <<>>
  /\ at = "build" => asyncs = <<>>
  /\ at = "analyze" => OfGen(asyncs, count.gens)
  /\ at \in Preparing \ {"build", "analyze"} => OfGen(asyncs, root.gen)
  /\ at = "start" => OnlyNew /\ OfGen(todo, root.gen)
                     /\ \A id \in Ids(groups) : id.gen = root.gen
  /\ at = "serve" => OnlyNew
  /\ hup => at = "serve" /\ AllStopped /\ asyncs = <<>> /\ groups = <<>>

StopInv == /\ Typed /\ Known /\ TodoKnown /\ AsyncsKnown
           /\ interrupted \in BOOLEAN /\ hup \in BOOLEAN
           /\ ~interrupted => Orderly


\* A step of a thread leaves the thread as it was but for its own place, or
\* gone; no thread begins to look.
LEMMA ThreadStays ==
  ASSUME Typed, NEW t \in threads, ThreadStep(t)
  PROVE  /\ UNCHANGED <<main, definition, lists, stopped, stats, logs, marks>>
         /\ "gens" \in DOMAIN count' /\ count'.gens = count.gens
         /\ \A u \in threads' : DOMAIN u = Fields
         /\ \A u \in Looking' : \E v \in Looking : v.id = u.id
<1>1. UNCHANGED <<main, definition, lists, stopped, stats, logs, marks>>
  BY DEF ThreadStep
<1>2. "gens" \in DOMAIN count' /\ count'.gens = count.gens
  BY DEF ThreadStep, Idle, Message, ReadTotal, WriteTotal, Finish, Typed
<1>3. DOMAIN t = Fields /\ t.pc # "died"
  BY DEF ThreadStep, Idle, Message, ReadTotal, WriteTotal, Finish, Typed
<1> DEFINE Stays == \A u \in threads' :
             u \in threads \/ (DOMAIN u = Fields /\ u.id = t.id /\ u.type = t.type)
<1>4. Stays
  <2>1. CASE Idle(t)
    BY <2>1 DEF Idle
  <2>2. CASE Message(t)
    BY <2>2, <1>3 DEF Message, Becomes, Fields
  <2>3. ASSUME Resumes(t) PROVE Stays
    <3> DEFINE v == [t EXCEPT !.pc = "wait", !.k = No, !.endpoint = No, !.held = 0]
    <3>1. DOMAIN v = DOMAIN t /\ v.id = t.id /\ v.type = t.type
      BY <1>3 DEF Fields
    <3>2. threads' = threads \ {t} \/ threads' = (threads \ {t}) \cup {v}
      BY <2>3 DEF Resumes, Becomes
    <3> HIDE DEF v
    <3> QED BY <1>3, <3>1, <3>2
  <2>4. ASSUME Fails(t) PROVE Stays
    <3> DEFINE v == [t EXCEPT !.pc = "died", !.stale = FALSE]
    <3>1. DOMAIN v = DOMAIN t /\ v.id = t.id /\ v.type = t.type
      BY <1>3 DEF Fields
    <3>2. Resumes(t) \/ threads' = (threads \ {t}) \cup {v}
      BY <2>4 DEF Fails, Becomes
    <3> HIDE DEF v
    <3> QED BY <1>3, <2>3, <3>1, <3>2
  <2>5. CASE ReadTotal(t)
    <3> DEFINE v == [t EXCEPT !.pc = "held", !.held = total]
    <3>1. DOMAIN v = DOMAIN t /\ v.id = t.id /\ v.type = t.type
      BY <1>3 DEF Fields
    <3>2. Fails(t) \/ threads' = (threads \ {t}) \cup {v}
      BY <2>5 DEF ReadTotal, Becomes
    <3> HIDE DEF v
    <3> QED BY <1>3, <2>4, <3>1, <3>2
  <2>6. CASE WriteTotal(t)
    BY <2>6, <1>3 DEF WriteTotal, Becomes, Fields
  <2>7. CASE Finish(t)
    BY <2>3, <2>4, <2>7 DEF Finish
  <2> QED BY <2>1, <2>2, <2>5, <2>6, <2>7 DEF ThreadStep
<1>5. \A u \in threads' : DOMAIN u = Fields
  BY <1>4 DEF Typed
<1>6. \A u \in Looking' : \E v \in Looking : v.id = u.id
  BY <1>3, <1>4 DEF Looking, LooksAtStop
<1> QED BY <1>1, <1>2, <1>5, <1>6

LEMMA PlanTyped ==
  ASSUME NEW c \in Files \cup Posted, NEW post \in BOOLEAN
  PROVE  Plan(c, post) \in [config : Files \cup Posted, k : Nat \ {0}, base : Nat,
                            post : BOOLEAN]
BY 1 \in Nat \ {0} DEF Plan

LEMMA InitStop == Init => StopInv
<1> SUFFICES ASSUME Init PROVE StopInv
  OBVIOUS
<1>1. IsList(<<>>) /\ Range(<<>>) = {}
  BY EmptyList
<1>2. asyncs = <<>> /\ todo = <<>> /\ groups = <<>> /\ threads = {} /\ at = "build"
  BY DEF Init
<1>3. "gens" \in DOMAIN count /\ count.gens \in Nat
  BY DEF Init
<1>4. new \in [config : Files \cup Posted, k : Nat \ {0}, base : Nat, post : BOOLEAN]
  BY PlanTyped DEF Init
<1>5. numbered \in Nat /\ interrupted \in BOOLEAN /\ hup = FALSE
  BY DEF Init
<1>6. Looking = {}
  BY <1>2 DEF Looking
<1>7. Typed
  BY <1>1, <1>2, <1>3, <1>4, <1>5 DEF Typed, Finite
<1>8. Known /\ TodoKnown /\ AsyncsKnown
  BY <1>1, <1>2, <1>6 DEF Known, TodoKnown, AsyncsKnown
<1>9. Orderly
  BY <1>1, <1>2, <1>5, <1>6 DEF Orderly, AllStopped, Preparing
<1> QED BY <1>5, <1>7, <1>8, <1>9 DEF StopInv

\* Between two steps of the main thread.
LEMMA ThreadKeepsStop ==
  ASSUME StopInv, NEW t \in threads, ThreadStep(t)
  PROVE  StopInv'
<1>1. /\ UNCHANGED <<main, definition, lists, stopped, stats, logs, marks>>
      /\ "gens" \in DOMAIN count' /\ count'.gens = count.gens
      /\ \A u \in threads' : DOMAIN u = Fields
      /\ \A u \in Looking' : \E v \in Looking : v.id = u.id
  BY ThreadStays DEF StopInv
<1>2. /\ UNCHANGED <<at, new, todo, hup, root, numbered, asyncs, actors, groups, stopped>>
      /\ UNCHANGED interrupted
  BY <1>1 DEF main, definition, lists, marks
<1>3. Typed'
  BY <1>1, <1>2 DEF StopInv, Typed, Finite
<1>4. Known'
  BY <1>1, <1>2 DEF StopInv, Known, Ids
<1>5. TodoKnown' /\ AsyncsKnown'
  BY <1>2 DEF StopInv, TodoKnown, AsyncsKnown
<1>6. (AllStopped => AllStopped') /\ (OnlyNew => OnlyNew')
  BY <1>1, <1>2 DEF AllStopped, OnlyNew
<1>7. Orderly => Orderly'
  BY <1>1, <1>2, <1>6 DEF Orderly, OfGen, Ids
<1> QED BY <1>2, <1>3, <1>4, <1>5, <1>7 DEF StopInv

\* The steps of run() and post() that leave lists and threads alone.
LEMMA QuietKeepsStop ==
  ASSUME StopInv, Build \/ Load \/ Register \/ Update \/ Reset
                  \/ RunLoops \/ Started \/ Restart
  PROVE  StopInv'
<1>1. UNCHANGED <<asyncs, actors, groups, stopped, interrupted>> /\ hup' \in BOOLEAN
  BY DEF StopInv, Build, Load, Register, Update, Reset, RunLoops, Started, Restart, Now, lists,
         marks, Exit
<1>2. "gens" \in DOMAIN count' /\ count'.gens \in Nat /\ (~Build => count'.gens = count.gens)
  <2>1. CASE Build
    BY <2>1 DEF Build, StopInv, Typed
  <2>2. CASE RunLoops
    BY <2>2 DEF RunLoops, StopInv, Typed
  <2>3. CASE Load \/ Register \/ Update \/ Reset \/ Started \/ Restart
    BY <2>3 DEF StopInv, Typed, Load, Register, Update, Reset, Started, Restart
  <2> QED BY <2>1, <2>2, <2>3
<1>3. numbered' \in Nat
  <2>1. CASE Build
    <3>1. Len(new.config) \in Nat
      BY LifecycleAssumption DEF StopInv, Typed
    <3> QED BY <2>1, <3>1 DEF Build, StopInv, Typed
  <2>2. CASE ~Build
    BY <2>2 DEF StopInv, Typed, Load, Register, Update, Reset, RunLoops, Started, Restart, lists
  <2> QED BY <2>1, <2>2
<1>4. new' \in [config : Files \cup Posted, k : Nat \ {0}, base : Nat, post : BOOLEAN]
  <2>1. CASE Build
    BY <2>1 DEF Build, StopInv, Typed
  <2>2. CASE Restart
    BY <2>2, PlanTyped DEF Restart
  <2>3. CASE Load \/ Register \/ Update \/ Reset \/ RunLoops \/ Started
    BY <2>3 DEF StopInv, Typed, Load, Register, Update, Reset, RunLoops, Started
  <2> QED BY <2>1, <2>2, <2>3
<1>5. todo' = todo \/ todo' = asyncs \/ todo' = <<>>
  BY DEF Build, Load, Register, Update, Reset, RunLoops, Started, Restart, Exit
<1>6. IsList(todo') /\ Finite(todo')
  BY <1>5, EmptyList DEF StopInv, Typed, Finite
<1>7. /\ \A u \in threads' : DOMAIN u = Fields
      /\ \A u \in Looking' : \E v \in Looking : v.id = u.id
  <2>1. CASE Reset
    <3>1. threads' = {[t EXCEPT !.stale = (t.pc = "held")] : t \in threads}
      BY <2>1 DEF Reset
    <3>2. \A u \in threads' : \E t \in threads :
            DOMAIN u = Fields /\ u.id = t.id /\ u.pc = t.pc /\ u.type = t.type
      BY <3>1 DEF StopInv, Typed, Fields
    <3> QED BY <3>2 DEF Looking, LooksAtStop
  <2>2. CASE ~Reset
    <3>1. threads' = threads \/ threads' = {}
      BY <2>2 DEF Build, Load, Register, Update, RunLoops, Started, Restart, Exit
    <3> QED BY <3>1 DEF Looking, StopInv, Typed
  <2> QED BY <2>1, <2>2
<1>8. Typed'
  BY <1>1, <1>2, <1>3, <1>4, <1>6, <1>7 DEF StopInv, Typed, Finite
<1>9. Known'
  BY <1>1, <1>7 DEF StopInv, Known, Ids
<1>10. TodoKnown' /\ AsyncsKnown'
  BY <1>1, <1>5, EmptyList DEF StopInv, TodoKnown, AsyncsKnown
<1>11. AllStopped => AllStopped'
  BY <1>1, <1>7 DEF AllStopped
<1>12. root' = root
  BY DEF Build, Load, Register, Update, Reset, RunLoops, Started, Restart, definition
<1>13. (OnlyNew => OnlyNew') /\ (AllStopped' => OnlyNew')
  BY <1>1, <1>7, <1>12 DEF OnlyNew, AllStopped
<1>14. ASSUME Orderly PROVE Orderly'
  <2>1. CASE Build
    <3>1. at = "build" /\ at' = "analyze" /\ hup' = hup
      BY <2>1 DEF Build, Now
    <3>2. OfGen(asyncs, count.gens)'
      BY <1>1, <1>14, <3>1, EmptyList DEF Orderly, OfGen
    <3> QED BY <1>1, <1>11, <1>14, <3>1, <3>2 DEF Orderly, Preparing
  <2>2. CASE Load \/ Register \/ Update \/ Reset
    <3>1. /\ at \in {"load", "register", "update", "reset"}
          /\ \/ at' \in {"register", "run", "reset", "serve"} /\ hup' = hup
             \/ at' = "down" /\ hup' = FALSE
      BY <2>2 DEF Load, Register, Update, Reset, Now, Exit
    <3> QED BY <1>1, <1>11, <1>12, <1>13, <1>14, <3>1 DEF Orderly, Preparing, OfGen
  <2>3. CASE RunLoops
    <3>1. at = "run" /\ at' = "start" /\ hup' = hup /\ todo' = asyncs
      BY <2>3 DEF RunLoops, Now
    <3>2. Ids(groups') = {}
      BY <1>1, <1>14, <3>1, EmptyList DEF Orderly, Ids, Preparing
    <3> QED BY <1>1, <1>11, <1>12, <1>13, <1>14, <3>1, <3>2 DEF Orderly, Preparing, OfGen, Ids
  <2>4. CASE Started
    <3>1. at = "start" /\ at' = "serve" /\ hup' = hup
      BY <2>4 DEF Started, Now
    <3> QED BY <1>1, <1>13, <1>14, <3>1 DEF Orderly, Preparing
  <2>5. CASE Restart
    <3>1. hup /\ at' = "build" /\ hup' = FALSE
      BY <2>5 DEF Restart
    <3> QED BY <1>1, <1>11, <1>14, <3>1 DEF Orderly, Preparing
  <2> QED BY <2>1, <2>2, <2>3, <2>4, <2>5
<1> QED BY <1>1, <1>8, <1>9, <1>10, <1>14 DEF StopInv

\* The service that enters the lists has only actors that are in actors then.
LEMMA AnalyzeAsyncAdds ==
  ASSUME Typed, at = "analyze", new.k <= Len(new.config), AnalyzeAsync
  PROVE  \E x : /\ asyncs' = Append(asyncs, x) /\ x.gen = count.gens
                /\ IsFiniteSet(DOMAIN x.actors)
                /\ IdsOf(x) \subseteq actors' /\ actors \subseteq actors'
<1> DEFINE before == Len(Append(stats, <<>>)[Sid])
           x == [gen |-> count.gens, sid |-> Sid, type |-> Service.type,
                 actors |-> [k \in Constructed |-> SetActor(Service.items, k, before)]]
<1>1. asyncs' = Append(asyncs, x)
  BY DEF AnalyzeAsync
<1>2. actors' = actors \cup {ActorId(count.gens, Sid, k) : k \in Constructed}
  BY DEF AnalyzeAsync
<1>3. x.gen = count.gens /\ x.sid = Sid /\ DOMAIN x.actors = Constructed
  OBVIOUS
<1>4. IsFiniteSet(Constructed)
  <2>1. new.k \in DOMAIN new.config
    BY LifecycleAssumption DEF Typed
  <2>2. IsFiniteSet(DOMAIN Service.items)
    <3>1. Service.items \in Seq(Range(Service.items))
      BY <2>1, LifecycleAssumption DEF Typed, Service
    <3>2. /\ Len(Service.items) \in Nat /\ DOMAIN Service.items = 1..Len(Service.items)
      BY <3>1
    <3> QED BY <3>2, FS_Interval
  <2>3. Constructed \subseteq DOMAIN Service.items
    BY DEF Constructed
  <2> QED BY <2>2, <2>3, FS_Subset
<1> HIDE DEF x
<1>5. IdsOf(x) \subseteq actors'
  BY <1>2, <1>3 DEF IdsOf
<1> QED BY <1>1, <1>2, <1>3, <1>4, <1>5

LEMMA AnalyzeKeepsStop ==
  ASSUME StopInv, Analyze
  PROVE  StopInv'
<1>1. /\ at = "analyze" /\ new.k <= Len(new.config)
      /\ UNCHANGED <<root, groups, numbered, stopped, count, interrupted>>
  BY DEF Analyze, definition
<1>2. \/ UNCHANGED <<asyncs, actors>>
      \/ \E x : /\ asyncs' = Append(asyncs, x) /\ x.gen = count.gens
                /\ IsFiniteSet(DOMAIN x.actors)
                /\ IdsOf(x) \subseteq actors' /\ actors \subseteq actors'
  <2>1. CASE AnalyzeAsync
    BY <1>1, <2>1, AnalyzeAsyncAdds DEF StopInv
  <2>2. CASE AnalyzeHttp
    BY <2>2 DEF AnalyzeHttp
  <2>3. CASE UNCHANGED <<asyncs, actors>>
    BY <2>3
  <2> QED BY <2>1, <2>2, <2>3 DEF Analyze
<1>3. /\ \/ at' \in {"analyze", "serve"} /\ hup' = hup /\ threads' = threads /\ todo' = todo
         \/ at' = "down" /\ hup' = FALSE /\ threads' = {} /\ todo' = <<>>
      /\ new' = new \/ new' = [new EXCEPT !.k = @ + 1]
  BY DEF Analyze, Now, Exit
<1>4. IsList(asyncs') /\ Finite(asyncs)' /\ AsyncsKnown' /\ actors \subseteq actors'
      /\ (OfGen(asyncs, count.gens) => OfGen(asyncs, count.gens)')
  <2>1. CASE UNCHANGED <<asyncs, actors>>
    BY <1>1, <2>1 DEF StopInv, Typed, Finite, AsyncsKnown, OfGen
  <2>2. CASE ~UNCHANGED <<asyncs, actors>>
    <3>1. PICK x : /\ asyncs' = Append(asyncs, x) /\ x.gen = count.gens
                   /\ IsFiniteSet(DOMAIN x.actors)
                   /\ IdsOf(x) \subseteq actors' /\ actors \subseteq actors'
      BY <1>2, <2>2
    <3>2. IsList(asyncs') /\ Range(asyncs') = Range(asyncs) \cup {x}
      BY <3>1, AppendList DEF StopInv, Typed
    <3>3. Finite(asyncs)'
      BY <3>1, <3>2 DEF StopInv, Typed, Finite
    <3>4. AsyncsKnown'
      BY <3>1, <3>2 DEF StopInv, AsyncsKnown
    <3>5. OfGen(asyncs, count.gens) => OfGen(asyncs, count.gens)'
      BY <1>1, <3>1, <3>2 DEF OfGen
    <3> QED BY <3>1, <3>2, <3>3, <3>4, <3>5
  <2> QED BY <2>1, <2>2
<1>5. new' \in [config : Files \cup Posted, k : Nat \ {0}, base : Nat, post : BOOLEAN]
  BY <1>3 DEF StopInv, Typed
<1>6. Typed'
  BY <1>1, <1>3, <1>4, <1>5, EmptyList DEF StopInv, Typed, Finite
<1>7. Known' /\ TodoKnown'
  BY <1>1, <1>3, <1>4, EmptyList DEF StopInv, Known, TodoKnown, Looking, Ids
<1>8. (AllStopped => AllStopped') /\ (AllStopped' => OnlyNew')
  BY <1>1, <1>3 DEF AllStopped, OnlyNew, Looking
<1>9. Orderly => Orderly'
  BY <1>1, <1>3, <1>4, <1>8 DEF Orderly, Preparing
<1>10. hup' \in BOOLEAN /\ interrupted' \in BOOLEAN
  BY <1>1, <1>3 DEF StopInv
<1> QED BY <1>1, <1>4, <1>6, <1>7, <1>9, <1>10 DEF StopInv

LEMMA AnalyzedKeepsStop ==
  ASSUME StopInv, Analyzed
  PROVE  StopInv'
<1>1. /\ at = "analyze" /\ at' \in {"update", "load"} /\ root'.gen = count.gens
      /\ UNCHANGED <<hup, new, todo, numbered, asyncs, actors, groups, stopped, threads,
                     count, interrupted>>
  BY DEF Analyzed, Now, lists, marks
<1>2. Typed' /\ Known' /\ TodoKnown' /\ AsyncsKnown'
  BY <1>1 DEF StopInv, Typed, Finite, Known, TodoKnown, AsyncsKnown, Looking, Ids
<1>3. Orderly => Orderly'
  BY <1>1 DEF Orderly, Preparing, AllStopped, Looking, OfGen
<1> QED BY <1>1, <1>2, <1>3 DEF StopInv

\* stop_loops, of a post or of a signal: whoever looks is told.
LEMMA StopLoopsTells ==
  ASSUME StopInv, StopLoops, threads' = threads
  PROVE  /\ AllStopped' /\ Known' /\ AsyncsKnown'
         /\ asyncs' = <<>> /\ groups' = <<>>
         /\ actors \cup stopped \subseteq actors' \cup stopped'
<1>1. /\ asyncs' = <<>> /\ groups' = <<>> /\ actors' = {}
      /\ stopped' = stopped \cup actors \cup Ids(groups)
  BY DEF StopLoops, Ids, Range
<1>2. AllStopped'
  BY <1>1 DEF StopInv, Known, AllStopped, Looking
<1> QED BY <1>1, <1>2, EmptyList DEF AllStopped, Known, AsyncsKnown

LEMMA PostKeepsStop ==
  ASSUME StopInv, NEW c \in Posted, Post(c)
  PROVE  StopInv'
<1>1. /\ StopLoops /\ threads' = threads /\ todo' = todo /\ numbered' = 0
      /\ new' = Plan(c, TRUE) /\ at = "serve" /\ at' = "build" /\ ~hup /\ hup' = hup
      /\ interrupted' = FALSE /\ count' = [count EXCEPT !.posts = @ + 1]
  BY DEF Post, Now, ClearLists
<1>2. /\ AllStopped' /\ Known' /\ AsyncsKnown'
      /\ asyncs' = <<>> /\ groups' = <<>>
      /\ actors \cup stopped \subseteq actors' \cup stopped'
  BY <1>1, StopLoopsTells
<1>3. "gens" \in DOMAIN count' /\ count'.gens = count.gens
  BY <1>1 DEF StopInv, Typed
<1>4. Typed'
  BY <1>1, <1>2, <1>3, PlanTyped, EmptyList DEF StopInv, Typed, Finite
<1>5. TodoKnown'
  BY <1>1, <1>2 DEF StopInv, TodoKnown
<1>6. Orderly'
  BY <1>1, <1>2 DEF Orderly, Preparing
<1> QED BY <1>1, <1>2, <1>4, <1>5, <1>6 DEF StopInv

LEMMA HangupKeepsStop ==
  ASSUME StopInv, Hangup
  PROVE  StopInv'
<1>1. /\ UNCHANGED <<new, root>> /\ count' = [count EXCEPT !.hangups = @ + 1]
  BY DEF Hangup, definition
<1>2. "gens" \in DOMAIN count' /\ count'.gens = count.gens
  BY <1>1 DEF StopInv, Typed
<1>3. CASE Exit /\ UNCHANGED <<lists, stopped, interrupted>>
  <2>1. /\ UNCHANGED <<numbered, asyncs, actors, groups, stopped, interrupted>>
        /\ at' = "down" /\ threads' = {} /\ todo' = <<>> /\ hup' = FALSE
    BY <1>3 DEF Exit, lists
  <2>2. Typed' /\ Known' /\ TodoKnown' /\ AsyncsKnown'
    BY <1>1, <1>2, <2>1, EmptyList
    DEF StopInv, Typed, Finite, Known, TodoKnown, AsyncsKnown, Looking
  <2>3. Orderly'
    BY <2>1 DEF Orderly, Preparing
  <2> QED BY <2>1, <2>2, <2>3 DEF StopInv
<1>4. CASE ~(Exit /\ UNCHANGED <<lists, stopped, interrupted>>)
  <2>1. /\ StopLoops /\ threads' = threads /\ todo' = todo /\ at' = at /\ numbered' = 0
        /\ hup' = TRUE /\ interrupted' = (at # "serve")
    BY <1>4 DEF Hangup, ClearLists
  <2>2. /\ AllStopped' /\ Known' /\ AsyncsKnown'
        /\ asyncs' = <<>> /\ groups' = <<>>
        /\ actors \cup stopped \subseteq actors' \cup stopped'
    BY <2>1, StopLoopsTells
  <2>3. Typed'
    BY <1>1, <1>2, <2>1, <2>2, EmptyList DEF StopInv, Typed, Finite
  <2>4. TodoKnown'
    BY <2>1, <2>2 DEF StopInv, TodoKnown
  <2>5. ~interrupted' => Orderly'
    BY <2>1, <2>2 DEF Orderly, Preparing, AllStopped, OnlyNew
  <2> QED BY <2>1, <2>2, <2>3, <2>4, <2>5 DEF StopInv
<1> QED BY <1>3, <1>4

\* A group has the generation of its service.
LEMMA GroupsOfList ==
  ASSUME NEW s, IsFiniteSet(DOMAIN s.actors)
  PROVE  IsList(GroupsOf(s)) /\ \A g \in Range(GroupsOf(s)) : g.id.gen = s.gen
<1> DEFINE firsts == {k \in Reading(s) : k = Min(SameTopic(s, k))}
           n == Cardinality(firsts)
           G == GroupsOf(s)
<1>1. n \in Nat
  <2>1. firsts \subseteq DOMAIN s.actors
    BY DEF Reading
  <2>2. IsFiniteSet(firsts)
    BY <2>1, FS_Subset
  <2> HIDE DEF firsts
  <2> QED BY <2>2, FS_CardinalityType
<1>2. G = [i \in 1..n |-> G[i]] /\ \A i \in 1..n : G[i].id.gen = s.gen
  BY DEF GroupsOf
<1> HIDE DEF n, G
<1>3. G \in Seq(Range(G)) /\ \A g \in Range(G) : g.id.gen = s.gen
  <2>1. DOMAIN G = 1..n
    BY <1>2
  <2>2. \A i \in 1..n : G[i] \in Range(G)
    BY <2>1 DEF Range
  <2>3. G \in [1..n -> Range(G)]
    BY <1>2, <2>2
  <2>4. G \in Seq(Range(G))
    BY <1>1, <2>3
  <2> QED BY <1>2, <2>1, <2>4 DEF Range
<1> QED BY <1>3 DEF IsList, G

LEMMA StartServiceKeepsStop ==
  ASSUME StopInv, StartService
  PROVE  StopInv'
<1> DEFINE s == Head(todo)
           all == groups \o GroupsOf(s)
           n == count.threads
           producing ==
             {Thread(n + k, ActorId(s.gen, s.sid, k), s.type, {<<k, s.actors[k].writes>>}) :
                k \in {j \in DOMAIN s.actors : s.actors[j].loops}}
           consuming ==
             {Thread(n + Len(s.actors) + g, all[g].id, all[g].type, all[g].members) :
                g \in DOMAIN all}
           started == producing \cup consuming
<1>1. /\ at = "start" /\ todo # <<>> /\ todo' = Tail(todo)
      /\ threads' = threads \cup {t \in started : ~MayLeave(t)}
      /\ groups' = all
      /\ count' = [count EXCEPT !.threads = @ + Len(s.actors) + Len(all)]
      /\ UNCHANGED <<at, new, hup, root, numbered, asyncs, actors, stopped, interrupted>>
  BY DEF StartService, definition, marks
<1>2. /\ IsList(Tail(todo)) /\ Range(Tail(todo)) \subseteq Range(todo) /\ s \in Range(todo)
  BY <1>1, TailList DEF StopInv, Typed
<1>3. IsList(GroupsOf(s)) /\ \A g \in Range(GroupsOf(s)) : g.id.gen = s.gen
  BY <1>2, GroupsOfList DEF StopInv, Typed, Finite
<1>4. IsList(groups') /\ Range(groups') = Range(groups) \cup Range(GroupsOf(s))
  BY <1>1, <1>3, ConcatList DEF StopInv, Typed
<1>5. \A t \in producing : DOMAIN t = Fields /\ t.id \in IdsOf(s) /\ t.id.gen = s.gen
  BY DEF Thread, Fields, IdsOf, ActorId
<1>6. \A t \in consuming : DOMAIN t = Fields /\ t.id \in Ids(groups)'
  BY <1>1 DEF Thread, Fields, Ids, Range
<1> HIDE DEF s, all, producing, consuming
<1>7. "gens" \in DOMAIN count' /\ count'.gens = count.gens
  BY <1>1 DEF StopInv, Typed
<1>8. Typed'
  BY <1>1, <1>2, <1>4, <1>5, <1>6, <1>7 DEF StopInv, Typed, Finite
<1>9. \A t \in Looking' : t \in Looking \/ t \in producing \/ t \in consuming
  BY <1>1 DEF Looking
<1>10. Known'
  <2>1. Ids(groups) \subseteq Ids(groups)'
    BY <1>4 DEF Ids
  <2>2. IdsOf(s) \subseteq actors' \cup stopped'
    BY <1>1, <1>2 DEF StopInv, TodoKnown
  <2> QED BY <1>1, <1>5, <1>6, <1>9, <2>1, <2>2 DEF StopInv, Known
<1>11. TodoKnown' /\ AsyncsKnown'
  BY <1>1, <1>2 DEF StopInv, TodoKnown, AsyncsKnown
<1>12. ASSUME Orderly PROVE Orderly'
  <2>1. s.gen = root.gen /\ OfGen(todo, root.gen)'
    BY <1>1, <1>2, <1>12 DEF Orderly, OfGen
  <2>2. \A id \in Ids(groups)' : id.gen = root.gen
    BY <1>1, <1>3, <1>4, <1>12, <2>1 DEF Orderly, Ids
  <2>3. OnlyNew'
    BY <1>1, <1>5, <1>6, <1>9, <1>12, <2>1, <2>2 DEF Orderly, OnlyNew
  <2> QED BY <1>1, <1>12, <2>1, <2>2, <2>3 DEF Orderly, Preparing
<1> QED BY <1>1, <1>8, <1>10, <1>11, <1>12 DEF StopInv

LEMMA NextKeepsStop == StopInv /\ [Next]_vars => StopInv'
<1> SUFFICES ASSUME StopInv, [Next]_vars PROVE StopInv'
  OBVIOUS
<1>1. CASE UNCHANGED vars
  BY <1>1 DEF vars, main, definition, lists, marks, StopInv, Typed, Finite, Known, TodoKnown,
       AsyncsKnown, Orderly, Looking, Ids, AllStopped, OnlyNew, OfGen
<1>2. ASSUME NEW t \in threads, ThreadStep(t) PROVE StopInv'
  BY <1>2, ThreadKeepsStop
<1>3. ASSUME NEW c \in Posted, Post(c) PROVE StopInv'
  BY <1>3, PostKeepsStop
<1>4. CASE Build \/ Load \/ Register \/ Update \/ Reset \/ RunLoops \/ Started \/ Restart
  BY <1>4, QuietKeepsStop
<1>5. CASE Analyze
  BY <1>5, AnalyzeKeepsStop
<1>6. CASE Analyzed
  BY <1>6, AnalyzedKeepsStop
<1>7. CASE StartService
  BY <1>7, StartServiceKeepsStop
<1>8. CASE Hangup
  BY <1>8, HangupKeepsStop
<1> QED BY <1>1, <1>2, <1>3, <1>4, <1>5, <1>6, <1>7, <1>8 DEF Next, Boot, Looping, Posting, Signals

\* Whenever the program serves, the threads that go on unasked are those of
\* the configuration in force, unless a signal broke into its post: whatever
\* was posted and refused before, and however many threads there are.
THEOREM OldToldToStop == Spec => []OldStopped
<1>1. StopInv => OldStopped
  BY DEF StopInv, Orderly, OldStopped, Settled, OnlyNew
<1> QED BY <1>1, InitStop, NextKeepsStop, PTL DEF Spec

-----------------------------------------------------------------------------
(***************************************************************************)
(* The total of the statistics.  A thread between the read and the write   *)
(* of its += holds no more than was counted, unless a reset came between.  *)
(***************************************************************************)
TotalInv ==
  /\ total \in Nat /\ since \in Nat /\ undone \in BOOLEAN
  /\ \A t \in threads : DOMAIN t = Fields /\ t.held \in Nat
  /\ ~undone => /\ total <= since
                /\ \A t \in threads : t.pc = "held" /\ ~t.stale => t.held <= since

LEMMA ThreadKeepsTotal ==
  ASSUME TotalInv, NEW t \in threads, ThreadStep(t)
  PROVE  TotalInv'
<1> DEFINE Calm(u) == DOMAIN u = Fields /\ u.held \in Nat /\ u.pc # "held"
<1>1. DOMAIN t = Fields /\ t.held \in Nat
  BY DEF TotalInv
<1>2. ASSUME UNCHANGED counters, \A u \in threads' : u \in threads \/ Calm(u)
      PROVE  TotalInv'
  BY <1>2 DEF TotalInv, counters
<1>3. ASSUME Resumes(t) PROVE \A u \in threads' : u \in threads \/ Calm(u)
  <2> DEFINE v == [t EXCEPT !.pc = "wait", !.k = No, !.endpoint = No, !.held = 0]
  <2>1. DOMAIN v = Fields /\ v.held = 0 /\ v.pc = "wait"
    BY <1>1 DEF Fields
  <2>2. Calm(v)
    BY <2>1
  <2>3. threads' = threads \ {t} \/ threads' = (threads \ {t}) \cup {v}
    BY <1>3 DEF Resumes, Becomes
  <2> QED BY <2>2, <2>3
<1>4. ASSUME Fails(t) PROVE \A u \in threads' : u \in threads \/ Calm(u)
  <2> DEFINE v == [t EXCEPT !.pc = "died", !.stale = FALSE]
  <2>1. DOMAIN v = Fields /\ v.held = t.held /\ v.pc = "died"
    BY <1>1 DEF Fields
  <2>2. Calm(v)
    BY <1>1, <2>1
  <2>3. Resumes(t) \/ threads' = (threads \ {t}) \cup {v}
    BY <1>4 DEF Fails, Becomes
  <2> HIDE DEF v, Calm
  <2> QED BY <1>3, <2>2, <2>3
<1>5. CASE Idle(t)
  BY <1>2, <1>5 DEF Idle
<1>6. CASE Message(t)
  BY <1>1, <1>2, <1>6 DEF Message, Becomes, Fields
<1>7. CASE ReadTotal(t)
  <2>1. CASE Fails(t)
    BY <1>2, <1>4, <1>7, <2>1 DEF ReadTotal
  <2>2. CASE Becomes(t, [t EXCEPT !.pc = "held", !.held = total])
    <3>1. \A u \in threads' : \/ u \in threads
                              \/ DOMAIN u = Fields /\ u.held = total /\ u.stale = t.stale
      BY <1>1, <2>2 DEF Becomes, Fields
    <3> QED BY <1>1, <1>7, <3>1 DEF ReadTotal, TotalInv, counters
  <2> QED BY <1>7, <2>1, <2>2 DEF ReadTotal
<1>8. CASE WriteTotal(t)
  <2>1. \A u \in threads' : u \in threads \/ Calm(u)
    BY <1>1, <1>8 DEF WriteTotal, Becomes, Fields
  <2>2. /\ total' = t.held + 1 /\ since' = since + 1 /\ t.pc = "held"
        /\ undone' = (undone \/ t.stale)
    BY <1>8 DEF WriteTotal
  <2>3. ~undone' => ~undone /\ ~t.stale
    BY <2>2
  <2>4. undone' \in BOOLEAN
    BY <2>2
  <2>5. ~undone' => t.held <= since
    BY <2>2, <2>3 DEF TotalInv
  <2> QED BY <1>1, <2>1, <2>2, <2>3, <2>4, <2>5 DEF TotalInv
<1>9. CASE Finish(t)
  BY <1>2, <1>3, <1>4, <1>9 DEF Finish
<1> QED BY <1>5, <1>6, <1>7, <1>8, <1>9 DEF ThreadStep

LEMMA InitTotal == Init => TotalInv
<1> SUFFICES ASSUME Init PROVE TotalInv
  OBVIOUS
<1>1. total = 0 /\ since = 0 /\ threads = {} /\ undone = FALSE
  BY DEF Init
<1>2. undone \in BOOLEAN
  BY <1>1
<1> QED BY <1>1, <1>2 DEF TotalInv

LEMMA NextKeepsTotal == TotalInv /\ [Next]_vars => TotalInv'
<1> SUFFICES ASSUME TotalInv, [Next]_vars PROVE TotalInv'
  OBVIOUS
<1> DEFINE Calm(u) == DOMAIN u = Fields /\ u.held \in Nat /\ u.pc # "held"
<1>1. ASSUME NEW t \in threads, ThreadStep(t) PROVE TotalInv'
  BY <1>1, ThreadKeepsTotal
<1>2. ASSUME UNCHANGED counters, threads' = threads \/ threads' = {} PROVE TotalInv'
  BY <1>2 DEF TotalInv, counters
<1>3. CASE UNCHANGED vars \/ Build \/ Analyze \/ Analyzed \/ Load \/ Register
           \/ RunLoops \/ Started \/ Update \/ Hangup \/ Restart
           \/ \E c \in Posted : Post(c)
  BY <1>2, <1>3 DEF vars, Build, Analyze, Analyzed, Load, Register, RunLoops, Started, Update,
       Hangup, Restart, Post, Exit
<1>4. CASE StartService
  <2> DEFINE s == Head(todo)
             all == groups \o GroupsOf(s)
             n == count.threads
             producing ==
               {Thread(n + k, ActorId(s.gen, s.sid, k), s.type, {<<k, s.actors[k].writes>>}) :
                  k \in {j \in DOMAIN s.actors : s.actors[j].loops}}
             consuming ==
               {Thread(n + Len(s.actors) + g, all[g].id, all[g].type, all[g].members) :
                  g \in DOMAIN all}
  <2>1. \A t \in producing \cup consuming : Calm(t)
    BY DEF Thread, Fields
  <2>2. UNCHANGED counters /\ threads' \subseteq threads \cup producing \cup consuming
    BY <1>4 DEF StartService
  <2> HIDE DEF producing, consuming
  <2> QED BY <2>1, <2>2 DEF TotalInv, counters
<1>5. CASE Reset
  <2>1. \A u \in threads' : \E t \in threads :
          DOMAIN u = Fields /\ u.held = t.held /\ u.pc = t.pc /\ u.stale = (t.pc = "held")
    BY <1>5 DEF Reset, TotalInv, Fields
  <2>2. total' = 0 /\ since' = 0 /\ undone' = FALSE
    BY <1>5 DEF Reset, ResetTotal
  <2>3. \A u \in threads' : u.held \in Nat /\ DOMAIN u = Fields
    BY <2>1 DEF TotalInv
  <2>4. undone' \in BOOLEAN
    BY <2>2
  <2>5. \A u \in threads' : u.pc = "held" => u.stale
    BY <2>1
  <2> QED BY <2>2, <2>3, <2>4, <2>5 DEF TotalInv
<1> QED BY <1>1, <1>3, <1>4, <1>5 DEF Next, Boot, Looping, Posting, Signals

\* Lost updates make the total of the statistics smaller, never larger, but for
\* a += that a reset fell into: with any number of threads and configurations.
THEOREM TotalWithin == Spec => []TotalNotAbove
<1>1. TotalInv => TotalNotAbove
  BY DEF TotalInv, TotalNotAbove
<1> QED BY <1>1, InitTotal, NextKeepsTotal, PTL DEF Spec

-----------------------------------------------------------------------------
(***************************************************************************)
(* The applications.  The HTTP services stand in their list at the number  *)
(* of their application; the check of restricted fields compares ports     *)
(* with the configuration in force (data), place by place.                 *)
(***************************************************************************)
FromConfig(config, base) ==
  \A h \in Range(https) : LET p == h.sid - base IN
    /\ p \in DOMAIN config /\ config[p].type = "http"
    /\ config[p].port = h.port /\ config[p].items = h.routes
PortsKept(config) ==
  \A i \in DOMAIN apps : LET p == apps[i].place IN
    p \in DOMAIN config /\ config[p].type = "http" => config[p].port = apps[i].port
RoutesKept == \A i \in DOMAIN apps \cap DOMAIN https : apps[i].routes = https[i].routes

Serving == {"register", "run", "start", "serve"}
Sited ==
  /\ at \notin {"serve", "down"} => ~failed
  /\ at = "build" => https = <<>>
  /\ at = "analyze" => FromConfig(new.config, new.base)
  /\ at = "analyze" /\ ~new.post => data = new.config
  /\ at \in {"build", "analyze"} /\ new.post => PortsKept(data) /\ PortsKept(new.config)
  /\ at = "load" => data = root.config
  /\ at \in {"load", "update", "reset"} =>
       root.config = new.config /\ FromConfig(root.config, root.base)
  /\ at \in {"update", "reset"} => PortsKept(data) /\ PortsKept(new.config)
  /\ at = "reset" => RoutesKept
  /\ at \in Serving => PortsKept(data)
  /\ at \in Serving /\ ~failed => data = root.config
  /\ at \in Serving /\ ~failed /\ ~hup => FromConfig(root.config, root.base) /\ RoutesKept
  /\ hup => at = "serve" /\ https = <<>>

AppFields == {"port", "sid", "place", "routes"}
NewTyped == new \in [config : Files \cup Posted, k : Nat \ {0}, base : Nat, post : BOOLEAN]
SiteInv ==
  /\ NewTyped /\ IsList(https) /\ numbered \in Nat
  /\ \A i \in DOMAIN apps : DOMAIN apps[i] = AppFields
  /\ failed \in BOOLEAN /\ hup \in BOOLEAN /\ torn \in BOOLEAN
  /\ ~torn => Sited

LEMMA InitSite == Init => SiteInv
<1> SUFFICES ASSUME Init PROVE SiteInv
  OBVIOUS
<1>1. /\ at = "build" /\ https = <<>> /\ apps = <<>> /\ numbered = 0
      /\ failed = FALSE /\ hup = FALSE /\ torn = FALSE /\ new.post = FALSE
  BY DEF Init, Plan
<1>2. NewTyped
  BY PlanTyped DEF Init, NewTyped
<1>3. failed \in BOOLEAN /\ hup \in BOOLEAN /\ torn \in BOOLEAN
  BY <1>1
<1>4. Sited
  BY <1>1 DEF Sited, Serving
<1> QED BY <1>1, <1>2, <1>3, <1>4, EmptyList DEF SiteInv

\* The steps that neither build nor change a list or an application.
LEMMA QuietKeepsSite ==
  ASSUME SiteInv,
         \/ RunLoops \/ StartService \/ Started \/ Register \/ Reset \/ Restart
         \/ \E t \in threads : ThreadStep(t)
         \/ UNCHANGED vars
  PROVE  SiteInv'
<1>1. UNCHANGED <<root, https, apps, numbered, torn>>
  BY DEF RunLoops, StartService, Started, Register, Reset, Restart, ThreadStep, definition, lists,
         marks, vars
<1>2. CASE Restart
  <2>1. hup /\ at' = "build" /\ hup' = FALSE /\ failed' = FALSE /\ new'.post = FALSE
    BY <1>2 DEF Restart, Plan
  <2>2. NewTyped'
    BY <1>2, PlanTyped DEF Restart, NewTyped
  <2>3. Sited => Sited'
    BY <1>1, <2>1 DEF Sited, Serving
  <2>4. hup' \in BOOLEAN /\ failed' \in BOOLEAN
    BY <2>1
  <2> QED BY <1>1, <2>2, <2>3, <2>4 DEF SiteInv
<1>3. CASE Reset
  <2>1. /\ at = "reset" /\ at' = "run" /\ data' = new.config
        /\ UNCHANGED <<new, hup, failed>>
    BY <1>3 DEF Reset, Now, marks
  <2>2. Sited => Sited'
    BY <1>1, <2>1 DEF Sited, Serving, FromConfig, PortsKept, RoutesKept
  <2> QED BY <1>1, <2>1, <2>2 DEF SiteInv, NewTyped
<1>4. CASE RunLoops \/ StartService \/ Started \/ Register
  <2>1. /\ at \in {"register", "run", "start"} /\ at' \in Serving
        /\ UNCHANGED <<new, data, hup, failed>>
    BY <1>4 DEF RunLoops, StartService, Started, Register, Now, definition, marks, Serving
  <2>2. Sited => Sited'
    BY <1>1, <2>1 DEF Sited, Serving, FromConfig, PortsKept, RoutesKept
  <2> QED BY <1>1, <2>1, <2>2 DEF SiteInv, NewTyped
<1>5. CASE (\E t \in threads : ThreadStep(t)) \/ UNCHANGED vars
  <2>1. UNCHANGED <<at, new, data, hup, failed>>
    BY <1>5 DEF ThreadStep, vars, main, definition, marks
  <2>2. Sited => Sited'
    BY <1>1, <2>1 DEF Sited, FromConfig, PortsKept, RoutesKept
  <2> QED BY <1>1, <2>1, <2>2 DEF SiteInv, NewTyped
<1> QED BY <1>2, <1>3, <1>4, <1>5

LEMMA BuildKeepsSite ==
  ASSUME SiteInv, Build
  PROVE  SiteInv'
<1>1. /\ at = "build" /\ at' = "analyze" /\ new' = [new EXCEPT !.base = numbered]
      /\ numbered' = numbered + Len(new.config)
      /\ data' = IF new.post THEN data ELSE new.config
      /\ UNCHANGED <<hup, https, apps, failed, torn>>
  BY DEF Build, Now, marks
<1>2. /\ NewTyped' /\ new'.config = new.config /\ new'.post = new.post
      /\ numbered' \in Nat
  <2>1. Len(new.config) \in Nat
    BY LifecycleAssumption DEF SiteInv, NewTyped
  <2> QED BY <1>1, <2>1 DEF SiteInv, NewTyped
<1>3. ASSUME Sited PROVE Sited'
  <2>1. https' = <<>> /\ FromConfig(new.config, new.base)'
    BY <1>1, <1>3, EmptyList DEF Sited, FromConfig
  <2> QED BY <1>1, <1>2, <1>3, <2>1 DEF Sited, Serving, PortsKept
<1> QED BY <1>1, <1>2, <1>3 DEF SiteInv

\* Where nothing raises an HTTP service has all its endpoints.
LEMMA ReadAll ==
  ASSUME NEW s, IsList(s), NEW n \in 0..Len(s), ReadTo(s, n), Unreadable(s) = {}
  PROVE  SubSeq(s, 1, n) = s
<1>1. n = Len(s)
  BY DEF ReadTo
<1> QED BY <1>1, SubSeqFull DEF IsList

\* The endpoints before the one that raises are a list.
LEMMA ReadList ==
  ASSUME NEW s, IsList(s), NEW n \in 0..Len(s)
  PROVE  IsList(SubSeq(s, 1, n))
<1> DEFINE u == SubSeq(s, 1, n)
<1>1. s \in Seq(Range(s)) /\ Len(s) \in Nat
  BY DEF IsList
<1>2. \A k \in 1..n : s[k] \in Range(s)
  BY <1>1
<1>3. /\ u \in Seq(Range(s))
      /\ Len(u) = n
  BY <1>1, <1>2, SubSeqProperties
<1> HIDE DEF u
<1>4. \A k \in 1..Len(u) : u[k] \in Range(u)
  BY <1>3 DEF Range
<1> QED BY <1>3, <1>4, SeqDef DEF IsList, u

\* An HTTP service enters the list at its place of the configuration.
LEMMA AnalyzeKeepsSite ==
  ASSUME SiteInv, Analyze
  PROVE  SiteInv'
<1>1. /\ at = "analyze" /\ new.k <= Len(new.config)
      /\ UNCHANGED <<data, apps, numbered, torn>>
  BY DEF Analyze, definition
<1>2. /\ \/ at' = "analyze" /\ hup' = hup /\ failed' = failed
            /\ new' = [new EXCEPT !.k = @ + 1]
         \/ at' = "serve" /\ hup' = hup /\ failed' = TRUE /\ new' = new /\ new.post
         \/ at' = "down" /\ hup' = FALSE /\ failed' = failed /\ new' = new
  BY DEF Analyze, Now, Exit
<1>3. /\ NewTyped' /\ new'.config = new.config /\ new'.base = new.base
      /\ new'.post = new.post
  BY <1>2 DEF SiteInv, NewTyped
<1>4. /\ IsList(https')
      /\ ~Raises /\ FromConfig(new.config, new.base) => FromConfig(new.config, new.base)'
  <2>1. CASE https' = https
    BY <1>3, <2>1 DEF SiteInv, FromConfig
  <2>2. CASE AnalyzeHttp
    <3>1. PICK n \in 0..Len(Service.items) :
            /\ ReadTo(Service.items, n)
            /\ https' = Append(https, [sid |-> Sid, name |-> Service.name, port |-> Service.port,
                                       routes |-> SubSeq(Service.items, 1, n)])
      BY <2>2 DEF AnalyzeHttp
    <3> DEFINE h == [sid |-> Sid, name |-> Service.name, port |-> Service.port,
                     routes |-> SubSeq(Service.items, 1, n)]
    <3>2. https' = Append(https, h) /\ Service.type = "http"
      BY <2>2, <3>1 DEF AnalyzeHttp
    <3>3. new.k \in DOMAIN new.config
      BY <1>1, LifecycleAssumption DEF SiteInv, NewTyped
    <3>4. /\ h.sid - new.base = new.k /\ h.port = new.config[new.k].port
          /\ new.config[new.k].type = "http"
      BY <3>2 DEF SiteInv, NewTyped, Service, Sid
    <3>5. ~Raises => h.routes = new.config[new.k].items
      <4>1. IsList(Service.items)
        BY <3>3, LifecycleAssumption DEF SiteInv, NewTyped, Service, IsList
      <4> QED BY <3>1, <3>2, <4>1, ReadAll DEF Service, Raises
    <3> HIDE DEF h
    <3>6. IsList(https') /\ Range(https') = Range(https) \cup {h}
      BY <3>2, AppendList DEF SiteInv
    <3> QED BY <1>3, <3>3, <3>4, <3>5, <3>6 DEF FromConfig
  <2> QED BY <2>1, <2>2 DEF Analyze, AnalyzeAsync
<1>5. failed' \in BOOLEAN /\ hup' \in BOOLEAN
  BY <1>2 DEF SiteInv
<1>6. ASSUME Sited PROVE Sited'
  <2>1. CASE at' = "analyze"
    BY <1>1, <1>2, <1>3, <1>4, <1>6, <2>1 DEF Sited, Serving, PortsKept, Analyze, Now, Exit
  <2>2. CASE at' = "serve"
    BY <1>1, <1>2, <1>3, <1>4, <1>6, <2>2 DEF Sited, Serving, PortsKept
  <2>3. CASE at' = "down"
    BY <1>1, <1>2, <1>6, <2>3 DEF Sited, Serving
  <2> QED BY <1>2, <2>1, <2>2, <2>3
<1> QED BY <1>1, <1>3, <1>4, <1>5, <1>6 DEF SiteInv

LEMMA AnalyzedKeepsSite ==
  ASSUME SiteInv, Analyzed
  PROVE  SiteInv'
<1>1. /\ at = "analyze" /\ at' = (IF new.post THEN "update" ELSE "load")
      /\ root'.config = new.config /\ root'.base = new.base
      /\ UNCHANGED <<new, hup, data, https, apps, numbered, failed, torn>>
  BY DEF Analyzed, Now, lists, marks
<1>2. Sited => Sited'
  BY <1>1 DEF Sited, Serving, FromConfig, PortsKept
<1> QED BY <1>1, <1>2 DEF SiteInv, NewTyped

LEMMA LoadKeepsSite ==
  ASSUME SiteInv, Load
  PROVE  SiteInv'
<1>1. at = "load" /\ UNCHANGED <<new, root, data, https, numbered, failed, torn>>
  BY DEF Load, lists, marks
<1>2. CASE at' = "down" /\ hup' = FALSE /\ apps' = apps
  BY <1>1, <1>2 DEF SiteInv, NewTyped, Sited, Serving
<1>3. CASE ~(at' = "down" /\ hup' = FALSE /\ apps' = apps)
  <2>1. /\ at' = "register" /\ hup' = hup
        /\ apps' = [i \in Loaded |->
             [port |-> https[i].port, sid |-> https[i].sid,
              place |-> https[i].sid - root.base, routes |-> https[i].routes]]
    BY <1>3 DEF Load, Now, Exit
  <2>2. Loaded \subseteq DOMAIN https
    BY DEF Loaded
  <2>3. /\ DOMAIN apps' = Loaded
        /\ \A i \in DOMAIN apps' :
             /\ apps'[i].port = https[i].port /\ apps'[i].routes = https[i].routes
             /\ apps'[i].place = https[i].sid - root.base
             /\ DOMAIN apps'[i] = AppFields
    BY <2>1 DEF AppFields
  <2>4. ASSUME Sited PROVE Sited'
    <3>1. FromConfig(root.config, root.base) /\ data = root.config
      BY <1>1, <2>4 DEF Sited
    <3>2. \A i \in DOMAIN apps' : https[i] \in Range(https)
      BY <2>2, <2>3 DEF Range
    <3>3. PortsKept(data)'
      BY <1>1, <2>3, <3>1, <3>2 DEF FromConfig, PortsKept
    <3>4. RoutesKept' /\ FromConfig(root.config, root.base)'
      BY <1>1, <2>3, <3>1 DEF FromConfig, RoutesKept
    <3> QED BY <1>1, <2>1, <2>4, <3>1, <3>3, <3>4 DEF Sited, Serving
  <2> QED BY <1>1, <2>1, <2>3, <2>4 DEF SiteInv, NewTyped
<1> QED BY <1>2, <1>3

\* The ports of what is posted are those of the applications at its places.
LEMMA PostKeepsSite ==
  ASSUME SiteInv, NEW c \in Posted, Post(c)
  PROVE  SiteInv'
<1>1. /\ at = "serve" /\ at' = "build" /\ hup' = hup /\ ~hup /\ Allowed(c)
      /\ https' = <<>> /\ numbered' = 0 /\ failed' = FALSE /\ new' = Plan(c, TRUE)
      /\ UNCHANGED <<root, data, apps, torn>>
  BY DEF Post, Now, ClearLists, definition
<1>2. NewTyped' /\ new'.config = c /\ new'.post
  BY <1>1, PlanTyped DEF NewTyped, Plan
<1>3. ASSUME Sited PROVE Sited'
  <2>1. PortsKept(data)
    BY <1>1, <1>3 DEF Sited, Serving
  <2>2. PortsKept(c)
    BY <1>1, <2>1 DEF PortsKept, Allowed
  <2> QED BY <1>1, <1>2, <2>1, <2>2 DEF Sited, Serving, PortsKept
<1>4. failed' \in BOOLEAN
  BY <1>1
<1> QED BY <1>1, <1>2, <1>3, <1>4, EmptyList DEF SiteInv

LEMMA UpdateKeepsSite ==
  ASSUME SiteInv, Update
  PROVE  SiteInv'
<1> DEFINE bad == DOMAIN https \ DOMAIN apps
           reached == {i \in DOMAIN https : \A j \in bad : i <= j}
<1>1. /\ at = "update" /\ failed' = (bad # {})
      /\ at' = (IF bad = {} THEN "reset" ELSE "serve")
      /\ apps' = [i \in DOMAIN apps |->
           IF i \in reached THEN [apps[i] EXCEPT !.routes = NewRoutes(i)] ELSE apps[i]]
      /\ UNCHANGED <<new, hup, root, data, https, numbered, torn>>
  BY DEF Update, Now, lists
<1>2. failed' \in BOOLEAN
  BY <1>1
<1>3. /\ DOMAIN apps' = DOMAIN apps
      /\ \A i \in DOMAIN apps :
           /\ apps'[i].port = apps[i].port /\ apps'[i].place = apps[i].place
           /\ DOMAIN apps'[i] = AppFields
           /\ i \in reached => apps'[i].routes = https[i].routes
  BY <1>1 DEF SiteInv, AppFields, NewRoutes
<1>4. bad = {} => RoutesKept'
  BY <1>1, <1>3 DEF RoutesKept
<1> HIDE DEF bad, reached
<1>5. ASSUME Sited PROVE Sited'
  <2>1. PortsKept(data)' /\ PortsKept(new.config)'
    BY <1>1, <1>3, <1>5 DEF Sited, PortsKept
  <2>2. CASE bad = {}
    BY <1>1, <1>4, <1>5, <2>1, <2>2 DEF Sited, Serving, FromConfig
  <2>3. CASE bad # {}
    BY <1>1, <1>5, <2>1, <2>3 DEF Sited, Serving
  <2> QED BY <2>2, <2>3
<1> QED BY <1>1, <1>2, <1>3, <1>5 DEF SiteInv, NewTyped

LEMMA HangupKeepsSite ==
  ASSUME SiteInv, Hangup
  PROVE  SiteInv'
<1>1. UNCHANGED <<new, root, data, apps, failed>>
  BY DEF Hangup, definition
<1>2. CASE Exit /\ UNCHANGED <<lists, torn>>
  BY <1>1, <1>2 DEF Exit, lists, SiteInv, NewTyped, Sited, Serving
<1>3. CASE ~(Exit /\ UNCHANGED <<lists, torn>>)
  <2>1. /\ at' = at /\ hup' = TRUE /\ https' = <<>> /\ numbered' = 0
        /\ torn' = (torn \/ at # "serve")
    BY <1>3 DEF Hangup, StopLoops, ClearLists
  <2>2. hup' \in BOOLEAN /\ torn' \in BOOLEAN
    BY <2>1
  <2>3. ~torn' => ~torn /\ at = "serve"
    BY <2>1
  <2>4. ASSUME Sited, at = "serve" PROVE Sited'
    BY <1>1, <2>1, <2>4 DEF Sited, Serving, PortsKept
  <2> QED BY <1>1, <2>1, <2>2, <2>3, <2>4, EmptyList DEF SiteInv, NewTyped
<1> QED BY <1>2, <1>3

LEMMA NextKeepsSite == SiteInv /\ [Next]_vars => SiteInv'
<1> SUFFICES ASSUME SiteInv, [Next]_vars PROVE SiteInv'
  OBVIOUS
<1>1. ASSUME NEW c \in Posted, Post(c) PROVE SiteInv'
  BY <1>1, PostKeepsSite
<1>2. CASE Build \/ Analyze \/ Analyzed \/ Load \/ Update \/ Hangup
  BY <1>2, BuildKeepsSite, AnalyzeKeepsSite, AnalyzedKeepsSite, LoadKeepsSite,
     UpdateKeepsSite, HangupKeepsSite
<1>3. CASE \/ RunLoops \/ StartService \/ Started \/ Register \/ Reset \/ Restart
           \/ \E t \in threads : ThreadStep(t)
           \/ UNCHANGED vars
  BY <1>3, QuietKeepsSite
<1> QED BY <1>1, <1>2, <1>3 DEF Next, Boot, Looping, Posting, Signals

\* Through every post, refused, failed or carried out, and every restart, an
\* application answers with the endpoints of the service that has its port, as
\* long as HTTP services keep their places.
THEOREM ServesItsPort == Spec => []AppsServe
<1>1. ASSUME SiteInv PROVE AppsServe
  <2> SUFFICES ASSUME at = "serve", ~hup, ~failed, ~torn, SamePlaces, NEW i \in DOMAIN apps
               PROVE  LET s == root.config[apps[i].place] IN
                        apps[i].port = s.port /\ apps[i].routes = s.items
    BY DEF AppsServe, Settled
  <2>1. i \in DOMAIN https /\ https[i].sid - root.base = apps[i].place
    BY DEF SamePlaces
  <2>2. /\ FromConfig(root.config, root.base) /\ PortsKept(root.config) /\ RoutesKept
    BY <1>1 DEF SiteInv, Sited, Serving
  <2>3. https[i] \in Range(https)
    BY <2>1 DEF Range
  <2>4. LET p == apps[i].place IN
          /\ p \in DOMAIN root.config /\ root.config[p].type = "http"
          /\ root.config[p].items = https[i].routes
    BY <2>1, <2>2, <2>3 DEF FromConfig
  <2> QED BY <2>1, <2>2, <2>4 DEF PortsKept, RoutesKept
<1> QED BY <1>1, InitSite, NextKeepsSite, PTL DEF Spec
-----------------------------------------------------------------------------
(***************************************************************************)
(* FlattenSeq is a recursive function on the places of its argument: there *)
(* is one, and it is the only one, by the least place where it would fail. *)
(***************************************************************************)
LEMMA LeastExists ==
  ASSUME NEW S, S \subseteq Nat, S # {}
  PROVE  \E x \in S : \A y \in S : x <= y
<1> DEFINE Less == {p \in Nat \X Nat : p[1] < p[2]}
<1>1. IsWellFoundedOn(Less, Nat)
  BY NatLessThanWellFounded DEF OpToRel
<1>2. PICK x \in S : \A y \in S : <<y, x>> \notin Less
  <2> HIDE DEF Less
  <2> QED BY <1>1, WFMin
<1>3. ASSUME NEW y \in S PROVE x <= y
  <2>1. x \in Nat /\ y \in Nat
    OBVIOUS
  <2>2. ~(y < x)
    BY <1>2, <2>1
  <2> QED BY <2>1, <2>2
<1> QED BY <1>3

\* f joins the first n parts of q, each at its place.
Joins(f, q, n) ==
  \A i \in 1..n : f[i] = IF i = 1 THEN q[i] ELSE f[i - 1] \o q[i]

LEMMA JoinExists ==
  ASSUME NEW S, NEW q \in Seq(Seq(S)), NEW n \in 0..Len(q)
  PROVE  \E f \in [1..n -> Seq(S)] : Joins(f, q, n)
<1> DEFINE Has(m) == \E f \in [1..m -> Seq(S)] : Joins(f, q, m)
           Bad == {m \in 0..Len(q) : ~Has(m)}
<1> SUFFICES ASSUME ~Has(n) PROVE FALSE
  OBVIOUS
<1>1. Bad \subseteq Nat /\ Bad # {}
  <2>1. n \in Bad /\ 0..Len(q) \subseteq Nat
    OBVIOUS
  <2> HIDE DEF Has
  <2> QED BY <2>1
<1>2. PICK m \in Bad : \A k \in Bad : m <= k
  <2> HIDE DEF Bad
  <2> QED BY <1>1, LeastExists
<1>3. CASE m = 0
  <2>1. [i \in 1..0 |-> <<>>] \in [1..0 -> Seq(S)]
    OBVIOUS
  <2>2. Joins([i \in 1..0 |-> <<>>], q, 0)
    BY DEF Joins
  <2> QED BY <1>2, <1>3, <2>1, <2>2
<1>4. CASE m # 0
  <2>1. m \in 1..Len(q) /\ m - 1 \in 0..Len(q) /\ ~(m <= m - 1)
    BY <1>2, <1>4
  <2>2. PICK f \in [1..(m - 1) -> Seq(S)] : Joins(f, q, m - 1)
    BY <1>2, <2>1
  <2> DEFINE last == IF m = 1 THEN q[m] ELSE f[m - 1] \o q[m]
             g == [i \in 1..m |-> IF i = m THEN last ELSE f[i]]
  <2>3. last \in Seq(S)
    <3>1. q[m] \in Seq(S)
      BY <2>1
    <3>2. CASE m # 1
      <4>1. f[m - 1] \in Seq(S)
        BY <2>1, <3>2
      <4> QED BY <3>1, <3>2, <4>1
    <3> QED BY <3>1, <3>2
  <2>4. g \in [1..m -> Seq(S)]
    <3>1. \A i \in 1..m : i # m => i \in 1..(m - 1)
      BY <2>1
    <3> HIDE DEF last
    <3> QED BY <2>3, <3>1
  <2>5. Joins(g, q, m)
    <3> SUFFICES ASSUME NEW i \in 1..m
                 PROVE  g[i] = IF i = 1 THEN q[i] ELSE g[i - 1] \o q[i]
      BY DEF Joins
    <3>1. CASE i = m
      <4>1. m # 1 => m - 1 \in 1..m /\ m - 1 # m
        BY <2>1
      <4> QED BY <3>1, <4>1
    <3>2. CASE i # m
      <4>1. i \in 1..(m - 1) /\ (i # 1 => i - 1 \in 1..m /\ i - 1 # m)
        BY <2>1, <3>2
      <4>2. f[i] = IF i = 1 THEN q[i] ELSE f[i - 1] \o q[i]
        BY <2>2, <4>1 DEF Joins
      <4> HIDE DEF last
      <4> QED BY <3>2, <4>1, <4>2
    <3> QED BY <3>1, <3>2
  <2> QED BY <1>2, <2>4, <2>5
<1> QED BY <1>3, <1>4

LEMMA JoinUnique ==
  ASSUME NEW n \in Nat, NEW q, NEW f, NEW g, Joins(f, q, n), Joins(g, q, n)
  PROVE  \A i \in 1..n : f[i] = g[i]
<1> DEFINE Bad == {i \in 1..n : f[i] # g[i]}
<1> SUFFICES ASSUME Bad # {} PROVE FALSE
  OBVIOUS
<1>1. Bad \subseteq Nat
  OBVIOUS
<1>2. PICK m \in Bad : \A k \in Bad : m <= k
  <2> HIDE DEF Bad
  <2> QED BY <1>1, LeastExists
<1>3. m # 1 => f[m - 1] = g[m - 1]
  <2>1. m # 1 => m - 1 \in 1..n /\ ~(m <= m - 1)
    BY <1>2
  <2> QED BY <1>2, <2>1
<1> QED BY <1>2, <1>3 DEF Joins

LEMMA FlattenJoins ==
  ASSUME NEW S, NEW q \in Seq(Seq(S)), q # <<>>
  PROVE  \E f : /\ \A i \in 1..Len(q) : f[i] \in Seq(S)
                /\ Joins(f, q, Len(q)) /\ FlattenSeq(q) = f[Len(q)]
<1> DEFINE Is(f) == f = [i \in 1..Len(q) |-> IF i = 1 THEN q[i] ELSE f[i - 1] \o q[i]]
           c == CHOOSE f : Is(f)
<1>1. Len(q) \in Nat /\ Len(q) # 0
  OBVIOUS
<1>2. PICK f \in [1..Len(q) -> Seq(S)] : Joins(f, q, Len(q))
  <2>1. Len(q) \in 0..Len(q)
    BY <1>1
  <2> QED BY <2>1, JoinExists
<1>3. Is(f)
  BY <1>2 DEF Joins
<1>4. Is(c)
  <2> HIDE DEF Is
  <2> QED BY <1>3
<1>5. FlattenSeq(q) = c[Len(q)]
  BY <1>1 DEF FlattenSeq
<1>6. Joins(c, q, Len(q))
  <2>1. \A i \in 1..Len(q) :
          c[i] = [k \in 1..Len(q) |-> IF k = 1 THEN q[k] ELSE c[k - 1] \o q[k]][i]
    <3> HIDE DEF c
    <3> QED BY <1>4
  <2> HIDE DEF c
  <2> QED BY <2>1 DEF Joins
<1>7. \A i \in 1..Len(q) : c[i] = f[i]
  <2> HIDE DEF c
  <2> QED BY <1>1, <1>2, <1>6, JoinUnique
<1>8. Len(q) \in 1..Len(q)
  BY <1>1
<1>9. FlattenSeq(q) = f[Len(q)]
  BY <1>5, <1>7, <1>8
<1> QED BY <1>2, <1>9

\* The parts one after the other: none, or those of the front and the last.
LEMMA FlattenNone == FlattenSeq(<<>>) = <<>>
BY DEF FlattenSeq

LEMMA FlattenLast ==
  ASSUME NEW S, NEW q \in Seq(Seq(S)), NEW r \in Seq(Seq(S)), Len(q) = Len(r) + 1,
         \A i \in 1..Len(r) : q[i] = r[i]
  PROVE  /\ FlattenSeq(r) \in Seq(S) /\ FlattenSeq(q) \in Seq(S)
         /\ FlattenSeq(q) = FlattenSeq(r) \o q[Len(q)]
<1>1. Len(q) \in Nat /\ Len(r) \in Nat /\ q # <<>> /\ Len(q) \in 1..Len(q)
  OBVIOUS
<1>2. PICK f : /\ \A i \in 1..Len(q) : f[i] \in Seq(S)
               /\ Joins(f, q, Len(q)) /\ FlattenSeq(q) = f[Len(q)]
  BY <1>1, FlattenJoins
<1>3. CASE r = <<>>
  <2>1. Len(q) = 1 /\ f[1] = q[1] /\ q[1] \in Seq(S)
    BY <1>1, <1>2, <1>3 DEF Joins
  <2>2. <<>> \o q[1] = q[1] /\ <<>> \in Seq(S)
    BY <2>1
  <2>3. FlattenSeq(q) = q[1] /\ FlattenSeq(r) = <<>>
    BY <1>2, <1>3, <2>1, FlattenNone
  <2> QED BY <2>1, <2>2, <2>3
<1>4. CASE r # <<>>
  <2>1. PICK g : /\ \A i \in 1..Len(r) : g[i] \in Seq(S)
                 /\ Joins(g, r, Len(r)) /\ FlattenSeq(r) = g[Len(r)]
    BY <1>4, FlattenJoins
  <2>2. Len(r) # 0 /\ Len(r) \in 1..Len(r) /\ Len(q) # 1 /\ Len(q) - 1 = Len(r)
    BY <1>1, <1>4
  <2>3. Joins(f, r, Len(r))
    <3>1. \A i \in 1..Len(r) : i \in 1..Len(q)
      BY <1>1
    <3> QED BY <1>2, <3>1 DEF Joins
  <2>4. f[Len(r)] = g[Len(r)]
    <3>1. \A i \in 1..Len(r) : f[i] = g[i]
      BY <1>1, <2>1, <2>3, JoinUnique
    <3> QED BY <2>2, <3>1
  <2>5. f[Len(q)] = f[Len(q) - 1] \o q[Len(q)]
    BY <1>1, <1>2, <2>2 DEF Joins
  <2>6. f[Len(q)] \in Seq(S) /\ g[Len(r)] \in Seq(S)
    BY <1>1, <1>2, <2>1, <2>2
  <2>7. FlattenSeq(q) = FlattenSeq(r) \o q[Len(q)]
    <3>1. f[Len(q) - 1] = FlattenSeq(r)
      BY <2>1, <2>2, <2>4
    <3> HIDE DEF FlattenSeq
    <3> QED BY <1>2, <2>5, <3>1
  <2>8. FlattenSeq(r) \in Seq(S) /\ FlattenSeq(q) \in Seq(S)
    BY <1>2, <2>1, <2>6
  <2> QED BY <2>7, <2>8
<1> QED BY <1>3, <1>4
-----------------------------------------------------------------------------
(***************************************************************************)
(* The endpoints that actors add, one actor after the other.               *)
(***************************************************************************)
LEMMA FlattenType ==
  ASSUME NEW S, NEW q \in Seq(Seq(S))
  PROVE  FlattenSeq(q) \in Seq(S)
<1>1. CASE q = <<>>
  <2>1. <<>> \in Seq(S)
    OBVIOUS
  <2> QED BY <1>1, <2>1, FlattenNone
<1>2. CASE q # <<>>
  <2>1. PICK f : /\ \A i \in 1..Len(q) : f[i] \in Seq(S)
                 /\ FlattenSeq(q) = f[Len(q)]
    BY <1>2, FlattenJoins
  <2>2. Len(q) \in 1..Len(q)
    BY <1>2
  <2> QED BY <2>1, <2>2
<1> QED BY <1>1, <1>2

HintsOf(items) == UNION {{GetHint(j, items[j]), PutHint(j, items[j])} : j \in Nat}

LEMMA HintsIs ==
  ASSUME NEW items, NEW j \in Nat
  PROVE  /\ Hints(j, items[j]) \in Seq(HintsOf(items))
         /\ Len(Hints(j, items[j])) = (IF Consumes(items[j]) THEN 1 ELSE 0)
                                    + (IF Produces(items[j]) THEN 1 ELSE 0)
         /\ Consumes(items[j]) => Hints(j, items[j])[1] = GetHint(j, items[j])
         /\ Produces(items[j]) =>
              Hints(j, items[j])[Len(Hints(j, items[j]))] = PutHint(j, items[j])
<1> DEFINE S == HintsOf(items)
           g == GetHint(j, items[j])
           p == PutHint(j, items[j])
<1>1. g \in S /\ p \in S
  BY DEF HintsOf
<1>2. Hints(j, items[j]) = (IF Consumes(items[j]) THEN <<g>> ELSE <<>>)
                        \o (IF Produces(items[j]) THEN <<p>> ELSE <<>>)
  BY DEF Hints
<1> HIDE DEF S, g, p
<1>3. CASE Consumes(items[j]) /\ Produces(items[j])
  <2> DEFINE w == <<g>> \o <<p>>
  <2>1. Hints(j, items[j]) = w
    BY <1>2, <1>3
  <2>2. <<g>> \in Seq(S) /\ <<p>> \in Seq(S) /\ Len(<<g>>) = 1 /\ Len(<<p>>) = 1
    BY <1>1
  <2>3. w \in Seq(S) /\ Len(w) = 2 /\ w[1] = g /\ w[2] = p
    BY <2>2
  <2> HIDE DEF w
  <2> QED BY <1>3, <2>1, <2>3 DEF S, g, p
<1>4. CASE Consumes(items[j]) /\ ~Produces(items[j])
  <2>1. Hints(j, items[j]) = <<g>>
    BY <1>1, <1>2, <1>4
  <2> QED BY <1>1, <1>4, <2>1 DEF S, g, p
<1>5. CASE ~Consumes(items[j]) /\ Produces(items[j])
  <2>1. Hints(j, items[j]) = <<p>>
    BY <1>1, <1>2, <1>5
  <2> QED BY <1>1, <1>5, <2>1 DEF S, g, p
<1>6. CASE ~Consumes(items[j]) /\ ~Produces(items[j])
  <2>1. Hints(j, items[j]) = <<>>
    BY <1>2, <1>6
  <2> QED BY <1>6, <2>1 DEF S
<1> QED BY <1>3, <1>4, <1>5, <1>6

LEMMA AddedStep ==
  ASSUME NEW items, NEW n \in Nat
  PROVE  /\ Added(items, n) \in Seq(HintsOf(items))
         /\ Added(items, n + 1) = Added(items, n) \o Hints(n + 1, items[n + 1])
<1> DEFINE S == HintsOf(items)
           Q(m) == [j \in 1..m |-> Hints(j, items[j])]
<1>1. ASSUME NEW m \in Nat PROVE Q(m) \in Seq(Seq(S)) /\ Len(Q(m)) = m
  <2>1. \A j \in 1..m : Hints(j, items[j]) \in Seq(S)
    BY HintsIs
  <2>2. Q(m) \in [1..m -> Seq(S)]
    BY <2>1
  <2>3. Q(m) \in Seq(Seq(S))
    <3> HIDE DEF Q, S
    <3> QED BY <2>2
  <2>4. DOMAIN Q(m) = 1..m
    OBVIOUS
  <2> HIDE DEF Q, S
  <2> QED BY <2>2, <2>3, <2>4
<1>2. \A m : Added(items, m) = FlattenSeq(Q(m))
  BY DEF Added
<1>3. Q(n + 1)[n + 1] = Hints(n + 1, items[n + 1]) /\ \A i \in 1..n : Q(n + 1)[i] = Q(n)[i]
  OBVIOUS
<1> HIDE DEF Q, S
<1>4. n + 1 \in Nat /\ Len(Q(n)) = n /\ Len(Q(n + 1)) = n + 1
  BY <1>1
<1>5. Q(n) \in Seq(Seq(S)) /\ Q(n + 1) \in Seq(Seq(S))
  BY <1>1
<1>6. /\ FlattenSeq(Q(n)) \in Seq(S)
      /\ FlattenSeq(Q(n + 1)) = FlattenSeq(Q(n)) \o Q(n + 1)[Len(Q(n + 1))]
  BY <1>3, <1>4, <1>5, FlattenLast
<1> QED BY <1>2, <1>3, <1>4, <1>6 DEF S

\* What the first actors have added is the beginning of what all of them add.
Begins(s, u) == Len(s) <= Len(u) /\ \A i \in 1..Len(s) : u[i] = s[i]

LEMMA BeginsConcat ==
  ASSUME NEW S, NEW s \in Seq(S), NEW u \in Seq(S), NEW w \in Seq(S), Begins(s, u)
  PROVE  Begins(s, u \o w)
<1>1. /\ Len(u \o w) = Len(u) + Len(w) /\ \A i \in 1..Len(u) : (u \o w)[i] = u[i]
      /\ Len(s) \in Nat /\ Len(u) \in Nat /\ Len(w) \in Nat
  OBVIOUS
<1>2. Len(s) <= Len(u) /\ \A i \in 1..Len(s) : i \in 1..Len(u) /\ u[i] = s[i]
  BY <1>1 DEF Begins
<1>3. Len(s) <= Len(u \o w)
  BY <1>1, <1>2
<1> QED BY <1>1, <1>2, <1>3 DEF Begins

LEMMA AddedBegins ==
  ASSUME NEW items, NEW n \in Nat, NEW m \in Nat, n <= m
  PROVE  Begins(Added(items, n), Added(items, m))
<1> DEFINE Bad == {i \in Nat : n <= i /\ ~Begins(Added(items, n), Added(items, i))}
<1> SUFFICES ASSUME Bad # {} PROVE FALSE
  OBVIOUS
<1>1. Bad \subseteq Nat
  OBVIOUS
<1>2. PICK i \in Bad : \A k \in Bad : i <= k
  <2> HIDE DEF Bad
  <2> QED BY <1>1, LeastExists
<1>3. CASE i = n
  <2>1. Added(items, n) \in Seq(HintsOf(items))
    BY AddedStep
  <2>2. Len(Added(items, n)) \in Nat
    BY <2>1
  <2> QED BY <1>2, <1>3, <2>2 DEF Begins
<1>4. CASE i # n
  <2>1. i - 1 \in Nat /\ n <= i - 1 /\ ~(i <= i - 1) /\ i = (i - 1) + 1
    BY <1>2, <1>4
  <2> DEFINE j == i - 1
  <2>2. Begins(Added(items, n), Added(items, j))
    BY <1>2, <2>1
  <2>3. /\ Added(items, n) \in Seq(HintsOf(items)) /\ Added(items, j) \in Seq(HintsOf(items))
        /\ Added(items, j + 1) = Added(items, j) \o Hints(j + 1, items[j + 1])
        /\ Hints(j + 1, items[j + 1]) \in Seq(HintsOf(items))
    BY <2>1, AddedStep, HintsIs
  <2>4. Begins(Added(items, n), Added(items, j + 1))
    BY <2>2, <2>3, BeginsConcat
  <2> QED BY <1>2, <2>1, <2>4
<1> QED BY <1>3, <1>4

LEMMA MakeList ==
  ASSUME NEW n \in Nat, NEW s, s = [i \in 1..n |-> s[i]]
  PROVE  IsList(s) /\ Len(s) = n /\ DOMAIN s = 1..n
<1>1. DOMAIN s = 1..n
  OBVIOUS
<1>2. \A i \in 1..n : s[i] \in Range(s)
  BY <1>1 DEF Range
<1>3. s \in [1..n -> Range(s)]
  BY <1>2
<1>4. s \in Seq(Range(s))
  BY <1>3
<1>5. Len(s) = n
  BY <1>1, <1>4
<1> QED BY <1>1, <1>4, <1>5 DEF IsList

LEMMA ListIs ==
  ASSUME NEW s, IsList(s)
  PROVE  /\ Len(s) \in Nat /\ DOMAIN s = 1..Len(s) /\ s = [i \in 1..Len(s) |-> s[i]]
         /\ s \in Seq(Range(s))
<1>1. s \in Seq(Range(s))
  BY DEF IsList
<1> QED BY <1>1

LEMMA ConcatIs ==
  ASSUME NEW s, IsList(s), NEW u, IsList(u)
  PROVE  /\ IsList(s \o u) /\ Len(s \o u) = Len(s) + Len(u)
         /\ \A i \in 1..Len(s) : (s \o u)[i] = s[i]
         /\ \A i \in 1..Len(u) : (s \o u)[Len(s) + i] = u[i]
<1> DEFINE S == Range(s) \cup Range(u)
<1>1. s \in Seq(S) /\ u \in Seq(S)
  BY ListIs
<1>2. IsList(s \o u)
  BY ConcatList
<1> HIDE DEF S
<1> QED BY <1>1, <1>2

-----------------------------------------------------------------------------
(***************************************************************************)
(* The endpoints that threads count at.  Each stays where it is until the  *)
(* statistics are emptied, and then nobody who counts there goes on        *)
(* without having been told to stop.                                       *)
(***************************************************************************)
\* An endpoint that has a place keeps it until the statistics are emptied.
Homed(s) ==
  \A k \in DOMAIN s.actors :
    /\ s.actors[k].topic # Nothing => HasEndpoint(s.sid, s.actors[k].reads)
    /\ s.actors[k].loops => HasEndpoint(s.sid, s.actors[k].writes)
HomedAll(list) == \A s \in Range(list) : Homed(s)
MembersHomed(x) == \A m \in x.members : m[1] \in Nat \ {0} /\ HasEndpoint(x.id.sid, m[2])
Actored(s) == Len(s.actors) \in Nat /\ DOMAIN s.actors = 1..Len(s.actors)
ActoredAll(list) == \A s \in Range(list) : Actored(s)

HomeTyped ==
  /\ IsList(stats) /\ \A sid \in DOMAIN stats : IsList(stats[sid])
  /\ IsList(https) /\ \A h \in Range(https) : IsList(h.routes)
  /\ IsList(asyncs) /\ IsList(todo) /\ IsList(groups)
  /\ ActoredAll(asyncs) /\ ActoredAll(todo)
  /\ new \in [config : Files \cup Posted, k : Nat \ {0}, base : Nat, post : BOOLEAN]
  /\ numbered \in Nat
  /\ {"gens", "rounds", "threads", "posts", "hangups", "messages"} \subseteq DOMAIN count
  /\ count.threads \in Nat

\* Threads have numbers of their own, and their message is one of their members'.
Busy == {"busy", "held", "counted"}
AtMember(t) == \E m \in t.members : t.k = m[1] /\ t.endpoint = m[2]
Numbers ==
  /\ \A t \in threads : /\ DOMAIN t = Fields /\ t.n \in 1..count.threads
                        /\ t.pc \in Busy => AtMember(t)
                        /\ t.pc \in {"wait", "died"} \cup Busy
  /\ \A t, u \in threads : t.n = u.n => t = u

\* Whoever was not told to stop is in a list that stop_loops goes through.
Reached ==
  /\ \A t \in threads : t.id \in stopped \cup actors \cup Ids(groups)
  /\ \A s \in Range(todo) : IdsOf(s) \subseteq actors \cup stopped
  /\ \A s \in Range(asyncs) : IdsOf(s) \subseteq actors

\* A post empties the statistics when everybody was told, and what update_service
\* empties is of no actor.
Emptying == new.post /\ at \in {"build", "analyze", "update"}
PostQuiet ==
  /\ at # "start" => todo = <<>>
  /\ at = "update" => new.post
  /\ Emptying =>
       /\ \A t \in threads : t.id \in stopped
       /\ groups = <<>>
       /\ at = "build" => https = <<>> /\ asyncs = <<>>
       /\ at = "analyze" => \A s \in Range(https) \cup Range(asyncs) :
                             s.sid \in Nat /\ s.sid < new.base + new.k
       /\ \A h \in Range(https), s \in Range(asyncs) : h.sid # s.sid

Homes ==
  /\ HomedAll(asyncs) /\ HomedAll(todo)
  /\ \A g \in Range(groups) : MembersHomed(g)
  /\ \A t \in threads : t.id \notin stopped => MembersHomed(t)

HomeInv == HomeTyped /\ Numbers /\ Reached /\ PostQuiet /\ Homes

StatsTyped == IsList(stats) /\ \A sid \in DOMAIN stats : IsList(stats[sid])
Grown == \A sid, e : HasEndpoint(sid, e) => HasEndpoint(sid, e)'

LEMMA LongerGrown ==
  ASSUME StatsTyped, StatsTyped',
         \A sid \in DOMAIN stats : sid \in DOMAIN stats' /\ Len(stats[sid]) <= Len(stats'[sid])
  PROVE  Grown
<1> SUFFICES ASSUME NEW sid, NEW e, HasEndpoint(sid, e) PROVE HasEndpoint(sid, e)'
  BY DEF Grown
<1>1. sid \in DOMAIN stats /\ sid \in DOMAIN stats' /\ e \in DOMAIN stats[sid]
  BY DEF HasEndpoint, InStats
<1>2. IsList(stats[sid]) /\ IsList(stats'[sid]) /\ Len(stats[sid]) <= Len(stats'[sid])
  BY <1>1 DEF StatsTyped
<1>3. /\ Len(stats[sid]) \in Nat /\ Len(stats'[sid]) \in Nat
      /\ DOMAIN stats[sid] = 1..Len(stats[sid]) /\ DOMAIN stats'[sid] = 1..Len(stats'[sid])
  BY <1>2, ListIs
<1>4. e \in DOMAIN stats'[sid]
  BY <1>1, <1>2, <1>3
<1> QED BY <1>1, <1>4 DEF HasEndpoint, InStats

LEMMA AppendGrows ==
  ASSUME StatsTyped, NEW i \in 1..(Len(stats) + 1), NEW w, IsList(w),
         stats' = [Append(stats, <<>>) EXCEPT ![i] = @ \o w]
  PROVE  /\ StatsTyped' /\ Grown
         /\ i \in DOMAIN stats' /\ Append(stats, <<>>)[i] = (IF i \in DOMAIN stats THEN stats[i] ELSE <<>>)
         /\ stats'[i] = Append(stats, <<>>)[i] \o w
<1> DEFINE a == Append(stats, <<>>)
           n == Len(stats)
           b(k) == IF k = i THEN a[i] \o w ELSE a[k]
<1>1. /\ n \in Nat /\ DOMAIN stats = 1..n /\ DOMAIN a = 1..(n + 1)
      /\ \A k \in 1..n : a[k] = stats[k]
      /\ a[n + 1] = <<>>
  <2>1. stats \in Seq(Range(stats) \cup {<<>>})
    BY ListIs DEF StatsTyped
  <2> QED BY <2>1
<1>2. \A k \in 1..(n + 1) : k \in 1..n \/ k = n + 1
  BY <1>1
<1> HIDE DEF a
<1>3. \A k \in 1..(n + 1) : IsList(a[k])
  BY <1>1, <1>2, EmptyList DEF StatsTyped
<1>4. stats' = [k \in 1..(n + 1) |-> b(k)]
  BY <1>1 DEF a
<1>5. /\ b(i) = a[i] \o w /\ \A k : k # i => b(k) = a[k]
  OBVIOUS
<1> HIDE DEF b
<1>9. /\ DOMAIN stats' = 1..(n + 1) /\ \A k \in 1..(n + 1) : stats'[k] = b(k)
      /\ stats' = [k \in 1..(n + 1) |-> stats'[k]]
  BY <1>4
<1>6. ASSUME NEW k \in 1..(n + 1)
      PROVE  IsList(stats'[k]) /\ Len(a[k]) <= Len(stats'[k])
  <2>1. IsList(a[k]) /\ Len(a[k]) \in Nat
    BY <1>3, ListIs
  <2>2. CASE k = i
    <3>1. Len(w) \in Nat
      BY ListIs
    <3>2. IsList(a[k] \o w) /\ Len(a[k] \o w) = Len(a[k]) + Len(w)
      BY <2>1, ConcatIs
    <3>3. stats'[k] = a[k] \o w
      BY <1>5, <1>9, <2>2
    <3>4. IsList(stats'[k]) /\ Len(stats'[k]) = Len(a[k]) + Len(w)
      BY <3>2, <3>3
    <3> QED BY <2>1, <3>1, <3>4
  <2>3. CASE k # i
    BY <1>5, <1>9, <2>1, <2>3
  <2> QED BY <2>2, <2>3
<1>7. StatsTyped'
  <2>1. n + 1 \in Nat
    BY <1>1
  <2>2. IsList(stats')
    <3> HIDE DEF n
    <3> QED BY <1>9, <2>1, MakeList
  <2> QED BY <1>9, <1>6, <2>2 DEF StatsTyped
<1>8. Grown
  BY <1>1, <1>9, <1>6, <1>7, LongerGrown
<1> QED BY <1>1, <1>2, <1>5, <1>7, <1>8, <1>9 DEF a

LEMMA HomesStay ==
  ASSUME Homes, Grown, stopped \subseteq stopped',
         \A s \in Range(asyncs') : s \in Range(asyncs) \/ Homed(s)',
         \A s \in Range(todo') : s \in Range(todo) \/ s \in Range(asyncs),
         \A g \in Range(groups') : g \in Range(groups) \/ MembersHomed(g)',
         \A t \in threads' :
           \/ t.id \in stopped'
           \/ MembersHomed(t)'
           \/ \E u \in threads : u.id = t.id /\ u.members = t.members
  PROVE  Homes'
<1>1. ASSUME NEW s, Homed(s) PROVE Homed(s)'
  BY <1>1 DEF Homed, Grown
<1>2. ASSUME NEW t, NEW u, MembersHomed(u), u.id = t.id, u.members = t.members
      PROVE  MembersHomed(t)'
  BY <1>2 DEF MembersHomed, Grown
<1>3. HomedAll(asyncs)' /\ HomedAll(todo)'
  BY <1>1 DEF Homes, HomedAll
<1>4. \A g \in Range(groups') : MembersHomed(g)'
  BY <1>2 DEF Homes
<1>5. ASSUME NEW t \in threads', t.id \notin stopped' PROVE MembersHomed(t)'
  <2>1. ASSUME NEW u \in threads, u.id = t.id, u.members = t.members PROVE MembersHomed(t)'
    <3>1. MembersHomed(u)
      BY <1>5, <2>1 DEF Homes
    <3> QED BY <1>2, <2>1, <3>1
  <2> QED BY <1>5, <2>1
<1> QED BY <1>3, <1>4, <1>5 DEF Homes

LEMMA SameGrown == UNCHANGED stats => Grown
BY DEF Grown, HasEndpoint, InStats

LEMMA InitHome == Init => HomeInv
<1> SUFFICES ASSUME Init PROVE HomeInv
  OBVIOUS
<1>1. IsList(<<>>) /\ Range(<<>>) = {} /\ DOMAIN <<>> = {}
  BY EmptyList
<1>2. /\ asyncs = <<>> /\ todo = <<>> /\ groups = <<>> /\ threads = {} /\ https = <<>>
      /\ stats = <<>> /\ at = "build" /\ numbered = 0
  BY DEF Init
<1>3. /\ {"gens", "rounds", "threads", "posts", "hangups", "messages"} \subseteq DOMAIN count
      /\ count.threads = 0
  BY DEF Init
<1>4. /\ new \in [config : Files \cup Posted, k : Nat \ {0}, base : Nat, post : BOOLEAN]
      /\ new.post = FALSE
  BY PlanTyped DEF Init, Plan
<1>5. HomeTyped
  BY <1>1, <1>2, <1>3, <1>4 DEF HomeTyped, ActoredAll
<1>6. Numbers /\ Reached /\ PostQuiet /\ Homes
  BY <1>1, <1>2, <1>4 DEF Numbers, Reached, PostQuiet, Emptying, Homes, HomedAll
<1> QED BY <1>5, <1>6 DEF HomeInv

\* A thread that dies had no endpoint to count at, or not one at its actor's
\* position.
Lost(t) == /\ ~Survives(t)
           /\ \/ t.pc = "busy" /\ ~HasEndpoint(t.id.sid, t.endpoint)
              \/ /\ t.pc = "counted"
                 /\ ~(HasEndpoint(t.id.sid, t.endpoint) /\ HasEndpoint(t.id.sid, t.k))

LEMMA ThreadMoves ==
  ASSUME HomeTyped, NEW t \in threads, ThreadStep(t), DOMAIN t = Fields
  PROVE  /\ UNCHANGED <<main, definition, lists, stopped, stats, logs, marks>>
         /\ {"gens", "rounds", "threads", "posts", "hangups", "messages"} \subseteq DOMAIN count'
         /\ count'.threads = count.threads
         /\ \E x : threads' \subseteq (threads \ {t}) \cup {x}
         /\ \A u \in threads' :
              \/ u \in threads \ {t}
              \/ /\ DOMAIN u = Fields /\ u.n = t.n /\ u.id = t.id /\ u.members = t.members
                 /\ \/ u.pc = "wait"
                    \/ u.pc = "died" /\ Lost(t)
                    \/ u.pc = "busy" /\ AtMember(u)
                    \/ /\ t.pc \in Busy /\ u.pc \in Busy
                       /\ u.k = t.k /\ u.endpoint = t.endpoint
<1> DEFINE Moved(u) ==
             /\ DOMAIN u = Fields /\ u.n = t.n /\ u.id = t.id /\ u.members = t.members
             /\ \/ u.pc = "wait"
                \/ u.pc = "died" /\ Lost(t)
                \/ u.pc = "busy" /\ AtMember(u)
                \/ /\ t.pc \in Busy /\ u.pc \in Busy
                   /\ u.k = t.k /\ u.endpoint = t.endpoint
           Good == /\ \A u \in threads' : u \in threads \ {t} \/ Moved(u)
                   /\ \E x : threads' \subseteq (threads \ {t}) \cup {x}
<1>1. UNCHANGED <<main, definition, lists, stopped, stats, logs, marks>>
  BY DEF ThreadStep
<1>2. /\ {"gens", "rounds", "threads", "posts", "hangups", "messages"} \subseteq DOMAIN count'
      /\ count'.threads = count.threads
  <2>1. count' = count \/ count' = [count EXCEPT !.messages = @ + 1]
    BY DEF ThreadStep, Idle, Message, ReadTotal, WriteTotal, Finish
  <2>2. {"gens", "rounds", "threads", "posts", "hangups", "messages"} \subseteq DOMAIN count
    BY DEF HomeTyped
  <2> QED BY <2>1, <2>2
<1>3. ASSUME NEW u, Becomes(t, u), Moved(u) PROVE Good
  BY <1>3 DEF Becomes
<1>4. ASSUME threads' = threads \ {t} PROVE Good
  BY <1>4
<1> HIDE DEF Good, Moved
<1>5. ASSUME Resumes(t) PROVE Good
  <2> DEFINE u == [t EXCEPT !.pc = "wait", !.k = No, !.endpoint = No, !.held = 0]
  <2>1. DOMAIN u = Fields /\ u.n = t.n /\ u.id = t.id /\ u.members = t.members /\ u.pc = "wait"
    BY DEF Fields
  <2>2. Moved(u)
    <3> HIDE DEF u
    <3> QED BY <2>1 DEF Moved
  <2> HIDE DEF u
  <2> QED BY <1>3, <1>4, <1>5, <2>2 DEF Resumes, u
<1>6. ASSUME Fails(t), Survives(t) \/ Lost(t) PROVE Good
  <2> DEFINE u == [t EXCEPT !.pc = "died", !.stale = FALSE]
  <2>1. DOMAIN u = Fields /\ u.n = t.n /\ u.id = t.id /\ u.members = t.members /\ u.pc = "died"
    BY DEF Fields
  <2>2. Lost(t) => Moved(u)
    <3> HIDE DEF u
    <3> QED BY <2>1 DEF Moved
  <2> HIDE DEF u
  <2> QED BY <1>3, <1>5, <1>6, <2>2 DEF Fails, Lost, u
<1>7. ASSUME Idle(t) PROVE Good
  BY <1>4, <1>7 DEF Idle
<1>8. ASSUME Message(t) PROVE Good
  <2>1. PICK m \in t.members : Becomes(t, [t EXCEPT !.pc = "busy", !.k = m[1], !.endpoint = m[2]])
    BY <1>8 DEF Message
  <2> DEFINE u == [t EXCEPT !.pc = "busy", !.k = m[1], !.endpoint = m[2]]
  <2>2. /\ DOMAIN u = Fields /\ u.n = t.n /\ u.id = t.id /\ u.members = t.members
        /\ u.pc = "busy" /\ u.k = m[1] /\ u.endpoint = m[2]
    BY DEF Fields
  <2>3. Moved(u)
    <3> HIDE DEF u
    <3> QED BY <2>2 DEF Moved, AtMember
  <2> QED BY <1>3, <2>1, <2>3
<1>9. ASSUME ReadTotal(t) PROVE Good
  <2> DEFINE u == [t EXCEPT !.pc = "held", !.held = total]
  <2>1. /\ DOMAIN u = Fields /\ u.n = t.n /\ u.id = t.id /\ u.members = t.members
        /\ u.pc = "held" /\ u.k = t.k /\ u.endpoint = t.endpoint
    BY DEF Fields
  <2>2. t.pc = "busy" => Moved(u)
    <3> HIDE DEF u
    <3> QED BY <2>1 DEF Busy, Moved
  <2> HIDE DEF u
  <2> QED BY <1>3, <1>6, <1>9, <2>2 DEF ReadTotal, Lost, u
<1>10. ASSUME WriteTotal(t) PROVE Good
  <2> DEFINE u == [t EXCEPT !.pc = "counted", !.stale = FALSE]
  <2>1. /\ DOMAIN u = Fields /\ u.n = t.n /\ u.id = t.id /\ u.members = t.members
        /\ u.pc = "counted" /\ u.k = t.k /\ u.endpoint = t.endpoint
    BY DEF Fields
  <2>2. t.pc = "held" => Moved(u)
    <3> HIDE DEF u
    <3> QED BY <2>1 DEF Busy, Moved
  <2> HIDE DEF u
  <2> QED BY <1>3, <1>10, <2>2 DEF WriteTotal, u
<1>11. ASSUME Finish(t) PROVE Good
  <2> QED BY <1>5, <1>6, <1>11 DEF Finish, Lost
<1>12. Good
  BY <1>7, <1>8, <1>9, <1>10, <1>11 DEF ThreadStep
<1> QED BY <1>1, <1>2, <1>12 DEF Good, Moved

LEMMA ThreadKeepsHome ==
  ASSUME HomeInv, NEW t \in threads, ThreadStep(t)
  PROVE  HomeInv'
<1>0. HomeTyped /\ Numbers /\ Reached /\ PostQuiet /\ Homes
  BY DEF HomeInv
<1>1. DOMAIN t = Fields
  BY <1>0 DEF Numbers
<1>2. /\ UNCHANGED <<main, definition, lists, stopped, stats, logs, marks>>
      /\ {"gens", "rounds", "threads", "posts", "hangups", "messages"} \subseteq DOMAIN count'
      /\ count'.threads = count.threads
      /\ \E x : threads' \subseteq (threads \ {t}) \cup {x}
  BY <1>0, <1>1, ThreadMoves
<1>3. /\ UNCHANGED <<at, new, todo, numbered, https, asyncs, actors, groups, stopped, stats>>
  BY <1>2 DEF main, lists
<1>4. ASSUME NEW u \in threads', u \notin threads \ {t}
      PROVE  /\ DOMAIN u = Fields /\ u.n = t.n /\ u.id = t.id /\ u.members = t.members
             /\ u.pc \in {"wait", "died"} \cup Busy
             /\ u.pc \in Busy => AtMember(u)
  <2>1. /\ DOMAIN u = Fields /\ u.n = t.n /\ u.id = t.id /\ u.members = t.members
        /\ \/ u.pc = "wait"
           \/ u.pc = "died" /\ Lost(t)
           \/ u.pc = "busy" /\ AtMember(u)
           \/ t.pc \in Busy /\ u.pc \in Busy /\ u.k = t.k /\ u.endpoint = t.endpoint
    BY <1>0, <1>1, <1>4, ThreadMoves
  <2>2. t.pc \in Busy => AtMember(t)
    BY <1>0 DEF Numbers
  <2> QED BY <2>1, <2>2 DEF AtMember, Busy
<1>5. HomeTyped'
  BY <1>0, <1>2, <1>3 DEF HomeTyped, ActoredAll
<1>6. Numbers'
  <2>1. ASSUME NEW u \in threads'
        PROVE  /\ DOMAIN u = Fields /\ u.n \in 1..count'.threads
               /\ u.pc \in Busy => AtMember(u)
               /\ u.pc \in {"wait", "died"} \cup Busy
    BY <1>0, <1>2, <1>4 DEF Numbers
  <2>2. ASSUME NEW u \in threads', NEW v \in threads', u.n = v.n PROVE u = v
    <3>1. CASE u \in threads \ {t} /\ v \in threads \ {t}
      BY <1>0, <2>2, <3>1 DEF Numbers
    <3>2. CASE u \notin threads \ {t} /\ v \notin threads \ {t}
      BY <1>2, <3>2
    <3>3. CASE u \notin threads \ {t} /\ v \in threads \ {t}
      <4>1. u.n = t.n
        BY <1>4, <3>3
      <4> QED BY <1>0, <2>2, <3>3, <4>1 DEF Numbers
    <3>4. CASE u \in threads \ {t} /\ v \notin threads \ {t}
      <4>1. v.n = t.n
        BY <1>4, <3>4
      <4> QED BY <1>0, <2>2, <3>4, <4>1 DEF Numbers
    <3> QED BY <3>1, <3>2, <3>3, <3>4
  <2> QED BY <2>1, <2>2 DEF Numbers
<1>7. \A u \in threads' : \E v \in threads : v.id = u.id /\ v.members = u.members
  BY <1>4
<1>8. Reached'
  BY <1>0, <1>3, <1>7 DEF Reached, Ids
<1>9. PostQuiet'
  BY <1>0, <1>3, <1>7 DEF PostQuiet, Emptying
<1>10. Homes'
  BY <1>0, <1>3, <1>7, SameGrown, HomesStay
<1> QED BY <1>5, <1>6, <1>8, <1>9, <1>10 DEF HomeInv

\* The steps of the main thread that leave the statistics and the lists alone.
LEMMA SameThreads ==
  ASSUME Numbers, threads' = threads \/ Reset, UNCHANGED count
  PROVE  /\ Numbers'
         /\ \A u \in threads' : \E v \in threads : v.id = u.id /\ v.members = u.members
<1>1. CASE threads' = threads
  BY <1>1 DEF Numbers
<1>2. CASE Reset
  <2> DEFINE to(t) == [t EXCEPT !.stale = (t.pc = "held")]
  <2>1. threads' = {to(t) : t \in threads}
    BY <1>2 DEF Reset
  <2>2. ASSUME NEW t \in threads
        PROVE  /\ DOMAIN to(t) = Fields /\ to(t).n = t.n /\ to(t).id = t.id
               /\ to(t).members = t.members /\ to(t).pc = t.pc
               /\ to(t).k = t.k /\ to(t).endpoint = t.endpoint
    BY DEF Numbers, Fields
  <2> HIDE DEF to
  <2>3. ASSUME NEW t \in threads
        PROVE  /\ to(t).n \in 1..count'.threads /\ to(t).pc \in {"wait", "died"} \cup Busy
               /\ to(t).pc \in Busy => AtMember(to(t))
    BY <2>2 DEF Numbers, AtMember
  <2>4. ASSUME NEW t \in threads, NEW u \in threads, to(t).n = to(u).n PROVE to(t) = to(u)
    <3>1. t = u
      BY <2>2, <2>4 DEF Numbers
    <3> QED BY <3>1
  <2>5. Numbers'
    BY <2>1, <2>2, <2>3, <2>4 DEF Numbers
  <2> QED BY <2>1, <2>2, <2>5
<1> QED BY <1>1, <1>2

LEMMA QuietKeepsHome ==
  ASSUME HomeInv, Build \/ Analyzed \/ Register \/ Reset \/ RunLoops \/ Started \/ Restart
  PROVE  HomeInv'
<1>0. HomeTyped /\ Numbers /\ Reached /\ PostQuiet /\ Homes
  BY DEF HomeInv
<1>1. UNCHANGED <<https, asyncs, actors, groups, stopped, stats>>
  BY DEF Build, Analyzed, Register, Reset, RunLoops, Started, Restart, lists
<1>2. /\ {"gens", "rounds", "threads", "posts", "hangups", "messages"} \subseteq DOMAIN count'
      /\ count'.threads = count.threads
  <2>1. \/ count' = count \/ count' = [count EXCEPT !.gens = @ + 1]
        \/ count' = [count EXCEPT !.rounds = @ + 1]
    BY DEF Build, Analyzed, Register, Reset, RunLoops, Started, Restart
  <2>2. {"gens", "rounds", "threads", "posts", "hangups", "messages"} \subseteq DOMAIN count
    BY <1>0 DEF HomeTyped
  <2> QED BY <2>1, <2>2
<1>3. threads' = threads \/ Reset
  BY DEF Build, Analyzed, Register, RunLoops, Started, Restart
<1>4. /\ Numbers'
      /\ \A u \in threads' : \E v \in threads : v.id = u.id /\ v.members = u.members
  <2>1. CASE Reset
    <3>1. count' = count
      BY <2>1 DEF Reset
    <3> QED BY <1>0, <3>1, <2>1, SameThreads
  <2>2. CASE ~Reset
    BY <1>0, <1>2, <1>3, <2>2 DEF Numbers
  <2> QED BY <2>1, <2>2
<1>5. todo' = todo \/ (RunLoops /\ todo' = asyncs)
  BY DEF Build, Analyzed, Register, Reset, RunLoops, Started, Restart
<1>6. HomeTyped'
  <2>1. new' \in [config : Files \cup Posted, k : Nat \ {0}, base : Nat, post : BOOLEAN]
    <3>1. CASE Build
      BY <1>0, <3>1 DEF Build, HomeTyped
    <3>2. CASE Restart
      BY <3>2, PlanTyped DEF Restart
    <3>3. CASE ~Build /\ ~Restart
      BY <1>0, <3>3 DEF HomeTyped, Analyzed, Register, Reset, RunLoops, Started
    <3> QED BY <3>1, <3>2, <3>3
  <2>2. numbered' \in Nat
    <3>1. CASE Build
      <4>1. Len(new.config) \in Nat
        BY <1>0, LifecycleAssumption DEF HomeTyped
      <4> QED BY <1>0, <3>1, <4>1 DEF Build, HomeTyped
    <3>2. CASE ~Build
      BY <1>0, <3>2 DEF HomeTyped, Analyzed, Register, Reset, RunLoops, Started, Restart, lists
    <3> QED BY <3>1, <3>2
  <2> QED BY <1>0, <1>1, <1>2, <1>5, <2>1, <2>2 DEF HomeTyped, ActoredAll
<1>7. Reached'
  BY <1>0, <1>1, <1>4, <1>5 DEF Reached, Ids
<1>8. Homes'
  BY <1>0, <1>1, <1>4, <1>5, SameGrown, HomesStay
<1>9. PostQuiet'
  <2>1. CASE Build
    <3>1. /\ at = "build" /\ at' = "analyze" /\ new'.post = new.post
          /\ todo' = todo /\ threads' = threads
      BY <1>0, <2>1 DEF Build, Now, HomeTyped
    <3> QED BY <1>0, <1>1, <3>1, EmptyList DEF PostQuiet, Emptying
  <2>2. CASE Analyzed
    <3>1. /\ at = "analyze" /\ at' = (IF new.post THEN "update" ELSE "load") /\ new' = new
          /\ todo' = todo /\ threads' = threads
      BY <2>2 DEF Analyzed, Now
    <3> QED BY <1>0, <1>1, <3>1 DEF PostQuiet, Emptying
  <2>3. CASE Restart
    <3>1. at = "serve" /\ at' = "build" /\ new'.post = FALSE /\ todo' = todo
      BY <2>3 DEF Restart, Plan
    <3> QED BY <1>0, <3>1 DEF PostQuiet, Emptying
  <2>4. CASE Register \/ Reset \/ RunLoops \/ Started
    <3>1. at' \in {"run", "start", "serve"} /\ (at' # "start" => todo' = <<>>)
      BY <1>0, <2>4 DEF Register, Reset, RunLoops, Started, Now, PostQuiet
    <3> QED BY <3>1 DEF PostQuiet, Emptying
  <2> QED BY <2>1, <2>2, <2>3, <2>4
<1> QED BY <1>4, <1>6, <1>7, <1>8, <1>9 DEF HomeInv

LEMMA SeqIsList ==
  ASSUME NEW S, NEW s \in Seq(S)
  PROVE  IsList(s)
<1>1. Len(s) \in Nat /\ s = [i \in 1..Len(s) |-> s[i]]
  OBVIOUS
<1> QED BY <1>1, MakeList

LEMMA ServiceIs ==
  ASSUME new \in [config : Files \cup Posted, k : Nat \ {0}, base : Nat, post : BOOLEAN],
         new.k <= Len(new.config)
  PROVE  /\ Len(Service.items) \in Nat /\ DOMAIN Service.items = 1..Len(Service.items)
         /\ Sid \in Nat \ {0} /\ Sid = new.base + new.k
         /\ new.k \in DOMAIN new.config /\ Service = new.config[new.k]
         /\ IsList(Service.items)
<1>1. new.k \in DOMAIN new.config /\ new.base \in Nat /\ new.k \in Nat \ {0}
  BY LifecycleAssumption
<1>2. IsList(Service.items)
  BY <1>1, LifecycleAssumption DEF Service, IsList
<1>3. Len(Service.items) \in Nat /\ DOMAIN Service.items = 1..Len(Service.items)
  BY <1>2, ListIs
<1> QED BY <1>1, <1>2, <1>3 DEF Sid, Service

LEMMA ConstructedIs ==
  ASSUME Len(Service.items) \in Nat, DOMAIN Service.items = 1..Len(Service.items)
  PROVE  \E m \in 0..Len(Service.items) :
           Constructed = 1..m /\ Cardinality(Constructed) = m
<1> DEFINE L == Len(Service.items)
           R == Raising(Service.items)
<1>1. R \subseteq 1..L
  BY DEF Raising
<1>2. Constructed = {k \in 1..L : \A j \in R : k <= j}
  BY DEF Constructed
<1> HIDE DEF R
<1>3. \E m \in 0..L : Constructed = 1..m
  <2>1. CASE R = {}
    BY <1>2, <2>1
  <2>2. CASE R # {}
    <3>1. PICK r \in R : \A j \in R : r <= j
      <4>1. R \subseteq Nat
        BY <1>1
      <4> QED BY <2>2, <4>1, LeastExists
    <3>2. r \in 1..L /\ \A j \in R : j \in 1..L
      BY <1>1
    <3>3. \A k \in 1..L : k <= r <=> \A j \in R : k <= j
      BY <3>1, <3>2
    <3>4. Constructed = 1..r
      BY <1>2, <3>2, <3>3
    <3> QED BY <3>2, <3>4
  <2> QED BY <2>1, <2>2
<1>4. \A m \in Nat : Cardinality(1..m) = m
  BY FS_Interval
<1>5. PICK m \in 0..L : Constructed = 1..m
  BY <1>3
<1>6. m \in Nat
  OBVIOUS
<1>7. Cardinality(Constructed) = m
  BY <1>4, <1>5, <1>6
<1> QED BY <1>5, <1>7

\* The actors of a service find the endpoints that they added.
LEMMA ActorsPlaced ==
  ASSUME NEW items, NEW m \in Nat, NEW before \in Nat, NEW k \in 1..m
  PROVE  LET x == SetActor(items, k, before)
         IN  /\ Consumes(items[k]) => x.reads \in (before + 1)..(before + Len(Added(items, m)))
                  /\ Added(items, m)[x.reads - before] = GetHint(k, items[k])
             /\ Produces(items[k]) => x.writes \in (before + 1)..(before + Len(Added(items, m)))
                  /\ Added(items, m)[x.writes - before] = PutHint(k, items[k])
             /\ x.topic # Nothing <=> Consumes(items[k])
             /\ x.loops => Produces(items[k])
<1> DEFINE S == HintsOf(items)
           j == k - 1
           h == Hints(j + 1, items[j + 1])
           a == Added(items, j)
           b == Added(items, j + 1)
           x == SetActor(items, k, before)
<1>1. j \in Nat /\ j + 1 = k /\ k \in Nat /\ k <= m
  OBVIOUS
<1> HIDE DEF j
<1>2. a \in Seq(S) /\ b \in Seq(S) /\ b = a \o h /\ h \in Seq(S)
  BY <1>1, AddedStep, HintsIs
<1>3. /\ Len(h) = (IF Consumes(items[k]) THEN 1 ELSE 0) + (IF Produces(items[k]) THEN 1 ELSE 0)
      /\ Consumes(items[k]) => h[1] = GetHint(k, items[k])
      /\ Produces(items[k]) => h[Len(h)] = PutHint(k, items[k])
  BY <1>1, HintsIs
<1>4. Begins(b, Added(items, m)) /\ Len(Added(items, m)) \in Nat
  <2>1. Added(items, m) \in Seq(S)
    BY AddedStep
  <2> QED BY <1>1, <2>1, AddedBegins
<1>5. /\ x.reads = IF Consumes(items[k]) THEN before + Len(a) + 1 ELSE No
      /\ x.writes = IF Produces(items[k]) THEN before + Len(b) ELSE No
      /\ x.topic = items[k].consume /\ x.loops = Loops(items[k])
  BY <1>1 DEF SetActor, j
<1> HIDE DEF a, b, h, x, S
<1>6. /\ Len(a) \in Nat /\ Len(h) \in Nat /\ Len(b) = Len(a) + Len(h)
      /\ \A i \in 1..Len(h) : b[Len(a) + i] = h[i]
  BY <1>2
<1>7. ASSUME Consumes(items[k])
      PROVE  /\ x.reads \in (before + 1)..(before + Len(Added(items, m)))
             /\ Added(items, m)[x.reads - before] = GetHint(k, items[k])
  <2>1. Len(h) >= 1 /\ b[Len(a) + 1] = GetHint(k, items[k])
    BY <1>3, <1>6, <1>7
  <2>2. Len(a) + 1 \in 1..Len(b) /\ Len(b) <= Len(Added(items, m))
    BY <1>4, <1>6, <2>1 DEF Begins
  <2>3. Added(items, m)[Len(a) + 1] = GetHint(k, items[k])
    BY <1>4, <2>1, <2>2 DEF Begins
  <2>4. x.reads = before + Len(a) + 1 /\ x.reads - before = Len(a) + 1
    BY <1>5, <1>6, <1>7
  <2> QED BY <1>4, <1>6, <2>2, <2>3, <2>4
<1>8. ASSUME Produces(items[k])
      PROVE  /\ x.writes \in (before + 1)..(before + Len(Added(items, m)))
             /\ Added(items, m)[x.writes - before] = PutHint(k, items[k])
  <2>1. Len(h) >= 1 /\ b[Len(b)] = PutHint(k, items[k])
    BY <1>3, <1>6, <1>8
  <2>2. Len(b) \in 1..Len(b) /\ Len(b) <= Len(Added(items, m))
    BY <1>4, <1>6, <2>1 DEF Begins
  <2>3. Added(items, m)[Len(b)] = PutHint(k, items[k])
    BY <1>4, <2>1, <2>2 DEF Begins
  <2>4. x.writes = before + Len(b) /\ x.writes - before = Len(b)
    BY <1>5, <1>6, <1>8
  <2> QED BY <1>4, <1>6, <2>2, <2>3, <2>4
<1>9. (x.topic # Nothing <=> Consumes(items[k])) /\ (x.loops => Produces(items[k]))
  BY <1>5 DEF Consumes, Loops
<1> QED BY <1>7, <1>8, <1>9 DEF x
-----------------------------------------------------------------------------
\* What analyze adds for a service: an HTTP service, or one whose actors find
\* the endpoints that they added.
Adds ==
  /\ StatsTyped' /\ Grown
  /\ IsList(https')
  /\ \A h \in Range(https') : h \in Range(https) \/ (IsList(h.routes) /\ h.sid = Sid)
  /\ IsList(asyncs')
  /\ \A s \in Range(asyncs') :
       \/ s \in Range(asyncs)
       \/ Actored(s) /\ s.sid = Sid /\ Homed(s)' /\ IdsOf(s) \subseteq actors'
  /\ actors \subseteq actors'
  /\ https' = https \/ asyncs' = asyncs

LEMMA AnalyzeHttpPlaces ==
  ASSUME HomeTyped, new.k <= Len(new.config), AnalyzeHttp
  PROVE  Adds
<1>0. PICK n \in 0..Len(Service.items) :
        https' = Append(https, [sid |-> Sid, name |-> Service.name, port |-> Service.port,
                                routes |-> SubSeq(Service.items, 1, n)])
  BY DEF AnalyzeHttp
<1> DEFINE h == [sid |-> Sid, name |-> Service.name, port |-> Service.port,
                 routes |-> SubSeq(Service.items, 1, n)]
<1>1. /\ https' = Append(https, h) /\ stats' = Append(stats, <<>>)
      /\ asyncs' = asyncs /\ actors' = actors
  BY <1>0 DEF AnalyzeHttp
<1>2. h.sid = Sid /\ h.routes = SubSeq(Service.items, 1, n)
  OBVIOUS
<1> HIDE DEF h
<1>3. IsList(https') /\ Range(https') = Range(https) \cup {h}
  BY <1>1, AppendList DEF HomeTyped
<1>4. IsList(SubSeq(Service.items, 1, n))
  BY ServiceIs, ReadList DEF HomeTyped
<1>5. StatsTyped' /\ Grown
  <2>1. StatsTyped
    BY DEF HomeTyped, StatsTyped
  <2>2. IsList(stats') /\ Range(stats') = Range(stats) \cup {<<>>}
    BY <1>1, <2>1, AppendList DEF StatsTyped
  <2>3. /\ DOMAIN stats = 1..Len(stats) /\ DOMAIN stats' = 1..(Len(stats) + 1)
        /\ Len(stats) \in Nat /\ \A k \in 1..Len(stats) : stats'[k] = stats[k]
        /\ stats'[Len(stats) + 1] = <<>>
    <3>1. stats \in Seq(Range(stats) \cup {<<>>})
      BY <2>1, ListIs DEF StatsTyped
    <3> QED BY <1>1, <3>1
  <2>4. StatsTyped'
    BY <2>1, <2>2, <2>3, EmptyList DEF StatsTyped
  <2>5. \A sid \in DOMAIN stats : sid \in DOMAIN stats' /\ Len(stats[sid]) <= Len(stats'[sid])
    <3> SUFFICES ASSUME NEW sid \in DOMAIN stats
                 PROVE  sid \in DOMAIN stats' /\ Len(stats[sid]) <= Len(stats'[sid])
      OBVIOUS
    <3>1. Len(stats[sid]) \in Nat
      BY <2>1, ListIs DEF StatsTyped
    <3> QED BY <2>3, <3>1
  <2> QED BY <2>1, <2>4, <2>5, LongerGrown
<1> QED BY <1>1, <1>2, <1>3, <1>4, <1>5 DEF Adds, HomeTyped

LEMMA AnalyzeAsyncPlaces ==
  ASSUME HomeTyped, new.k <= Len(new.config), Sid <= Len(stats) + 1, AnalyzeAsync
  PROVE  Adds
<1>0. StatsTyped
  BY DEF HomeTyped, StatsTyped
<1>1. /\ IsList(Service.items) /\ Sid \in Nat \ {0} /\ Len(stats) \in Nat
  <2>1. IsList(Service.items) /\ Sid \in Nat \ {0}
    BY ServiceIs DEF HomeTyped
  <2>2. Len(stats) \in Nat
    BY <1>0, ListIs DEF StatsTyped
  <2> QED BY <2>1, <2>2
<1>2. PICK m \in 0..Len(Service.items) : Constructed = 1..m /\ Cardinality(Constructed) = m
  <2>1. Len(Service.items) \in Nat /\ DOMAIN Service.items = 1..Len(Service.items)
    BY <1>1, ListIs
  <2> QED BY <2>1, ConstructedIs
<1>3. m \in Nat
  BY <1>1, ListIs
<1>4. PICK items, old, w, sid :
        /\ items = Service.items /\ old = Append(stats, <<>>)[Sid]
        /\ w = Added(items, m) /\ sid = Sid
  OBVIOUS
<1>5. PICK x : /\ asyncs' = Append(asyncs, x) /\ x.sid = sid /\ x.gen = count.gens
               /\ x.actors = [k \in 1..m |-> SetActor(items, k, Len(old))]
  <2> DEFINE y == [gen |-> count.gens, sid |-> Sid, type |-> Service.type,
                   actors |-> [k \in Constructed |->
                                 SetActor(Service.items, k, Len(Append(stats, <<>>)[Sid]))]]
  <2>1. asyncs' = Append(asyncs, y)
    BY DEF AnalyzeAsync
  <2>2. /\ y.sid = Sid /\ y.gen = count.gens
        /\ y.actors = [k \in Constructed |->
                         SetActor(Service.items, k, Len(Append(stats, <<>>)[Sid]))]
    OBVIOUS
  <2> HIDE DEF y
  <2> QED BY <1>2, <1>4, <2>1, <2>2
<1>6. /\ https' = https
      /\ stats' = [Append(stats, <<>>) EXCEPT ![sid] = @ \o w]
      /\ actors' = actors \cup {ActorId(count.gens, Sid, k) : k \in Constructed}
  BY <1>2, <1>4 DEF AnalyzeAsync
<1>7. IsList(w) /\ Len(w) \in Nat
  <2>1. w \in Seq(HintsOf(items))
    BY <1>3, <1>4, AddedStep
  <2> QED BY <2>1, SeqIsList
<1>8. /\ StatsTyped' /\ Grown /\ sid \in DOMAIN stats'
      /\ old = (IF sid \in DOMAIN stats THEN stats[sid] ELSE <<>>)
      /\ stats'[sid] = old \o w
  <2>1. sid \in 1..(Len(stats) + 1)
    BY <1>1, <1>4
  <2> QED BY <1>0, <1>4, <1>6, <1>7, <2>1, AppendGrows
<1>9. Len(old) \in Nat /\ DOMAIN stats'[sid] = 1..(Len(old) + Len(w))
  <2>1. IsList(old)
    BY <1>0, <1>8, EmptyList DEF StatsTyped
  <2>2. IsList(stats'[sid]) /\ Len(stats'[sid]) = Len(old) + Len(w)
    BY <1>7, <1>8, <2>1, ConcatIs
  <2> QED BY <2>1, <2>2, ListIs
<1>10. DOMAIN x.actors = 1..m /\ \A k \in 1..m : x.actors[k] = SetActor(items, k, Len(old))
  BY <1>5
<1>11. Actored(x)
  <2>1. x.actors = [k \in 1..m |-> x.actors[k]]
    BY <1>5
  <2>2. Len(x.actors) = m
    BY <1>3, <2>1, MakeList
  <2> QED BY <1>3, <1>10, <2>2 DEF Actored
<1>12. Homed(x)'
  <2> SUFFICES ASSUME NEW k \in 1..m
               PROVE  /\ x.actors[k].topic # Nothing => HasEndpoint(sid, x.actors[k].reads)'
                      /\ x.actors[k].loops => HasEndpoint(sid, x.actors[k].writes)'
    BY <1>5, <1>10 DEF Homed
  <2> DEFINE a == SetActor(items, k, Len(old))
             places == (Len(old) + 1)..(Len(old) + Len(w))
  <2>1. (a.topic # Nothing => a.reads \in places) /\ (a.loops => a.writes \in places)
    BY <1>3, <1>4, <1>9, ActorsPlaced
  <2>2. \A e \in places : HasEndpoint(sid, e)'
    <3>1. places \subseteq 1..(Len(old) + Len(w))
      BY <1>7, <1>9
    <3> HIDE DEF places
    <3> QED BY <1>8, <1>9, <3>1 DEF HasEndpoint, InStats
  <2> HIDE DEF a, places
  <2>3. x.actors[k] = a
    BY <1>10 DEF a
  <2> QED BY <2>1, <2>2, <2>3
<1>13. IdsOf(x) \subseteq actors'
  BY <1>2, <1>4, <1>5, <1>6, <1>10 DEF IdsOf
<1>14. IsList(asyncs') /\ Range(asyncs') = Range(asyncs) \cup {x}
  BY <1>5, AppendList DEF HomeTyped
<1>15. \A s \in Range(asyncs') :
       \/ s \in Range(asyncs)
       \/ Actored(s) /\ s.sid = Sid /\ Homed(s)' /\ IdsOf(s) \subseteq actors'
  BY <1>4, <1>5, <1>11, <1>12, <1>13, <1>14
<1>16. IsList(https') /\ \A h \in Range(https') : h \in Range(https)
  BY <1>6 DEF HomeTyped
<1> QED BY <1>6, <1>8, <1>14, <1>15, <1>16 DEF Adds

LEMMA AnalyzeKeepsHome ==
  ASSUME HomeInv, Analyze
  PROVE  HomeInv'
<1>0. HomeTyped /\ Numbers /\ Reached /\ PostQuiet /\ Homes
  BY DEF HomeInv
<1>1. /\ at = "analyze" /\ new.k <= Len(new.config)
      /\ UNCHANGED <<groups, numbered, stopped, count>>
  BY DEF Analyze
<1>2. \/ at' = "analyze" /\ new' = [new EXCEPT !.k = @ + 1] /\ threads' = threads /\ todo' = todo
      \/ at' = "serve" /\ new' = new /\ threads' = threads /\ todo' = todo
      \/ at' = "down" /\ new' = new /\ threads' = {} /\ todo' = <<>>
  BY DEF Analyze, Now, Exit
<1>3. Adds \/ UNCHANGED <<stats, https, asyncs, actors>>
  <2>1. CASE AnalyzeHttp
    BY <1>0, <1>1, <2>1, AnalyzeHttpPlaces
  <2>2. CASE AnalyzeAsync /\ ~(Service.type # "http" /\ Sid > Len(stats) + 1)
    <3>1. Sid <= Len(stats) + 1
      <4>1. Service.type # "http"
        BY <2>2 DEF AnalyzeAsync
      <4>2. Sid \in Nat
        BY <1>0, <1>1, ServiceIs DEF HomeTyped
      <4>3. Len(stats) \in Nat
        BY <1>0, ListIs DEF HomeTyped
      <4> QED BY <2>2, <4>1, <4>2, <4>3
    <3> QED BY <1>0, <1>1, <2>2, <3>1, AnalyzeAsyncPlaces
  <2>3. CASE UNCHANGED <<stats, https, asyncs, actors>>
    BY <2>3
  <2> QED BY <2>1, <2>2, <2>3 DEF Analyze
<1>4. Adds
  <2>1. CASE UNCHANGED <<stats, https, asyncs, actors>>
    BY <1>0, <2>1, SameGrown DEF Adds, HomeTyped, StatsTyped
  <2> QED BY <1>3, <2>1
<1>5. HomeTyped'
  <2>1. new' \in [config : Files \cup Posted, k : Nat \ {0}, base : Nat, post : BOOLEAN]
    <3>1. new.k + 1 \in Nat \ {0}
      BY <1>0 DEF HomeTyped
    <3> QED BY <1>0, <1>2, <3>1 DEF HomeTyped
  <2>2. IsList(todo') /\ ActoredAll(todo)'
    BY <1>0, <1>2, EmptyList DEF HomeTyped, ActoredAll
  <2> QED BY <1>0, <1>1, <1>4, <2>1, <2>2 DEF Adds, HomeTyped, StatsTyped, ActoredAll
<1>6. Numbers'
  BY <1>0, <1>1, <1>2 DEF Numbers
<1>7. Reached'
  <2>1. \A t \in threads' : t.id \in stopped' \cup actors' \cup Ids(groups)'
    BY <1>0, <1>1, <1>2, <1>4 DEF Reached, Ids, Adds
  <2>2. \A s \in Range(todo') : IdsOf(s) \subseteq actors' \cup stopped'
    BY <1>0, <1>1, <1>2, <1>4, EmptyList DEF Reached, Adds
  <2>3. \A s \in Range(asyncs') : IdsOf(s) \subseteq actors'
    BY <1>0, <1>4 DEF Reached, Adds
  <2> QED BY <2>1, <2>2, <2>3 DEF Reached
<1>8. Homes'
  <2>1. Grown /\ stopped \subseteq stopped'
    BY <1>1, <1>4 DEF Adds
  <2>2. \A s \in Range(asyncs') : s \in Range(asyncs) \/ Homed(s)'
    BY <1>4 DEF Adds
  <2>3. \A s \in Range(todo') : s \in Range(todo)
    BY <1>2, EmptyList
  <2>4. groups' = groups /\ \A t \in threads' : t \in threads
    BY <1>1, <1>2
  <2> QED BY <1>0, <2>1, <2>2, <2>3, <2>4, HomesStay
<1>9. PostQuiet'
  <2>1. at' \notin {"start", "update"} /\ todo' = <<>>
    BY <1>0, <1>1, <1>2 DEF PostQuiet
  <2>2. CASE at' = "analyze" /\ new'.post
    <3>1. /\ new' = [new EXCEPT !.k = @ + 1] /\ threads' = threads
          /\ new'.post = new.post /\ new'.base = new.base /\ new'.k = new.k + 1
          /\ new.base \in Nat /\ new.k \in Nat /\ Sid = new.base + new.k
      BY <1>0, <1>2, <2>2 DEF HomeTyped, Sid
    <3>2. /\ \A t \in threads : t.id \in stopped
          /\ groups = <<>>
          /\ \A s \in Range(https) \cup Range(asyncs) : s.sid \in Nat /\ s.sid < new.base + new.k
          /\ \A h \in Range(https), s \in Range(asyncs) : h.sid # s.sid
      BY <1>0, <1>1, <2>2, <3>1 DEF PostQuiet, Emptying
    <3>3. ASSUME NEW s \in Range(https') \cup Range(asyncs')
          PROVE  s.sid \in Nat /\ s.sid < new'.base + new'.k
      <4>1. s \in Range(https) \cup Range(asyncs) \/ s.sid = Sid
        BY <1>4, <3>3 DEF Adds
      <4> QED BY <3>1, <3>2, <4>1
    <3>4. ASSUME NEW h \in Range(https'), NEW s \in Range(asyncs') PROVE h.sid # s.sid
      <4>1. (h \in Range(https) \/ h.sid = Sid) /\ (s \in Range(asyncs) \/ s.sid = Sid)
            /\ (h \in Range(https) \/ s \in Range(asyncs))
        BY <1>4 DEF Adds
      <4> QED BY <3>1, <3>2, <4>1
    <3> QED BY <1>1, <2>1, <2>2, <3>1, <3>2, <3>3, <3>4 DEF PostQuiet, Emptying
  <2>3. CASE ~(at' = "analyze" /\ new'.post)
    <3>1. ~Emptying'
      BY <1>2, <2>3 DEF Emptying
    <3> QED BY <2>1, <3>1 DEF PostQuiet
  <2> QED BY <2>2, <2>3
<1> QED BY <1>5, <1>6, <1>7, <1>8, <1>9 DEF HomeInv

\* merge_alternatives adds to the lists of the statistics and removes nothing.
Parts(sid, which) ==
  [i \in DOMAIN https |-> IF i \in which /\ https[i].sid = sid THEN https[i].routes ELSE <<>>]

LEMMA PartsAre ==
  ASSUME HomeTyped, NEW sid, NEW which
  PROVE  /\ Parts(sid, which) \in Seq(Seq(UNION {Range(h.routes) : h \in Range(https)}))
         /\ Len(Parts(sid, which)) = Len(https) /\ Len(https) \in Nat
         /\ DOMAIN https = 1..Len(https)
         /\ FlattenSeq(Parts(sid, which)) \in Seq(UNION {Range(h.routes) : h \in Range(https)})
<1> DEFINE S == UNION {Range(h.routes) : h \in Range(https)}
           q == Parts(sid, which)
<1>1. Len(https) \in Nat /\ DOMAIN https = 1..Len(https)
  BY ListIs DEF HomeTyped
<1>2. \A i \in 1..Len(https) : q[i] \in Seq(S)
  <2> SUFFICES ASSUME NEW i \in 1..Len(https) PROVE q[i] \in Seq(S)
    OBVIOUS
  <2>1. https[i] \in Range(https)
    BY <1>1 DEF Range
  <2>2. https[i].routes \in Seq(Range(https[i].routes))
    BY <2>1, ListIs DEF HomeTyped
  <2>3. Range(https[i].routes) \subseteq S
    BY <2>1
  <2>4. https[i].routes \in Seq(S) /\ <<>> \in Seq(S)
    <3> HIDE DEF S
    <3> QED BY <2>2, <2>3
  <2>5. q[i] = https[i].routes \/ q[i] = <<>>
    BY <1>1 DEF Parts
  <2> QED BY <2>4, <2>5
<1>3. q = [i \in 1..Len(https) |-> q[i]]
  BY <1>1 DEF Parts
<1> HIDE DEF q, S
<1>4. q \in [1..Len(https) -> Seq(S)]
  BY <1>2, <1>3
<1>5. q \in Seq(Seq(S)) /\ Len(q) = Len(https)
  BY <1>1, <1>4
<1>6. FlattenSeq(q) \in Seq(S)
  BY <1>5, FlattenType
<1> QED BY <1>1, <1>5, <1>6 DEF q, S

LEMMA MergeIs ==
  ASSUME HomeTyped, NEW s, IsList(s), \A sid \in DOMAIN s : IsList(s[sid]), NEW which
  PROVE  /\ IsList(MergeAll(s, which)) /\ DOMAIN MergeAll(s, which) = DOMAIN s
         /\ \A sid \in DOMAIN s :
              /\ MergeAll(s, which)[sid] = s[sid] \o FlattenSeq(Parts(sid, which))
              /\ IsList(MergeAll(s, which)[sid])
              /\ Len(s[sid]) <= Len(MergeAll(s, which)[sid])
<1> DEFINE z == MergeAll(s, which)
<1>1. z = [sid \in DOMAIN s |-> s[sid] \o FlattenSeq(Parts(sid, which))]
  BY DEF MergeAll, Parts
<1> HIDE DEF z
<1>2. Len(s) \in Nat /\ DOMAIN s = 1..Len(s)
  BY ListIs
<1>3. z = [i \in 1..Len(s) |-> z[i]]
  BY <1>1, <1>2
<1>4. IsList(z) /\ DOMAIN z = DOMAIN s
  BY <1>2, <1>3, MakeList
<1>5. ASSUME NEW sid \in DOMAIN s
      PROVE  /\ z[sid] = s[sid] \o FlattenSeq(Parts(sid, which))
             /\ IsList(z[sid]) /\ Len(s[sid]) <= Len(z[sid])
  <2>1. z[sid] = s[sid] \o FlattenSeq(Parts(sid, which))
    BY <1>1
  <2>2. IsList(FlattenSeq(Parts(sid, which)))
    BY PartsAre, SeqIsList
  <2>3. Len(s[sid]) \in Nat /\ Len(FlattenSeq(Parts(sid, which))) \in Nat
    BY <2>2, ListIs
  <2> QED BY <2>1, <2>2, <2>3, ConcatIs
<1> QED BY <1>4, <1>5 DEF z

LEMMA LoadKeepsHome ==
  ASSUME HomeInv, Load
  PROVE  HomeInv'
<1>0. HomeTyped /\ Numbers /\ Reached /\ PostQuiet /\ Homes
  BY DEF HomeInv
<1>1. /\ at = "load" /\ at' \in {"down", "register"}
      /\ UNCHANGED <<new, numbered, https, asyncs, actors, groups, stopped, count>>
  BY DEF Load, lists, Exit, Now
<1>2. \/ stats' = stats /\ threads' = {} /\ todo' = <<>>
      \/ stats' = MergeAll(stats, Loaded) /\ threads' = threads /\ todo' = todo
  BY DEF Load, Exit
<1>3. StatsTyped' /\ Grown
  <2>1. CASE stats' = stats
    BY <1>0, <2>1, SameGrown DEF HomeTyped, StatsTyped
  <2>2. CASE stats' = MergeAll(stats, Loaded)
    <3>1. StatsTyped /\ IsList(stats)
      BY <1>0 DEF HomeTyped, StatsTyped
    <3>2. StatsTyped'
      BY <1>0, <2>2, <3>1, MergeIs DEF StatsTyped
    <3>3. \A sid \in DOMAIN stats : sid \in DOMAIN stats' /\ Len(stats[sid]) <= Len(stats'[sid])
      BY <1>0, <2>2, <3>1, MergeIs DEF StatsTyped
    <3> QED BY <3>1, <3>2, <3>3, LongerGrown
  <2> QED BY <1>2, <2>1, <2>2
<1>4. \A t \in threads' : t \in threads
  BY <1>2
<1>5. todo' = todo \/ todo' = <<>>
  BY <1>2
<1>6. HomeTyped'
  BY <1>0, <1>1, <1>3, <1>5, EmptyList DEF HomeTyped, StatsTyped, ActoredAll
<1>7. Numbers'
  BY <1>0, <1>1, <1>4 DEF Numbers
<1>8. Reached'
  BY <1>0, <1>1, <1>4, <1>5, EmptyList DEF Reached, Ids
<1>9. PostQuiet'
  BY <1>0, <1>1, <1>5 DEF PostQuiet, Emptying
<1>10. Homes'
  <2>1. \A s \in Range(todo') : s \in Range(todo)
    BY <1>5, EmptyList
  <2> QED BY <1>0, <1>1, <1>3, <1>4, <2>1, HomesStay
<1> QED BY <1>6, <1>7, <1>8, <1>9, <1>10 DEF HomeInv

\* update_service empties lists of the statistics, but of no service with actors.
LEMMA UpdateKeepsHome ==
  ASSUME HomeInv, Update
  PROVE  HomeInv'
<1>0. HomeTyped /\ Numbers /\ Reached /\ PostQuiet /\ Homes
  BY DEF HomeInv
<1> DEFINE reached == {i \in DOMAIN https : \A j \in DOMAIN https \ DOMAIN apps : i <= j}
           cleared == [sid \in DOMAIN stats |->
                         IF \E i \in reached : https[i].sid = sid THEN <<>> ELSE stats[sid]]
<1>1. /\ at = "update" /\ at' \in {"reset", "serve"}
      /\ UNCHANGED <<new, todo, numbered, https, asyncs, actors, groups, stopped, threads, count>>
      /\ stats' = MergeAll(cleared, reached)
  BY DEF Update, lists, Now
<1>2. /\ \A t \in threads : t.id \in stopped
      /\ groups = <<>> /\ todo = <<>> /\ new.post
      /\ \A h \in Range(https), s \in Range(asyncs) : h.sid # s.sid
  BY <1>0, <1>1 DEF PostQuiet, Emptying
<1>3. reached \subseteq DOMAIN https
  OBVIOUS
<1>4. /\ IsList(cleared) /\ DOMAIN cleared = DOMAIN stats
      /\ \A sid \in DOMAIN cleared : IsList(cleared[sid])
      /\ \A sid \in DOMAIN stats :
           (\A i \in DOMAIN https : https[i].sid # sid) => cleared[sid] = stats[sid]
  <2>1. IsList(stats) /\ \A sid \in DOMAIN stats : IsList(stats[sid])
    BY <1>0 DEF HomeTyped
  <2>2. Len(stats) \in Nat /\ DOMAIN stats = 1..Len(stats)
    BY <2>1, ListIs
  <2>3. cleared = [sid \in 1..Len(stats) |-> cleared[sid]]
    BY <2>2
  <2>4. IsList(cleared)
    <3> HIDE DEF cleared
    <3> QED BY <2>2, <2>3, MakeList
  <2>5. \A sid \in DOMAIN stats : cleared[sid] = <<>> \/ cleared[sid] = stats[sid]
    OBVIOUS
  <2>6. DOMAIN cleared = DOMAIN stats
    OBVIOUS
  <2>7. \A sid \in DOMAIN stats :
           (\A i \in DOMAIN https : https[i].sid # sid) => cleared[sid] = stats[sid]
    BY <1>3
  <2> HIDE DEF cleared
  <2> QED BY <2>1, <2>4, <2>5, <2>6, <2>7, EmptyList
<1> HIDE DEF reached, cleared
<1>5. /\ StatsTyped'
      /\ DOMAIN stats' = DOMAIN stats
      /\ \A sid \in DOMAIN stats : Len(cleared[sid]) <= Len(stats'[sid])
  BY <1>0, <1>1, <1>4, MergeIs DEF StatsTyped
<1>6. ASSUME NEW s \in Range(asyncs), NEW e, HasEndpoint(s.sid, e)
      PROVE  HasEndpoint(s.sid, e)'
  <2>1. s.sid \in DOMAIN stats /\ e \in DOMAIN stats[s.sid]
    BY <1>6 DEF HasEndpoint, InStats
  <2>2. cleared[s.sid] = stats[s.sid]
    <3>1. \A i \in DOMAIN https : https[i] \in Range(https)
      BY DEF Range
    <3> QED BY <1>2, <1>4, <2>1, <3>1
  <2>3. IsList(stats[s.sid]) /\ IsList(stats'[s.sid])
    BY <1>0, <1>5, <2>1 DEF HomeTyped, StatsTyped
  <2>4. /\ Len(stats[s.sid]) \in Nat /\ DOMAIN stats[s.sid] = 1..Len(stats[s.sid])
        /\ Len(stats'[s.sid]) \in Nat /\ DOMAIN stats'[s.sid] = 1..Len(stats'[s.sid])
        /\ Len(stats[s.sid]) <= Len(stats'[s.sid])
    BY <1>5, <2>1, <2>2, <2>3, ListIs
  <2>5. e \in DOMAIN stats'[s.sid]
    BY <2>1, <2>4
  <2> QED BY <1>5, <2>1, <2>5 DEF HasEndpoint, InStats
<1>7. HomedAll(asyncs)'
  <2>1. ASSUME NEW s \in Range(asyncs) PROVE Homed(s)'
    <3>1. Homed(s)
      BY <1>0, <2>1 DEF Homes, HomedAll
    <3> QED BY <1>6, <2>1, <3>1 DEF Homed
  <2> QED BY <1>1, <2>1 DEF HomedAll
<1>8. Homes'
  BY <1>1, <1>2, <1>7, EmptyList DEF Homes, HomedAll
<1>9. HomeTyped' /\ Numbers' /\ Reached'
  BY <1>0, <1>1, <1>5 DEF HomeTyped, StatsTyped, ActoredAll, Numbers, Reached, Ids
<1>10. PostQuiet'
  BY <1>1, <1>2 DEF PostQuiet, Emptying
<1> QED BY <1>8, <1>9, <1>10 DEF HomeInv

LEMMA StopLoopsReaches ==
  ASSUME HomeInv, StopLoops
  PROVE  /\ \A t \in threads : t.id \in stopped'
         /\ asyncs' = <<>> /\ actors' = {} /\ groups' = <<>>
         /\ actors \cup stopped \subseteq stopped'
<1>1. stopped' = stopped \cup actors \cup Ids(groups)
  BY DEF StopLoops, Ids, Range
<1> QED BY <1>1 DEF StopLoops, HomeInv, Reached

LEMMA PostKeepsHome ==
  ASSUME HomeInv, NEW c \in Posted, Post(c)
  PROVE  HomeInv'
<1>0. HomeTyped /\ Numbers /\ Reached /\ PostQuiet /\ Homes
  BY DEF HomeInv
<1>1. /\ StopLoops /\ threads' = threads /\ todo' = todo /\ numbered' = 0 /\ https' = <<>>
      /\ new' = Plan(c, TRUE) /\ at = "serve" /\ at' = "build" /\ stats' = <<>>
      /\ count' = [count EXCEPT !.posts = @ + 1]
  BY DEF Post, Now, ClearLists
<1>2. /\ \A t \in threads : t.id \in stopped'
      /\ asyncs' = <<>> /\ actors' = {} /\ groups' = <<>>
      /\ actors \cup stopped \subseteq stopped'
  BY <1>1, StopLoopsReaches
<1>3. todo = <<>>
  BY <1>0, <1>1 DEF PostQuiet
<1>4. IsList(<<>>) /\ Range(<<>>) = {} /\ DOMAIN <<>> = {}
  BY EmptyList
<1>5. /\ {"gens", "rounds", "threads", "posts", "hangups", "messages"} \subseteq DOMAIN count'
      /\ count'.threads = count.threads
  BY <1>0, <1>1 DEF HomeTyped
<1>6. HomeTyped'
  <2>1. new' \in [config : Files \cup Posted, k : Nat \ {0}, base : Nat, post : BOOLEAN]
    BY <1>1, PlanTyped
  <2> QED BY <1>0, <1>1, <1>2, <1>3, <1>4, <1>5, <2>1 DEF HomeTyped, ActoredAll
<1>7. Numbers'
  BY <1>0, <1>1, <1>5 DEF Numbers
<1>8. Reached'
  BY <1>1, <1>2, <1>3, <1>4 DEF Reached
<1>9. PostQuiet'
  BY <1>1, <1>2, <1>3, <1>4 DEF PostQuiet, Emptying
<1>10. Homes'
  BY <1>1, <1>2, <1>3, <1>4 DEF Homes, HomedAll
<1> QED BY <1>6, <1>7, <1>8, <1>9, <1>10 DEF HomeInv

LEMMA HangupKeepsHome ==
  ASSUME HomeInv, Hangup
  PROVE  HomeInv'
<1>0. HomeTyped /\ Numbers /\ Reached /\ PostQuiet /\ Homes
  BY DEF HomeInv
<1>1. UNCHANGED <<new, stats>> /\ count' = [count EXCEPT !.hangups = @ + 1]
  BY DEF Hangup
<1>2. /\ {"gens", "rounds", "threads", "posts", "hangups", "messages"} \subseteq DOMAIN count'
      /\ count'.threads = count.threads
  BY <1>0, <1>1 DEF HomeTyped
<1>3. IsList(<<>>) /\ Range(<<>>) = {} /\ DOMAIN <<>> = {}
  BY EmptyList
<1>4. CASE Exit /\ UNCHANGED <<lists, stopped>>
  <2>1. /\ UNCHANGED <<numbered, https, asyncs, actors, groups, stopped>>
        /\ at' = "down" /\ threads' = {} /\ todo' = <<>>
    BY <1>4 DEF Exit, lists
  <2>2. HomeTyped' /\ Numbers'
    BY <1>0, <1>1, <1>2, <1>3, <2>1 DEF HomeTyped, ActoredAll, Numbers
  <2>3. Reached' /\ PostQuiet'
    BY <1>0, <1>3, <2>1 DEF Reached, PostQuiet, Emptying
  <2>4. Homes'
    <3>1. \A s \in Range(todo') : s \in Range(todo)
      BY <1>3, <2>1
    <3> QED BY <1>0, <1>1, <2>1, <3>1, SameGrown, HomesStay
  <2> QED BY <2>2, <2>3, <2>4 DEF HomeInv
<1>5. CASE ~(Exit /\ UNCHANGED <<lists, stopped>>)
  <2>1. /\ StopLoops /\ threads' = threads /\ todo' = todo /\ at' = at
        /\ numbered' = 0 /\ https' = <<>>
    BY <1>5 DEF Hangup, ClearLists
  <2>2. /\ \A t \in threads : t.id \in stopped'
        /\ asyncs' = <<>> /\ actors' = {} /\ groups' = <<>>
        /\ actors \cup stopped \subseteq stopped'
    BY <2>1, StopLoopsReaches
  <2>3. HomeTyped' /\ Numbers'
    BY <1>0, <1>1, <1>2, <1>3, <2>1, <2>2 DEF HomeTyped, ActoredAll, Numbers
  <2>4. Reached'
    BY <1>0, <1>3, <2>1, <2>2 DEF Reached
  <2>5. PostQuiet'
    BY <1>0, <1>1, <1>3, <2>1, <2>2 DEF PostQuiet, Emptying
  <2>6. Homes'
    BY <1>0, <1>1, <1>3, <2>1, <2>2, SameGrown, HomesStay
  <2> QED BY <2>3, <2>4, <2>5, <2>6 DEF HomeInv
<1> QED BY <1>4, <1>5

LEMMA SameKeepsHome ==
  ASSUME HomeInv, UNCHANGED vars
  PROVE  HomeInv'
<1>0. HomeTyped /\ Numbers /\ Reached /\ PostQuiet /\ Homes
  BY DEF HomeInv
<1>1. UNCHANGED <<at, new, todo, numbered, https, asyncs, actors, groups, stopped, stats,
                  threads, count>>
  BY DEF vars, main, lists
<1>2. HomeTyped' /\ Numbers' /\ Reached' /\ PostQuiet'
  BY <1>0, <1>1 DEF HomeTyped, ActoredAll, Numbers, Reached, Ids, PostQuiet, Emptying
<1>3. Homes'
  BY <1>0, <1>1, SameGrown, HomesStay
<1> QED BY <1>2, <1>3 DEF HomeInv

\* run_loops: the members of a group, and of the groups before, have endpoints.
LEMMA GroupsAtHome ==
  ASSUME NEW s, Actored(s), Homed(s)
  PROVE  IsList(GroupsOf(s)) /\ \A g \in Range(GroupsOf(s)) : MembersHomed(g)
<1>1. IsFiniteSet(DOMAIN s.actors)
  <2>1. Len(s.actors) \in Nat /\ DOMAIN s.actors = 1..Len(s.actors)
    BY DEF Actored
  <2> QED BY <2>1, FS_Interval
<1>2. IsList(GroupsOf(s))
  BY <1>1, GroupsOfList
<1>3. ASSUME NEW g \in Range(GroupsOf(s)) PROVE MembersHomed(g)
  <2>1. PICK k : g.id.sid = s.sid /\ g.members = {<<j, s.actors[j].reads>> : j \in SameTopic(s, k)}
    <3> DEFINE firsts == {k \in Reading(s) : k = Min(SameTopic(s, k))}
               at1(i) == SetToSortSeq(firsts, <)[i]
    <3>1. PICK i \in DOMAIN GroupsOf(s) : g = GroupsOf(s)[i]
      BY DEF Range
    <3>2. GroupsOf(s)[i].id.sid = s.sid
      BY <3>1 DEF GroupsOf
    <3>3. GroupsOf(s)[i].members = {<<j, s.actors[j].reads>> : j \in SameTopic(s, at1(i))}
      BY <3>1 DEF GroupsOf
    <3> HIDE DEF at1
    <3> QED BY <3>1, <3>2, <3>3
  <2>2. ASSUME NEW j \in SameTopic(s, k)
        PROVE  j \in Nat \ {0} /\ HasEndpoint(s.sid, s.actors[j].reads)
    <3>1. j \in DOMAIN s.actors /\ s.actors[j].topic # Nothing
      BY DEF SameTopic, Reading
    <3> QED BY <3>1 DEF Actored, Homed
  <2>3. \A m \in g.members : \E j \in SameTopic(s, k) : m = <<j, s.actors[j].reads>>
    BY <2>1
  <2> QED BY <2>1, <2>2, <2>3 DEF MembersHomed
<1> QED BY <1>2, <1>3

LEMMA StartServiceKeepsHome ==
  ASSUME HomeInv, StartService
  PROVE  HomeInv'
<1>0. HomeTyped /\ Numbers /\ Reached /\ PostQuiet /\ Homes
  BY DEF HomeInv
<1>1. PICK s, all, n :
        /\ s = Head(todo) /\ all = groups \o GroupsOf(s) /\ n = count.threads
        /\ at = "start" /\ todo # <<>> /\ todo' = Tail(todo)
        /\ threads' = threads \cup {t \in
             {Thread(n + k, ActorId(s.gen, s.sid, k), s.type, {<<k, s.actors[k].writes>>}) :
                k \in {j \in DOMAIN s.actors : s.actors[j].loops}}
             \cup {Thread(n + Len(s.actors) + g, all[g].id, all[g].type, all[g].members) :
                     g \in DOMAIN all} : ~MayLeave(t)}
        /\ groups' = all
        /\ count' = [count EXCEPT !.threads = @ + Len(s.actors) + Len(all)]
        /\ UNCHANGED <<at, new, numbered, https, asyncs, actors, stopped, stats>>
  BY DEF StartService
<1>2. IsList(Tail(todo)) /\ Range(Tail(todo)) \subseteq Range(todo) /\ s \in Range(todo)
  BY <1>0, <1>1, TailList DEF HomeTyped
<1>3. /\ Homed(s) /\ Actored(s) /\ Len(s.actors) \in Nat /\ DOMAIN s.actors = 1..Len(s.actors)
      /\ IdsOf(s) \subseteq actors \cup stopped
  BY <1>0, <1>2 DEF Homes, HomedAll, HomeTyped, ActoredAll, Actored, Reached
<1>4. IsList(GroupsOf(s)) /\ \A g \in Range(GroupsOf(s)) : MembersHomed(g)
  BY <1>3, GroupsAtHome
<1>5. /\ IsList(all) /\ Range(all) = Range(groups) \cup Range(GroupsOf(s))
      /\ Len(all) \in Nat /\ DOMAIN all = 1..Len(all)
      /\ n \in Nat
  BY <1>0, <1>1, <1>4, ConcatList, ListIs DEF HomeTyped
<1>6. ASSUME NEW t \in threads', t \notin threads
      PROVE  \/ \E k \in 1..Len(s.actors) :
                  /\ s.actors[k].loops
                  /\ t = Thread(n + k, ActorId(s.gen, s.sid, k), s.type,
                                {<<k, s.actors[k].writes>>})
             \/ \E g \in 1..Len(all) :
                  t = Thread(n + Len(s.actors) + g, all[g].id, all[g].type, all[g].members)
  BY <1>1, <1>3, <1>5, <1>6
<1>7. \A i, id, type, members :
        LET t == Thread(i, id, type, members)
        IN  DOMAIN t = Fields /\ t.n = i /\ t.id = id /\ t.members = members /\ t.pc = "wait"
  BY DEF Thread, Fields
<1>8. ASSUME NEW t \in threads', t \notin threads
      PROVE  /\ DOMAIN t = Fields /\ t.pc = "wait" /\ MembersHomed(t)
             /\ t.id \in stopped \cup actors \cup Ids(groups)'
             /\ t.n \in (n + 1)..(n + Len(s.actors) + Len(all))
  <2>1. CASE \E k \in 1..Len(s.actors) :
               /\ s.actors[k].loops
               /\ t = Thread(n + k, ActorId(s.gen, s.sid, k), s.type, {<<k, s.actors[k].writes>>})
    <3>1. PICK k \in 1..Len(s.actors) :
               /\ s.actors[k].loops
               /\ t = Thread(n + k, ActorId(s.gen, s.sid, k), s.type, {<<k, s.actors[k].writes>>})
      BY <2>1
    <3>2. /\ DOMAIN t = Fields /\ t.pc = "wait" /\ t.n = n + k
          /\ t.id = ActorId(s.gen, s.sid, k) /\ t.members = {<<k, s.actors[k].writes>>}
      BY <1>7, <3>1
    <3>3. HasEndpoint(s.sid, s.actors[k].writes) /\ t.id.sid = s.sid
      BY <1>3, <3>1, <3>2 DEF Homed, ActorId
    <3>4. MembersHomed(t)
      BY <3>2, <3>3 DEF MembersHomed
    <3>5. t.id \in IdsOf(s)
      BY <1>3, <3>2 DEF IdsOf
    <3> QED BY <1>3, <1>5, <3>2, <3>4, <3>5
  <2>2. CASE \E g \in 1..Len(all) :
               t = Thread(n + Len(s.actors) + g, all[g].id, all[g].type, all[g].members)
    <3>1. PICK g \in 1..Len(all) :
               t = Thread(n + Len(s.actors) + g, all[g].id, all[g].type, all[g].members)
      BY <2>2
    <3>2. /\ DOMAIN t = Fields /\ t.pc = "wait" /\ t.n = n + Len(s.actors) + g
          /\ t.id = all[g].id /\ t.members = all[g].members
      BY <1>7, <3>1
    <3>3. all[g] \in Range(all)
      BY <1>5 DEF Range
    <3>4. MembersHomed(all[g])
      BY <1>0, <1>4, <1>5, <3>3 DEF Homes
    <3>5. MembersHomed(t)
      BY <3>2, <3>4 DEF MembersHomed
    <3>6. t.id \in Ids(groups)'
      BY <1>1, <3>2, <3>3 DEF Ids
    <3> QED BY <1>3, <1>5, <3>2, <3>5, <3>6
  <2> QED BY <1>6, <1>8, <2>1, <2>2
<1>9. ASSUME NEW t \in threads', NEW u \in threads', t \notin threads, u \notin threads, t.n = u.n
      PROVE  t = u
  <2> DEFINE P(x, k) == x = Thread(n + k, ActorId(s.gen, s.sid, k), s.type,
                                   {<<k, s.actors[k].writes>>})
             C(x, g) == x = Thread(n + Len(s.actors) + g, all[g].id, all[g].type, all[g].members)
  <2>1. /\ (\E k \in 1..Len(s.actors) : P(t, k)) \/ (\E g \in 1..Len(all) : C(t, g))
        /\ (\E k \in 1..Len(s.actors) : P(u, k)) \/ (\E g \in 1..Len(all) : C(u, g))
    BY <1>6, <1>9
  <2>2. /\ \A x, k : P(x, k) => x.n = n + k
        /\ \A x, g : C(x, g) => x.n = n + Len(s.actors) + g
    BY <1>7
  <2>3. /\ \A x, y, k : P(x, k) /\ P(y, k) => x = y
        /\ \A x, y, k : C(x, k) /\ C(y, k) => x = y
    OBVIOUS
  <2> HIDE DEF P, C
  <2>4. ASSUME NEW k \in 1..Len(s.actors), NEW j \in 1..Len(s.actors), P(t, k), P(u, j)
        PROVE  t = u
    <3>1. k = j
      BY <1>3, <1>5, <1>9, <2>2, <2>4
    <3> QED BY <2>3, <2>4, <3>1
  <2>5. ASSUME NEW k \in 1..Len(all), NEW j \in 1..Len(all), C(t, k), C(u, j)
        PROVE  t = u
    <3>1. k = j
      BY <1>3, <1>5, <1>9, <2>2, <2>5
    <3> QED BY <2>3, <2>5, <3>1
  <2>6. ASSUME NEW k \in 1..Len(s.actors), NEW g \in 1..Len(all)
        PROVE  ~(P(t, k) /\ C(u, g)) /\ ~(P(u, k) /\ C(t, g))
    BY <1>3, <1>5, <1>9, <2>2
  <2> QED BY <2>1, <2>4, <2>5, <2>6
<1>10. /\ {"gens", "rounds", "threads", "posts", "hangups", "messages"} \subseteq DOMAIN count'
       /\ count'.threads = n + Len(s.actors) + Len(all)
  BY <1>0, <1>1 DEF HomeTyped
<1>11. Numbers'
  <2>1. ASSUME NEW t \in threads'
        PROVE  /\ DOMAIN t = Fields /\ t.n \in 1..count'.threads
               /\ t.pc \in Busy => AtMember(t)
               /\ t.pc \in {"wait", "died"} \cup Busy
    <3>1. CASE t \in threads
      <4>1. /\ DOMAIN t = Fields /\ t.n \in 1..n /\ (t.pc \in Busy => AtMember(t))
            /\ t.pc \in {"wait", "died"} \cup Busy
        BY <1>0, <1>1, <3>1 DEF Numbers
      <4>2. t.n \in 1..count'.threads
        BY <1>3, <1>5, <1>10, <4>1
      <4> QED BY <1>0, <3>1, <4>1, <4>2 DEF Numbers
    <3>2. CASE t \notin threads
      <4>1. /\ DOMAIN t = Fields /\ t.pc = "wait"
            /\ t.n \in (n + 1)..(n + Len(s.actors) + Len(all))
        BY <1>8, <3>2
      <4>2. t.n \in 1..count'.threads
        BY <1>3, <1>5, <1>10, <4>1
      <4> QED BY <4>1, <4>2 DEF Busy
    <3> QED BY <3>1, <3>2
  <2>2. ASSUME NEW t \in threads', NEW u \in threads', t.n = u.n PROVE t = u
    <3>1. CASE t \in threads /\ u \in threads
      BY <1>0, <2>2, <3>1 DEF Numbers
    <3>2. CASE t \notin threads /\ u \notin threads
      BY <1>9, <2>2, <3>2
    <3>3. CASE t \in threads /\ u \notin threads
      <4>1. t.n \in 1..n /\ u.n \in (n + 1)..(n + Len(s.actors) + Len(all))
        BY <1>0, <1>1, <1>8, <3>3 DEF Numbers
      <4> QED BY <1>3, <1>5, <2>2, <4>1
    <3>4. CASE t \notin threads /\ u \in threads
      <4>1. u.n \in 1..n /\ t.n \in (n + 1)..(n + Len(s.actors) + Len(all))
        BY <1>0, <1>1, <1>8, <3>4 DEF Numbers
      <4> QED BY <1>3, <1>5, <2>2, <4>1
    <3> QED BY <3>1, <3>2, <3>3, <3>4
  <2> QED BY <2>1, <2>2 DEF Numbers
<1>12. HomeTyped'
  <2>1. count'.threads \in Nat
    BY <1>3, <1>5, <1>10
  <2> QED BY <1>0, <1>1, <1>2, <1>5, <1>10, <2>1 DEF HomeTyped, ActoredAll
<1>13. Reached'
  <2>1. Ids(groups) \subseteq Ids(groups)'
    BY <1>1, <1>5 DEF Ids
  <2> QED BY <1>0, <1>1, <1>2, <1>8, <2>1 DEF Reached
<1>14. PostQuiet'
  BY <1>0, <1>1 DEF PostQuiet, Emptying
<1>15. Homes'
  <2>1. Grown
    BY <1>1, SameGrown
  <2>2. \A x : MembersHomed(x) => MembersHomed(x)'
    BY <2>1 DEF MembersHomed, Grown
  <2>3. \A g \in Range(groups') : g \in Range(groups) \/ MembersHomed(g)'
    BY <1>1, <1>4, <1>5, <2>2
  <2>4. \A t \in threads' : t \in threads \/ MembersHomed(t)'
    BY <1>8, <2>2
  <2> QED BY <1>0, <1>1, <1>2, <2>1, <2>3, <2>4, HomesStay
<1> QED BY <1>11, <1>12, <1>13, <1>14, <1>15 DEF HomeInv

LEMMA NextKeepsHome == HomeInv /\ [Next]_vars => HomeInv'
<1> SUFFICES ASSUME HomeInv, [Next]_vars PROVE HomeInv'
  OBVIOUS
<1>1. CASE UNCHANGED vars
  BY <1>1, SameKeepsHome
<1>2. ASSUME NEW t \in threads, ThreadStep(t) PROVE HomeInv'
  BY <1>2, ThreadKeepsHome
<1>3. ASSUME NEW c \in Posted, Post(c) PROVE HomeInv'
  BY <1>3, PostKeepsHome
<1>4. CASE Build \/ Analyzed \/ Register \/ Reset \/ RunLoops \/ Started \/ Restart
  BY <1>4, QuietKeepsHome
<1>5. CASE Analyze \/ Load \/ Update \/ StartService \/ Hangup
  BY <1>5, AnalyzeKeepsHome, LoadKeepsHome, UpdateKeepsHome, StartServiceKeepsHome,
     HangupKeepsHome
<1> QED BY <1>1, <1>2, <1>3, <1>4, <1>5 DEF Next, Boot, Looping, Posting, Signals

\* Who dies in a step, was alive before it and was not told to stop, lost the
\* endpoint of its message, or the one at its actor's position: the first is at home.
LEMMA StepSpares ==
  ASSUME HomeInv, Next, NEW t \in threads, NEW u \in threads',
         u.n = t.n, u.pc = "died", t.pc # "died"
  PROVE  t.id \in stopped \/ (InStats(t.id.sid) /\ t.k > Len(stats[t.id.sid]))
<1>0. HomeTyped /\ Numbers /\ Homes
  BY DEF HomeInv
<1>1. ASSUME \A x \in threads' : x \in threads \/ x.pc = "wait" PROVE FALSE
  <2>1. u \in threads
    BY <1>1
  <2>2. u = t
    BY <1>0, <2>1 DEF Numbers
  <2> QED BY <2>2
<1>2. CASE Build \/ Analyze \/ Analyzed \/ Load \/ Register \/ RunLoops \/ Started \/ Update
           \/ Hangup \/ Restart \/ \E c \in Posted : Post(c)
  <2>1. threads' = threads \/ threads' = {}
    BY <1>2 DEF Build, Analyze, Analyzed, Load, Register, RunLoops, Started, Update, Hangup,
         Restart, Post, Exit
  <2> QED BY <1>1, <2>1
<1>3. CASE StartService
  <2> DEFINE v == Head(todo)
             all == groups \o GroupsOf(v)
             n == count.threads
             producing ==
               {Thread(n + k, ActorId(v.gen, v.sid, k), v.type, {<<k, v.actors[k].writes>>}) :
                  k \in {j \in DOMAIN v.actors : v.actors[j].loops}}
             consuming ==
               {Thread(n + Len(v.actors) + g, all[g].id, all[g].type, all[g].members) :
                  g \in DOMAIN all}
  <2>1. threads' \subseteq threads \cup producing \cup consuming
    BY <1>3 DEF StartService
  <2>2. \A x \in producing \cup consuming : x.pc = "wait"
    BY DEF Thread
  <2> HIDE DEF producing, consuming
  <2> QED BY <1>1, <2>1, <2>2
<1>4. CASE Reset
  <2>1. PICK v \in threads : u = [v EXCEPT !.stale = (v.pc = "held")]
    BY <1>4 DEF Reset
  <2>2. u.n = v.n /\ u.pc = v.pc
    BY <1>0, <2>1 DEF Numbers, Fields
  <2>3. v = t
    BY <1>0, <2>2 DEF Numbers
  <2> QED BY <2>2, <2>3
<1>5. CASE \E v \in threads : ThreadStep(v)
  <2>1. PICK v \in threads : ThreadStep(v)
    BY <1>5
  <2>2. DOMAIN v = Fields
    BY <1>0 DEF Numbers
  <2>3. \/ u \in threads \ {v}
        \/ u.n = v.n /\ Lost(v)
        \/ u.pc = "wait" \/ u.pc \in Busy
    BY <1>0, <2>1, <2>2, ThreadMoves DEF Busy
  <2>4. u = t \/ (v = t /\ Lost(t))
    BY <1>0, <2>3 DEF Numbers, Busy
  <2>5. Lost(t)
    BY <2>4
  <2> SUFFICES ASSUME t.id \notin stopped
               PROVE  InStats(t.id.sid) /\ t.k > Len(stats[t.id.sid])
    OBVIOUS
  <2>6. PICK m \in t.members : t.k = m[1] /\ t.endpoint = m[2]
    BY <1>0, <2>5 DEF Lost, Numbers, AtMember, Busy
  <2>7. t.k \in Nat \ {0} /\ HasEndpoint(t.id.sid, t.endpoint)
    BY <1>0, <2>6 DEF Homes, MembersHomed
  <2>8. InStats(t.id.sid) /\ ~HasEndpoint(t.id.sid, t.k)
    BY <2>5, <2>7 DEF Lost, HasEndpoint
  <2>9. Len(stats[t.id.sid]) \in Nat /\ DOMAIN stats[t.id.sid] = 1..Len(stats[t.id.sid])
    BY <1>0, <2>8, ListIs DEF HomeTyped, InStats
  <2> QED BY <2>7, <2>8, <2>9 DEF HasEndpoint
<1> QED BY <1>2, <1>3, <1>4, <1>5 DEF Next, Boot, Looping, Posting, Signals

\* Through posts that empty and refill the statistics, refused or failed
\* half-way, and through restarts, no thread that goes on unasked is ended by
\* an IndexError for the endpoint of its message: the one it can lose is at the
\* position of its actor, where the service has fewer endpoints.
THEOREM CurrentGoOn == Spec => CurrentSurvive
<1> DEFINE Spared == \A t \in threads : \A u \in threads' :
                       u.n = t.n /\ u.pc = "died" /\ t.pc # "died" =>
                         t.id \in stopped \/ (InStats(t.id.sid) /\ t.k > Len(stats[t.id.sid]))
<1>1. HomeInv /\ [Next]_vars => [Spared]_vars
  BY StepSpares
<1>2. Spec => [][Spared]_vars
  <2> HIDE DEF Spared
  <2> QED BY <1>1, InitHome, NextKeepsHome, PTL DEF Spec
<1> QED BY <1>2 DEF CurrentSurvive
-----------------------------------------------------------------------------
(***************************************************************************)
(* Whose endpoint is where.  From a post, or the first start, to the next  *)
(* post the ids of the services are their places in the configuration;     *)
(* the statistics of each are its actors' endpoints or its routes.         *)
(***************************************************************************)
\* The actors of service i of the configuration count at the endpoints they added.
Entered(config, i, gen) ==
  LET items == config[i].items IN
  /\ stats[i] = Added(items, Len(items))
  /\ \E s \in Range(asyncs) :
       /\ s.gen = gen /\ s.sid = i
       /\ DOMAIN s.actors = 1..Len(items)
       /\ \A k \in 1..Len(items) : s.actors[k] = SetActor(items, k, 0)

\* analyze has entered the first n services.
Analysed(config, n, gen) ==
  /\ DOMAIN stats = 1..n
  /\ \A i \in 1..n : config[i].type # "http" => Entered(config, i, gen)
  /\ \A p \in DOMAIN https :
       /\ https[p].sid \in 1..n /\ config[https[p].sid].type = "http"
       /\ config[https[p].sid].name = https[p].name
       /\ stats[https[p].sid] = <<>>
  /\ \A p, q \in DOMAIN https : https[p].sid = https[q].sid => p = q
  /\ IsList(logs) /\ n <= Len(logs)
  /\ ~new.post => n = Len(logs) /\ \A i \in 1..n : logs[i] = config[i].name

\* HTTP services have their endpoints too.
Counted ==
  /\ root.base = 0 /\ root.config \in Files \cup Posted
  /\ \A i \in DOMAIN root.config :
       root.config[i].type # "http" => i \in DOMAIN stats /\ Entered(root.config, i, root.gen)
  /\ \A p \in DOMAIN https \cap DOMAIN apps : LET sid == https[p].sid IN
       /\ sid \in Nat
       /\ stats[sid] = https[p].routes /\ apps[p].routes = https[p].routes
       /\ logs[sid] = root.config[sid].name

Calm == ~failed /\ ~interrupted /\ ~restarted /\ ~hup
Placed ==
  /\ at = "build" => /\ stats = <<>> /\ asyncs = <<>> /\ https = <<>>
                     /\ numbered = 0 /\ new.k = 1
                     /\ ~new.post => logs = <<>>
  /\ at = "analyze" => /\ new.base = 0 /\ new.k - 1 <= Len(new.config)
                       /\ Analysed(new.config, new.k - 1, count.gens)
  /\ at \in {"load", "update"} =>
       /\ root.base = 0 /\ root.config \in Files \cup Posted
       /\ at = "load" => ~new.post
       /\ Analysed(root.config, Len(root.config), root.gen)
  /\ at \in {"register", "run", "start", "reset", "serve"} => Counted

PlaceInv ==
  /\ IsList(logs)
  /\ {failed, interrupted, restarted, hup} \subseteq BOOLEAN
  /\ failed => at \in {"serve", "down"}
  /\ Calm => Placed

LEMMA FlattenOnly ==
  ASSUME NEW S, NEW q \in Seq(Seq(S)), NEW p \in 1..Len(q),
         \A i \in 1..Len(q) : i # p => q[i] = <<>>
  PROVE  FlattenSeq(q) = q[p]
<1>1. Len(q) \in Nat /\ q # <<>> /\ q[p] \in Seq(S)
  OBVIOUS
<1>2. PICK f : /\ \A i \in 1..Len(q) : f[i] \in Seq(S)
               /\ Joins(f, q, Len(q)) /\ FlattenSeq(q) = f[Len(q)]
  BY <1>1, FlattenJoins
<1> DEFINE is(i) == IF i < p THEN <<>> ELSE q[p]
           Bad == {i \in 1..Len(q) : f[i] # is(i)}
<1>3. Bad = {}
  <2> SUFFICES ASSUME Bad # {} PROVE FALSE
    OBVIOUS
  <2>1. Bad \subseteq Nat
    OBVIOUS
  <2>2. PICK i \in Bad : \A k \in Bad : i <= k
    <3> HIDE DEF Bad
    <3> QED BY <2>1, LeastExists
  <2>3. i \in 1..Len(q) /\ f[i] # is(i)
    BY <2>2
  <2>4. i # 1 => i - 1 \in 1..Len(q) /\ f[i - 1] = is(i - 1)
    <3>1. i # 1 => i - 1 \in 1..Len(q) /\ ~(i <= i - 1)
      BY <1>1, <2>3
    <3> QED BY <2>2, <3>1
  <2>5. f[i] = IF i = 1 THEN q[i] ELSE f[i - 1] \o q[i]
    BY <1>2, <2>3 DEF Joins
  <2>6. \A u \in Seq(S) : <<>> \o u = u /\ u \o <<>> = u
    OBVIOUS
  <2>7. CASE i < p
    <3>1. q[i] = <<>> /\ is(i) = <<>> /\ (i # 1 => is(i - 1) = <<>>)
      BY <1>1, <2>3, <2>7
    <3>2. <<>> \o <<>> = <<>>
      BY <2>6
    <3> QED BY <2>3, <2>4, <2>5, <3>1, <3>2
  <2>8. CASE i = p
    <3>1. is(i) = q[p] /\ (i # 1 => is(i - 1) = <<>>)
      BY <1>1, <2>3, <2>8
    <3>2. <<>> \o q[p] = q[p]
      BY <1>1, <2>6
    <3> QED BY <2>3, <2>4, <2>5, <2>8, <3>1, <3>2
  <2>9. CASE i > p
    <3>1. is(i) = q[p] /\ i # 1 /\ is(i - 1) = q[p] /\ q[i] = <<>>
      BY <1>1, <2>3, <2>9
    <3>2. q[p] \o <<>> = q[p]
      BY <1>1, <2>6
    <3> QED BY <2>3, <2>4, <2>5, <3>1, <3>2
  <2> QED BY <1>1, <2>3, <2>7, <2>8, <2>9
<1>4. Len(q) \in 1..Len(q) /\ ~(Len(q) < p)
  BY <1>1
<1>5. f[Len(q)] = is(Len(q))
  BY <1>3, <1>4
<1> QED BY <1>2, <1>4, <1>5

LEMMA FlattenEmpty ==
  ASSUME NEW S, NEW q \in Seq(Seq(S)), \A i \in 1..Len(q) : q[i] = <<>>
  PROVE  FlattenSeq(q) = <<>>
<1>1. CASE q = <<>>
  BY <1>1, FlattenNone
<1>2. CASE q # <<>>
  <2>1. 1 \in 1..Len(q)
    BY <1>2
  <2>2. FlattenSeq(q) = q[1]
    BY <2>1, FlattenOnly
  <2> QED BY <2>1, <2>2
<1> QED BY <1>1, <1>2

\* Where services have ids of their own, merge_alternatives gives each its routes
\* and leaves the others' statistics alone.
LEMMA MergeEach ==
  ASSUME HomeTyped, \A p, q \in DOMAIN https : https[p].sid = https[q].sid => p = q,
         NEW s, IsList(s), \A sid \in DOMAIN s : IsList(s[sid]),
         NEW which, which \subseteq DOMAIN https
  PROVE  /\ DOMAIN MergeAll(s, which) = DOMAIN s
         /\ \A p \in which : https[p].sid \in DOMAIN s /\ s[https[p].sid] = <<>> =>
              MergeAll(s, which)[https[p].sid] = https[p].routes
         /\ \A sid \in DOMAIN s :
              (\A p \in DOMAIN https : https[p].sid # sid) => MergeAll(s, which)[sid] = s[sid]
<1> DEFINE S == UNION {Range(h.routes) : h \in Range(https)}
<1>1. /\ DOMAIN MergeAll(s, which) = DOMAIN s
      /\ \A sid \in DOMAIN s :
              MergeAll(s, which)[sid] = s[sid] \o FlattenSeq(Parts(sid, which))
  BY MergeIs
<1>2. ASSUME NEW p \in which, https[p].sid \in DOMAIN s, s[https[p].sid] = <<>>
      PROVE  MergeAll(s, which)[https[p].sid] = https[p].routes
  <2> DEFINE q == Parts(https[p].sid, which)
  <2>1. q \in Seq(Seq(S)) /\ Len(q) = Len(https) /\ DOMAIN https = 1..Len(https)
    BY PartsAre
  <2>2. p \in DOMAIN https
    BY <1>2
  <2>3. q[p] = https[p].routes /\ \A i \in DOMAIN https : i # p => q[i] = <<>>
    BY <1>2, <2>2 DEF Parts
  <2> HIDE DEF q, S
  <2>4. p \in 1..Len(q) /\ \A i \in 1..Len(q) : i # p => q[i] = <<>>
    BY <2>1, <2>2, <2>3
  <2>5. FlattenSeq(q) = q[p]
    BY <2>1, <2>4, FlattenOnly
  <2>6. q[p] \in Seq(S)
    BY <2>1, <2>4
  <2>7. <<>> \o q[p] = q[p]
    BY <2>6
  <2>8. MergeAll(s, which)[https[p].sid] = s[https[p].sid] \o FlattenSeq(q)
    BY <1>1, <1>2 DEF q
  <2> QED BY <1>2, <2>3, <2>5, <2>7, <2>8
<1>3. ASSUME NEW sid \in DOMAIN s, \A p \in DOMAIN https : https[p].sid # sid
      PROVE  MergeAll(s, which)[sid] = s[sid]
  <2> DEFINE q == Parts(sid, which)
  <2>1. q \in Seq(Seq(S)) /\ Len(q) = Len(https) /\ DOMAIN https = 1..Len(https)
    BY PartsAre
  <2>2. \A i \in DOMAIN https : q[i] = <<>>
    BY <1>3 DEF Parts
  <2> HIDE DEF q, S
  <2>3. FlattenSeq(q) = <<>>
    BY <2>1, <2>2, FlattenEmpty
  <2>4. s[sid] \in Seq(Range(s[sid]))
    BY ListIs
  <2>5. s[sid] \o <<>> = s[sid]
    BY <2>4
  <2> QED BY <1>1, <2>3, <2>5 DEF q
<1> QED BY <1>1, <1>2, <1>3

LEMMA InitPlace == Init => PlaceInv
<1> SUFFICES ASSUME Init PROVE PlaceInv
  OBVIOUS
<1>1. /\ at = "build" /\ stats = <<>> /\ asyncs = <<>> /\ https = <<>> /\ numbered = 0
      /\ logs = <<>> /\ new.k = 1
      /\ failed = FALSE /\ interrupted = FALSE /\ restarted = FALSE /\ hup = FALSE
  BY DEF Init, Plan
<1> QED BY <1>1, EmptyList DEF PlaceInv, Placed

LEMMA CountedStays ==
  ASSUME Counted, UNCHANGED <<root, stats, asyncs, https, apps, logs>>
  PROVE  Counted'
BY DEF Counted, Entered

LEMMA AnalysedStays ==
  ASSUME NEW config, NEW n, NEW gen, Analysed(config, n, gen),
         UNCHANGED <<stats, asyncs, https, logs>>, new'.post = new.post
  PROVE  Analysed(config, n, gen)'
BY DEF Analysed, Entered

LEMMA QuietKeepsPlace ==
  ASSUME HomeTyped, PlaceInv,
                   \/ Register \/ RunLoops \/ StartService \/ Started \/ Reset \/ Hangup \/ Restart
                   \/ (\E t \in threads : ThreadStep(t)) \/ UNCHANGED vars
  PROVE  PlaceInv'
<1>1. CASE Restart
  <2>1. /\ restarted' = TRUE /\ hup' = FALSE /\ failed' = FALSE
        /\ UNCHANGED <<logs, interrupted>>
    BY <1>1 DEF Restart
  <2> QED BY <2>1 DEF PlaceInv, Calm
<1>2. CASE Hangup
  <2>1. /\ UNCHANGED <<logs, failed, restarted>>
        /\ \/ at' = "down" /\ hup' = FALSE /\ interrupted' = interrupted
           \/ at' = at /\ hup' = TRUE /\ interrupted' = (at # "serve")
    BY <1>2 DEF Hangup, Exit
  <2> QED BY <2>1 DEF PlaceInv, Calm, Placed
<1>3. CASE \/ Register \/ RunLoops \/ StartService \/ Started \/ Reset
           \/ (\E t \in threads : ThreadStep(t))
  <2>1. /\ UNCHANGED <<logs, failed, interrupted, restarted, hup, root, stats, asyncs, https, apps>>
        /\ \/ /\ at \in {"register", "run", "start", "reset", "serve"}
              /\ at' \in {"register", "run", "start", "reset", "serve"}
              /\ at' = "serve" \/ at # "serve"
           \/ UNCHANGED <<at, new, numbered>> /\ count'.gens = count.gens
    <3>1. CASE \E t \in threads : ThreadStep(t)
      <4>1. UNCHANGED <<logs, failed, interrupted, restarted, hup, root, stats, asyncs, https,
                        apps, at, new, numbered>>
        BY <3>1 DEF ThreadStep, main, definition, lists, marks
      <4>2. count' = count \/ count' = [count EXCEPT !.messages = @ + 1]
        BY <3>1 DEF ThreadStep, Idle, Message, ReadTotal, WriteTotal, Finish
      <4>3. count'.gens = count.gens
        BY <4>2 DEF HomeTyped
      <4> QED BY <4>1, <4>3
    <3>2. CASE Register \/ RunLoops \/ StartService \/ Started \/ Reset
      BY <3>2 DEF Register, RunLoops, StartService, Started, Reset, Now, lists, marks, definition
    <3> QED BY <1>3, <3>1, <3>2
  <2>2. CASE UNCHANGED <<at, new, numbered>> /\ count'.gens = count.gens
    <3>1. Placed => Placed'
      BY <2>1, <2>2 DEF Placed, Counted, Analysed, Entered
    <3> QED BY <2>1, <2>2, <3>1 DEF PlaceInv, Calm
  <2>3. CASE /\ at \in {"register", "run", "start", "reset", "serve"}
             /\ at' \in {"register", "run", "start", "reset", "serve"}
             /\ at' = "serve" \/ at # "serve"
    <3>1. ASSUME Calm, Placed PROVE Placed'
      <4>1. Counted'
        BY <2>1, <2>3, <3>1, CountedStays DEF Placed
      <4> QED BY <2>3, <4>1 DEF Placed
    <3> QED BY <2>1, <2>3, <3>1 DEF PlaceInv, Calm
  <2> QED BY <2>1, <2>2, <2>3
<1>4. CASE UNCHANGED vars
  <2>1. UNCHANGED <<at, new, numbered, count, logs, failed, interrupted, restarted, hup, root,
                    stats, asyncs, https, apps>>
    BY <1>4 DEF vars, main, definition, lists, marks
  <2> QED BY <2>1 DEF PlaceInv, Calm, Placed, Counted, Analysed, Entered
<1> QED BY <1>1, <1>2, <1>3, <1>4

LEMMA PostKeepsPlace ==
  ASSUME PlaceInv, NEW c \in Posted, Post(c)
  PROVE  PlaceInv'
<1>1. /\ at' = "build" /\ stats' = <<>> /\ asyncs' = <<>> /\ https' = <<>> /\ numbered' = 0
      /\ new'.k = 1 /\ new'.post = TRUE /\ hup' = hup /\ logs' = logs
      /\ failed' = FALSE /\ interrupted' = FALSE /\ restarted' = FALSE
  BY DEF Post, Now, ClearLists, StopLoops, Plan
<1> QED BY <1>1 DEF PlaceInv, Placed

LEMMA BuildKeepsPlace ==
  ASSUME HomeTyped, PlaceInv, Build
  PROVE  PlaceInv'
<1>1. /\ at = "build" /\ at' = "analyze" /\ new'.base = numbered /\ new'.k = new.k
      /\ new'.post = new.post
      /\ UNCHANGED <<stats, asyncs, https, logs, failed, interrupted, restarted, hup>>
  BY DEF Build, Now, lists, marks, HomeTyped
<1>2. ASSUME Placed, Calm PROVE Placed'
  <2>1. /\ stats = <<>> /\ https = <<>> /\ numbered = 0 /\ new.k = 1
        /\ ~new.post => logs = <<>>
    BY <1>1, <1>2 DEF Placed
  <2>2. /\ DOMAIN <<>> = {} /\ Len(<<>>) = 0 /\ 1..0 = {} /\ DOMAIN <<>> = 1..0
    BY EmptyList
  <2>3. IsList(logs) /\ Len(logs) \in Nat
    BY ListIs DEF PlaceInv
  <2>4. ASSUME NEW config, NEW gen PROVE Analysed(config, 0, gen)'
    BY <1>1, <2>1, <2>2, <2>3 DEF Analysed
  <2>5. new'.base = 0 /\ new'.k - 1 = 0 /\ new'.k - 1 <= Len(new'.config)
    <3>1. new'.config = new.config /\ Len(new.config) \in Nat
      BY LifecycleAssumption DEF Build, HomeTyped
    <3> QED BY <1>1, <2>1, <3>1
  <2> QED BY <1>1, <2>4, <2>5 DEF Placed
<1> QED BY <1>1, <1>2 DEF PlaceInv, Calm

LEMMA AppendIs ==
  ASSUME NEW s, IsList(s), NEW x
  PROVE  /\ DOMAIN Append(s, x) = 1..(Len(s) + 1) /\ Append(s, x)[Len(s) + 1] = x
         /\ \A i \in 1..Len(s) : Append(s, x)[i] = s[i]
         /\ DOMAIN s = 1..Len(s) /\ Len(s) \in Nat
         /\ IsList(Append(s, x)) /\ Len(Append(s, x)) = Len(s) + 1
         /\ Range(Append(s, x)) = Range(s) \cup {x}
<1>1. s \in Seq(Range(s) \cup {x})
  BY ListIs
<1>2. IsList(Append(s, x)) /\ Range(Append(s, x)) = Range(s) \cup {x}
  BY AppendList
<1> QED BY <1>1, <1>2

\* The statistics after the next service, which has the next id.
LEMMA NextStats ==
  ASSUME HomeTyped, NEW n \in Nat, DOMAIN stats = 1..n, Sid = n + 1, new.k <= Len(new.config),
         ~Raises, AnalyzeHttp \/ AnalyzeAsync
  PROVE  /\ DOMAIN stats' = 1..(n + 1) /\ \A i \in 1..n : stats'[i] = stats[i]
         /\ Service.type = "http" => AnalyzeHttp /\ stats'[n + 1] = <<>>
         /\ Service.type # "http" =>
              /\ AnalyzeAsync /\ Constructed = 1..Len(Service.items)
              /\ Len(Append(stats, <<>>)[Sid]) = 0
              /\ stats'[n + 1] = Added(Service.items, Len(Service.items))
<1>1. IsList(stats) /\ Len(stats) = n
  <2>1. IsList(stats)
    BY DEF HomeTyped
  <2>2. Len(stats) \in Nat /\ DOMAIN stats = 1..Len(stats)
    BY <2>1, ListIs
  <2> QED BY <2>1, <2>2
<1> DEFINE a == Append(stats, <<>>)
<1>2. /\ DOMAIN a = 1..(n + 1) /\ \A i \in 1..n : a[i] = stats[i]
      /\ a[n + 1] = <<>>
  BY <1>1, AppendIs
<1>3. CASE Service.type = "http"
  <2>1. AnalyzeHttp /\ stats' = a
    BY <1>3 DEF AnalyzeHttp, AnalyzeAsync
  <2> QED BY <1>2, <1>3, <2>1
<1>4. CASE Service.type # "http"
  <2>1. AnalyzeAsync
    BY <1>4 DEF AnalyzeHttp
  <2>2. Constructed = DOMAIN Service.items
    BY <1>4 DEF Raises, Constructed
  <2>3. IsList(Service.items)
    BY ServiceIs DEF HomeTyped
  <2>4. Len(Service.items) \in Nat /\ DOMAIN Service.items = 1..Len(Service.items)
    BY <2>3, ListIs
  <2>5. Cardinality(Constructed) = Len(Service.items)
    BY <2>2, <2>4, FS_Interval
  <2>6. PICK w : w = Added(Service.items, Len(Service.items))
    OBVIOUS
  <2>7. stats' = [a EXCEPT ![n + 1] = @ \o w]
    BY <2>1, <2>5, <2>6 DEF AnalyzeAsync
  <2>8. w \in Seq(HintsOf(Service.items))
    BY <2>4, <2>6, AddedStep
  <2>9. <<>> \o w = w
    BY <2>8
  <2> HIDE DEF a
  <2>10. /\ DOMAIN stats' = 1..(n + 1) /\ \A i \in 1..n : stats'[i] = stats[i]
         /\ stats'[n + 1] = w
    <3>1. \A i \in 1..n : i \in 1..(n + 1) /\ i # n + 1
      OBVIOUS
    <3>2. n + 1 \in 1..(n + 1)
      OBVIOUS
    <3> QED BY <1>2, <2>7, <2>9, <3>1, <3>2
  <2>11. Len(a[Sid]) = 0
    BY <1>2
  <2> QED BY <1>4, <2>1, <2>2, <2>4, <2>6, <2>10, <2>11 DEF a
<1> QED BY <1>3, <1>4

LEMMA AnalyzeEnters ==
  ASSUME HomeTyped, Analyze, at' = "analyze", new' = [new EXCEPT !.k = @ + 1], ~Raises,
         AnalyzeHttp \/ AnalyzeAsync,
         new.base = 0, Analysed(new.config, new.k - 1, count.gens)
  PROVE  Analysed(new.config, new.k - 1, count.gens)'
<1>1. PICK n, config, gen : /\ n = new.k - 1 /\ config = new.config /\ gen = count.gens
  OBVIOUS
<1>2. /\ n \in Nat /\ new'.k - 1 = n + 1 /\ new'.config = config /\ count'.gens = gen
      /\ new'.post = new.post /\ logs' = Append(logs, Service.name)
      /\ new.k <= Len(new.config)
  BY <1>1 DEF HomeTyped, Analyze
<1>3. /\ Sid = n + 1 /\ Service = config[n + 1] /\ IsList(Service.items)
      /\ Len(Service.items) \in Nat
  <2>1. IsList(Service.items) /\ Service = new.config[new.k] /\ Sid = new.base + new.k
    BY <1>2, ServiceIs DEF HomeTyped
  <2>2. new.k = n + 1
    BY <1>1 DEF HomeTyped
  <2> QED BY <1>1, <1>2, <2>1, <2>2, ListIs
<1>4. /\ DOMAIN stats = 1..n
      /\ \A i \in 1..n : config[i].type # "http" => Entered(config, i, gen)
      /\ \A p \in DOMAIN https :
           /\ https[p].sid \in 1..n /\ config[https[p].sid].type = "http"
           /\ config[https[p].sid].name = https[p].name
           /\ stats[https[p].sid] = <<>>
      /\ \A p, q \in DOMAIN https : https[p].sid = https[q].sid => p = q
      /\ IsList(logs) /\ n <= Len(logs)
      /\ ~new.post => n = Len(logs) /\ \A i \in 1..n : logs[i] = config[i].name
  BY <1>1 DEF Analysed
<1>5. /\ DOMAIN stats' = 1..(n + 1) /\ \A i \in 1..n : stats'[i] = stats[i]
      /\ Service.type = "http" => AnalyzeHttp /\ stats'[n + 1] = <<>>
      /\ Service.type # "http" =>
              /\ AnalyzeAsync /\ Constructed = 1..Len(Service.items)
              /\ Len(Append(stats, <<>>)[Sid]) = 0
              /\ stats'[n + 1] = Added(Service.items, Len(Service.items))
  BY <1>2, <1>3, <1>4, NextStats
<1>6. \A i \in 1..(n + 1) : i \in 1..n \/ i = n + 1
  BY <1>2
<1>7. \A i \in 1..n : i \in 1..(n + 1) /\ i # n + 1
  BY <1>2
<1>8. IsList(asyncs') /\ \A s \in Range(asyncs) : s \in Range(asyncs')
  <2>1. asyncs' = asyncs \/ \E y : asyncs' = Append(asyncs, y)
    BY DEF AnalyzeHttp, AnalyzeAsync
  <2>2. IsList(asyncs)
    BY DEF HomeTyped
  <2>3. ASSUME NEW y, asyncs' = Append(asyncs, y)
        PROVE  IsList(asyncs') /\ Range(asyncs') = Range(asyncs) \cup {y}
    <3>1. IsList(Append(asyncs, y)) /\ Range(Append(asyncs, y)) = Range(asyncs) \cup {y}
      BY <2>2, AppendList
    <3> QED BY <2>3, <3>1
  <2>4. CASE asyncs' = asyncs
    BY <2>2, <2>4
  <2>5. CASE \E y : asyncs' = Append(asyncs, y)
    BY <2>3, <2>5
  <2> QED BY <2>1, <2>4, <2>5
<1>9. ASSUME NEW i \in 1..n, config[i].type # "http" PROVE Entered(config, i, gen)'
  BY <1>4, <1>5, <1>8, <1>9 DEF Entered
<1>10. ASSUME config[n + 1].type # "http" PROVE Entered(config, n + 1, gen)'
  <2>1. PICK y : y = [gen |-> count.gens, sid |-> Sid, type |-> Service.type,
              actors |-> [k \in Constructed |->
                            SetActor(Service.items, k, Len(Append(stats, <<>>)[Sid]))]]
    OBVIOUS
  <2>2. asyncs' = Append(asyncs, y)
    BY <1>3, <1>5, <1>10, <2>1 DEF AnalyzeAsync
  <2>3. y \in Range(asyncs')
    BY <2>2, AppendList DEF HomeTyped
  <2>4. /\ y.gen = gen /\ y.sid = n + 1
        /\ DOMAIN y.actors = 1..Len(config[n + 1].items)
        /\ \A k \in 1..Len(config[n + 1].items) : y.actors[k] = SetActor(config[n + 1].items, k, 0)
    BY <1>1, <1>3, <1>5, <1>10, <2>1
  <2> QED BY <1>3, <1>5, <1>10, <2>3, <2>4 DEF Entered
<1>11. /\ \A p \in DOMAIN https' :
            /\ https'[p].sid \in 1..(n + 1) /\ config[https'[p].sid].type = "http"
            /\ config[https'[p].sid].name = https'[p].name
            /\ stats'[https'[p].sid] = <<>>
       /\ \A p, q \in DOMAIN https' : https'[p].sid = https'[q].sid => p = q
  <2>1. CASE Service.type # "http"
    <3>1. https' = https
      BY <1>5, <2>1 DEF AnalyzeAsync
    <3> QED BY <1>4, <1>5, <1>7, <3>1
  <2>2. CASE Service.type = "http"
    <3>1. PICK m \in 0..Len(Service.items) :
            https' = Append(https, [sid |-> Sid, name |-> Service.name, port |-> Service.port,
                                    routes |-> SubSeq(Service.items, 1, m)])
      BY <1>5, <2>2 DEF AnalyzeHttp
    <3> DEFINE h == [sid |-> Sid, name |-> Service.name, port |-> Service.port,
                     routes |-> SubSeq(Service.items, 1, m)]
    <3>2. https' = Append(https, h) /\ h.sid = n + 1 /\ h.name = config[n + 1].name
      BY <1>3, <3>1
    <3> HIDE DEF h
    <3>3. /\ DOMAIN https' = 1..(Len(https) + 1) /\ https'[Len(https) + 1] = h
          /\ \A i \in 1..Len(https) : https'[i] = https[i]
          /\ DOMAIN https = 1..Len(https) /\ Len(https) \in Nat
      BY <3>2, AppendIs DEF HomeTyped
    <3>4. \A p \in DOMAIN https' : p \in DOMAIN https \/ (p = Len(https) + 1 /\ p \notin DOMAIN https)
      BY <3>3
    <3>5. ASSUME NEW p \in DOMAIN https'
          PROVE  /\ https'[p].sid \in 1..(n + 1) /\ config[https'[p].sid].type = "http"
                 /\ config[https'[p].sid].name = https'[p].name
                 /\ stats'[https'[p].sid] = <<>>
      <4>1. CASE p \in DOMAIN https
        BY <1>4, <1>5, <1>7, <3>3, <4>1
      <4>2. CASE p = Len(https) + 1
        <5>1. n + 1 \in 1..(n + 1)
          BY <1>2
        <5> QED BY <1>3, <1>5, <2>2, <3>2, <3>3, <4>2, <5>1
      <4> QED BY <3>4, <4>1, <4>2
    <3>6. ASSUME NEW p \in DOMAIN https', NEW q \in DOMAIN https', https'[p].sid = https'[q].sid
          PROVE  p = q
      <4>1. \A r \in DOMAIN https : https'[r].sid = https[r].sid /\ https[r].sid # n + 1
        BY <1>4, <1>7, <3>3
      <4> QED BY <1>4, <3>2, <3>3, <3>4, <3>6, <4>1
    <3> QED BY <3>5, <3>6
  <2> QED BY <2>1, <2>2
<1>12. /\ IsList(logs') /\ n + 1 <= Len(logs')
       /\ ~new.post => n + 1 = Len(logs') /\ \A i \in 1..(n + 1) : logs'[i] = config[i].name
  <2>1. /\ IsList(logs') /\ Len(logs') = Len(logs) + 1 /\ Len(logs) \in Nat
        /\ logs'[Len(logs) + 1] = Service.name
        /\ \A i \in 1..Len(logs) : logs'[i] = logs[i]
    BY <1>2, <1>4, AppendIs
  <2> QED BY <1>2, <1>3, <1>4, <1>6, <2>1
<1>13. Analysed(config, n + 1, gen)'
  <2>1. \A i \in 1..(n + 1) : config[i].type # "http" => Entered(config, i, gen)'
    BY <1>6, <1>9, <1>10
  <2> QED BY <1>2, <1>5, <1>11, <1>12, <2>1 DEF Analysed
<1> QED
  <2>1. new'.config = config /\ new'.k - 1 = n + 1 /\ count'.gens = gen
    BY <1>2
  <2>2. \A i : Entered(config, i, gen)' => Entered(new.config, i, count.gens)'
    BY <2>1 DEF Entered
  <2> QED BY <1>13, <2>1, <2>2 DEF Analysed

LEMMA AnalyzeKeepsPlace ==
  ASSUME HomeTyped, PlaceInv, Analyze
  PROVE  PlaceInv'
<1>1. /\ at = "analyze" /\ IsList(logs')
      /\ UNCHANGED <<interrupted, restarted>> /\ failed' \in BOOLEAN /\ hup' \in BOOLEAN
      /\ \/ at' = "down"
         \/ at' = "serve" /\ failed' = TRUE
         \/ /\ at' = "analyze" /\ new' = [new EXCEPT !.k = @ + 1] /\ ~Raises
            /\ AnalyzeHttp \/ AnalyzeAsync
            /\ failed' = failed /\ hup' = hup
  <2>1. IsList(logs')
    BY AppendList DEF Analyze, PlaceInv
  <2> QED BY <2>1 DEF Analyze, Now, Exit, PlaceInv
<1>2. ASSUME Calm, Placed, at' = "analyze" PROVE Placed'
  <2>1. new.base = 0 /\ Analysed(new.config, new.k - 1, count.gens)
    BY <1>1, <1>2 DEF Placed
  <2>2. Analysed(new.config, new.k - 1, count.gens)' /\ new'.base = new.base
    BY <1>1, <1>2, <2>1, AnalyzeEnters DEF HomeTyped
  <2>3. new'.k - 1 <= Len(new'.config)
    <3>1. new.k <= Len(new.config) /\ Len(new.config) \in Nat
      BY LifecycleAssumption DEF HomeTyped, Analyze
    <3>2. new'.k = new.k + 1 /\ new'.config = new.config
      BY <1>1, <1>2 DEF HomeTyped
    <3> QED BY <3>1, <3>2 DEF HomeTyped
  <2> QED BY <2>3, <1>2, <2>1, <2>2 DEF Placed
<1>3. CASE at' = "down"
  BY <1>1, <1>3 DEF PlaceInv, Placed
<1>4. CASE at' = "serve" /\ failed' = TRUE
  BY <1>1, <1>4 DEF PlaceInv, Calm
<1>5. CASE at' = "analyze" /\ failed' = failed /\ hup' = hup
  BY <1>1, <1>2, <1>5 DEF PlaceInv, Calm
<1> QED BY <1>1, <1>3, <1>4, <1>5

LEMMA AnalyzedKeepsPlace ==
  ASSUME HomeTyped, PlaceInv, Analyzed
  PROVE  PlaceInv'
<1>1. /\ at = "analyze" /\ new.k > Len(new.config) /\ at' = (IF new.post THEN "update" ELSE "load")
      /\ root'.config = new.config /\ root'.gen = count.gens /\ root'.base = new.base
      /\ UNCHANGED <<new, https, asyncs, stats, logs, failed, interrupted, restarted, hup>>
  BY DEF Analyzed, Now, lists, marks
<1>2. new.config \in Files \cup Posted
  BY DEF HomeTyped
<1>3. ASSUME Calm, Placed PROVE Placed'
  <2>1. /\ new.base = 0 /\ Analysed(new.config, new.k - 1, count.gens)
        /\ new.k - 1 <= Len(new.config)
    BY <1>1, <1>3 DEF Placed
  <2>2. new.k - 1 = Len(new.config)
    <3>1. new.k \in Nat /\ Len(new.config) \in Nat
      BY LifecycleAssumption DEF HomeTyped
    <3> QED BY <1>1, <2>1, <3>1
  <2>3. Analysed(new.config, Len(new.config), count.gens)
    BY <2>1, <2>2
  <2>4. PICK config, n, gen : config = new.config /\ n = Len(config) /\ gen = count.gens
    OBVIOUS
  <2>5. Analysed(config, n, gen)'
    BY <1>1, <2>3, <2>4, AnalysedStays
  <2>6. Analysed(root.config, Len(root.config), root.gen)'
    BY <1>1, <2>4, <2>5 DEF Analysed, Entered
  <2>7. at' \in {"load", "update"} /\ (at' = "load" => ~new'.post) /\ root'.base = 0
    BY <1>1, <2>1
  <2> QED BY <1>1, <1>2, <2>6, <2>7 DEF Placed
<1> QED BY <1>1, <1>3 DEF PlaceInv, Calm

LEMMA LoadKeepsPlace ==
  ASSUME HomeTyped, PlaceInv, Load
  PROVE  PlaceInv'
<1>1. /\ at = "load"
      /\ UNCHANGED <<new, root, https, asyncs, logs, failed, interrupted, restarted>>
      /\ hup' \in BOOLEAN
      /\ \/ at' = "down"
         \/ /\ at' = "register" /\ hup' = hup
            /\ apps' = [i \in Loaded |->
               [port |-> https[i].port, sid |-> https[i].sid,
                place |-> https[i].sid - root.base, routes |-> https[i].routes]]
            /\ stats' = MergeAll(stats, Loaded)
  BY DEF Load, Now, Exit, lists, marks, PlaceInv
<1>2. CASE at' = "down"
  BY <1>1, <1>2 DEF PlaceInv, Placed
<1>3. CASE at' # "down"
  <2>1. ASSUME Calm, Placed PROVE Placed'
    <3>1. PICK config, n, gen : config = root.config /\ n = Len(config) /\ gen = root.gen
      OBVIOUS
    <3>2. /\ root.base = 0 /\ config \in Files \cup Posted /\ ~new.post
          /\ DOMAIN stats = 1..n
          /\ \A i \in 1..n : config[i].type # "http" => Entered(config, i, gen)
          /\ \A p \in DOMAIN https :
               /\ https[p].sid \in 1..n /\ config[https[p].sid].type = "http"
               /\ config[https[p].sid].name = https[p].name
               /\ stats[https[p].sid] = <<>>
          /\ \A p, q \in DOMAIN https : https[p].sid = https[q].sid => p = q
          /\ \A i \in 1..n : logs[i] = config[i].name
      BY <1>1, <2>1, <3>1 DEF Placed, Analysed
    <3>3. DOMAIN config = 1..n /\ n \in Nat
      BY <3>1, <3>2, LifecycleAssumption
    <3>4. IsList(stats) /\ \A sid \in DOMAIN stats : IsList(stats[sid])
      BY DEF HomeTyped
    <3>5. /\ DOMAIN stats' = 1..n
          /\ \A p \in Loaded : stats'[https[p].sid] = https[p].routes
          /\ \A i \in 1..n : config[i].type # "http" => stats'[i] = stats[i]
      <4>1. Loaded \subseteq DOMAIN https
        BY DEF Loaded
      <4>2. /\ DOMAIN MergeAll(stats, Loaded) = DOMAIN stats
            /\ \A p \in Loaded : https[p].sid \in DOMAIN stats /\ stats[https[p].sid] = <<>> =>
                 MergeAll(stats, Loaded)[https[p].sid] = https[p].routes
            /\ \A sid \in DOMAIN stats :
                 (\A p \in DOMAIN https : https[p].sid # sid) =>
                   MergeAll(stats, Loaded)[sid] = stats[sid]
        <5>1. \A p, q \in DOMAIN https : https[p].sid = https[q].sid => p = q
          BY <3>2
        <5>2. PICK which : which = Loaded
          OBVIOUS
        <5> QED BY <3>4, <4>1, <5>1, <5>2, MergeEach
      <4>3. stats' = MergeAll(stats, Loaded)
        BY <1>1, <1>3
      <4> QED BY <3>2, <4>1, <4>2, <4>3
    <3>6. ASSUME NEW i \in 1..n, config[i].type # "http" PROVE Entered(config, i, gen)'
      BY <1>1, <3>2, <3>5, <3>6 DEF Entered
    <3>7. ASSUME NEW p \in DOMAIN https \cap DOMAIN apps'
          PROVE  /\ https[p].sid \in Nat
                 /\ stats'[https[p].sid] = https[p].routes /\ apps'[p].routes = https[p].routes
                 /\ logs[https[p].sid] = config[https[p].sid].name
      <4>1. p \in Loaded /\ apps'[p].routes = https[p].routes
        BY <1>1, <1>3
      <4> QED BY <3>2, <3>3, <3>5, <4>1
    <3>8. Counted'
      BY <1>1, <3>1, <3>2, <3>3, <3>5, <3>6, <3>7 DEF Counted, Entered
    <3> QED BY <1>1, <1>3, <3>8 DEF Placed
  <2> QED BY <1>1, <1>3, <2>1 DEF PlaceInv, Calm
<1> QED BY <1>2, <1>3

LEMMA UpdateKeepsPlace ==
  ASSUME HomeTyped, SiteInv, PlaceInv, Update
  PROVE  PlaceInv'
<1> DEFINE bad == DOMAIN https \ DOMAIN apps
           reached == {i \in DOMAIN https : \A j \in bad : i <= j}
           cleared == [sid \in DOMAIN stats |->
                         IF \E i \in reached : https[i].sid = sid THEN <<>> ELSE stats[sid]]
           called == [sid \in DOMAIN logs |->
                        IF \E i \in reached : https[i].sid = sid
                        THEN (CHOOSE h \in Range(https) : h.sid = sid).name ELSE logs[sid]]
<1>1. /\ at = "update" /\ at' = (IF bad = {} THEN "reset" ELSE "serve") /\ failed' = (bad # {})
      /\ UNCHANGED <<new, root, https, asyncs, interrupted, restarted, hup>>
      /\ apps' = [i \in DOMAIN apps |->
                    IF i \in reached THEN [apps[i] EXCEPT !.routes = NewRoutes(i)] ELSE apps[i]]
      /\ stats' = MergeAll(cleared, reached)
      /\ logs' = called
  BY DEF Update, Now, lists
<1>2. IsList(logs')
  <2>1. Len(logs) \in Nat /\ DOMAIN logs = 1..Len(logs)
    BY ListIs DEF PlaceInv
  <2>2. called = [i \in 1..Len(logs) |-> called[i]]
    BY <2>1
  <2> HIDE DEF called
  <2> QED BY <1>1, <2>1, <2>2, MakeList
<1>3. failed' \in BOOLEAN
  BY <1>1
<1>4. CASE bad # {}
  <2>1. failed' = TRUE /\ at' = "serve"
    BY <1>1, <1>4
  <2> QED BY <1>1, <1>2, <2>1 DEF PlaceInv, Calm
<1>5. CASE bad = {}
  <2>1. reached = DOMAIN https /\ DOMAIN https \subseteq DOMAIN apps
    BY <1>5
  <2>2. ASSUME Calm, Placed PROVE Placed'
    <3>1. PICK config, n, gen : config = root.config /\ n = Len(config) /\ gen = root.gen
      OBVIOUS
    <3>2. /\ root.base = 0 /\ config \in Files \cup Posted
          /\ DOMAIN stats = 1..n
          /\ \A i \in 1..n : config[i].type # "http" => Entered(config, i, gen)
          /\ \A p \in DOMAIN https :
               /\ https[p].sid \in 1..n /\ config[https[p].sid].type = "http"
               /\ config[https[p].sid].name = https[p].name
          /\ n <= Len(logs)
      BY <1>1, <2>2, <3>1 DEF Placed, Analysed
    <3>3. \A p, q \in DOMAIN https : https[p].sid = https[q].sid => p = q
      BY <1>1, <2>2, <3>1 DEF Placed, Analysed
    <3>4. DOMAIN config = 1..n /\ n \in Nat
      BY <3>1, <3>2, LifecycleAssumption
    <3>5. /\ DOMAIN cleared = 1..n
          /\ \A i \in 1..n : cleared[i] = stats[i] \/ cleared[i] = <<>>
          /\ \A p \in DOMAIN https : cleared[https[p].sid] = <<>>
          /\ \A i \in 1..n : config[i].type # "http" => cleared[i] = stats[i]
      BY <2>1, <3>2
    <3>6. IsList(cleared) /\ \A sid \in DOMAIN cleared : IsList(cleared[sid])
      <4>1. \A sid \in 1..n : IsList(stats[sid])
        BY <3>2 DEF HomeTyped
      <4>2. cleared = [i \in 1..n |-> cleared[i]]
        BY <3>2
      <4> HIDE DEF cleared
      <4> QED BY <3>4, <3>5, <4>1, <4>2, MakeList, EmptyList
    <3> HIDE DEF cleared, reached
    <3>7. /\ DOMAIN stats' = 1..n
          /\ \A p \in DOMAIN https : stats'[https[p].sid] = https[p].routes
          /\ \A i \in 1..n : config[i].type # "http" => stats'[i] = stats[i]
      <4>1. PICK which : which = DOMAIN https
        OBVIOUS
      <4>2. /\ DOMAIN MergeAll(cleared, which) = DOMAIN cleared
            /\ \A p \in which : https[p].sid \in DOMAIN cleared /\ cleared[https[p].sid] = <<>> =>
                 MergeAll(cleared, which)[https[p].sid] = https[p].routes
            /\ \A sid \in DOMAIN cleared :
                 (\A p \in DOMAIN https : https[p].sid # sid) =>
                   MergeAll(cleared, which)[sid] = cleared[sid]
        BY <3>3, <3>6, <4>1, MergeEach
      <4>3. stats' = MergeAll(cleared, which)
        BY <1>1, <2>1, <4>1
      <4> QED BY <3>2, <3>5, <4>1, <4>2, <4>3
    <3>8. ASSUME NEW i \in 1..n, config[i].type # "http" PROVE Entered(config, i, gen)'
      BY <1>1, <3>2, <3>7, <3>8 DEF Entered
    <3>9. ASSUME NEW p \in DOMAIN https
          PROVE  logs'[https[p].sid] = config[https[p].sid].name
      <4>1. https[p].sid \in DOMAIN logs
        <5>1. DOMAIN logs = 1..Len(logs) /\ Len(logs) \in Nat
          BY ListIs DEF PlaceInv
        <5> QED BY <3>2, <3>4, <5>1
      <4>2. \A h \in Range(https) : h.sid = https[p].sid => h = https[p]
        BY <3>3 DEF Range
      <4>3. https[p] \in Range(https)
        BY DEF Range
      <4>4. (CHOOSE h \in Range(https) : h.sid = https[p].sid) = https[p]
        BY <4>2, <4>3
      <4>5. logs'[https[p].sid] = (CHOOSE h \in Range(https) : h.sid = https[p].sid).name
        BY <1>1, <2>1, <4>1
      <4> QED BY <3>2, <4>4, <4>5
    <3>10. ASSUME NEW p \in DOMAIN https \cap DOMAIN apps'
          PROVE  /\ https[p].sid \in Nat
                 /\ stats'[https[p].sid] = https[p].routes /\ apps'[p].routes = https[p].routes
                 /\ logs'[https[p].sid] = config[https[p].sid].name
      <4>1. apps'[p].routes = https[p].routes
        <5>1. p \in DOMAIN apps /\ p \in reached /\ DOMAIN apps[p] = AppFields
          BY <1>1, <2>1 DEF SiteInv
        <5>2. apps'[p] = [apps[p] EXCEPT !.routes = https[p].routes]
          BY <1>1, <5>1 DEF NewRoutes
        <5> QED BY <5>1, <5>2 DEF AppFields
      <4> QED BY <3>2, <3>4, <3>7, <3>9, <4>1
    <3>11. Counted'
      <4>1. UNCHANGED <<root, https, asyncs>>
        BY <1>1
      <4> QED BY <3>1, <3>2, <3>4, <3>7, <3>8, <3>10, <4>1 DEF Counted, Entered
    <3>12. at' = "reset"
      BY <1>1, <1>5
    <3> QED BY <3>11, <3>12 DEF Placed
  <2>3. failed = FALSE /\ failed' = FALSE /\ at' = "reset"
    BY <1>1, <1>5 DEF PlaceInv
  <2> QED BY <1>1, <1>2, <2>2, <2>3 DEF PlaceInv, Calm
<1> QED BY <1>4, <1>5

LEMMA NextKeepsPlace ==
  HomeTyped /\ SiteInv /\ PlaceInv /\ [Next]_vars => PlaceInv'
<1> SUFFICES ASSUME HomeTyped, SiteInv, PlaceInv, [Next]_vars PROVE PlaceInv'
  OBVIOUS
<1>1. ASSUME NEW c \in Posted, Post(c) PROVE PlaceInv'
  BY <1>1, PostKeepsPlace
<1>2. CASE Build \/ Analyze \/ Analyzed \/ Load \/ Update
  BY <1>2, BuildKeepsPlace, AnalyzeKeepsPlace, AnalyzedKeepsPlace, LoadKeepsPlace,
     UpdateKeepsPlace
<1>3. CASE \/ Register \/ RunLoops \/ StartService \/ Started \/ Reset \/ Hangup \/ Restart
           \/ (\E t \in threads : ThreadStep(t)) \/ UNCHANGED vars
  BY <1>3, QuietKeepsPlace
<1> QED BY <1>1, <1>2, <1>3 DEF Next, Boot, Looping, Posting, Signals

\* Where actors' endpoints are, from where their service's statistics begin.
LEMMA PlacedHints ==
  ASSUME Counted, NEW i \in DOMAIN root.config, root.config[i].type # "http"
  PROVE  \E s \in Range(asyncs) :
           /\ s.gen = root.gen /\ s.sid = i
           /\ \A k \in DOMAIN s.actors : LET a == root.config[i].items[k] IN
                /\ Consumes(a) => HintAt(i, s.actors[k].reads) = GetHint(k, a)
                /\ Produces(a) => HintAt(i, s.actors[k].writes) = PutHint(k, a)
<1>1. PICK items, m : items = root.config[i].items /\ m = Len(items)
  OBVIOUS
<1>2. i \in DOMAIN stats /\ Entered(root.config, i, root.gen)
  BY DEF Counted
<1>3. PICK s \in Range(asyncs) :
        /\ s.gen = root.gen /\ s.sid = i
        /\ DOMAIN s.actors = 1..m /\ \A k \in 1..m : s.actors[k] = SetActor(items, k, 0)
  BY <1>1, <1>2 DEF Entered
<1>4. stats[i] = Added(items, m)
  BY <1>1, <1>2 DEF Entered
<1>5. m \in Nat
  <2>1. IsList(items)
    BY <1>1, LifecycleAssumption DEF Counted, IsList
  <2> QED BY <1>1, <2>1, ListIs
<1>6. DOMAIN stats[i] = 1..Len(stats[i]) /\ Len(stats[i]) \in Nat
  <2>1. Added(items, m) \in Seq(HintsOf(items))
    BY <1>5, AddedStep
  <2> QED BY <1>4, <2>1
<1>7. ASSUME NEW k \in 1..m
      PROVE  /\ Consumes(items[k]) => HintAt(i, s.actors[k].reads) = GetHint(k, items[k])
             /\ Produces(items[k]) => HintAt(i, s.actors[k].writes) = PutHint(k, items[k])
  <2> DEFINE x == SetActor(items, k, 0)
  <2>1. /\ Consumes(items[k]) => x.reads \in (0 + 1)..(0 + Len(stats[i]))
             /\ stats[i][x.reads - 0] = GetHint(k, items[k])
        /\ Produces(items[k]) => x.writes \in (0 + 1)..(0 + Len(stats[i]))
             /\ stats[i][x.writes - 0] = PutHint(k, items[k])
    <3>1. PICK w : w = Added(items, m)
      OBVIOUS
    <3>2. /\ Consumes(items[k]) => x.reads \in (0 + 1)..(0 + Len(w))
               /\ w[x.reads - 0] = GetHint(k, items[k])
          /\ Produces(items[k]) => x.writes \in (0 + 1)..(0 + Len(w))
               /\ w[x.writes - 0] = PutHint(k, items[k])
      <4>1. 0 \in Nat
        OBVIOUS
      <4> QED BY <1>5, <3>1, <4>1, ActorsPlaced
    <3> HIDE DEF x
    <3> QED BY <1>4, <3>1, <3>2
  <2> HIDE DEF x
  <2>2. \A e \in (0 + 1)..(0 + Len(stats[i])) : e - 0 = e /\ e \in DOMAIN stats[i]
    BY <1>6
  <2>3. \A e \in DOMAIN stats[i] : HintAt(i, e) = stats[i][e]
    BY <1>2 DEF HintAt, HasEndpoint, InStats
  <2>4. s.actors[k] = x
    BY <1>3 DEF x
  <2> QED BY <2>1, <2>2, <2>3, <2>4
<1> QED BY <1>1, <1>3, <1>7

\* After every post that was carried out, and the first start, every consumer,
\* producer and route counts at the endpoint that has its own hint, and every
\* HTTP service logs under its own name, however many services there are.
THEOREM CountAtHome == Spec => []CountsAtHome
<1>1. ASSUME PlaceInv PROVE CountsAtHome
  <2> SUFFICES ASSUME Whole PROVE CountsAtHome
    BY DEF CountsAtHome
  <2>1. Counted
    BY <1>1 DEF Whole, Settled, PlaceInv, Calm, Placed
  <2>2. ASSUME SamePlaces, NEW i \in DOMAIN apps, apps[i].sid = apps[i].place
        PROVE  /\ stats[apps[i].sid] = apps[i].routes
               /\ logs[apps[i].sid] = root.config[apps[i].sid].name
    <3>1. /\ i \in DOMAIN https \cap DOMAIN apps /\ https[i].sid - root.base = apps[i].place
      BY <2>2 DEF SamePlaces
    <3>2. https[i].sid \in Nat /\ root.base = 0
      BY <2>1, <3>1 DEF Counted
    <3>3. https[i].sid = apps[i].sid
      BY <2>2, <3>1, <3>2
    <3> QED BY <2>1, <3>1, <3>3 DEF Counted
  <2> QED BY <2>1, <2>2, PlacedHints DEF CountsAtHome
<1>2. HomeInv => HomeTyped
  BY DEF HomeInv
<1> QED BY <1>1, <1>2, InitHome, NextKeepsHome, InitSite, NextKeepsSite, InitPlace, NextKeepsPlace,
        PTL DEF Spec
-----------------------------------------------------------------------------
(***************************************************************************)
(* Type correctness.  Every generation that anything carries has begun.    *)
(***************************************************************************)
Dated ==
  /\ \A id \in stopped \cup actors : id.gen \in 1..count.gens
  /\ \A t \in threads : t.id.gen \in 1..count.gens
  /\ \A s \in Range(asyncs) \cup Range(todo) : s.gen \in 1..count.gens
  /\ \A g \in Range(groups) : g.id.gen \in 1..count.gens
Steps == {"build", "analyze", "load", "register", "run", "start", "serve", "update", "reset",
          "down"}
Shaped ==
  /\ at \in Steps
  /\ {registered, hup, undone, failed, interrupted, restarted, torn} \subseteq BOOLEAN
  /\ new.k <= Len(new.config) + 1
  /\ data \in Files \cup Posted \cup {<<>>}
  /\ DOMAIN apps \subseteq Nat
Begun ==
  /\ root.gen \in 0..count.gens
  /\ at = "analyze" => count.gens # 0
TypeInv == Dated /\ Shaped /\ Begun

\* Only a build begins a generation.
LEMMA NextGens ==
  ASSUME StopInv, [Next]_vars
  PROVE  /\ count.gens \in Nat
         /\ count'.gens = (IF Build THEN count.gens + 1 ELSE count.gens)
<1>0. "gens" \in DOMAIN count /\ count.gens \in Nat /\ Typed
  BY DEF StopInv, Typed
<1>1. CASE Build
  BY <1>0, <1>1 DEF Build
<1>2. CASE ~Build /\ \E t \in threads : ThreadStep(t)
  BY <1>0, <1>2, ThreadStays
<1>3. CASE ~Build /\ ~(\E t \in threads : ThreadStep(t))
  BY <1>0, <1>3 DEF Next, Boot, Looping, Posting, Signals, Analyze, Analyzed, Load, Register,
       RunLoops, StartService, Started, Post, Update, Reset, Hangup, Restart, vars
<1> QED BY <1>1, <1>2, <1>3

\* Nothing new: the steps after which lists, threads and stops hold what was in
\* one of them before.
LEMMA SameDates ==
  ASSUME Dated, count.gens \in Nat, count'.gens \in Nat, count.gens <= count'.gens,
         \A id \in stopped' \cup actors' :
           id \in stopped \cup actors \/ \E g \in Range(groups) : id = g.id,
         \A t \in threads' : \E u \in threads : u.id = t.id,
         Range(asyncs') \cup Range(todo') \subseteq Range(asyncs) \cup Range(todo),
         Range(groups') \subseteq Range(groups)
  PROVE  Dated'
<1>1. \A x \in 1..count.gens : x \in 1..count'.gens
  OBVIOUS
<1> QED BY <1>1 DEF Dated

LEMMA AnalyzeDates ==
  ASSUME StopInv, TypeInv, Analyze, count'.gens = count.gens
  PROVE  Dated'
<1>0. at = "analyze" /\ count.gens \in 1..count.gens
  <2>1. at = "analyze" /\ count.gens \in Nat
    BY DEF Analyze, StopInv, Typed
  <2> QED BY <2>1 DEF TypeInv, Begun
<1>1. /\ count.gens \in 1..count.gens /\ at = "analyze" /\ new.k <= Len(new.config)
      /\ UNCHANGED <<groups, stopped>>
      /\ threads' = threads \/ threads' = {}
      /\ todo' = todo \/ todo' = <<>>
  BY <1>0 DEF Analyze, Now, Exit
<1>2. \A s \in Range(todo') : s.gen \in 1..count.gens
  BY <1>1, EmptyList DEF TypeInv, Dated
<1>3. CASE UNCHANGED <<asyncs, actors>>
  BY <1>1, <1>2, <1>3 DEF TypeInv, Dated
<1>4. CASE AnalyzeAsync
  <2>1. PICK x : asyncs' = Append(asyncs, x) /\ x.gen = count.gens
    BY <1>1, <1>4, AnalyzeAsyncAdds DEF StopInv
  <2>2. Range(asyncs') = Range(asyncs) \cup {x}
    BY <2>1, AppendList DEF StopInv, Typed
  <2>3. \A id \in actors' : id \in actors \/ id.gen = count.gens
    BY <1>4 DEF AnalyzeAsync, ActorId
  <2> QED BY <1>1, <1>2, <2>1, <2>2, <2>3 DEF TypeInv, Dated
<1> QED BY <1>3, <1>4 DEF Analyze, AnalyzeHttp

LEMMA StartServiceDates ==
  ASSUME StopInv, TypeInv, StartService, count'.gens = count.gens
  PROVE  Dated'
<1>1. PICK s, all, n :
        /\ s = Head(todo) /\ all = groups \o GroupsOf(s) /\ n = count.threads
        /\ at = "start" /\ todo # <<>> /\ todo' = Tail(todo)
        /\ threads' = threads \cup {t \in
             {Thread(n + k, ActorId(s.gen, s.sid, k), s.type, {<<k, s.actors[k].writes>>}) :
                k \in {j \in DOMAIN s.actors : s.actors[j].loops}}
             \cup {Thread(n + Len(s.actors) + g, all[g].id, all[g].type, all[g].members) :
                     g \in DOMAIN all} : ~MayLeave(t)}
        /\ groups' = all
        /\ count' = [count EXCEPT !.threads = @ + Len(s.actors) + Len(all)]
        /\ UNCHANGED <<at, new, numbered, https, asyncs, actors, stopped, stats>>
  BY DEF StartService
<1>2. Range(Tail(todo)) \subseteq Range(todo) /\ s \in Range(todo)
  BY <1>1, TailList DEF StopInv, Typed
<1>3. s.gen \in 1..count.gens
  BY <1>2 DEF TypeInv, Dated
<1>4. IsList(GroupsOf(s)) /\ \A g \in Range(GroupsOf(s)) : g.id.gen = s.gen
  BY <1>2, GroupsOfList DEF StopInv, Typed, Finite
<1>5. \A g \in Range(all) : g.id.gen \in 1..count.gens
  <2>1. Range(all) = Range(groups) \cup Range(GroupsOf(s))
    BY <1>1, <1>4, ConcatList DEF StopInv, Typed
  <2> QED BY <1>3, <1>4, <2>1 DEF TypeInv, Dated
<1>6. \A i, id, type, members : Thread(i, id, type, members).id = id
  BY DEF Thread
<1>7. ASSUME NEW t \in threads' PROVE t.id.gen \in 1..count.gens
  <2>1. CASE t \in threads
    BY <2>1 DEF TypeInv, Dated
  <2>2. CASE \E k : t = Thread(n + k, ActorId(s.gen, s.sid, k), s.type, {<<k, s.actors[k].writes>>})
    <3>1. t.id.gen = s.gen
      BY <1>6, <2>2 DEF ActorId
    <3> QED BY <1>3, <3>1
  <2>3. CASE \E g \in DOMAIN all :
               t = Thread(n + Len(s.actors) + g, all[g].id, all[g].type, all[g].members)
    <3>1. PICK g \in DOMAIN all : t.id = all[g].id
      BY <1>6, <2>3
    <3>2. all[g] \in Range(all)
      BY DEF Range
    <3> QED BY <1>5, <3>1, <3>2
  <2> QED BY <1>1, <1>7, <2>1, <2>2, <2>3
<1> QED BY <1>1, <1>2, <1>5, <1>7 DEF TypeInv, Dated

LEMMA NextDates ==
  ASSUME StopInv, HomeInv, TypeInv, [Next]_vars
  PROVE  Dated'
<1>0. /\ count.gens \in Nat /\ count'.gens \in Nat /\ count.gens <= count'.gens
      /\ ~Build => count'.gens = count.gens
      /\ Range(<<>>) = {} /\ Dated
  BY NextGens, EmptyList DEF TypeInv
<1>1. CASE Analyze \/ StartService
  <2>1. ~Build
    BY <1>1 DEF Build, Analyze, StartService
  <2> QED BY <1>0, <1>1, <2>1, AnalyzeDates, StartServiceDates
<1>2. CASE \E t \in threads : ThreadStep(t)
  <2>1. PICK t \in threads : ThreadStep(t)
    BY <1>2
  <2>2. /\ UNCHANGED <<todo, asyncs, actors, groups, stopped>>
        /\ \A u \in threads' : u \in threads \/ u.id = t.id
    BY <2>1, ThreadMoves DEF HomeInv, Numbers, main, lists
  <2> QED BY <1>0, <2>2, SameDates
<1>3. CASE Reset
  <2>1. /\ UNCHANGED <<todo, asyncs, actors, groups, stopped>>
        /\ \A u \in threads' : \E v \in threads : v.id = u.id
    BY <1>3, SameThreads DEF Reset, HomeInv, lists
  <2> QED BY <1>0, <2>1, SameDates
<1>4. CASE Build \/ Analyzed \/ Load \/ Register \/ RunLoops \/ Started \/ Update \/ Restart
           \/ UNCHANGED vars
  <2>1. /\ UNCHANGED <<asyncs, actors, groups, stopped>>
        /\ todo' = todo \/ todo' = <<>> \/ todo' = asyncs
        /\ threads' = threads \/ threads' = {}
    BY <1>4 DEF Build, Analyzed, Load, Register, RunLoops, Started, Update, Restart, Now, Exit,
         vars, main, lists
  <2> QED BY <1>0, <2>1, SameDates
<1>5. CASE Hangup \/ \E c \in Posted : Post(c)
  <2>1. /\ todo' = todo \/ todo' = <<>>
        /\ threads' = threads \/ threads' = {}
        /\ UNCHANGED <<asyncs, actors, groups, stopped>> \/ StopLoops
    BY <1>5 DEF Hangup, Post, Now, Exit, lists
  <2>2. StopLoops => /\ asyncs' = <<>> /\ actors' = {} /\ groups' = <<>>
                     /\ stopped' = stopped \cup actors \cup {g.id : g \in Range(groups)}
    BY DEF StopLoops, Range
  <2> QED BY <1>0, <2>1, <2>2, SameDates
<1> QED BY <1>1, <1>2, <1>3, <1>4, <1>5 DEF Next, Boot, Looping, Posting, Signals

LEMMA NextBegun ==
  ASSUME StopInv, TypeInv, [Next]_vars
  PROVE  Begun'
<1>0. /\ count.gens \in Nat
      /\ count'.gens = (IF Build THEN count.gens + 1 ELSE count.gens)
      /\ root.gen \in 0..count.gens
      /\ at = "analyze" => count.gens # 0
  BY NextGens DEF TypeInv, Begun
<1>1. CASE Build
  <2>1. root' = root
    BY <1>1 DEF Build
  <2> QED BY <1>0, <1>1, <2>1 DEF Begun
<1>2. CASE Analyzed
  <2>1. ~Build /\ root'.gen = count.gens /\ at' # "analyze"
    BY <1>2 DEF Analyzed, Build, Now
  <2> QED BY <1>0, <2>1 DEF Begun
<1>3. CASE Analyze
  <2>1. ~Build /\ at = "analyze" /\ root' = root
    BY <1>3 DEF Analyze, Build, definition
  <2> QED BY <1>0, <2>1 DEF Begun
<1>4. CASE ~Build /\ ~Analyzed /\ ~Analyze
  <2>1. root' = root /\ (at' = at \/ at' # "analyze")
    BY <1>4 DEF Next, Boot, Looping, Posting, Signals, Load, Register, RunLoops, StartService,
         Started, Post, Update, Reset, Hangup, Restart, ThreadStep, Now, Exit, vars, main,
         definition
  <2> QED BY <1>0, <1>4, <2>1 DEF Begun
<1> QED BY <1>1, <1>2, <1>3, <1>4

LEMMA NextShaped ==
  ASSUME StopInv, HomeInv, TotalInv, TypeInv, [Next]_vars
  PROVE  Shaped'
<1>0. /\ Shaped /\ IsList(https) /\ undone' \in BOOLEAN
      /\ new \in [config : Files \cup Posted, k : Nat \ {0}, base : Nat, post : BOOLEAN]
      /\ Len(new.config) \in Nat
  BY NextKeepsTotal, LifecycleAssumption DEF TypeInv, HomeInv, HomeTyped, TotalInv
<1>1. at' \in Steps
  <2>1. at \in Steps
    BY <1>0 DEF Shaped
  <2> QED BY <2>1 DEF Steps, Next, Boot, Looping, Posting, Signals, Build, Analyze, Analyzed,
            Load, Register, RunLoops, StartService, Started, Post, Update, Reset, Hangup, Restart,
            ThreadStep, Now, Exit, vars, main
<1>2. {registered', hup', undone', failed', interrupted', restarted', torn'} \subseteq BOOLEAN
  <2>1. {registered, hup, undone, failed, interrupted, restarted, torn} \subseteq BOOLEAN
    BY <1>0 DEF Shaped
  <2>2. {registered', hup'} \subseteq BOOLEAN
    BY <2>1 DEF Next, Boot, Looping, Posting, Signals, Build, Analyze, Analyzed,
         Load, Register, RunLoops, StartService, Started, Post, Update, Reset, Hangup, Restart,
         ThreadStep, Now, Exit, vars, main
  <2>3. {failed', interrupted', restarted', torn'} \subseteq BOOLEAN
    BY <2>1 DEF Next, Boot, Looping, Posting, Signals, Build, Analyze, Analyzed,
         Load, Register, RunLoops, StartService, Started, Post, Update, Reset, Hangup, Restart,
         ThreadStep, vars, marks
  <2> QED BY <1>0, <2>2, <2>3
<1>3. new'.k <= Len(new'.config) + 1
  <2>1. ASSUME NEW c \in Files \cup Posted, NEW post, new' = Plan(c, post)
        PROVE  new'.k <= Len(new'.config) + 1
    <3>1. Len(c) \in Nat /\ new'.config = c /\ new'.k = 1
      BY <2>1, LifecycleAssumption DEF Plan
    <3> QED BY <3>1
  <2>2. CASE Build
    BY <1>0, <2>2 DEF Build, Shaped
  <2>3. CASE Analyze
    <3>1. \/ new' = new
          \/ new' = [new EXCEPT !.k = @ + 1]
      BY <2>3 DEF Analyze
    <3>2. new.k <= Len(new.config)
      BY <2>3 DEF Analyze
    <3> QED BY <1>0, <3>1, <3>2
  <2>4. CASE Restart \/ \E c \in Posted : Post(c)
    BY <2>1, <2>4 DEF Restart, Post
  <2>5. CASE ~Build /\ ~Analyze /\ ~Restart /\ ~(\E c \in Posted : Post(c))
    <3>1. new' = new
      BY <2>5 DEF Next, Boot, Looping, Posting, Signals, Analyzed, Load, Register, RunLoops,
           StartService, Started, Update, Reset, Hangup, ThreadStep, vars, main
    <3> QED BY <1>0, <3>1 DEF Shaped
  <2> QED BY <2>2, <2>3, <2>4, <2>5
<1>4. data' \in Files \cup Posted \cup {<<>>}
  <2>1. data' = data \/ data' = new.config
    BY DEF Next, Boot, Looping, Posting, Signals, Build, Analyze, Analyzed, Load, Register,
         RunLoops, StartService, Started, Post, Update, Reset, Hangup, Restart, ThreadStep,
         vars, definition
  <2> QED BY <1>0, <2>1 DEF Shaped
<1>5. DOMAIN apps' \subseteq Nat
  <2>1. CASE Load
    <3>1. apps' = apps \/ DOMAIN apps' = Loaded
      BY <2>1 DEF Load
    <3>2. Loaded \subseteq Nat
      <4>1. DOMAIN https = 1..Len(https) /\ Len(https) \in Nat
        BY <1>0, ListIs
      <4> QED BY <4>1 DEF Loaded
    <3> QED BY <1>0, <3>1, <3>2 DEF Shaped
  <2>2. CASE Update
    <3>1. DOMAIN apps' = DOMAIN apps
      BY <2>2 DEF Update
    <3> QED BY <1>0, <3>1 DEF Shaped
  <2>3. CASE ~Load /\ ~Update
    <3>1. apps' = apps
      BY <2>3 DEF Next, Boot, Looping, Posting, Signals, Build, Analyze, Analyzed, Register,
           RunLoops, StartService, Started, Post, Reset, Hangup, Restart, ThreadStep, vars,
           definition
    <3> QED BY <1>0, <3>1 DEF Shaped
  <2> QED BY <2>1, <2>2, <2>3
<1> QED BY <1>1, <1>2, <1>3, <1>4, <1>5 DEF Shaped

\* Whatever is posted and whenever a signal comes: the steps of run() and post(),
\* the configuration in the making and the threads keep their types, and no
\* actor, group or thread is of a generation that has not begun.
THEOREM TypeCorrect == Spec => []TypeOK
<1>1. ASSUME Init PROVE TypeInv
  <2>1. /\ at = "build" /\ todo = <<>> /\ asyncs = <<>> /\ groups = <<>> /\ threads = {}
        /\ stopped = {} /\ actors = {} /\ data = <<>> /\ apps = <<>>
        /\ root.gen = 0 /\ count.gens = 0
        /\ {registered, hup, undone, failed, interrupted, restarted, torn} \subseteq BOOLEAN
    BY <1>1 DEF Init
  <2>2. new.k <= Len(new.config) + 1
    <3>1. new.k = 1 /\ Len(new.config) \in Nat
      BY <1>1, LifecycleAssumption DEF Init, Plan
    <3> QED BY <3>1
  <2> QED BY <2>1, <2>2, EmptyList DEF TypeInv, Dated, Shaped, Begun, Steps
<1>2. StopInv /\ HomeInv /\ TotalInv /\ TypeInv /\ [Next]_vars => TypeInv'
  BY NextDates, NextShaped, NextBegun DEF TypeInv
<1>3. Init => TotalInv
  BY InitTotal
<1>4. ASSUME StopInv, HomeInv, TotalInv, TypeInv PROVE TypeOK
  <2>1. new.post \in BOOLEAN /\ new.base \in Nat /\ new.k \in 1..(Len(new.config) + 1)
    <3>1. new \in [config : Files \cup Posted, k : Nat \ {0}, base : Nat, post : BOOLEAN]
          /\ Len(new.config) \in Nat
      BY <1>4, LifecycleAssumption DEF HomeInv, HomeTyped
    <3> QED BY <1>4, <3>1 DEF TypeInv, Shaped
  <2>2. \A id \in stopped \cup actors \cup {t.id : t \in threads} : id.gen \in 1..count.gens
    BY <1>4 DEF TypeInv, Dated
  <2>3. /\ numbered \in Nat /\ total \in Nat /\ since \in Nat
        /\ \A t \in threads : /\ t.pc \in {"wait", "busy", "held", "counted", "died"}
                              /\ t.n \in 1..count.threads /\ t.held \in Nat
    BY <1>4 DEF HomeInv, HomeTyped, Numbers, Busy, TotalInv
  <2> QED BY <1>4, <2>1, <2>2, <2>3 DEF TypeOK, TypeInv, Shaped, Begun, Steps
<1> QED BY <1>1, <1>2, <1>3, <1>4, InitStop, NextKeepsStop, InitHome, NextKeepsHome, NextKeepsTotal,
        PTL DEF Spec
=============================================================================
