------------------------- MODULE HttpServiceProofs -------------------------
(***************************************************************************)
(* What holds of HttpService for any number of services, all               *)
(* configurations, all requests and any number of handlers that wait.      *)
(***************************************************************************)
EXTENDS HttpService, FiniteSetTheorems, WellFoundedInduction, TLAPS

(***************************************************************************)
(* The endpoint that a request is counted for.                             *)
(***************************************************************************)
LEMMA LeastExists ==
  ASSUME NEW S, S \subseteq Nat, S # {}
  PROVE  \E x \in S : \A y \in S : x <= y
  <1>. DEFINE Less == {p \in Nat \X Nat : p[1] < p[2]}
  <1>1. IsWellFoundedOn(Less, Nat)
    BY NatLessThanWellFounded DEF OpToRel
  <1>2. PICK x \in S : \A y \in S : <<y, x>> \notin Less
    <2>. HIDE DEF Less
    <2>. QED
      BY <1>1, WFMin
  <1>3. ASSUME NEW y \in S PROVE x <= y
    <2>1. x \in Nat /\ y \in Nat
      OBVIOUS
    <2>2. ~ (y < x)
      BY <1>2, <2>1
    <2>. QED
      BY <2>1, <2>2
  <1>. QED
    BY <1>3

\* A nonempty set of endpoints has a first and a last one.
LEMMA MinIn ==
  ASSUME NEW n \in Nat, NEW S, S \subseteq 1 .. n, S # {}
  PROVE  Min(S) \in S
<1>1. S \subseteq Nat
  OBVIOUS
<1>2. PICK x \in S : \A y \in S : x <= y
  BY <1>1, LeastExists
<1>. QED
  BY <1>2 DEF Min

LEMMA MaxIn ==
  ASSUME NEW n \in Nat, NEW S, S \subseteq 1 .. n, S # {}
  PROVE  Max(S) \in S
<1>. DEFINE T == {n - x : x \in S}
<1>1. T \subseteq Nat /\ T # {}
  <2>1. ASSUME NEW x \in S PROVE n - x \in Nat
    <3>1. x \in 1 .. n
      OBVIOUS
    <3>. QED
      BY <3>1
  <2>2. PICK x \in S : TRUE
    OBVIOUS
  <2>3. n - x \in T
    BY <2>2
  <2>. QED
    BY <2>1, <2>3
<1>2. PICK d \in T : \A e \in T : d <= e
  BY <1>1, LeastExists
<1>3. PICK x \in S : d = n - x
  BY <1>2
<1>4. \A y \in S : x >= y
  <2>1. TAKE y \in S
  <2>2. n - y \in T
    OBVIOUS
  <2>3. n - x <= n - y
    BY <1>2, <1>3, <2>2
  <2>. QED
    BY <2>3
<1>. QED
  BY <1>3, <1>4 DEF Max

LEMMA ConstantsType ==
  /\ N \in Nat /\ Http \subseteq Services /\ Services \subseteq Nat \ {0}
  /\ MaxEndpoints \in Nat /\ MaxRequests \in Nat /\ MaxChanges \in Nat
  /\ \A r \in Requests : r.service \in Http
  /\ \A c \in Configs : DOMAIN c = Http /\ \A s \in Http :
       Len(c[s]) \in 0 .. MaxEndpoints /\ DOMAIN c[s] = 1 .. Len(c[s])
  BY ServiceAssumption DEF ServiceAssumption, Services

LEMMA ConfigType ==
  ASSUME TypeOK, NEW s \in Http
  PROVE  Len(config[s]) \in 0 .. MaxEndpoints /\ DOMAIN config[s] = 1 .. Len(config[s])
<1>1. PICK c \in Configs : config[s] = c[s]
  BY DEF TypeOK
<1>. QED
  BY <1>1, ConstantsType

LEMMA AnsweringIn ==
  ASSUME TypeOK, NEW r \in Requests, Accepting(r) # {}
  PROVE  Answering(r) \in 1 .. Len(config[r.service])
<1>1. r.service \in Http
  BY ConstantsType
<1>2. Accepting(r) \subseteq 1 .. Len(config[r.service])
  BY <1>1, ConfigType DEF Accepting, Alternatives, OnRoute
<1>3. Len(config[r.service]) \in Nat
  BY <1>1, ConfigType, ConstantsType
<1>. QED
  BY <1>2, <1>3, MinIn DEF Answering

LEMMA BlamedIn ==
  ASSUME TypeOK, NEW r \in Requests
  PROVE  /\ Blamed(r) \in 0 .. Len(config[r.service])
         /\ Culprit(r) \in 0 .. Len(config[r.service])
         /\ Blamed(r) # None <=> ~Silent(r)
<1>1. r.service \in Http
  BY ConstantsType
<1>. DEFINE noted == {i \in Tried(r) : r.content \notin config[r.service][i].silent}
<1>2. noted \subseteq 1 .. Len(config[r.service])
  BY <1>1, ConfigType DEF Tried, Alternatives, OnRoute
<1>3. Len(config[r.service]) \in Nat
  BY <1>1, ConfigType, ConstantsType
<1>4. Blamed(r) = IF noted = {} THEN None ELSE Max(noted)
  BY DEF Blamed
<1>5. noted # {} => Max(noted) \in noted
  <2>. HIDE DEF noted
  <2>. QED
    BY <1>2, <1>3, MaxIn
<1>6. Blamed(r) \in 0 .. Len(config[r.service])
  <2>. HIDE DEF noted
  <2>1. CASE noted = {}
    <3>1. Blamed(r) = 0
      BY <1>4, <2>1 DEF None
    <3>. QED
      BY <1>3, <3>1
  <2>2. CASE noted # {}
    <3>1. Blamed(r) \in 1 .. Len(config[r.service])
      BY <1>2, <1>4, <1>5, <2>2
    <3>. QED
      BY <1>3, <3>1
  <2>. QED
    BY <2>1, <2>2
<1>7. Blamed(r) # None <=> noted # {}
  <2>. HIDE DEF noted
  <2>1. noted # {} => Blamed(r) \in 1 .. Len(config[r.service])
    BY <1>2, <1>4, <1>5
  <2>. QED
    BY <1>3, <1>4, <2>1 DEF None
<1>8. noted # {} <=> ~Silent(r)
  BY DEF Silent
<1>. QED
  BY <1>3, <1>6, <1>7, <1>8 DEF Culprit, None

(***************************************************************************)
(* The counters.                                                           *)
(***************************************************************************)
LEMMA IncreaseFacts ==
  ASSUME NEW f \in [Tallies -> Nat], NEW s \in Services, NEW e
  PROVE  /\ Increase(f, s, e) \in [Tallies -> Nat]
         /\ Increase(f, s, e)[<<s, 0>>] = f[<<s, 0>>] + 1
         /\ \A q \in Services : q # s => Increase(f, s, e)[<<q, 0>>] = f[<<q, 0>>]
<1>1. \A t \in Tallies : f[t] \in Nat /\ f[t] + 1 \in Nat
  OBVIOUS
<1>2. \A q \in Services : <<q, 0>> \in Tallies /\ q # 0
  BY ConstantsType DEF Tallies, Services
<1>3. Increase(f, s, e) \in [Tallies -> Nat]
  BY <1>1 DEF Increase
<1>4. Increase(f, s, e)[<<s, 0>>] = f[<<s, 0>>] + 1
  BY <1>2 DEF Increase
<1>5. ASSUME NEW q \in Services, q # s
      PROVE  Increase(f, s, e)[<<q, 0>>] = f[<<q, 0>>]
  <2>1. <<q, 0>> \notin {<<s, e>>, <<s, 0>>, <<0, 0>>}
    BY <1>2, <1>5
  <2>. QED
    BY <1>2, <2>1 DEF Increase
<1>. QED
  BY <1>3, <1>4, <1>5

LEMMA ZeroFacts ==
  ASSUME NEW f \in [Tallies -> Nat], NEW s \in Services
  PROVE  /\ ZeroOf(f, s) \in [Tallies -> Nat] /\ Zero \in [Tallies -> Nat]
         /\ \A q \in Services : /\ ZeroOf(f, s)[<<q, 0>>] = IF q = s THEN 0 ELSE f[<<q, 0>>]
                                /\ Zero[<<q, 0>>] = 0
<1>1. \A q \in Services : <<q, 0>> \in Tallies
  BY ConstantsType DEF Tallies, Services
<1>. QED
  BY <1>1 DEF ZeroOf, Zero

\* What on_finish does to the counters and the log of a service.
LEMMA EndsFacts ==
  ASSUME TypeOK, NEW s \in Services, NEW e, NEW status, NEW isOptions,
         Ends(s, e, status, isOptions)
  PROVE  /\ codes' \in [Tallies -> Nat] /\ records' \in [Services -> Nat]
         /\ \A q \in Services : q # s =>
              codes'[<<q, 0>>] = codes[<<q, 0>>] /\ records'[q] = records[q]
         /\ codes'[<<s, 0>>] \in {codes[<<s, 0>>], codes[<<s, 0>>] + 1}
         /\ logging[s] => records'[s] = records[s] + 1
         /\ records'[s] >= records[s]
         /\ logging[s] => codes'[<<s, 0>>] - codes[<<s, 0>>] <= records'[s] - records[s]
<1>1. codes \in [Tallies -> Nat] /\ records \in [Services -> Nat] /\ logging \in [Services -> BOOLEAN]
  BY DEF TypeOK
<1>2. codes' \in {codes, Increase(codes, s, 0), Increase(codes, s, e)}
  BY DEF Ends, Count
<1>3. records' = [records EXCEPT ![s] = IF logging[s] THEN @ + 1 ELSE @]
  BY DEF Ends, Log
<1>4. /\ codes' \in [Tallies -> Nat]
      /\ \A q \in Services : q # s => codes'[<<q, 0>>] = codes[<<q, 0>>]
      /\ codes'[<<s, 0>>] \in {codes[<<s, 0>>], codes[<<s, 0>>] + 1}
  <2>1. CASE codes' = codes
    BY <1>1, <2>1
  <2>2. CASE codes' = Increase(codes, s, 0)
    BY <1>1, <2>2, IncreaseFacts
  <2>3. CASE codes' = Increase(codes, s, e)
    BY <1>1, <2>3, IncreaseFacts
  <2>. QED
    BY <1>2, <2>1, <2>2, <2>3
<1>5. /\ records' \in [Services -> Nat]
      /\ \A q \in Services : q # s => records'[q] = records[q]
      /\ logging[s] => records'[s] = records[s] + 1
      /\ records'[s] >= records[s]
  BY <1>1, <1>3
<1>6. codes[<<s, 0>>] \in Nat /\ records[s] \in Nat
  <2>1. <<s, 0>> \in Tallies
    BY ConstantsType DEF Tallies, Services
  <2>. QED
    BY <1>1, <2>1
<1>7. logging[s] => codes'[<<s, 0>>] - codes[<<s, 0>>] <= records'[s] - records[s]
  BY <1>4, <1>5, <1>6
<1>. QED
  BY <1>4, <1>5, <1>7

\* Whether it counts the request, when the statistics match the routes.
Counts(e, status, isOptions) == status # 500 /\ ~isOptions /\ (e # None \/ status = 405)

LEMMA EndsCounts ==
  ASSUME TypeOK, known = N, NEW s \in Http, size[s] = Len(config[s]),
         NEW e \in 0 .. Len(config[s]), NEW status, NEW isOptions,
         Ends(s, e, status, isOptions)
  PROVE  codes'[<<s, 0>>] = codes[<<s, 0>>] + (IF Counts(e, status, isOptions) THEN 1 ELSE 0)
<1>1. codes \in [Tallies -> Nat] /\ s \in Services /\ s <= known
      /\ Len(config[s]) \in Nat /\ codes[<<s, 0>>] \in Nat
  <2>1. s \in Services /\ s \in 1 .. N /\ N \in Nat
    BY ConstantsType DEF Services
  <2>2. codes \in [Tallies -> Nat] /\ <<s, 0>> \in Tallies
    BY <2>1, ConstantsType DEF TypeOK, Tallies
  <2>3. Len(config[s]) \in Nat
    BY ConfigType, ConstantsType
  <2>. QED
    BY <2>1, <2>2, <2>3
<1>2. Counted(s, e) <=> e # None
  BY <1>1 DEF Counted, None
<1>3. CASE Counts(e, status, isOptions)
  <2>1. codes' = Increase(codes, s, 0) \/ codes' = Increase(codes, s, e)
    BY <1>1, <1>2, <1>3 DEF Ends, Count, Counts
  <2>2. codes'[<<s, 0>>] = codes[<<s, 0>>] + 1
    BY <1>1, <2>1, IncreaseFacts
  <2>. QED
    BY <1>3, <2>2
<1>4. CASE ~Counts(e, status, isOptions)
  <2>1. codes' = codes
    BY <1>1, <1>2, <1>4 DEF Ends, Count, Counts
  <2>. QED
    BY <1>1, <1>4, <2>1
<1>. QED
  BY <1>3, <1>4

(***************************************************************************)
(* The inductive invariant.  A service whose log covers its statistics is  *)
(* one that is logging now, so that the next status counted is logged too. *)
(***************************************************************************)
LogInv == \A s \in Services : since[s] => logging[s] /\ codes[<<s, 0>>] <= records[s]
IInv == TypeOK /\ StatsMatchRoutes /\ AnsweredCounted /\ LogInv

\* What every end of a request does to the counters of its service: when the
\* log is covered it logs what it counts, and when the statistics match the
\* routes it counts what it should and at most a forwarded request besides.
Due(s) == ended[s] - missed[s]
Settles(s) ==
  /\ UNCHANGED <<config, known, size, logging, failed>>
  /\ codes' \in [Tallies -> Nat] /\ records' \in [Services -> Nat]
  /\ ended' \in [Services -> Nat] /\ missed' \in [Services -> Nat]
  /\ forwarded' \in [Services -> Nat] /\ since' \in [Services -> BOOLEAN]
  /\ \A q \in Services \ {s} :
       /\ codes'[<<q, 0>>] = codes[<<q, 0>>] /\ records'[q] = records[q]
       /\ ended'[q] = ended[q] /\ missed'[q] = missed[q]
       /\ forwarded'[q] = forwarded[q] /\ since'[q] = since[q]
  /\ since'[s] =>
       since[s] /\ (logging[s] => codes'[<<s, 0>>] - codes[<<s, 0>>] <= records'[s] - records[s])
  /\ ~failed => \E new, lost \in Nat :
       /\ codes'[<<s, 0>>] = codes[<<s, 0>>] + new + lost
       /\ Due(s)' = Due(s) + new /\ lost <= forwarded'[s] - forwarded[s]

LEMMA NumbersType ==
  ASSUME TypeOK
  PROVE  \A q \in Services : /\ codes[<<q, 0>>] \in Nat /\ records[q] \in Nat
                             /\ ended[q] \in Nat /\ missed[q] \in Nat
                             /\ forwarded[q] \in Nat
                             /\ since[q] \in BOOLEAN /\ logging[q] \in BOOLEAN
<1>1. \A q \in Services : <<q, 0>> \in Tallies
  BY ConstantsType DEF Tallies, Services
<1>. QED
  BY <1>1 DEF TypeOK

LEMMA SettlesKeeps ==
  ASSUME IInv, NEW s \in Http, Settles(s)
  PROVE  StatsMatchRoutes' /\ AnsweredCounted' /\ LogInv'
<1>1. TypeOK /\ StatsMatchRoutes /\ AnsweredCounted /\ LogInv /\ s \in Services
  BY ConstantsType DEF IInv
<1>2. \A q \in Services : /\ codes'[<<q, 0>>] \in Nat /\ records'[q] \in Nat
                          /\ ended'[q] \in Nat /\ missed'[q] \in Nat
                          /\ forwarded'[q] \in Nat
  <2>1. \A q \in Services : <<q, 0>> \in Tallies
    BY ConstantsType DEF Tallies, Services
  <2>. QED
    BY <2>1 DEF Settles
<1>3. StatsMatchRoutes'
  BY <1>1 DEF StatsMatchRoutes, Settles
<1>4. AnsweredCounted'
  <2>. SUFFICES ASSUME ~failed', NEW q \in Http
                PROVE  codes'[<<q, 0>>] - (ended'[q] - missed'[q]) \in 0 .. forwarded'[q]
    BY DEF AnsweredCounted
  <2>1. ~failed /\ q \in Services
    BY ConstantsType DEF Settles
  <2>2. codes[<<q, 0>>] - (ended[q] - missed[q]) \in 0 .. forwarded[q]
    BY <1>1, <2>1 DEF AnsweredCounted
  <2>3. CASE q # s
    BY <2>1, <2>2, <2>3 DEF Settles
  <2>4. CASE q = s
    <3>1. PICK new, lost \in Nat :
            /\ codes'[<<s, 0>>] = codes[<<s, 0>>] + new + lost
            /\ Due(s)' = Due(s) + new /\ lost <= forwarded'[s] - forwarded[s]
      BY <2>1 DEF Settles
    <3>. QED
      BY <1>1, <1>2, <2>2, <2>4, <3>1, NumbersType DEF Due
  <2>. QED
    BY <2>3, <2>4
<1>5. LogInv'
  <2>. SUFFICES ASSUME NEW q \in Services, since'[q]
                PROVE  logging'[q] /\ codes'[<<q, 0>>] <= records'[q]
    BY DEF LogInv
  <2>1. since[q] /\ logging'[q] = logging[q]
    BY DEF Settles
  <2>2. logging[q] /\ codes[<<q, 0>>] <= records[q]
    BY <1>1, <2>1 DEF LogInv
  <2>3. CASE q # s
    BY <2>1, <2>2, <2>3 DEF Settles
  <2>4. CASE q = s
    <3>1. codes'[<<s, 0>>] - codes[<<s, 0>>] <= records'[s] - records[s]
      BY <2>2, <2>4 DEF Settles
    <3>. QED
      BY <1>1, <1>2, <2>1, <2>2, <2>4, <3>1, NumbersType
  <2>. QED
    BY <2>3, <2>4
<1>. QED
  BY <1>3, <1>4, <1>5

\* The history of a request that ended.
Adds(r, closed, over) == IF (closed \/ (Known(r) /\ ~IsOptions(r))) /\ ~over THEN 1 ELSE 0

LEMMA EndedFacts ==
  ASSUME TypeOK, NEW r \in Requests, NEW closed, NEW over, Ended(r, closed, over)
  PROVE  /\ ended' \in [Services -> Nat] /\ missed' \in [Services -> Nat]
         /\ \A q \in Services \ {r.service} : ended'[q] = ended[q] /\ missed'[q] = missed[q]
         /\ Due(r.service)' = Due(r.service) + Adds(r, closed, over)
<1>. DEFINE s == r.service
            one == IF closed \/ (Known(r) /\ ~IsOptions(r)) THEN 1 ELSE 0
<1>1. /\ s \in Services /\ ended \in [Services -> Nat] /\ missed \in [Services -> Nat]
      /\ one \in Nat /\ ended[s] \in Nat /\ missed[s] \in Nat
  BY ConstantsType DEF TypeOK
<1>2. /\ ended' = [ended EXCEPT ![s] = @ + one]
      /\ missed' = [missed EXCEPT ![s] = IF over THEN @ + one ELSE @]
  BY DEF Ended
<1>3. Adds(r, closed, over) = IF over THEN 0 ELSE one
  BY DEF Adds
<1>. HIDE DEF one, s
<1>4. /\ ended' \in [Services -> Nat] /\ missed' \in [Services -> Nat]
      /\ \A q \in Services \ {s} : ended'[q] = ended[q] /\ missed'[q] = missed[q]
      /\ ended'[s] = ended[s] + one /\ missed'[s] = IF over THEN missed[s] + one ELSE missed[s]
  BY <1>1, <1>2
<1>5. Due(s)' = Due(s) + IF over THEN 0 ELSE one
  BY <1>1, <1>4 DEF Due
<1>6. Due(s)' = Due(r.service)'
  BY DEF s
<1>. QED
  BY <1>3, <1>4, <1>5, <1>6 DEF s

\* The ends of requests settle: those that come to on_finish, which counts all
\* that are not passed over,
LEMMA EndsSettles ==
  ASSUME IInv, NEW r \in Requests, NEW e \in 0 .. Len(config[r.service]), NEW status,
         NEW isOptions, NEW over, Ends(r.service, e, status, isOptions), Ended(r, FALSE, over),
         Counts(e, status, isOptions) <=> Known(r) /\ ~IsOptions(r) /\ ~over,
         UNCHANGED <<config, known, size, logging, failed, forwarded, since>>
  PROVE  Settles(r.service)
<1>. DEFINE s == r.service
            c == IF Counts(e, status, isOptions) THEN 1 ELSE 0
<1>1. TypeOK /\ StatsMatchRoutes /\ s \in Http /\ s \in Services
  BY ConstantsType DEF IInv
<1>2. /\ ended' \in [Services -> Nat] /\ missed' \in [Services -> Nat]
      /\ \A q \in Services \ {s} : ended'[q] = ended[q] /\ missed'[q] = missed[q]
      /\ Due(s)' = Due(s) + c
  <2>1. c = Adds(r, FALSE, over)
    BY DEF Adds
  <2>2. /\ ended' \in [Services -> Nat] /\ missed' \in [Services -> Nat]
        /\ \A q \in Services \ {s} : ended'[q] = ended[q] /\ missed'[q] = missed[q]
        /\ Due(s)' = Due(s) + Adds(r, FALSE, over)
    BY <1>1, EndedFacts
  <2>. QED
    BY <2>1, <2>2
<1>3. ASSUME ~failed PROVE codes'[<<s, 0>>] = codes[<<s, 0>>] + c + 0
  <2>1. known = N /\ size[s] = Len(config[s])
    BY <1>1, <1>3 DEF StatsMatchRoutes
  <2>. QED
    BY <1>1, <2>1, EndsCounts, NumbersType
<1>4. forwarded' \in [Services -> Nat] /\ since' \in [Services -> BOOLEAN]
  BY <1>1 DEF TypeOK
<1>5. ~failed => \E new, lost \in Nat :
        /\ codes'[<<s, 0>>] = codes[<<s, 0>>] + new + lost
        /\ Due(s)' = Due(s) + new /\ lost <= forwarded'[s] - forwarded[s]
  <2>1. c \in Nat /\ forwarded'[s] = forwarded[s] /\ forwarded[s] \in Nat
    BY <1>1, NumbersType
  <2>. HIDE DEF c, s
  <2>. QED
    BY <1>2, <1>3, <2>1
<1>6. Ends(s, e, status, isOptions)
  OBVIOUS
<1>7. Settles(s)
  <2>. HIDE DEF c, s
  <2>. QED
    BY <1>1, <1>2, <1>4, <1>5, <1>6, EndsFacts, NumbersType DEF Settles
<1>. QED
  BY <1>7

\* the forwarded ones, of which it may count those the routes answered before,
LEMMA ForwardedSettles ==
  ASSUME IInv, NEW s \in Http, NEW e, NEW status, NEW isOptions,
         Ends(s, e, status, isOptions),
         forwarded' = [forwarded EXCEPT ![s] = @ + 1],
         UNCHANGED <<config, known, size, logging, failed, ended, missed, since>>
  PROVE  Settles(s)
<1>1. TypeOK /\ s \in Services
  BY ConstantsType DEF IInv
<1>2. /\ ended' \in [Services -> Nat] /\ missed' \in [Services -> Nat]
      /\ since' \in [Services -> BOOLEAN] /\ Due(s)' = Due(s) + 0
      /\ forwarded' \in [Services -> Nat] /\ forwarded'[s] = forwarded[s] + 1
      /\ \A q \in Services \ {s} : forwarded'[q] = forwarded[q]
  BY <1>1, NumbersType DEF TypeOK, Due
<1>3. codes'[<<s, 0>>] \in {codes[<<s, 0>>], codes[<<s, 0>>] + 1}
  BY <1>1, EndsFacts
<1>4. PICK lost \in {0, 1} : codes'[<<s, 0>>] = codes[<<s, 0>>] + lost
  BY <1>1, <1>3, NumbersType
<1>5. \E new, more \in Nat :
        /\ codes'[<<s, 0>>] = codes[<<s, 0>>] + new + more
        /\ Due(s)' = Due(s) + new /\ more <= forwarded'[s] - forwarded[s]
  <2>. WITNESS 0 \in Nat, lost \in Nat
  <2>. QED
    BY <1>1, <1>2, <1>4, NumbersType
<1>. QED
  BY <1>1, <1>2, <1>5, EndsFacts, NumbersType DEF Settles

\* and those whose connection is closed.
LEMMA ClosedSettles ==
  ASSUME IInv, NEW r \in Requests, NEW e,
         codes' = Increase(codes, r.service, e), Ended(r, TRUE, FALSE),
         \/ Log(r.service) /\ UNCHANGED since
         \/ UNCHANGED records /\ since' = [since EXCEPT ![r.service] = FALSE],
         UNCHANGED <<config, known, size, logging, failed, forwarded>>
  PROVE  Settles(r.service)
<1>. DEFINE s == r.service
<1>1. TypeOK /\ s \in Services
  BY ConstantsType DEF IInv
<1>2. /\ codes' \in [Tallies -> Nat] /\ codes'[<<s, 0>>] = codes[<<s, 0>>] + 1
      /\ \A q \in Services \ {s} : codes'[<<q, 0>>] = codes[<<q, 0>>]
  <2>1. codes \in [Tallies -> Nat]
    BY <1>1 DEF TypeOK
  <2>. QED
    BY <1>1, <2>1, IncreaseFacts
<1>3. /\ ended' \in [Services -> Nat] /\ missed' \in [Services -> Nat]
      /\ \A q \in Services \ {s} : ended'[q] = ended[q] /\ missed'[q] = missed[q]
      /\ Due(s)' = Due(s) + 1 /\ forwarded' \in [Services -> Nat]
  BY <1>1, EndedFacts DEF TypeOK, Adds
<1>4. /\ records' \in [Services -> Nat] /\ since' \in [Services -> BOOLEAN]
      /\ \A q \in Services \ {s} : records'[q] = records[q] /\ since'[q] = since[q]
      /\ since'[s] => since[s] /\ (logging[s] => records'[s] = records[s] + 1)
  <2>1. /\ records \in [Services -> Nat] /\ since \in [Services -> BOOLEAN]
        /\ logging \in [Services -> BOOLEAN]
    BY <1>1 DEF TypeOK
  <2>2. CASE Log(s) /\ UNCHANGED since
    <3>1. records' = [records EXCEPT ![s] = IF logging[s] THEN @ + 1 ELSE @]
      BY <2>2 DEF Log
    <3>. QED
      BY <1>1, <2>1, <2>2, <3>1
  <2>3. CASE UNCHANGED records /\ since' = [since EXCEPT ![s] = FALSE]
    BY <1>1, <2>1, <2>3
  <2>. QED
    BY <2>2, <2>3
<1>5. \E new, lost \in Nat :
        /\ codes'[<<s, 0>>] = codes[<<s, 0>>] + new + lost
        /\ Due(s)' = Due(s) + new /\ lost <= forwarded'[s] - forwarded[s]
  <2>. WITNESS 1 \in Nat, 0 \in Nat
  <2>. QED
    BY <1>1, <1>2, <1>3, NumbersType
<1>6. \A x, y \in Nat : (x + 1) - x <= (y + 1) - y
  OBVIOUS
<1>7. Settles(s)
  <2>. HIDE DEF s
  <2>. QED
    BY <1>1, <1>2, <1>3, <1>4, <1>5, <1>6, NumbersType DEF Settles
<1>. QED
  BY <1>7

LEMMA SettlesStep ==
  ASSUME IInv, NEW s \in Http, Settles(s), UNCHANGED <<sorted, capture, changes>>,
         requests' \in [Tallies -> Nat], rows' \in [Services -> Nat],
         waiting' \in [Handlers -> Waiting \cup {Idle}],
         served' \in 0 .. MaxRequests, reply' \in Reply \cup {Idle}
  PROVE  IInv'
<1>1. TypeOK'
  BY DEF IInv, TypeOK, Settles
<1>. QED
  BY <1>1, SettlesKeeps DEF IInv

LEMMA ArrivesType ==
  ASSUME TypeOK, Arrives
  PROVE  served' \in 0 .. MaxRequests
BY ConstantsType DEF TypeOK, Arrives

LEMMA RepliedType ==
  ASSUME TypeOK, NEW r \in Requests, NEW e \in 0 .. Len(config[r.service]),
         NEW status \in {200, 204, 400, 404, 405, 410, 500, 0}, Replied(r, e, status)
  PROVE  reply' \in Reply
<1>1. e \in 0 .. MaxEndpoints
  <2>1. Len(config[r.service]) \in 0 .. MaxEndpoints /\ MaxEndpoints \in Nat
    BY ConstantsType, ConfigType
  <2>. QED
    BY <2>1
<1>. QED
  BY <1>1 DEF Replied, Reply

LEMMA IncreasedType ==
  ASSUME TypeOK, NEW r \in Requests, Increased(r)
  PROVE  requests' \in [Tallies -> Nat]
<1>1. requests \in [Tallies -> Nat] /\ r.service \in Services
  BY ConstantsType DEF TypeOK
<1>. QED
  BY <1>1, IncreaseFacts DEF Increased

LEMMA NothingElse ==
  ASSUME TypeOK
  PROVE  /\ requests \in [Tallies -> Nat] /\ rows \in [Services -> Nat]
         /\ waiting \in [Handlers -> Waiting \cup {Idle}] /\ reply \in Reply \cup {Idle}
BY DEF TypeOK

\* What an accepted request has in common.
LEMMA OutcomeFacts ==
  ASSUME IInv, NEW r \in Requests, NEW o, Outcome(r, o)
  PROVE  /\ TypeOK /\ r.service \in Http /\ served' \in 0 .. MaxRequests
         /\ Answering(r) \in 0 .. Len(config[r.service])
<1>1. TypeOK /\ r.service \in Http /\ Arrives /\ Accepting(r) # {}
  BY ConstantsType DEF IInv, Outcome
<1>2. Answering(r) \in 1 .. Len(config[r.service]) /\ Len(config[r.service]) \in Nat
  <2>1. Answering(r) \in 1 .. Len(config[r.service])
    BY <1>1, AnsweringIn
  <2>2. Len(config[r.service]) \in Nat
    BY <1>1, ConfigType, ConstantsType
  <2>. QED
    BY <2>1, <2>2
<1>3. Answering(r) \in 0 .. Len(config[r.service])
  BY <1>2
<1>. QED
  BY <1>1, <1>3, ArrivesType

\* A request that an endpoint accepts is counted for that endpoint.
LEMMA AcceptedKnown ==
  ASSUME IInv, NEW r \in Requests, NEW o, Outcome(r, o)
  PROVE  Known(r) /\ Answering(r) # None
<1>1. TypeOK /\ Known(r) /\ Accepting(r) # {}
  BY DEF IInv, Outcome
<1>2. Answering(r) \in 1 .. Len(config[r.service])
  BY <1>1, AnsweringIn
<1>. QED
  BY <1>1, <1>2 DEF None

(***************************************************************************)
(* The steps of the handlers.                                              *)
(***************************************************************************)
LEMMA GoneStep ==
  ASSUME IInv, NEW r \in Requests, Gone(r)
  PROVE  IInv'
<1>1. /\ TypeOK /\ r.service \in Http /\ served' \in 0 .. MaxRequests
      /\ Answering(r) \in 0 .. Len(config[r.service])
  BY OutcomeFacts DEF Gone
<1>2. Settles(r.service)
  <2>1. Counts(Answering(r), 410, IsOptions(r)) <=> Known(r) /\ ~IsOptions(r) /\ ~FALSE
    BY AcceptedKnown DEF Gone, Counts
  <2>. QED
    BY <1>1, <2>1, EndsSettles DEF Gone, Quiet
<1>3. reply' \in Reply
  BY <1>1, RepliedType DEF Gone
<1>. QED
  BY <1>1, <1>2, <1>3, SettlesStep, NothingElse DEF Gone, Quiet, unhandled

LEMMA NoRowStep ==
  ASSUME IInv, NEW r \in Requests, NoRow(r)
  PROVE  IInv'
<1>1. /\ TypeOK /\ r.service \in Http /\ served' \in 0 .. MaxRequests
      /\ Answering(r) \in 0 .. Len(config[r.service])
  BY OutcomeFacts DEF NoRow
<1>2. Blamed(r) \in 0 .. Len(config[r.service]) /\ (Blamed(r) # None <=> ~Silent(r))
  BY <1>1, BlamedIn
<1>3. Settles(r.service)
  <2>0. Known(r)
    BY DEF NoRow, Outcome
  <2>1. Counts(Blamed(r), 200, IsOptions(r)) <=> Known(r) /\ ~IsOptions(r) /\ ~Silent(r)
    BY <1>2, <2>0 DEF Counts
  <2>. QED
    BY <1>1, <1>2, <2>1, EndsSettles DEF NoRow, Quiet
<1>4. reply' \in Reply
  <2>1. Replied(r, Answering(r), 200)
    BY DEF NoRow
  <2>. QED
    BY <1>1, <2>1, RepliedType
<1>5. UNCHANGED <<sorted, capture, changes, requests, rows, waiting>>
  BY DEF NoRow, Quiet, unhandled
<1>6. /\ requests' \in [Tallies -> Nat] /\ rows' \in [Services -> Nat]
      /\ waiting' \in [Handlers -> Waiting \cup {Idle}]
  BY <1>1, <1>5, NothingElse
<1>. QED
  BY <1>1, <1>3, <1>4, <1>5, <1>6, SettlesStep

LEMMA UncountedStep ==
  ASSUME IInv, NEW r \in Requests, Uncounted(r)
  PROVE  IInv'
<1>1. /\ TypeOK /\ r.service \in Http /\ served' \in 0 .. MaxRequests
      /\ Answering(r) \in 0 .. Len(config[r.service])
  BY OutcomeFacts DEF Uncounted
<1>2. Settles(r.service)
  <2>1. Counts(Answering(r), 500, IsOptions(r)) <=> Known(r) /\ ~IsOptions(r) /\ ~TRUE
    BY DEF Counts
  <2>. QED
    BY <1>1, <2>1, EndsSettles DEF Uncounted, Quiet
<1>3. reply' \in Reply
  BY <1>1, RepliedType DEF Uncounted
<1>. QED
  BY <1>1, <1>2, <1>3, SettlesStep, NothingElse DEF Uncounted, Quiet, unhandled

LEMMA AnswerStep ==
  ASSUME IInv, NEW r \in Requests, Answer(r)
  PROVE  IInv'
<1>1. PICK o \in Answers :
        /\ Outcome(r, o) /\ Increased(r)
        /\ Ends(r.service, Answering(r), StatusOf(o), IsOptions(r))
        /\ Ended(r, FALSE, StatusOf(o) = 500)
        /\ Replied(r, Answering(r), StatusOf(o))
        /\ UNCHANGED since /\ Quiet
  BY DEF Answer
<1>2. /\ TypeOK /\ r.service \in Http /\ served' \in 0 .. MaxRequests
      /\ Answering(r) \in 0 .. Len(config[r.service])
  BY <1>1, OutcomeFacts
<1>3. StatusOf(o) \in {200, 405, 500}
  BY DEF Answers, StatusOf
<1>4. Settles(r.service)
  <2>. DEFINE over == StatusOf(o) = 500
  <2>1. Counts(Answering(r), StatusOf(o), IsOptions(r)) <=> Known(r) /\ ~IsOptions(r) /\ ~over
    BY <1>1, AcceptedKnown DEF Counts
  <2>2. Ended(r, FALSE, over)
    BY <1>1
  <2>3. UNCHANGED <<config, known, size, logging, failed, forwarded, since>>
    BY <1>1 DEF Quiet
  <2>. HIDE DEF over
  <2>. QED
    BY <1>1, <1>2, <2>1, <2>2, <2>3, EndsSettles
<1>5. reply' \in Reply
  BY <1>1, <1>2, <1>3, RepliedType
<1>6. requests' \in [Tallies -> Nat]
  BY <1>1, <1>2, IncreasedType
<1>. QED
  BY <1>1, <1>2, <1>4, <1>5, <1>6, SettlesStep, NothingElse DEF Quiet, unhandled

LEMMA CloseStep ==
  ASSUME IInv, NEW r \in Requests, Close(r) \/ Reset(r)
  PROVE  IInv'
<1>1. /\ TypeOK /\ r.service \in Http /\ served' \in 0 .. MaxRequests
      /\ Answering(r) \in 0 .. Len(config[r.service])
  BY OutcomeFacts DEF Close, Reset
<1>2. Settles(r.service)
  BY <1>1, ClosedSettles DEF Close, Reset, Quiet
<1>3. reply' \in Reply
  <2>1. Replied(r, Answering(r), 200) \/ Replied(r, Answering(r), 0)
    BY DEF Close, Reset
  <2>. QED
    BY <1>1, <2>1, RepliedType
<1>4. requests' \in [Tallies -> Nat]
  BY <1>1, IncreasedType DEF Close, Reset
<1>. QED
  BY <1>1, <1>2, <1>3, <1>4, SettlesStep, NothingElse DEF Close, Reset, Quiet, unhandled

LEMMA CorsStep ==
  ASSUME IInv, NEW r \in Requests, Cors(r)
  PROVE  IInv'
<1>1. TypeOK /\ r.service \in Http /\ served' \in 0 .. MaxRequests
  BY ConstantsType, ArrivesType DEF IInv, Cors
<1>2. Settles(r.service)
  <2>1. Counts(None, 204, TRUE) <=> Known(r) /\ ~IsOptions(r) /\ ~FALSE
    BY DEF Counts, Cors
  <2>2. None \in 0 .. Len(config[r.service])
    BY <1>1, ConfigType, ConstantsType DEF None
  <2>. QED
    BY <1>1, <2>1, <2>2, EndsSettles DEF Cors, Quiet
<1>3. reply' \in Reply
  <2>1. None \in 0 .. Len(config[r.service])
    BY <1>1, ConfigType, ConstantsType DEF None
  <2>. QED
    BY <1>1, <2>1, RepliedType DEF Cors
<1>. QED
  BY <1>1, <1>2, <1>3, SettlesStep, NothingElse DEF Cors, Quiet, unhandled

LEMMA InsertType ==
  ASSUME TypeOK, NEW s \in Services, NEW r, NEW on, Insert(s, r, on)
  PROVE  rows' \in [Services -> Nat]
BY DEF TypeOK, Insert

LEMMA RefuseStep ==
  ASSUME IInv, NEW r \in Requests, Refuse(r)
  PROVE  IInv'
<1>1. /\ TypeOK /\ r.service \in Http /\ r.service \in Services
      /\ served' \in 0 .. MaxRequests
  BY ConstantsType, ArrivesType DEF IInv, Refuse
<1>2. Culprit(r) \in 0 .. Len(config[r.service]) /\ None \in 0 .. Len(config[r.service])
  BY <1>1, BlamedIn, ConfigType, ConstantsType DEF None
<1>3. Settles(r.service)
  <2>. DEFINE skipped == IsOptions(r) \/ ~Known(r)
              over == Refusal(r) = 400 /\ Silent(r)
  <2>1. Counts(Culprit(r), Refusal(r), skipped) <=> Known(r) /\ ~IsOptions(r) /\ ~over
    BY <1>1, BlamedIn DEF Counts, Culprit, Refusal, None
  <2>2. Ends(r.service, Culprit(r), Refusal(r), skipped) /\ Ended(r, FALSE, over)
    BY DEF Refuse
  <2>3. UNCHANGED <<config, known, size, logging, failed, forwarded, since>>
    BY DEF Refuse
  <2>. HIDE DEF skipped, over
  <2>. QED
    BY <1>1, <1>2, <2>1, <2>2, <2>3, EndsSettles
<1>4. Refusal(r) \in {400, 404, 405}
  BY DEF Refusal
<1>5. reply' \in Reply
  BY <1>1, <1>2, <1>4, RepliedType DEF Refuse
<1>6. rows' \in [Services -> Nat]
  BY <1>1, InsertType DEF Refuse
<1>7. UNCHANGED <<sorted, capture, changes, requests, waiting>>
  BY DEF Refuse
<1>. QED
  BY <1>1, <1>3, <1>5, <1>6, <1>7, SettlesStep, NothingElse

LEMMA ForwardStep ==
  ASSUME IInv, NEW r \in Requests, Forward(r)
  PROVE  IInv'
<1>1. TypeOK /\ r.service \in Services /\ served' \in 0 .. MaxRequests
  BY ConstantsType, ArrivesType DEF IInv, Forward
<1>2. PICK h \in Handlers :
        waiting' = [waiting EXCEPT ![h] =
          [request |-> r, endpoint |-> Culprit(r), capture |-> capture[r.service],
           skipped |-> IsOptions(r) \/ ~Known(r)]]
  BY DEF Forward
<1>3. Culprit(r) \in 0 .. MaxEndpoints
  <2>1. Culprit(r) \in 0 .. Len(config[r.service])
    BY <1>1, BlamedIn
  <2>2. Len(config[r.service]) \in 0 .. MaxEndpoints /\ MaxEndpoints \in Nat
    BY <1>1, ConfigType, ConstantsType
  <2>. QED
    BY <2>1, <2>2
<1>4. capture[r.service] \in BOOLEAN /\ (IsOptions(r) \/ ~Known(r)) \in BOOLEAN
  BY <1>1 DEF TypeOK
<1>5. waiting' \in [Handlers -> Waiting \cup {Idle}]
  <2>1. waiting'[h] \in Waiting
    BY <1>1, <1>2, <1>3, <1>4 DEF TypeOK, Waiting
  <2>. QED
    BY <1>1, <1>2, <2>1 DEF TypeOK
<1>6. /\ UNCHANGED <<config, sorted, known, size, requests, codes, logging, records>>
      /\ UNCHANGED <<capture, rows, changes, failed, reply, ended, missed, forwarded, since>>
  BY DEF Forward, stats, logs, unhandled, ghosts
<1>7. TypeOK'
  BY <1>1, <1>5, <1>6 DEF TypeOK
<1>. QED
  BY <1>6, <1>7 DEF IInv, StatsMatchRoutes, AnsweredCounted, LogInv

LEMMA ForwardEndsStep ==
  ASSUME IInv, NEW h \in Handlers, NEW answered, ForwardEnds(h, answered)
  PROVE  IInv'
<1>. DEFINE w == waiting[h]
            s == w.request.service
<1>1. TypeOK /\ w \in Waiting
  BY DEF IInv, TypeOK, ForwardEnds
<1>2. w.request \in Requests /\ s \in Http /\ s \in Services
  BY <1>1, ConstantsType DEF Waiting
<1>3. PICK status : Ends(s, w.endpoint, status, w.skipped)
  BY DEF ForwardEnds
<1>4. /\ forwarded' = [forwarded EXCEPT ![s] = @ + 1]
      /\ waiting' = [waiting EXCEPT ![h] = Idle]
      /\ Insert(s, w.request, answered /\ w.capture)
      /\ UNCHANGED <<config, sorted, known, size, requests, logging, capture, served,
                     changes, failed, reply, ended, missed, since>>
  BY DEF ForwardEnds
<1>. HIDE DEF s, w
<1>5. Settles(s)
  BY <1>2, <1>3, <1>4, ForwardedSettles
<1>6. rows' \in [Services -> Nat] /\ waiting' \in [Handlers -> Waiting \cup {Idle}]
      /\ served' \in 0 .. MaxRequests
  BY <1>1, <1>2, <1>4, InsertType DEF TypeOK
<1>. QED
  BY <1>1, <1>2, <1>4, <1>5, <1>6, SettlesStep, NothingElse

(***************************************************************************)
(* The steps of the management API.                                        *)
(***************************************************************************)
\* What resets the statistics of the services S, the others' left alone.
LEMMA ResetFacts ==
  ASSUME IInv, NEW S \in SUBSET Services, NotCounted(S),
         codes' \in [Tallies -> Nat], UNCHANGED <<logging, records>>,
         \A s \in Services : codes'[<<s, 0>>] = IF s \in S THEN 0 ELSE codes[<<s, 0>>]
  PROVE  /\ ended' \in [Services -> Nat] /\ missed' \in [Services -> Nat] /\ forwarded' \in [Services -> Nat]
         /\ since' \in [Services -> BOOLEAN]
         /\ \A s \in S : codes'[<<s, 0>>] - (ended'[s] - missed'[s]) \in 0 .. forwarded'[s]
         /\ \A s \in Services \ S : /\ codes'[<<s, 0>>] = codes[<<s, 0>>]
                                    /\ ended'[s] = ended[s] /\ missed'[s] = missed[s]
                                    /\ forwarded'[s] = forwarded[s]
         /\ LogInv'
<1>1. TypeOK /\ LogInv
  BY DEF IInv
<1>2. /\ ended' = [s \in Services |-> IF s \in S THEN 0 ELSE ended[s]]
      /\ missed' = [s \in Services |-> IF s \in S THEN 0 ELSE missed[s]]
      /\ forwarded' = [s \in Services |-> IF s \in S THEN 0 ELSE forwarded[s]]
      /\ since' = [s \in Services |-> IF s \in S THEN logging[s] ELSE since[s]]
  BY DEF NotCounted
<1>3. /\ ended' \in [Services -> Nat] /\ missed' \in [Services -> Nat] /\ forwarded' \in [Services -> Nat]
      /\ since' \in [Services -> BOOLEAN]
  BY <1>1, <1>2, NumbersType
<1>4. \A s \in S : codes'[<<s, 0>>] - (ended'[s] - missed'[s]) \in 0 .. forwarded'[s]
  <2>1. TAKE s \in S
  <2>2. s \in Services
    OBVIOUS
  <2>3. codes'[<<s, 0>>] = 0 /\ ended'[s] = 0 /\ missed'[s] = 0 /\ forwarded'[s] = 0
    BY <1>2, <2>2
  <2>. QED
    BY <2>3
<1>5. LogInv'
  <2>. SUFFICES ASSUME NEW s \in Services, since'[s]
                PROVE  logging'[s] /\ codes'[<<s, 0>>] <= records'[s]
    BY DEF LogInv
  <2>1. CASE s \in S
    BY <1>1, <1>2, <2>1, NumbersType
  <2>2. CASE s \notin S
    BY <1>1, <1>2, <2>2 DEF LogInv
  <2>. QED
    BY <2>1, <2>2
<1>. QED
  BY <1>2, <1>3, <1>4, <1>5

LEMMA ChangesType ==
  ASSUME TypeOK, Changes
  PROVE  changes' \in 0 .. MaxChanges
BY ConstantsType DEF TypeOK, Changes

LEMMA ResetStatsStep ==
  ASSUME IInv, ResetStats
  PROVE  IInv'
<1>1. /\ TypeOK /\ StatsMatchRoutes /\ Http \subseteq Services
      /\ changes' \in 0 .. MaxChanges
  BY ConstantsType, ChangesType DEF IInv, TypeOK, ResetStats
<1>2. /\ requests' = Zero /\ codes' = Zero /\ NotCounted(Services)
      /\ UNCHANGED <<config, sorted, known, size, logging, records, capture, rows>>
      /\ UNCHANGED <<waiting, served, failed, reply>>
  BY DEF ResetStats, logs, unhandled
<1>3. Zero \in [Tallies -> Nat] /\ \A s \in Services : codes'[<<s, 0>>] = 0
  <2>1. Zero \in [Tallies -> Nat]
    BY DEF Zero
  <2>2. \A s \in Services : <<s, 0>> \in Tallies
    BY ConstantsType DEF Tallies, Services
  <2>. QED
    BY <1>2, <2>1, <2>2 DEF Zero
<1>4. /\ ended' \in [Services -> Nat] /\ missed' \in [Services -> Nat] /\ forwarded' \in [Services -> Nat]
      /\ since' \in [Services -> BOOLEAN] /\ LogInv'
      /\ \A s \in Services : codes'[<<s, 0>>] - (ended'[s] - missed'[s]) \in 0 .. forwarded'[s]
  BY <1>2, <1>3, ResetFacts
<1>5. TypeOK'
  BY <1>1, <1>2, <1>3, <1>4 DEF TypeOK
<1>6. StatsMatchRoutes' /\ AnsweredCounted'
  BY <1>1, <1>2, <1>4 DEF StatsMatchRoutes, AnsweredCounted
<1>. QED
  BY <1>4, <1>5, <1>6 DEF IInv

LEMMA ResetServiceStatsStep ==
  ASSUME IInv, NEW s \in Http, ResetServiceStats(s)
  PROVE  IInv'
<1>1. /\ TypeOK /\ StatsMatchRoutes /\ AnsweredCounted /\ Http \subseteq Services
      /\ codes \in [Tallies -> Nat] /\ requests \in [Tallies -> Nat]
      /\ changes' \in 0 .. MaxChanges
  BY ConstantsType, ChangesType DEF IInv, TypeOK, ResetServiceStats
<1>2. /\ requests' = ZeroOf(requests, s) /\ codes' = ZeroOf(codes, s) /\ NotCounted({s})
      /\ UNCHANGED <<config, sorted, known, size, logging, records, capture, rows>>
      /\ UNCHANGED <<waiting, served, failed, reply>>
  BY DEF ResetServiceStats, logs, unhandled
<1>3. /\ codes' \in [Tallies -> Nat] /\ requests' \in [Tallies -> Nat]
      /\ \A q \in Services : codes'[<<q, 0>>] = IF q \in {s} THEN 0 ELSE codes[<<q, 0>>]
  BY <1>1, <1>2, ZeroFacts
<1>4. /\ ended' \in [Services -> Nat] /\ missed' \in [Services -> Nat] /\ forwarded' \in [Services -> Nat]
      /\ since' \in [Services -> BOOLEAN] /\ LogInv'
      /\ codes'[<<s, 0>>] - (ended'[s] - missed'[s]) \in 0 .. forwarded'[s]
      /\ \A q \in Services \ {s} : /\ codes'[<<q, 0>>] = codes[<<q, 0>>]
                                   /\ ended'[q] = ended[q] /\ missed'[q] = missed[q]
                                   /\ forwarded'[q] = forwarded[q]
  <2>1. {s} \in SUBSET Services
    BY <1>1
  <2>. QED
    BY <1>2, <1>3, <2>1, ResetFacts
<1>5. TypeOK'
  BY <1>1, <1>2, <1>3, <1>4 DEF TypeOK
<1>6. StatsMatchRoutes' /\ AnsweredCounted'
  BY <1>1, <1>2, <1>4 DEF StatsMatchRoutes, AnsweredCounted
<1>. QED
  BY <1>4, <1>5, <1>6 DEF IInv

LEMMA ConfigureStep ==
  ASSUME IInv, NEW c \in Configs, Configure(c)
  PROVE  IInv'
<1>1. TypeOK /\ Http \subseteq Services /\ changes' \in 0 .. MaxChanges
  BY ConstantsType, ChangesType DEF IInv, Configure
<1>2. /\ config' = c /\ sorted' = [s \in Http |-> FALSE]
      /\ known' = N /\ size' = SizeOf(c) /\ requests' = Zero /\ codes' = Zero
      /\ NotCounted(Services) /\ failed' = FALSE /\ reply' = Idle
      /\ UNCHANGED <<logging, records, capture, rows, waiting, served>>
  BY DEF Configure, logs, unhandled
<1>3. Zero \in [Tallies -> Nat] /\ \A s \in Services : codes'[<<s, 0>>] = 0
  <2>1. Zero \in [Tallies -> Nat]
    BY DEF Zero
  <2>2. \A s \in Services : <<s, 0>> \in Tallies
    BY ConstantsType DEF Tallies, Services
  <2>. QED
    BY <1>2, <2>1, <2>2 DEF Zero
<1>4. /\ ended' \in [Services -> Nat] /\ missed' \in [Services -> Nat] /\ forwarded' \in [Services -> Nat]
      /\ since' \in [Services -> BOOLEAN] /\ LogInv'
      /\ \A s \in Services : codes'[<<s, 0>>] - (ended'[s] - missed'[s]) \in 0 .. forwarded'[s]
  BY <1>2, <1>3, ResetFacts
<1>5. /\ DOMAIN c = Http /\ \A s \in Http : Len(c[s]) \in 0 .. MaxEndpoints
      /\ N \in 0 .. N /\ 0 \in 0 .. MaxEndpoints
  BY ConstantsType
<1>6. /\ size' \in [Services -> 0 .. MaxEndpoints]
      /\ \A s \in Http : size'[s] = Len(config'[s])
  BY <1>1, <1>2, <1>5 DEF SizeOf
<1>7. TypeOK'
  <2>1. DOMAIN config' = Http /\ \A s \in Http : config'[s] \in {d[s] : d \in Configs}
    BY <1>2, <1>5
  <2>2. sorted' \in [Http -> BOOLEAN]
    BY <1>2
  <2>. QED
    BY <1>1, <1>2, <1>3, <1>4, <1>5, <1>6, <2>1, <2>2 DEF TypeOK
<1>8. StatsMatchRoutes' /\ AnsweredCounted'
  BY <1>1, <1>2, <1>4, <1>6 DEF StatsMatchRoutes, AnsweredCounted
<1>. QED
  BY <1>4, <1>7, <1>8 DEF IInv

LEMMA FailConfigureStep ==
  ASSUME IInv, NEW k \in 0 .. N, FailConfigure(k)
  PROVE  IInv'
<1>1. /\ TypeOK /\ codes \in [Tallies -> Nat] /\ requests \in [Tallies -> Nat]
      /\ changes' \in 0 .. MaxChanges
  BY ChangesType DEF IInv, TypeOK, FailConfigure
<1>2. /\ known' = k /\ size' = NoneYet
      /\ requests' = OfStats(requests) /\ codes' = OfStats(codes)
      /\ NotCounted(Services) /\ failed' = TRUE
      /\ UNCHANGED <<config, sorted, logging, records, capture, rows>>
      /\ UNCHANGED <<waiting, served, reply>>
  BY DEF FailConfigure, logs, unhandled
<1>3. \A s \in Services : <<s, 0>> \in Tallies /\ <<s, 0>> \notin Globals
  BY ConstantsType DEF Tallies, Services, Globals
<1>4. /\ requests' \in [Tallies -> Nat] /\ codes' \in [Tallies -> Nat]
      /\ \A s \in Services : codes'[<<s, 0>>] = 0
  BY <1>1, <1>2, <1>3 DEF OfStats
<1>5. /\ ended' \in [Services -> Nat] /\ missed' \in [Services -> Nat] /\ forwarded' \in [Services -> Nat]
      /\ since' \in [Services -> BOOLEAN] /\ LogInv'
  BY <1>2, <1>4, ResetFacts
<1>6. size' \in [Services -> 0 .. MaxEndpoints]
  <2>1. 0 \in 0 .. MaxEndpoints
    BY ConstantsType
  <2>. QED
    BY <1>2, <2>1 DEF NoneYet
<1>7. TypeOK'
  BY <1>1, <1>2, <1>4, <1>5, <1>6 DEF TypeOK
<1>. QED
  BY <1>2, <1>5, <1>7 DEF IInv, StatsMatchRoutes, AnsweredCounted

LEMMA ConfigureServiceStep ==
  ASSUME IInv, NEW c \in Configs, NEW s \in Http, ConfigureService(s, c[s])
  PROVE  IInv'
<1>1. /\ TypeOK /\ StatsMatchRoutes /\ AnsweredCounted /\ Http \subseteq Services
      /\ codes \in [Tallies -> Nat] /\ requests \in [Tallies -> Nat]
      /\ changes' \in 0 .. MaxChanges
  BY ConstantsType, ChangesType DEF IInv, TypeOK, ConfigureService
<1>2. /\ config' = [config EXCEPT ![s] = c[s]] /\ sorted' = [sorted EXCEPT ![s] = FALSE]
      /\ size' = [size EXCEPT ![s] = Len(c[s])]
      /\ requests' = ZeroOf(requests, s) /\ codes' = ZeroOf(codes, s) /\ NotCounted({s})
      /\ reply' = Idle
      /\ UNCHANGED <<known, logging, records, capture, rows, waiting, served, failed>>
  BY DEF ConfigureService, NewEndpoints, logs, unhandled
<1>3. /\ codes' \in [Tallies -> Nat] /\ requests' \in [Tallies -> Nat]
      /\ \A q \in Services : codes'[<<q, 0>>] = IF q \in {s} THEN 0 ELSE codes[<<q, 0>>]
  BY <1>1, <1>2, ZeroFacts
<1>4. /\ ended' \in [Services -> Nat] /\ missed' \in [Services -> Nat] /\ forwarded' \in [Services -> Nat]
      /\ since' \in [Services -> BOOLEAN] /\ LogInv'
      /\ codes'[<<s, 0>>] - (ended'[s] - missed'[s]) \in 0 .. forwarded'[s]
      /\ \A q \in Services \ {s} : /\ codes'[<<q, 0>>] = codes[<<q, 0>>]
                                   /\ ended'[q] = ended[q] /\ missed'[q] = missed[q]
                                   /\ forwarded'[q] = forwarded[q]
  <2>1. {s} \in SUBSET Services
    BY <1>1
  <2>. QED
    BY <1>2, <1>3, <2>1, ResetFacts
<1>5. /\ DOMAIN config' = Http /\ config'[s] = c[s]
      /\ \A q \in Http \ {s} : config'[q] = config[q]
  BY <1>1, <1>2 DEF TypeOK
<1>6. /\ size' \in [Services -> 0 .. MaxEndpoints] /\ size'[s] = Len(c[s])
      /\ \A q \in Services \ {s} : size'[q] = size[q]
  <2>1. Len(c[s]) \in 0 .. MaxEndpoints
    BY ConstantsType
  <2>. QED
    BY <1>1, <1>2, <2>1 DEF TypeOK
<1>7. TypeOK'
  <2>1. \A q \in Http : config'[q] \in {d[q] : d \in Configs}
    BY <1>1, <1>5 DEF TypeOK
  <2>2. sorted' \in [Http -> BOOLEAN]
    BY <1>1, <1>2 DEF TypeOK
  <2>. QED
    BY <1>1, <1>2, <1>3, <1>4, <1>5, <1>6, <2>1, <2>2 DEF TypeOK
<1>8. StatsMatchRoutes'
  BY <1>1, <1>2, <1>5, <1>6 DEF StatsMatchRoutes
<1>9. AnsweredCounted'
  BY <1>1, <1>2, <1>4 DEF AnsweredCounted
<1>. QED
  BY <1>4, <1>7, <1>8, <1>9 DEF IInv

\* The steps that change neither the statistics nor the routes.
LEMMA SetLoggingStep ==
  ASSUME IInv, NEW S \in Scopes, NEW on \in BOOLEAN, SetLogging(S, on)
  PROVE  IInv'
<1>1. TypeOK /\ LogInv /\ changes' \in 0 .. MaxChanges
  BY ChangesType DEF IInv, SetLogging
<1>2. /\ logging' = [s \in Services |-> IF s \in S THEN on ELSE logging[s]]
      /\ since' = [s \in Services |->
           IF s \in S THEN on /\ (since[s] \/ codes[<<s, 0>>] = 0) ELSE since[s]]
      /\ UNCHANGED <<config, sorted, known, size, requests, codes, records, capture, rows>>
      /\ UNCHANGED <<waiting, served, failed, reply, ended, missed, forwarded>>
  BY DEF SetLogging, stats, unhandled
<1>3. logging' \in [Services -> BOOLEAN] /\ since' \in [Services -> BOOLEAN]
  BY <1>1, <1>2, NumbersType
<1>4. LogInv'
  <2>. SUFFICES ASSUME NEW s \in Services, since'[s]
                PROVE  logging'[s] /\ codes'[<<s, 0>>] <= records'[s]
    BY DEF LogInv
  <2>1. CASE s \in S
    <3>1. logging'[s] /\ (since[s] \/ codes[<<s, 0>>] = 0)
      BY <1>2, <2>1
    <3>. QED
      BY <1>1, <1>2, <3>1, NumbersType DEF LogInv
  <2>2. CASE s \notin S
    BY <1>1, <1>2, <2>2 DEF LogInv
  <2>. QED
    BY <2>1, <2>2
<1>5. TypeOK'
  BY <1>1, <1>2, <1>3 DEF TypeOK
<1>. QED
  BY <1>2, <1>4, <1>5 DEF IInv, StatsMatchRoutes, AnsweredCounted

LEMMA ResetLogsStep ==
  ASSUME IInv, NEW S \in Scopes, ResetLogs(S)
  PROVE  IInv'
<1>1. TypeOK /\ LogInv /\ changes' \in 0 .. MaxChanges
  BY ChangesType DEF IInv, ResetLogs
<1>2. /\ records' = [s \in Services |-> IF s \in S THEN 0 ELSE records[s]]
      /\ since' = [s \in Services |-> since[s] /\ (s \in S => codes[<<s, 0>>] = 0)]
      /\ UNCHANGED <<config, sorted, known, size, requests, codes, logging, capture, rows>>
      /\ UNCHANGED <<waiting, served, failed, reply, ended, missed, forwarded>>
  BY DEF ResetLogs, stats, unhandled
<1>3. records' \in [Services -> Nat] /\ since' \in [Services -> BOOLEAN]
  BY <1>1, <1>2, NumbersType
<1>4. LogInv'
  <2>. SUFFICES ASSUME NEW s \in Services, since'[s]
                PROVE  logging'[s] /\ codes'[<<s, 0>>] <= records'[s]
    BY DEF LogInv
  <2>1. since[s] /\ (s \in S => codes[<<s, 0>>] = 0)
    BY <1>2
  <2>. QED
    BY <1>1, <1>2, <2>1 DEF LogInv
<1>5. TypeOK'
  BY <1>1, <1>2, <1>3 DEF TypeOK
<1>. QED
  BY <1>2, <1>4, <1>5 DEF IInv, StatsMatchRoutes, AnsweredCounted

LEMMA UnhandledStep ==
  ASSUME IInv, NEW S \in Scopes, NEW on \in BOOLEAN, SetCapture(S, on) \/ ClearUnhandled(S)
  PROVE  IInv'
<1>1. TypeOK /\ changes' \in 0 .. MaxChanges
  BY ChangesType DEF IInv, SetCapture, ClearUnhandled
<1>2. /\ UNCHANGED <<config, sorted, known, size, requests, codes, logging, records>>
      /\ UNCHANGED <<waiting, served, failed, reply, ended, missed, forwarded, since>>
  BY DEF SetCapture, ClearUnhandled, stats, logs, ghosts
<1>3. capture' \in [Services -> BOOLEAN] /\ rows' \in [Services -> Nat]
  BY <1>1 DEF SetCapture, ClearUnhandled, TypeOK
<1>4. TypeOK'
  BY <1>1, <1>2, <1>3 DEF TypeOK
<1>. QED
  BY <1>2, <1>4 DEF IInv, StatsMatchRoutes, AnsweredCounted, LogInv

(***************************************************************************)
(* The theorems.                                                           *)
(***************************************************************************)
LEMMA InitIInv == Init => IInv
<1>. SUFFICES ASSUME Init PROVE IInv
  OBVIOUS
<1>1. /\ DOMAIN config = Http /\ \A s \in Http : Len(config[s]) \in 0 .. MaxEndpoints
      /\ N \in Nat /\ MaxEndpoints \in Nat /\ MaxRequests \in Nat /\ MaxChanges \in Nat
      /\ Http \subseteq Services
  BY ConstantsType DEF Init
<1>2. /\ size \in [Services -> 0 .. MaxEndpoints] /\ \A s \in Http : size[s] = Len(config[s])
  <2>1. 0 \in 0 .. MaxEndpoints
    BY <1>1
  <2>. QED
    BY <1>1, <2>1 DEF Init, SizeOf
<1>3. Zero \in [Tallies -> Nat] /\ \A s \in Services : <<s, 0>> \in Tallies
  BY ConstantsType DEF Zero, Tallies, Services
<1>4. \A s \in Services : codes[<<s, 0>>] = 0 /\ ended[s] = 0 /\ missed[s] = 0 /\ forwarded[s] = 0
  BY <1>3 DEF Init, Zero, NoneYet
<1>5. TypeOK
  <2>1. \A s \in Http : config[s] \in {c[s] : c \in Configs}
    BY DEF Init
  <2>2. /\ N \in 0 .. N /\ 0 \in 0 .. MaxRequests /\ 0 \in 0 .. MaxChanges
        /\ NoneYet \in [Services -> Nat]
    BY <1>1 DEF NoneYet
  <2>3. /\ requests \in [Tallies -> Nat] /\ codes \in [Tallies -> Nat]
        /\ records \in [Services -> Nat] /\ rows \in [Services -> Nat]
        /\ ended \in [Services -> Nat] /\ missed \in [Services -> Nat]
        /\ forwarded \in [Services -> Nat]
    BY <1>3, <2>2 DEF Init
  <2>4. /\ sorted \in [Http -> BOOLEAN] /\ logging \in [Services -> BOOLEAN]
        /\ capture \in [Services -> BOOLEAN] /\ since \in [Services -> BOOLEAN]
        /\ waiting \in [Handlers -> Waiting \cup {Idle}]
    BY DEF Init
  <2>5. /\ known \in 0 .. N /\ served \in 0 .. MaxRequests /\ changes \in 0 .. MaxChanges
        /\ failed \in BOOLEAN /\ reply \in Reply \cup {Idle}
    BY <2>2 DEF Init
  <2>. QED
    BY <1>1, <1>2, <2>1, <2>3, <2>4, <2>5 DEF TypeOK
<1>6. StatsMatchRoutes
  BY <1>2 DEF Init, StatsMatchRoutes
<1>7. AnsweredCounted
  <2>1. \A s \in Services : codes[<<s, 0>>] - (ended[s] - missed[s]) \in 0 .. forwarded[s]
    <3>1. TAKE s \in Services
    <3>2. codes[<<s, 0>>] = 0 /\ ended[s] = 0 /\ missed[s] = 0 /\ forwarded[s] = 0
      BY <1>4
    <3>. QED
      BY <3>2
  <2>. QED
    BY <1>1, <2>1 DEF AnsweredCounted
<1>8. LogInv
  BY DEF Init, LogInv
<1>. QED
  BY <1>5, <1>6, <1>7, <1>8 DEF IInv

LEMMA NextIInv == IInv /\ [Next]_vars => IInv'
<1>. SUFFICES ASSUME IInv, [Next]_vars PROVE IInv'
  OBVIOUS
<1>1. CASE UNCHANGED vars
  BY <1>1 DEF vars, stats, logs, unhandled, ghosts, IInv, TypeOK, StatsMatchRoutes,
              AnsweredCounted, LogInv
<1>2. ASSUME NEW r \in Requests, Handle(r) PROVE IInv'
  BY <1>2, GoneStep, NoRowStep, UncountedStep, AnswerStep, CloseStep, CorsStep, RefuseStep,
     ForwardStep DEF Handle
<1>3. ASSUME NEW h \in Handlers, Forwarded(h) \/ ForwardFails(h) PROVE IInv'
  BY <1>3, ForwardEndsStep DEF Forwarded, ForwardFails
<1>4. CASE Manage
  BY <1>4, ResetStatsStep, ResetServiceStatsStep, SetLoggingStep, ResetLogsStep,
     UnhandledStep, ConfigureStep, ConfigureServiceStep, FailConfigureStep DEF Manage
<1>. QED
  BY <1>1, <1>2, <1>3, <1>4 DEF Next

LEMMA Invariance == Spec => []IInv
BY InitIInv, NextIInv, PTL DEF Spec

\* The variables keep their types: an answer comes from an endpoint that the
\* service has room for, whatever was configured while requests waited.
THEOREM TypeCorrect == Spec => []TypeOK
<1>1. IInv => TypeOK
  BY DEF IInv
<1>. QED
  BY <1>1, Invariance, PTL

\* Unless the last POST /config failed half-way, the statistics have the
\* endpoints of the routes (StatsMatchRoutes).
THEOREM StatsMatch == Spec => []StatsMatchRoutes
<1>1. IInv => StatsMatchRoutes
  BY DEF IInv
<1>. QED
  BY <1>1, Invariance, PTL

\* Of the requests that end each is counted exactly once, except for those that
\* are answered 500 or have nothing but silent conditions fail before a 400 or an
\* empty row; a forwarded one is counted at most once (AnsweredCounted).
THEOREM EachCounted == Spec => []AnsweredCounted
<1>1. IInv => AnsweredCounted
  BY DEF IInv
<1>. QED
  BY <1>1, Invariance, PTL

\* What the statistics count since the log was enabled, the log has.
THEOREM LogCovers == Spec => []LogsCoverStats
<1>1. IInv => LogsCoverStats
  BY ConstantsType DEF IInv, LogInv, LogsCoverStats
<1>. QED
  BY <1>1, Invariance, PTL
-----------------------------------------------------------------------------
(***************************************************************************)
(* The route of a request.  Before is a preorder that every set of paths   *)
(* in use has a first element of: the lowest priority as long as the       *)
(* routes are sorted, and the earliest endpoint among those of it.         *)
(***************************************************************************)
LEMMA FittingIn ==
  ASSUME TypeOK, NEW r \in Requests
  PROVE  /\ r.service \in Http /\ DOMAIN config[r.service] \subseteq Nat
         /\ \A p \in Fitting(r) : /\ p \in DOMAIN Paths /\ r.url \in Paths[p].urls
                                  /\ \E i \in DOMAIN config[r.service] : config[r.service][i].path = p
         /\ \A i \in DOMAIN config[r.service] :
              Fits(r.service, i, r) <=> config[r.service][i].path \in Fitting(r)
<1>1. r.service \in Http
  BY ConstantsType
<1>2. PICK c \in Configs : config[r.service] = c[r.service]
  BY <1>1 DEF TypeOK
<1>3. \A i \in DOMAIN config[r.service] : config[r.service][i].path \in DOMAIN Paths
  BY <1>1, <1>2, ServiceAssumption DEF ServiceAssumption
<1>4. DOMAIN config[r.service] \subseteq Nat
  BY <1>1, ConfigType
<1>5. \A p \in Fitting(r) : \E i \in DOMAIN config[r.service] :
        Fits(r.service, i, r) /\ config[r.service][i].path = p
  BY DEF Fitting
<1>6. \A p \in Fitting(r) : p \in DOMAIN Paths /\ r.url \in Paths[p].urls
  BY <1>3, <1>5 DEF Fits
<1>7. \A i \in DOMAIN config[r.service] :
        Fits(r.service, i, r) <=> config[r.service][i].path \in Fitting(r)
  <2>1. ASSUME NEW i \in DOMAIN config[r.service], Fits(r.service, i, r)
        PROVE  config[r.service][i].path \in Fitting(r)
    BY <2>1 DEF Fitting
  <2>2. ASSUME NEW i \in DOMAIN config[r.service], config[r.service][i].path \in Fitting(r)
        PROVE  Fits(r.service, i, r)
    BY <1>6, <2>2 DEF Fits
  <2>. QED
    BY <2>1, <2>2
<1>. QED
  BY <1>1, <1>4, <1>5, <1>6, <1>7

LEMMA FirstOfIn ==
  ASSUME NEW s, DOMAIN config[s] \subseteq Nat, NEW i \in DOMAIN config[s]
  PROVE  LET p == config[s][i].path
         IN  FirstOf(s, p) \in DOMAIN config[s] /\ config[s][FirstOf(s, p)].path = p
<1>. DEFINE p == config[s][i].path
            S == {j \in DOMAIN config[s] : config[s][j].path = p}
<1>1. S \subseteq Nat /\ S # {}
  OBVIOUS
<1>2. PICK x \in S : \A y \in S : x <= y
  <2>. HIDE DEF S
  <2>. QED
    BY <1>1, LeastExists
<1>. QED
  BY <1>2 DEF FirstOf

LEMMA RouteIn ==
  ASSUME TypeOK, NEW r \in Requests, Known(r)
  PROVE  /\ Route(r) \in Fitting(r)
         /\ \A q \in Fitting(r) : Before(r.service, Route(r), q)
<1>. DEFINE s == r.service
<1>1. /\ s \in Http /\ DOMAIN config[s] \subseteq Nat /\ Fitting(r) # {}
      /\ \A p \in Fitting(r) :
           /\ Paths[p].priority \in Nat /\ FirstOf(s, p) \in Nat
  <2>1. \A p \in Fitting(r) : p \in DOMAIN Paths /\ FirstOf(s, p) \in DOMAIN config[s]
    BY FittingIn, FirstOfIn
  <2>. QED
    BY <2>1, FittingIn, ServiceAssumption DEF ServiceAssumption, Known
<1>. HIDE DEF s
<1>2. \E p \in Fitting(r) : \A q \in Fitting(r) : Before(s, p, q)
  <2>. DEFINE levels == {Paths[p].priority : p \in Fitting(r)}
  <2>1. PICK top \in levels : \A l \in levels : top <= l
    <3>1. levels \subseteq Nat /\ levels # {}
      BY <1>1
    <3>. HIDE DEF levels
    <3>. QED
      BY <3>1, LeastExists
  <2>. DEFINE best == {p \in Fitting(r) : sorted[s] => Paths[p].priority = top}
              firsts == {FirstOf(s, p) : p \in best}
  <2>2. best # {}
    BY <2>1
  <2>3. PICK first \in firsts : \A i \in firsts : first <= i
    <3>1. firsts \subseteq Nat /\ firsts # {}
      BY <1>1, <2>2
    <3>. HIDE DEF firsts
    <3>. QED
      BY <3>1, LeastExists
  <2>4. PICK p \in best : first = FirstOf(s, p)
    BY <2>3
  <2>5. ASSUME NEW q \in Fitting(r) PROVE Before(s, p, q)
    <3>1. CASE q \in best
      <4>1. FirstOf(s, p) <= FirstOf(s, q)
        BY <2>3, <2>4, <3>1
      <4>2. sorted[s] => Paths[p].priority = Paths[q].priority
        BY <2>4, <3>1
      <4>. QED
        BY <4>1, <4>2 DEF Before
    <3>2. CASE q \notin best
      <4>1. sorted[s] /\ Paths[q].priority # top /\ Paths[p].priority = top
        BY <2>4, <3>2
      <4>2. top <= Paths[q].priority
        BY <2>1
      <4>3. top < Paths[q].priority
        BY <1>1, <4>1, <4>2
      <4>. QED
        BY <4>1, <4>3 DEF Before
    <3>. QED
      BY <3>1, <3>2
  <2>. QED
    BY <2>4, <2>5
<1>. QED
  BY <1>2 DEF Route, s

\* The endpoint that answers a request is the one that FirstMatch describes,
AnswersFirst(r, e) ==
  LET s == r.service
  IN /\ Fulfils(s, e, r)
     /\ \A i \in 1 .. e - 1 : config[s][i].path = config[s][e].path => ~Fulfils(s, i, r)
     /\ sorted[s] => \A i \in DOMAIN config[s] : Fits(s, i, r) => Priority(s, e) <= Priority(s, i)
Refuses(r) ==
  LET s == r.service
  IN \A i \in DOMAIN config[s] : Fulfils(s, i, r) =>
       \E j \in DOMAIN config[s] : Fits(s, j, r) /\ config[s][j].path # config[s][i].path

LEMMA AnswersRight ==
  ASSUME TypeOK, NEW r \in Requests, Known(r), Accepting(r) # {}
  PROVE  AnswersFirst(r, Answering(r)) /\ Answering(r) # None
<1>. DEFINE s == r.service
            e == Answering(r)
<1>1. /\ s \in Http /\ DOMAIN config[s] = 1 .. Len(config[s]) /\ Len(config[s]) \in Nat
      /\ e \in 1 .. Len(config[s])
  BY AnsweringIn, ConfigType, ConstantsType
<1>2. e \in Accepting(r) /\ \A i \in Accepting(r) : e <= i
  <2>1. Accepting(r) \subseteq 1 .. Len(config[s])
    BY <1>1 DEF Accepting, Alternatives, OnRoute
  <2>2. Accepting(r) \subseteq Nat
    BY <2>1
  <2>3. PICK x \in Accepting(r) : \A y \in Accepting(r) : x <= y
    BY <2>2, LeastExists
  <2>. QED
    BY <2>3 DEF Answering, Min
<1>3. /\ Route(r) \in Fitting(r) /\ \A q \in Fitting(r) : Before(s, Route(r), q)
  BY RouteIn
<1>4. config[s][e].path = Route(r) /\ Fulfils(s, e, r)
  <2>1. /\ e \in DOMAIN config[s] /\ config[s][e].path = Route(r)
        /\ config[s][e].method = r.method /\ r.content \in config[s][e].accepts
    BY <1>2 DEF Accepting, Alternatives, OnRoute
  <2>2. Fits(s, e, r)
    BY <1>3, <2>1, FittingIn
  <2>. QED
    BY <2>1, <2>2 DEF Fulfils
<1>5. ASSUME NEW i \in 1 .. e - 1, config[s][i].path = config[s][e].path, Fulfils(s, i, r)
      PROVE  FALSE
  <2>1. i \in DOMAIN config[s] /\ i < e
    BY <1>1
  <2>2. i \in Accepting(r)
    BY <1>4, <1>5, <2>1 DEF Accepting, Alternatives, OnRoute, Fulfils
  <2>. QED
    BY <1>1, <1>2, <2>1, <2>2
<1>6. ASSUME sorted[s], NEW i \in DOMAIN config[s], Fits(s, i, r)
      PROVE  Priority(s, e) <= Priority(s, i)
  <2>1. config[s][i].path \in Fitting(r)
    BY <1>6, FittingIn
  <2>2. Before(s, Route(r), config[s][i].path)
    BY <1>3, <2>1
  <2>3. Paths[Route(r)].priority \in Nat /\ Paths[config[s][i].path].priority \in Nat
    BY <1>3, <2>1, FittingIn, ServiceAssumption DEF ServiceAssumption
  <2>. QED
    BY <1>4, <1>6, <2>2, <2>3 DEF Before, Priority
<1>7. e # None
  BY <1>1 DEF None
<1>. QED
  BY <1>4, <1>5, <1>6, <1>7 DEF AnswersFirst

\* and a request is refused, or answered by CORS, when there is none.
LEMMA RefusesRight ==
  ASSUME TypeOK, NEW r \in Requests, ~Known(r) \/ Accepting(r) = {}
  PROVE  Refuses(r)
<1>. DEFINE s == r.service
<1>. SUFFICES ASSUME NEW i \in DOMAIN config[s], Fulfils(s, i, r)
              PROVE  \E j \in DOMAIN config[s] :
                       Fits(s, j, r) /\ config[s][j].path # config[s][i].path
  BY DEF Refuses
<1>1. config[s][i].path \in Fitting(r)
  BY FittingIn DEF Fulfils
<1>2. Known(r) /\ Accepting(r) = {}
  BY <1>1 DEF Known
<1>3. Route(r) \in Fitting(r)
  BY <1>2, RouteIn
<1>4. PICK j \in DOMAIN config[s] : config[s][j].path = Route(r)
  BY <1>3, FittingIn
<1>5. Fits(s, j, r)
  BY <1>3, <1>4, FittingIn
<1>6. config[s][i].path # Route(r)
  BY <1>2 DEF Accepting, Alternatives, OnRoute, Fulfils
<1>. QED
  BY <1>4, <1>5, <1>6

\* FirstMatch, of the last answer.
LEMMA FirstMatchIs ==
  FirstMatch <=> (reply # Idle =>
    IF reply.endpoint # None THEN AnswersFirst(reply.request, reply.endpoint)
    ELSE Refuses(reply.request))
BY DEF FirstMatch, AnswersFirst, Refuses

\* A reply that was right for its request is, until the routes change.
LEMMA AnswersKept ==
  ASSUME NEW r, NEW e, e # None, AnswersFirst(r, e), UNCHANGED <<config, sorted>>,
         reply'.request = r, reply'.endpoint = e
  PROVE  FirstMatch'
<1>. DEFINE s == r.service
<1>1. /\ UNCHANGED <<Fulfils(s, e, r), Priority(s, e)>>
      /\ \A i : UNCHANGED <<Fulfils(s, i, r), Fits(s, i, r), Priority(s, i)>>
  BY DEF Fulfils, Fits, Priority
<1>. QED
  BY <1>1 DEF FirstMatch, AnswersFirst

LEMMA RefusesKept ==
  ASSUME NEW r, Refuses(r), UNCHANGED <<config, sorted>>,
         reply'.request = r, reply'.endpoint = None
  PROVE  FirstMatch'
<1>. DEFINE s == r.service
<1>1. \A i : UNCHANGED <<Fulfils(s, i, r), Fits(s, i, r)>>
  BY DEF Fulfils, Fits
<1>. QED
  BY <1>1 DEF FirstMatch, Refuses

LEMMA NextFirst == TypeOK /\ FirstMatch /\ [Next]_vars => FirstMatch'
<1>. SUFFICES ASSUME TypeOK, FirstMatch, [Next]_vars PROVE FirstMatch'
  OBVIOUS
<1>1. CASE UNCHANGED <<config, sorted, reply>>
  <2>1. (reply # Idle)' => reply # Idle
    BY <1>1
  <2>2. UNCHANGED <<reply.request, reply.endpoint>>
    BY <1>1
  <2>3. ASSUME (reply # Idle)', reply.endpoint # None PROVE FirstMatch'
    <3>1. AnswersFirst(reply.request, reply.endpoint)
      BY <2>1, <2>3, FirstMatchIs
    <3>. QED
      BY <1>1, <2>2, <2>3, <3>1, AnswersKept
  <2>4. ASSUME (reply # Idle)', reply.endpoint = None PROVE FirstMatch'
    <3>1. Refuses(reply.request)
      BY <2>1, <2>4, FirstMatchIs
    <3>. QED
      BY <1>1, <2>2, <2>4, <3>1, RefusesKept
  <2>. QED
    BY <2>3, <2>4 DEF FirstMatch
<1>2. ASSUME NEW r \in Requests, NEW e, NEW status, Replied(r, e, status),
             UNCHANGED <<config, sorted>>,
             IF e # None THEN AnswersFirst(r, e) ELSE Refuses(r)
      PROVE  FirstMatch'
  <2>1. reply'.request = r /\ reply'.endpoint = e
    BY <1>2 DEF Replied
  <2>2. CASE e # None
    BY <1>2, <2>1, <2>2, AnswersKept
  <2>3. CASE e = None
    BY <1>2, <2>1, <2>3, RefusesKept
  <2>. QED
    BY <2>2, <2>3
<1>3. CASE reply' = Idle
  BY <1>3 DEF FirstMatch
<1>4. ASSUME NEW r \in Requests, Handle(r) PROVE FirstMatch'
  <2>1. ASSUME NEW o, NEW status, Outcome(r, o), Replied(r, Answering(r), status), Quiet
        PROVE  FirstMatch'
    <3>1. Known(r) /\ Accepting(r) # {} /\ UNCHANGED <<config, sorted>>
      BY <2>1 DEF Outcome, Quiet
    <3>. QED
      BY <1>2, <2>1, <3>1, AnswersRight
  <2>2. CASE Gone(r) \/ NoRow(r) \/ Uncounted(r) \/ Answer(r) \/ Close(r) \/ Reset(r)
    <3>1. PICK o, status : Outcome(r, o) /\ Replied(r, Answering(r), status) /\ Quiet
      BY <2>2 DEF Gone, NoRow, Uncounted, Answer, Close, Reset
    <3>. QED
      BY <2>1, <3>1
  <2>3. CASE Cors(r)
    <3>1. Refuses(r)
      BY <2>3, RefusesRight DEF Cors, Accepting
    <3>. QED
      BY <1>2, <2>3, <3>1 DEF Cors, Quiet
  <2>4. CASE Refuse(r)
    <3>1. Refuses(r)
      BY <2>4, RefusesRight DEF Refuse, Refused, Accepting
    <3>. QED
      BY <1>2, <2>4, <3>1 DEF Refuse
  <2>5. CASE Forward(r)
    BY <1>1, <2>5 DEF Forward, ghosts
  <2>. QED
    BY <1>4, <2>2, <2>3, <2>4, <2>5 DEF Handle
<1>5. ASSUME NEW h \in Handlers, Forwarded(h) \/ ForwardFails(h) PROVE FirstMatch'
  BY <1>1, <1>5 DEF Forwarded, ForwardFails, ForwardEnds
<1>6. CASE Manage
  BY <1>1, <1>3, <1>6 DEF Manage, ResetStats, ResetServiceStats, SetLogging, SetCapture, ResetLogs,
     ClearUnhandled, Configure, ConfigureService, FailConfigure, ghosts
<1>7. CASE UNCHANGED vars
  BY <1>1, <1>7 DEF vars, ghosts
<1>. QED
  BY <1>4, <1>5, <1>6, <1>7 DEF Next

\* A request is answered by the first endpoint of its path that it fulfils, and
\* of the most static path as long as the routes are sorted; it is refused only
\* when that path has none for it, whatever is configured in between.
THEOREM FirstAnswers == Spec => []FirstMatch
<1>1. Init => FirstMatch
  BY DEF Init, FirstMatch
<1>2. IInv => TypeOK
  BY DEF IInv
<1>. QED
  BY <1>1, <1>2, NextFirst, Invariance, PTL DEF Spec
-----------------------------------------------------------------------------
(***************************************************************************)
(* The sums.  What a set of tallies counts is the number of its units, one *)
(* for each time that a tally was increased.                               *)
(***************************************************************************)
Units(f, T) == UNION {{t} \X (1 .. f[t]) : t \in T}
Heads == {<<s, 0>> : s \in Services}

LEMMA UnitIn ==
  ASSUME NEW f, NEW T
  PROVE  \A u : u \in Units(f, T) <=> \E t \in T : \E k \in 1 .. f[t] : u = <<t, k>>
BY DEF Units

LEMMA UnitsFinite ==
  ASSUME NEW f \in [Tallies -> Nat], NEW T \in SUBSET Tallies
  PROVE  IsFiniteSet(Units(f, T)) /\ SumOf(f, T) = Cardinality(Units(f, T)) /\ SumOf(f, T) \in Nat
<1>1. IsFiniteSet(T)
  <2>1. IsFiniteSet(Tallies)
    <3>1. IsFiniteSet(1 .. N) /\ IsFiniteSet(0 .. MaxEndpoints)
      BY ConstantsType, FS_Interval
    <3>2. IsFiniteSet(Globals)
      BY FS_EmptySet, FS_Singleton DEF Globals
    <3>. QED
      BY <3>1, FS_Product, FS_Union, <3>2 DEF Tallies, Services
  <2>. QED
    BY <2>1, FS_Subset
<1>. DEFINE parts == {{t} \X (1 .. f[t]) : t \in T}
            g == [t \in T |-> {t} \X (1 .. f[t])]
<1>2. IsFiniteSet(parts)
  <2>1. g \in Surjection(T, parts)
    BY DEF Surjection
  <2>. HIDE DEF parts, g
  <2>. QED
    BY <1>1, <2>1, FS_Surjection
<1>3. ASSUME NEW P \in parts PROVE IsFiniteSet(P)
  <2>1. PICK t \in T : P = {t} \X (1 .. f[t])
    BY <1>3
  <2>2. f[t] \in Nat
    OBVIOUS
  <2>3. IsFiniteSet(1 .. f[t]) /\ IsFiniteSet({t})
    <3>1. f[t] \in Int /\ 1 \in Int
      BY <2>2
    <3>2. IsFiniteSet(1 .. f[t])
      BY <3>1, FS_Interval
    <3>. QED
      BY <3>2, FS_Singleton
  <2>. QED
    BY <2>1, <2>3, FS_Product
<1>4. IsFiniteSet(UNION parts)
  <2>. HIDE DEF parts
  <2>. QED
    BY <1>2, <1>3, FS_UNION
<1>5. Cardinality(UNION parts) \in Nat
  <2>. HIDE DEF parts
  <2>. QED
    BY <1>4, FS_CardinalityType
<1>. QED
  BY <1>4, <1>5 DEF Units, SumOf

LEMMA SumSame ==
  ASSUME NEW f, NEW g, NEW T, \A t \in T : g[t] = f[t]
  PROVE  SumOf(g, T) = SumOf(f, T)
<1>1. {{t} \X (1 .. g[t]) : t \in T} = {{t} \X (1 .. f[t]) : t \in T}
  OBVIOUS
<1>. QED
  BY <1>1 DEF SumOf

LEMMA SumZero ==
  ASSUME NEW f, NEW T, \A t \in T : f[t] = 0
  PROVE  SumOf(f, T) = 0
<1>1. Units(f, T) = {}
  <2>1. \A t \in T : 1 .. f[t] = {}
    OBVIOUS
  <2>. QED
    BY <2>1, UnitIn
<1>. QED
  BY <1>1, FS_EmptySet DEF SumOf, Units

LEMMA SumMore ==
  ASSUME NEW f \in [Tallies -> Nat], NEW g \in [Tallies -> Nat], NEW T \in SUBSET Tallies,
         NEW x \in T, g[x] = f[x] + 1, \A t \in T : t # x => g[t] = f[t]
  PROVE  SumOf(g, T) = SumOf(f, T) + 1
<1>1. Units(g, T) = Units(f, T) \cup {<<x, g[x]>>}
  <2>1. ASSUME NEW u, u \in Units(g, T) PROVE u \in Units(f, T) \/ u = <<x, g[x]>>
    <3>1. PICK t \in T : \E k \in 1 .. g[t] : u = <<t, k>>
      BY <2>1, UnitIn
    <3>k. PICK k \in 1 .. g[t] : u = <<t, k>>
      BY <3>1
    <3>2. CASE t = x /\ k = g[x]
      BY <3>k, <3>2
    <3>3. CASE ~(t = x /\ k = g[x])
      <4>1. f[t] \in Nat /\ g[t] \in Nat
        OBVIOUS
      <4>2. k \in 1 .. f[t]
        BY <3>3, <4>1
      <4>. QED
        BY <3>k, <4>2, UnitIn
    <3>. QED
      BY <3>2, <3>3
  <2>2. ASSUME NEW u, u \in Units(f, T) PROVE u \in Units(g, T)
    <3>1. PICK t \in T : \E k \in 1 .. f[t] : u = <<t, k>>
      BY <2>2, UnitIn
    <3>k. PICK k \in 1 .. f[t] : u = <<t, k>>
      BY <3>1
    <3>2. f[t] \in Nat /\ g[t] \in Nat
      OBVIOUS
    <3>3. k \in 1 .. g[t]
      BY <3>2
    <3>. QED
      BY <3>k, <3>3, UnitIn
  <2>3. <<x, g[x]>> \in Units(g, T)
    <3>1. g[x] \in 1 .. g[x]
      OBVIOUS
    <3>. QED
      BY <3>1, UnitIn
  <2>. QED
    BY <2>1, <2>2, <2>3
<1>2. <<x, g[x]>> \notin Units(f, T)
  <2>1. SUFFICES ASSUME <<x, g[x]>> \in Units(f, T) PROVE FALSE
    OBVIOUS
  <2>2. PICK t \in T : \E k \in 1 .. f[t] : <<x, g[x]>> = <<t, k>>
    BY <2>1, UnitIn
  <2>k. PICK k \in 1 .. f[t] : <<x, g[x]>> = <<t, k>>
    BY <2>2
  <2>3. f[x] \in Nat
    OBVIOUS
  <2>. QED
    BY <2>k, <2>3
<1>. QED
  BY <1>1, <1>2, UnitsFinite, FS_AddElement

LEMMA SumLess ==
  ASSUME NEW f \in [Tallies -> Nat], NEW g \in [Tallies -> Nat], NEW T \in SUBSET Tallies,
         \A t \in T : g[t] <= f[t]
  PROVE  SumOf(g, T) <= SumOf(f, T)
<1>1. Units(g, T) \in SUBSET Units(f, T)
  <2>1. ASSUME NEW u, u \in Units(g, T) PROVE u \in Units(f, T)
    <3>1. PICK t \in T : \E k \in 1 .. g[t] : u = <<t, k>>
      BY <2>1, UnitIn
    <3>k. PICK k \in 1 .. g[t] : u = <<t, k>>
      BY <3>1
    <3>2. f[t] \in Nat /\ g[t] \in Nat /\ g[t] <= f[t]
      OBVIOUS
    <3>3. k \in 1 .. f[t]
      BY <3>2
    <3>. QED
      BY <3>k, <3>3, UnitIn
  <2>. QED
    BY <2>1
<1>. QED
  BY <1>1, UnitsFinite, FS_Subset

LEMMA TalliesIn ==
  /\ Globals \in SUBSET Tallies /\ \A t \in Globals : t = <<0, 0>>
  /\ <<0, 0>> \notin Heads /\ Heads \in SUBSET Tallies
  /\ \A s \in Services :
       /\ <<s, 0>> \in Heads /\ Inside(s) \in SUBSET Tallies
       /\ <<0, 0>> \notin Inside(s) /\ <<s, 0>> \notin Inside(s)
       /\ \A q \in Services : q # s =>
            \A e : <<s, e>> \notin Inside(q)
       /\ \A e \in 1 .. MaxEndpoints : <<s, e>> \in Inside(s) /\ <<s, e>> \notin Heads
BY ConstantsType DEF Tallies, Heads, Inside, Services, Globals

\* What StatsAddUp says of either kind of counters.
Sums(f) ==
  /\ f \in [Tallies -> Nat]
  /\ \A s \in Services : f[<<s, 0>>] >= SumOf(f, Inside(s))
  /\ \A t \in Globals : f[t] >= SumOf(f, Heads)
SumsExactly(f) == \A s \in Services : f[<<s, 0>>] = SumOf(f, Inside(s))
SumInv == Sums(requests) /\ SumsExactly(requests) /\ Sums(codes)

LEMMA IncreaseSums ==
  ASSUME NEW f, Sums(f), NEW s \in Services, NEW e \in 0 .. MaxEndpoints
  PROVE  /\ Sums(Increase(f, s, e))
         /\ SumsExactly(f) /\ e # 0 => SumsExactly(Increase(f, s, e))
<1>. DEFINE g == Increase(f, s, e)
<1>0. f \in [Tallies -> Nat] /\ MaxEndpoints \in Nat
  BY ConstantsType DEF Sums
<1>1. /\ g \in [Tallies -> Nat]
      /\ \A t \in Tallies : g[t] = IF t \in {<<s, e>>, <<s, 0>>, <<0, 0>>} THEN f[t] + 1 ELSE f[t]
  BY <1>0, IncreaseFacts DEF Increase
<1>. HIDE DEF g
<1>2. SumOf(g, Heads) = SumOf(f, Heads) + 1
  <2>1. \A t \in Heads : t \in Tallies /\ (t # <<s, 0>> => t \notin {<<s, e>>, <<s, 0>>, <<0, 0>>})
    BY TalliesIn DEF Heads
  <2>2. <<s, 0>> \in Heads /\ Heads \in SUBSET Tallies
    BY TalliesIn
  <2>3. g[<<s, 0>>] = f[<<s, 0>>] + 1 /\ \A t \in Heads : t # <<s, 0>> => g[t] = f[t]
    BY <1>1, <2>1, <2>2
  <2>. QED
    BY <1>0, <1>1, <2>2, <2>3, SumMore
<1>3. ASSUME NEW q \in Services, q # s
      PROVE  SumOf(g, Inside(q)) = SumOf(f, Inside(q)) /\ g[<<q, 0>>] = f[<<q, 0>>]
  <2>1. ASSUME NEW t \in Inside(q) PROVE t \in Tallies /\ t \notin {<<s, e>>, <<s, 0>>, <<0, 0>>}
    <3>1. t \in Tallies /\ t # <<0, 0>>
      BY TalliesIn
    <3>2. \A d : <<s, d>> \notin Inside(q)
      BY <1>3, TalliesIn
    <3>. QED
      BY <3>1, <3>2
  <2>2. <<q, 0>> \in Tallies /\ <<q, 0>> \notin {<<s, e>>, <<s, 0>>, <<0, 0>>}
    BY <1>3, TalliesIn
  <2>. QED
    BY <1>1, <2>1, <2>2, SumSame
<1>4. CASE e = 0
  <2>1. SumOf(g, Inside(s)) = SumOf(f, Inside(s)) /\ g[<<s, 0>>] = f[<<s, 0>>] + 1
    <3>1. \A t \in Inside(s) : t \in Tallies /\ t \notin {<<s, e>>, <<s, 0>>, <<0, 0>>}
      BY <1>4, TalliesIn
    <3>2. <<s, 0>> \in Tallies
      BY TalliesIn
    <3>. QED
      BY <1>1, <3>1, <3>2, SumSame
  <2>2. \A t \in Globals : g[t] = f[t] + 1 /\ f[t] \in Nat
    BY <1>0, <1>1, TalliesIn
  <2>3. /\ \A q \in Services : SumOf(f, Inside(q)) \in Nat /\ f[<<q, 0>>] \in Nat
        /\ SumOf(f, Heads) \in Nat
    BY <1>0, TalliesIn, UnitsFinite
  <2>4. ASSUME NEW q \in Services PROVE g[<<q, 0>>] >= SumOf(g, Inside(q))
    <3>1. f[<<q, 0>>] >= SumOf(f, Inside(q))
      BY DEF Sums
    <3>. QED
      BY <1>3, <2>1, <2>3, <3>1
  <2>5. \A t \in Globals : g[t] >= SumOf(g, Heads)
    BY <1>2, <2>2, <2>3 DEF Sums
  <2>. QED
    BY <1>1, <1>4, <2>4, <2>5 DEF Sums, g
<1>5. CASE e # 0
  <2>0. e \in 1 .. MaxEndpoints
    BY <1>0, <1>5
  <2>1. SumOf(g, Inside(s)) = SumOf(f, Inside(s)) + 1 /\ g[<<s, 0>>] = f[<<s, 0>>] + 1
    <3>1. /\ \A t \in Inside(s) : t # <<s, e>> => t \notin {<<s, e>>, <<s, 0>>, <<0, 0>>}
          /\ <<s, e>> \in Inside(s) /\ <<s, 0>> \in Tallies /\ <<s, e>> \in Tallies
      BY <2>0, TalliesIn
    <3>. QED
      BY <1>0, <1>1, <3>1, TalliesIn, SumMore
  <2>2. \A t \in Globals : g[t] = f[t] + 1 /\ f[t] \in Nat
    BY <1>0, <1>1, TalliesIn
  <2>3. /\ \A q \in Services : SumOf(f, Inside(q)) \in Nat /\ f[<<q, 0>>] \in Nat
        /\ SumOf(f, Heads) \in Nat
    BY <1>0, TalliesIn, UnitsFinite
  <2>4. ASSUME NEW q \in Services PROVE g[<<q, 0>>] >= SumOf(g, Inside(q))
    <3>1. f[<<q, 0>>] >= SumOf(f, Inside(q))
      BY DEF Sums
    <3>. QED
      BY <1>3, <2>1, <2>3, <3>1
  <2>5. \A t \in Globals : g[t] >= SumOf(g, Heads)
    BY <1>2, <2>2, <2>3 DEF Sums
  <2>6. SumsExactly(f) => SumsExactly(g)
    BY <1>3, <2>1, <2>3 DEF SumsExactly
  <2>. QED
    BY <1>1, <2>4, <2>5, <2>6 DEF Sums, g
<1>. QED
  BY <1>4, <1>5

\* Nothing is counted, except for Stats itself.
LEMMA ZeroSums ==
  ASSUME NEW f \in [Tallies -> Nat], \A t \in Tallies : t \notin Globals => f[t] = 0
  PROVE  Sums(f) /\ SumsExactly(f)
<1>1. /\ \A s \in Services : SumOf(f, Inside(s)) = 0 /\ f[<<s, 0>>] = 0
      /\ SumOf(f, Heads) = 0
  <2>1. ASSUME NEW s \in Services PROVE SumOf(f, Inside(s)) = 0 /\ f[<<s, 0>>] = 0
    <3>1. \A t \in Inside(s) : f[t] = 0
      BY TalliesIn
    <3>2. f[<<s, 0>>] = 0
      BY TalliesIn
    <3>. QED
      BY <3>1, <3>2, SumZero
  <2>2. \A t \in Heads : f[t] = 0
    BY TalliesIn
  <2>. QED
    BY <2>1, <2>2, SumZero
<1>2. \A t \in Globals : f[t] \in Nat
  BY TalliesIn
<1>. QED
  BY <1>1, <1>2 DEF Sums, SumsExactly

\* The counters of one service are reset: the global ones keep what they had.
LEMMA ZeroOfSums ==
  ASSUME NEW f, Sums(f), NEW s \in Services
  PROVE  Sums(ZeroOf(f, s)) /\ (SumsExactly(f) => SumsExactly(ZeroOf(f, s)))
<1>. DEFINE g == ZeroOf(f, s)
<1>0. f \in [Tallies -> Nat]
  BY DEF Sums
<1>1. /\ g \in [Tallies -> Nat]
      /\ \A t \in Tallies : g[t] = IF t[1] = s THEN 0 ELSE f[t]
  BY <1>0, ZeroFacts DEF ZeroOf
<1>. HIDE DEF g
<1>2. \A t \in Tallies : g[t] <= f[t]
  BY <1>0, <1>1
<1>3. SumOf(g, Heads) <= SumOf(f, Heads)
  BY <1>0, <1>1, <1>2, TalliesIn, SumLess
<1>4. \A t \in Globals : g[t] = f[t]
  BY <1>1, TalliesIn, ConstantsType DEF Services
<1>5. ASSUME NEW q \in Services, q # s
      PROVE  SumOf(g, Inside(q)) = SumOf(f, Inside(q)) /\ g[<<q, 0>>] = f[<<q, 0>>]
  <2>1. \A t \in Inside(q) : t \in Tallies /\ t[1] = q
    <3>1. \A t \in Inside(q) : t[1] = q
      BY DEF Inside
    <3>. QED
      BY <3>1, TalliesIn
  <2>2. <<q, 0>> \in Tallies
    BY TalliesIn
  <2>. QED
    BY <1>1, <1>5, <2>1, <2>2, SumSame
<1>6. SumOf(g, Inside(s)) = 0 /\ g[<<s, 0>>] = 0
  <2>1. \A t \in Inside(s) : t \in Tallies /\ t[1] = s
    <3>1. \A t \in Inside(s) : t[1] = s
      BY DEF Inside
    <3>. QED
      BY <3>1, TalliesIn
  <2>2. <<s, 0>> \in Tallies
    BY TalliesIn
  <2>. QED
    BY <1>1, <2>1, <2>2, SumZero
<1>7. /\ SumOf(f, Heads) \in Nat /\ SumOf(g, Heads) \in Nat
      /\ \A t \in Globals : f[t] \in Nat /\ f[t] >= SumOf(f, Heads)
  BY <1>0, <1>1, TalliesIn, UnitsFinite DEF Sums
<1>8. ASSUME NEW q \in Services PROVE g[<<q, 0>>] >= SumOf(g, Inside(q))
  <2>1. f[<<q, 0>>] >= SumOf(f, Inside(q))
    BY DEF Sums
  <2>. QED
    BY <1>5, <1>6, <2>1
<1>9. \A t \in Globals : g[t] >= SumOf(g, Heads)
  BY <1>3, <1>4, <1>7
<1>10. SumsExactly(f) => SumsExactly(g)
  BY <1>5, <1>6 DEF SumsExactly
<1>. QED
  BY <1>1, <1>8, <1>9, <1>10 DEF Sums, g

LEMMA CountedIn ==
  ASSUME TypeOK, NEW s \in Services, NEW e, Counted(s, e)
  PROVE  e \in 0 .. MaxEndpoints /\ e # 0
<1>1. e \in 1 .. size[s] /\ size[s] \in 0 .. MaxEndpoints /\ MaxEndpoints \in Nat
  BY ConstantsType DEF Counted, TypeOK
<1>. QED
  BY <1>1

LEMMA EndsSums ==
  ASSUME TypeOK, Sums(codes), NEW s \in Services, NEW e, NEW status, NEW isOptions,
         Ends(s, e, status, isOptions)
  PROVE  Sums(codes')
<1>1. \/ codes' = codes \/ codes' = Increase(codes, s, 0)
      \/ codes' = Increase(codes, s, e) /\ Counted(s, e)
  BY DEF Ends, Count
<1>2. 0 \in 0 .. MaxEndpoints
  BY ConstantsType
<1>. QED
  BY <1>1, <1>2, CountedIn, IncreaseSums

\* A request is counted for its endpoint and everything above it.
LEMMA IncreasedSums ==
  ASSUME TypeOK, NEW f, Sums(f), NEW r \in Requests, Increased(r)
  PROVE  /\ Sums(Increase(f, r.service, Answering(r)))
         /\ SumsExactly(f) => SumsExactly(Increase(f, r.service, Answering(r)))
<1>1. Counted(r.service, Answering(r)) /\ r.service \in Services
  BY ConstantsType DEF Increased
<1>. QED
  BY <1>1, CountedIn, IncreaseSums

LEMMA NextSums == TypeOK /\ SumInv /\ [Next]_vars => SumInv'
<1>. SUFFICES ASSUME TypeOK, SumInv, [Next]_vars PROVE SumInv'
  OBVIOUS
<1>0. /\ requests \in [Tallies -> Nat] /\ codes \in [Tallies -> Nat]
      /\ Sums(requests) /\ SumsExactly(requests) /\ Sums(codes)
  BY DEF TypeOK, SumInv
<1>1. SUFFICES Sums(requests') /\ SumsExactly(requests') /\ Sums(codes')
  BY DEF SumInv, Sums, SumsExactly
<1>2. ASSUME NEW r \in Requests, Handle(r)
      PROVE  Sums(requests') /\ SumsExactly(requests') /\ Sums(codes')
  <2>0. r.service \in Services
    BY ConstantsType
  <2>1. CASE Gone(r) \/ NoRow(r) \/ Uncounted(r) \/ Cors(r) \/ Refuse(r)
    <3>1. requests' = requests /\ \E e, status, isOptions : Ends(r.service, e, status, isOptions)
      BY <2>1 DEF Gone, NoRow, Uncounted, Cors, Refuse
    <3>. QED
      BY <1>0, <2>0, <3>1, EndsSums
  <2>2. CASE Answer(r)
    <3>1. /\ Increased(r) /\ requests' = Increase(requests, r.service, Answering(r))
          /\ \E e, status, isOptions : Ends(r.service, e, status, isOptions)
      BY <2>2 DEF Answer, Increased
    <3>. QED
      BY <1>0, <2>0, <3>1, EndsSums, IncreasedSums
  <2>3. CASE Close(r) \/ Reset(r)
    <3>1. /\ Increased(r) /\ requests' = Increase(requests, r.service, Answering(r))
          /\ codes' = Increase(codes, r.service, Answering(r))
      BY <2>3 DEF Close, Reset, Increased
    <3>. QED
      BY <1>0, <3>1, IncreasedSums
  <2>4. CASE Forward(r)
    BY <1>0, <2>4 DEF Forward, stats
  <2>. QED
    BY <1>2, <2>1, <2>2, <2>3, <2>4 DEF Handle
<1>3. ASSUME NEW h \in Handlers, NEW answered, ForwardEnds(h, answered)
      PROVE  Sums(requests') /\ SumsExactly(requests') /\ Sums(codes')
  <2>1. waiting[h].request.service \in Services
    <3>1. waiting[h] \in Waiting
      BY <1>3 DEF ForwardEnds, TypeOK
    <3>. QED
      BY <3>1, ConstantsType DEF Waiting
  <2>2. requests' = requests
        /\ \E e, status, isOptions : Ends(waiting[h].request.service, e, status, isOptions)
    BY <1>3 DEF ForwardEnds
  <2>. QED
    BY <1>0, <2>1, <2>2, EndsSums
<1>4. ASSUME NEW f, NEW g, g = Zero \/ g = OfStats(f), f \in [Tallies -> Nat]
      PROVE  Sums(g) /\ SumsExactly(g)
  <2>1. g \in [Tallies -> Nat] /\ \A t \in Tallies : t \notin Globals => g[t] = 0
    BY <1>4 DEF Zero, OfStats
  <2>. QED
    BY <2>1, ZeroSums
<1>5. CASE Manage
  <2>1. CASE ResetStats \/ \E c \in Configs : Configure(c)
    BY <1>0, <1>4, <2>1 DEF ResetStats, Configure
  <2>2. CASE \E k \in 0 .. N : FailConfigure(k)
    BY <1>0, <1>4, <2>2 DEF FailConfigure
  <2>3. ASSUME NEW s \in Http, ResetServiceStats(s) \/ \E c \in Configs : ConfigureService(s, c[s])
        PROVE  Sums(requests') /\ SumsExactly(requests') /\ Sums(codes')
    <3>1. s \in Services /\ requests' = ZeroOf(requests, s) /\ codes' = ZeroOf(codes, s)
      BY <2>3, ConstantsType DEF ResetServiceStats, ConfigureService
    <3>. QED
      BY <1>0, <3>1, ZeroOfSums
  <2>4. CASE \E S \in Scopes, on \in BOOLEAN : SetLogging(S, on) \/ SetCapture(S, on)
             \/ ResetLogs(S) \/ ClearUnhandled(S)
    BY <1>0, <2>4 DEF SetLogging, SetCapture, ResetLogs, ClearUnhandled, stats
  <2>. QED
    BY <1>5, <2>1, <2>2, <2>3, <2>4 DEF Manage
<1>6. CASE UNCHANGED vars
  BY <1>0, <1>6 DEF vars, stats
<1>. QED
  BY <1>2, <1>3, <1>5, <1>6 DEF Next, Forwarded, ForwardFails

\* The counters of a service are those of its endpoints together, except for the
\* statuses 405, and where only the event loop counts, the global ones are at
\* least those of the services (StatsAddUp).
THEOREM CountersAddUp == Spec => []StatsAddUp
<1>1. ASSUME Init PROVE SumInv
  <2>1. Zero \in [Tallies -> Nat] /\ \A t \in Tallies : Zero[t] = 0
    BY DEF Zero
  <2>2. Sums(Zero) /\ SumsExactly(Zero)
    BY <2>1, ZeroSums
  <2>. QED
    BY <1>1, <2>2 DEF Init, SumInv
<1>2. SumInv => StatsAddUp
  BY DEF SumInv, Sums, SumsExactly, StatsAddUp, Heads
<1>3. IInv => TypeOK
  BY DEF IInv
<1>. QED
  BY <1>1, <1>2, <1>3, NextSums, Invariance, PTL DEF Spec
=============================================================================
