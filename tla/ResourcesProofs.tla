-------------------------- MODULE ResourcesProofs --------------------------
(***************************************************************************)
(* Proofs about Resources: the list of external files keeps its positions, *)
(* holds the objects of the configuration in force, and so GET /resources  *)
(* implements Listing; and uploads and deletes touch nothing but what the  *)
(* configuration refers to.                                                *)
(***************************************************************************)
EXTENDS Resources, SequenceTheorems, WellFoundedInduction, TLAPS

-----------------------------------------------------------------------------
(***************************************************************************)
(* Sequences.                                                              *)
(***************************************************************************)
LEMMA ElementOf ==
  ASSUME NEW S, NEW s \in Seq(S), NEW i \in DOMAIN s
  PROVE  s[i] \in S
OBVIOUS

LEMMA AppendRange ==
  ASSUME NEW S, NEW s \in Seq(S), NEW e
  PROVE  Range(Append(s, e)) = Range(s) \cup {e}
<1>1. /\ Len(Append(s, e)) = Len(s) + 1 /\ DOMAIN Append(s, e) = 1..(Len(s) + 1)
      /\ Append(s, e)[Len(s) + 1] = e
      /\ \A i \in 1..Len(s) : Append(s, e)[i] = s[i]
  OBVIOUS
<1>2. ASSUME NEW x \in Range(Append(s, e)) PROVE x \in Range(s) \cup {e}
  BY <1>1, <1>2 DEF Range
<1>3. ASSUME NEW x \in Range(s) \cup {e} PROVE x \in Range(Append(s, e))
  <2>1. CASE x = e
    BY <1>1, <2>1 DEF Range
  <2>2. CASE x \in Range(s)
    BY <1>1, <2>2 DEF Range
  <2> QED BY <1>3, <2>1, <2>2
<1> QED BY <1>2, <1>3

LEMMA TailRange ==
  ASSUME NEW S, NEW s \in Seq(S), s # <<>>
  PROVE  /\ Tail(s) \in Seq(S) /\ Head(s) \in S /\ Head(s) = s[1] /\ 1 \in DOMAIN s
         /\ Len(Tail(s)) = Len(s) - 1
         /\ \A i \in DOMAIN Tail(s) : Tail(s)[i] = s[i + 1] /\ i + 1 \in DOMAIN s
         /\ Range(s) = {Head(s)} \cup Range(Tail(s))
<1>1. /\ Tail(s) \in Seq(S) /\ Head(s) \in S /\ Head(s) = s[1] /\ 1 \in DOMAIN s
      /\ Len(Tail(s)) = Len(s) - 1 /\ Len(s) \in Nat \ {0}
      /\ \A i \in 1..(Len(s) - 1) : Tail(s)[i] = s[i + 1] /\ i + 1 \in DOMAIN s
  OBVIOUS
<1>2. DOMAIN Tail(s) = 1..(Len(s) - 1) /\ DOMAIN s = 1..Len(s)
  BY <1>1
<1>3. ASSUME NEW x \in Range(s) PROVE x \in {Head(s)} \cup Range(Tail(s))
  <2>1. PICK i \in DOMAIN s : x = s[i]
    BY <1>3 DEF Range
  <2>2. CASE i = 1
    BY <1>1, <2>1, <2>2
  <2>3. CASE i # 1
    <3>1. i - 1 \in 1..(Len(s) - 1) /\ Tail(s)[i - 1] = s[(i - 1) + 1] /\ (i - 1) + 1 = i
      BY <1>1, <1>2, <2>1, <2>3
    <3> QED BY <1>2, <2>1, <3>1 DEF Range
  <2> QED BY <2>2, <2>3
<1>4. ASSUME NEW x \in {Head(s)} \cup Range(Tail(s)) PROVE x \in Range(s)
  BY <1>1, <1>2, <1>4 DEF Range
<1> QED BY <1>1, <1>2, <1>3, <1>4

\* RemoveAt leaves the other elements, in their order.
LEMMA RemoveAtElements ==
  ASSUME NEW S, NEW s \in Seq(S), NEW k \in 1..Len(s)
  PROVE  /\ RemoveAt(s, k) \in Seq(S) /\ Len(RemoveAt(s, k)) = Len(s) - 1
         /\ \A i \in 1..(Len(s) - 1) : RemoveAt(s, k)[i] = IF i < k THEN s[i] ELSE s[i + 1]
<1> DEFINE a == SubSeq(s, 1, k - 1)
           b == SubSeq(s, k + 1, Len(s))
<1>1. /\ a \in Seq(S) /\ Len(a) = k - 1 /\ \A i \in 1..(k - 1) : a[i] = s[i]
  OBVIOUS
<1>2. /\ b \in Seq(S) /\ Len(b) = Len(s) - k /\ \A i \in 1..(Len(s) - k) : b[i] = s[i + k]
  OBVIOUS
<1> HIDE DEF a, b
<1>0. Len(s) \in Nat /\ k \in Nat \ {0} /\ k <= Len(s)
  OBVIOUS
<1>3. /\ a \o b \in Seq(S) /\ Len(a \o b) = Len(s) - 1
      /\ \A i \in 1..(Len(s) - 1) : (a \o b)[i] = IF i < k THEN a[i] ELSE b[i - k + 1]
  <2>1. a \in Seq(S) /\ b \in Seq(S)
    BY <1>1, <1>2
  <2>2. /\ a \o b \in Seq(S) /\ Len(a \o b) = Len(a) + Len(b)
        /\ \A i \in 1..(Len(a) + Len(b)) :
             (a \o b)[i] = IF i <= Len(a) THEN a[i] ELSE b[i - Len(a)]
    BY <2>1, ConcatProperties
  <2>3. Len(a) = k - 1 /\ Len(b) = Len(s) - k
    BY <1>1, <1>2
  <2>4. ASSUME NEW i \in 1..(Len(s) - 1)
        PROVE  (a \o b)[i] = IF i < k THEN a[i] ELSE b[i - k + 1]
    <3>1. i \in 1..(Len(a) + Len(b)) /\ (i <= Len(a) <=> i < k) /\ i - Len(a) = i - k + 1
      BY <1>0, <2>3
    <3> QED BY <2>2, <3>1
  <2> QED BY <1>0, <2>2, <2>3, <2>4
<1>4. ASSUME NEW i \in 1..(Len(s) - 1)
      PROVE  (a \o b)[i] = IF i < k THEN s[i] ELSE s[i + 1]
  <2>1. CASE i < k
    BY <1>1, <1>3, <2>1
  <2>2. CASE ~(i < k)
    <3>1. i - k + 1 \in 1..(Len(s) - k) /\ (i - k + 1) + k = i + 1
      BY <2>2
    <3> QED BY <1>2, <1>3, <2>2, <3>1
  <2> QED BY <2>1, <2>2
<1>5. RemoveAt(s, k) = a \o b
  BY DEF RemoveAt, a, b
<1> QED BY <1>3, <1>4, <1>5

-----------------------------------------------------------------------------
(***************************************************************************)
(* The list of the class.                                                  *)
(***************************************************************************)
LEMMA FilesDistinct ==
  ASSUME IndexIsPosition
  PROVE  \A i, j \in DOMAIN files : files[i] = files[j] => i = j
<1> SUFFICES ASSUME NEW i \in DOMAIN files, NEW j \in DOMAIN files, files[i] = files[j]
             PROVE  i = j
  OBVIOUS
<1>1. index[files[i]] = i /\ index[files[j]] = j
  BY DEF IndexIsPosition
<1> QED BY <1>1

\* Whatever is taken out, the rest is numbered as it stands.
LEMMA PopNumbers ==
  ASSUME TypeOK, IndexIsPosition, NEW o \in 1..made, index[o] \in DOMAIN files, Pop(o)
  PROVE  /\ files' \in Seq(1..made) /\ index' \in Seq(Nat) /\ Len(index') = made
         /\ IndexIsPosition'
<1> DEFINE k == index[o]
<1>1. /\ files \in Seq(1..made) /\ k \in 1..Len(files) /\ Len(files) \in Nat
      /\ index \in [1..made -> Nat] /\ DOMAIN files = 1..Len(files) /\ made \in Nat
  <2>1. files \in Seq(1..made) /\ made \in Nat
    BY DEF TypeOK
  <2>2. Len(files) \in Nat /\ DOMAIN files = 1..Len(files)
    BY <2>1
  <2>3. index \in [1..made -> Nat]
    <3>1. index \in Seq(Nat) /\ Len(index) = made
      BY DEF TypeOK
    <3> QED BY <3>1
  <2> QED BY <2>1, <2>2, <2>3
<1>2. /\ files' \in Seq(1..made) /\ Len(files') = Len(files) - 1
      /\ \A i \in 1..(Len(files) - 1) : files'[i] = IF i < k THEN files[i] ELSE files[i + 1]
  <2>1. files' = RemoveAt(files, k)
    BY DEF Pop
  <2> HIDE DEF k
  <2>2. /\ RemoveAt(files, k) \in Seq(1..made) /\ Len(RemoveAt(files, k)) = Len(files) - 1
        /\ \A i \in 1..(Len(files) - 1) :
             RemoveAt(files, k)[i] = IF i < k THEN files[i] ELSE files[i + 1]
    BY <1>1, RemoveAtElements
  <2> QED BY <2>1, <2>2
<1>3. DOMAIN files' = 1..(Len(files) - 1)
  BY <1>1, <1>2
<1>4. ASSUME NEW i \in DOMAIN files', NEW j \in DOMAIN files', files'[i] = files'[j]
      PROVE  i = j
  <2> DEFINE at(n) == IF n < k THEN n ELSE n + 1
  <2>0. /\ i \in 1..(Len(files) - 1) /\ j \in 1..(Len(files) - 1)
        /\ i \in Int /\ j \in Int /\ k \in Int
    BY <1>1, <1>3
  <2>1. ASSUME NEW n \in 1..(Len(files) - 1)
        PROVE  at(n) \in DOMAIN files /\ files'[n] = files[at(n)]
    <3>1. files'[n] = IF n < k THEN files[n] ELSE files[n + 1]
      BY <1>2
    <3>2. n \in 1..Len(files) /\ n + 1 \in 1..Len(files)
      BY <1>1
    <3> HIDE DEF k
    <3>3. CASE n < k
      BY <1>1, <3>1, <3>2, <3>3
    <3>4. CASE ~(n < k)
      BY <1>1, <3>1, <3>2, <3>4
    <3> QED BY <3>3, <3>4
  <2>2. at(i) = at(j)
    <3> HIDE DEF at
    <3> QED BY <1>4, <2>0, <2>1, FilesDistinct
  <2> QED BY <2>0, <2>2
<1>5. index' = [q \in 1..made |->
        IF \E i \in DOMAIN files' : files'[i] = q
        THEN CHOOSE i \in DOMAIN files' : files'[i] = q ELSE index[q]]
  BY <1>1 DEF Pop, Renumbered
<1>6. ASSUME NEW q \in 1..made PROVE index'[q] \in Nat
  <2>1. CASE \E i \in DOMAIN files' : files'[i] = q
    <3>1. index'[q] \in DOMAIN files'
      BY <1>5, <2>1
    <3> QED BY <1>3, <3>1
  <2>2. CASE ~\E i \in DOMAIN files' : files'[i] = q
    BY <1>1, <1>5, <2>2
  <2> QED BY <2>1, <2>2
<1>7. index' \in [1..made -> Nat]
  BY <1>5, <1>6
<1>8. index' \in Seq(Nat) /\ Len(index') = made
  <2>1. made \in Nat
    BY <1>1
  <2> QED BY <1>7, <2>1
<1>9. ASSUME NEW i \in DOMAIN files' PROVE index'[files'[i]] = i
  <2>1. files'[i] \in 1..made
    BY <1>2, ElementOf
  <2>2. index'[files'[i]] = CHOOSE j \in DOMAIN files' : files'[j] = files'[i]
    BY <1>5, <2>1
  <2>3. PICK j \in DOMAIN files' : j = index'[files'[i]] /\ files'[j] = files'[i]
    BY <2>2
  <2> QED BY <1>4, <2>3
<1> QED BY <1>2, <1>8, <1>9 DEF IndexIsPosition

\* What is in the list is what is taken out of it.
LEMMA PopRemoves ==
  ASSUME TypeOK, IndexIsPosition, NEW o \in Range(files), Pop(o)
  PROVE  Range(files') = Range(files) \ {o}
<1> DEFINE k == index[o]
<1>1. /\ files \in Seq(1..made) /\ Len(files) \in Nat /\ DOMAIN files = 1..Len(files)
  BY DEF TypeOK
<1>2. k \in 1..Len(files) /\ files[k] = o
  <2>1. PICK i \in DOMAIN files : files[i] = o
    BY DEF Range
  <2>2. index[o] = i
    BY <2>1 DEF IndexIsPosition
  <2> QED BY <1>1, <2>1, <2>2
<1>3. /\ Len(files') = Len(files) - 1 /\ files' \in Seq(1..made)
      /\ \A i \in 1..(Len(files) - 1) : files'[i] = IF i < k THEN files[i] ELSE files[i + 1]
  <2>1. files' = RemoveAt(files, k)
    BY DEF Pop
  <2> HIDE DEF k
  <2>2. /\ RemoveAt(files, k) \in Seq(1..made) /\ Len(RemoveAt(files, k)) = Len(files) - 1
        /\ \A i \in 1..(Len(files) - 1) :
             RemoveAt(files, k)[i] = IF i < k THEN files[i] ELSE files[i + 1]
    BY <1>1, <1>2, RemoveAtElements
  <2> QED BY <2>1, <2>2
<1>4. DOMAIN files' = 1..(Len(files) - 1)
  BY <1>1, <1>3
<1>5. ASSUME NEW x \in Range(files') PROVE x \in Range(files) \ {o}
  <2>1. PICK i \in DOMAIN files' : x = files'[i]
    BY <1>5 DEF Range
  <2>2. PICK n \in DOMAIN files : x = files[n] /\ n # k
    BY <1>1, <1>2, <1>3, <1>4, <2>1
  <2>3. files[n] # files[k]
    BY <1>1, <1>2, <2>2, FilesDistinct
  <2> QED BY <1>2, <2>2, <2>3 DEF Range
<1>6. ASSUME NEW x \in Range(files), x # o PROVE x \in Range(files')
  <2>1. PICK n \in DOMAIN files : x = files[n]
    BY <1>6 DEF Range
  <2>2. n # k
    BY <1>2, <1>6, <2>1
  <2>3. CASE n < k
    <3>1. n \in 1..(Len(files) - 1) /\ files'[n] = files[n]
      BY <1>1, <1>2, <1>3, <2>1, <2>3
    <3> QED BY <1>4, <2>1, <3>1 DEF Range
  <2>4. CASE n > k
    <3>1. n - 1 \in 1..(Len(files) - 1) /\ ~(n - 1 < k) /\ (n - 1) + 1 = n
      BY <1>1, <1>2, <2>1, <2>4
    <3>2. files'[n - 1] = files[n]
      BY <1>3, <3>1
    <3> QED BY <1>4, <2>1, <3>1, <3>2 DEF Range
  <2> QED BY <1>1, <1>2, <2>1, <2>2, <2>3, <2>4
<1> QED BY <1>5, <1>6

-----------------------------------------------------------------------------
(***************************************************************************)
(* The inductive invariant.                                                *)
(***************************************************************************)
LEMMA InObjects ==
  ASSUME NEW lists, NEW x
  PROVE  x \in Objects(lists) <=> \E o \in Owners : x \in Range(lists[o])
BY DEF Objects

LEMMA NoObjects == Objects(No) = {} /\ Single(No)
<1>1. \A o \in Owners : No[o] = <<>>
  BY DEF No
<1>2. DOMAIN <<>> = {}
  OBVIOUS
<1>3. ASSUME NEW x \in Objects(No) PROVE FALSE
  <2>1. PICK o \in Owners : x \in Range(No[o])
    BY <1>3, InObjects
  <2> QED BY <1>1, <1>2, <2>1 DEF Range
<1>4. Single(No)
  BY <1>1, <1>2 DEF Single
<1> QED BY <1>3, <1>4

LEMMA InitInv == Init => IInv
<1> SUFFICES ASSUME Init PROVE IInv
  OBVIOUS
<1> USE DEF Init
<1>0. DOMAIN files = {} /\ DOMAIN dying = {} /\ Range(files) = {}
  BY DEF Range
<1>1. TypeOK
  <2>1. PICK config \in Configs :
          job = [whole |-> TRUE, owner |-> Globals, todo |-> AllOf(config), analysable |-> TRUE]
    OBVIOUS
  <2>2. job \in [whole : BOOLEAN, owner : Owners, todo : Seq(References), analysable : BOOLEAN]
    <3>1. AllOf(config) \in Seq(References) /\ Globals \in Owners
      BY ResourcesAssumption DEF Owners
    <3> QED BY <2>1, <3>1
  <2>3. root \in [Owners -> Seq(1..made)] /\ fresh \in [Owners -> Seq(1..made)]
    BY DEF No
  <2>4. \A S : <<>> \in Seq(S) /\ Len(<<>>) = 0
    BY EmptySeq
  <2> QED BY <2>2, <2>3, <2>4 DEF TypeOK
<1>2. IndexIsPosition
  BY <1>0 DEF IndexIsPosition
<1>3. FilesRight
  <2>1. Expected = {}
    BY NoObjects DEF Expected
  <2> QED BY <1>0, <2>1 DEF FilesRight
<1>4. Apart
  BY NoObjects DEF Apart
<1>5. JobFits
  BY <1>0 DEF JobFits
<1> QED BY <1>1, <1>2, <1>3, <1>4, <1>5 DEF IInv

\* The invariant says nothing of the disk or of the answers.
LEMMA RequestInv ==
  ASSUME IInv, UNCHANGED <<registry, root, posting, left, broken>>
  PROVE  IInv'
<1> USE DEF IInv, registry, posting
<1>1. TypeOK'
  BY DEF TypeOK
<1>2. IndexIsPosition'
  BY DEF IndexIsPosition
<1>3. FilesRight'
  BY DEF FilesRight, Expected, Objects
<1>4. Apart'
  BY DEF Apart, Single, Objects
<1>5. JobFits'
  BY DEF JobFits
<1> QED BY <1>1, <1>2, <1>3, <1>4, <1>5

\* A post begins.
LEMMA PostInv ==
  ASSUME IInv, NEW config \in Configs,
         PostConfig(config) \/ \E s \in HttpServices : PostService(s, config)
  PROVE  IInv'
<1> USE DEF IInv
<1>1. step' = "build" /\ fresh' = No /\ dying' = <<>> /\ root' = root /\ left' = left
      /\ broken' = broken /\ made' = made /\ pathOf' = pathOf /\ index' = index
  BY DEF PostConfig, PostService, registry
<1>2. \/ /\ job'.whole = TRUE /\ files' = <<>>
      \/ /\ job'.whole = FALSE /\ files' = files /\ step = "idle"
  BY DEF PostConfig, PostService, registry
<1>0. DOMAIN <<>> = {} /\ Range(<<>>) = {}
  BY DEF Range
<1>3. job' \in [whole : BOOLEAN, owner : Owners, todo : Seq(References), analysable : BOOLEAN]
      /\ (~job'.whole => \A i \in DOMAIN job'.todo : job'.todo[i].owner = job'.owner)
  <2>1. CASE PostConfig(config)
    BY <2>1, ResourcesAssumption DEF PostConfig, Owners
  <2>2. ASSUME NEW s \in HttpServices, PostService(s, config)
        PROVE  /\ job' \in [whole : BOOLEAN, owner : Owners, todo : Seq(References), analysable : BOOLEAN]
               /\ \A i \in DOMAIN job'.todo : job'.todo[i].owner = job'.owner
    <3>1. job' = [whole |-> FALSE, owner |-> s, analysable |-> TRUE, todo |-> PartOf(config, s)]
      BY <2>2 DEF PostService
    <3>2. s \in Services /\ s \in Owners /\ PartOf(config, s) \in Seq([owner : {s}, path : Paths \cup {Refused}])
      BY ResourcesAssumption DEF Owners
    <3>3. PartOf(config, s) \in Seq(References)
      <4>1. [owner : {s}, path : Paths \cup {Refused}] \subseteq References
        BY <3>2 DEF References
      <4> QED BY <3>2, <4>1, SeqMonotonic
    <3>4. ASSUME NEW i \in DOMAIN PartOf(config, s) PROVE PartOf(config, s)[i].owner = s
      <4>1. PartOf(config, s)[i] \in [owner : {s}, path : Paths \cup {Refused}]
        BY <3>2, ElementOf
      <4> QED BY <4>1
    <3> QED BY <3>1, <3>2, <3>3, <3>4
  <2> QED BY <2>1, <2>2
<1>4. TypeOK'
  <2>1. files' \in Seq(1..made)
    <3>1. files \in Seq(1..made) /\ <<>> \in Seq(1..made)
      BY EmptySeq DEF TypeOK
    <3> QED BY <1>2, <3>1
  <2>2. fresh' \in [Owners -> Seq(1..made)] /\ dying' \in Seq(1..made)
    BY <1>1 DEF No
  <2> QED BY <1>1, <1>3, <2>1, <2>2 DEF TypeOK
<1>5. IndexIsPosition'
  BY <1>0, <1>1, <1>2 DEF IndexIsPosition
<1>6. FilesRight'
  <2>1. CASE job'.whole = TRUE
    <3>1. Expected' = {} /\ Range(files') = {}
      BY <1>0, <1>1, <1>2, <2>1, NoObjects DEF Expected, Objects
    <3> QED BY <3>1 DEF FilesRight
  <2>2. CASE job'.whole = FALSE
    <3>1. Expected' = Objects(root) \cup left
      BY <1>1, <2>2, NoObjects DEF Expected, Objects
    <3>2. ~broken => Range(files) = Objects(root) \cup left
      BY <1>2, <2>2 DEF FilesRight, Expected
    <3> QED BY <1>1, <1>2, <2>2, <3>1, <3>2 DEF FilesRight
  <2> QED BY <1>2, <2>1, <2>2
<1>7. Apart'
  BY <1>1, NoObjects DEF Apart, Single, Objects
<1>8. JobFits'
  BY <1>0, <1>1, <1>3 DEF JobFits, No
<1> QED BY <1>4, <1>5, <1>6, <1>7, <1>8

\* A new object in one list of the service it is made for.
LEMMA Added ==
  ASSUME NEW S, NEW o \in Owners, NEW n, n \notin S,
         NEW lists, \A q \in Owners : lists[q] \in Seq(S), Single(lists),
         NEW more, more[o] = Append(lists[o], n),
         \A q \in Owners \ {o} : more[q] = lists[q]
  PROVE  Objects(more) = Objects(lists) \cup {n} /\ Single(more)
<1>1. /\ \A q \in Owners : lists[q] \in Seq(S)
      /\ more[o] = Append(lists[o], n) /\ \A q \in Owners \ {o} : more[q] = lists[q]
  OBVIOUS
<1>2. Range(more[o]) = Range(lists[o]) \cup {n}
  BY <1>1, AppendRange
<1>3. ASSUME NEW x PROVE x \in Objects(more) <=> x \in Objects(lists) \cup {n}
  BY <1>1, <1>2 DEF Objects
<1>4. ASSUME NEW p \in Owners, NEW q \in Owners,
             NEW i \in DOMAIN more[p], NEW j \in DOMAIN more[q], more[p][i] = more[q][j]
      PROVE  p = q /\ i = j
  <2> DEFINE end == Len(lists[o]) + 1
  <2>1. /\ DOMAIN more[o] = 1..end /\ DOMAIN lists[o] = 1..(end - 1) /\ end \in Nat
        /\ more[o][end] = n /\ \A k \in 1..(end - 1) : more[o][k] = lists[o][k]
    BY <1>1
  <2> HIDE DEF end
  <2>2. \A t \in Owners : \A k \in DOMAIN more[t] :
          \/ t = o /\ k = end /\ more[t][k] = n
          \/ k \in DOMAIN lists[t] /\ more[t][k] = lists[t][k] /\ more[t][k] \in S
    <3> SUFFICES ASSUME NEW t \in Owners, NEW k \in DOMAIN more[t]
                 PROVE  \/ t = o /\ k = end /\ more[t][k] = n
                        \/ k \in DOMAIN lists[t] /\ more[t][k] = lists[t][k] /\ more[t][k] \in S
      OBVIOUS
    <3>1. CASE t # o
      BY <1>1, <3>1, ElementOf
    <3>2. CASE t = o /\ k = end
      BY <2>1, <3>2
    <3>3. CASE t = o /\ k # end
      <4>1. k \in 1..(end - 1)
        BY <2>1, <3>3
      <4>2. k \in DOMAIN lists[t] /\ more[t][k] = lists[t][k] /\ lists[t] \in Seq(S)
        BY <1>1, <2>1, <3>3, <4>1
      <4>3. lists[t][k] \in S
        BY <4>2, ElementOf
      <4> QED BY <4>2, <4>3
    <3> QED BY <3>1, <3>2, <3>3
  <2>3. CASE more[p][i] = n
    <3>1. more[p][i] \notin S /\ more[q][j] \notin S
      BY <1>4, <2>3
    <3>2. p = o /\ i = end
      BY <2>2, <3>1
    <3>3. q = o /\ j = end
      BY <2>2, <3>1
    <3> QED BY <3>2, <3>3
  <2>4. CASE more[p][i] # n
    <3>1. i \in DOMAIN lists[p] /\ j \in DOMAIN lists[q] /\ lists[p][i] = lists[q][j]
      BY <1>4, <2>2, <2>4
    <3> QED BY <3>1 DEF Single
  <2> QED BY <2>3, <2>4
<1>5. Single(more)
  BY <1>4 DEF Single
<1> QED BY <1>3, <1>5

LEMMA BuildInv == IInv /\ Build => IInv'
<1> SUFFICES ASSUME IInv, Build PROVE IInv'
  OBVIOUS
<1> DEFINE r == Head(job.todo)
           n == made + 1
<1>1. /\ step = "build" /\ job.todo # <<>> /\ r.path # Refused
      /\ made' = n /\ files' = Append(files, n) /\ pathOf' = Append(pathOf, r.path)
      /\ index' = Append(index, Len(files) + 1)
      /\ fresh' = [fresh EXCEPT ![r.owner] = Append(@, n)]
      /\ job' = [job EXCEPT !.todo = Tail(@)]
      /\ UNCHANGED <<root, step, dying, left, broken>>
  BY DEF Build, Make
<1>2. /\ TypeOK /\ IndexIsPosition /\ FilesRight /\ Apart /\ JobFits
  BY DEF IInv
<1>3. /\ job.todo \in Seq(References) /\ r \in References /\ Tail(job.todo) \in Seq(References)
      /\ r.owner \in Owners /\ r.path \in Paths
  <2>1. job.todo \in Seq(References)
    BY <1>2 DEF TypeOK
  <2>2. r \in References /\ Tail(job.todo) \in Seq(References)
    BY <1>1, <2>1, TailRange
  <2>3. r.owner \in Owners /\ r.path \in Paths
    BY <1>1, <2>2 DEF References
  <2> QED BY <2>1, <2>2, <2>3
<1>4. /\ made \in Nat /\ n \in Nat /\ 1..made \subseteq 1..n /\ n \in 1..n /\ n \notin 1..made
  BY <1>2 DEF TypeOK
<1>5. /\ files \in Seq(1..made) /\ root \in [Owners -> Seq(1..made)]
      /\ fresh \in [Owners -> Seq(1..made)] /\ dying \in Seq(1..made)
      /\ pathOf \in Seq(Paths) /\ Len(pathOf) = made /\ index \in Seq(Nat) /\ Len(index) = made
      /\ left \subseteq 1..made /\ broken \in BOOLEAN
  BY <1>2 DEF TypeOK
<1> HIDE DEF r, n
<1>6. Seq(1..made) \subseteq Seq(1..n)
  <2>1. ASSUME NEW s \in Seq(1..made) PROVE s \in Seq(1..n)
    BY <1>4, SeqMonotonic
  <2> QED BY <2>1
<1>7. TypeOK'
  <2>1. files' \in Seq(1..n) /\ dying' \in Seq(1..n)
    BY <1>1, <1>4, <1>5, <1>6, AppendProperties
  <2>2. root' \in [Owners -> Seq(1..n)]
    BY <1>1, <1>5, <1>6
  <2>3. fresh' \in [Owners -> Seq(1..n)]
    <3>1. Append(fresh[r.owner], n) \in Seq(1..n)
      BY <1>3, <1>4, <1>5, <1>6, AppendProperties
    <3> QED BY <1>1, <1>3, <1>5, <1>6, <3>1
  <2>4. pathOf' \in Seq(Paths) /\ Len(pathOf') = n
    BY <1>1, <1>3, <1>4, <1>5, AppendProperties DEF n
  <2>5. index' \in Seq(Nat) /\ Len(index') = n
    <3>1. Len(files) + 1 \in Nat
      BY <1>5
    <3> QED BY <1>1, <1>4, <1>5, <3>1, AppendProperties DEF n
  <2>6. job' \in [whole : BOOLEAN, owner : Owners, todo : Seq(References), analysable : BOOLEAN]
    BY <1>1, <1>2, <1>3 DEF TypeOK
  <2>7. left' \subseteq 1..n /\ broken' \in BOOLEAN /\ step' \in {"idle", "build", "destroy"}
    BY <1>1, <1>4, <1>5
  <2> QED BY <1>1, <1>4, <2>1, <2>2, <2>3, <2>4, <2>5, <2>6, <2>7 DEF TypeOK
<1>8. IndexIsPosition'
  <2> SUFFICES ASSUME NEW i \in DOMAIN files' PROVE index'[files'[i]] = i
    BY DEF IndexIsPosition
  <2> DEFINE end == Len(files) + 1
  <2>1. /\ DOMAIN files = 1..(end - 1) /\ DOMAIN files' = 1..end /\ end \in Nat
        /\ files'[end] = n /\ \A k \in 1..(end - 1) : files'[k] = files[k]
    BY <1>1, <1>5
  <2>2. index'[n] = end /\ \A o \in 1..made : index'[o] = index[o]
    BY <1>1, <1>4, <1>5 DEF n
  <2> HIDE DEF end
  <2>3. CASE i = end
    BY <2>1, <2>2, <2>3
  <2>4. CASE i # end
    <3>1. i \in DOMAIN files /\ files'[i] = files[i]
      BY <2>1, <2>4
    <3>2. files[i] \in 1..made
      BY <1>5, <3>1, ElementOf
    <3> QED BY <1>2, <2>2, <3>1, <3>2 DEF IndexIsPosition
  <2> QED BY <2>3, <2>4
<1>9. Objects(fresh') = Objects(fresh) \cup {n} /\ Single(fresh')
  <2>1. Single(fresh)
    BY <1>2 DEF Apart
  <2>2. /\ fresh \in [Owners -> Seq(1..made)] /\ r.owner \in Owners /\ n \notin 1..made
        /\ fresh' = [fresh EXCEPT ![r.owner] = Append(@, n)]
    BY <1>1, <1>3, <1>4, <1>5
  <2>3. /\ \A q \in Owners : fresh[q] \in Seq(1..made)
        /\ fresh'[r.owner] = Append(fresh[r.owner], n)
        /\ \A q \in Owners \ {r.owner} : fresh'[q] = fresh[q]
    BY <2>2
  <2>4. PICK old, new, S, o : old = fresh /\ new = fresh' /\ S = 1..made /\ o = r.owner
    OBVIOUS
  <2>5. /\ o \in Owners /\ n \notin S
        /\ \A q \in Owners : old[q] \in Seq(S)
        /\ new[o] = Append(old[o], n)
        /\ \A q \in Owners \ {o} : new[q] = old[q]
    BY <2>2, <2>3, <2>4
  <2>6. Single(old)
    BY <2>1, <2>4
  <2> HIDE <2>4
  <2>7. Objects(new) = Objects(old) \cup {n} /\ Single(new)
    BY <2>5, <2>6, Added
  <2> QED BY <2>4, <2>7
<1>10. Range(files') = Range(files) \cup {n}
  BY <1>1, <1>5, AppendRange
<1>11. job'.whole = job.whole /\ job'.owner = job.owner /\ job'.todo = Tail(job.todo)
  BY <1>1, <1>2 DEF TypeOK
<1>12. FilesRight'
  <2>1. Expected' = Expected \cup {n}
    <3>1. step' = "build" /\ Objects(root)' = Objects(root) /\ left' = left
      BY <1>1 DEF Objects
    <3> DEFINE Kept == IF job.whole THEN {} ELSE Objects(root) \cup left
    <3>2. Kept' = Kept
      BY <1>11, <3>1
    <3>3. Expected = Kept \cup Objects(fresh) /\ Expected' = Kept' \cup Objects(fresh')
      BY <1>1, <3>1 DEF Expected, Objects
    <3> HIDE DEF Kept
    <3> QED BY <1>9, <3>2, <3>3
  <2> QED BY <1>1, <1>2, <1>10, <1>11, <2>1 DEF FilesRight
<1>13. Apart'
  <2>1. Objects(root) \subseteq 1..made
    <3>1. ASSUME NEW x \in Objects(root) PROVE x \in 1..made
      <4>1. PICK o \in Owners : x \in Range(root[o])
        BY <3>1, InObjects
      <4>2. root[o] \in Seq(1..made)
        BY <1>5
      <4> QED BY <4>1, <4>2, ElementOf DEF Range
    <3> QED BY <3>1
  <2>2. Single(root') /\ Objects(root') = Objects(root) /\ left' = left
    BY <1>1, <1>2 DEF Apart
  <2>3. Single(root') /\ Single(fresh')
    BY <1>9, <2>2
  <2>4. \A o \in Objects(root') : o \notin Objects(fresh') \cup left'
    BY <1>2, <1>4, <1>9, <2>1, <2>2 DEF Apart
  <2>5. \A o \in Objects(fresh') : o \notin left'
    BY <1>2, <1>4, <1>5, <1>9, <2>2 DEF Apart
  <2> QED BY <2>3, <2>4, <2>5 DEF Apart
<1>14. JobFits'
  <2>1. ASSUME ~job.whole
        PROVE  /\ \A i \in DOMAIN job'.todo : job'.todo[i].owner = job'.owner
               /\ \A o \in Owners \ {job'.owner} : fresh'[o] = <<>>
    <3>1. /\ \A i \in DOMAIN job.todo : job.todo[i].owner = job.owner
          /\ \A o \in Owners \ {job.owner} : fresh[o] = <<>>
      BY <1>1, <1>2, <2>1 DEF JobFits
    <3>2. /\ r = job.todo[1] /\ 1 \in DOMAIN job.todo
          /\ \A i \in DOMAIN Tail(job.todo) :
               Tail(job.todo)[i] = job.todo[i + 1] /\ i + 1 \in DOMAIN job.todo
      BY <1>1, <1>3, TailRange DEF r
    <3>3. \A i \in DOMAIN job'.todo : job'.todo[i].owner = job'.owner
      BY <1>11, <3>1, <3>2
    <3>4. \A o \in Owners \ {job'.owner} : fresh'[o] = <<>>
      <4>1. r.owner = job.owner
        BY <3>1, <3>2
      <4> QED BY <1>1, <1>5, <1>11, <3>1, <4>1
    <3> QED BY <3>3, <3>4
  <2>2. dying' = dying /\ root' = root /\ step' = step
    BY <1>1
  <2> QED BY <1>1, <1>2, <1>11, <2>1, <2>2 DEF JobFits
<1> QED BY <1>7, <1>8, <1>12, <1>13, <1>14 DEF IInv

LEMMA ObjectsMade ==
  ASSUME TypeOK
  PROVE  Objects(root) \subseteq 1..made /\ Objects(fresh) \subseteq 1..made
<1>1. \A o \in Owners : root[o] \in Seq(1..made) /\ fresh[o] \in Seq(1..made)
  BY DEF TypeOK
<1>2. ASSUME NEW x \in Objects(root) PROVE x \in 1..made
  <2>1. PICK o \in Owners : x \in Range(root[o])
    BY <1>2, InObjects
  <2> QED BY <1>1, <2>1, ElementOf DEF Range
<1>3. ASSUME NEW x \in Objects(fresh) PROVE x \in 1..made
  <2>1. PICK o \in Owners : x \in Range(fresh[o])
    BY <1>3, InObjects
  <2> QED BY <1>1, <2>1, ElementOf DEF Range
<1> QED BY <1>2, <1>3

\* However a post ends, the list, root and left decide.
LEMMA EndInv ==
  ASSUME IInv, Ended, UNCHANGED registry,
         root' \in [Owners -> Seq(1..made)], left' \subseteq 1..made, broken' \in BOOLEAN,
         Single(root'), \A o \in Objects(root') : o \notin left',
         ~broken' => Range(files) = Objects(root') \cup left'
  PROVE  IInv'
<1>1. /\ step' = "idle" /\ fresh' = No /\ dying' = <<>> /\ job' = NoJob
      /\ files' = files /\ made' = made /\ pathOf' = pathOf /\ index' = index
  BY DEF Ended, registry
<1>2. DOMAIN <<>> = {}
  OBVIOUS
<1>3. TypeOK'
  <2>1. fresh' \in [Owners -> Seq(1..made)] /\ dying' \in Seq(1..made)
    BY <1>1, EmptySeq DEF No
  <2>2. job' \in [whole : BOOLEAN, owner : Owners, todo : Seq(References), analysable : BOOLEAN]
    <3>1. <<>> \in Seq(References)
      BY EmptySeq
    <3> QED BY <1>1, <3>1 DEF NoJob, Owners
  <2> QED BY <1>1, <2>1, <2>2 DEF IInv, TypeOK
<1>4. IndexIsPosition'
  BY <1>1 DEF IInv, IndexIsPosition
<1>5. FilesRight'
  BY <1>1 DEF FilesRight, Expected
<1>6. Apart'
  BY <1>1, NoObjects DEF Apart
<1>7. JobFits'
  BY <1>1, <1>2 DEF JobFits
<1> QED BY <1>3, <1>4, <1>5, <1>6, <1>7 DEF IInv

LEMMA BuildRaisesInv == IInv /\ BuildRaises => IInv'
<1> SUFFICES ASSUME IInv, BuildRaises PROVE IInv'
  OBVIOUS
<1>1. TypeOK /\ FilesRight /\ Apart
  BY DEF IInv
<1>2. Ended /\ UNCHANGED registry /\ root' = root /\ step = "build"
  BY DEF BuildRaises
<1>3. root' \in [Owners -> Seq(1..made)] /\ Single(root') /\ left \subseteq 1..made
  BY <1>1, <1>2 DEF TypeOK, Apart
<1>4. CASE job.whole
  <2>1. broken' = TRUE /\ left' = left
    BY <1>4 DEF BuildRaises
  <2>2. \A o \in Objects(root') : o \notin left'
    BY <1>1, <1>2, <2>1 DEF Apart
  <2> QED BY <1>2, <1>3, <2>1, <2>2, EndInv
<1>5. CASE ~job.whole
  <2>1. broken' = broken /\ left' = left \cup Objects(fresh) /\ broken \in BOOLEAN
    BY <1>1, <1>5 DEF BuildRaises, TypeOK
  <2>2. left' \subseteq 1..made
    BY <1>1, <1>3, <2>1, ObjectsMade
  <2>3. \A o \in Objects(root') : o \notin left'
    BY <1>1, <1>2, <2>1 DEF Apart
  <2>4. ~broken' => Range(files) = Objects(root') \cup left'
    BY <1>1, <1>2, <1>5, <2>1 DEF FilesRight, Expected
  <2> QED BY <1>2, <1>3, <2>1, <2>2, <2>3, <2>4, EndInv
<1> QED BY <1>4, <1>5

LEMMA AnalyzeInv == IInv /\ Analyze => IInv'
<1> SUFFICES ASSUME IInv, Analyze PROVE IInv'
  OBVIOUS
<1>1. TypeOK /\ FilesRight /\ Apart
  BY DEF IInv
<1>2. Ended /\ UNCHANGED registry /\ step = "build" /\ job.whole
  BY DEF Analyze
<1>3. CASE job.analysable
  <2>1. root' = fresh /\ broken' = FALSE /\ left' = {}
    BY <1>3 DEF Analyze
  <2>2. root' \in [Owners -> Seq(1..made)] /\ Single(root')
    BY <1>1, <2>1 DEF TypeOK, Apart
  <2>3. Range(files) = Objects(root') \cup left'
    BY <1>1, <1>2, <2>1 DEF FilesRight, Expected
  <2> QED BY <1>2, <2>1, <2>2, <2>3, EndInv
<1>4. CASE ~job.analysable
  <2>1. root' = root /\ broken' = TRUE /\ left' = left
    BY <1>4 DEF Analyze
  <2>2. /\ root' \in [Owners -> Seq(1..made)] /\ Single(root') /\ left' \subseteq 1..made
        /\ \A o \in Objects(root') : o \notin left'
    BY <1>1, <2>1 DEF TypeOK, Apart
  <2> QED BY <1>2, <2>1, <2>2, EndInv
<1> QED BY <1>3, <1>4

LEMMA BuiltInv == IInv /\ Built => IInv'
<1> SUFFICES ASSUME IInv, Built PROVE IInv'
  OBVIOUS
<1>1. TypeOK /\ IndexIsPosition /\ FilesRight /\ Apart /\ JobFits
  BY DEF IInv
<1>2. /\ step = "build" /\ ~job.whole /\ step' = "destroy" /\ dying' = root[job.owner]
      /\ UNCHANGED <<files, made, pathOf, index, root, job, fresh, left, broken>>
  BY DEF Built, registry
<1>3. job.owner \in Owners /\ root \in [Owners -> Seq(1..made)]
  BY <1>1 DEF TypeOK
<1>4. TypeOK'
  <2>1. dying' \in Seq(1..made)
    BY <1>2, <1>3
  <2> QED BY <1>1, <1>2, <2>1 DEF TypeOK
<1>5. IndexIsPosition'
  BY <1>1, <1>2 DEF IndexIsPosition
<1>6. FilesRight'
  <2>1. [root EXCEPT ![job.owner] = root[job.owner]] = root
    BY <1>3
  <2>2. Expected' = Objects(root) \cup left \cup Objects(fresh)
    BY <1>2, <2>1 DEF Expected
  <2> QED BY <1>1, <1>2, <2>2 DEF FilesRight, Expected
<1>7. Apart'
  BY <1>1, <1>2 DEF Apart
<1>8. JobFits'
  <2>1. \A i \in DOMAIN dying' : dying'[i] \in Range(root'[job'.owner])
    BY <1>2 DEF Range
  <2>2. \A i, j \in DOMAIN dying' : dying'[i] = dying'[j] => i = j
    BY <1>1, <1>2, <1>3 DEF Apart, Single
  <2> QED BY <1>1, <1>2, <2>1, <2>2 DEF JobFits
<1> QED BY <1>4, <1>5, <1>6, <1>7, <1>8 DEF IInv

\* Where the object to be destroyed stands, when nothing was refused half-way.
LEMMA DyingListed ==
  ASSUME IInv, step = "destroy", dying # <<>>, ~broken
  PROVE  Head(dying) \in Range(files)
<1>1. /\ TypeOK /\ FilesRight
  BY DEF IInv
<1>2. job.owner \in Owners /\ root \in [Owners -> Seq(1..made)] /\ dying \in Seq(1..made)
  BY <1>1 DEF TypeOK
<1>3. Head(dying) = dying[1] /\ 1 \in DOMAIN dying
  BY <1>2, TailRange
<1>4. Head(dying) \in Range(dying)
  BY <1>3 DEF Range
<1>5. [root EXCEPT ![job.owner] = dying][job.owner] = dying
  BY <1>2
<1>6. Head(dying) \in Objects([root EXCEPT ![job.owner] = dying])
  BY <1>2, <1>4, <1>5 DEF Objects
<1> QED BY <1>1, <1>6 DEF FilesRight, Expected

LEMMA DestroyInv == IInv /\ Destroy => IInv'
<1> SUFFICES ASSUME IInv, Destroy PROVE IInv'
  OBVIOUS
<1> DEFINE o == Head(dying)
           own == job.owner
<1>1. TypeOK /\ IndexIsPosition /\ FilesRight /\ Apart /\ JobFits
  BY DEF IInv
<1>2. /\ step = "destroy" /\ dying # <<>> /\ index[o] \in DOMAIN files /\ Pop(o)
      /\ dying' = Tail(dying) /\ made' = made /\ pathOf' = pathOf
      /\ UNCHANGED <<root, step, job, fresh, left, broken>>
  BY DEF Destroy, Pop
<1>3. /\ own \in Owners /\ root \in [Owners -> Seq(1..made)] /\ dying \in Seq(1..made)
      /\ ~job.whole
  BY <1>1, <1>2 DEF TypeOK, JobFits
<1>4. /\ Tail(dying) \in Seq(1..made) /\ o \in 1..made /\ o = dying[1] /\ 1 \in DOMAIN dying
      /\ \A i \in DOMAIN Tail(dying) : Tail(dying)[i] = dying[i + 1] /\ i + 1 \in DOMAIN dying
      /\ Range(dying) = {o} \cup Range(Tail(dying))
  BY <1>2, <1>3, TailRange
<1>5. /\ files' \in Seq(1..made) /\ index' \in Seq(Nat) /\ Len(index') = made /\ IndexIsPosition'
  BY <1>1, <1>2, <1>4, PopNumbers
<1>6. TypeOK'
  BY <1>1, <1>2, <1>4, <1>5 DEF TypeOK
<1>7. o \notin Range(Tail(dying))
  <2> SUFFICES ASSUME NEW i \in DOMAIN Tail(dying), Tail(dying)[i] = o PROVE FALSE
    BY DEF Range
  <2>1. dying[i + 1] = dying[1] /\ i + 1 \in DOMAIN dying
    BY <1>4
  <2>2. i + 1 = 1
    BY <1>1, <1>4, <2>1 DEF JobFits
  <2>3. i \in Nat \ {0}
    BY <1>4
  <2> QED BY <2>2, <2>3
<1>8. o \in Range(root[own])
  BY <1>1, <1>4 DEF JobFits
<1>9. /\ o \notin left /\ o \notin Objects(fresh)
      /\ \A q \in Owners \ {own} : o \notin Range(root[q])
  <2>1. o \in Objects(root)
    BY <1>3, <1>8 DEF Objects
  <2>2. ASSUME NEW q \in Owners \ {own}, o \in Range(root[q]) PROVE FALSE
    <3>1. PICK i \in DOMAIN root[own], j \in DOMAIN root[q] : root[own][i] = root[q][j]
      BY <1>8, <2>2 DEF Range
    <3> QED BY <1>1, <1>3, <2>2, <3>1 DEF Apart, Single
  <2> QED BY <1>1, <2>1, <2>2 DEF Apart
<1>10. FilesRight'
  <2> SUFFICES ASSUME ~broken PROVE Range(files') = Expected'
    BY <1>2 DEF FilesRight
  <2>1. Range(files) = Expected /\ o \in Range(files)
    BY <1>1, <1>2, DyingListed DEF FilesRight
  <2>2. Range(files') = Range(files) \ {o}
    BY <1>1, <1>2, <2>1, PopRemoves
  <2> DEFINE was == [root EXCEPT ![own] = dying]
             now == [root EXCEPT ![own] = Tail(dying)]
  <2>3. /\ was[own] = dying /\ now[own] = Tail(dying)
        /\ \A q \in Owners \ {own} : was[q] = root[q] /\ now[q] = root[q]
    BY <1>3
  <2>4. Expected = Objects(was) \cup left \cup Objects(fresh)
    BY <1>2 DEF Expected
  <2>5. Expected' = Objects(now) \cup left \cup Objects(fresh)
    BY <1>2 DEF Expected
  <2> HIDE DEF was, now, o, own
  <2>6. ASSUME NEW x
        PROVE  /\ x \in Objects(was) <=>
                    x \in Range(dying) \/ \E q \in Owners \ {own} : x \in Range(root[q])
               /\ x \in Objects(now) <=>
                    x \in Range(Tail(dying)) \/ \E q \in Owners \ {own} : x \in Range(root[q])
    BY <1>3, <2>3 DEF Objects
  <2>7. ASSUME NEW x PROVE x \in Objects(now) <=> x \in Objects(was) /\ x # o
    BY <1>4, <1>7, <1>9, <2>6
  <2> QED BY <1>9, <2>1, <2>2, <2>4, <2>5, <2>7
<1>11. Apart'
  BY <1>1, <1>2 DEF Apart
<1>12. JobFits'
  <2>1. \A i \in DOMAIN dying' : dying'[i] \in Range(root'[job'.owner])
    BY <1>1, <1>2, <1>4 DEF JobFits
  <2>2. ASSUME NEW i \in DOMAIN dying', NEW j \in DOMAIN dying', dying'[i] = dying'[j]
        PROVE  i = j
    <3>1. dying[i + 1] = dying[j + 1] /\ i + 1 \in DOMAIN dying /\ j + 1 \in DOMAIN dying
      BY <1>2, <1>4, <2>2
    <3>2. i + 1 = j + 1
      BY <1>1, <3>1 DEF JobFits
    <3>3. i \in Nat /\ j \in Nat
      BY <1>2, <1>4
    <3> QED BY <3>2, <3>3
  <2> QED BY <1>1, <1>2, <2>1, <2>2 DEF JobFits
<1> QED BY <1>5, <1>6, <1>10, <1>11, <1>12 DEF IInv

LEMMA DestroyRaisesInv == IInv /\ DestroyRaises => IInv'
<1> SUFFICES ASSUME IInv, DestroyRaises PROVE IInv'
  OBVIOUS
<1>1. TypeOK /\ IndexIsPosition /\ Apart
  BY DEF IInv
<1>2. /\ Ended /\ UNCHANGED registry /\ root' = root /\ left' = left /\ broken' = broken
      /\ step = "destroy" /\ dying # <<>> /\ index[Head(dying)] \notin DOMAIN files
  BY DEF DestroyRaises
<1>3. broken'
  <2> SUFFICES ASSUME ~broken PROVE FALSE
    BY <1>2
  <2>1. PICK i \in DOMAIN files : Head(dying) = files[i]
    BY <1>2, DyingListed DEF Range
  <2> QED BY <1>1, <1>2, <2>1 DEF IndexIsPosition
<1>4. /\ root' \in [Owners -> Seq(1..made)] /\ Single(root') /\ left' \subseteq 1..made
      /\ broken' \in BOOLEAN /\ \A o \in Objects(root') : o \notin left'
  BY <1>1, <1>2 DEF TypeOK, Apart
<1> QED BY <1>2, <1>3, <1>4, EndInv

LEMMA DestroyedInv == IInv /\ Destroyed => IInv'
<1> SUFFICES ASSUME IInv, Destroyed PROVE IInv'
  OBVIOUS
<1> DEFINE own == job.owner
<1>1. TypeOK /\ FilesRight /\ Apart /\ JobFits
  BY DEF IInv
<1>2. /\ Ended /\ UNCHANGED registry /\ left' = left /\ broken' = broken
      /\ step = "destroy" /\ dying = <<>>
      /\ root' = [root EXCEPT ![own] = fresh[own]]
  BY DEF Destroyed
<1>3. /\ own \in Owners /\ root \in [Owners -> Seq(1..made)]
      /\ fresh \in [Owners -> Seq(1..made)] /\ left \subseteq 1..made /\ broken \in BOOLEAN
  BY <1>1 DEF TypeOK
<1>4. \A q \in Owners \ {own} : fresh[q] = <<>>
  BY <1>1, <1>2 DEF JobFits
<1>5. /\ root'[own] = fresh[own] /\ \A q \in Owners \ {own} : root'[q] = root[q]
      /\ root' \in [Owners -> Seq(1..made)]
  BY <1>2, <1>3
<1> HIDE DEF own
<1>0. DOMAIN <<>> = {} /\ Range(<<>>) = {}
  BY DEF Range
<1>6. ASSUME NEW x
      PROVE  x \in Objects(root') <=>
               x \in Objects(fresh) \/ \E q \in Owners \ {own} : x \in Range(root[q])
  <2>1. x \in Objects(fresh) <=> x \in Range(fresh[own])
    BY <1>0, <1>3, <1>4, InObjects
  <2>2. x \in Objects(root') <=>
          x \in Range(fresh[own]) \/ \E q \in Owners \ {own} : x \in Range(root[q])
    BY <1>3, <1>5 DEF Objects
  <2> QED BY <2>1, <2>2
<1>7. Single(root')
  <2> SUFFICES ASSUME NEW p \in Owners, NEW q \in Owners, NEW i \in DOMAIN root'[p],
                      NEW j \in DOMAIN root'[q], root'[p][i] = root'[q][j]
               PROVE  p = q /\ i = j
    BY DEF Single
  <2>1. CASE p = own /\ q = own
    BY <1>1, <1>5, <2>1 DEF Apart, Single
  <2>2. CASE p # own /\ q # own
    BY <1>1, <1>5, <2>2 DEF Apart, Single
  <2>3. CASE p = own /\ q # own
    <3>1. root'[p][i] \in Objects(fresh) /\ root'[q][j] \in Objects(root)
      BY <1>5, <2>3, InObjects DEF Range
    <3> QED BY <1>1, <3>1 DEF Apart
  <2>4. CASE p # own /\ q = own
    <3>1. root'[q][j] \in Objects(fresh) /\ root'[p][i] \in Objects(root)
      BY <1>5, <2>4, InObjects DEF Range
    <3> QED BY <1>1, <3>1 DEF Apart
  <2> QED BY <2>1, <2>2, <2>3, <2>4
<1>8. \A x \in Objects(root') : x \notin left'
  <2> SUFFICES ASSUME NEW x \in Objects(root') PROVE x \notin left
    BY <1>2
  <2>1. x \in Objects(fresh) \/ x \in Objects(root)
    BY <1>6 DEF Objects
  <2> QED BY <1>1, <2>1 DEF Apart
<1>9. ~broken' => Range(files) = Objects(root') \cup left'
  <2> SUFFICES ASSUME ~broken PROVE Range(files) = Objects(root') \cup left
    BY <1>2
  <2> DEFINE was == [root EXCEPT ![own] = <<>>]
  <2>1. was[own] = <<>> /\ \A q \in Owners \ {own} : was[q] = root[q]
    BY <1>3
  <2>2. Range(files) = Objects(was) \cup left \cup Objects(fresh)
    BY <1>1, <1>2 DEF FilesRight, Expected, own
  <2> HIDE DEF was
  <2>3. ASSUME NEW x
        PROVE  x \in Objects(was) <=> \E q \in Owners \ {own} : x \in Range(root[q])
    BY <1>0, <1>3, <2>1 DEF Objects
  <2> QED BY <1>6, <2>2, <2>3
<1> QED BY <1>2, <1>3, <1>5, <1>7, <1>8, <1>9, EndInv

LEMMA NextInv == IInv /\ [Next]_vars => IInv'
<1> SUFFICES ASSUME IInv, [Next]_vars PROVE IInv'
  OBVIOUS
<1>1. ASSUME NEW config \in Configs,
             PostConfig(config) \/ \E s \in HttpServices : PostService(s, config)
      PROVE  IInv'
  BY <1>1, PostInv
<1>2. CASE Build \/ BuildRaises
  BY <1>2, BuildInv, BuildRaisesInv
<1>3. CASE Analyze \/ Built
  BY <1>3, AnalyzeInv, BuiltInv
<1>4. CASE Destroy \/ DestroyRaises \/ Destroyed
  BY <1>4, DestroyInv, DestroyRaisesInv, DestroyedInv
<1>5. CASE Requesting
  BY <1>5, RequestInv DEF Requesting, Get, Post, Delete, Request
<1>6. CASE UNCHANGED vars
  BY <1>6, RequestInv DEF vars
<1> QED BY <1>1, <1>2, <1>3, <1>4, <1>5, <1>6 DEF Next, Posting

\* The inductive invariant: positions, what the list holds, and that no object
\* belongs to two.
THEOREM AlwaysInv == Spec => []IInv
BY InitInv, NextInv, PTL DEF Spec

-----------------------------------------------------------------------------
\* The types hold.
THEOREM TypeCorrect == Spec => []TypeOK
<1>1. IInv => TypeOK
  BY DEF IInv
<1> QED BY <1>1, AlwaysInv, PTL

\* ConfigExternalFilePath._index: every object of the list knows where it
\* stands, however often services were replaced and posts refused.
THEOREM Positions == Spec => []IndexIsPosition
<1>1. IInv => IndexIsPosition
  BY DEF IInv
<1> QED BY <1>1, AlwaysInv, PTL

-----------------------------------------------------------------------------
(***************************************************************************)
(* The refinement.                                                         *)
(***************************************************************************)
LEMMA InitRefines == Init => Abs!Init
<1> SUFFICES ASSUME Init PROVE Abs!Init
  OBVIOUS
<1>1. Range(<<>>) = {}
  BY DEF Range
<1>2. \A o \in Owners : PathsIn(Range(root[o])) = {}
  BY <1>1 DEF Init, No, PathsIn
<1>3. PathsIn(left) = {} /\ answer = {} /\ broken = FALSE
  BY DEF Init, PathsIn
<1> QED BY <1>2, <1>3 DEF Abs!Init

\* The paths of objects stay what they are.
LEMMA PathsStay ==
  ASSUME TypeOK, NEW objects, objects \subseteq 1..made,
         \/ UNCHANGED pathOf
         \/ \E path \in Paths : pathOf' = Append(pathOf, path)
  PROVE  {pathOf'[o] : o \in objects} = PathsIn(objects)
<1>1. ASSUME NEW o \in objects PROVE pathOf'[o] = pathOf[o]
  <2>1. pathOf \in Seq(Paths) /\ o \in 1..Len(pathOf)
    BY DEF TypeOK
  <2>2. ASSUME NEW path \in Paths, pathOf' = Append(pathOf, path) PROVE pathOf'[o] = pathOf[o]
    BY <2>1, <2>2, AppendProperties
  <2> QED BY <2>2
<1> QED BY <1>1 DEF PathsIn

\* What Listing sees of the files, now and in the next state.
LEMMA SeenSame ==
  ASSUME TypeOK, UNCHANGED <<root, left, broken, answer>>,
         \/ UNCHANGED pathOf
         \/ \E path \in Paths : pathOf' = Append(pathOf, path)
  PROVE  UNCHANGED Abs!vars
<1>1. \A o \in Owners : Range(root[o]) \subseteq 1..made
  <2> SUFFICES ASSUME NEW o \in Owners, NEW i \in DOMAIN root[o] PROVE root[o][i] \in 1..made
    BY DEF Range
  <2>1. root[o] \in Seq(1..made)
    BY DEF TypeOK
  <2> QED BY <2>1, ElementOf
<1>2. \A o \in Owners : PathsIn(Range(root[o]))' = PathsIn(Range(root[o]))
  <2> SUFFICES ASSUME NEW o \in Owners
               PROVE  {pathOf'[x] : x \in Range(root[o])} = PathsIn(Range(root[o]))
    BY DEF PathsIn
  <2> QED BY <1>1, PathsStay
<1>3. PathsIn(left)' = PathsIn(left)
  <2>1. left \subseteq 1..made
    BY DEF TypeOK
  <2>2. {pathOf'[x] : x \in left} = PathsIn(left)
    BY <2>1, PathsStay
  <2> QED BY <2>2 DEF PathsIn
<1> QED BY <1>2, <1>3 DEF Abs!vars

\* Every object's path is one that configurations may refer to.
SeenTyped ==
  /\ PathsIn(left) \subseteq Paths
  /\ [o \in Owners |-> PathsIn(Range(root[o]))] \in [Owners -> SUBSET Paths]
LEMMA SeenTypes == TypeOK => SeenTyped
<1> SUFFICES ASSUME TypeOK PROVE SeenTyped
  OBVIOUS
<1>1. \A x \in 1..made : pathOf[x] \in Paths
  BY DEF TypeOK
<1>2. \A o \in Owners : Range(root[o]) \subseteq 1..made
  <2> SUFFICES ASSUME NEW o \in Owners, NEW i \in DOMAIN root[o] PROVE root[o][i] \in 1..made
    BY DEF Range
  <2>1. root[o] \in Seq(1..made)
    BY DEF TypeOK
  <2> QED BY <2>1, ElementOf
<1>3. left \subseteq 1..made
  BY DEF TypeOK
<1> QED BY <1>1, <1>2, <1>3 DEF SeenTyped, PathsIn

LEMMA StepRefines == IInv /\ IInv' /\ [Next]_vars => [Abs!Next]_Abs!vars
<1> SUFFICES ASSUME IInv, IInv', [Next]_vars PROVE [Abs!Next]_Abs!vars
  OBVIOUS
<1> DEFINE R == [o \in Owners |-> PathsIn(Range(root[o]))]
<1>1. TypeOK /\ TypeOK'
  BY DEF IInv
<1>0. SeenTyped'
  BY <1>1, SeenTypes, PTL
<1>2. CASE UNCHANGED <<root, left, broken, answer, pathOf>>
  BY <1>1, <1>2, SeenSame
<1>3. CASE Build
  <2>1. UNCHANGED <<root, left, broken, answer>>
    BY <1>3 DEF Build
  <2>2. pathOf' = Append(pathOf, Head(job.todo).path) /\ Head(job.todo).path \in Paths
    <3>1. job.todo \in Seq(References) /\ job.todo # <<>>
      BY <1>1, <1>3 DEF Build, TypeOK
    <3>2. Head(job.todo) \in References
      BY <3>1, TailRange
    <3> QED BY <1>3, <3>2 DEF Build, Make, References
  <2> QED BY <1>1, <2>1, <2>2, SeenSame
<1>4. CASE BuildRaises
  <2>1. pathOf' = pathOf /\ root' = root /\ answer' = answer
    BY <1>4 DEF BuildRaises, registry
  <2>2. R' = R
    BY <2>1 DEF PathsIn
  <2>3. CASE job.whole
    <3>1. broken' = TRUE /\ left' = left
      BY <1>4, <2>3 DEF BuildRaises
    <3>2. Abs!Spoil
      BY <2>1, <2>2, <3>1 DEF Abs!Spoil, PathsIn
    <3> QED BY <3>2 DEF Abs!Next
  <2>4. CASE ~job.whole
    <3>1. broken' = broken /\ left \subseteq left'
      BY <1>4, <2>4 DEF BuildRaises
    <3>2. PathsIn(left) \subseteq PathsIn(left)' /\ PathsIn(left)' \subseteq Paths
      BY <1>0, <2>1, <3>1 DEF SeenTyped, PathsIn
    <3>3. Abs!Refuse
      BY <2>1, <2>2, <3>1, <3>2 DEF Abs!Refuse
    <3> QED BY <3>3 DEF Abs!Next
  <2> QED BY <2>3, <2>4
<1>5. CASE Analyze
  <2>1. pathOf' = pathOf /\ answer' = answer
    BY <1>5 DEF Analyze, registry
  <2>2. CASE job.analysable
    <3>1. broken' = FALSE /\ left' = {}
      BY <1>5, <2>2 DEF Analyze
    <3>2. PathsIn(left)' = {}
      BY <3>1 DEF PathsIn
    <3>3. R' \in [Owners -> SUBSET Paths]
      BY <1>0 DEF SeenTyped
    <3>4. Abs!Replace
      BY <2>1, <3>1, <3>2, <3>3 DEF Abs!Replace
    <3> QED BY <3>4 DEF Abs!Next
  <2>3. CASE ~job.analysable
    <3>1. broken' = TRUE /\ left' = left /\ root' = root
      BY <1>5, <2>3 DEF Analyze
    <3>2. Abs!Spoil
      BY <2>1, <3>1 DEF Abs!Spoil, PathsIn
    <3> QED BY <3>2 DEF Abs!Next
  <2> QED BY <2>2, <2>3
<1>6. CASE Destroyed
  <2>1. /\ pathOf' = pathOf /\ answer' = answer /\ left' = left /\ broken' = broken
        /\ job.owner \in Owners /\ root' = [root EXCEPT ![job.owner] = fresh[job.owner]]
        /\ root \in [Owners -> Seq(1..made)]
    BY <1>1, <1>6 DEF Destroyed, registry, TypeOK
  <2>2. \A o \in Owners \ {job.owner} : root'[o] = root[o]
    BY <2>1
  <2>3. \A o \in Owners \ {job.owner} : R'[o] = R[o]
    BY <2>1, <2>2 DEF PathsIn
  <2>4. R' \in [Owners -> SUBSET Paths]
    BY <1>0 DEF SeenTyped
  <2>5. PathsIn(left)' = PathsIn(left)
    BY <2>1 DEF PathsIn
  <2>6. Abs!ReplaceOne
    <3> HIDE DEF R
    <3> QED BY <2>1, <2>3, <2>4, <2>5 DEF Abs!ReplaceOne, R
  <2> QED BY <2>6 DEF Abs!Next
<1>7. CASE Get
  <2>1. /\ pathOf' = pathOf /\ left' = left /\ broken' = broken /\ root' = root
        /\ step = "idle" /\ answer' = Listed
    BY <1>7 DEF Get, Request, registry
  <2>2. R' = R /\ PathsIn(left)' = PathsIn(left)
    BY <2>1 DEF PathsIn
  <2>3. answer' \subseteq Paths
    <3>1. \A i \in DOMAIN files : files[i] \in 1..made
      BY <1>1, ElementOf DEF TypeOK
    <3>2. \A x \in 1..made : pathOf[x] \in Paths
      BY <1>1 DEF TypeOK
    <3> QED BY <2>1, <3>1, <3>2 DEF Listed, ListedPaths, PathsIn, Range
  <2>4. ASSUME ~broken
        PROVE  answer' = ((UNION {R[o] : o \in Owners}) \cup PathsIn(left)) \ Hidden
    <3>1. Range(files) = Objects(root) \cup left
      BY <2>1, <2>4 DEF IInv, FilesRight, Expected
    <3>2. PathsIn(Range(files)) = PathsIn(Objects(root)) \cup PathsIn(left)
      BY <3>1 DEF PathsIn
    <3>3. PathsIn(Objects(root)) = UNION {R[o] : o \in Owners}
      BY DEF PathsIn, Objects
    <3> QED BY <2>1, <3>2, <3>3 DEF Listed, ListedPaths
  <2>5. Abs!List
    BY <2>1, <2>2, <2>3, <2>4 DEF Abs!List
  <2> QED BY <2>5 DEF Abs!Next
<1>8. ASSUME NEW config \in Configs,
             PostConfig(config) \/ \E s \in HttpServices : PostService(s, config)
      PROVE  UNCHANGED <<root, left, broken, answer, pathOf>>
  BY <1>8 DEF PostConfig, PostService, registry
<1>9. ASSUME Built \/ Destroy \/ DestroyRaises \/ UNCHANGED vars
             \/ (\E parts \in SeqOf(Paths, MaxParts) : Post(parts))
             \/ \E p \in Paths, keep \in BOOLEAN : Delete(p, keep)
      PROVE  UNCHANGED <<root, left, broken, answer, pathOf>>
  BY <1>9 DEF Built, Destroy, Pop, DestroyRaises, vars, registry, Post, Delete, Request
<1> QED BY <1>2, <1>3, <1>4, <1>5, <1>6, <1>7, <1>8, <1>9 DEF Next, Posting, Requesting

\* GET /resources lists the files of the configuration in force and of refused
\* single services: Resources implements Listing.
THEOREM Implements == Spec => AbsSpec
<1>1. Spec => []IInv
  BY AlwaysInv
<1> QED BY <1>1, InitRefines, StepRefines, PTL DEF Spec, AbsSpec, Abs!Spec
-----------------------------------------------------------------------------
(***************************************************************************)
(* Files and directories.                                                  *)
(***************************************************************************)
LEMMA ParentIs ==
  ASSUME NEW S, NEW p \in Seq(S), NEW d \in Parents(p)
  PROVE  /\ d \in Seq(S) /\ Len(d) \in 1..(Len(p) - 1)
         /\ \A i \in 1..Len(d) : d[i] = p[i]
         /\ d # p /\ Below(p, d)
<1>1. PICK n \in 1..(Len(p) - 1) : d = SubSeq(p, 1, n)
  BY DEF Parents
<1>2. Len(p) \in Nat /\ 1 \in 1..(Len(p) + 1) /\ n \in 1..Len(p) /\ n <= Len(p)
  BY <1>1
<1>3. d \in Seq(S) /\ Len(d) = n /\ \A i \in 1..n : d[i] = p[i]
  BY <1>1, <1>2, SubSeqProperties
<1> QED BY <1>1, <1>2, <1>3 DEF Below

LEMMA BelowIs ==
  ASSUME NEW S, NEW p \in Seq(S), NEW d \in Seq(S)
  PROVE  Below(p, d) <=> Len(d) < Len(p) /\ \A i \in 1..Len(d) : d[i] = p[i]
<1> DEFINE q == SubSeq(p, 1, Len(d))
<1> SUFFICES ASSUME Len(d) < Len(p)
             PROVE  q = d <=> \A i \in 1..Len(d) : d[i] = p[i]
  BY DEF Below
<1>1. /\ Len(p) \in Nat /\ Len(d) \in Nat /\ 1 \in 1..(Len(p) + 1)
      /\ Len(d) \in 0..Len(p) /\ Len(d) <= Len(p)
  OBVIOUS
<1>2. q \in Seq(S) /\ Len(q) = Len(d) /\ \A i \in 1..Len(d) : q[i] = p[i]
  BY <1>1, SubSeqProperties
<1> HIDE DEF q
<1>3. q = d <=> \A i \in 1..Len(d) : q[i] = d[i]
  BY <1>2, SeqEqual
<1> QED BY <1>2, <1>3

\* What is above a directory that something is below.
LEMMA BelowAll ==
  ASSUME NEW S, NEW p \in Seq(S), NEW c \in Seq(S), NEW d \in Seq(S), Below(p, c), Below(c, d)
  PROVE  Below(p, d)
<1>1. /\ Len(p) \in Nat /\ Len(c) \in Nat /\ Len(d) \in Nat
      /\ Len(c) < Len(p) /\ \A i \in 1..Len(c) : c[i] = p[i]
      /\ Len(d) < Len(c) /\ \A i \in 1..Len(d) : d[i] = c[i]
  BY BelowIs
<1>2. \A i \in 1..Len(d) : i \in 1..Len(c)
  BY <1>1
<1>3. Len(d) < Len(p) /\ \A i \in 1..Len(d) : d[i] = p[i]
  BY <1>1, <1>2
<1> QED BY <1>3, BelowIs

LEMMA ParentsAll ==
  ASSUME NEW S, NEW p \in Seq(S), NEW d \in Parents(p)
  PROVE  Parents(d) \subseteq Parents(p)
<1> SUFFICES ASSUME NEW c \in Parents(d) PROVE c \in Parents(p)
  OBVIOUS
<1>1. d \in Seq(S) /\ Len(d) \in 1..(Len(p) - 1) /\ \A i \in 1..Len(d) : d[i] = p[i]
  BY ParentIs
<1>2. c \in Seq(S) /\ Len(c) \in 1..(Len(d) - 1) /\ \A i \in 1..Len(c) : c[i] = d[i]
  BY <1>1, ParentIs
<1>3. Len(p) \in Nat /\ Len(d) \in Nat /\ Len(c) \in 1..(Len(p) - 1)
  BY <1>1, <1>2
<1>4. \A i \in 1..Len(c) : i \in 1..Len(d)
  BY <1>1, <1>2
<1>5. Len(c) < Len(p) /\ \A i \in 1..Len(c) : c[i] = p[i]
  BY <1>1, <1>2, <1>3, <1>4
<1>6. SubSeq(p, 1, Len(c)) = c
  BY <1>2, <1>5, BelowIs DEF Below
<1> QED BY <1>3, <1>6 DEF Parents

\* The parts of an upload, one after the other: the function by which the fold
\* of the library is defined, on the sets of the first n positions.
FoldIs(seq, n, base, f) ==
  f = [s \in SUBSET (1..n) |->
         IF s = {} THEN base ELSE Write(f[s \ {Max(s)}], seq[Max(s)])]

\* A set of naturals has a least element.
LEMMA LeastOf ==
  ASSUME NEW S, S \subseteq Nat, S # {}
  PROVE  \E n \in S : \A m \in S : n <= m
<1> DEFINE Less == {x \in Nat \X Nat : x[1] < x[2]}
<1>1. IsWellFoundedOn(Less, Nat)
  BY NatLessThanWellFounded DEF OpToRel
<1>2. PICK n \in S : \A m \in S : <<m, n>> \notin Less
  <2> HIDE DEF Less
  <2> QED BY <1>1, WFMin
<1>3. ASSUME NEW m \in S PROVE n <= m
  <2>1. m \in Nat /\ n \in Nat /\ ~(m < n)
    BY <1>2
  <2> QED BY <2>1
<1> QED BY <1>3

\* The largest of the first n positions.
LEMMA MaxLast ==
  ASSUME NEW n \in Nat, NEW s \in SUBSET (1..n), n \in s
  PROVE  Max(s) = n
<1>1. \A x \in s : n >= x
  OBVIOUS
<1>2. ASSUME NEW x \in s, \A y \in s : x >= y PROVE x = n
  <2>1. x >= n /\ n >= x /\ x \in Int
    BY <1>1, <1>2
  <2> QED BY <2>1
<1>3. PICK x \in s : x = Max(s) /\ \A y \in s : x >= y
  BY <1>1 DEF Max
<1> QED BY <1>2, <1>3

\* There is such a function for every number of positions: one more position
\* is one more write.
LEMMA FoldExists ==
  ASSUME NEW seq, NEW base, NEW n \in Nat
  PROVE  \E f : FoldIs(seq, n, base, f)
<1> DEFINE Wrong == {m \in Nat : ~\E f : FoldIs(seq, m, base, f)}
<1> SUFFICES ASSUME Wrong # {} PROVE FALSE
  OBVIOUS
<1>1. PICK m \in Wrong : \A k \in Wrong : m <= k
  <2> HIDE DEF Wrong
  <2>1. Wrong \subseteq Nat
    BY DEF Wrong
  <2> QED BY <2>1, LeastOf
<1>2. m # 0
  <2>1. SUBSET (1..0) = {{}}
    OBVIOUS
  <2>2. FoldIs(seq, 0, base, [s \in {{}} |-> base])
    BY <2>1 DEF FoldIs
  <2> QED BY <2>2
<1>3. m \in Nat /\ m - 1 \in Nat /\ m - 1 \notin Wrong
  BY <1>1, <1>2
<1>4. PICK f : FoldIs(seq, m - 1, base, f)
  BY <1>3
<1> DEFINE g == [s \in SUBSET (1..m) |->
                   IF m \in s THEN Write(f[s \ {m}], seq[m]) ELSE f[s]]
<1>5. ASSUME NEW s \in SUBSET (1..m)
      PROVE  g[s] = IF s = {} THEN base ELSE Write(g[s \ {Max(s)}], seq[Max(s)])
  <2>1. CASE m \in s
    <3>1. Max(s) = m
      BY <1>3, <2>1, MaxLast
    <3>2. s \ {m} \in SUBSET (1..m) /\ m \notin s \ {m} /\ s # {}
      BY <2>1
    <3>3. g[s] = Write(f[s \ {m}], seq[m]) /\ g[s \ {m}] = f[s \ {m}]
      BY <2>1, <3>2
    <3> HIDE DEF g
    <3> QED BY <3>1, <3>2, <3>3
  <2>2. CASE m \notin s
    <3>0. \A x \in s : x \in 1..(m - 1)
      BY <1>3, <2>2
    <3>1. s \in SUBSET (1..(m - 1)) /\ s \ {Max(s)} \in SUBSET (1..m) /\ m \notin s \ {Max(s)}
      BY <2>2, <3>0
    <3>2. g[s] = f[s] /\ g[s \ {Max(s)}] = f[s \ {Max(s)}]
      BY <2>2, <3>1
    <3>3. f[s] = IF s = {} THEN base ELSE Write(f[s \ {Max(s)}], seq[Max(s)])
      BY <1>4, <3>1 DEF FoldIs
    <3> HIDE DEF g
    <3> QED BY <3>2, <3>3
  <2> QED BY <2>1, <2>2
<1>6. FoldIs(seq, m, base, g)
  BY <1>5 DEF FoldIs
<1> QED BY <1>1, <1>6

LEMMA FoldHas ==
  ASSUME NEW S, NEW seq \in Seq(S), NEW base
  PROVE  \E f : /\ FoldIs(seq, Len(seq), base, f)
                /\ FoldLeft(Write, base, seq) = f[1..Len(seq)]
<1> DEFINE c == CHOOSE f : FoldIs(seq, Len(seq), base, f)
<1>0. DOMAIN seq = 1..Len(seq) /\ Len(seq) \in Nat
  OBVIOUS
<1>1. FoldLeft(Write, base, seq) = c[1..Len(seq)]
  BY <1>0 DEF FoldLeft, MapThenFoldSet, FoldIs
<1>2. FoldIs(seq, Len(seq), base, c)
  BY <1>0, FoldExists
<1> HIDE DEF c
<1> QED BY <1>1, <1>2

-----------------------------------------------------------------------------
(***************************************************************************)
(* What lies below source_dir stays a tree, and only what the              *)
(* configuration refers to comes and goes.                                 *)
(***************************************************************************)
Names == Seq(STRING)
TreeInv == disk \subseteq Names /\ dirs \subseteq Names /\ Tree(disk, dirs)

\* Of the parts written so far.
Fine(acc) == /\ acc.disk \subseteq Names /\ acc.dirs \subseteq Names
             /\ Tree(acc.disk, acc.dirs)
             /\ disk \subseteq acc.disk /\ acc.disk \ disk \subseteq Listed

LEMMA WriteFine ==
  ASSUME NEW acc, Fine(acc), NEW p \in Paths
  PROVE  Fine(Write(acc, p))
<1>1. CASE acc.over \/ ~Accepted(p, acc.dirs) \/ ~Writable(p, acc.disk)
  <2>1. Write(acc, p) = [acc EXCEPT !.over = TRUE]
    BY <1>1 DEF Write
  <2>2. Write(acc, p).disk = acc.disk /\ Write(acc, p).dirs = acc.dirs
    BY <2>1
  <2> QED BY <2>2 DEF Fine
<1>2. CASE ~(acc.over \/ ~Accepted(p, acc.dirs) \/ ~Writable(p, acc.disk))
  <2>1. Write(acc, p).disk = acc.disk \cup {p} /\ Write(acc, p).dirs = acc.dirs \cup Parents(p)
    BY <1>2 DEF Write
  <2>2. p \in Listed /\ p \notin acc.dirs /\ Parents(p) \cap acc.disk = {}
    BY <1>2 DEF Accepted, Writable
  <2>3. p \in Names
    BY ResourcesAssumption DEF Names
  <2>4. Parents(p) \subseteq Names /\ p \notin Parents(p)
    BY <2>3, ParentIs DEF Names
  <2>5. \A d \in Parents(p) : Parents(d) \subseteq Parents(p)
    BY <2>3, ParentsAll DEF Names
  <2> HIDE DEF Write
  <2>6. Tree(Write(acc, p).disk, Write(acc, p).dirs)
    BY <2>1, <2>2, <2>4, <2>5 DEF Tree, Fine
  <2> QED BY <2>1, <2>2, <2>3, <2>4, <2>6 DEF Fine
<1> QED BY <1>1, <1>2

\* However many parts, each is written on top of what those before it left.
LEMMA PartsFine ==
  ASSUME NEW parts \in Seq(Paths), NEW base, Fine(base)
  PROVE  Fine(FoldLeft(Write, base, parts))
<1>1. PICK f : /\ FoldIs(parts, Len(parts), base, f)
               /\ FoldLeft(Write, base, parts) = f[1..Len(parts)]
  BY FoldHas
<1>2. Len(parts) \in Nat /\ \A i \in 1..Len(parts) : parts[i] \in Paths
  OBVIOUS
<1> DEFINE Wrong == {n \in 0..Len(parts) : ~Fine(f[1..n])}
<1> SUFFICES Wrong = {}
  BY <1>1, <1>2
<1> SUFFICES ASSUME Wrong # {} PROVE FALSE
  OBVIOUS
<1>3. PICK n \in Wrong : \A m \in Wrong : n <= m
  <2>1. Wrong \subseteq Nat
    BY <1>2
  <2> HIDE DEF Wrong
  <2> QED BY <2>1, LeastOf
<1>4. n # 0
  <2>1. 1..0 = {} /\ {} \in SUBSET (1..Len(parts))
    OBVIOUS
  <2>2. f[{}] = base
    BY <1>1, <2>1 DEF FoldIs
  <2> QED BY <1>3, <2>1, <2>2
<1>5. n \in 1..Len(parts) /\ n - 1 \in 0..Len(parts) /\ n - 1 \notin Wrong /\ n \in Nat
  BY <1>2, <1>3, <1>4
<1>6. 1..n \in SUBSET (1..Len(parts)) /\ n \in 1..n /\ (1..n) \ {n} = 1..(n - 1)
  BY <1>2, <1>5
<1>7. Max(1..n) = n
  BY <1>5, <1>6, MaxLast
<1>8. f[1..n] = Write(f[1..(n - 1)], parts[n])
  BY <1>1, <1>6, <1>7 DEF FoldIs
<1>9. Fine(f[1..(n - 1)]) /\ parts[n] \in Paths
  BY <1>2, <1>5
<1> QED BY <1>3, <1>8, <1>9, WriteFine

LEMMA PostFine ==
  ASSUME TreeInv, NEW parts \in Seq(Paths), Post(parts)
  PROVE  TreeInv' /\ disk \subseteq disk' /\ disk' \ disk \subseteq Listed
<1> DEFINE base == [disk |-> disk, dirs |-> dirs, over |-> FALSE]
<1>1. Fine(base)
  BY DEF Fine, TreeInv
<1>2. PICK w : w = FoldLeft(Write, base, parts)
  OBVIOUS
<1>3. Fine(w)
  <2> HIDE DEF base
  <2> QED BY <1>1, <1>2, PartsFine
<1>4. disk' = w.disk /\ dirs' = w.dirs
  BY <1>2 DEF Post
<1> QED BY <1>3, <1>4 DEF TreeInv, Fine

LEMMA DeleteFine ==
  ASSUME TreeInv, NEW p \in Paths, NEW keep \in BOOLEAN, Delete(p, keep)
  PROVE  /\ TreeInv' /\ disk' \subseteq disk
         /\ \A q \in disk \ disk' : q \in Listed \/ \E d \in Listed : Below(q, d)
<1> DEFINE ds == {p} \cup IF p \in disk /\ ~keep THEN Emptied(p) ELSE {}
<1>1. /\ p \in Listed /\ p \in Names
      /\ TakeAway(ds)
  BY ResourcesAssumption DEF Delete, Names
<1>2. /\ ds \subseteq Names
      /\ \A d \in ds : d # p => d \in Emptied(p) /\ d \in Parents(p) /\ p \in disk
  <2>1. Parents(p) \subseteq Names
    BY <1>1, ParentIs DEF Names
  <2>2. ds \subseteq {p} \cup Emptied(p) /\ (p \in disk \/ ds = {p})
    OBVIOUS
  <2>3. Emptied(p) \subseteq Parents(p)
    BY DEF Emptied
  <2> HIDE DEF ds
  <2>4. ds \subseteq Names
    BY <1>1, <2>1, <2>2, <2>3
  <2>5. ASSUME NEW d \in ds, d # p
        PROVE  d \in Emptied(p) /\ d \in Parents(p) /\ p \in disk
    BY <2>2, <2>3, <2>5
  <2> QED BY <2>4, <2>5
<1> HIDE DEF ds
<1>3. disk' \subseteq disk /\ dirs' \subseteq dirs
  BY <1>1 DEF TakeAway
<1>4. ASSUME NEW q \in disk' \cup dirs' PROVE Parents(q) \subseteq dirs'
  <2> SUFFICES ASSUME NEW d \in Parents(q) PROVE d \in dirs'
    OBVIOUS
  <2>1. q \in Names /\ d \in dirs /\ d \in Names
    BY <1>3, <1>4 DEF TreeInv, Tree
  <2>2. Below(q, d) /\ q \notin ds /\ \A c \in ds : ~Below(q, c)
    BY <1>1, <1>4, <2>1, ParentIs DEF TakeAway, Names
  <2>3. ASSUME NEW c \in ds, d = c \/ Below(d, c) PROVE FALSE
    BY <1>2, <2>1, <2>2, <2>3, BelowAll DEF Names
  <2> QED BY <1>1, <2>1, <2>3 DEF TakeAway
<1>5. TreeInv'
  BY <1>3, <1>4 DEF TreeInv, Tree
<1>6. ASSUME NEW q \in disk \ disk' PROVE q \in Listed \/ Below(q, p)
  <2>1. PICK d \in ds : q = d \/ Below(q, d)
    BY <1>1, <1>6 DEF TakeAway
  <2>2. CASE d = p
    BY <1>1, <2>1, <2>2
  <2>3. CASE d # p /\ q # p
    <3>1. d \in Emptied(p) /\ d \in Parents(p) /\ p \in disk
      BY <1>2, <2>3
    <3>2. q \in Parents(p)
      BY <1>6, <2>1, <2>3, <3>1 DEF Emptied, Inside
    <3> QED BY <1>6, <3>1, <3>2 DEF TreeInv, Tree
  <2> QED BY <1>1, <2>2, <2>3
<1> QED BY <1>1, <1>3, <1>5, <1>6

LEMMA InitTree == Init => TreeInv
BY ResourcesAssumption DEF Init, TreeInv, Names

Changed == {q \in (disk \ disk') \cup (disk' \ disk) :
              ~(q \in Listed \/ \E d \in Listed : Below(q, d))}
LEMMA NextTree == TreeInv /\ [Next]_vars => TreeInv' /\ Changed = {}
<1> SUFFICES ASSUME TreeInv, [Next]_vars PROVE TreeInv' /\ Changed = {}
  OBVIOUS
<1>1. CASE UNCHANGED tree
  BY <1>1 DEF tree, TreeInv, Changed
<1>2. ASSUME NEW parts \in SeqOf(Paths, MaxParts), Post(parts)
      PROVE  TreeInv' /\ Changed = {}
  <2>1. PICK m \in 0..MaxParts : parts \in [1..m -> Paths]
    BY DEF SeqOf
  <2>2. parts \in Seq(Paths)
    <3>1. m \in Nat
      BY <2>1, ResourcesAssumption
    <3> QED BY <2>1, <3>1
  <2> QED BY <1>2, <2>2, PostFine DEF Changed
<1>3. ASSUME NEW p \in Paths, NEW keep \in BOOLEAN, Delete(p, keep)
      PROVE  TreeInv' /\ Changed = {}
  BY <1>3, DeleteFine DEF Changed
<1>4. CASE Posting
  <2>1. UNCHANGED tree
    BY <1>4 DEF Posting, PostConfig, PostService, Build, BuildRaises, Analyze, Built, Destroy,
         DestroyRaises, Destroyed
  <2> QED BY <1>1, <2>1
<1>5. CASE UNCHANGED vars
  BY <1>1, <1>5 DEF vars
<1>6. CASE Get
  BY <1>1, <1>6 DEF Get
<1> QED BY <1>2, <1>3, <1>4, <1>5, <1>6 DEF Next, Requesting

\* POST and DELETE of /resources: below source_dir nothing appears or goes but
\* what the configuration refers to, itself or through a directory, however
\* many parts an upload has and whatever the upward walk of a delete finds.
THEOREM OnlyReferenced == Spec => OnlyReferencedChange
<1>1. TreeInv /\ [Next]_vars =>
        [\A q \in (disk \ disk') \cup (disk' \ disk) :
           q \in Listed \/ \E d \in Listed : Below(q, d)]_vars
  BY NextTree DEF Changed
<1> QED BY <1>1, InitTree, NextTree, PTL DEF Spec, OnlyReferencedChange
=============================================================================
