----------------------- MODULE HttpAlternativeProofs -----------------------
(***************************************************************************)
(* What holds of HttpAlternative for every configuration, every list of    *)
(* responses and rows, and every number of requests.                       *)
(***************************************************************************)
EXTENDS HttpAlternative, WellFoundedInduction, TLAPS

\* CHOOSE finds the least element of a nonempty set of naturals.
LEMMA FirstIsLeast ==
  ASSUME NEW S, S \subseteq Nat, S # {}
  PROVE  First(S) \in S /\ \A j \in S : First(S) <= j
  <1>. DEFINE Less == {p \in Nat \X Nat : p[1] < p[2]}
  <1>1. IsWellFoundedOn(Less, Nat)
    BY NatLessThanWellFounded DEF OpToRel
  <1>2. PICK x \in S : \A y \in S : <<y, x>> \notin Less
    <2>. HIDE DEF Less
    <2>. QED
      BY <1>1, WFMin
  <1>3. \A y \in S : x <= y
    <2>1. TAKE y \in S
    <2>2. x \in Nat /\ y \in Nat
      OBVIOUS
    <2>3. ~ (y < x)
      BY <1>2, <2>2
    <2>. QED
      BY <2>2, <2>3
  <1>. QED
    BY <1>3 DEF First

(***************************************************************************)
(* What loop_alternative returns, from an index it may find.               *)
(***************************************************************************)
LEMMA ListsType ==
  ASSUME TypeOK, NEW k \in Lists
  PROVE  /\ alternative.looped[k] \in BOOLEAN
         /\ Last(k) \in Int /\ Last(k) >= -1
  <1>1. alternative \in AlternativeType
    BY AlternativeAssumption DEF AlternativeAssumption, TypeOK
  <1>2. alternative.items[k] \in Items /\ alternative.looped[k] \in BOOLEAN
    BY <1>1 DEF AlternativeType
  <1>3. Len(alternative.items[k]) \in Nat
    BY <1>2 DEF Items
  <1>. QED
    BY <1>2, <1>3 DEF Last

\* A list that is not looped gives an item past the index, at the new index,
\* or nothing with the index past the list; a looped one keeps the index in it.
LEMMA LoopResult ==
  ASSUME TypeOK, NEW k \in Lists, NEW i \in Nat \cup {NoIndex}
  PROVE  /\ Loop(k, i).index \in Nat
         /\ Loop(k, i).taken \in Taken
         /\ ~alternative.looped[k] =>
              \/ /\ Loop(k, i).taken = Loop(k, i).index
                 /\ i < Loop(k, i).index /\ Loop(k, i).index <= Last(k)
              \/ /\ Loop(k, i).taken = Gone
                 /\ i < Loop(k, i).index /\ Last(k) < Loop(k, i).index
         /\ alternative.looped[k] => Loop(k, i).index <= Larger(Last(k), 0)
  <1>1. Last(k) \in Int /\ Last(k) >= -1
    BY ListsType
  <1>2. From(i) \in Nat /\ i < From(i)
    BY DEF From, NoIndex
  <1>3. CASE Ahead(k, i) # {}
    <2>1. Ahead(k, i) \subseteq From(i) .. Last(k)
      BY DEF Ahead
    <2>2. Ahead(k, i) \subseteq Nat
      BY <1>1, <1>2, <2>1
    <2>3. First(Ahead(k, i)) \in Ahead(k, i)
      BY <1>3, <2>2, FirstIsLeast
    <2>4. /\ First(Ahead(k, i)) \in Nat
          /\ i < First(Ahead(k, i))
          /\ First(Ahead(k, i)) <= Last(k)
      BY <1>1, <1>2, <2>1, <2>3 DEF NoIndex
    <2>5. /\ Loop(k, i).index = First(Ahead(k, i))
          /\ Loop(k, i).taken = First(Ahead(k, i))
      BY <1>3 DEF Loop
    <2>. QED
      BY <1>1, <2>4, <2>5 DEF Taken, Larger
  <1>4. CASE Ahead(k, i) = {} /\ Restarts(k, i)
    <2>1. Loop(k, i).index = 0 /\ Loop(k, i).taken \in {0, Gone}
      BY <1>4 DEF Loop
    <2>. QED
      BY <1>1, <1>4, <2>1 DEF Taken, Larger, Restarts
  <1>5. CASE Ahead(k, i) = {} /\ ~Restarts(k, i)
    <2>1. Loop(k, i).index = Past(k, i) /\ Loop(k, i).taken = Gone
      BY <1>5 DEF Loop
    <2>2. Past(k, i) \in Nat /\ i < Past(k, i) /\ Last(k) < Past(k, i)
      BY <1>1 DEF Past, Larger, NoIndex
    <2>. QED
      BY <1>5, <2>1, <2>2 DEF Taken, Restarts
  <1>. QED
    BY <1>3, <1>4, <1>5

(***************************************************************************)
(* The inductive invariant.  Per list: it was never walked when there is   *)
(* nothing to walk, and what it gave lies behind the index unless it is    *)
(* looped.                                                                 *)
(***************************************************************************)
Unused ==
  /\ ~IsMulti => index["response"] = NoIndex
  /\ ~alternative.hasDataset => index["dataset"] = NoIndex

Behind(k) ==
  \A n \in DOMAIN walk[k] :
    IF walk[k][n] = Gone THEN Last(k) < index[k] ELSE walk[k][n] <= index[k]

Walked == \A k \in Lists : ~alternative.looped[k] => Behind(k)

IInv == TypeOK /\ IndexInLoop /\ Unused /\ Walked /\ NonLoopedOnce

\* What a request does to one list: nothing, a step of loop_alternative, or
\* the IndexError on the first row of an empty looped dataset.
Stays(k) == index'[k] = index[k] /\ walk'[k] = walk[k]
Steps(k) == /\ index'[k] = Loop(k, index[k]).index
            /\ walk'[k] = Append(walk[k], Loop(k, index[k]).taken)
Fails(k) == alternative.looped[k] /\ index'[k] = 0 /\ walk'[k] = walk[k]

LEMMA RequestMoves ==
  ASSUME TypeOK, Request
  PROVE  /\ UNCHANGED <<alternative, tags, fixed, changes>>
         /\ loaded' \in BOOLEAN /\ status' \in {200, 410, 500}
         /\ DOMAIN index' = Lists /\ DOMAIN walk' = Lists
         /\ index' = [k \in Lists |-> index'[k]]
         /\ walk' = [k \in Lists |-> walk'[k]]
         /\ Stays("response") \/ (IsMulti /\ Steps("response"))
         /\ Stays("dataset") \/ (alternative.hasDataset /\ (Steps("dataset") \/ Fails("dataset")))
<1>. USE DEF TypeOK, Stays, Steps, Fails, Lists
<1>1. CASE EndAtResponse
  BY <1>1 DEF EndAtResponse, Take, Responds, NextResponse
<1>2. CASE AnswerResponse
  BY <1>2 DEF AnswerResponse, Take
<1>3. CASE FailFile
  BY <1>3 DEF FailFile, Take
<1>4. CASE FailRow
  BY <1>4 DEF FailRow, NextResponse
<1>5. CASE AnswerRow
  <2>1. status' \in {200, 410, 500}
    BY <1>5 DEF AnswerRow
  <2>. QED
    BY <1>5, <2>1 DEF AnswerRow, TakeBoth
<1>. QED
  BY <1>1, <1>2, <1>3, <1>4, <1>5 DEF Request

LEMMA ListMoves ==
  ASSUME TypeOK, Request, NEW k \in Lists
  PROVE  /\ alternative' = alternative
         /\ Stays(k) \/ Steps(k) \/ Fails(k)
         /\ index'[k] \in Nat \cup {NoIndex}
         /\ walk'[k] \in Seq(Taken)
<1>1. Stays(k) \/ Steps(k) \/ Fails(k)
  BY RequestMoves DEF Lists
<1>2. index[k] \in Nat \cup {NoIndex} /\ walk[k] \in Seq(Taken)
  BY DEF TypeOK
<1>3. Loop(k, index[k]).index \in Nat /\ Loop(k, index[k]).taken \in Taken
  BY <1>2, LoopResult
<1>4. CASE Steps(k)
  <2>1. Append(walk[k], Loop(k, index[k]).taken) \in Seq(Taken)
    BY <1>2, <1>3
  <2>. QED
    BY <1>1, <1>3, <1>4, <2>1, RequestMoves DEF Steps
<1>. QED
  BY <1>1, <1>2, <1>4, RequestMoves DEF Stays, Fails

LEMMA RequestType == TypeOK /\ Request => TypeOK'
<1>. SUFFICES ASSUME TypeOK, Request PROVE TypeOK'
  OBVIOUS
<1>1. index' \in [Lists -> Nat \cup {NoIndex}] /\ walk' \in [Lists -> Seq(Taken)]
  BY RequestMoves, ListMoves
<1>. QED
  BY <1>1, RequestMoves DEF TypeOK

LEMMA InitType == Init => TypeOK
<1>. SUFFICES ASSUME Init PROVE TypeOK
  OBVIOUS
<1>1. walk \in [Lists -> Seq(Taken)]
  BY DEF Init
<1>2. changes \in 0 .. MaxChanges
  BY AlternativeAssumption DEF AlternativeAssumption, Init
<1>. QED
  BY <1>1, <1>2 DEF Init, TypeOK

LEMMA NextType == TypeOK /\ [Next]_vars => TypeOK'
<1>. SUFFICES ASSUME TypeOK, [Next]_vars PROVE TypeOK'
  OBVIOUS
<1>1. CASE Request
  BY <1>1, RequestType
<1>2. MaxChanges \in Nat
  BY AlternativeAssumption DEF AlternativeAssumption
<1>3. CASE SetTags
  <2>1. changes' \in 0 .. MaxChanges
    BY <1>2, <1>3 DEF SetTags, TypeOK
  <2>2. UNCHANGED <<alternative, index, loaded, status, walk>>
    BY <1>3 DEF SetTags
  <2>3. tags' \in TagSets /\ fixed' \in BOOLEAN
    BY <1>3 DEF SetTags
  <2>. QED
    BY <2>1, <2>2, <2>3 DEF TypeOK
<1>4. CASE ResetIterators
  <2>1. walk' \in [Lists -> Seq(Taken)] /\ index' \in [Lists -> Nat \cup {NoIndex}]
    BY <1>4 DEF ResetIterators
  <2>2. changes' \in 0 .. MaxChanges
    BY <1>2, <1>4 DEF ResetIterators, TypeOK
  <2>3. /\ alternative' \in Alternatives /\ tags' \in TagSets
        /\ status' \in {200, 410, 500} /\ fixed' \in BOOLEAN
    BY <1>4 DEF ResetIterators, TypeOK
  <2>4. loaded' \in BOOLEAN
    BY <1>4, Zenon DEF ResetIterators, TypeOK
  <2>. QED
    BY <2>1, <2>2, <2>3, <2>4 DEF TypeOK
<1>5. CASE Configure
  <2>1. walk' \in [Lists -> Seq(Taken)] /\ index' \in [Lists -> Nat \cup {NoIndex}]
    BY <1>5 DEF Configure
  <2>2. changes' \in 0 .. MaxChanges
    BY <1>2, <1>5 DEF Configure, TypeOK
  <2>3. /\ alternative' \in Alternatives /\ tags' \in TagSets
        /\ status' \in {200, 410, 500} /\ fixed' \in BOOLEAN /\ loaded' \in BOOLEAN
    BY <1>5 DEF Configure, TypeOK
  <2>. QED
    BY <2>1, <2>2, <2>3 DEF TypeOK
<1>6. CASE UNCHANGED vars
  BY <1>6 DEF vars, TypeOK
<1>. QED
  BY <1>1, <1>3, <1>4, <1>5, <1>6 DEF Next

\* In every reachable state the variables have the values the code gives them:
\* indices from None upwards, whole numbers in the walks, an alternative of
\* the configurations.
THEOREM TypeCorrect == Spec => []TypeOK
<1>. QED
  BY InitType, NextType, PTL DEF Spec

(***************************************************************************)
(* The closed form of loop_alternative and its recursion.  Loop satisfies  *)
(* the equation of the recursion, so that a function that does exists; and *)
(* two that do agree, because every call but the last one moves the index  *)
(* towards the end of the list.                                            *)
(***************************************************************************)
Indices == Nat \cup {NoIndex}

\* What one call returns at index j when `rest' gives what the next returns.
Call(k, rest, j) ==
  LET past == j + 1 > Last(k)
      at == IF past THEN 0 ELSE j + 1
  IN  IF past /\ ~alternative.looped[k] THEN [index |-> j + 1, taken |-> Gone]
      ELSE IF Selectable(k, at) THEN [index |-> at, taken |-> at]
      ELSE IF past THEN [index |-> at, taken |-> Gone]
      ELSE rest[at]

\* The closed form gives at j what a call gives that continues with it.
LEMMA LoopUnfolds ==
  ASSUME TypeOK, NEW k \in Lists, NEW j \in Indices
  PROVE  Loop(k, j) = Call(k, [i \in Indices |-> Loop(k, i)], j)
<1>. DEFINE rest == [i \in Indices |-> Loop(k, i)]
            past == j + 1 > Last(k)
<1>1. /\ Last(k) \in Int /\ Last(k) >= -1
      /\ j \in Int /\ j >= -1 /\ From(j) = j + 1
  BY ListsType DEF Indices, NoIndex, From
<1>2. CASE past
  <2>1. Ahead(k, j) = {}
    BY <1>1, <1>2 DEF Ahead
  <2>2. Past(k, j) = j + 1
    BY <1>1, <1>2 DEF Past, Larger
  <2>. QED
    BY <1>2, <2>1, <2>2 DEF Loop, Call, Restarts
<1>3. CASE ~past /\ Selectable(k, j + 1)
  <2>1. j + 1 \in Ahead(k, j) /\ Ahead(k, j) \subseteq Nat
        /\ \A i \in Ahead(k, j) : j + 1 <= i
    BY <1>1, <1>3 DEF Ahead
  <2>2. First(Ahead(k, j)) \in Ahead(k, j) /\ First(Ahead(k, j)) <= j + 1
    BY <2>1, FirstIsLeast
  <2>3. First(Ahead(k, j)) = j + 1
    BY <1>1, <2>1, <2>2
  <2>. QED
    BY <1>3, <2>1, <2>3 DEF Loop, Call
<1>4. CASE ~past /\ ~Selectable(k, j + 1)
  <2>1. j + 1 \in Indices /\ From(j + 1) = j + 2
    BY <1>1 DEF Indices, From
  <2>2. Ahead(k, j) = Ahead(k, j + 1)
    <3>1. ASSUME NEW i \in j + 1 .. Last(k), Selectable(k, i)
          PROVE  i \in j + 2 .. Last(k)
      BY <1>1, <1>4, <3>1
    <3>. QED
      BY <1>1, <2>1, <3>1 DEF Ahead
  <2>3. Past(k, j) = Past(k, j + 1)
    BY <1>1, <1>4 DEF Past, Larger
  <2>4. Restarts(k, j) <=> Restarts(k, j + 1)
    BY DEF Restarts
  <2>5. Loop(k, j) = Loop(k, j + 1)
    BY <2>2, <2>3, <2>4 DEF Loop
  <2>6. Call(k, rest, j) = rest[j + 1]
    BY <1>4 DEF Call
  <2>. QED
    BY <2>1, <2>5, <2>6
<1>. QED
  BY <1>2, <1>3, <1>4

\* From every index, loop_alternative returns what Loop says.
LEMMA LoopIsRecursion ==
  ASSUME TypeOK, NEW k \in Lists, NEW i \in Indices
  PROVE  Loop(k, i) = LoopAlternative(k, i)
<1>. DEFINE closed == [j \in Indices |-> Loop(k, j)]
            loop == CHOOSE f : f = [j \in Indices |-> Call(k, f, j)]
            Wrong == {n \in Nat : \E j \in Indices : n = Last(k) - j /\ loop[j] # closed[j]}
<1>1. LoopAlternative(k, i) = loop[i]
  BY DEF LoopAlternative, Call, Indices
<1>2. closed = [j \in Indices |-> Call(k, closed, j)]
  BY LoopUnfolds
<1>3. loop = [j \in Indices |-> Call(k, loop, j)]
  <2>. HIDE DEF closed
  <2>1. \E f : f = [j \in Indices |-> Call(k, f, j)]
    BY <1>2
  <2>. QED
    BY <2>1
<1>. HIDE DEF loop
<1>4. Last(k) \in Int /\ Last(k) >= -1 /\ Indices \subseteq Int
  BY ListsType DEF Indices, NoIndex
<1>5. ASSUME NEW j \in Indices, j >= Last(k)
      PROVE  loop[j] = closed[j]
  <2>1. j + 1 > Last(k)
    BY <1>4, <1>5
  <2>2. Call(k, loop, j) = Call(k, closed, j)
    BY <2>1 DEF Call
  <2>3. loop[j] = Call(k, loop, j)
    BY <1>3
  <2>4. closed[j] = Call(k, closed, j)
    BY LoopUnfolds
  <2>. QED
    BY <2>2, <2>3, <2>4
<1>6. Wrong = {}
  <2>1. SUFFICES ASSUME Wrong # {} PROVE FALSE
    OBVIOUS
  <2>2. First(Wrong) \in Wrong /\ \A n \in Wrong : First(Wrong) <= n
    <3>. HIDE DEF Wrong
    <3>1. Wrong \subseteq Nat
      BY DEF Wrong
    <3>. QED
      BY <2>1, <3>1, FirstIsLeast
  <2>3. PICK j \in Indices : First(Wrong) = Last(k) - j /\ loop[j] # closed[j]
    BY <2>2
  <2>4. j < Last(k) /\ j + 1 \in Indices /\ Last(k) - (j + 1) \in Nat
    BY <1>4, <1>5, <2>3 DEF Indices, NoIndex
  <2>5. loop[j + 1] = closed[j + 1]
    <3>1. SUFFICES ASSUME loop[j + 1] # closed[j + 1] PROVE FALSE
      OBVIOUS
    <3>2. Last(k) - (j + 1) \in Wrong
      BY <2>4, <3>1
    <3>. QED
      BY <1>4, <2>2, <2>3, <3>2
  <2>6. ~(j + 1 > Last(k))
    BY <1>4, <2>4
  <2>7. Call(k, loop, j) = Call(k, closed, j)
    BY <2>5, <2>6 DEF Call
  <2>8. loop[j] = Call(k, loop, j)
    BY <1>3
  <2>9. closed[j] = Call(k, closed, j)
    BY LoopUnfolds
  <2>. QED
    BY <2>3, <2>7, <2>8, <2>9
<1>7. loop[i] = closed[i]
  <2>1. CASE i >= Last(k)
    BY <1>5, <2>1
  <2>2. CASE ~(i >= Last(k))
    <3>1. Last(k) - i \in Nat
      BY <1>4, <2>2
    <3>2. Last(k) - i \notin Wrong
      BY <1>6
    <3>. QED
      BY <3>1, <3>2
  <2>. QED
    BY <2>1, <2>2
<1>. QED
  BY <1>1, <1>7

\* The closed form that the requests use and the theorems are about is what the
\* recursion of the source returns, for lists of every length and all tags.
THEOREM LoopTranslated == Spec => []LoopIsTheCode
<1>1. ASSUME TypeOK
      PROVE  LoopIsTheCode
  <2>1. \A k \in Lists : index[k] \in Indices
    BY <1>1 DEF TypeOK, Indices
  <2>2. \A k \in Lists : Loop(k, index[k]) = LoopAlternative(k, index[k])
    BY <1>1, <2>1, LoopIsRecursion
  <2>. QED
    BY <2>2 DEF LoopIsTheCode
<1>. QED
  BY <1>1, TypeCorrect, PTL

(***************************************************************************)
(* The invariant is preserved.  Whatever rewinds the lists leaves nothing  *)
(* to check; a request is looked at list by list.                          *)
(***************************************************************************)
ListInv(k) ==
  /\ alternative.looped[k] => (index[k] = NoIndex \/ index[k] <= Larger(Last(k), 0))
  /\ ~alternative.looped[k] =>
       /\ Behind(k)
       /\ \A i, j \in DOMAIN walk[k] :
            i < j => (walk[k][j] = Gone \/ (walk[k][i] # Gone /\ walk[k][i] < walk[k][j]))

LEMMA IInvByList == IInv <=> TypeOK /\ Unused /\ \A k \in Lists : ListInv(k)
  BY DEF IInv, IndexInLoop, Walked, NonLoopedOnce, ListInv

LEMMA RewoundLists ==
  ASSUME NEW k \in Lists, index[k] = NoIndex, walk[k] = <<>>
  PROVE  ListInv(k)
  BY DEF ListInv, Behind

LEMMA RequestKeepsList ==
  ASSUME TypeOK, Request, NEW k \in Lists, ListInv(k)
  PROVE  ListInv(k)'
<1>. DEFINE result == Loop(k, index[k])
<1>1. /\ alternative' = alternative
      /\ Last(k)' = Last(k)
      /\ Stays(k) \/ Steps(k) \/ Fails(k)
  BY ListMoves DEF Last
<1>2. /\ index[k] \in Nat \cup {NoIndex}
      /\ walk[k] \in Seq(Taken)
      /\ Last(k) \in Int /\ Last(k) >= -1
  BY ListsType DEF TypeOK
<1>3. CASE Stays(k)
  BY <1>1, <1>3 DEF Stays, ListInv, Behind
<1>4. CASE Fails(k)
  BY <1>1, <1>2, <1>4 DEF Fails, ListInv, Larger
<1>5. CASE Steps(k) /\ alternative.looped[k]
  <2>1. index'[k] <= Larger(Last(k), 0)
    BY <1>2, <1>5, LoopResult DEF Steps
  <2>. QED
    BY <1>1, <1>5, <2>1 DEF ListInv, Larger
<1>6. CASE Steps(k) /\ ~alternative.looped[k]
  <2>. DEFINE n == Len(walk[k])
  <2>1. /\ result.index \in Nat /\ result.taken \in Taken
        /\ index[k] < result.index
        /\ \/ result.taken = result.index /\ result.index <= Last(k)
           \/ result.taken = Gone /\ Last(k) < result.index
    BY <1>2, <1>6, LoopResult
  <2>2. index'[k] = result.index /\ walk'[k] = Append(walk[k], result.taken)
    BY <1>6 DEF Steps
  <2>. HIDE DEF result
  <2>3. /\ DOMAIN walk'[k] = 1 .. n + 1 /\ DOMAIN walk[k] = 1 .. n /\ n \in Nat
        /\ walk'[k][n + 1] = result.taken
        /\ \A i \in 1 .. n : walk'[k][i] = walk[k][i] /\ walk[k][i] \in Taken
    BY <1>2, <2>1, <2>2
  <2>4. \A i \in 1 .. n :
          IF walk[k][i] = Gone THEN Last(k) < index[k] ELSE walk[k][i] <= index[k]
    BY <1>6, <2>3 DEF ListInv, Behind
  <2>5. ASSUME NEW i \in 1 .. n + 1
        PROVE  IF walk'[k][i] = Gone THEN Last(k) < index'[k] ELSE walk'[k][i] <= index'[k]
    <3>1. CASE i = n + 1
      BY <2>1, <2>2, <2>3, <3>1 DEF Gone
    <3>2. CASE i \in 1 .. n
      <4>1. walk'[k][i] = walk[k][i] /\ walk[k][i] \in Taken
        BY <2>3, <3>2
      <4>2. index[k] \in Int /\ index'[k] \in Int /\ index[k] < index'[k]
        BY <1>2, <2>1, <2>2 DEF NoIndex
      <4>3. CASE walk[k][i] = Gone
        BY <1>2, <2>4, <3>2, <4>1, <4>2, <4>3
      <4>4. CASE walk[k][i] # Gone
        <5>1. walk[k][i] \in Nat /\ walk[k][i] <= index[k]
          BY <2>4, <3>2, <4>1, <4>4 DEF Taken
        <5>. QED
          BY <4>1, <4>2, <4>4, <5>1
      <4>. QED
        BY <4>3, <4>4
    <3>. QED
      BY <2>3, <3>1, <3>2
  <2>6. ASSUME NEW i \in 1 .. n + 1, NEW j \in 1 .. n + 1, i < j
        PROVE  walk'[k][j] = Gone \/ (walk'[k][i] # Gone /\ walk'[k][i] < walk'[k][j])
    <3>1. i \in 1 .. n
      BY <2>3, <2>6
    <3>2. CASE j = n + 1
      <4>1. CASE walk[k][i] = Gone
        BY <1>2, <2>1, <2>3, <2>4, <3>1, <3>2, <4>1 DEF NoIndex
      <4>2. CASE walk[k][i] # Gone
        <5>1. /\ walk'[k][i] = walk[k][i] /\ walk'[k][j] = result.taken
              /\ walk[k][i] \in Nat /\ walk[k][i] <= index[k]
          BY <2>3, <2>4, <3>1, <3>2, <4>2 DEF Taken
        <5>2. index[k] \in Int /\ result.index \in Nat /\ index[k] < result.index
          BY <1>2, <2>1 DEF NoIndex
        <5>3. walk[k][i] < result.index
          BY <5>1, <5>2
        <5>4. result.taken = Gone \/ result.taken = result.index
          BY <2>1
        <5>. QED
          BY <4>2, <5>1, <5>3, <5>4
      <4>. QED
        BY <4>1, <4>2
    <3>3. CASE j \in 1 .. n
      BY <1>6, <2>3, <2>6, <3>1, <3>3 DEF ListInv
    <3>. QED
      BY <2>3, <3>2, <3>3
  <2>. QED
    BY <1>1, <1>6, <2>3, <2>5, <2>6 DEF ListInv, Behind
<1>. QED
  BY <1>1, <1>3, <1>4, <1>5, <1>6

LEMMA InitInv == Init => IInv
<1>. SUFFICES ASSUME Init PROVE IInv
  OBVIOUS
<1>1. TypeOK
  BY InitType
<1>2. \A k \in Lists : ListInv(k)
  BY RewoundLists DEF Init
<1>3. Unused
  BY DEF Init, Unused, Lists
<1>. QED
  BY <1>1, <1>2, <1>3, IInvByList

LEMMA NextInv == IInv /\ [Next]_vars => IInv'
<1>. SUFFICES ASSUME IInv, [Next]_vars PROVE IInv'
  OBVIOUS
<1>1. TypeOK /\ TypeOK'
  BY NextType DEF IInv
<1>2. Unused /\ \A k \in Lists : ListInv(k)
  BY IInvByList
<1>. SUFFICES Unused' /\ \A k \in Lists : ListInv(k)'
  BY <1>1 DEF IInv, IndexInLoop, Walked, NonLoopedOnce, ListInv
<1>3. CASE Request
  <2>1. Unused'
    BY <1>1, <1>2, <1>3, RequestMoves DEF Unused, IsMulti, Stays
  <2>2. \A k \in Lists : ListInv(k)'
    BY <1>1, <1>2, <1>3, RequestKeepsList
  <2>. QED
    BY <2>1, <2>2
<1>4. CASE ResetIterators \/ Configure
  <2>1. index' = [k \in Lists |-> NoIndex] /\ walk' = [k \in Lists |-> <<>>]
    BY <1>4 DEF ResetIterators, Configure
  <2>2. Unused'
    BY <2>1 DEF Unused, Lists
  <2>3. \A k \in Lists : ListInv(k)'
    BY <2>1 DEF ListInv, Behind
  <2>. QED
    BY <2>2, <2>3
<1>5. CASE SetTags \/ UNCHANGED vars
  <2>1. UNCHANGED <<alternative, index, walk>>
    BY <1>5 DEF SetTags, vars
  <2>. QED
    BY <1>2, <2>1 DEF Unused, IsMulti, ListInv, Behind, Last
<1>. QED
  BY <1>3, <1>4, <1>5 DEF Next

LEMMA AlwaysInv == Spec => []IInv
<1>. QED
  BY InitInv, NextInv, PTL DEF Spec

\* A looped list is never read past its end, however many requests came and
\* whatever tags they had.
THEOREM IndexKept == Spec => []IndexInLoop
<1>1. IInv => IndexInLoop
  BY DEF IInv
<1>. QED
  BY <1>1, AlwaysInv, PTL

\* A list that is not looped gives each of its items at most once between two
\* resets, in its order and none after the first 410.
THEOREM OnceKept == Spec => []NonLoopedOnce
<1>1. IInv => NonLoopedOnce
  BY DEF IInv
<1>. QED
  BY <1>1, AlwaysInv, PTL

(***************************************************************************)
(* A request to an exhausted list is answered 410, or fails.               *)
(***************************************************************************)
LEMMA ExhaustedStep ==
  ASSUME TypeOK, Unused, NEW k \in Lists, Exhausted(k), ComesTo(k), Request
  PROVE  status' \in {410, 500}
<1>1. Last(k) \in Int /\ Last(k) >= -1 /\ index[k] \in Nat \cup {NoIndex}
  BY ListsType DEF TypeOK
<1>2. index[k] # NoIndex
  BY <1>1 DEF Exhausted, NoIndex
<1>3. Loop(k, index[k]).taken = Gone
  BY <1>1, LoopResult DEF Exhausted, NoIndex
<1>4. CASE k = "response"
  <2>1. ~Responds
    BY <1>2, <1>3, <1>4 DEF Responds, Unused, NextResponse
  <2>. QED
    BY <1>3, <1>4, <2>1 DEF NextResponse, Request, EndAtResponse, AnswerResponse, FailFile, FailRow, AnswerRow
<1>5. CASE k = "dataset"
  <2>1. alternative.hasDataset
    BY <1>2, <1>5 DEF Unused
  <2>2. ~Responds => IsMulti /\ NextResponse = Gone
    BY <1>5 DEF Responds, ComesTo
  <2>. QED
    BY <1>3, <1>5, <2>1, <2>2
    DEF Request, EndAtResponse, AnswerResponse, FailFile, FailRow, AnswerRow
<1>. QED
  BY <1>4, <1>5 DEF Lists

\* No sequence of requests and of new tags brings an item of an exhausted list
\* back before the iterators are reset or the configuration is replaced.
THEOREM ExhaustedIsFinal == Spec => ExhaustedStays
<1>1. IInv /\ [Next]_vars =>
        [(\E k \in Lists : Exhausted(k) /\ ComesTo(k)) /\ Request => status' \in {410, 500}]_vars
  BY ExhaustedStep DEF IInv
<1>. QED
  BY <1>1, AlwaysInv, PTL DEF Spec, ExhaustedStays
-----------------------------------------------------------------------------
(***************************************************************************)
(* The order of what requests get.  While the tags stay the same, the      *)
(* index of a list is where its last item was, or tells that there was     *)
(* none: 0 in a list that started over from a first item that cannot be    *)
(* selected, past the end of one that is not looped.  Of a looped list     *)
(* without items nothing is ever taken.                                    *)
(***************************************************************************)
Before(k) == IF walk[k] = <<>> THEN NoIndex ELSE walk[k][Len(walk[k])]
Barren(k) == alternative.looped[k] /\ Last(k) < 0
IndexTells(k) ==
  ~Barren(k) =>
    IF Before(k) # Gone THEN index[k] = Before(k)
    ELSE IF alternative.looped[k] THEN index[k] = 0 /\ ~Selectable(k, 0)
    ELSE index[k] > Last(k)

OrderInv == fixed => InConfiguredOrder /\ \A k \in Lists : IndexTells(k)

LEMMA StepsAdd ==
  ASSUME TypeOK, NEW k \in Lists, Steps(k)
  PROVE  walk'[k] # walk[k]
<1>1. walk[k] \in Seq(Taken) /\ index[k] \in Nat \cup {NoIndex}
  BY DEF TypeOK
<1>2. Loop(k, index[k]).taken \in Taken
  BY <1>1, LoopResult
<1>3. Len(Append(walk[k], Loop(k, index[k]).taken)) = Len(walk[k]) + 1 /\ Len(walk[k]) \in Nat
  BY <1>1, <1>2
<1>. QED
  BY <1>3 DEF Steps

\* Nothing is taken of a looped list without items: multiple responses are at
\* least one, and of an empty dataset the first row cannot be read.
LEMMA NotBarren ==
  ASSUME TypeOK, Request, NEW k \in Lists, Steps(k)
  PROVE  ~Barren(k)
<1>1. walk'[k] # walk[k]
  BY StepsAdd
<1>2. CASE k = "response"
  <2>1. IsMulti
    BY <1>1, <1>2, RequestMoves DEF Stays
  <2>2. alternative.items["response"] \in Items
    BY AlternativeAssumption DEF AlternativeAssumption, TypeOK, AlternativeType, Lists
  <2>3. Len(alternative.items["response"]) > 0
    BY <2>1, <2>2 DEF IsMulti, Items
  <2>. QED
    BY <1>2, <2>2, <2>3 DEF Barren, Last, Items
<1>3. CASE k = "dataset"
  <2>1. AnswerRow
    BY <1>1, <1>3 DEF Request, EndAtResponse, AnswerResponse, FailFile, FailRow, Take,
       TypeOK, Lists
  <2>. QED
    BY <1>3, <2>1 DEF AnswerRow, Barren
<1>. QED
  BY <1>2, <1>3 DEF Lists

LEMMA FailsBarren ==
  ASSUME TypeOK, Request, NEW k \in Lists, Fails(k), ~Stays(k)
  PROVE  Barren(k)
<1>1. ~Steps(k)
  BY StepsAdd DEF Fails
<1>2. k = "dataset"
  BY <1>1, RequestMoves DEF Lists
<1>3. ~AnswerRow
  BY <1>1, <1>2 DEF AnswerRow, TakeBoth, Steps, Lists
<1>4. FailRow
  BY <1>2, <1>3 DEF Request, EndAtResponse, AnswerResponse, FailFile, Take, Stays,
     TypeOK, Lists
<1>. QED
  BY <1>2, <1>4 DEF FailRow, Barren

\* What one step of loop_alternative takes is what follows.
LEMMA TakesNext ==
  ASSUME TypeOK, NEW k \in Lists, ~Barren(k), IndexTells(k),
         NEW before \in Taken \cup {NoIndex}, before = Before(k)
  PROVE  LET result == Loop(k, index[k])
         IN  /\ Follows(k, before, result.taken)
             /\ IF result.taken # Gone THEN result.index = result.taken
                ELSE IF alternative.looped[k] THEN result.index = 0 /\ ~Selectable(k, 0)
                ELSE result.index > Last(k)
<1>. DEFINE result == Loop(k, index[k])
            i == IF before = Gone THEN NoIndex ELSE before
<1>1. Last(k) \in Int /\ Last(k) >= -1 /\ (alternative.looped[k] => Last(k) >= 0)
  BY ListsType DEF Barren
<1>2. index[k] \in Int /\ From(index[k]) = index[k] + 1 /\ index[k] >= -1
  BY DEF TypeOK, From, NoIndex
<1>3. CASE before = Gone /\ ~alternative.looped[k]
  <2>1. index[k] > Last(k)
    BY <1>3 DEF IndexTells
  <2>2. Ahead(k, index[k]) = {}
    BY <1>1, <1>2, <2>1 DEF Ahead
  <2>3. result.taken = Gone /\ result.index = Past(k, index[k])
    BY <1>3, <2>2 DEF Loop, Restarts
  <2>4. Past(k, index[k]) > Last(k)
    BY <1>1, <1>2 DEF Past, Larger
  <2>. QED
    BY <1>3, <2>3, <2>4 DEF Follows
<1>4. CASE before # Gone \/ alternative.looped[k]
  <2>1. /\ i \in Int /\ i >= -1 /\ i <= index[k]
        /\ \A m \in i + 1 .. index[k] : ~Selectable(k, m)
    <3>1. CASE before # Gone
      BY <1>2, <3>1 DEF IndexTells, NoIndex, Taken
    <3>2. CASE before = Gone
      BY <1>2, <1>4, <3>2 DEF IndexTells, NoIndex
    <3>. QED
      BY <3>1, <3>2
  <2>2. Ahead(k, index[k]) = {m \in i + 1 .. Last(k) : Selectable(k, m)}
    BY <1>1, <1>2, <2>1 DEF Ahead
  <2>. HIDE DEF i
  <2>3. CASE Ahead(k, index[k]) # {}
    <3>1. /\ First(Ahead(k, index[k])) \in Ahead(k, index[k])
          /\ \A m \in Ahead(k, index[k]) : First(Ahead(k, index[k])) <= m
      BY <1>1, <2>1, <2>2, <2>3, FirstIsLeast
    <3>2. PICK j : j = First(Ahead(k, index[k]))
      OBVIOUS
    <3>3. result.taken = j /\ result.index = j
      BY <2>3, <3>2 DEF Loop
    <3>4. j \in i + 1 .. Last(k) /\ Selectable(k, j)
      BY <2>2, <3>1, <3>2
    <3>5. \A m \in i + 1 .. j - 1 : ~Selectable(k, m)
      <4>1. SUFFICES ASSUME NEW m \in i + 1 .. j - 1, Selectable(k, m) PROVE FALSE
        OBVIOUS
      <4>2. m \in Ahead(k, index[k])
        BY <1>1, <2>1, <2>2, <3>4, <4>1
      <4>. QED
        BY <1>1, <2>1, <3>1, <3>2, <3>4, <4>2
    <3>6. IsNext(k, i, j) /\ j # Gone
      BY <1>1, <2>1, <3>4, <3>5 DEF IsNext, Gone
    <3>. QED
      BY <1>4, <3>3, <3>6 DEF Follows, i
  <2>4. CASE Ahead(k, index[k]) = {}
    <3>1. \A m \in i + 1 .. Last(k) : ~Selectable(k, m)
      BY <2>2, <2>4
    <3>2. CASE alternative.looped[k]
      <4>1. result.index = 0 /\ result.taken = IF Selectable(k, 0) THEN 0 ELSE Gone
        BY <2>4, <3>2 DEF Loop, Restarts
      <4>2. Follows(k, before, result.taken)
        <5>1. CASE Selectable(k, 0)
          <6>1. IsNext(k, NoIndex, 0)
            BY <1>1, <3>2, <5>1 DEF IsNext, NoIndex
          <6>. QED
            BY <1>4, <3>1, <3>2, <4>1, <5>1, <6>1 DEF Follows, i
        <5>2. CASE ~Selectable(k, 0)
          BY <1>4, <3>1, <3>2, <4>1, <5>2 DEF Follows, Refuses, i
        <5>. QED
          BY <5>1, <5>2
      <4>. QED
        BY <3>2, <4>1, <4>2 DEF Gone
    <3>3. CASE ~alternative.looped[k]
      <4>1. result.taken = Gone /\ result.index = Past(k, index[k])
        BY <2>4, <3>3 DEF Loop, Restarts
      <4>2. Past(k, index[k]) > Last(k)
        BY <1>1, <1>2 DEF Past, Larger
      <4>. QED
        BY <1>4, <3>1, <3>3, <4>1, <4>2 DEF Follows, Refuses, i
    <3>. QED
      BY <3>2, <3>3
  <2>. QED
    BY <2>3, <2>4
<1>. QED
  BY <1>3, <1>4

LEMMA RequestInOrder ==
  ASSUME TypeOK, Request, fixed, InConfiguredOrder, NEW k \in Lists, IndexTells(k)
  PROVE  /\ IndexTells(k)'
         /\ \A n \in DOMAIN walk'[k] :
              Follows(k, IF n = 1 THEN NoIndex ELSE walk'[k][n - 1], walk'[k][n])
<1>1. UNCHANGED <<alternative, tags>> /\ (Stays(k) \/ Steps(k) \/ Fails(k))
  BY ListMoves, RequestMoves
<1>2. /\ \A i : Selectable(k, i)' <=> Selectable(k, i)
      /\ Last(k)' = Last(k) /\ (Barren(k)' <=> Barren(k))
  BY <1>1 DEF Selectable, Last, Barren
<1>3. CASE Stays(k)
  BY <1>1, <1>2, <1>3 DEF Stays, IndexTells, Before, InConfiguredOrder
<1>4. CASE Fails(k) /\ ~Stays(k)
  <2>1. Barren(k)
    BY <1>4, FailsBarren
  <2>. QED
    BY <1>2, <1>4, <2>1 DEF Fails, IndexTells, InConfiguredOrder
<1>5. CASE Steps(k)
  <2>1. ~Barren(k) /\ ~Barren(k)'
    BY <1>2, <1>5, NotBarren
  <2>2. walk[k] \in Seq(Taken) /\ index[k] \in Nat \cup {NoIndex}
    BY DEF TypeOK
  <2>3. Before(k) \in Taken \cup {NoIndex}
    <3>1. CASE walk[k] = <<>>
      BY <3>1 DEF Before
    <3>2. CASE walk[k] # <<>>
      <4>1. Len(walk[k]) \in 1 .. Len(walk[k])
        BY <2>2, <3>2
      <4>. QED
        BY <2>2, <3>2, <4>1 DEF Before
    <3>. QED
      BY <3>1, <3>2
  <2>4. PICK result : result = Loop(k, index[k])
    OBVIOUS
  <2>5. PICK before \in Taken \cup {NoIndex} : before = Before(k)
    BY <2>3
  <2>6. /\ Follows(k, before, result.taken)
        /\ IF result.taken # Gone THEN result.index = result.taken
           ELSE IF alternative.looped[k] THEN result.index = 0 /\ ~Selectable(k, 0)
           ELSE result.index > Last(k)
    BY <2>1, <2>4, <2>5, TakesNext
  <2>7. result.taken \in Taken
    BY <2>2, <2>4, LoopResult
  <2>8. index'[k] = result.index /\ walk'[k] = Append(walk[k], result.taken)
    BY <1>5, <2>4 DEF Steps
  <2>9. /\ DOMAIN walk'[k] = 1 .. Len(walk[k]) + 1 /\ Len(walk'[k]) = Len(walk[k]) + 1
        /\ DOMAIN walk[k] = 1 .. Len(walk[k]) /\ Len(walk[k]) \in Nat
        /\ walk'[k][Len(walk[k]) + 1] = result.taken /\ walk'[k] # <<>>
        /\ \A n \in 1 .. Len(walk[k]) : walk'[k][n] = walk[k][n]
    BY <2>2, <2>7, <2>8
  <2>10. IndexTells(k)'
    <3>1. Before(k)' = result.taken
      BY <2>9 DEF Before
    <3>. QED
      BY <1>1, <1>2, <2>6, <2>8, <3>1 DEF IndexTells
  <2>11. ASSUME NEW n \in DOMAIN walk'[k]
         PROVE  Follows(k, IF n = 1 THEN NoIndex ELSE walk'[k][n - 1], walk'[k][n])
    <3>1. CASE n \in 1 .. Len(walk[k])
      <4>1. Follows(k, IF n = 1 THEN NoIndex ELSE walk[k][n - 1], walk[k][n])
        BY <2>9, <3>1 DEF InConfiguredOrder
      <4>2. n # 1 => n - 1 \in 1 .. Len(walk[k])
        BY <2>9, <3>1
      <4>. QED
        BY <2>9, <3>1, <4>1, <4>2
    <3>2. CASE n = Len(walk[k]) + 1
      <4>1. before = IF n = 1 THEN NoIndex ELSE walk'[k][n - 1]
        BY <2>2, <2>5, <2>9, <3>2 DEF Before
      <4>. QED
        BY <2>6, <2>9, <3>2, <4>1
    <3>. QED
      BY <2>9, <2>11, <3>1, <3>2
  <2>. QED
    BY <2>10, <2>11
<1>. QED
  BY <1>1, <1>3, <1>4, <1>5

LEMMA NextOrder == TypeOK /\ OrderInv /\ [Next]_vars => OrderInv'
<1>. SUFFICES ASSUME TypeOK, OrderInv, [Next]_vars, fixed'
              PROVE  InConfiguredOrder' /\ \A k \in Lists : IndexTells(k)'
  BY DEF OrderInv
<1>1. CASE Request
  <2>1. fixed /\ InConfiguredOrder /\ UNCHANGED <<alternative, tags>>
        /\ \A k \in Lists : IndexTells(k)
    BY <1>1, RequestMoves DEF OrderInv
  <2>2. \A k, i, j : Follows(k, i, j)' <=> Follows(k, i, j)
    BY <2>1 DEF Follows, Refuses, IsNext, Selectable, Last
  <2>3. ASSUME NEW k \in Lists
        PROVE  /\ IndexTells(k)'
               /\ \A n \in DOMAIN walk'[k] :
                    Follows(k, IF n = 1 THEN NoIndex ELSE walk'[k][n - 1], walk'[k][n])
    BY <1>1, <2>1, RequestInOrder
  <2>. QED
    BY <2>2, <2>3 DEF InConfiguredOrder
<1>2. CASE ResetIterators \/ Configure
  <2>1. index' = [k \in Lists |-> NoIndex] /\ walk' = [k \in Lists |-> <<>>]
    BY <1>2 DEF ResetIterators, Configure
  <2>. QED
    BY <2>1 DEF InConfiguredOrder, IndexTells, Before, NoIndex, Gone
<1>3. CASE SetTags
  BY <1>3 DEF SetTags
<1>4. CASE UNCHANGED vars
  <2>1. InConfiguredOrder /\ \A k \in Lists : IndexTells(k)
    BY <1>4 DEF vars, OrderInv
  <2>2. \A k, i, j : Follows(k, i, j)' <=> Follows(k, i, j)
    BY <1>4 DEF Follows, Refuses, IsNext, Selectable, Last, vars
  <2>3. InConfiguredOrder'
    BY <1>4, <2>1, <2>2 DEF vars, InConfiguredOrder
  <2>. QED
    BY <1>4, <2>1, <2>3 DEF vars, IndexTells, Before, Selectable, Last, Barren
<1>. QED
  BY <1>1, <1>2, <1>3, <1>4 DEF Next

\* While the tags stay the same, each request gets of each list the item that
\* follows the one of the request before, for all lists, looped or not.
THEOREM ConfiguredOrder == Spec => []InConfiguredOrder
<1>1. Init => OrderInv
  BY DEF Init, OrderInv, InConfiguredOrder, IndexTells, Before, NoIndex, Gone
<1>2. OrderInv => InConfiguredOrder
  BY DEF OrderInv, InConfiguredOrder
<1>. QED
  BY <1>1, <1>2, NextOrder, TypeCorrect, PTL DEF Spec
=============================================================================
