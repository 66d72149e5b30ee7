-------------------------- MODULE HttpAlternative --------------------------
(***************************************************************************)
(* One alternative of an HTTP endpoint (services/http.py) and the part of  *)
(* GenericHandler.match_alternative (handlers.py) that answers a request   *)
(* which fulfils its conditions: the next of its multiple responses, then  *)
(* the next row of its dataset, both by loop_alternative.  Tornado's event *)
(* loop runs it without interruption, so a request is one step; the steps  *)
(* of the management API come in between.                                  *)
(***************************************************************************)
EXTENDS Integers, Sequences, FiniteSets, Functions

CONSTANTS
  Tags, NoTag,      \* the tags of the configuration; an item without one
  Empty,            \* a row {} or a response "": Python takes it for none
  TagSets,          \* the values the service's tags may take
  Alternatives,     \* the alternatives that configurations may define
  MaxAnswers,       \* bound on the requests since the last restart
  MaxChanges        \* bound on the requests to the management API

Lists == {"response", "dataset"}
Items == Seq(Tags \cup {NoTag, Empty})

\* A single response is no list, as is a list without responses.
AlternativeType ==
  [items : [Lists -> Items], looped : [Lists -> BOOLEAN], fromFile : BOOLEAN,
   hasDataset : BOOLEAN]

ASSUME AlternativeAssumption ==
  /\ NoTag \notin Tags /\ Empty \notin Tags /\ Empty # NoTag
  /\ TagSets \subseteq SUBSET Tags
  /\ Alternatives \subseteq AlternativeType
  /\ MaxAnswers \in Nat /\ MaxChanges \in Nat

VARIABLES
  alternative,  \* the one in force
  index,        \* multi_responses_index and dataset_index, NoIndex for None
  loaded,       \* whether alternative.dataset was read from its file
  tags,         \* the tags the handlers are initialised with
  status,       \* the status of the last reply
  walk,         \* what each list gave since it was last rewound, in order
  fixed,        \* whether the tags are the same since then
  changes       \* requests to the management API, for the bound

vars == <<alternative, index, loaded, tags, status, walk, fixed, changes>>

NoIndex == -1
Gone == -2      \* loop_alternative answered 410 itself

Last(k) == Len(alternative.items[k]) - 1
Larger(i, j) == IF i < j THEN j ELSE i
Selectable(k, i) == alternative.items[k][i + 1] \in tags \cup {NoTag, Empty}
IsMulti == alternative.items["response"] # <<>>

Init ==
  /\ alternative \in Alternatives
  /\ tags \in TagSets
  /\ index = [k \in Lists |-> NoIndex]
  /\ loaded = FALSE
  /\ walk = [k \in Lists |-> <<>>] /\ fixed = TRUE
  /\ status = 200 /\ changes = 0

(***************************************************************************)
(* loop_alternative calls itself until an item is selectable or the list   *)
(* was restarted: the outcome of the whole recursion from index i.  A list *)
(* that was restarted is given up when its first item is not selectable.   *)
(***************************************************************************)
FromAfterFirst(i) == Larger(i, 0) + 1   \* faulty variants, named in
PastKept(k, i) == i                      \* PROJECT.json: each is a slip in the
                                         \* definition of its name below
RestartsOnceGone(k, i) == alternative.looped[k] \/ (i > Last(k) /\ Last(k) >= 0)

From(i) == i + 1   \* NoIndex before the first
Past(k, i) == Larger(i, Last(k)) + 1
Restarts(k, i) == alternative.looped[k]

Ahead(k, i) == {j \in From(i) .. Last(k) : Selectable(k, j)}
First(S) == CHOOSE i \in S : \A j \in S : i <= j

Loop(k, i) ==
  IF Ahead(k, i) # {}
  THEN [index |-> First(Ahead(k, i)), taken |-> First(Ahead(k, i))]
  ELSE IF Restarts(k, i)
  THEN [index |-> 0, taken |-> IF Selectable(k, 0) THEN 0 ELSE Gone]
  ELSE [index |-> Past(k, i), taken |-> Gone]

Bound == \A k \in Lists : Len(walk[k]) < MaxAnswers

Take(k) ==
  /\ index' = [index EXCEPT ![k] = Loop(k, @).index]
  /\ walk' = [walk EXCEPT ![k] = Append(@, Loop(k, index[k]).taken)]

\* "if not response": there is none left, or an empty string was taken.
NextResponse == Loop("response", index["response"]).taken
TakesNothing == NextResponse # Gone /\ alternative.items["response"][NextResponse + 1] = Empty
Responds == IsMulti => NextResponse # Gone /\ ~TakesNothing

\* The request ends there: the dataset is not looked at.
EndAtResponse ==
  /\ Bound /\ ~Responds
  /\ Take("response")
  /\ status' = IF NextResponse = Gone THEN 410 ELSE 200
  /\ UNCHANGED <<alternative, loaded, tags, fixed, changes>>

\* Without a dataset the response that was taken is the answer.
AnswerResponse ==
  /\ Bound /\ Responds /\ ~alternative.hasDataset
  /\ IF IsMulti THEN Take("response") ELSE UNCHANGED <<index, walk>>
  /\ status' = 200
  /\ UNCHANGED <<alternative, loaded, tags, fixed, changes>>

\* The dataset's file cannot be read, after the response was taken.  It will
\* be tried again.
FailFile ==
  /\ Bound /\ Responds /\ alternative.hasDataset
  /\ alternative.fromFile /\ ~loaded
  /\ IF IsMulti THEN Take("response") ELSE UNCHANGED <<index, walk>>
  /\ status' = 500
  /\ UNCHANGED <<alternative, loaded, tags, fixed, changes>>

\* A looped dataset without rows: index 0 of it raises IndexError.
FailRow ==
  /\ Bound /\ Responds /\ alternative.hasDataset
  /\ alternative.looped["dataset"] /\ Last("dataset") < 0
  /\ index' = [index EXCEPT !["dataset"] = 0, !["response"] =
                 IF IsMulti THEN Loop("response", @).index ELSE @]
  /\ walk' = [walk EXCEPT !["response"] =
                IF IsMulti THEN Append(@, NextResponse) ELSE @]
  /\ status' = 500 /\ loaded' = TRUE
  /\ UNCHANGED <<alternative, tags, fixed, changes>>

\* The next row.  The response was taken before and is lost when there is no
\* row; a row {} is selected but ends the request with an empty answer.
TakeBoth ==
  LET took == IF IsMulti THEN Lists ELSE {"dataset"}
  IN /\ index' = [k \in Lists |-> IF k \in took THEN Loop(k, index[k]).index ELSE index[k]]
     /\ walk' = [k \in Lists |-> IF k \in took
                   THEN Append(walk[k], Loop(k, index[k]).taken) ELSE walk[k]]

AnswerRow ==
  /\ Bound /\ Responds /\ alternative.hasDataset /\ ~(alternative.looped["dataset"] /\ Last("dataset") < 0)
  /\ TakeBoth
  /\ status' = IF Loop("dataset", index["dataset"]).taken = Gone THEN 410 ELSE 200
  /\ loaded' = TRUE
  /\ UNCHANGED <<alternative, tags, fixed, changes>>

(***************************************************************************)
(* The management API.                                                     *)
(***************************************************************************)
\* POST /tag: the handlers of later requests get the new tags.
SetTags ==
  /\ changes < MaxChanges
  /\ tags' \in TagSets \ {tags}
  /\ fixed' = FALSE
  /\ changes' = changes + 1
  /\ UNCHANGED <<alternative, index, loaded, status, walk>>

ResetResponsesOnly ==   \* a faulty variant: dataset_index is kept
  /\ changes < MaxChanges
  /\ index' = [index EXCEPT !["response"] = NoIndex]
  /\ walk' = [k \in Lists |-> <<>>] /\ fixed' = TRUE
  /\ changes' = changes + 1
  /\ UNCHANGED <<alternative, loaded, tags, status>>

\* POST /reset-iterators.
ResetIterators ==
  /\ changes < MaxChanges
  /\ index' = [k \in Lists |-> NoIndex]
  /\ walk' = [k \in Lists |-> <<>>] /\ fixed' = TRUE
  /\ changes' = changes + 1
  /\ UNCHANGED <<alternative, loaded, tags, status>>

\* POST /config: merge_alternatives builds a new alternative.  The tags stay.
Configure ==
  /\ changes < MaxChanges
  /\ alternative' \in Alternatives
  /\ index' = [k \in Lists |-> NoIndex]
  /\ loaded' = FALSE
  /\ walk' = [k \in Lists |-> <<>>] /\ fixed' = TRUE
  /\ changes' = changes + 1
  /\ UNCHANGED <<tags, status>>

Request == EndAtResponse \/ AnswerResponse \/ FailFile \/ FailRow \/ AnswerRow

Next == Request \/ SetTags \/ ResetIterators \/ Configure

Spec == Init /\ [][Next]_vars
-----------------------------------------------------------------------------
Taken == Nat \cup {Gone}

TypeOK ==
  /\ alternative \in Alternatives
  /\ index \in [Lists -> Nat \cup {NoIndex}]
  /\ loaded \in BOOLEAN /\ fixed \in BOOLEAN
  /\ tags \in TagSets
  /\ status \in {200, 410, 500}
  /\ walk \in [Lists -> Seq(Taken)]
  /\ changes \in 0 .. MaxChanges

\* loop_alternative as it stands in the source: it calls itself with the index
\* it has moved to.
LoopAlternative(k, i) ==
  LET loop[j \in Nat \cup {NoIndex}] ==
        LET past == j + 1 > Last(k)
            at == IF past THEN 0 ELSE j + 1
        IN  IF past /\ ~alternative.looped[k] THEN [index |-> j + 1, taken |-> Gone]
            ELSE IF Selectable(k, at) THEN [index |-> at, taken |-> at]
            ELSE IF past THEN [index |-> at, taken |-> Gone]
            ELSE loop[at]
  IN  loop[i]

\* The closed form of loop_alternative that the requests above use is what the
\* recursion of the source computes, from every index it may start at.
LoopIsTheCode ==
  \A k \in Lists : alternative.items[k] # <<>> \/ ~alternative.looped[k] =>
    Loop(k, index[k]) = LoopAlternative(k, index[k])

\* The index never points past a looped list, so that reading the item raises
\* nothing: loop_alternative increments it without a test and corrects it
\* afterwards, and each request starts from what the last one left.
IndexInLoop ==
  \A k \in Lists :
    alternative.looped[k] => (index[k] = NoIndex \/ index[k] <= Larger(Last(k), 0))

\* A list that is not looped gives each item at most once, in its order, and
\* nothing after it said 410, whatever the tags do, until it is rewound.
NonLoopedOnce ==
  \A k \in Lists : ~alternative.looped[k] =>
    \A i, j \in DOMAIN walk[k] :
      i < j => (walk[k][j] = Gone \/ (walk[k][i] # Gone /\ walk[k][i] < walk[k][j]))

\* The item after index i, and what a request finds that follows one that got
\* `before', an item, Gone, or NoIndex for the first request.
IsNext(k, i, j) ==
  /\ j \in i + 1 .. Last(k) /\ Selectable(k, j)
  /\ \A m \in i + 1 .. j - 1 : ~Selectable(k, m)
Refuses(k) == alternative.looped[k] => ~Selectable(k, 0)
Follows(k, before, now) ==
  LET i == IF before = Gone THEN NoIndex ELSE before
  IN  IF before = Gone /\ ~alternative.looped[k] THEN now = Gone
      ELSE \/ IsNext(k, i, now)
           \/ /\ \A m \in i + 1 .. Last(k) : ~Selectable(k, m)
              /\ \/ alternative.looped[k] /\ IsNext(k, NoIndex, now)
                 \/ now = Gone /\ Refuses(k)

\* With tags that do not change, the requests get the selectable items of the
\* configuration in their order, none left out and none twice in a round.
\* After the last a looped list starts over at its first selectable one; a
\* request in between may be answered 410 if the list begins with another, and
\* no two in a row are.  One that is not looped answers 410 from then on.
InConfiguredOrder ==
  fixed => \A k \in Lists : \A n \in DOMAIN walk[k] :
    Follows(k, IF n = 1 THEN NoIndex ELSE walk[k][n - 1], walk[k][n])

\* Once a list that is not looped is exhausted, every request that comes to it
\* is answered 410 (or fails) until the iterators are reset or the
\* configuration replaced: the unbounded increments of the index never bring an
\* item back.
Exhausted(k) == ~alternative.looped[k] /\ index[k] > Last(k)
ComesTo(k) == k = "dataset" => ~(IsMulti /\ TakesNothing)
ExhaustedStays ==
  [][(\E k \in Lists : Exhausted(k) /\ ComesTo(k)) /\ Request => status' \in {410, 500}]_vars

\* "Responses without tag attribute are always selected": with one in a looped
\* list no request finds the responses exhausted.
AlwaysSelected ==
  (alternative.looped["response"] /\ NoTag \in Range(alternative.items["response"])) =>
    Gone \notin Range(walk["response"])
=============================================================================
