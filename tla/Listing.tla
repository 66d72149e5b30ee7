------------------------------ MODULE Listing ------------------------------
(***************************************************************************)
(* What GET /resources promises: the files it lists are those that the     *)
(* configuration in force refers to (its services, or its globals), and    *)
(* any that a refused configuration of one service has left behind.  Only  *)
(* a configuration that was refused half-way spoils the list, until the    *)
(* next one is accepted.  Resources is shown to implement this.            *)
(***************************************************************************)
CONSTANTS Paths, Services, Hidden

VARIABLES refs,   \* per service, the files its configuration refers to
          left,   \* files of refused configurations of single services
          sound,  \* no configuration was refused half-way since the last one
          answer  \* the last list given
vars == <<refs, left, sound, answer>>

Init ==
  /\ refs \in [Services -> SUBSET Paths]
  /\ left = {} /\ sound = TRUE /\ answer = {}

Replace ==
  /\ refs' \in [Services -> SUBSET Paths]
  /\ left' = {} /\ sound' = TRUE /\ UNCHANGED answer

ReplaceOne ==
  /\ refs' \in [Services -> SUBSET Paths]
  /\ \E s \in Services : \A t \in Services \ {s} : refs'[t] = refs[t]
  /\ UNCHANGED <<left, sound, answer>>

Refuse ==
  /\ left \subseteq left' /\ left' \subseteq Paths
  /\ UNCHANGED <<refs, sound, answer>>

Spoil == sound' = FALSE /\ UNCHANGED <<refs, left, answer>>

List ==
  /\ answer' \subseteq Paths
  /\ sound => answer' = ((UNION {refs[s] : s \in Services}) \cup left) \ Hidden
  /\ UNCHANGED <<refs, left, sound>>

Next == Replace \/ ReplaceOne \/ Refuse \/ Spoil \/ List
Spec == Init /\ [][Next]_vars
=============================================================================
