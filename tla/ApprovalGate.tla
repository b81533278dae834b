---------------------------- MODULE ApprovalGate ----------------------------
(***************************************************************************)
(* What the confirm flow promises: an action that needs approval is        *)
(* approved or rejected at most once, an absolutely blocked one never, and *)
(* an expired one never again.                                             *)
(***************************************************************************)
CONSTANTS Actions

VARIABLES
  status,   \* per action
  absolute  \* the actions issued with an L4 verdict

Init == status = [a \in Actions |-> "none"] /\ absolute = {}

Issue(a) ==
  /\ status[a] = "none"
  /\ status' = [status EXCEPT ![a] = "pending"]
  /\ absolute' = absolute \/ absolute' = absolute \cup {a}

Decide(a) ==
  /\ status[a] = "pending" /\ a \notin absolute
  /\ \E d \in {"approved", "rejected"} : status' = [status EXCEPT ![a] = d]
  /\ UNCHANGED absolute

\* Eviction may take several actions at once.
Expire ==
  /\ \E E \in SUBSET {a \in Actions : status[a] = "pending"} :
       status' = [a \in Actions |-> IF a \in E THEN "expired" ELSE status[a]]
  /\ UNCHANGED absolute

Next == (\E a \in Actions : Issue(a) \/ Decide(a)) \/ Expire
Spec == Init /\ [][Next]_<<status, absolute>>
=============================================================================
