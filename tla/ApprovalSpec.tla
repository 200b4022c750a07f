---------------------------- MODULE ApprovalSpec ----------------------------
(***************************************************************************)
(* What the approval queue promises, whatever processes share its table:   *)
(* a request a person approved authorizes at most one run, a request a     *)
(* person rejected authorizes none, and an approval may be lost (expiry,   *)
(* purge, failure, crash) but never multiplied.                            *)
(***************************************************************************)
CONSTANT Ids

VARIABLE state

vars == state

States == {"none", "waiting", "granted", "refused", "claimed", "ran", "gone"}

Init == state = [id \in Ids |-> "none"]

\* A call that needs approval is queued.
Ask(id) ==
    /\ state[id] = "none"
    /\ state' = [state EXCEPT ![id] = "waiting"]

\* A person decides; a decision is final.
Approve(id) ==
    /\ state[id] = "waiting"
    /\ state' = [state EXCEPT ![id] = "granted"]

Reject(id) ==
    /\ state[id] = "waiting"
    /\ state' = [state EXCEPT ![id] = "refused"]

\* One matching call takes the approval, and no other can take it again.
Claim(id) ==
    /\ state[id] = "granted"
    /\ state' = [state EXCEPT ![id] = "claimed"]

Run(id) ==
    /\ state[id] = "claimed"
    /\ state' = [state EXCEPT ![id] = "ran"]

\* Requests and unused approvals may disappear, several at a time.
Lose(S) ==
    /\ S # {}
    /\ \A id \in S : state[id] \in {"waiting", "granted", "claimed"}
    /\ state' = [id \in Ids |-> IF id \in S THEN "gone" ELSE state[id]]

Next ==
    \/ \E id \in Ids : Ask(id) \/ Approve(id) \/ Reject(id) \/ Claim(id) \/ Run(id)
    \/ \E S \in SUBSET Ids : Lose(S)

Spec == Init /\ [][Next]_vars
=============================================================================
