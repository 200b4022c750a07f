----------------------------- MODULE MCApproval -----------------------------
(* Instances of ApprovalQueue for TLC.                                      *)
EXTENDS ApprovalQueue, TLC

CONSTANTS c1, c2, s1, s2, p1, p2

\* One call in each of two servers of the same client, or both in one server.
MCTwoServers == c1 :> s1 @@ c2 :> s2
MCOneServer == c1 :> s1 @@ c2 :> s1

\* The same call from either server, or two calls that differ in their payload.
MCPlansOfSame == [s \in Servers |-> {p1}]
MCPlansOfBoth == [s \in Servers |-> {p1, p2}]

\* Every call, and the queue tool itself, needs approval.
MCAskOnly == {[t \in Targets |-> "RequireApproval"]}

\* A restart may bring any uniform verdict.
MCAnyVerdict == {[t \in Targets |-> v] : v \in Verdicts}

Symmetry == Permutations(Ids)
=============================================================================
