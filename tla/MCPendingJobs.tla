---------------------------- MODULE MCPendingJobs ----------------------------
(* Instances of PendingJobs for TLC.                                       *)
EXTENDS PendingJobs, TLC

ApprovalCard == {"approve", "configure", "reject"}
EveryButton == ApprovalCard \cup {"model", "confirm", "back", "cancel"}

Symmetry == Permutations(Slot) \cup Permutations(Job)
=============================================================================
