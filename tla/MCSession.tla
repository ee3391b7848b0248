------------------------------ MODULE MCSession ------------------------------
(* Instances of Session for TLC: tasks and conversation ids are symmetric.  *)
EXTENDS Session, TLC

Symmetry == Permutations(Tasks) \cup Permutations(Convs)
=============================================================================
