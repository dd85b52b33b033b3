--------------------------- MODULE MCPortObserver ---------------------------
(* Instances of PortObserver for TLC. *)
EXTENDS PortObserver, TLC

\* Every handle refers to the one object.
OneObject == [h \in Handles |-> CHOOSE d \in Objects : TRUE]

Symmetry == Permutations(Threads) \cup Permutations(Observers)
=============================================================================
