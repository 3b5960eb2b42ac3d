-------------------------- MODULE MCPageOwnership --------------------------
(* PageOwnership with two machines and a few pages, one of them reserved.  *)
(* Pages are interchangeable within Usable, and so are the machines.       *)
EXTENDS PageOwnership, TLC

MCChainloads == SUBSET Page

Symmetry == Permutations(Usable) \cup Permutations(Vm)
=============================================================================
