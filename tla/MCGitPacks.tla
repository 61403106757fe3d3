------------------------------- MODULE MCGitPacks -------------------------------
(* Instances of GitPacks for TLC. *)
EXTENDS GitPacks, TLC

\* Clients of the same protocol do not differ.
ClientSymmetry == Permutations(V2) \cup Permutations(Clients \ V2)
=============================================================================
