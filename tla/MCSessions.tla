----------------------------- MODULE MCSessions -----------------------------
(* Sessions on four descriptors, three accounts and two status texts. *)
EXTENDS Sessions, TLC

Symmetry == Permutations(Fds) \cup Permutations(Users)
=============================================================================
