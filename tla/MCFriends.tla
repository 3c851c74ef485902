------------------------------ MODULE MCFriends ------------------------------
(* Friends among three users. *)
EXTENDS Friends, TLC

Symmetry == Permutations(Users)
=============================================================================
