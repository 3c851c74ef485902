------------------------------ MODULE MCGuilds ------------------------------
(* Guilds with three users, two ids per table and two names. *)
EXTENDS Guilds, TLC

Symmetry == Permutations(Users) \cup Permutations(Names)
=============================================================================
