--------------------------- MODULE MCMemberLists ---------------------------
(* MemberLists on three descriptors, two users and one server id, which is *)
(* used again after a delete.                                              *)
EXTENDS MemberLists, TLC

Symmetry == Permutations(Fds) \cup Permutations(Users)

(* The user lists and what peers were told follow from the rest and are    *)
(* never read by these actions: two states that differ in them only are    *)
(* the same state here.                                                    *)
Seen == <<accounts, open, client, server, role, viewing, memberList>>
=============================================================================
