---------------------------- MODULE MCFriendSlots ----------------------------
(* FriendSlots with two other users, who are as good as each other.  Past   *)
(* the end of the list a slot is filled anew before its type is looked at,  *)
(* and its user only counts while it is the active one; a client that is    *)
(* stuck can only be started again.                                         *)
EXTENDS FriendSlots, TLC

CONSTANT MaxDown   \* bound: packets on their way to the client

ShortLink == Len(down) <= MaxDown

SeenOf(i) ==
  IF i <= count THEN slots[i]
  ELSE [slots[i] EXCEPT !.type = "outgoing", !.id = IF i = active THEN @ ELSE None]

Seen ==
  IF stuck # "no" THEN <<table, stuck>>
  ELSE <<table, up, down, screen, [i \in Slots |-> SeenOf(i)], count, active, draft, listed>>

Symmetric == Permutations(Users)
=============================================================================
