----------------------------- MODULE Friendship -----------------------------
(***************************************************************************)
(* What the friend requests of Tizcord promise: how two users stand to     *)
(* each other, seen from both sides.  Friends have been through a request, *)
(* and the two sides never disagree.                                       *)
(***************************************************************************)
CONSTANT Users

VARIABLE bond   \* bond[a][b]: how a sees b

Bonds == {"none", "outgoing", "incoming", "friends"}

(* What b sees when a sees x. *)
Mirror(x) == IF x = "outgoing" THEN "incoming"
             ELSE IF x = "incoming" THEN "outgoing"
             ELSE x

Init == bond = [a \in Users |-> [b \in Users |-> "none"]]

(* a comes to see b as x. *)
Set(a, b, x) ==
  bond' = [bond EXCEPT ![a][b] = x, ![b][a] = Mirror(x)]

Ask(a, b)     == a # b /\ bond[a][b] = "none" /\ Set(a, b, "outgoing")
Agree(a, b)   == bond[a][b] = "incoming" /\ Set(a, b, "friends")
Decline(a, b) == bond[a][b] = "incoming" /\ Set(a, b, "none")
Part(a, b)    == bond[a][b] = "friends" /\ Set(a, b, "none")

Next == \E a, b \in Users : Ask(a, b) \/ Agree(a, b) \/ Decline(a, b) \/ Part(a, b)

Spec == Init /\ [][Next]_bond
=============================================================================
