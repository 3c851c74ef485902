------------------------------- MODULE MCChat -------------------------------
(* Chat with two clients and two channels.  The first client does and      *)
(* meets everything.  The second is there to post: it keeps up with what   *)
(* it is sent, stays in its first channel, and what is on its screen does  *)
(* not tell states apart.                                                  *)
EXTENDS Chat, TLC

CONSTANT Quick   \* the client that keeps up

QuickKeepsUp == Len(up[Quick]) <= 1 /\ Len(down[Quick]) <= 1 /\ view[Quick] <= 1

Seen == <<posts, saved, up, down, view, [c \in Clients \ {Quick} |-> shown[c]]>>
=============================================================================
