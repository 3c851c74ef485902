--------------------------- MODULE MCDirectMessages ---------------------------
(* A conversation of two clients.  The first does and meets everything.    *)
(* The second is there to come, write and go: it keeps up with what it is  *)
(* sent, and what is on its screen does not tell states apart.             *)
EXTENDS DirectMessages, TLC

CONSTANT Quick   \* the client that keeps up

QuickKeepsUp ==
  /\ Len(up[Quick]) + Len(down[Quick]) <= 1
  /\ Quick \in listed => Quick \in onDMs

OfOthers(f) == [c \in Clients \ {Quick} |-> f[c]]

Seen == <<typed, saved, session, up, down, listed, onDMs, OfOthers(shown),
          opened \ {Quick}, OfOthers(hasty)>>
=============================================================================
