--------------------------- MODULE MCServerBrowser ---------------------------
(* ServerBrowser with as many slots as servers, for a client that goes by   *)
(* its own name and looks at channels and for one that goes by another's    *)
(* and looks at members.                                                    *)
EXTENDS ServerBrowser, TLC

MCInit == Init /\ named = (followed = "channels")
MCSpec == MCInit /\ [][Next]_vars

(* Equal states: a slot past the list that neither the cursor can come to   *)
(* nor the chat shows is refilled before it is looked at; the screen under  *)
(* a window that is closed does not matter, nor do the histories while what *)
(* will set them is on its way; refusals that are ignored are equal, and so *)
(* are those that are not; making a channel and dropping one differ in when *)
(* they can be asked for only; a client that has ended can only be started  *)
(* again.                                                                   *)
SeenOf(i) == IF i <= Max({count, cursor}) \/ i = active THEN slots[i] ELSE Blank
SeenRequest(r) == IF r.kind = "dropChannel" THEN [r EXCEPT !.kind = "newChannel"] ELSE r
SeenPacket(p) ==
  IF p.kind # "reply" THEN p
  ELSE IF ~p.ok THEN [p EXCEPT !.to = IF @ \in QuickKinds THEN "create" ELSE "delete"]
  ELSE IF p.to = "dropChannel" THEN [p EXCEPT !.to = "newChannel"]
  ELSE p
ListAskedFor == \E k \in DOMAIN up : up[k].kind = "list"
SlowUnderWay ==
  \/ \E k \in DOMAIN up : up[k].kind \in SlowKinds
  \/ \E k \in DOMAIN down : down[k].kind = "reply" /\ down[k].to \in SlowKinds
Seen ==
  IF crashed THEN <<followed, guilds>>
  ELSE <<followed, waiting, waiting /\ unheard /\ ~SlowUnderWay, guilds, viewing,
         outdated \/ ListAskedFor, [k \in DOMAIN up |-> SeenRequest(up[k])],
         [k \in DOMAIN down |-> SeenPacket(down[k])], [i \in 1 .. MaxSlots |-> SeenOf(i)],
         count, cursor, active, active # 0 /\ refilled, screen,
         screen = "command" /\ previous = "chat">>
=============================================================================
