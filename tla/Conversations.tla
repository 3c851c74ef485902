---------------------------- MODULE Conversations ----------------------------
(***************************************************************************)
(* What Chat and DirectMessages have in common: the rows a query returns,  *)
(* the packets that carry them, and what a client that plays packets one   *)
(* after the other makes of them.                                          *)
(*                                                                         *)
(* Only and Screen recur through functions, of which the provers can       *)
(* reason; an operator argument (SelectSeq) they could not instantiate.    *)
(***************************************************************************)
EXTENDS Naturals, Sequences, SequencesExt

(* The elements of s that are in S, in the order of s: the rows a WHERE    *)
(* clause leaves of a table.                                               *)
Only(s, S) ==
  LET kept[n \in 0 .. Len(s)] ==
        IF n = 0 THEN <<>>
        ELSE IF s[n] \in S THEN Append(kept[n - 1], s[n])
        ELSE kept[n - 1]
  IN  kept[Len(s)]

(* A message, as a row of a history or as it is sent on. *)
AsPacket(msg) == [kind |-> "message", msg |-> msg]
AsPackets(msgs) == [k \in DOMAIN msgs |-> AsPacket(msgs[k])]

(* What is on the screen after packet p, room permitting: a start frame    *)
(* empties the conversation, a message is added to it.                     *)
Played(s, p) ==
  IF p.kind = "start" THEN <<>>
  ELSE IF p.kind = "message" THEN Append(s, p.msg)
  ELSE s

(* And after the packets d. *)
Screen(s, d) ==
  LET after[n \in 0 .. Len(d)] == IF n = 0 THEN s ELSE Played(after[n - 1], d[n])
  IN  after[Len(d)]
=============================================================================
