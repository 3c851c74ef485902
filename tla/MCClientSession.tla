--------------------------- MODULE MCClientSession ---------------------------
(* Terminals and names are interchangeable.  A client that has lost its    *)
(* connection, or written past users[], can only be ended; what its form    *)
(* and its histories hold then tells no states apart, and of the line       *)
(* under the form only those do that the invariants speak of.               *)
EXTENDS ClientSession, FiniteSetsExt, TLC

Symmetric == Permutations(Terminals) \cup Permutations(Names)

SeenOf(c) ==
  IF link[c] # "open" THEN <<>>
  ELSE IF Overrun(ui[c]) THEN <<"overrun">>
  ELSE <<down[c], calm[c], taken[c],
         [ui[c] EXCEPT !.note = IF @ \in {"waiting", "elsewhere"} THEN @ ELSE "none"]>>

(* Bound: the answers that all the terminals await together. *)
CONSTANT MaxTogether

Together == MapThenSumSet(Outstanding, Terminals) <= MaxTogether

(* Bound: people pause with both fields of the form filled or both empty. *)
WholeForms == \A c \in Terminals : ui[c].name = Empty <=> ui[c].pass = Empty

Seen == <<password, login, link, up, [c \in Terminals |-> SeenOf(c)]>>
=============================================================================
