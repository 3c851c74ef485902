---------------------------- MODULE MCListStream ----------------------------
(* Arrays of one to three entries and lists that are longer; the client's   *)
(* arrays are smaller than the server's, as in the code.                    *)
EXTENDS ListStream, TLC

MCAccCap == [servers |-> 3, channels |-> 2, members |-> 3]
MCUiCap == [servers |-> 2, channels |-> 1, members |-> 2, friends |-> 2]

(* What /kick read last tells no states apart. *)
Seen == <<signed, late, nextListId, down, shown, memberCount, due>>
=============================================================================
