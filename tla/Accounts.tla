------------------------------ MODULE Accounts ------------------------------
(***************************************************************************)
(* The accounts of the server, which its client table (Sessions) and its   *)
(* servers and channels (Guilds) refer to by row id.                       *)
(***************************************************************************)
CONSTANTS
  Users,    \* the people who may register, and who never disappear
  NoUser    \* id 0: no account, of a client that has not logged in

ASSUME AccountsAssumption == NoUser \notin Users
=============================================================================
