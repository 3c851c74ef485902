---------------------------- MODULE ClientSession ----------------------------
(***************************************************************************)
(* Signing in and out, as the people at several terminals see it: the      *)
(* login and signup forms of the client, the users[] array its screens     *)
(* take their own name from, and the account each connection is in at the  *)
(* server.                                                                 *)
(*                                                                         *)
(* Both ends are one thread.  Between them lie two ordered links, so keys  *)
(* pressed while an answer is under way act on a form, or on a screen, that *)
(* the answer is about to change: the client takes its own name from the   *)
(* form when the answer comes, not when the request goes.                  *)
(*                                                                         *)
(* What happens on the screens behind the login is abstracted to one       *)
(* screen "in" with the one key that matters here (ESC); ServerBrowser and *)
(* FriendSlots model those screens.  A person edits a field at will: each  *)
(* edit stands for a few key presses.                                      *)
(***************************************************************************)
EXTENDS Naturals, Sequences, FiniteSets

CONSTANTS
  Terminals,   \* the client processes, at most one at a time on each
  Names,       \* user names
  Passwords,
  Empty,       \* an empty field; also the name of nobody
  MaxUsers,    \* entries of the client's users[] (MAX_USERS)
  MaxAsked     \* bound: requests of one terminal that are unanswered at once

ASSUME ClientSessionAssumption ==
  /\ Empty \notin Names \cup Passwords
  /\ MaxUsers \in Nat \ {0}
  /\ MaxAsked \in Nat \ {0}

VARIABLES
  password,    \* the users table: Empty where no account has the name
  login,       \* per terminal, the account of its connection at the server
  link,        \* per terminal, the state of its connection: see Links
  up, down,    \* per terminal, the authentication packets on their way
  ui,          \* per terminal, the client's state
  calm,        \* history: no key was pressed while an answer was awaited
  taken        \* history: the account was taken over from this terminal

vars == <<password, login, link, up, down, ui, calm, taken>>

(* "off": no client runs; "open": it is connected; "left": it has ended and *)
(* the server has not noticed; "cut": the server has ended and the client   *)
(* has not noticed; "dead": it has, and client_socket is -1.                *)
Links == {"off", "open", "left", "cut", "dead"}

Runs(c) == link[c] \in {"open", "cut", "dead"}

(* A client that has just started.  count is user_count; current is        *)
(* current_user + 1, so 0 stands for -1; own is the name in that entry.    *)
Fresh ==
  [screen |-> "login", name |-> Empty, pass |-> Empty, note |-> "none",
   count |-> 0, current |-> 0, own |-> Empty]

Requests ==
  [act : {"login", "register"}, name : Names, pass : Passwords]
    \cup {[act |-> "logout"]}

Answers ==
  [act : {"login", "register"}, code : {"ok", "bad"}]
    \cup [act : {"logout"}, code : {"ok", "done", "bad"}]

TypeOK ==
  /\ password \in [Names -> Passwords \cup {Empty}]
  /\ login \in [Terminals -> Names \cup {Empty}]
  /\ link \in [Terminals -> Links]
  /\ up \in [Terminals -> Seq(Requests)]
  /\ down \in [Terminals -> Seq(Answers)]
  /\ ui \in [Terminals ->
       [screen : {"login", "signup", "in"},
        name : Names \cup {Empty}, pass : Passwords \cup {Empty},
        note : {"none", "required", "waiting", "refused", "welcome", "out", "elsewhere"},
        count : 0..(MaxUsers + 1), current : 0..(MaxUsers + 1),
        own : Names \cup {Empty}]]
  /\ calm \in [Terminals -> BOOLEAN]
  /\ taken \in [Terminals -> BOOLEAN]
  /\ \A c \in Terminals : login[c] # Empty => password[login[c]] # Empty

(* An entry past the end of users[] has been written: from there on the    *)
(* program is undefined, and the model lets the terminal do nothing more.  *)
Overrun(s) == s.count > MaxUsers

(* The answers still owed to c.  A logout packet with status OK is the      *)
(* server's own doing and answers nothing.                                 *)
IsAnswer(p) == ~(p.act = "logout" /\ p.code = "ok")

Outstanding(c) == Len(up[c]) + Cardinality({k \in DOMAIN down[c] : IsAnswer(down[c][k])})

Init ==
  /\ password = [n \in Names |-> Empty]
  /\ login = [c \in Terminals |-> Empty]
  /\ link = [c \in Terminals |-> "off"]
  /\ up = [c \in Terminals |-> <<>>]
  /\ down = [c \in Terminals |-> <<>>]
  /\ ui = [c \in Terminals |-> Fresh]
  /\ calm = [c \in Terminals |-> TRUE]
  /\ taken = [c \in Terminals |-> FALSE]

-----------------------------------------------------------------------------
(* The keys. *)

CanPress(c) == Runs(c) /\ ~Overrun(ui[c])

(* A key at rest on the forms starts afresh; behind the login the name     *)
(* that was shown stays, however it came about.                            *)
NoteKey(c) ==
  calm' = [calm EXCEPT ![c] =
             Outstanding(c) = 0 /\ (ui[c].screen = "in" => calm[c])]

(* safe_send_packet: with no connection there is only an error on stderr;  *)
(* what is written to one that the server has ended goes nowhere.          *)
SendUp(c, p) ==
  /\ Outstanding(c) < MaxAsked
  /\ up' = [up EXCEPT ![c] = IF link[c] = "open" THEN Append(@, p) ELSE @]

(* handle_auth_input, the keys that edit the two fields or move between    *)
(* them: every one of them also clears the lines below the form.           *)
EditForm(c) ==
  /\ CanPress(c)
  /\ ui[c].screen # "in"
  /\ \E n \in Names \cup {Empty}, p \in Passwords \cup {Empty} :
       ui' = [ui EXCEPT ![c].name = n, ![c].pass = p, ![c].note = "none"]
  /\ NoteKey(c)
  /\ UNCHANGED <<password, login, link, up, down, taken>>

(* F2 on either form: the other one, empty. *)
SwitchForm(c) ==
  /\ CanPress(c)
  /\ ui[c].screen # "in"
  /\ ui' = [ui EXCEPT ![c].screen = IF @ = "login" THEN "signup" ELSE "login",
                      ![c].name = Empty, ![c].pass = Empty, ![c].note = "none"]
  /\ NoteKey(c)
  /\ UNCHANGED <<password, login, link, up, down, taken>>

(* ENTER with an empty field. *)
SubmitIncomplete(c) ==
  /\ CanPress(c)
  /\ ui[c].screen # "in"
  /\ Empty \in {ui[c].name, ui[c].pass}
  /\ ui' = [ui EXCEPT ![c].note = "required"]
  /\ NoteKey(c)
  /\ UNCHANGED <<password, login, link, up, down, taken>>

(* ENTER: the request goes, the form keeps what was typed, and the key     *)
(* works again at once.                                                    *)
Submit(c) ==
  /\ CanPress(c)
  /\ ui[c].screen # "in"
  /\ Empty \notin {ui[c].name, ui[c].pass}
  /\ SendUp(c, [act  |-> IF ui[c].screen = "signup" THEN "register" ELSE "login",
                name |-> ui[c].name, pass |-> ui[c].pass])
  /\ ui' = [ui EXCEPT ![c].note = "waiting"]
  /\ NoteKey(c)
  /\ UNCHANGED <<password, login, link, down, taken>>

(* ESC on the server list, the friends or the users screen: the screen     *)
(* stays until the answer comes.                                           *)
Escape(c) ==
  /\ CanPress(c)
  /\ ui[c].screen = "in"
  /\ SendUp(c, [act |-> "logout"])
  /\ NoteKey(c)
  /\ UNCHANGED <<password, login, link, down, ui, taken>>

-----------------------------------------------------------------------------
(* The server's handlers. *)

(* The links once the packets p[d] are sent to the terminals d of D.  A    *)
(* terminal that has ended receives nothing.                               *)
Sent(D, p) ==
  [d \in Terminals |-> IF d \in D /\ link[d] = "open" THEN Append(down[d], p[d]) ELSE down[d]]

Replies(c, act, code) == down' = Sent({c}, [d \in {c} |-> [act |-> act, code |-> code]])

Connected(c) == link[c] \in {"open", "left"}

Handles(c, act) ==
  /\ Connected(c)
  /\ up[c] # <<>>
  /\ Head(up[c]).act = act
  /\ up' = [up EXCEPT ![c] = Tail(@)]

(* register_account.  A new name is also a login; the password is kept as  *)
(* its hash, which only the same password gives.                           *)
RegisterAccount(c) ==
  /\ Handles(c, "register")
  /\ LET r == Head(up[c]) IN
       \/ /\ password[r.name] = Empty
          /\ password' = [password EXCEPT ![r.name] = r.pass]
          /\ login' = [login EXCEPT ![c] = r.name]
          /\ taken' = [taken EXCEPT ![c] = FALSE]
          /\ Replies(c, "register", "ok")
       \/ /\ password[r.name] # Empty
          /\ Replies(c, "register", "bad")
          /\ UNCHANGED <<password, login, taken>>
  /\ UNCHANGED <<link, ui, calm>>

(* revoke_existing_login: the other connections in the account n. *)
RevokedBy(c, n) == {d \in Terminals \ {c} : Connected(d) /\ login[d] = n}

(* Mutants: an unknown name or a wrong password is not answered; the older *)
(* session is revoked without a word.                                      *)
LoginInSilence(c) ==
  /\ Handles(c, "login")
  /\ LET r == Head(up[c])
         R == RevokedBy(c, r.name) IN
       \/ /\ password[r.name] = r.pass
          /\ login' = [d \in Terminals |-> IF d = c THEN r.name
                                           ELSE IF d \in R THEN Empty ELSE login[d]]
          /\ taken' = [d \in Terminals |-> d # c /\ (d \in R \/ taken[d])]
          /\ down' = Sent(R \cup {c},
                          [d \in R \cup {c} |-> IF d = c THEN [act |-> "login", code |-> "ok"]
                                                ELSE [act |-> "logout", code |-> "ok"]])
       \/ /\ password[r.name] # r.pass
          /\ UNCHANGED <<login, taken, down>>
  /\ UNCHANGED <<password, link, ui, calm>>

RevokeInSilence(c) ==
  /\ Handles(c, "login")
  /\ LET r == Head(up[c])
         R == RevokedBy(c, r.name) IN
       \/ /\ password[r.name] = r.pass
          /\ login' = [d \in Terminals |-> IF d = c THEN r.name
                                           ELSE IF d \in R THEN Empty ELSE login[d]]
          /\ taken' = [d \in Terminals |-> d # c /\ (d \in R \/ taken[d])]
          /\ Replies(c, "login", "ok")
       \/ /\ password[r.name] # r.pass
          /\ Replies(c, "login", "bad")
          /\ UNCHANGED <<login, taken>>
  /\ UNCHANGED <<password, link, ui, calm>>

(* login_account.  The connection may be in an account already: it is then *)
(* in the new one.                                                         *)
LoginAccount(c) ==
  /\ Handles(c, "login")
  /\ LET r == Head(up[c])
         R == RevokedBy(c, r.name) IN
       \/ /\ password[r.name] = r.pass
          /\ login' = [d \in Terminals |-> IF d = c THEN r.name
                                           ELSE IF d \in R THEN Empty ELSE login[d]]
          /\ taken' = [d \in Terminals |-> d # c /\ (d \in R \/ taken[d])]
          /\ down' = Sent(R \cup {c},
                          [d \in R \cup {c} |-> IF d = c THEN [act |-> "login", code |-> "ok"]
                                                ELSE [act |-> "logout", code |-> "ok"]])
       \/ /\ password[r.name] # r.pass
          /\ Replies(c, "login", "bad")
          /\ UNCHANGED <<login, taken>>
  /\ UNCHANGED <<password, link, ui, calm>>

(* Mutant: the answer to a logout has the status of every other success. *)
LogoutSaysOK(c) ==
  /\ Handles(c, "logout")
  /\ Replies(c, "logout", IF login[c] = Empty THEN "bad" ELSE "ok")
  /\ login' = [login EXCEPT ![c] = Empty]
  /\ UNCHANGED <<password, link, ui, calm, taken>>

(* logout_account. *)
LogoutAccount(c) ==
  /\ Handles(c, "logout")
  /\ Replies(c, "logout", IF login[c] = Empty THEN "bad" ELSE "done")
  /\ login' = [login EXCEPT ![c] = Empty]
  /\ UNCHANGED <<password, link, ui, calm, taken>>

(* The server reads the end of the stream, or fails on a connection whose  *)
(* peer has gone: what it had not read yet is lost.                        *)
Disconnect(c) ==
  /\ link[c] = "left"
  /\ link' = [link EXCEPT ![c] = "off"]
  /\ login' = [login EXCEPT ![c] = Empty]
  /\ up' = [up EXCEPT ![c] = <<>>]
  /\ UNCHANGED <<password, down, ui, calm, taken>>

(* The server ends and is started again: only the database remains. *)
RestartServer ==
  /\ \E c \in Terminals : Connected(c)
  /\ login' = [c \in Terminals |-> Empty]
  /\ link' = [c \in Terminals |-> CASE link[c] = "open" -> "cut"
                                    [] link[c] = "left" -> "off"
                                    [] OTHER -> link[c]]
  /\ up' = [c \in Terminals |-> <<>>]
  /\ UNCHANGED <<password, down, ui, calm, taken>>

-----------------------------------------------------------------------------
(* The client. *)

(* Mutant: a logout does not reset current_user. *)
KeepCurrentUser(s, p) ==
  CASE p.act \in {"login", "register"} /\ p.code = "ok" ->
         [s EXCEPT !.count = @ + 1, !.current = s.count + 1, !.own = s.name,
                   !.screen = "in", !.name = Empty, !.pass = Empty, !.note = "welcome"]
    [] p.act \in {"login", "register"} /\ p.code # "ok" -> [s EXCEPT !.note = "refused"]
    [] p.act = "logout" ->
         [s EXCEPT !.screen = "login", !.name = Empty, !.pass = Empty,
                   !.note = IF p.code = "done" THEN "out" ELSE "elsewhere"]

(* ui_handle_auth_response: the client state s once it has read p.  The    *)
(* own name is what the form holds at this moment; user_count only grows.  *)
HandleAuthResponse(s, p) ==
  CASE p.act \in {"login", "register"} /\ p.code = "ok" ->
         [s EXCEPT !.count = @ + 1, !.current = s.count + 1, !.own = s.name,
                   !.screen = "in", !.name = Empty, !.pass = Empty, !.note = "welcome"]
    [] p.act \in {"login", "register"} /\ p.code # "ok" -> [s EXCEPT !.note = "refused"]
    [] p.act = "logout" ->
         [s EXCEPT !.current = 0, !.own = Empty, !.screen = "login",
                   !.name = Empty, !.pass = Empty,
                   !.note = IF p.code = "done" THEN "out" ELSE "elsewhere"]

ReceiveAuth(c) ==
  /\ link[c] \in {"open", "cut"}
  /\ ~Overrun(ui[c])
  /\ down[c] # <<>>
  /\ ui' = [ui EXCEPT ![c] = HandleAuthResponse(@, Head(down[c]))]
  /\ down' = [down EXCEPT ![c] = Tail(@)]
  /\ UNCHANGED <<password, login, link, up, calm, taken>>

(* The read finds the end of the stream, or a reset that drops what was    *)
(* not read.  The screen stays as it is, and nothing reconnects.           *)
LoseServer(c) ==
  /\ link[c] = "cut"
  /\ link' = [link EXCEPT ![c] = "dead"]
  /\ down' = [down EXCEPT ![c] = <<>>]
  /\ UNCHANGED <<password, login, up, ui, calm, taken>>

(* A client is started and connects; a client is ended, at any moment. *)
StartClient(c) ==
  /\ link[c] = "off"
  /\ link' = [link EXCEPT ![c] = "open"]
  /\ calm' = [calm EXCEPT ![c] = TRUE]
  /\ taken' = [taken EXCEPT ![c] = FALSE]
  /\ UNCHANGED <<password, login, up, down, ui>>

EndClient(c) ==
  /\ Runs(c)
  /\ link' = [link EXCEPT ![c] = IF @ = "open" THEN "left" ELSE "off"]
  /\ down' = [down EXCEPT ![c] = <<>>]
  /\ ui' = [ui EXCEPT ![c] = Fresh]
  /\ UNCHANGED <<password, login, up, calm, taken>>

-----------------------------------------------------------------------------
Keys(c) ==
  EditForm(c) \/ SwitchForm(c) \/ SubmitIncomplete(c) \/ Submit(c) \/ Escape(c)

HandleAuthPacket(c) == RegisterAccount(c) \/ LoginAccount(c) \/ LogoutAccount(c)

Next ==
  \/ RestartServer
  \/ \E c \in Terminals :
       \/ Keys(c)
       \/ HandleAuthPacket(c)
       \/ Disconnect(c)
       \/ ReceiveAuth(c)
       \/ LoseServer(c)
       \/ StartClient(c)
       \/ EndClient(c)

Spec == Init /\ [][Next]_vars

-----------------------------------------------------------------------------
(* The states a client in s passes through while it reads the answers d. *)
Readings(s, d) ==
  LET after[i \in 0 .. Len(d)] ==
        IF i = 0 THEN s ELSE HandleAuthResponse(after[i - 1], d[i])
  IN  after

(* The client once everything that is on its way to it has been read. *)
Settled(c) == Readings(ui[c], down[c])[Len(down[c])]

(* Whatever was pressed and whoever took over the account, the answers and *)
(* notices on their way to a connected client leave it behind the login    *)
(* exactly when its connection is in an account: no answer that comes late *)
(* undoes a newer one (ui_handle_auth_response against auth.c).            *)
LastWord ==
  \A c \in Terminals :
    link[c] = "open" /\ ~Overrun(Settled(c)) =>
      (Settled(c).screen = "in" <=> login[c] # Empty)

(* The name on the client's screens, which also decides which messages are *)
(* its own and when /setstatus is done, is the account its connection is   *)
(* in, unless a key was pressed while an answer was awaited: the name is   *)
(* read from the form when the answer comes.                               *)
NameIsAccount ==
  \A c \in Terminals :
    link[c] = "open" /\ calm[c] /\ ~Overrun(Settled(c)) => Settled(c).own = login[c]

(* What the line under the form says is true: "logged in elsewhere" is     *)
(* shown to those whose account was taken over, and to nobody who pressed  *)
(* ESC once and waited; and while "Authenticating..." is shown the request *)
(* or its answer is on the way, whatever was pressed or revoked meanwhile. *)
NoteIsTrue ==
  \A c \in Terminals : link[c] = "open" =>
    /\ ui[c].note = "elsewhere" /\ calm[c] => taken[c]
    /\ ui[c].note = "waiting" =>
         \/ \E k \in DOMAIN up[c] : up[c][k].act # "logout"
         \/ \E k \in DOMAIN down[c] : down[c][k].act # "logout"

(* ui.c declares current_user to be an index into users[]. *)
IndexInUsers == \A c \in Terminals : ui[c].current <= MaxUsers
=============================================================================
