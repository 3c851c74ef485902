------------------------- MODULE DirectMessages_proofs -------------------------
(***************************************************************************)
(* Proofs about DirectMessages for any two clients and all bounds: its     *)
(* types, that what the friend says arrives, that nothing is on a screen   *)
(* twice, and which of the user's own messages stay.                       *)
(*                                                                         *)
(* A message is in up to four places: on its sender's screen (the echo),   *)
(* in the sender's queue, in the table and on the way to the friend.       *)
(* Posted tells which of them go together: a message that waits to be      *)
(* handled is nowhere but on its sender's screen.  Waits is what MineStay  *)
(* needs of one that was typed with no history under way: none comes       *)
(* before the server has it in the table.                                  *)
(***************************************************************************)
EXTENDS DirectMessages, Conversations_proofs

PacketsOf(M) == [kind : {"list", "start"}] \cup [kind : {"message"}, msg : M]

(* Only a client that is logged in is sent something, and only one that    *)
(* has the friend in its list asks for a history.                          *)
Connected ==
  \A c \in Clients :
    /\ up[c] # <<>> \/ down[c] # <<>> => c \in session
    /\ Has(up[c], "history") \/ Has(down[c], "start") => c \in listed

(* The messages that have been typed and do not wait to be handled.        *)
Known == {m \in Messages : m.n <= typed} \ Waiting(Clients, up)

(* What is in the table or on its way to a screen is known; on a screen    *)
(* are also the messages of its user that still wait.                      *)
Posted ==
  /\ WaitOnce(Clients, up)
  /\ \A m \in Waiting(Clients, up) : m.n <= typed
  /\ \A c \in Clients : Posts(up[c]) \subseteq Said(c)
  /\ saved \in Seq(Known)
  /\ IsInjective(saved)
  /\ down \in [Clients -> Seq(PacketsOf(Known))]
  /\ \A c \in Clients : shown[c] \in Seq(Known \cup Posts(up[c]))

(* A message of c that was typed with no history under way is handled      *)
(* before the next one, and on the screen until then, room permitting.     *)
Waits ==
  \A c \in Clients : \A k \in DOMAIN up[c] :
    up[c][k].kind = "post" /\ up[c][k].msg \notin hasty[c] =>
      /\ \A j \in DOMAIN up[c] : j < k => up[c][j].kind # "history"
      /\ ~Has(down[c], "start")
      /\ Len(shown[c]) < MaxMessages => up[c][k].msg \in ToSet(shown[c])

-----------------------------------------------------------------------------
(* Type correctness. *)

LEMMA Sides ==
  ASSUME DirectMessagesAssumption, NEW c \in Clients
  PROVE  Other(c) \in Clients /\ Other(c) # c /\ \A d \in Clients : d = c \/ d = Other(c)
  <1>1. PICK a \in Clients, b \in Clients : a # b /\ Clients = {a, b}
      BY DEF DirectMessagesAssumption
  <1>2. \E d \in Clients : d # c
      BY <1>1
  <1>3. Other(c) \in Clients /\ Other(c) # c
      BY <1>2 DEF Other
  <1>4. QED
      BY <1>1, <1>3

LEMMA MessagesAre ==
  ASSUME DirectMessagesAssumption
  PROVE  /\ \A n \in 1 .. MaxPosts, c \in Clients : [n |-> n, from |-> c] \in Messages
         /\ \A m \in Messages : m.n \in Nat /\ m.from \in Clients /\ m \in Said(m.from)
         /\ \A c \in Clients : Said(c) \subseteq Messages
         /\ \A c \in Clients, m \in Messages : m \in Said(c) <=> m.from = c
  BY DEF DirectMessagesAssumption, Messages, Said

LEMMA RequestsAre ==
  /\ [kind |-> "list"] \in Requests /\ [kind |-> "history"] \in Requests
  /\ \A m \in Messages : [kind |-> "post", msg |-> m] \in Requests
  /\ \A r \in Requests : r.kind \in {"list", "history", "post"}
  /\ \A r \in Requests : r.kind = "post" => r.msg \in Messages
  BY DEF Requests

LEMMA PacketsAre ==
  ASSUME NEW M
  PROVE  /\ [kind |-> "list"] \in PacketsOf(M) /\ [kind |-> "start"] \in PacketsOf(M)
         /\ \A m \in M : AsPacket(m) \in PacketsOf(M)
         /\ [kind : {"message"}, msg : M] \subseteq PacketsOf(M)
         /\ \A p \in PacketsOf(M) : p.kind \in {"list", "start", "message"}
         /\ \A p \in PacketsOf(M) : p.kind = "message" => p.msg \in M
         /\ \A N : M \subseteq N => PacketsOf(M) \subseteq PacketsOf(N)
  BY DEF PacketsOf, AsPacket

LEMMA KeepTyped ==
  ASSUME DirectMessagesAssumption, NEW T, NEW s \in Seq(T), NEW m \in T
  PROVE  /\ Keep(s, m) \in Seq(T)
         /\ Len(s) <= MaxMessages => Len(Keep(s, m)) <= MaxMessages
  <1>1. Append(s, m) \in Seq(T) /\ Len(Append(s, m)) = Len(s) + 1 /\ Len(s) \in Nat
      BY OneAdded
  <1>2. MaxMessages \in Nat
      BY DEF DirectMessagesAssumption
  <1>3. QED
      BY <1>1, <1>2 DEF Keep

(* The last rows of s that a history answer takes.                         *)
LastOf(s) == SubSeq(s, IF Len(s) > HistoryLimit THEN Len(s) - HistoryLimit + 1 ELSE 1, Len(s))

LEMMA LastOfIs ==
  ASSUME DirectMessagesAssumption, NEW T, NEW s \in Seq(T)
  PROVE  /\ LastOf(s) \in Seq(T) /\ IsSuffix(LastOf(s), s)
         /\ Len(LastOf(s)) = IF Len(s) > HistoryLimit THEN HistoryLimit ELSE Len(s)
  <1> DEFINE k == IF Len(s) > HistoryLimit THEN Len(s) - HistoryLimit ELSE 0
             a == SubSeq(s, 1, k)
             b == SubSeq(s, k + 1, Len(s))
  <1>1. Len(s) \in Nat /\ HistoryLimit \in Nat \ {0} /\ k \in 0 .. Len(s)
      BY DEF DirectMessagesAssumption
  <1>2. LastOf(s) = b
      BY <1>1 DEF LastOf
  <1>3. Len(s) - k = IF Len(s) > HistoryLimit THEN HistoryLimit ELSE Len(s)
      BY <1>1
  <1> HIDE DEF k
  <1>4. \A i \in 1 .. Len(s) : s[i] \in T
      BY ElementOfSeq
  <1>5. /\ a \in Seq(T) /\ Len(a) = IF 1 <= k THEN k - 1 + 1 ELSE 0
        /\ \A i \in 1 .. k - 1 + 1 : a[i] = s[1 + i - 1]
    <2>1. 1 \in Int /\ k \in Int /\ \A i \in 1 .. k : i \in 1 .. Len(s)
        BY <1>1
    <2>2. QED
        BY <1>4, <2>1, SubSeqProperties
  <1>6. /\ b \in Seq(T) /\ Len(b) = IF k + 1 <= Len(s) THEN Len(s) - (k + 1) + 1 ELSE 0
        /\ \A i \in 1 .. Len(s) - (k + 1) + 1 : b[i] = s[k + 1 + i - 1]
    <2>1. k + 1 \in Int /\ Len(s) \in Int /\ \A i \in k + 1 .. Len(s) : i \in 1 .. Len(s)
        BY <1>1
    <2>2. QED
        BY <1>4, <2>1, SubSeqProperties
  <1> HIDE DEF a, b
  <1>7. Len(a) = k /\ \A i \in 1 .. k : a[i] = s[i]
    <2>1. k - 1 + 1 = k /\ (~(1 <= k) => k = 0) /\ \A i \in 1 .. k : 1 + i - 1 = i
        BY <1>1
    <2>2. QED
        BY <1>5, <2>1
  <1>8. Len(b) = Len(s) - k /\ \A i \in 1 .. Len(s) - k : b[i] = s[k + i]
    <2>1. /\ Len(s) - (k + 1) + 1 = Len(s) - k /\ (~(k + 1 <= Len(s)) => Len(s) - k = 0)
          /\ \A i \in 1 .. Len(s) - k : k + 1 + i - 1 = k + i
        BY <1>1
    <2>2. QED
        BY <1>6, <2>1
  <1>9. /\ a \o b \in Seq(T) /\ Len(a \o b) = Len(a) + Len(b)
        /\ \A i \in 1 .. Len(a) + Len(b) : (a \o b)[i] = IF i <= Len(a) THEN a[i] ELSE b[i - Len(a)]
    <2>1. a \in Seq(T) /\ b \in Seq(T)
        BY <1>5, <1>6
    <2>2. QED
        BY <2>1, ConcatProperties
  <1>10. Len(a) + Len(b) = Len(s)
      BY <1>1, <1>7, <1>8
  <1>11. ASSUME NEW i \in 1 .. Len(s)
         PROVE  (a \o b)[i] = s[i]
    <2>1. CASE i <= k
        BY <1>1, <1>7, <1>9, <1>10, <2>1
    <2>2. CASE ~(i <= k)
      <3>1. i - k \in 1 .. Len(s) - k /\ k + (i - k) = i
          BY <1>1, <2>2
      <3>2. (a \o b)[i] = b[i - k]
          BY <1>7, <1>9, <1>10, <2>2
      <3>3. QED
          BY <1>8, <3>1, <3>2
    <2>3. QED
        BY <2>1, <2>2
  <1>12. a \o b = s
      BY <1>9, <1>10, <1>11, SeqEqual
  <1>13. IsSuffix(b, a \o b)
      BY <1>5, <1>6, SuffixJoin
  <1>14. QED
      BY <1>2, <1>3, <1>6, <1>8, <1>12, <1>13

(* One more row: the others of the last rows were among them before.       *)
LEMMA LastOfAppend ==
  ASSUME DirectMessagesAssumption, NEW T, NEW s \in Seq(T), NEW m \in T
  PROVE  IsSuffix(LastOf(Append(s, m)), Append(LastOf(s), m))
  <1> DEFINE t == Append(s, m)
             a == LastOf(s)
             b == LastOf(t)
  <1>1. /\ t \in Seq(T) /\ Len(t) = Len(s) + 1 /\ Len(s) \in Nat /\ HistoryLimit \in Nat \ {0}
      BY AppendProperties DEF DirectMessagesAssumption
  <1>2. /\ a \in Seq(T) /\ IsSuffix(a, s) /\ Len(a) = IF Len(s) > HistoryLimit THEN HistoryLimit ELSE Len(s)
      BY LastOfIs
  <1>3. /\ b \in Seq(T) /\ IsSuffix(b, t) /\ Len(b) = IF Len(t) > HistoryLimit THEN HistoryLimit ELSE Len(t)
    <2> HIDE DEF t
    <2>1. QED
        BY <1>1, LastOfIs
  <1> HIDE DEF a, b
  <1>4. IsSuffix(Append(a, m), t)
      BY <1>2, SuffixOn
  <1>5. Append(a, m) \in Seq(T) /\ Len(Append(a, m)) = Len(a) + 1
      BY <1>2, AppendProperties
  <1>6. Len(b) <= Len(Append(a, m))
      BY <1>1, <1>2, <1>3, <1>5
  <1> DEFINE e == Append(a, m)
  <1> HIDE DEF t, e
  <1>7. IsSuffix(b, e)
      BY <1>1, <1>3, <1>4, <1>5, <1>6, SuffixNested DEF e
  <1>8. QED
      BY <1>7 DEF t, a, b, e

(* What is left when nothing is said of a client.                          *)
Same(c) ==
  /\ up'[c] = up[c] /\ down'[c] = down[c] /\ shown'[c] = shown[c]
  /\ c \in session <=> c \in session'
  /\ c \in listed <=> c \in listed'
  /\ c \in opened <=> c \in opened'
  /\ hasty'[c] = hasty[c]

LEMMA InitTyped ==
  ASSUME DirectMessagesAssumption, Init
  PROVE  TypeOK /\ Connected
  <1>1. \A T : <<>> \in Seq(T)
      BY EmptySeq
  <1>2. Len(<<>>) <= MaxMessages /\ 0 \in 0 .. MaxPosts
      BY DEF DirectMessagesAssumption
  <1>3. Connected
      BY DEF Init, Connected, Has
  <1>4. QED
      BY <1>1, <1>2, <1>3 DEF Init, TypeOK

LEMMA SessionTyped ==
  ASSUME DirectMessagesAssumption, TypeOK, Connected, NEW c \in Clients, Start(c) \/ Stop(c)
  PROVE  TypeOK' /\ Connected'
  <1>1. CASE Start(c)
    <2>1. TypeOK'
        BY <1>1 DEF Start, TypeOK
    <2>2. Connected'
        BY <1>1 DEF Start, Connected
    <2>3. QED
        BY <2>1, <2>2
  <1>2. CASE Stop(c)
    <2>1. up' \in [Clients -> Seq(Requests)] /\ down' \in [Clients -> Seq(Packets)]
          /\ shown' \in [Clients -> Seq(Messages)]
        BY <1>2, Queues DEF Stop, TypeOK
    <2>2. \A d \in Clients : Len(shown'[d]) <= MaxMessages
      <3>1. Len(<<>>) <= MaxMessages /\ \A d \in Clients : shown'[d] = IF d = c THEN <<>> ELSE shown[d]
          BY <1>2 DEF Stop, TypeOK, DirectMessagesAssumption
      <3>2. QED
          BY <3>1 DEF TypeOK
    <2>3. TypeOK'
        BY <1>2, <2>1, <2>2 DEF Stop, TypeOK
    <2>4. Connected'
      <3>1. \A d \in Clients : d # c => Same(d)
          BY <1>2 DEF Stop, TypeOK, Same
      <3>2. up'[c] = <<>> /\ down'[c] = <<>>
          BY <1>2 DEF Stop, TypeOK
      <3>3. ~Has(<<>>, "history") /\ ~Has(<<>>, "start")
          BY DEF Has
      <3>4. QED
          BY <3>1, <3>2, <3>3 DEF Connected, Same
    <2>5. QED
        BY <2>3, <2>4
  <1>3. QED
      BY <1>1, <1>2

(* A request that is sent. *)
LEMMA RequestTyped ==
  ASSUME TypeOK, Connected, NEW c \in Clients, NEW r \in Requests,
         Request(c, r) \/ (c \in session /\ up' = [up EXCEPT ![c] = Append(@, r)]),
         UNCHANGED <<session, down>>,
         listed \subseteq listed', r.kind = "history" => c \in listed'
  PROVE  up' \in [Clients -> Seq(Requests)] /\ Connected'
  <1>1. c \in session /\ up' = [up EXCEPT ![c] = Append(@, r)] /\ up[c] \in Seq(Requests)
      BY DEF Request, TypeOK
  <1>2. up' \in [Clients -> Seq(Requests)]
      BY <1>1, Queues DEF TypeOK
  <1>3. up'[c] = Append(up[c], r) /\ \A d \in Clients : d # c => up'[d] = up[d]
      BY <1>1 DEF TypeOK
  <1>4. Has(up'[c], "history") <=> Has(up[c], "history") \/ r.kind = "history"
      BY <1>1, <1>3, HasAppend
  <1>5. QED
      BY <1>1, <1>2, <1>3, <1>4 DEF Connected

LEMMA KeyTyped ==
  ASSUME DirectMessagesAssumption, TypeOK, Connected, NEW c \in Clients, Key(c)
  PROVE  TypeOK' /\ Connected'
  <1>1. CASE OpenDMs(c)
    <2>1. up' \in [Clients -> Seq(Requests)] /\ Connected' /\ c \in session
      <3>1. Request(c, [kind |-> "list"]) /\ UNCHANGED <<session, down, listed>>
          BY <1>1 DEF OpenDMs
      <3>2. QED
          BY <3>1, RequestTyped, RequestsAre DEF Request
    <2>2. QED
        BY <1>1, <2>1 DEF OpenDMs, TypeOK
  <1>2. CASE CloseDMs(c)
      BY <1>2 DEF CloseDMs, TypeOK, Connected
  <1>3. CASE SelectFriend(c)
    <2>1. up' \in [Clients -> Seq(Requests)] /\ Connected'
      <3>1. Request(c, [kind |-> "history"]) /\ c \in listed /\ UNCHANGED <<session, down, listed>>
          BY <1>3 DEF SelectFriend
      <3>2. QED
          BY <3>1, RequestTyped, RequestsAre
    <2>2. QED
        BY <1>3, <2>1 DEF SelectFriend, TypeOK
  <1>4. CASE Type(c)
    <2> DEFINE m == [n |-> typed + 1, from |-> c]
               r == [kind |-> "post", msg |-> m]
    <2>1. typed' \in 0 .. MaxPosts /\ typed + 1 \in 1 .. MaxPosts
        BY <1>4 DEF Type, TypeOK, DirectMessagesAssumption
    <2>2. m \in Messages /\ r \in Requests /\ r.kind = "post"
        BY <2>1, MessagesAre, RequestsAre
    <2>3. Request(c, r) /\ UNCHANGED <<saved, session, down, listed, onDMs, opened>>
          /\ shown' = [shown EXCEPT ![c] = Keep(@, m)]
          /\ (hasty' = hasty \/ hasty' = [hasty EXCEPT ![c] = @ \cup {m}])
        BY <1>4 DEF Type
    <2> HIDE DEF m, r
    <2>4. up' \in [Clients -> Seq(Requests)] /\ Connected'
        BY <2>2, <2>3, RequestTyped
    <2>5. shown' \in [Clients -> Seq(Messages)] /\ \A d \in Clients : Len(shown'[d]) <= MaxMessages
      <3>1. Keep(shown[c], m) \in Seq(Messages) /\ Len(Keep(shown[c], m)) <= MaxMessages
          BY <2>2, KeepTyped DEF TypeOK
      <3>2. QED
          BY <2>3, <3>1 DEF TypeOK
    <2>6. hasty' \in [Clients -> SUBSET Messages]
        BY <2>2, <2>3 DEF TypeOK
    <2>7. QED
        BY <2>1, <2>3, <2>4, <2>5, <2>6 DEF TypeOK
  <1>5. QED
      BY <1>1, <1>2, <1>3, <1>4 DEF Key

(* The packets of a history. *)
LEMMA HistorySent ==
  ASSUME DirectMessagesAssumption, TypeOK, NEW M, saved \in Seq(M), NEW c \in Clients, HandleHistory(c),
         down[c] \in Seq(PacketsOf(M))
  PROVE  /\ LastRows \in Seq(M) /\ AsPackets(LastRows) \in Seq(PacketsOf(M))
         /\ down' = [down EXCEPT ![c] = Append(@, [kind |-> "start"]) \o AsPackets(LastRows)]
         /\ Append(down[c], [kind |-> "start"]) \in Seq(PacketsOf(M))
         /\ Append(down[c], [kind |-> "start"]) \o AsPackets(LastRows) \in Seq(PacketsOf(M))
  <1> DEFINE first == [kind |-> "start"]
             rows == AsPackets(LastRows)
             P == PacketsOf(M)
  <1>1. LastRows = LastOf(saved)
      BY DEF LastRows, LastOf
  <1>2. LastRows \in Seq(M)
      BY <1>1, LastOfIs
  <1>3. rows \in Seq(P) /\ first \in P
    <2>1. rows \in Seq([kind : {"message"}, msg : M])
        BY <1>2, PacketsTyped
    <2>2. [kind : {"message"}, msg : M] \subseteq P /\ first \in P
        BY PacketsAre
    <2>3. QED
        BY <2>1, <2>2, SeqMonotonic
  <1>4. down' = [down EXCEPT ![c] = (@ \o <<first>>) \o rows]
      BY DEF HandleHistory
  <1>5. down[c] \in Seq(P)
      OBVIOUS
  <1> HIDE DEF first, rows, P
  <1>6. down[c] \o <<first>> = Append(down[c], first) /\ Append(down[c], first) \in Seq(P)
      BY <1>3, <1>5
  <1>7. Append(down[c], first) \o rows \in Seq(P)
      BY <1>3, <1>6
  <1>8. down' = [down EXCEPT ![c] = Append(@, first) \o rows]
    <2>1. [down EXCEPT ![c] = (down[c] \o <<first>>) \o rows]
            = [down EXCEPT ![c] = Append(down[c], first) \o rows]
        BY <1>6
    <2>2. QED
        BY <1>4, <2>1
  <1>9. QED
      BY <1>2, <1>3, <1>6, <1>7, <1>8 DEF first, rows, P

(* What the server sends, of messages of M that are in the table or in the *)
(* request it handles.                                                     *)
LEMMA HandleSends ==
  ASSUME DirectMessagesAssumption, TypeOK, NEW c \in Clients, Handle(c), NEW M, saved \in Seq(M),
         down \in [Clients -> Seq(PacketsOf(M))],
         HandlePost(c) => Head(up[c]).msg \in M
  PROVE  saved' \in Seq(M) /\ down' \in [Clients -> Seq(PacketsOf(M))]
  <1>1. CASE HandlePost(c)
    <2>1. Head(up[c]).msg \in M /\ AsPacket(Head(up[c]).msg) \in PacketsOf(M)
        BY <1>1, PacketsAre
    <2>2. saved' \in Seq(M)
      <3> DEFINE m == Head(up[c]).msg
      <3>1. m \in M /\ (saved' = Append(saved, m) \/ saved' = saved)
          BY <1>1, <2>1 DEF HandlePost
      <3> HIDE DEF m
      <3>2. Append(saved, m) \in Seq(M)
          BY <3>1, AppendProperties
      <3>3. QED
          BY <3>1, <3>2
    <2>3. Other(c) \in Clients
        BY Sides
    <2>4. down' \in [Clients -> Seq(PacketsOf(M))]
        BY <1>1, <2>1, <2>3, Queues DEF HandlePost, Deliver
    <2>5. QED
        BY <2>2, <2>4
  <1>2. CASE HandleHistory(c)
    <2>1. saved' = saved
        BY <1>2 DEF HandleHistory
    <2>2. down[c] \in Seq(PacketsOf(M))
        OBVIOUS
    <2>3. /\ down' = [down EXCEPT ![c] = Append(@, [kind |-> "start"]) \o AsPackets(LastRows)]
          /\ Append(down[c], [kind |-> "start"]) \o AsPackets(LastRows) \in Seq(PacketsOf(M))
        BY <1>2, <2>2, HistorySent
    <2>4. down' \in [Clients -> Seq(PacketsOf(M))]
        BY <2>3
    <2>5. QED
        BY <2>1, <2>4
  <1>3. CASE HandleList(c) \/ PushList(c)
    <2>1. down' = [down EXCEPT ![c] = Append(@, [kind |-> "list"])] /\ saved' = saved
        BY <1>3 DEF HandleList, PushList
    <2>2. [kind |-> "list"] \in PacketsOf(M)
        BY PacketsAre
    <2>3. down' \in [Clients -> Seq(PacketsOf(M))]
        BY <2>1, <2>2, Queues
    <2>4. QED
        BY <2>1, <2>3
  <1>4. QED
      BY <1>1, <1>2, <1>3 DEF Handle

LEMMA HandleTyped ==
  ASSUME DirectMessagesAssumption, TypeOK, Connected, NEW c \in Clients, Handle(c)
  PROVE  TypeOK' /\ Connected'
  <1>1. UNCHANGED <<typed, session, listed, onDMs, shown, opened, hasty>>
      BY DEF Handle, HandlePost, HandleHistory, HandleList, PushList
  <1>2. /\ up[c] \in Seq(Requests)
        /\ (up' = up /\ c \in session) \/ (up[c] # <<>> /\ up' = Answered(c))
    <2>1. up[c] \in Seq(Requests)
        BY DEF TypeOK
    <2>2. CASE PushList(c)
        BY <2>1, <2>2 DEF PushList
    <2>3. CASE HandlePost(c) \/ HandleHistory(c) \/ HandleList(c)
        BY <2>1, <2>3 DEF HandlePost, HandleHistory, HandleList, Asks
    <2>4. QED
        BY <2>2, <2>3 DEF Handle
  <1>3. up' \in [Clients -> Seq(Requests)] /\ (up[c] # <<>> => Head(up[c]) \in Requests)
    <2>1. up \in [Clients -> Seq(Requests)]
        BY DEF TypeOK
    <2>2. up[c] # <<>> => Answered(c) \in [Clients -> Seq(Requests)] /\ Head(up[c]) \in Requests
        BY <2>1, Queues DEF Answered
    <2>3. QED
        BY <1>2, <2>1, <2>2
  <1>4. c \in session /\ \A d \in Clients : up'[d] # <<>> => d \in session
    <2>1. \A d \in Clients : d # c => up'[d] = up[d]
        BY <1>2 DEF TypeOK, Answered
    <2>2. c \in session
        BY <1>2 DEF Connected
    <2>3. QED
        BY <2>1, <2>2 DEF Connected
  <1>5. PacketsOf(Messages) = Packets
      BY DEF PacketsOf, Packets
  <1>6. saved' \in Seq(Messages) /\ down' \in [Clients -> Seq(Packets)]
    <2>1. saved \in Seq(Messages) /\ down \in [Clients -> Seq(PacketsOf(Messages))]
        BY <1>5 DEF TypeOK
    <2>2. HandlePost(c) => Head(up[c]).msg \in Messages
        BY <1>3, RequestsAre DEF HandlePost, Asks
    <2>3. QED
        BY <1>5, <2>1, <2>2, HandleSends
  <1>7. TypeOK'
      BY <1>1, <1>3, <1>6 DEF TypeOK
  <1>8. \A d \in Clients : Has(up'[d], "history") => d \in listed
    <2>1. \A d \in Clients : d # c => up'[d] = up[d]
        BY <1>2 DEF TypeOK, Answered
    <2>2. Has(up'[c], "history") => Has(up[c], "history")
      <3>1. CASE up' = up
          BY <3>1
      <3>2. CASE up[c] # <<>> /\ up' = Answered(c)
        <4>1. up'[c] = Tail(up[c])
            BY <3>2 DEF Answered, TypeOK
        <4>2. QED
            BY <1>2, <3>2, <4>1, HasTail
      <3>3. QED
          BY <1>2, <3>1, <3>2
    <2>3. QED
        BY <2>1, <2>2 DEF Connected
  <1>9. ASSUME NEW d \in Clients
        PROVE  /\ down'[d] # <<>> => d \in session
               /\ Has(down'[d], "start") => d \in listed
    <2>1. /\ down[d] # <<>> => d \in session
          /\ Has(down[d], "start") => d \in listed
          /\ down[d] \in Seq(Packets)
        BY DEF Connected, TypeOK
    <2>2. CASE HandlePost(c)
      <3>1. CASE d = Other(c) /\ d \in session
        <4> DEFINE p == AsPacket(Head(up[c]).msg)
        <4>1. down'[d] = Append(down[d], p) /\ p.kind = "message"
            BY <2>2, <3>1 DEF HandlePost, Deliver, AsPacket, TypeOK
        <4>2. p \in Packets
            BY <1>3, <1>5, <2>2, RequestsAre, PacketsAre DEF HandlePost, Asks
        <4> HIDE DEF p
        <4>3. QED
            BY <2>1, <3>1, <4>1, <4>2, HasAppend
      <3>2. CASE ~(d = Other(c) /\ d \in session)
        <4>1. down'[d] = down[d]
            BY <2>2, <3>2 DEF HandlePost, Deliver, TypeOK
        <4>2. QED
            BY <2>1, <4>1
      <3>3. QED
          BY <3>1, <3>2
    <2>3. CASE HandleHistory(c)
      <3>1. c \in listed
        <4>1. Head(up[c]).kind = "history" /\ up[c] # <<>>
            BY <2>3 DEF HandleHistory, Asks
        <4>2. Has(up[c], "history")
            BY <1>2, <4>1, HasTail
        <4>3. QED
            BY <4>2 DEF Connected
      <3>2. d # c => down'[d] = down[d]
          BY <2>3 DEF HandleHistory, TypeOK
      <3>3. QED
          BY <1>4, <2>1, <3>1, <3>2
    <2>4. CASE HandleList(c) \/ PushList(c)
      <3> DEFINE p == [kind |-> "list"]
      <3>1. down'[d] = IF d = c THEN Append(down[d], p) ELSE down[d]
          BY <2>4 DEF HandleList, PushList, TypeOK
      <3>2. p \in Packets /\ p.kind # "start"
          BY <1>5, PacketsAre
      <3> HIDE DEF p
      <3>3. Has(Append(down[d], p), "start") <=> Has(down[d], "start")
          BY <2>1, <3>2, HasAppend
      <3>4. QED
          BY <1>4, <2>1, <3>1, <3>3
    <2>5. QED
        BY <2>2, <2>3, <2>4 DEF Handle
  <1>10. Connected'
      BY <1>1, <1>4, <1>8, <1>9 DEF Connected
  <1>11. QED
      BY <1>7, <1>10

(* What a client shows of messages of N, when it is sent messages of M.    *)
LEMMA ReceiveShows ==
  ASSUME DirectMessagesAssumption, TypeOK, NEW c \in Clients, Receive(c), NEW M, NEW N, M \subseteq N,
         down \in [Clients -> Seq(PacketsOf(M))], shown[c] \in Seq(N)
  PROVE  /\ down' \in [Clients -> Seq(PacketsOf(M))]
         /\ \E s \in Seq(N) : Len(s) <= MaxMessages /\ shown' = [shown EXCEPT ![c] = s]
  <1>1. down[c] # <<>> /\ down' = Taken(c)
      BY DEF Receive, ReceiveList, ReceiveStart, ReceiveMessage, Gets
  <1>2. down' \in [Clients -> Seq(PacketsOf(M))] /\ Head(down[c]) \in PacketsOf(M)
      BY <1>1, Queues DEF Taken
  <1>3. Len(shown[c]) <= MaxMessages /\ shown = [shown EXCEPT ![c] = shown[c]]
      BY DEF TypeOK
  <1>4. CASE shown' = shown
      BY <1>2, <1>3, <1>4
  <1>5. CASE ReceiveStart(c)
    <2>1. <<>> \in Seq(N) /\ Len(<<>>) <= MaxMessages
        BY DEF DirectMessagesAssumption
    <2>2. shown' = [shown EXCEPT ![c] = <<>>]
        BY <1>5 DEF ReceiveStart
    <2>3. QED
        BY <1>2, <2>1, <2>2
  <1>6. CASE ReceiveMessage(c) /\ c \in listed
    <2> DEFINE s == Keep(shown[c], Head(down[c]).msg)
    <2>1. Head(down[c]).msg \in N
        BY <1>2, <1>6, PacketsAre DEF ReceiveMessage, Gets
    <2>2. s \in Seq(N) /\ Len(s) <= MaxMessages
        BY <1>3, <2>1, KeepTyped
    <2>3. shown' = [shown EXCEPT ![c] = s]
        BY <1>6 DEF ReceiveMessage
    <2> HIDE DEF s
    <2>4. QED
        BY <1>2, <2>2, <2>3
  <1>7. QED
      BY <1>4, <1>5, <1>6 DEF Receive, ReceiveList, ReceiveMessage

LEMMA ReceiveTyped ==
  ASSUME DirectMessagesAssumption, TypeOK, Connected, NEW c \in Clients, Receive(c)
  PROVE  TypeOK' /\ Connected'
  <1>1. PacketsOf(Messages) = Packets
      BY DEF PacketsOf, Packets
  <1>2. down \in [Clients -> Seq(PacketsOf(Messages))] /\ shown[c] \in Seq(Messages)
      BY <1>1 DEF TypeOK
  <1>3. /\ down' \in [Clients -> Seq(Packets)]
        /\ \E s \in Seq(Messages) : Len(s) <= MaxMessages /\ shown' = [shown EXCEPT ![c] = s]
      BY <1>1, <1>2, ReceiveShows
  <1>4. shown' \in [Clients -> Seq(Messages)] /\ \A d \in Clients : Len(shown'[d]) <= MaxMessages
      BY <1>3 DEF TypeOK
  <1>5. /\ down[c] # <<>> /\ down' = Taken(c) /\ c \in session /\ down[c] \in Seq(Packets)
        /\ down'[c] = Tail(down[c]) /\ \A d \in Clients : d # c => down'[d] = down[d]
      BY DEF Receive, ReceiveList, ReceiveStart, ReceiveMessage, Gets, Taken, TypeOK, Connected
  <1>6. \A kind : Has(down'[c], kind) => Has(down[c], kind)
      BY <1>5, HasTail
  <1>7. CASE ReceiveList(c)
    <2> DEFINE r == [kind |-> "history"]
    <2>1. /\ UNCHANGED <<typed, saved, session, onDMs, opened, hasty>> /\ listed' = listed \cup {c}
          /\ up' = IF c \in onDMs THEN [up EXCEPT ![c] = Append(@, r)] ELSE up
        BY <1>7 DEF ReceiveList
    <2>2. r \in Requests
        BY RequestsAre
    <2> HIDE DEF r
    <2>3. up' \in [Clients -> Seq(Requests)]
        BY <2>1, <2>2, Queues DEF TypeOK
    <2>4. TypeOK'
        BY <1>3, <1>4, <1>5, <2>1, <2>3 DEF TypeOK
    <2>5. \A d \in Clients : d # c => up'[d] = up[d]
        BY <2>1 DEF TypeOK
    <2>6. Connected'
        BY <1>5, <2>1, <2>5 DEF Connected
    <2>7. QED
        BY <2>4, <2>6
  <1>8. CASE ReceiveStart(c)
    <2>1. c \in listed
      <3>1. Head(down[c]).kind = "start"
          BY <1>8 DEF ReceiveStart, Gets
      <3>2. Has(down[c], "start")
          BY <1>5, <3>1, HasTail
      <3>3. QED
          BY <3>2 DEF Connected
    <2>2. UNCHANGED <<typed, saved, session, up, listed, onDMs, hasty>> /\ opened' = opened \cup {c}
        BY <1>8 DEF ReceiveStart
    <2>3. TypeOK'
        BY <1>3, <1>4, <2>1, <2>2 DEF TypeOK
    <2>4. Connected'
        BY <1>5, <1>6, <2>2 DEF Connected
    <2>5. QED
        BY <2>3, <2>4
  <1>9. CASE ReceiveMessage(c)
    <2>1. UNCHANGED <<typed, saved, session, up, listed, onDMs, opened, hasty>>
        BY <1>9 DEF ReceiveMessage
    <2>2. TypeOK'
        BY <1>3, <1>4, <2>1 DEF TypeOK
    <2>3. Connected'
        BY <1>5, <1>6, <2>1 DEF Connected
    <2>4. QED
        BY <2>2, <2>3
  <1>10. QED
      BY <1>7, <1>8, <1>9 DEF Receive

LEMMA TypedStays ==
  ASSUME DirectMessagesAssumption, TypeOK, Connected, [Next]_vars
  PROVE  TypeOK' /\ Connected'
  <1>1. CASE UNCHANGED vars
      BY <1>1 DEF TypeOK, Connected, vars
  <1>2. CASE Next
      BY <1>2, SessionTyped, KeyTyped, HandleTyped, ReceiveTyped DEF Next
  <1>3. QED
      BY <1>1, <1>2

(* What is typed, saved, on its way and on the screens stays of its type;  *)
(* a client keeps no more messages than it has room for, and only one with *)
(* the friend in its list has a conversation open.                         *)
THEOREM Typing == Spec => []TypeOK
  <1>1. Init => TypeOK /\ Connected
      BY DirectMessagesAssumption, InitTyped
  <1>2. TypeOK /\ Connected /\ [Next]_vars => TypeOK' /\ Connected'
      BY DirectMessagesAssumption, TypedStays
  <1>3. QED
      BY <1>1, <1>2, PTL DEF Spec

-----------------------------------------------------------------------------
(* A message that waits is nowhere but on the screen of who typed it. *)

LEMMA Wider ==
  ASSUME NEW M, NEW N, M \subseteq N
  PROVE  /\ Seq(M) \subseteq Seq(N)
         /\ [Clients -> Seq(PacketsOf(M))] \subseteq [Clients -> Seq(PacketsOf(N))]
  <1>1. Seq(M) \subseteq Seq(N)
      BY SeqMonotonic
  <1>2. Seq(PacketsOf(M)) \subseteq Seq(PacketsOf(N))
      BY PacketsAre, SeqMonotonic
  <1>3. QED
      BY <1>1, <1>2

(* Whatever is known stays known, while no message is typed.               *)
LEMMA KnownStays ==
  ASSUME DirectMessagesAssumption, TypeOK, Posted, typed' = typed,
         \A d \in Clients : Posts(up'[d]) \subseteq Posts(up[d])
  PROVE  /\ Known \subseteq Known'
         /\ \A m \in Waiting(Clients, up') : m.n <= typed'
         /\ \A d \in Clients : /\ Posts(up'[d]) \subseteq Said(d)
                               /\ Known \cup Posts(up[d]) \subseteq Known' \cup Posts(up'[d])
         /\ \A d \in Clients : \A m \in Posts(up[d]) : m \notin Posts(up'[d]) => m \in Known'
  <1>1. Waiting(Clients, up') \subseteq Waiting(Clients, up)
      BY DEF Waiting
  <1>2. Known \subseteq Known' /\ \A m \in Waiting(Clients, up') : m.n <= typed'
      BY <1>1 DEF Known, Posted
  <1>3. \A d \in Clients : Posts(up'[d]) \subseteq Said(d)
      BY DEF Posted
  <1>4. ASSUME NEW d \in Clients, NEW m \in Posts(up[d]), m \notin Posts(up'[d])
        PROVE  m \in Known'
    <2>1. m \in Messages /\ m.n <= typed'
        BY <1>4, MessagesAre DEF Posted, Waiting
    <2>2. \A e \in Clients : e # d => m \notin Posts(up[e])
        BY DEF Posted, WaitOnce
    <2>3. m \notin Waiting(Clients, up')
        BY <1>4, <2>2 DEF Waiting
    <2>4. QED
        BY <2>1, <2>3 DEF Known
  <1>5. QED
      BY <1>2, <1>3, <1>4

LEMMA InitPosted ==
  ASSUME Init
  PROVE  Posted
  <1>1. \A T : <<>> \in Seq(T)
      BY EmptySeq
  <1>2. WaitOnce(Clients, up) /\ Waiting(Clients, up) = {} /\ \A c \in Clients : Posts(up[c]) = {}
      BY DEF Init, WaitOnce, OnceEach, Waiting, Posts
  <1>3. IsInjective(saved)
      BY DEF Init, IsInjective
  <1>4. QED
      BY <1>1, <1>2, <1>3 DEF Init, Posted

LEMMA SessionPosted ==
  ASSUME DirectMessagesAssumption, TypeOK, Posted, NEW c \in Clients, Start(c) \/ Stop(c)
  PROVE  Posted'
  <1>1. CASE Start(c)
      BY <1>1 DEF Start, Posted, Known
  <1>2. CASE Stop(c)
    <2>1. /\ WaitOnce(Clients, up) /\ UNCHANGED <<typed, saved>>
          /\ up'[c] = <<>> /\ \A d \in Clients : d # c => up'[d] = up[d]
        BY <1>2 DEF Stop, Posted, TypeOK
    <2>2. Posts(<<>>) = {}
        BY DEF Posts
    <2>3. \A d \in Clients : Posts(up'[d]) \subseteq Posts(up[d])
        BY <2>1, <2>2
    <2>4. WaitOnce(Clients, up')
        BY <2>1, WaitDrop
    <2> DEFINE M == Known'
    <2>5. /\ saved \in Seq(M) /\ down \in [Clients -> Seq(PacketsOf(M))]
          /\ \A d \in Clients : shown[d] \in Seq(M \cup Posts(up'[d]))
          /\ \A m \in Waiting(Clients, up') : m.n <= typed'
          /\ \A d \in Clients : Posts(up'[d]) \subseteq Said(d)
        BY <2>1, <2>3, KnownStays, Wider DEF Posted
    <2>6. down' \in [Clients -> Seq(PacketsOf(M))]
      <3> HIDE DEF M
      <3>1. QED
          BY <1>2, <2>5, Queues DEF Stop
    <2>7. \A d \in Clients : shown'[d] \in Seq(M \cup Posts(up'[d]))
      <3>1. \A d \in Clients : shown'[d] = shown[d] \/ shown'[d] = <<>>
          BY <1>2 DEF Stop, TypeOK
      <3>2. \A T : <<>> \in Seq(T)
          BY EmptySeq
      <3> HIDE DEF M
      <3>3. QED
          BY <2>5, <3>1, <3>2
    <2>8. QED
        BY <2>1, <2>4, <2>5, <2>6, <2>7 DEF Posted
  <1>3. QED
      BY <1>1, <1>2

(* A request for a list or a history. *)
LEMMA RequestPosted ==
  ASSUME DirectMessagesAssumption, TypeOK, Posted, NEW c \in Clients, NEW r \in Requests, r.kind # "post",
         Request(c, r) \/ up' = [up EXCEPT ![c] = Append(@, r)]
  PROVE  /\ WaitOnce(Clients, up') /\ \A d \in Clients : Posts(up'[d]) = Posts(up[d])
  <1>1. /\ up[c] \in Seq(Requests)
        /\ up'[c] = Append(up[c], r) /\ \A d \in Clients : d # c => up'[d] = up[d]
      BY DEF Request, TypeOK
  <1>2. WaitOnce(Clients, up)
      BY DEF Posted
  <1>3. WaitOnce(Clients, up')
      BY <1>1, <1>2, WaitAdd
  <1>4. Posts(up'[c]) = Posts(up[c])
    <2>1. Posts(Append(up[c], r)) = Posts(up[c]) \cup (IF r.kind = "post" THEN {r.msg} ELSE {})
        BY <1>1, PostsAppend
    <2>2. QED
        BY <1>1, <2>1
  <1>5. QED
      BY <1>1, <1>3, <1>4

LEMMA KeyPosted ==
  ASSUME DirectMessagesAssumption, TypeOK, Posted, NEW c \in Clients, Key(c)
  PROVE  Posted'
  <1>1. UNCHANGED <<saved, down>>
      BY DEF Key, OpenDMs, CloseDMs, SelectFriend, Type
  <1>2. ASSUME WaitOnce(Clients, up'), \A d \in Clients : Posts(up'[d]) = Posts(up[d]),
               typed' = typed, shown' = shown
        PROVE  Posted'
    <2>1. /\ \A m \in Waiting(Clients, up') : m.n <= typed'
          /\ \A d \in Clients : /\ Posts(up'[d]) \subseteq Said(d)
                                /\ Known \cup Posts(up[d]) \subseteq Known' \cup Posts(up'[d])
          /\ Known \subseteq Known'
        BY <1>2, KnownStays
    <2>2. saved \in Seq(Known') /\ down \in [Clients -> Seq(PacketsOf(Known'))]
        BY <2>1, Wider DEF Posted
    <2>3. \A d \in Clients : shown[d] \in Seq(Known' \cup Posts(up'[d]))
        BY <2>1, SeqMonotonic DEF Posted
    <2>4. QED
        BY <1>1, <1>2, <2>1, <2>2, <2>3 DEF Posted
  <1>3. CASE OpenDMs(c)
    <2>1. Request(c, [kind |-> "list"]) /\ UNCHANGED <<typed, shown>>
        BY <1>3 DEF OpenDMs
    <2>2. QED
        BY <1>2, <2>1, RequestPosted, RequestsAre
  <1>4. CASE CloseDMs(c)
      BY <1>2, <1>4 DEF CloseDMs, Posted
  <1>5. CASE SelectFriend(c)
    <2>1. Request(c, [kind |-> "history"]) /\ UNCHANGED <<typed, shown>>
        BY <1>5 DEF SelectFriend
    <2>2. QED
        BY <1>2, <2>1, RequestPosted, RequestsAre
  <1>6. CASE Type(c)
    <2> DEFINE m == [n |-> typed + 1, from |-> c]
               r == [kind |-> "post", msg |-> m]
    <2>1. typed \in Nat /\ typed' = typed + 1 /\ typed + 1 \in 1 .. MaxPosts
        BY <1>6 DEF Type, TypeOK, DirectMessagesAssumption
    <2>2. /\ m \in Messages /\ m \in Said(c) /\ r \in Requests
          /\ r.kind = "post" /\ r.msg = m /\ m.n = typed + 1
        BY <2>1, MessagesAre, RequestsAre
    <2>3. /\ up[c] \in Seq(Requests) /\ shown[c] \in Seq(Messages)
          /\ up'[c] = Append(up[c], r) /\ \A d \in Clients : d # c => up'[d] = up[d]
          /\ shown'[c] = Keep(shown[c], m) /\ \A d \in Clients : d # c => shown'[d] = shown[d]
        BY <1>6 DEF Type, Request, TypeOK
    <2> HIDE DEF m, r
    <2>4. WaitOnce(Clients, up) /\ \A w \in Waiting(Clients, up) : w.n <= typed
        BY DEF Posted
    <2>5. m \notin Waiting(Clients, up)
        BY <2>1, <2>2, <2>4
    <2>6. WaitOnce(Clients, up') /\ Waiting(Clients, up') = Waiting(Clients, up) \cup {m}
      <3>1. r.kind = "post" => r.msg \notin Waiting(Clients, up)
          BY <2>2, <2>5
      <3> DEFINE X == IF r.kind = "post" THEN {r.msg} ELSE {}
      <3>2. WaitOnce(Clients, up') /\ Waiting(Clients, up') = Waiting(Clients, up) \cup X
        <4>1. r \in Requests /\ WaitOnce(Clients, up)
            BY <2>2, <2>4
        <4>2. up[c] \in Seq(Requests) /\ up'[c] = Append(up[c], r)
            BY <2>3
        <4>3. \A d \in Clients : d # c => up'[d] = up[d]
            BY <2>3
        <4> HIDE DEF X
        <4>4. WaitOnce(Clients, up')
            BY <3>1, <4>1, <4>2, <4>3, WaitAdd
        <4>5. Waiting(Clients, up') = Waiting(Clients, up) \cup (IF r.kind = "post" THEN {r.msg} ELSE {})
            BY <3>1, <4>1, <4>2, <4>3, WaitAdd
        <4>6. QED
            BY <4>4, <4>5 DEF X
      <3>3. QED
          BY <2>2, <3>2
    <2>7. Posts(up'[c]) = Posts(up[c]) \cup {m}
      <3>1. Posts(Append(up[c], r)) = Posts(up[c]) \cup (IF r.kind = "post" THEN {r.msg} ELSE {})
          BY <2>2, <2>3, PostsAppend
      <3>2. QED
          BY <2>2, <2>3, <3>1
    <2>8. \A w \in Messages : w.n <= typed => w.n <= typed' /\ w # m
        BY <2>1, <2>2, MessagesAre
    <2>9. Known \subseteq Known'
        BY <2>6, <2>8 DEF Known
    <2>10. \A w \in Waiting(Clients, up') : w.n <= typed'
      <3>1. Waiting(Clients, up) \subseteq Messages
          BY RequestsAre DEF Waiting, Posts, TypeOK
      <3>2. QED
          BY <2>1, <2>2, <2>4, <2>6, <2>8, <3>1
    <2>11. \A d \in Clients : Posts(up'[d]) \subseteq Said(d)
        BY <2>2, <2>3, <2>7 DEF Posted
    <2>12. \A d \in Clients : shown[d] \in Seq(Known' \cup Posts(up'[d]))
      <3>1. \A d \in Clients : Known \cup Posts(up[d]) \subseteq Known' \cup Posts(up'[d])
          BY <2>3, <2>7, <2>9
      <3>2. QED
          BY <3>1, SeqMonotonic DEF Posted
    <2> DEFINE M == Known'
    <2>13. shown'[c] \in Seq(M \cup Posts(up'[c]))
      <3>1. m \in M \cup Posts(up'[c]) /\ shown[c] \in Seq(M \cup Posts(up'[c]))
          BY <2>7, <2>12
      <3> DEFINE N == M \cup Posts(up'[c])
      <3> HIDE DEF M, N
      <3>2. Keep(shown[c], m) \in Seq(N)
          BY <3>1, KeepTyped DEF N
      <3>3. QED
          BY <2>3, <3>2 DEF N
    <2>14. \A d \in Clients : shown'[d] \in Seq(M \cup Posts(up'[d]))
        BY <2>3, <2>12, <2>13
    <2>15. saved \in Seq(M) /\ down \in [Clients -> Seq(PacketsOf(M))]
        BY <2>9, Wider DEF Posted
    <2>16. QED
        BY <1>1, <2>6, <2>10, <2>11, <2>14, <2>15 DEF Posted
  <1>7. QED
      BY <1>3, <1>4, <1>5, <1>6 DEF Key

(* The message that is handled was nowhere but on the screen of its        *)
(* sender, and no longer waits.                                            *)
LEMMA HandledIs ==
  ASSUME DirectMessagesAssumption, TypeOK, Posted, NEW c \in Clients, HandlePost(c)
  PROVE  /\ Head(up[c]).msg \in Messages /\ Head(up[c]).msg \in Said(c)
         /\ Head(up[c]).msg \in Posts(up[c]) /\ Head(up[c]).msg \notin Known
         /\ \A d \in Clients : d # c => Head(up[c]).msg \notin Posts(up[d])
         /\ Head(up[c]).msg \notin Posts(up'[c])
  <1>1. /\ up[c] \in Seq(Requests) /\ up[c] # <<>> /\ Head(up[c]).kind = "post"
        /\ up'[c] = Tail(up[c]) /\ WaitOnce(Clients, up) /\ Posts(up[c]) \subseteq Said(c)
      BY DEF HandlePost, Asks, Answered, TypeOK, Posted
  <1>2. OnceEach(up[c]) /\ \A d \in Clients : d # c => Posts(up[c]) \cap Posts(up[d]) = {}
      BY <1>1 DEF WaitOnce
  <1>3. Head(up[c]).msg \in Posts(up[c]) /\ Head(up[c]).msg \notin Posts(up'[c])
      BY <1>1, <1>2, PostsTail
  <1>4. QED
      BY <1>1, <1>2, <1>3, MessagesAre DEF Known, Waiting

LEMMA HandlePosted ==
  ASSUME DirectMessagesAssumption, TypeOK, Posted, NEW c \in Clients, Handle(c)
  PROVE  Posted'
  <1>1. UNCHANGED <<typed, shown>> /\ WaitOnce(Clients, up)
      BY DEF Handle, HandlePost, HandleHistory, HandleList, PushList, Posted
  <1>2. WaitOnce(Clients, up') /\ \A d \in Clients : Posts(up'[d]) \subseteq Posts(up[d])
    <2>1. CASE PushList(c)
        BY <1>1, <2>1 DEF PushList
    <2>2. CASE ~PushList(c)
      <3>1. /\ up[c] \in Seq(Requests) /\ up[c] # <<>>
            /\ up'[c] = Tail(up[c]) /\ \A d \in Clients : d # c => up'[d] = up[d]
          BY <2>2 DEF TypeOK, Handle, HandlePost, HandleHistory, HandleList, Asks, Answered
      <3>2. WaitOnce(Clients, up')
          BY <1>1, <3>1, WaitTake
      <3>3. QED
          BY <3>1, <3>2, PostsTail
    <2>3. QED
        BY <2>1, <2>2
  <1> DEFINE M == Known'
  <1>3. /\ saved \in Seq(M) /\ down \in [Clients -> Seq(PacketsOf(M))]
        /\ \A d \in Clients : shown[d] \in Seq(M \cup Posts(up'[d]))
        /\ \A m \in Waiting(Clients, up') : m.n <= typed'
        /\ \A d \in Clients : Posts(up'[d]) \subseteq Said(d)
      BY <1>1, <1>2, KnownStays, Wider DEF Posted
  <1>4. HandlePost(c) => Head(up[c]).msg \in M
      BY <1>1, <1>2, HandledIs, KnownStays
  <1>5. saved' \in Seq(M) /\ down' \in [Clients -> Seq(PacketsOf(M))]
    <2> HIDE DEF M
    <2>1. QED
        BY <1>3, <1>4, HandleSends
  <1>6. IsInjective(saved')
    <2>1. CASE saved' = saved
        BY <2>1 DEF Posted
    <2>2. CASE HandlePost(c) /\ saved' = Append(saved, Head(up[c]).msg)
      <3> DEFINE m == Head(up[c]).msg
      <3>1. saved \in Seq(Messages) /\ saved \in Seq(Known) /\ m \in Messages /\ m \notin Known /\ IsInjective(saved)
          BY <2>2, HandledIs DEF TypeOK, Posted
      <3> HIDE DEF m
      <3>2. m \notin ToSet(saved)
          BY <3>1, ToSetIn
      <3>3. IsInjective(Append(saved, m))
          BY <3>1, <3>2, InjectiveAppend
      <3>4. QED
          BY <2>2, <3>3 DEF m
    <2>3. QED
        BY <2>1, <2>2 DEF Handle, HandlePost, HandleHistory, HandleList, PushList
  <1>7. QED
      BY <1>1, <1>2, <1>3, <1>5, <1>6 DEF Posted

LEMMA ReceivePosted ==
  ASSUME DirectMessagesAssumption, TypeOK, Posted, NEW c \in Clients, Receive(c)
  PROVE  Posted'
  <1>1. UNCHANGED <<typed, saved>>
      BY DEF Receive, ReceiveList, ReceiveStart, ReceiveMessage
  <1>2. WaitOnce(Clients, up') /\ \A d \in Clients : Posts(up'[d]) = Posts(up[d])
    <2>1. CASE up' = up
        BY <2>1 DEF Posted
    <2>2. CASE ReceiveList(c) /\ up' # up
      <3> DEFINE r == [kind |-> "history"]
      <3>1. up' = [up EXCEPT ![c] = Append(@, r)]
          BY <2>2 DEF ReceiveList
      <3>2. r \in Requests /\ r.kind # "post"
          BY RequestsAre
      <3> HIDE DEF r
      <3>3. QED
          BY <3>1, <3>2, RequestPosted
    <2>3. QED
        BY <2>1, <2>2 DEF Receive, ReceiveStart, ReceiveMessage
  <1> DEFINE M == Known'
             N == M \cup Posts(up'[c])
  <1>3. /\ saved \in Seq(M) /\ down \in [Clients -> Seq(PacketsOf(M))]
        /\ \A d \in Clients : shown[d] \in Seq(M \cup Posts(up'[d]))
        /\ \A m \in Waiting(Clients, up') : m.n <= typed'
        /\ \A d \in Clients : Posts(up'[d]) \subseteq Said(d)
      BY <1>1, <1>2, KnownStays, Wider DEF Posted
  <1>4. M \subseteq N /\ shown[c] \in Seq(N)
      BY <1>3
  <1>5. /\ down' \in [Clients -> Seq(PacketsOf(M))]
        /\ \E s \in Seq(N) : Len(s) <= MaxMessages /\ shown' = [shown EXCEPT ![c] = s]
    <2> HIDE DEF M, N
    <2>1. QED
        BY <1>3, <1>4, ReceiveShows
  <1>6. \A d \in Clients : shown'[d] \in Seq(M \cup Posts(up'[d]))
    <2>1. PICK s \in Seq(N) : shown' = [shown EXCEPT ![c] = s]
        BY <1>5
    <2>2. \A d \in Clients : shown'[d] = IF d = c THEN s ELSE shown[d]
        BY <2>1 DEF TypeOK
    <2> HIDE DEF M
    <2>3. QED
        BY <1>3, <2>1, <2>2
  <1>7. QED
      BY <1>1, <1>2, <1>3, <1>5, <1>6 DEF Posted

LEMMA PostedStays ==
  ASSUME DirectMessagesAssumption, TypeOK, Posted, [Next]_vars
  PROVE  Posted'
  <1>1. CASE UNCHANGED vars
      BY <1>1 DEF Posted, Known, vars
  <1>2. CASE Next
      BY <1>2, SessionPosted, KeyPosted, HandlePosted, ReceivePosted DEF Next
  <1>3. QED
      BY <1>1, <1>2

-----------------------------------------------------------------------------
(* What a step means for what is coming up on the screen of c.  The        *)
(* properties speak of nothing else, and of the table.                     *)

(* Nothing: what was on its way is on the screen now, or is not changed.   *)
Quiet(c) ==
  /\ saved' = saved /\ ComingUp(c)' = ComingUp(c)
  /\ Followed(c)' => Followed(c)
  /\ hasty[c] \subseteq hasty'[c]

(* Something did not get on the screen, or the client has ended.           *)
Dropped(c) ==
  /\ saved' = saved
  /\ ~Followed(c)'
  /\ ComingUp(c)' \in Seq(Messages)
  /\ IsInjective(ComingUp(c)) => IsInjective(ComingUp(c)')

(* An echo, in the midst of what comes up.                                 *)
Echoed(c) ==
  \E s \in Seq(Messages), z \in Seq(Messages), m \in Said(c) :
    /\ ComingUp(c) = s \o z /\ ComingUp(c)' = Append(s, m) \o z
    /\ m \notin ToSet(ComingUp(c))
    /\ saved' = saved
    /\ Followed(c)' => Followed(c)
    /\ hasty[c] \subseteq hasty'[c]

(* A message of c gets into the table, and is no news to its screen.       *)
Recorded(c) ==
  \E m \in Said(c) :
    /\ m \notin ToSet(saved) /\ saved' = Append(saved, m)
    /\ ComingUp(c)' = ComingUp(c)
    /\ Followed(c)' => Followed(c)
    /\ hasty'[c] = hasty[c]
    /\ up[c] # <<>> /\ Head(up[c]).kind = "post" /\ Head(up[c]).msg = m

(* A message of the friend is on its way, and in the table or not.         *)
Arriving(c) ==
  \E m \in Said(Other(c)) :
    /\ m \notin ToSet(saved) /\ m \notin ToSet(ComingUp(c))
    /\ saved' = saved \/ saved' = Append(saved, m)
    /\ ComingUp(c)' = Append(ComingUp(c), m)
    /\ Followed(c)' => Followed(c)
    /\ hasty'[c] = hasty[c]

(* A message of the friend, with c not logged in.                          *)
Missed(c) ==
  /\ ~Followed(c)'
  /\ ComingUp(c)' = ComingUp(c)

(* A history is on its way.                                                *)
Renewed(c) ==
  /\ saved' = saved /\ hasty'[c] = hasty[c]
  /\ ComingUp(c)' = LastRows

Seen(c) ==
  \/ Quiet(c) \/ Dropped(c) \/ Echoed(c) \/ Recorded(c) \/ Arriving(c) \/ Missed(c) \/ Renewed(c)

LEMMA PlaysOn ==
  ASSUME NEW M, NEW s \in Seq(M), NEW d \in Seq(PacketsOf(M))
  PROVE  /\ Screen(s, d) \in Seq(M) /\ Screen(<<>>, d) \in Seq(M)
         /\ Has(d, "start") => Screen(s, d) = Screen(<<>>, d)
         /\ ~Has(d, "start") => Screen(s, d) = s \o Screen(<<>>, d)
  <1> DEFINE P == PacketsOf(M)
  <1>1. \A p \in P : p.kind = "message" => p.msg \in M
      BY PacketsAre
  <1>2. d \in Seq(P) /\ <<>> \in Seq(M)
      BY EmptySeq
  <1> HIDE DEF P
  <1>3. Screen(s, d) \in Seq(M) /\ Screen(<<>>, d) \in Seq(M)
      BY <1>1, <1>2, ScreenTyped
  <1>4. Screen(s, d) = IF Has(d, "start") THEN Screen(<<>>, d) ELSE s \o Screen(<<>>, d)
      BY <1>1, <1>2, ScreenStart
  <1>5. QED
      BY <1>3, <1>4

LEMMA ComesUp ==
  ASSUME TypeOK, Posted, NEW c \in Clients
  PROVE  /\ ComingUp(c) \in Seq(Known \cup Posts(up[c])) /\ ComingUp(c) \in Seq(Messages)
         /\ StartUnderWay(c) <=> Has(down[c], "start")
         /\ shown[c] \in Seq(Messages) /\ Screen(<<>>, down[c]) \in Seq(Messages)
         /\ StartUnderWay(c) => ComingUp(c) = Screen(<<>>, down[c])
         /\ ~StartUnderWay(c) => ComingUp(c) = shown[c] \o Screen(<<>>, down[c])
  <1> DEFINE N == Known \cup Posts(up[c])
  <1>1. StartUnderWay(c) <=> Has(down[c], "start")
      BY DEF StartUnderWay, Has
  <1>2. PacketsOf(Messages) = Packets
      BY DEF PacketsOf, Packets
  <1>3. shown[c] \in Seq(Messages) /\ down[c] \in Seq(PacketsOf(Messages))
      BY <1>2 DEF TypeOK
  <1>4. shown[c] \in Seq(N) /\ down[c] \in Seq(PacketsOf(N))
    <2>1. down[c] \in Seq(PacketsOf(Known)) /\ shown[c] \in Seq(N) /\ Known \subseteq N
        BY DEF Posted
    <2> HIDE DEF N
    <2>2. QED
        BY <2>1, PacketsAre, SeqMonotonic
  <1>5. ComingUp(c) \in Seq(N)
    <2> HIDE DEF N
    <2>1. QED
        BY <1>4, PlaysOn DEF ComingUp
  <1>6. QED
      BY <1>1, <1>3, <1>5, PlaysOn DEF ComingUp

(* Nothing is said of c. *)
LEMMA SeenSame ==
  ASSUME NEW c \in Clients, saved' = saved, Same(c)
  PROVE  Quiet(c)
  BY DEF Same, Quiet, ComingUp, Followed, StartUnderWay

LEMMA SessionSeen ==
  ASSUME DirectMessagesAssumption, TypeOK, Connected, Posted, NEW c \in Clients, NEW d \in Clients,
         Start(d) \/ Stop(d)
  PROVE  Seen(c)
  <1>1. CASE Start(d)
      BY <1>1, ScreenEmpty DEF Start, Seen, Quiet, ComingUp, Followed, StartUnderWay
  <1>2. CASE Stop(d) /\ c # d
    <2>1. saved' = saved /\ Same(c)
        BY <1>2 DEF Stop, Same, TypeOK
    <2>2. QED
        BY <2>1, SeenSame DEF Seen
  <1>3. CASE Stop(d) /\ c = d
    <2>1. /\ saved' = saved /\ c \notin opened' /\ shown'[c] = <<>> /\ down'[c] = <<>>
        BY <1>3 DEF Stop, TypeOK
    <2>2. ~Followed(c)'
        BY <2>1 DEF Followed, StartUnderWay
    <2>3. ComingUp(c)' = <<>>
        BY <2>1, ScreenEmpty DEF ComingUp
    <2>4. <<>> \in Seq(Messages) /\ IsInjective(<<>>)
        BY EmptySeq DEF IsInjective
    <2>5. QED
        BY <2>1, <2>2, <2>3, <2>4 DEF Dropped, Seen
  <1>4. QED
      BY <1>1, <1>2, <1>3

LEMMA KeySeen ==
  ASSUME DirectMessagesAssumption, TypeOK, Connected, Posted, NEW c \in Clients, NEW d \in Clients, Key(d)
  PROVE  Seen(c)
  <1>1. saved' = saved /\ UNCHANGED <<down, listed, session, opened>>
      BY DEF Key, OpenDMs, CloseDMs, SelectFriend, Type
  <1>2. CASE shown'[c] = shown[c] /\ hasty[c] \subseteq hasty'[c]
      BY <1>1, <1>2 DEF Seen, Quiet, ComingUp, Followed, StartUnderWay
  <1>3. CASE Type(d) /\ d = c
    <2> DEFINE m == [n |-> typed + 1, from |-> c]
    <2>1. typed \in Nat /\ typed + 1 \in 1 .. MaxPosts
        BY <1>3 DEF Type, TypeOK, DirectMessagesAssumption
    <2>2. m \in Messages /\ m \in Said(c) /\ m.n = typed + 1
      <3>1. m \in Messages
          BY <2>1, MessagesAre
      <3>2. m.n = typed + 1 /\ m.from = c
          OBVIOUS
      <3> HIDE DEF m
      <3>3. QED
          BY <3>1, <3>2, MessagesAre
    <2>3. /\ shown'[c] = Keep(shown[c], m)
          /\ hasty' = hasty \/ hasty' = [hasty EXCEPT ![c] = @ \cup {m}]
        BY <1>3 DEF Type, TypeOK
    <2> HIDE DEF m
    <2>4. hasty[c] \subseteq hasty'[c]
        BY <2>3 DEF TypeOK
    <2>5. CASE shown'[c] = shown[c]
        BY <1>2, <2>4, <2>5
    <2>6. CASE shown'[c] = Append(shown[c], m) /\ Len(shown[c]) < MaxMessages
      <3> DEFINE z == Screen(<<>>, down[c])
      <3>1. /\ shown[c] \in Seq(Messages) /\ z \in Seq(Messages)
            /\ StartUnderWay(c) => ComingUp(c) = z
            /\ ~StartUnderWay(c) => ComingUp(c) = shown[c] \o z
            /\ StartUnderWay(c) <=> Has(down[c], "start")
          BY ComesUp
      <3>2. /\ Has(down[c], "start") => ComingUp(c)' = z
            /\ ~Has(down[c], "start") => ComingUp(c)' = Append(shown[c], m) \o z
        <4>1. PacketsOf(Messages) = Packets
            BY DEF PacketsOf, Packets
        <4>2. Append(shown[c], m) \in Seq(Messages) /\ down[c] \in Seq(PacketsOf(Messages))
            BY <2>2, <3>1, <4>1, AppendProperties DEF TypeOK
        <4>3. ComingUp(c)' = Screen(Append(shown[c], m), down[c])
            BY <1>1, <2>6 DEF ComingUp
        <4>4. QED
            BY <4>2, <4>3, PlaysOn
      <3> HIDE DEF z
      <3>3. Followed(c)' => Followed(c)
          BY <1>1, <2>6 DEF Followed, StartUnderWay
      <3>4. CASE StartUnderWay(c)
          BY <1>1, <2>4, <3>1, <3>2, <3>3, <3>4 DEF Seen, Quiet
      <3>5. CASE ~StartUnderWay(c)
        <4>1. m \notin ToSet(ComingUp(c))
          <5>1. ComingUp(c) \in Seq(Known \cup Posts(up[c]))
              BY ComesUp
          <5>2. \A w \in Known \cup Posts(up[c]) : w.n <= typed
              BY DEF Known, Posted, Waiting
          <5>3. m \notin Known \cup Posts(up[c])
              BY <2>1, <2>2, <5>2
          <5>4. ToSet(ComingUp(c)) \subseteq Known \cup Posts(up[c])
            <6> DEFINE x == ComingUp(c)
                       N == Known \cup Posts(up[c])
            <6>1. x \in Seq(N)
                BY <5>1
            <6> HIDE DEF x, N
            <6>2. ToSet(x) \subseteq N
                BY <6>1, ToSetIn
            <6>3. QED
                BY <6>2 DEF x, N
          <5>5. QED
              BY <5>3, <5>4
        <4>2. Echoed(c)
            BY <1>1, <2>2, <2>4, <3>1, <3>2, <3>3, <3>5, <4>1 DEF Echoed
        <4>3. QED
            BY <4>2 DEF Seen
      <3>6. QED
          BY <3>4, <3>5
    <2>7. QED
        BY <2>3, <2>5, <2>6 DEF Keep
  <1>4. CASE ~(Type(d) /\ d = c)
    <2>1. CASE Type(d) /\ d # c
      <3> DEFINE m == [n |-> typed + 1, from |-> d]
      <3>1. /\ shown' = [shown EXCEPT ![d] = Keep(@, m)]
            /\ hasty' = hasty \/ hasty' = [hasty EXCEPT ![d] = @ \cup {m}]
          BY <2>1 DEF Type
      <3> HIDE DEF m
      <3>2. shown'[c] = shown[c] /\ hasty'[c] = hasty[c]
          BY <2>1, <3>1 DEF TypeOK
      <3>3. QED
          BY <1>2, <3>2
    <2>2. CASE OpenDMs(d) \/ CloseDMs(d) \/ SelectFriend(d)
        BY <1>2, <2>2 DEF OpenDMs, CloseDMs, SelectFriend
    <2>3. QED
        BY <1>4, <2>1, <2>2 DEF Key
  <1>5. QED
      BY <1>3, <1>4

LEMMA HandleSeen ==
  ASSUME DirectMessagesAssumption, TypeOK, Connected, Posted, NEW c \in Clients, NEW d \in Clients, Handle(d)
  PROVE  Seen(c)
  <1>1. UNCHANGED <<typed, session, listed, onDMs, shown, opened, hasty>>
      BY DEF Handle, HandlePost, HandleHistory, HandleList, PushList
  <1>2. /\ ComingUp(c) = Screen(shown[c], down[c])
        /\ ComingUp(c)' = Screen(shown[c], down'[c])
      BY <1>1 DEF ComingUp
  <1>3. ASSUME down'[c] = down[c]
        PROVE  (Followed(c)' <=> Followed(c)) /\ ComingUp(c)' = ComingUp(c)
      BY <1>1, <1>2, <1>3 DEF Followed, StartUnderWay
  <1>4. ASSUME down'[c] = down[c], saved' = saved
        PROVE  Seen(c)
      BY <1>1, <1>3, <1>4 DEF Seen, Quiet
  <1>5. PacketsOf(Messages) = Packets /\ down[c] \in Seq(Packets) /\ shown[c] \in Seq(Messages)
      BY DEF PacketsOf, Packets, TypeOK
  <1>6. CASE HandlePost(d)
    <2> DEFINE m == Head(up[d]).msg
    <2>1. /\ m \in Messages /\ m \in Said(d) /\ m \in Posts(up[d]) /\ m \notin Known
          /\ \A e \in Clients : e # d => m \notin Posts(up[e])
          /\ up[d] # <<>> /\ Head(up[d]).kind = "post"
          /\ saved' = Append(saved, m) \/ saved' = saved
          /\ down' = Deliver(d, m)
        BY <1>6, HandledIs DEF HandlePost, Asks
    <2>2. saved \in Seq(Known)
        BY DEF Posted
    <2>3. m \notin ToSet(saved)
        BY <2>1, <2>2, ToSetIn
    <2>4. CASE d = c
      <3>1. down'[c] = down[c]
          BY <2>1, <2>4, Sides DEF Deliver, TypeOK
      <3>2. CASE saved' = saved
          BY <1>4, <3>1, <3>2
      <3>3. CASE saved' = Append(saved, m)
        <4>1. Recorded(c)
            BY <1>1, <1>3, <2>1, <2>3, <2>4, <3>1, <3>3 DEF Recorded
        <4>2. QED
            BY <4>1 DEF Seen
      <3>4. QED
          BY <2>1, <3>2, <3>3
    <2>5. CASE d # c /\ c \in session
      <3> DEFINE p == AsPacket(m)
      <3>1. d = Other(c) /\ c = Other(d)
          BY <2>5, Sides
      <3>2. down'[c] = Append(down[c], p) /\ p.kind = "message" /\ p.msg = m
          BY <2>1, <2>5, <3>1 DEF Deliver, TypeOK, AsPacket
      <3>3. p \in Packets
          BY <1>5, <2>1, PacketsAre
      <3> HIDE DEF p
      <3>4. ComingUp(c)' = Append(ComingUp(c), m)
        <4>1. Screen(shown[c], Append(down[c], p)) = Played(Screen(shown[c], down[c]), p)
            BY <1>5, <3>3, ScreenAppend
        <4>2. QED
            BY <1>2, <3>2, <4>1 DEF Played
      <3>5. Followed(c)' => Followed(c)
        <4>1. Has(Append(down[c], p), "start") <=> Has(down[c], "start")
            BY <1>5, <3>2, <3>3, HasAppend
        <4>2. QED
            BY <1>1, <3>2, <4>1 DEF Followed, StartUnderWay, Has
      <3>6. m \notin ToSet(ComingUp(c))
        <4> DEFINE x == ComingUp(c)
                   N == Known \cup Posts(up[c])
        <4>1. x \in Seq(N)
            BY ComesUp
        <4>2. m \notin N
            BY <2>1, <2>5
        <4> HIDE DEF x, N
        <4>3. ToSet(x) \subseteq N
            BY <4>1, ToSetIn
        <4>4. QED
            BY <4>2, <4>3 DEF x
      <3>7. Arriving(c)
          BY <1>1, <2>1, <2>3, <3>1, <3>4, <3>5, <3>6 DEF Arriving
      <3>8. QED
          BY <3>7 DEF Seen
    <2>6. CASE d # c /\ c \notin session
      <3>1. c = Other(d)
          BY <2>6, Sides
      <3>2. down'[c] = down[c]
          BY <2>1, <2>6, <3>1 DEF Deliver
      <3>3. ~Followed(c)
        <4>1. down[c] = <<>> /\ c \notin opened
            BY <2>6 DEF Connected, TypeOK
        <4>2. QED
            BY <4>1 DEF Followed, StartUnderWay
      <3>4. Missed(c)
          BY <1>3, <3>2, <3>3 DEF Missed
      <3>5. QED
          BY <3>4 DEF Seen
    <2>7. QED
        BY <2>4, <2>5, <2>6
  <1>7. CASE HandleHistory(d) /\ d = c
    <2> DEFINE e == Append(down[c], [kind |-> "start"])
               rows == AsPackets(LastRows)
    <2>1. saved' = saved
        BY <1>7 DEF HandleHistory
    <2>2. /\ LastRows \in Seq(Messages) /\ rows \in Seq(PacketsOf(Messages))
          /\ down' = [down EXCEPT ![c] = Append(@, [kind |-> "start"]) \o rows]
          /\ e \in Seq(PacketsOf(Messages))
      <3>1. saved \in Seq(Messages) /\ down[c] \in Seq(PacketsOf(Messages)) /\ HandleHistory(c)
          BY <1>5, <1>7 DEF TypeOK
      <3>2. QED
          BY <3>1, HistorySent
    <2>3. down'[c] = e \o rows
        BY <2>2 DEF TypeOK
    <2>4. Screen(shown[c], e) = <<>>
      <3>1. [kind |-> "start"] \in Packets
          BY <1>5, PacketsAre
      <3>2. Screen(shown[c], e) = Played(Screen(shown[c], down[c]), [kind |-> "start"])
          BY <1>5, <3>1, ScreenAppend
      <3>3. QED
          BY <3>2 DEF Played
    <2> HIDE DEF e, rows
    <2>5. Screen(shown[c], e \o rows) = Screen(Screen(shown[c], e), rows)
        BY <2>2, ScreenJoin
    <2>6. Screen(<<>>, rows) = LastRows
        BY <2>2, ScreenRows DEF rows
    <2>7. ComingUp(c)' = LastRows
        BY <1>2, <2>3, <2>4, <2>5, <2>6
    <2>8. QED
        BY <1>1, <2>1, <2>7 DEF Seen, Renewed
  <1>8. CASE HandleHistory(d) /\ d # c
    <2>1. down'[c] = down[c] /\ saved' = saved
        BY <1>8 DEF HandleHistory, TypeOK
    <2>2. QED
        BY <1>4, <2>1
  <1>9. CASE HandleList(d) \/ PushList(d)
    <2> DEFINE p == [kind |-> "list"]
    <2>1. saved' = saved /\ down'[c] = IF d = c THEN Append(down[c], p) ELSE down[c]
        BY <1>9 DEF HandleList, PushList, TypeOK
    <2>2. p \in Packets /\ p.kind = "list"
        BY <1>5, PacketsAre
    <2> HIDE DEF p
    <2>3. CASE d = c
      <3>1. Screen(shown[c], Append(down[c], p)) = Played(Screen(shown[c], down[c]), p)
          BY <1>5, <2>2, ScreenAppend
      <3>2. ComingUp(c)' = ComingUp(c)
          BY <1>2, <2>1, <2>2, <2>3, <3>1 DEF Played
      <3>3. Has(Append(down[c], p), "start") <=> Has(down[c], "start")
          BY <1>5, <2>2, HasAppend
      <3>4. Followed(c)' => Followed(c)
          BY <1>1, <2>1, <2>3, <3>3 DEF Followed, StartUnderWay, Has
      <3>5. QED
          BY <1>1, <2>1, <3>2, <3>4 DEF Seen, Quiet
    <2>4. CASE d # c
        BY <1>4, <2>1, <2>4
    <2>5. QED
        BY <2>3, <2>4
  <1>10. QED
      BY <1>6, <1>7, <1>8, <1>9 DEF Handle

LEMMA ReceiveSeen ==
  ASSUME DirectMessagesAssumption, TypeOK, Connected, Posted, NEW c \in Clients, NEW d \in Clients, Receive(d)
  PROVE  Seen(c)
  <1>1. saved' = saved /\ hasty' = hasty /\ down[d] # <<>> /\ down' = Taken(d)
      BY DEF Receive, ReceiveList, ReceiveStart, ReceiveMessage, Gets
  <1>2. CASE d # c
    <2>1. /\ down'[c] = down[c] /\ shown'[c] = shown[c]
          /\ c \in opened <=> c \in opened'
        BY <1>1, <1>2 DEF Receive, ReceiveList, ReceiveStart, ReceiveMessage, Taken, TypeOK
    <2>2. QED
        BY <1>1, <2>1 DEF Seen, Quiet, ComingUp, Followed, StartUnderWay
  <1>3. CASE d = c
    <2> DEFINE p == Head(down[c])
               q == Tail(down[c])
    <2>1. /\ PacketsOf(Messages) = Packets /\ down[c] \in Seq(Packets) /\ down[c] # <<>>
          /\ shown[c] \in Seq(Messages) /\ down'[c] = q
        BY <1>1, <1>3 DEF PacketsOf, Packets, TypeOK, Taken
    <2>2. p \in Packets /\ q \in Seq(Packets)
        BY <2>1, FirstTaken
    <2>3. \A kind : Has(down[c], kind) <=> p.kind = kind \/ Has(q, kind)
        BY <2>1, HasTail
    <2>4. \A s : Screen(s, down[c]) = Screen(Played(s, p), q)
        BY <2>1, ScreenFirst
    <2>5. ComingUp(c)' = Screen(shown'[c], q) /\ ComingUp(c) = Screen(Played(shown[c], p), q)
        BY <2>1, <2>4 DEF ComingUp
    <2>6. /\ StartUnderWay(c) <=> Has(down[c], "start")
          /\ StartUnderWay(c)' <=> Has(q, "start")
        BY <2>1 DEF StartUnderWay, Has
    <2> HIDE DEF p, q
    <2>7. CASE ReceiveList(c)
      <3>1. shown' = shown /\ opened' = opened /\ p.kind = "list"
          BY <2>7 DEF ReceiveList, Gets, p
      <3>2. ComingUp(c)' = ComingUp(c)
          BY <2>5, <3>1 DEF Played
      <3>3. Followed(c)' => Followed(c)
          BY <2>3, <2>6, <3>1 DEF Followed
      <3>4. QED
          BY <1>1, <3>2, <3>3 DEF Seen, Quiet
    <2>8. CASE ReceiveStart(c)
      <3>1. shown'[c] = <<>> /\ p.kind = "start"
          BY <2>8 DEF ReceiveStart, Gets, p, TypeOK
      <3>2. ComingUp(c)' = ComingUp(c)
          BY <2>5, <3>1 DEF Played
      <3>3. Followed(c)
          BY <2>3, <2>6, <3>1 DEF Followed
      <3>4. QED
          BY <1>1, <3>2, <3>3 DEF Seen, Quiet
    <2>9. CASE ReceiveMessage(c)
      <3>1. /\ opened' = opened /\ p.kind = "message"
            /\ shown' = IF c \in listed THEN [shown EXCEPT ![c] = Keep(@, p.msg)] ELSE shown
          BY <2>9 DEF ReceiveMessage, Gets, p
      <3>2. p.msg \in Messages
          BY <2>1, <2>2, <3>1, PacketsAre
      <3>3. CASE c \in listed /\ Len(shown[c]) < MaxMessages
        <4>1. shown'[c] = Append(shown[c], p.msg)
            BY <3>1, <3>3 DEF Keep, TypeOK
        <4>2. Len(shown'[c]) < MaxMessages => Len(shown[c]) < MaxMessages
            BY <3>3
        <4>3. ComingUp(c)' = ComingUp(c)
            BY <2>5, <3>1, <4>1 DEF Played
        <4>4. Followed(c)' => Followed(c)
            BY <2>3, <2>6, <3>1, <4>2 DEF Followed
        <4>5. QED
            BY <1>1, <4>3, <4>4 DEF Seen, Quiet
      <3>4. CASE ~(c \in listed /\ Len(shown[c]) < MaxMessages)
        <4>1. shown'[c] = shown[c]
            BY <3>1, <3>4 DEF Keep, TypeOK
        <4> DEFINE z == Screen(<<>>, q)
        <4>2. /\ Append(shown[c], p.msg) \in Seq(Messages) /\ z \in Seq(Messages)
              /\ Has(q, "start") => ComingUp(c)' = z /\ ComingUp(c) = z
              /\ ~Has(q, "start") => /\ ComingUp(c)' = shown[c] \o z
                                     /\ ComingUp(c) = Append(shown[c], p.msg) \o z
          <5>1. Append(shown[c], p.msg) \in Seq(Messages) /\ q \in Seq(PacketsOf(Messages))
              BY <2>1, <2>2, <3>2, AppendProperties
          <5>2. ComingUp(c)' = Screen(shown[c], q) /\ ComingUp(c) = Screen(Append(shown[c], p.msg), q)
              BY <2>5, <3>1, <4>1 DEF Played
          <5>3. shown[c] \in Seq(Messages)
              BY <2>1
          <5>4. /\ z \in Seq(Messages)
                /\ Has(q, "start") => ComingUp(c)' = z
                /\ ~Has(q, "start") => ComingUp(c)' = shown[c] \o z
              BY <5>1, <5>2, <5>3, PlaysOn
          <5>5. /\ Has(q, "start") => ComingUp(c) = z
                /\ ~Has(q, "start") => ComingUp(c) = Append(shown[c], p.msg) \o z
              BY <5>1, <5>2, PlaysOn
          <5>6. QED
              BY <5>1, <5>4, <5>5
        <4> HIDE DEF z
        <4>3. CASE Has(q, "start")
          <5>1. Followed(c)
              BY <2>3, <2>6, <4>3 DEF Followed
          <5>2. QED
              BY <1>1, <4>2, <4>3, <5>1 DEF Seen, Quiet
        <4>4. CASE ~Has(q, "start")
          <5>1. ~Followed(c)'
              BY <2>6, <3>1, <3>4, <4>1, <4>4 DEF Followed, TypeOK
          <5>2. IsInjective(ComingUp(c)) => IsInjective(ComingUp(c)')
            <6> DEFINE s == shown[c]
                       m == p.msg
            <6>1. s \in Seq(Messages) /\ m \in Messages /\ z \in Seq(Messages)
                  /\ ComingUp(c)' = s \o z /\ ComingUp(c) = Append(s, m) \o z
                BY <2>1, <3>2, <4>2, <4>4
            <6> HIDE DEF s, m
            <6>2. IsInjective(Append(s, m) \o z) => IsInjective(s \o z)
                BY <6>1, InjectiveInside
            <6>3. QED
                BY <6>1, <6>2
          <5>3. ComingUp(c)' \in Seq(Messages)
              BY <2>1, <4>2, <4>4, ConcatProperties
          <5>4. QED
              BY <1>1, <5>1, <5>2, <5>3 DEF Seen, Dropped
        <4>5. QED
            BY <4>3, <4>4
      <3>5. QED
          BY <3>3, <3>4
    <2>10. QED
        BY <1>3, <2>7, <2>8, <2>9 DEF Receive
  <1>4. QED
      BY <1>2, <1>3

LEMMA StepSeen ==
  ASSUME DirectMessagesAssumption, TypeOK, Connected, Posted, NEW c \in Clients, [Next]_vars
  PROVE  Seen(c)
  <1>1. CASE UNCHANGED vars
      BY <1>1 DEF vars, Seen, Quiet, ComingUp, Followed, StartUnderWay
  <1>2. CASE Next
      BY <1>2, SessionSeen, KeySeen, HandleSeen, ReceiveSeen DEF Next
  <1>3. QED
      BY <1>1, <1>2

-----------------------------------------------------------------------------
(* What the friend says. *)

LEMMA RowsAre ==
  ASSUME DirectMessagesAssumption, NEW T, saved \in Seq(T)
  PROVE  /\ LastRows = LastOf(saved) /\ LastRows \in Seq(T)
         /\ IsSuffix(LastRows, saved) /\ ToSet(LastRows) \subseteq ToSet(saved)
  <1>1. LastRows = LastOf(saved)
      BY DEF LastRows, LastOf
  <1>2. LastRows \in Seq(T) /\ IsSuffix(LastRows, saved)
      BY <1>1, LastOfIs
  <1> DEFINE x == LastRows
  <1> HIDE DEF x
  <1>3. x \in Seq(T) /\ IsSuffix(x, saved)
      BY <1>2 DEF x
  <1>4. ToSet(x) \subseteq ToSet(saved)
      BY <1>3, SuffixIn
  <1>5. QED
      BY <1>1, <1>2, <1>4 DEF x

(* The rows of S among the messages x, as far back as a history answer     *)
(* for the table s goes.                                                   *)
Theirs(x, s, S) ==
  /\ IsSuffix(Only(Only(x, ToSet(s)), S), Only(s, S))
  /\ IsSuffix(Only(LastOf(s), S), Only(Only(x, ToSet(s)), S))

(* A message of somebody else makes no difference, on the screen ...       *)
LEMMA OthersEcho ==
  ASSUME NEW T, NEW s \in Seq(T), NEW z \in Seq(T), NEW m \in T, NEW S, m \notin S, NEW U
  PROVE  Only(Only(Append(s, m) \o z, U), S) = Only(Only(s \o z, U), S)
  <1> DEFINE V == U \cap S
             a == Append(s, m)
             x == a \o z
             y == s \o z
  <1>1. a \in Seq(T) /\ y \in Seq(T) /\ x \in Seq(T) /\ m \notin V
      BY AppendProperties, ConcatProperties
  <1>2. Only(a, V) = Only(s, V)
    <2> HIDE DEF V
    <2>1. QED
        BY <1>1, OnlyAppend
  <1>3. Only(y, V) = Only(s, V) \o Only(z, V)
      BY OnlyJoin
  <1>4. Only(x, V) = Only(a, V) \o Only(z, V)
    <2> HIDE DEF a, V
    <2>1. QED
        BY <1>1, OnlyJoin
  <1>5. Only(Only(x, U), S) = Only(x, V) /\ Only(Only(y, U), S) = Only(y, V)
    <2> HIDE DEF x, y
    <2>1. QED
        BY <1>1, OnlyOnly
  <1>6. QED
      BY <1>2, <1>3, <1>4, <1>5

(* ... nor in the table. *)
LEMMA OthersRow ==
  ASSUME DirectMessagesAssumption, NEW T, NEW s \in Seq(T), NEW x \in Seq(T), NEW m \in T, NEW S, m \notin S,
         Theirs(x, s, S)
  PROVE  Theirs(x, Append(s, m), S)
  <1> DEFINE t == Append(s, m)
             a == Only(Only(x, ToSet(s)), S)
             b == Only(LastOf(s), S)
             e == Append(LastOf(s), m)
  <1>1. t \in Seq(T) /\ ToSet(t) = ToSet(s) \cup {m} /\ Only(t, S) = Only(s, S)
      BY AppendProperties, ToSetAppend, OnlyAppend
  <1>2. ToSet(t) \cap S = ToSet(s) \cap S
      BY <1>1
  <1>3. Only(Only(x, ToSet(t)), S) = a
    <2>1. a = Only(x, ToSet(s) \cap S) /\ Only(Only(x, ToSet(t)), S) = Only(x, ToSet(t) \cap S)
        BY OnlyOnly
    <2>2. QED
        BY <1>2, <2>1
  <1>4. LastOf(s) \in Seq(T)
      BY LastOfIs
  <1>5. e \in Seq(T) /\ Only(e, S) = b /\ b \in Seq(T)
      BY <1>4, AppendProperties, OnlyAppend, OnlyIn
  <1>6. IsSuffix(LastOf(t), e)
      BY LastOfAppend
  <1>7. LastOf(t) \in Seq(T)
    <2> HIDE DEF t
    <2>1. QED
        BY <1>1, LastOfIs
  <1> DEFINE l == LastOf(t)
  <1> HIDE DEF t, l
  <1>8. IsSuffix(Only(l, S), b)
    <2> HIDE DEF e, b
    <2>1. l \in Seq(T) /\ e \in Seq(T) /\ IsSuffix(l, e)
        BY <1>5, <1>6, <1>7 DEF l
    <2>2. IsSuffix(Only(l, S), Only(e, S))
        BY <2>1, SuffixOnly
    <2>3. QED
        BY <1>5, <2>2
  <1>9. a \in Seq(T) /\ Only(l, S) \in Seq(T)
    <2>1. Only(x, ToSet(s)) \in Seq(T) /\ l \in Seq(T)
        BY <1>7, OnlyIn DEF l
    <2>2. QED
        BY <2>1, OnlyIn
  <1>10. IsSuffix(a, Only(s, S)) /\ IsSuffix(b, a)
      BY DEF Theirs
  <1> DEFINE k == Only(l, S)
  <1>11. k \in Seq(T) /\ a \in Seq(T) /\ b \in Seq(T) /\ IsSuffix(k, b)
      BY <1>5, <1>8, <1>9
  <1> HIDE DEF a, b, k
  <1>12. IsSuffix(k, a)
      BY <1>10, <1>11, SuffixTrans
  <1>13. QED
      BY <1>1, <1>3, <1>10, <1>12 DEF Theirs, t, l, k

(* A message that is new on the screen and not saved counts for nothing.   *)
LEMMA TheirsUnsaved ==
  ASSUME NEW T, NEW s \in Seq(T), NEW x \in Seq(T), NEW m \in T, NEW S, m \notin ToSet(s), Theirs(x, s, S)
  PROVE  Theirs(Append(x, m), s, S)
  <1>1. Only(Append(x, m), ToSet(s)) = Only(x, ToSet(s))
      BY OnlyAppend
  <1>2. QED
      BY <1>1 DEF Theirs

(* One that is saved is the next of both. *)
LEMMA TheirsSaved ==
  ASSUME DirectMessagesAssumption, NEW T, NEW s \in Seq(T), NEW x \in Seq(T), NEW m \in T, NEW S, m \in S,
         m \notin ToSet(s), m \notin ToSet(x), Theirs(x, s, S)
  PROVE  Theirs(Append(x, m), Append(s, m), S)
  <1> DEFINE t == Append(s, m)
             y == Append(x, m)
             u == Only(x, ToSet(s))
             a == Only(u, S)
             b == Only(LastOf(s), S)
             e == Append(LastOf(s), m)
  <1>1. t \in Seq(T) /\ ToSet(t) = ToSet(s) \cup {m} /\ Only(t, S) = Append(Only(s, S), m)
      BY AppendProperties, ToSetAppend, OnlyAppend
  <1>2. u \in Seq(T) /\ a \in Seq(T) /\ Only(s, S) \in Seq(T)
    <2>1. u \in Seq(T) /\ Only(s, S) \in Seq(T)
        BY OnlyIn
    <2> HIDE DEF u
    <2>2. QED
        BY <2>1, OnlyIn
  <1>3. Only(Only(y, ToSet(t)), S) = Append(a, m)
    <2>1. Only(x, ToSet(t)) = u
      <3>1. \A w \in ToSet(x) : w \in ToSet(t) <=> w \in ToSet(s)
          BY <1>1
      <3>2. QED
          BY <3>1, OnlyAgree
    <2>2. m \in ToSet(t)
        BY <1>1
    <2>3. Only(y, ToSet(t)) = Append(u, m)
      <3> HIDE DEF t, u
      <3>1. QED
          BY <2>1, <2>2, OnlyAppend
    <2> HIDE DEF u, t
    <2>4. Only(Append(u, m), S) = Append(Only(u, S), m)
        BY <1>2, OnlyAppend
    <2>5. QED
        BY <2>3, <2>4
  <1>4. LastOf(s) \in Seq(T)
      BY LastOfIs
  <1>5. e \in Seq(T) /\ Only(e, S) = Append(b, m) /\ b \in Seq(T)
      BY <1>4, AppendProperties, OnlyAppend, OnlyIn
  <1>6. IsSuffix(LastOf(t), e)
      BY LastOfAppend
  <1>7. LastOf(t) \in Seq(T)
    <2> HIDE DEF t
    <2>1. QED
        BY <1>1, LastOfIs
  <1> DEFINE l == LastOf(t)
             k == Only(l, S)
             c == Only(s, S)
  <1> HIDE DEF t, l, u
  <1>8. k \in Seq(T) /\ IsSuffix(k, Append(b, m))
    <2> HIDE DEF e, b
    <2>1. l \in Seq(T) /\ e \in Seq(T) /\ IsSuffix(l, e)
        BY <1>5, <1>6, <1>7 DEF l
    <2>2. IsSuffix(Only(l, S), Only(e, S)) /\ Only(l, S) \in Seq(T)
        BY <2>1, SuffixOnly, OnlyIn
    <2>3. QED
        BY <1>5, <2>2
  <1>9. IsSuffix(a, c) /\ IsSuffix(b, a)
      BY DEF Theirs, u
  <1> HIDE DEF a, b, k, c
  <1>10. a \in Seq(T) /\ b \in Seq(T) /\ c \in Seq(T)
      BY <1>2, <1>5 DEF c
  <1>11. IsSuffix(Append(a, m), Append(c, m)) /\ IsSuffix(Append(b, m), Append(a, m))
      BY <1>9, <1>10, SuffixOn
  <1> DEFINE am == Append(a, m)
             bm == Append(b, m)
  <1>12. am \in Seq(T) /\ bm \in Seq(T) /\ IsSuffix(k, bm) /\ IsSuffix(bm, am) /\ k \in Seq(T)
      BY <1>8, <1>10, <1>11, AppendProperties
  <1>13. IsSuffix(k, am)
    <2> HIDE DEF am, bm
    <2>1. QED
        BY <1>12, SuffixTrans
  <1>14. QED
      BY <1>1, <1>3, <1>11, <1>13 DEF Theirs, t, l, k, c

LEMMA TheirsRenewed ==
  ASSUME DirectMessagesAssumption, NEW T, NEW s \in Seq(T), NEW S
  PROVE  Theirs(LastOf(s), s, S)
  <1> DEFINE l == LastOf(s)
  <1>1. l \in Seq(T) /\ IsSuffix(l, s)
      BY LastOfIs
  <1> HIDE DEF l
  <1>2. ToSet(l) \subseteq ToSet(s)
      BY <1>1, SuffixIn
  <1>3. Only(l, ToSet(s)) = l
      BY <1>1, <1>2, OnlyAll
  <1>4. IsSuffix(Only(l, S), Only(s, S))
      BY <1>1, SuffixOnly
  <1>5. Only(l, S) \in Seq(T)
      BY <1>1, OnlyIn
  <1> DEFINE k == Only(l, S)
  <1>6. k \in Seq(T)
      BY <1>5
  <1> HIDE DEF k
  <1>7. IsSuffix(k, k)
      BY <1>6, SuffixSame
  <1>8. QED
      BY <1>3, <1>4, <1>7 DEF Theirs, l, k

LEMMA TheirsSeen ==
  ASSUME DirectMessagesAssumption, TypeOK, Posted, NEW c \in Clients, Seen(c),
         Followed(c) => Theirs(ComingUp(c), saved, Said(Other(c)))
  PROVE  Followed(c)' => Theirs(ComingUp(c)', saved', Said(Other(c)))
  <1> DEFINE S == Said(Other(c))
             x == ComingUp(c)
  <1>1. saved \in Seq(Messages) /\ x \in Seq(Messages)
      BY ComesUp DEF TypeOK
  <1>2. Other(c) # c /\ Other(c) \in Clients
      BY Sides
  <1>3. /\ \A m \in Said(c) : m \in Messages /\ m \notin S
        /\ \A m \in S : m \in Messages
      BY <1>2, MessagesAre
  <1>4. CASE Quiet(c)
      BY <1>4 DEF Quiet
  <1>5. CASE Dropped(c) \/ Missed(c)
      BY <1>5 DEF Dropped, Missed
  <1>6. CASE Echoed(c)
    <2>1. PICK s \in Seq(Messages), z \in Seq(Messages), m \in Said(c) :
                 /\ x = s \o z /\ ComingUp(c)' = Append(s, m) \o z
                 /\ saved' = saved
                 /\ Followed(c)' => Followed(c)
        BY <1>6 DEF Echoed
    <2> HIDE DEF S, x
    <2>2. m \in Messages /\ m \notin S
        BY <1>3
    <2>3. Only(Only(Append(s, m) \o z, ToSet(saved)), S) = Only(Only(s \o z, ToSet(saved)), S)
        BY <2>2, OthersEcho
    <2>4. Followed(c) => Theirs(s \o z, saved, S)
        BY <2>1 DEF S, x
    <2>5. QED
        BY <2>1, <2>3, <2>4 DEF Theirs, S
  <1>7. CASE Recorded(c)
    <2>1. PICK m \in Said(c) : /\ saved' = Append(saved, m) /\ ComingUp(c)' = x
                               /\ Followed(c)' => Followed(c)
        BY <1>7 DEF Recorded
    <2>2. Followed(c) => Theirs(x, saved, S)
        OBVIOUS
    <2>3. m \in Messages /\ m \notin S
        BY <1>3
    <2> HIDE DEF S, x
    <2>4. Followed(c) => Theirs(x, Append(saved, m), S)
        BY <1>1, <2>2, <2>3, OthersRow
    <2>5. QED
        BY <2>1, <2>4 DEF S
  <1>8. CASE Arriving(c)
    <2>1. PICK m \in S : /\ m \notin ToSet(saved) /\ m \notin ToSet(x)
                         /\ saved' = saved \/ saved' = Append(saved, m)
                         /\ ComingUp(c)' = Append(x, m)
                         /\ Followed(c)' => Followed(c)
        BY <1>8 DEF Arriving
    <2>2. Followed(c) => Theirs(x, saved, S)
        OBVIOUS
    <2>3. m \in Messages
        BY <1>3
    <2> HIDE DEF S, x
    <2>4. Followed(c) => Theirs(Append(x, m), saved, S)
        BY <1>1, <2>1, <2>2, <2>3, TheirsUnsaved
    <2>5. Followed(c) => Theirs(Append(x, m), Append(saved, m), S)
        BY <1>1, <2>1, <2>2, <2>3, TheirsSaved
    <2>6. QED
        BY <2>1, <2>4, <2>5 DEF S
  <1>9. CASE Renewed(c)
    <2> HIDE DEF S
    <2>1. Theirs(LastOf(saved), saved, S)
        BY <1>1, TheirsRenewed
    <2>2. LastRows = LastOf(saved)
        BY <1>1, RowsAre
    <2>3. QED
        BY <1>9, <2>1, <2>2 DEF Renewed, S
  <1>10. QED
      BY <1>4, <1>5, <1>6, <1>7, <1>8, <1>9 DEF Seen

LEMMA TheirsIs ==
  TheirsArrive <=> \A c \in Clients : Followed(c) => Theirs(ComingUp(c), saved, Said(Other(c)))
  BY DEF TheirsArrive, Theirs, From, StoredOf, LastRows, LastOf

LEMMA TheirsStay ==
  ASSUME DirectMessagesAssumption, TypeOK, Connected, Posted, TheirsArrive, [Next]_vars
  PROVE  TheirsArrive'
  <1>1. ASSUME NEW c \in Clients
        PROVE  Followed(c)' => Theirs(ComingUp(c)', saved', Said(Other(c)))
    <2>1. Seen(c)
        BY StepSeen
    <2>2. Followed(c) => Theirs(ComingUp(c), saved, Said(Other(c)))
        BY TheirsIs
    <2>3. QED
        BY <2>1, <2>2, TheirsSeen
  <1>2. TheirsArrive' <=> \A c \in Clients : Followed(c)' => Theirs(ComingUp(c)', saved', Said(Other(c)))
      BY DEF TheirsArrive, Theirs, From, StoredOf, LastRows, LastOf
  <1>3. QED
      BY <1>1, <1>2

(* What the friend has said is on the screen or on its way to it, in       *)
(* order, without a gap, and as far back as a history answer goes.         *)
THEOREM FriendIsHeard == Spec => []TheirsArrive
  <1>1. Init => TypeOK /\ Connected /\ Posted
      BY DirectMessagesAssumption, InitTyped, InitPosted
  <1>2. Init => TheirsArrive
      BY DEF Init, TheirsArrive, Followed, StartUnderWay
  <1>3. TypeOK /\ Connected /\ Posted /\ TheirsArrive /\ [Next]_vars
          => TypeOK' /\ Connected' /\ Posted' /\ TheirsArrive'
      BY DirectMessagesAssumption, TypedStays, PostedStays, TheirsStay
  <1>4. QED
      BY <1>1, <1>2, <1>3, PTL DEF Spec

-----------------------------------------------------------------------------
(* Nothing is on the screen twice. *)

LEMMA OnceSeen ==
  ASSUME DirectMessagesAssumption, TypeOK, Posted, NEW c \in Clients, Seen(c), IsInjective(ComingUp(c))
  PROVE  IsInjective(ComingUp(c)')
  <1> DEFINE x == ComingUp(c)
  <1>1. saved \in Seq(Messages) /\ x \in Seq(Messages)
      BY ComesUp DEF TypeOK
  <1>2. Other(c) \in Clients
      BY Sides
  <1>3. CASE Quiet(c) \/ Dropped(c) \/ Missed(c) \/ Recorded(c)
      BY <1>3 DEF Quiet, Dropped, Missed, Recorded
  <1>4. CASE Echoed(c)
    <2>1. PICK s \in Seq(Messages), z \in Seq(Messages), m \in Said(c) :
                 /\ x = s \o z /\ ComingUp(c)' = Append(s, m) \o z
                 /\ m \notin ToSet(x)
        BY <1>4 DEF Echoed
    <2>2. m \in Messages /\ IsInjective(s \o z) /\ m \notin ToSet(s \o z)
        BY <2>1, MessagesAre
    <2>3. IsInjective(Append(s, m) \o z)
        BY <2>2, InjectiveInside
    <2>4. QED
        BY <2>1, <2>3
  <1>5. CASE Arriving(c)
    <2>1. PICK m \in Said(Other(c)) : m \notin ToSet(x) /\ ComingUp(c)' = Append(x, m)
        BY <1>5 DEF Arriving
    <2>2. m \in Messages
        BY <1>2, MessagesAre
    <2>3. IsInjective(x)
        OBVIOUS
    <2> HIDE DEF x
    <2>4. QED
        BY <1>1, <2>1, <2>2, <2>3, InjectiveAppend
  <1>6. CASE Renewed(c)
    <2> DEFINE l == LastRows
    <2>1. l \in Seq(Messages) /\ IsSuffix(l, saved) /\ IsInjective(saved)
        BY <1>1, RowsAre DEF Posted
    <2> HIDE DEF l
    <2>2. IsInjective(l)
        BY <1>1, <2>1, SuffixIn
    <2>3. QED
        BY <1>6, <2>2 DEF Renewed, l
  <1>7. QED
      BY <1>3, <1>4, <1>5, <1>6 DEF Seen

LEMMA OnceStays ==
  ASSUME DirectMessagesAssumption, TypeOK, Connected, Posted, NothingTwice, [Next]_vars
  PROVE  NothingTwice'
  <1>1. ASSUME NEW c \in Clients
        PROVE  IsInjective(ComingUp(c)')
      BY StepSeen, OnceSeen DEF NothingTwice
  <1>2. QED
      BY <1>1 DEF NothingTwice

(* No message is twice on a screen or on its way to it: no echo meets its  *)
(* own row.                                                                *)
THEOREM NoneTwice == Spec => []NothingTwice
  <1>1. Init => TypeOK /\ Connected /\ Posted
      BY DirectMessagesAssumption, InitTyped, InitPosted
  <1>2. Init => NothingTwice
    <2>1. IsInjective(<<>>)
        BY DEF IsInjective
    <2>2. Init => \A c \in Clients : ComingUp(c) = <<>>
        BY ScreenEmpty DEF Init, ComingUp
    <2>3. QED
        BY <2>1, <2>2 DEF NothingTwice
  <1>3. TypeOK /\ Connected /\ Posted /\ NothingTwice /\ [Next]_vars
          => TypeOK' /\ Connected' /\ Posted' /\ NothingTwice'
      BY DirectMessagesAssumption, TypedStays, PostedStays, OnceStays
  <1>4. QED
      BY <1>1, <1>2, <1>3, PTL DEF Spec

-----------------------------------------------------------------------------
(* What of the user's own stays. *)

WaitsAt(c) ==
  \A k \in DOMAIN up[c] :
    up[c][k].kind = "post" /\ up[c][k].msg \notin hasty[c] =>
      /\ \A j \in DOMAIN up[c] : j < k => up[c][j].kind # "history"
      /\ ~Has(down[c], "start")
      /\ Len(shown[c]) < MaxMessages => up[c][k].msg \in ToSet(shown[c])

(* The posts of the queue v were in q, behind no more than they are now.   *)
LEMMA QueueMoves ==
  ASSUME NEW R, NEW q \in Seq(R), NEW v,
         \/ v = q
         \/ \E r \in R : r.kind # "post" /\ v = Append(q, r)
         \/ q # <<>> /\ v = Tail(q),
         NEW k \in DOMAIN v, v[k].kind = "post"
  PROVE  \E l \in DOMAIN q :
           /\ v[k] = q[l]
           /\ \A j \in DOMAIN v : j < k => \E i \in DOMAIN q : i < l /\ v[j] = q[i]
  <1>1. DOMAIN q = 1 .. Len(q) /\ Len(q) \in Nat
      OBVIOUS
  <1>2. CASE v = q
      BY <1>2
  <1>3. ASSUME NEW r \in R, r.kind # "post", v = Append(q, r)
        PROVE  \E l \in DOMAIN q :
                 /\ v[k] = q[l]
                 /\ \A j \in DOMAIN v : j < k => \E i \in DOMAIN q : i < l /\ v[j] = q[i]
    <2>1. v \in Seq(R) /\ Len(v) = Len(q) + 1 /\ v[Len(q) + 1] = r /\ \A i \in 1 .. Len(q) : v[i] = q[i]
        BY <1>3, AppendProperties
    <2>2. DOMAIN v = 1 .. Len(q) + 1
        BY <2>1
    <2>3. k \in 1 .. Len(q)
      <3>1. k \in 1 .. Len(q) + 1 /\ k # Len(q) + 1
          BY <1>3, <2>1, <2>2
      <3>2. QED
          BY <1>1, <3>1
    <2>4. ASSUME NEW j \in DOMAIN v, j < k
          PROVE  j \in 1 .. Len(q) /\ v[j] = q[j]
      <3>1. j \in 1 .. Len(q) + 1 /\ j < k
          BY <2>2, <2>4
      <3>2. j \in 1 .. Len(q)
          BY <1>1, <2>3, <3>1
      <3>3. QED
          BY <2>1, <3>2
    <2>5. QED
        BY <1>1, <2>1, <2>3, <2>4
  <1>4. CASE q # <<>> /\ v = Tail(q)
    <2>1. v \in Seq(R) /\ \A i \in 1 .. Len(v) : v[i] = q[i + 1] /\ i + 1 \in 1 .. Len(q)
        BY <1>4, FirstTaken
    <2>2. DOMAIN v = 1 .. Len(v) /\ Len(v) \in Nat
        BY <2>1
    <2>3. k + 1 \in DOMAIN q /\ v[k] = q[k + 1]
        BY <1>1, <2>1, <2>2
    <2>4. ASSUME NEW j \in DOMAIN v, j < k
          PROVE  j + 1 \in DOMAIN q /\ j + 1 < k + 1 /\ v[j] = q[j + 1]
      <3>1. j \in 1 .. Len(v) /\ k \in 1 .. Len(v) /\ j < k
          BY <2>2, <2>4
      <3>2. j + 1 < k + 1
        <4>1. j \in Int /\ k \in Int
            BY <3>1
        <4>2. QED
            BY <3>1, <4>1
      <3>3. v[j] = q[j + 1] /\ j + 1 \in 1 .. Len(q)
          BY <2>1, <3>1
      <3>4. QED
          BY <1>1, <3>2, <3>3
    <2>5. QED
        BY <2>3, <2>4
  <1>5. QED
      BY <1>2, <1>3, <1>4

(* No start frame comes, and nothing is taken from the screen.             *)
LEMMA WaitsOn ==
  ASSUME NEW c, NEW R, up[c] \in Seq(R), WaitsAt(c),
         hasty[c] \subseteq hasty'[c],
         Has(down'[c], "start") => Has(down[c], "start"),
         Len(shown'[c]) < MaxMessages => Len(shown[c]) < MaxMessages,
         Len(shown'[c]) < MaxMessages => ToSet(shown[c]) \subseteq ToSet(shown'[c]),
         \/ up'[c] = up[c]
         \/ \E r \in R : r.kind # "post" /\ up'[c] = Append(up[c], r)
         \/ up[c] # <<>> /\ up'[c] = Tail(up[c])
  PROVE  WaitsAt(c)'
  <1> DEFINE q == up[c]
             v == up'[c]
  <1> SUFFICES ASSUME NEW k \in DOMAIN v, v[k].kind = "post", v[k].msg \notin hasty'[c]
               PROVE  /\ \A j \in DOMAIN v : j < k => v[j].kind # "history"
                      /\ ~Has(down'[c], "start")
                      /\ Len(shown'[c]) < MaxMessages => v[k].msg \in ToSet(shown'[c])
      BY DEF WaitsAt
  <1>1. q \in Seq(R)
      OBVIOUS
  <1>2. \/ v = q
        \/ \E r \in R : r.kind # "post" /\ v = Append(q, r)
        \/ q # <<>> /\ v = Tail(q)
      OBVIOUS
  <1>3. ASSUME NEW l \in DOMAIN q, q[l].kind = "post", q[l].msg \notin hasty[c]
        PROVE  /\ \A j \in DOMAIN q : j < l => q[j].kind # "history"
               /\ ~Has(down[c], "start")
               /\ Len(shown[c]) < MaxMessages => q[l].msg \in ToSet(shown[c])
      BY <1>3 DEF WaitsAt
  <1> HIDE DEF q, v
  <1>4. PICK l \in DOMAIN q :
               /\ v[k] = q[l]
               /\ \A j \in DOMAIN v : j < k => \E i \in DOMAIN q : i < l /\ v[j] = q[i]
      BY <1>1, <1>2, QueueMoves
  <1>5. q[l].kind = "post" /\ q[l].msg \notin hasty[c]
      BY <1>4
  <1>6. /\ \A j \in DOMAIN q : j < l => q[j].kind # "history"
        /\ ~Has(down[c], "start")
        /\ Len(shown[c]) < MaxMessages => q[l].msg \in ToSet(shown[c])
      BY <1>3, <1>5
  <1>7. \A j \in DOMAIN v : j < k => v[j].kind # "history"
      BY <1>4, <1>6
  <1>8. QED
      BY <1>4, <1>6, <1>7

(* While a start frame is on its way, or with nothing asked of the server, *)
(* there is nothing to say.                                                *)
LEMMA WaitsNone ==
  ASSUME NEW c, NEW R, up[c] \in Seq(R), WaitsAt(c), hasty'[c] = hasty[c],
         \/ up'[c] = up[c] /\ Has(down[c], "start")
         \/ up[c] # <<>> /\ up'[c] = Tail(up[c]) /\ Head(up[c]).kind = "history"
  PROVE  WaitsAt(c)'
  <1> SUFFICES ASSUME NEW k \in DOMAIN up'[c], up'[c][k].kind = "post", up'[c][k].msg \notin hasty'[c]
               PROVE  FALSE
      BY DEF WaitsAt
  <1>1. CASE up'[c] = up[c] /\ Has(down[c], "start")
      BY <1>1 DEF WaitsAt
  <1>2. CASE up[c] # <<>> /\ up'[c] = Tail(up[c]) /\ Head(up[c]).kind = "history"
    <2> DEFINE q == up[c]
               v == Tail(q)
    <2>1. q \in Seq(R) /\ q # <<>> /\ up'[c] = v
        BY <1>2
    <2>2. Len(q) \in Nat \ {0} /\ Head(q) = q[1] /\ v \in Seq(R)
          /\ \A i \in 1 .. Len(v) : v[i] = q[i + 1] /\ i + 1 \in 1 .. Len(q)
        BY <2>1, FirstTaken
    <2>3. DOMAIN v = 1 .. Len(v) /\ DOMAIN q = 1 .. Len(q) /\ k \in 1 .. Len(v)
        BY <2>1, <2>2
    <2> HIDE DEF v
    <2>4. v[k] = q[k + 1] /\ k + 1 \in DOMAIN q /\ 1 \in DOMAIN q /\ 1 < k + 1
        BY <2>2, <2>3
    <2>5. q[k + 1].kind = "post" /\ q[k + 1].msg \notin hasty[c]
        BY <2>1, <2>4
    <2>6. q[1].kind # "history"
        BY <2>4, <2>5 DEF WaitsAt
    <2>7. QED
        BY <1>2, <2>2, <2>6
  <1>3. QED
      BY <1>1, <1>2

LEMMA KeyWaits ==
  ASSUME DirectMessagesAssumption, TypeOK, NEW c \in Clients, NEW d \in Clients, Key(d), WaitsAt(c)
  PROVE  WaitsAt(c)'
  <1>1. down' = down /\ up[c] \in Seq(Requests)
      BY DEF Key, OpenDMs, CloseDMs, SelectFriend, Type, TypeOK
  <1>2. ASSUME hasty' = hasty, shown' = shown,
               up'[c] = up[c] \/ \E r \in Requests : r.kind # "post" /\ up'[c] = Append(up[c], r)
        PROVE  WaitsAt(c)'
      BY <1>1, <1>2, WaitsOn
  <1>3. ASSUME NEW r \in Requests, r.kind # "post", Request(d, r), hasty' = hasty, shown' = shown
        PROVE  WaitsAt(c)'
    <2>1. up'[c] = IF c = d THEN Append(up[c], r) ELSE up[c]
        BY <1>3 DEF Request, TypeOK
    <2>2. QED
        BY <1>2, <1>3, <2>1
  <1>4. CASE OpenDMs(d)
    <2>1. Request(d, [kind |-> "list"]) /\ hasty' = hasty /\ shown' = shown
        BY <1>4 DEF OpenDMs
    <2>2. QED
        BY <1>3, <2>1, RequestsAre
  <1>5. CASE SelectFriend(d)
    <2>1. Request(d, [kind |-> "history"]) /\ hasty' = hasty /\ shown' = shown
        BY <1>5 DEF SelectFriend
    <2>2. QED
        BY <1>3, <2>1, RequestsAre
  <1>6. CASE CloseDMs(d)
      BY <1>2, <1>6 DEF CloseDMs
  <1>7. CASE Type(d) /\ d # c
    <2> DEFINE m == [n |-> typed + 1, from |-> d]
               r == [kind |-> "post", msg |-> m]
    <2>1. /\ up' = [up EXCEPT ![d] = Append(@, r)] /\ shown' = [shown EXCEPT ![d] = Keep(@, m)]
          /\ hasty' = hasty \/ hasty' = [hasty EXCEPT ![d] = @ \cup {m}]
        BY <1>7 DEF Type, Request
    <2> HIDE DEF m, r
    <2>2. up'[c] = up[c] /\ shown'[c] = shown[c] /\ hasty'[c] = hasty[c]
        BY <1>7, <2>1 DEF TypeOK
    <2>3. QED
        BY <1>1, <2>2 DEF WaitsAt
  <1>8. CASE Type(d) /\ d = c
    <2> DEFINE m == [n |-> typed + 1, from |-> c]
               r == [kind |-> "post", msg |-> m]
               q == up[c]
    <2>1. typed \in Nat /\ typed + 1 \in 1 .. MaxPosts
        BY <1>8 DEF Type, TypeOK, DirectMessagesAssumption
    <2>2. m \in Messages
        BY <2>1, MessagesAre
    <2>3. r \in Requests /\ r.kind = "post" /\ r.msg = m
        BY <2>2, RequestsAre
    <2>4. /\ up'[c] = Append(q, r) /\ shown'[c] = Keep(shown[c], m)
          /\ HistoryUnderWay(c) => hasty'[c] = hasty[c] \cup {m}
          /\ ~HistoryUnderWay(c) => hasty'[c] = hasty[c]
      <3>1. /\ up' = [up EXCEPT ![c] = Append(@, r)] /\ shown' = [shown EXCEPT ![c] = Keep(@, m)]
            /\ hasty' = IF HistoryUnderWay(c) THEN [hasty EXCEPT ![c] = @ \cup {m}] ELSE hasty
          BY <1>8 DEF Type, Request
      <3> HIDE DEF m, r
      <3>2. QED
          BY <3>1 DEF TypeOK
    <2> HIDE DEF m, r
    <2>5. /\ shown[c] \in Seq(Messages)
          /\ Len(shown'[c]) < MaxMessages =>
               /\ Len(shown[c]) < MaxMessages
               /\ ToSet(shown'[c]) = ToSet(shown[c]) \cup {m}
      <3>1. shown[c] \in Seq(Messages)
          BY DEF TypeOK
      <3>2. CASE Len(shown[c]) < MaxMessages
        <4>1. shown'[c] = Append(shown[c], m)
            BY <2>4, <3>2 DEF Keep
        <4>2. ToSet(Append(shown[c], m)) = ToSet(shown[c]) \cup {m}
            BY <2>2, <3>1, ToSetAppend
        <4>3. QED
            BY <3>1, <3>2, <4>1, <4>2
      <3>3. CASE ~(Len(shown[c]) < MaxMessages)
          BY <2>4, <3>1, <3>3 DEF Keep
      <3>4. QED
          BY <3>2, <3>3
    <2>6. /\ DOMAIN q = 1 .. Len(q) /\ Len(q) \in Nat
          /\ DOMAIN up'[c] = 1 .. Len(q) + 1 /\ up'[c][Len(q) + 1] = r
          /\ \A i \in 1 .. Len(q) : up'[c][i] = q[i]
      <3>1. q \in Seq(Requests)
          BY <1>1
      <3> DEFINE v == Append(q, r)
      <3> HIDE DEF q
      <3>2. v \in Seq(Requests) /\ Len(v) = Len(q) + 1 /\ v[Len(q) + 1] = r /\ \A i \in 1 .. Len(q) : v[i] = q[i]
          BY <2>3, <3>1, AppendProperties
      <3>3. DOMAIN v = 1 .. Len(q) + 1 /\ DOMAIN q = 1 .. Len(q) /\ Len(q) \in Nat
          BY <3>1, <3>2
      <3>4. up'[c] = v
          BY <2>4
      <3> HIDE DEF v
      <3>5. QED
          BY <3>2, <3>3, <3>4
    <2>7. SUFFICES ASSUME NEW k \in DOMAIN up'[c], up'[c][k].kind = "post", up'[c][k].msg \notin hasty'[c]
                   PROVE  /\ \A j \in DOMAIN up'[c] : j < k => up'[c][j].kind # "history"
                          /\ ~Has(down'[c], "start")
                          /\ Len(shown'[c]) < MaxMessages => up'[c][k].msg \in ToSet(shown'[c])
        BY DEF WaitsAt
    <2>8. CASE k \in 1 .. Len(q)
      <3>1. k \in DOMAIN q /\ up'[c][k] = q[k] /\ \A j \in DOMAIN up'[c] : j < k => j \in DOMAIN q /\ up'[c][j] = q[j]
          BY <2>6, <2>8
      <3>2. q[k].kind = "post" /\ q[k].msg \notin hasty[c]
          BY <2>4, <2>7, <3>1
      <3>3. /\ \A j \in DOMAIN q : j < k => q[j].kind # "history"
            /\ ~Has(down[c], "start")
            /\ Len(shown[c]) < MaxMessages => q[k].msg \in ToSet(shown[c])
          BY <3>1, <3>2 DEF WaitsAt
      <3>4. QED
          BY <1>1, <2>5, <3>1, <3>3
    <2>9. CASE k = Len(q) + 1
      <3>1. up'[c][k] = r
          BY <2>6, <2>9
      <3>2. ~HistoryUnderWay(c)
          BY <2>3, <2>4, <2>7, <3>1
      <3>3. /\ \A j \in DOMAIN q : q[j].kind # "history"
            /\ ~Has(down[c], "start")
          BY <3>2 DEF HistoryUnderWay, StartUnderWay, Has
      <3>4. \A j \in DOMAIN up'[c] : j < k => up'[c][j].kind # "history"
          BY <2>6, <2>9, <3>3
      <3>5. QED
          BY <1>1, <2>3, <2>5, <3>1, <3>3, <3>4
    <2>10. QED
        BY <2>6, <2>8, <2>9
  <1>9. QED
      BY <1>4, <1>5, <1>6, <1>7, <1>8 DEF Key

LEMMA HandleWaits ==
  ASSUME DirectMessagesAssumption, TypeOK, Posted, NEW c \in Clients, NEW d \in Clients, Handle(d), WaitsAt(c)
  PROVE  WaitsAt(c)'
  <1>1. shown' = shown /\ hasty' = hasty /\ up[c] \in Seq(Requests)
        /\ PacketsOf(Messages) = Packets /\ down[c] \in Seq(Packets)
      BY DEF Handle, HandlePost, HandleHistory, HandleList, PushList, TypeOK, PacketsOf, Packets
  <1>2. up'[c] = up[c] \/ (up[c] # <<>> /\ up'[c] = Tail(up[c]))
      BY DEF Handle, HandlePost, HandleHistory, HandleList, PushList, Asks, Answered, TypeOK
  <1>3. ASSUME Has(down'[c], "start") => Has(down[c], "start")
        PROVE  WaitsAt(c)'
      BY <1>1, <1>2, <1>3, WaitsOn
  <1>4. ASSUME NEW p \in Packets, p.kind # "start", down'[c] = down[c] \/ down'[c] = Append(down[c], p)
        PROVE  WaitsAt(c)'
    <2>1. Has(Append(down[c], p), "start") <=> Has(down[c], "start")
        BY <1>1, <1>4, HasAppend
    <2>2. QED
        BY <1>3, <1>4, <2>1
  <1>5. CASE HandlePost(d)
    <2> DEFINE m == Head(up[d]).msg
               p == AsPacket(m)
    <2>1. m \in Messages /\ down' = Deliver(d, m)
        BY <1>5, HandledIs DEF HandlePost
    <2>2. p \in Packets /\ p.kind # "start"
        BY <1>1, <2>1, PacketsAre DEF AsPacket
    <2>3. down'[c] = down[c] \/ down'[c] = Append(down[c], p)
        BY <2>1 DEF Deliver, TypeOK
    <2> HIDE DEF p
    <2>4. QED
        BY <1>4, <2>2, <2>3
  <1>6. CASE HandleHistory(d) /\ d = c
    <2>1. up[c] # <<>> /\ up'[c] = Tail(up[c]) /\ Head(up[c]).kind = "history"
        BY <1>6 DEF HandleHistory, Asks, Answered, TypeOK
    <2>2. QED
        BY <1>1, <2>1, WaitsNone
  <1>7. CASE HandleHistory(d) /\ d # c
    <2>1. down'[c] = down[c]
        BY <1>7 DEF HandleHistory, TypeOK
    <2>2. QED
        BY <1>3, <2>1
  <1>8. CASE HandleList(d) \/ PushList(d)
    <2> DEFINE p == [kind |-> "list"]
    <2>1. down'[c] = down[c] \/ down'[c] = Append(down[c], p)
        BY <1>8 DEF HandleList, PushList, TypeOK
    <2>2. p \in Packets /\ p.kind # "start"
        BY <1>1, PacketsAre
    <2> HIDE DEF p
    <2>3. QED
        BY <1>4, <2>1, <2>2
  <1>9. QED
      BY <1>5, <1>6, <1>7, <1>8 DEF Handle

LEMMA ReceiveWaits ==
  ASSUME DirectMessagesAssumption, TypeOK, NEW c \in Clients, NEW d \in Clients, Receive(d), WaitsAt(c)
  PROVE  WaitsAt(c)'
  <1>1. /\ hasty' = hasty /\ down[d] # <<>> /\ down' = Taken(d)
        /\ up[c] \in Seq(Requests) /\ down[c] \in Seq(Packets) /\ shown[c] \in Seq(Messages)
      BY DEF Receive, ReceiveList, ReceiveStart, ReceiveMessage, Gets, TypeOK
  <1>2. CASE d # c
    <2>1. down'[c] = down[c] /\ up'[c] = up[c] /\ shown'[c] = shown[c]
        BY <1>1, <1>2 DEF Receive, ReceiveList, ReceiveStart, ReceiveMessage, Taken, TypeOK
    <2>2. QED
        BY <1>1, <2>1 DEF WaitsAt
  <1>3. CASE d = c
    <2>1. Has(down'[c], "start") => Has(down[c], "start")
      <3>1. down'[c] = Tail(down[c]) /\ down[c] # <<>>
          BY <1>1, <1>3 DEF Taken, TypeOK
      <3>2. QED
          BY <1>1, <3>1, HasTail
    <2>2. CASE ReceiveList(c)
      <3> DEFINE r == [kind |-> "history"]
      <3>1. shown' = shown /\ (up'[c] = up[c] \/ up'[c] = Append(up[c], r))
          BY <2>2 DEF ReceiveList, TypeOK
      <3>2. r \in Requests /\ r.kind # "post"
          BY RequestsAre
      <3> HIDE DEF r
      <3>3. up'[c] = up[c] \/ \E w \in Requests : w.kind # "post" /\ up'[c] = Append(up[c], w)
          BY <3>1, <3>2
      <3>4. QED
          BY <1>1, <2>1, <3>1, <3>3, WaitsOn
    <2>3. CASE ReceiveStart(c)
      <3>1. Head(down[c]).kind = "start" /\ down[c] # <<>> /\ up' = up
          BY <2>3 DEF ReceiveStart, Gets
      <3>2. Has(down[c], "start")
          BY <1>1, <3>1, HasTail
      <3>3. QED
          BY <1>1, <3>1, <3>2, WaitsNone
    <2>4. CASE ReceiveMessage(c)
      <3> DEFINE m == Head(down[c]).msg
      <3>1. /\ up' = up
            /\ shown'[c] = shown[c] \/ (Len(shown[c]) < MaxMessages /\ shown'[c] = Append(shown[c], m))
          BY <2>4 DEF ReceiveMessage, Keep, TypeOK
      <3>2. m \in Messages
        <4>1. Head(down[c]) \in Packets /\ Head(down[c]).kind = "message" /\ PacketsOf(Messages) = Packets
            BY <1>1, <2>4, FirstTaken DEF ReceiveMessage, Gets, PacketsOf, Packets
        <4>2. QED
            BY <4>1, PacketsAre
      <3> HIDE DEF m
      <3>3. ToSet(Append(shown[c], m)) = ToSet(shown[c]) \cup {m}
          BY <1>1, <3>2, ToSetAppend
      <3>4. /\ Len(shown'[c]) < MaxMessages => Len(shown[c]) < MaxMessages
            /\ ToSet(shown[c]) \subseteq ToSet(shown'[c])
          BY <3>1, <3>3
      <3>5. QED
          BY <1>1, <2>1, <3>1, <3>4, WaitsOn
    <2>5. QED
        BY <1>3, <2>2, <2>3, <2>4 DEF Receive
  <1>4. QED
      BY <1>2, <1>3

LEMMA WaitsStay ==
  ASSUME DirectMessagesAssumption, TypeOK, Connected, Posted, Waits, [Next]_vars
  PROVE  Waits'
  <1>1. SUFFICES ASSUME NEW c \in Clients
                 PROVE  WaitsAt(c)'
      BY DEF Waits, WaitsAt
  <1>2. WaitsAt(c)
      BY DEF Waits, WaitsAt
  <1>3. CASE UNCHANGED vars
      BY <1>2, <1>3 DEF WaitsAt, vars
  <1>4. ASSUME NEW d \in Clients, Start(d) \/ Stop(d)
        PROVE  WaitsAt(c)'
    <2>1. CASE Start(d)
        BY <1>2, <2>1 DEF Start, WaitsAt
    <2>2. CASE Stop(d) /\ d # c
      <3>1. Same(c)
          BY <2>2 DEF Stop, Same, TypeOK
      <3>2. QED
          BY <1>2, <3>1 DEF Same, WaitsAt
    <2>3. CASE Stop(d) /\ d = c
      <3>1. up'[c] = <<>>
          BY <2>3 DEF Stop, TypeOK
      <3>2. QED
          BY <3>1 DEF WaitsAt
    <2>4. QED
        BY <1>4, <2>1, <2>2, <2>3
  <1>5. CASE Next
      BY <1>2, <1>4, <1>5, KeyWaits, HandleWaits, ReceiveWaits DEF Next
  <1>6. QED
      BY <1>3, <1>5

LEMMA MineSeen ==
  ASSUME DirectMessagesAssumption, TypeOK, Posted, Waits, NEW c \in Clients, Seen(c),
         Followed(c) => ToSet(From(LastRows, c)) \ hasty[c] \subseteq ToSet(ComingUp(c))
  PROVE  Followed(c)' => ToSet(From(LastRows', c)) \ hasty'[c] \subseteq ToSet(ComingUp(c)')
  <1> DEFINE S == Said(c)
             x == ComingUp(c)
             l == LastRows
  <1>1. saved \in Seq(Messages) /\ x \in Seq(Messages) /\ l \in Seq(Messages) /\ l = LastOf(saved)
      BY ComesUp, RowsAre DEF TypeOK
  <1>2. ToSet(From(l, c)) = ToSet(l) \cap S
    <2> HIDE DEF l
    <2>1. QED
        BY <1>1, OnlyRange DEF From
  <1>3. ASSUME saved' = saved
        PROVE  LastRows' = l
      BY <1>3 DEF LastRows
  <1>4. ASSUME NEW m \in Messages, saved' = Append(saved, m)
        PROVE  ToSet(From(LastRows', c)) \subseteq (ToSet(l) \cup {m}) \cap S
    <2> DEFINE t == Append(saved, m)
               k == LastOf(t)
               e == Append(l, m)
    <2>1. LastRows' = k
        BY <1>4 DEF LastRows, LastOf
    <2>2. t \in Seq(Messages) /\ e \in Seq(Messages)
      <3> HIDE DEF l
      <3>1. QED
          BY <1>1, AppendProperties
    <2>3. ToSet(e) = ToSet(l) \cup {m}
      <3> HIDE DEF l
      <3>1. QED
          BY <1>1, ToSetAppend
    <2>4. IsSuffix(k, e)
        BY <1>1, LastOfAppend
    <2>5. k \in Seq(Messages)
      <3> HIDE DEF t
      <3>1. QED
          BY <2>2, LastOfIs
    <2> HIDE DEF k, e
    <2>6. ToSet(k) \subseteq ToSet(e)
        BY <2>2, <2>4, <2>5, SuffixIn
    <2>7. ToSet(Only(k, S)) = ToSet(k) \cap S
        BY <2>5, OnlyRange
    <2>8. QED
        BY <2>1, <2>3, <2>6, <2>7 DEF From
  <1>5. CASE Quiet(c)
      BY <1>3, <1>5 DEF Quiet
  <1>6. CASE Dropped(c) \/ Missed(c)
      BY <1>6 DEF Dropped, Missed
  <1>7. CASE Echoed(c)
    <2>1. PICK s \in Seq(Messages), z \in Seq(Messages), m \in Said(c) :
                 /\ x = s \o z /\ ComingUp(c)' = Append(s, m) \o z
                 /\ saved' = saved /\ hasty[c] \subseteq hasty'[c]
                 /\ Followed(c)' => Followed(c)
        BY <1>7 DEF Echoed
    <2>2. m \in Messages
        BY MessagesAre
    <2>3. ToSet(x) \subseteq ToSet(ComingUp(c)')
      <3> DEFINE a == Append(s, m)
      <3>1. a \in Seq(Messages) /\ ToSet(a) = ToSet(s) \cup {m}
          BY <2>2, AppendProperties, ToSetAppend
      <3>2. ToSet(s \o z) = ToSet(s) \cup ToSet(z)
          BY ToSetJoin
      <3> HIDE DEF a
      <3>3. ToSet(a \o z) = ToSet(a) \cup ToSet(z)
          BY <3>1, ToSetJoin
      <3>4. QED
          BY <2>1, <3>1, <3>2, <3>3 DEF a
    <2>4. QED
        BY <1>3, <2>1, <2>3
  <1>8. CASE Recorded(c)
    <2>1. PICK m \in Said(c) : /\ saved' = Append(saved, m) /\ ComingUp(c)' = x
                               /\ Followed(c)' => Followed(c)
                               /\ hasty'[c] = hasty[c]
                               /\ up[c] # <<>> /\ Head(up[c]).kind = "post" /\ Head(up[c]).msg = m
        BY <1>8 DEF Recorded
    <2>2. m \in Messages
        BY MessagesAre
    <2>3. Followed(c) /\ m \notin hasty[c] => m \in ToSet(x)
      <3>1. SUFFICES ASSUME Followed(c), m \notin hasty[c] PROVE m \in ToSet(x)
          OBVIOUS
      <3>2. up[c] \in Seq(Requests) /\ Head(up[c]) = up[c][1] /\ 1 \in DOMAIN up[c]
        <4>1. up[c] \in Seq(Requests)
            BY DEF TypeOK
        <4>2. Head(up[c]) = up[c][1] /\ Len(up[c]) \in Nat \ {0}
            BY <2>1, <4>1, FirstTaken
        <4>3. QED
            BY <4>1, <4>2
      <3>3. ~Has(down[c], "start") /\ (Len(shown[c]) < MaxMessages => m \in ToSet(shown[c]))
          BY <2>1, <3>1, <3>2 DEF Waits
      <3> DEFINE s == shown[c]
                 z == Screen(<<>>, down[c])
      <3>4. s \in Seq(Messages) /\ z \in Seq(Messages) /\ ~StartUnderWay(c) /\ x = s \o z
          BY <3>3, ComesUp
      <3>5. m \in ToSet(s)
          BY <3>1, <3>3, <3>4 DEF Followed
      <3> HIDE DEF s, z, x
      <3>6. ToSet(s \o z) = ToSet(s) \cup ToSet(z)
          BY <3>4, ToSetJoin
      <3>7. QED
          BY <3>4, <3>5, <3>6
    <2>4. QED
        BY <1>2, <1>4, <2>1, <2>2, <2>3
  <1>9. CASE Arriving(c)
    <2>1. PICK m \in Said(Other(c)) : /\ saved' = saved \/ saved' = Append(saved, m)
                                      /\ ComingUp(c)' = Append(x, m)
                                      /\ Followed(c)' => Followed(c)
                                      /\ hasty'[c] = hasty[c]
        BY <1>9 DEF Arriving
    <2>2. m \in Messages /\ m \notin S
        BY Sides, MessagesAre
    <2>3. ToSet(x) \subseteq ToSet(ComingUp(c)')
      <3> HIDE DEF x
      <3>1. ToSet(Append(x, m)) = ToSet(x) \cup {m}
          BY <1>1, <2>2, ToSetAppend
      <3>2. QED
          BY <2>1, <3>1
    <2>4. ToSet(From(LastRows', c)) \subseteq ToSet(l) \cap S
        BY <1>2, <1>3, <1>4, <2>1, <2>2
    <2>5. QED
        BY <1>2, <2>1, <2>3, <2>4
  <1>10. CASE Renewed(c)
    <2>1. LastRows' = l /\ ComingUp(c)' = l
        BY <1>3, <1>10 DEF Renewed
    <2>2. QED
        BY <1>2, <2>1
  <1>11. QED
      BY <1>5, <1>6, <1>7, <1>8, <1>9, <1>10 DEF Seen

LEMMA MineStays ==
  ASSUME DirectMessagesAssumption, TypeOK, Connected, Posted, Waits, MineStay, [Next]_vars
  PROVE  MineStay'
  <1>1. ASSUME NEW c \in Clients
        PROVE  Followed(c)' => ToSet(From(LastRows', c)) \ hasty'[c] \subseteq ToSet(ComingUp(c)')
    <2>1. Seen(c)
        BY StepSeen
    <2>2. Followed(c) => ToSet(From(LastRows, c)) \ hasty[c] \subseteq ToSet(ComingUp(c))
        BY DEF MineStay
    <2>3. QED
        BY <2>1, <2>2, MineSeen
  <1>2. MineStay' <=> \A c \in Clients : Followed(c)' =>
          \A m \in ToSet(From(LastRows', c)) \ hasty'[c] : m \in ToSet(ComingUp(c)')
      BY DEF MineStay, From
  <1>3. QED
      BY <1>1, <1>2

(* What the user has typed stays on the screen, as far back as a history   *)
(* answer goes, but for what was typed while a history was under way.      *)
THEOREM OwnStay == Spec => []MineStay
  <1>1. Init => TypeOK /\ Connected /\ Posted
      BY DirectMessagesAssumption, InitTyped, InitPosted
  <1>2. Init => Waits /\ MineStay
      BY DEF Init, Waits, MineStay, Followed, StartUnderWay
  <1>3. TypeOK /\ Connected /\ Posted /\ Waits /\ MineStay /\ [Next]_vars
          => TypeOK' /\ Connected' /\ Posted' /\ Waits' /\ MineStay'
      BY DirectMessagesAssumption, TypedStays, PostedStays, WaitsStay, MineStays
  <1>4. QED
      BY <1>1, <1>2, <1>3, PTL DEF Spec
=============================================================================
