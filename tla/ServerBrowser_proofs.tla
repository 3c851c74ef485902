-------------------------- MODULE ServerBrowser_proofs --------------------------
(***************************************************************************)
(* Proofs of the safety properties of the server browser, for any finite   *)
(* set of servers, any number of slots and any bound on the requests.      *)
(*                                                                         *)
(* The properties relate a slot, the packets on both links and what the    *)
(* server keeps of this client.  The inductive invariant says what is on   *)
(* its way when a slot does not show yet what it should: Entered for the   *)
(* lists of the active slot, ListingComes for the list of the servers.     *)
(***************************************************************************)
EXTENDS ServerBrowser, SequenceTheorems, FiniteSetTheorems, TLAPS

Slot == [id : Servers \cup {None}, list : Servers \cup {None}, any : BOOLEAN]

(* Something of these kinds is on the link s. *)
Some(s, kinds) == \E m \in Range(s) : m.kind \in kinds

(* m is the last message of these kinds on the link s. *)
Latest(s, kinds, m) ==
  \E k \in DOMAIN s :
    /\ s[k] = m /\ m.kind \in kinds
    /\ \A j \in DOMAIN s : j > k => s[j].kind \notin kinds

(* The slots the user can come to are those a list has filled. *)
Known(n) == slots[n].id \in Servers
SlotsNamed ==
  /\ \A n \in 1 .. count : Known(n)
  /\ cursor > 1 => \A n \in 1 .. cursor : Known(n)
  /\ active # 0 => Known(active)

(* Whatever the client asks for is about a server, but for the list of     *)
(* servers and the user's status.                                          *)
RequestsNamed == \A r \in Range(up) : r.kind \notin {"list", "status"} => r.of \in Servers

(* Only who asks for members views a server. *)
Unviewed == followed = "channels" => viewing = None

(* Whose lists the active slot will have once nothing is on its way: its   *)
(* own.  Either they are still to be asked for, and what the server sends  *)
(* before it comes to that does not count, or the server has come to it    *)
(* and sends nothing but those from now on.                                *)
Entered ==
  active \in 1 .. count /\ ~refilled =>
    LET own == slots[active].id
    IN  \/ \E r \in Range(up) : Latest(up, Lists, r) /\ r.of = own
        \/ /\ ~Some(up, Lists)
           /\ viewing \in {None, own}
           /\ \/ ~Some(down, Lists) /\ slots[active].list = own
              \/ \E p \in Range(down) : Latest(down, Lists, p) /\ p.of = own

(* The slots show this list of servers. *)
Shows(l) ==
  /\ count = Min({MaxSlots, Len(l)})
  /\ \A n \in 1 .. count : slots[n].id = l[n]

(* A reply after which the client asks for the servers anew. *)
Relists(p) == p.kind = "reply" /\ p.ok /\ p.to \in {"create", "delete"}

(* Unless the last list is outdated, the servers there are will be the     *)
(* ones shown: they are, or the list is on its way, or is going to be      *)
(* asked for.                                                              *)
ListingComes ==
  ~outdated =>
    \/ Some(up, {"list"})
    \/ \E p \in Range(down) : Relists(p)
    \/ \E p \in Range(down) : Latest(down, {"servers"}, p) /\ p.ids = ServerList
    \/ ~Some(down, {"servers"}) /\ Shows(ServerList)

(* WaitHasAnswer, with the messages themselves. *)
AnswerComes ==
  waiting /\ ~(unheard /\ ~named) =>
    \/ Some(up, SlowKinds)
    \/ \E p \in Range(down) : p.kind = "reply" /\ p.to \in SlowKinds

IInv ==
  /\ TypeOK
  /\ ChatHasServer
  /\ SlotsNamed
  /\ RequestsNamed
  /\ Unviewed
  /\ Entered
  /\ ListingComes
  /\ AnswerComes

-----------------------------------------------------------------------------
(* The links. *)

(* The last message of some kinds is one of the messages. *)
LEMMA LatestIsThere ==
  ASSUME NEW s, NEW K, NEW m, Latest(s, K, m)
  PROVE  m \in Range(s) /\ m.kind \in K
  BY DEF Latest, Range

(* What is sent goes behind what is on the link. *)
LEMMA Sent ==
  ASSUME NEW S, NEW s \in Seq(S), NEW e \in S
  PROVE  /\ Append(s, e) \in Seq(S)
         /\ Range(Append(s, e)) = Range(s) \cup {e}
         /\ \A K : e.kind \in K => Latest(Append(s, e), K, e)
         /\ \A K, m : e.kind \notin K /\ Latest(s, K, m) => Latest(Append(s, e), K, m)
  <1> DEFINE t == Append(s, e)
             n == Len(s)
  <1>1. n \in Nat /\ DOMAIN s = 1 .. n
      BY LenProperties
  <1>2. /\ t \in Seq(S) /\ Len(t) = n + 1 /\ t[n + 1] = e
        /\ \A k \in 1 .. n : t[k] = s[k]
      BY AppendProperties
  <1>3. DOMAIN t = 1 .. n + 1
      BY <1>2, LenProperties
  <1> HIDE DEF t, n
  <1>4. Range(t) = Range(s) \cup {e}
      BY <1>1, <1>2, <1>3 DEF Range
  <1>5. ASSUME NEW K, e.kind \in K PROVE Latest(t, K, e)
      BY <1>1, <1>2, <1>3, <1>5 DEF Latest
  <1>6. ASSUME NEW K, NEW m, e.kind \notin K, Latest(s, K, m) PROVE Latest(t, K, m)
    <2>1. PICK k \in 1 .. n : s[k] = m /\ m.kind \in K /\ \A j \in 1 .. n : j > k => s[j].kind \notin K
        BY <1>1, <1>6 DEF Latest
    <2>2. k \in DOMAIN t /\ t[k] = m
        BY <1>1, <1>2, <1>3, <2>1
    <2>3. \A j \in DOMAIN t : j > k => t[j].kind \notin K
        BY <1>1, <1>2, <1>3, <1>6, <2>1
    <2>4. QED
        BY <2>1, <2>2, <2>3 DEF Latest
  <1>7. QED
      BY <1>2, <1>4, <1>5, <1>6 DEF t

(* The first message is taken off the link. *)
LEMMA Taken ==
  ASSUME NEW S, NEW s \in Seq(S), s # <<>>
  PROVE  /\ Head(s) \in S /\ Tail(s) \in Seq(S)
         /\ Range(s) = {Head(s)} \cup Range(Tail(s))
         /\ \A K, m : Latest(s, K, m) =>
              Latest(Tail(s), K, m) \/ (m = Head(s) /\ ~Some(Tail(s), K))
  <1> DEFINE t == Tail(s)
             n == Len(s)
  <1>1. n \in Nat \ {0} /\ DOMAIN s = 1 .. n /\ s[1] \in S
      BY LenProperties, EmptySeq, ElementOfSeq
  <1>2. /\ Head(s) = s[1] /\ t \in Seq(S) /\ Len(t) = n - 1
        /\ \A k \in 1 .. n - 1 : t[k] = s[k + 1]
      BY HeadTailProperties
  <1>3. DOMAIN t = 1 .. n - 1
      BY <1>2, LenProperties
  <1> HIDE DEF t, n
  <1>4. \A k \in 1 .. n : k # 1 => k - 1 \in 1 .. n - 1 /\ s[k] = t[k - 1]
      BY <1>1, <1>2
  <1>5. Range(s) = {Head(s)} \cup Range(t)
    <2>1. \A k \in 1 .. n : s[k] = Head(s) \/ \E j \in 1 .. n - 1 : t[j] = s[k]
        BY <1>2, <1>4
    <2>2. \A j \in 1 .. n - 1 : j + 1 \in 1 .. n /\ t[j] = s[j + 1]
        BY <1>1, <1>2
    <2>3. Range(s) = {s[k] : k \in 1 .. n} /\ Range(t) = {t[j] : j \in 1 .. n - 1}
        BY <1>1, <1>3 DEF Range
    <2>4. 1 \in 1 .. n
        BY <1>1
    <2>5. QED
        BY <1>2, <2>1, <2>2, <2>3, <2>4
  <1>6. ASSUME NEW K, NEW m, Latest(s, K, m)
        PROVE  Latest(t, K, m) \/ (m = Head(s) /\ ~Some(t, K))
    <2>1. PICK k \in 1 .. n : s[k] = m /\ m.kind \in K /\ \A j \in 1 .. n : j > k => s[j].kind \notin K
        BY <1>1, <1>6 DEF Latest
    <2>2. \A j \in 1 .. n - 1 : j + 1 > k => t[j].kind \notin K
        BY <1>1, <1>2, <2>1
    <2>3. CASE k = 1
        BY <1>1, <1>2, <1>3, <2>1, <2>2, <2>3 DEF Some, Range
    <2>4. CASE k # 1
      <3>1. k - 1 \in DOMAIN t /\ t[k - 1] = m
          BY <1>3, <1>4, <2>1, <2>4
      <3>2. \A j \in DOMAIN t : j > k - 1 => t[j].kind \notin K
          BY <1>1, <1>3, <2>2
      <3>3. QED
          BY <2>1, <3>1, <3>2 DEF Latest
    <2>5. QED
        BY <2>3, <2>4
  <1>7. QED
      BY <1>1, <1>2, <1>5, <1>6 DEF t

-----------------------------------------------------------------------------
(* The list of the servers. *)

(* A finite set of ids has a greatest.                                     *)
LEMMA HasGreatest ==
  ASSUME NEW G \in SUBSET Nat, IsFiniteSet(G), G # {}
  PROVE  \E m \in G : \A x \in G : x <= m
  <1> DEFINE Top(H) == \E m \in H : \A x \in H : x <= m
             Bad == {H \in FiniteSubsetsOf(G) : H # {} /\ ~Top(H)}
  <1>1. SUFFICES ASSUME Bad # {} PROVE FALSE
      BY DEF FiniteSubsetsOf
  <1>2. PICK H \in Bad : \A K \in Bad : <<K, H>> \notin StrictSubsetOrdering(G)
    <2>1. IsWellFoundedOn(StrictSubsetOrdering(G), FiniteSubsetsOf(G))
        BY FS_StrictSubsetOrderingWellFounded
    <2>2. Bad \subseteq FiniteSubsetsOf(G)
        OBVIOUS
    <2> HIDE DEF Bad
    <2>3. QED
        BY <1>1, <2>1, <2>2, WFMin
  <1>3. H \subseteq G /\ IsFiniteSet(H) /\ H # {} /\ ~Top(H)
      BY <1>2 DEF FiniteSubsetsOf
  <1>4. PICK x \in H : TRUE
      BY <1>3
  <1> DEFINE K == H \ {x}
  <1>5. K \in FiniteSubsetsOf(G) /\ <<K, H>> \in StrictSubsetOrdering(G)
      BY <1>3, <1>4, FS_RemoveElement DEF FiniteSubsetsOf, StrictSubsetOrdering
  <1>6. K = {} \/ Top(K)
      BY <1>2, <1>5
  <1>7. H \subseteq Nat
      BY <1>3
  <1>8. CASE K = {}
      BY <1>3, <1>4, <1>7, <1>8
  <1>9. CASE Top(K)
    <2>1. PICK m \in K : \A y \in K : y <= m
        BY <1>9
    <2>2. \A y \in H : y = x \/ y <= m
        BY <2>1
    <2>3. x \in Nat /\ m \in Nat /\ m \in H
        BY <1>4, <1>7, <2>1
    <2>4. \/ \A y \in H : y <= m
          \/ \A y \in H : y <= x
        BY <1>7, <2>2, <2>3
    <2>5. QED
        BY <1>3, <1>4, <2>3, <2>4
  <1>10. QED
      BY <1>6, <1>8, <1>9

(* A finite set of ids has a list in which they ascend.                    *)
LEMMA HasListing ==
  ASSUME NEW G \in SUBSET Nat, IsFiniteSet(G)
  PROVE  \E l \in [1 .. Cardinality(G) -> G] : \A i, j \in DOMAIN l : i < j => l[i] < l[j]
  <1> DEFINE Ascends(H, l) == /\ l \in [1 .. Cardinality(H) -> H]
                              /\ \A i, j \in DOMAIN l : i < j => l[i] < l[j]
             Bad == {H \in FiniteSubsetsOf(G) : ~\E l : Ascends(H, l)}
  <1>1. SUFFICES ASSUME Bad # {} PROVE FALSE
      BY DEF FiniteSubsetsOf
  <1>2. PICK H \in Bad : \A K \in Bad : <<K, H>> \notin StrictSubsetOrdering(G)
    <2>1. IsWellFoundedOn(StrictSubsetOrdering(G), FiniteSubsetsOf(G))
        BY FS_StrictSubsetOrderingWellFounded
    <2>2. Bad \subseteq FiniteSubsetsOf(G)
        OBVIOUS
    <2> HIDE DEF Bad
    <2>3. QED
        BY <1>1, <2>1, <2>2, WFMin
  <1>3. H \in SUBSET Nat /\ H \subseteq G /\ IsFiniteSet(H) /\ ~\E l : Ascends(H, l)
      BY <1>2 DEF FiniteSubsetsOf
  <1>4. CASE H = {}
    <2>1. Cardinality(H) = 0
        BY <1>4, FS_EmptySet
    <2>2. Ascends(H, [i \in 1 .. 0 |-> i])
        BY <2>1
    <2>3. QED
        BY <1>3, <2>2
  <1>5. CASE H # {}
    <2>1. PICK m \in H : \A x \in H : x <= m
        BY <1>3, <1>5, HasGreatest
    <2> DEFINE K == H \ {m}
               n == Cardinality(K)
    <2>2. /\ IsFiniteSet(K) /\ n \in Nat
          /\ Cardinality(H) = n + 1
      <3>1. IsFiniteSet(K) /\ n = Cardinality(H) - 1
          BY <1>3, FS_RemoveElement
      <3>2. n \in Nat /\ Cardinality(H) \in Nat
          BY <1>3, <3>1, FS_CardinalityType
      <3>3. QED
          BY <3>1, <3>2
    <2>3. K \in FiniteSubsetsOf(G) /\ <<K, H>> \in StrictSubsetOrdering(G)
        BY <1>3, <2>2 DEF FiniteSubsetsOf, StrictSubsetOrdering
    <2>4. PICK l : Ascends(K, l)
        BY <1>2, <2>3
    <2>5. l \in [1 .. n -> K] /\ \A i, j \in 1 .. n : i < j => l[i] < l[j]
        BY <2>4
    <2> DEFINE t == [i \in 1 .. n + 1 |-> IF i <= n THEN l[i] ELSE m]
    <2> HIDE DEF n
    <2>6. t \in [1 .. n + 1 -> H]
        BY <2>1, <2>2, <2>5
    <2>7. \A x \in K : x \in Nat /\ m \in Nat /\ x < m
        BY <1>3, <2>1
    <2>8. \A i, j \in 1 .. n + 1 : i < j => i \in 1 .. n /\ (j \in 1 .. n \/ j = n + 1)
        BY <2>2
    <2>9. \A i, j \in 1 .. n + 1 : i < j => t[i] < t[j]
        BY <2>2, <2>5, <2>7, <2>8
    <2>10. Ascends(H, t)
        BY <2>2, <2>6, <2>9
    <2>11. QED
        BY <1>3, <2>10
  <1>6. QED
      BY <1>4, <1>5

(* The server lists servers it has, and as many as it has.                 *)
LEMMA Listing ==
  ASSUME TypeOK
  PROVE  /\ ServerList \in Seq(Servers)
         /\ Len(ServerList) = Cardinality(guilds)
         /\ Cardinality(guilds) \in Nat
  <1>1. guilds \in SUBSET Nat /\ IsFiniteSet(guilds) /\ guilds \subseteq Servers
      BY ServerBrowserAssumption, FS_Subset DEF TypeOK
  <1>2. Cardinality(guilds) \in Nat
      BY <1>1, FS_CardinalityType
  <1>3. ServerList \in [1 .. Cardinality(guilds) -> guilds]
      BY <1>1, HasListing DEF ServerList
  <1> HIDE DEF ServerList
  <1>4. ServerList \in Seq(guilds)
      BY <1>2, <1>3, SeqDef
  <1>5. Len(ServerList) = Cardinality(guilds)
      BY <1>2, <1>3, <1>4, LenProperties
  <1>6. QED
      BY <1>1, <1>2, <1>4, <1>5, SeqMonotonic

(* The client shows as many servers as there are slots for.                *)
LEMMA MinOfTwo ==
  ASSUME NEW a \in Nat, NEW b \in Nat
  PROVE  Min({a, b}) \in Nat /\ Min({a, b}) <= a /\ Min({a, b}) <= b
  <1> DEFINE m == IF a <= b THEN a ELSE b
  <1>1. m \in {a, b} /\ \A y \in {a, b} : m <= y
      OBVIOUS
  <1>2. \A x, y \in {a, b} : x <= y /\ y <= x => x = y
      OBVIOUS
  <1>3. Min({a, b}) \in {a, b} /\ \A y \in {a, b} : Min({a, b}) <= y
      BY <1>1 DEF Min
  <1>4. QED
      BY <1>3

-----------------------------------------------------------------------------
(* The messages. *)

(* What a packet holds, by its kind.                                       *)
LEMMA PacketFields ==
  ASSUME NEW p \in Packets
  PROVE  /\ p.kind = "servers" => p.ids \in Seq(Servers)
         /\ p.kind \in Lists => p.of \in Servers /\ p.any \in BOOLEAN
         /\ p.kind = "reply" => p.to \in Commands /\ p.ok \in BOOLEAN
         /\ p.kind \in Lists \cup {"servers", "reply", "namesake"}
  BY DEF Packets, Lists

(* The packets the server sends are packets.                               *)
LEMMA PacketsTyped ==
  /\ \A l \in Seq(Servers) : [kind |-> "servers", ids |-> l] \in Packets
  /\ \A k \in Lists, s \in Servers, any \in BOOLEAN : [kind |-> k, of |-> s, any |-> any] \in Packets
  /\ \A c \in Commands, ok \in BOOLEAN : [kind |-> "reply", to |-> c, ok |-> ok] \in Packets
  /\ [kind |-> "namesake"] \in Packets
  BY DEF Packets

(* A message of one of the kinds below is not of another.                  *)
LEMMA KindsDiffer ==
  /\ "list" \notin Lists /\ "servers" \notin Lists /\ "reply" \notin Lists
  /\ \A c \in Commands : c \notin Lists /\ c # "list"
  /\ \A c \in SlowKinds : c \in Commands /\ c # "create" /\ c # "leave"
  /\ SlowKinds \cap Lists = {} /\ "list" \notin SlowKinds /\ SlowKinds \cap QuickKinds = {}
  /\ "namesake" \notin Lists /\ "status" \notin Lists \cup QuickKinds
  /\ "servers" # "reply" /\ {"create", "delete"} \subseteq Commands
  BY DEF Lists, Commands, SlowKinds, QuickKinds

(* A client that has just logged in has asked for the servers, and nothing *)
(* is on its way to it.                                                    *)
LEMMA FirstRequest ==
  /\ <<ListRequest>> \in Seq(Requests) /\ Range(<<ListRequest>>) = {ListRequest}
  /\ <<>> \in Seq(Packets) /\ Range(<<>>) = {}
  /\ ListRequest \in Requests
  <1>1. ListRequest \in Requests
      BY DEF ListRequest, Requests
  <1> HIDE DEF ListRequest
  <1>2. <<ListRequest>> \in Seq(Requests)
      BY <1>1
  <1>3. DOMAIN <<ListRequest>> = {1} /\ <<ListRequest>>[1] = ListRequest
      OBVIOUS
  <1>4. Range(<<ListRequest>>) = {ListRequest}
      BY <1>3 DEF Range
  <1>5. Range(<<>>) = {}
      BY DEF Range
  <1>6. QED
      BY <1>1, <1>2, <1>4, <1>5

-----------------------------------------------------------------------------
(* The inductive invariant, initially and after a step. *)

(* The list of servers has been asked for, and there is nothing else.      *)
LEMMA IInvInit == Init => IInv
  <1> SUFFICES ASSUME Init PROVE IInv
      OBVIOUS
  <1>1. up \in Seq(Requests) /\ Range(up) = {ListRequest} /\ down \in Seq(Packets)
      BY FirstRequest DEF Init
  <1>2. TypeOK
    <2>1. slots \in [1 .. MaxSlots -> Slot]
        BY DEF Init, Slot, Blank
    <2>2. count \in 0 .. MaxSlots /\ cursor \in 1 .. MaxSlots /\ active \in 0 .. MaxSlots
        BY ServerBrowserAssumption DEF Init
    <2>3. QED
        BY <1>1, <2>1, <2>2 DEF Init, TypeOK, Slot
  <1>3. ChatHasServer /\ SlotsNamed /\ Entered /\ Unviewed /\ AnswerComes
      BY DEF Init, ChatHasServer, InChat, SlotsNamed, Entered, Unviewed, AnswerComes
  <1>4. RequestsNamed /\ ListingComes
      BY <1>1 DEF Init, RequestsNamed, ListingComes, ListRequest
  <1>5. QED
      BY <1>2, <1>3, <1>4 DEF IInv

(* What is on the links, in typed states.                                  *)
LEMMA LinksTyped ==
  ASSUME TypeOK
  PROVE  /\ up \in Seq(Requests) /\ down \in Seq(Packets)
         /\ slots \in [1 .. MaxSlots -> Slot]
         /\ MaxSlots \in Nat /\ MaxSlots >= 1 /\ None \notin Servers
         /\ count \in Nat /\ cursor \in Nat /\ active \in Nat
  BY ServerBrowserAssumption DEF TypeOK, Slot

(* The servers there are stay, are on their way or are to be asked for, if *)
(* nothing that says so is lost.                                           *)
LEMMA ListingStays ==
  ASSUME ListingComes, UNCHANGED <<guilds, outdated, count>>,
         \A n \in 1 .. count : slots'[n].id = slots[n].id,
         Some(up, {"list"}) => Some(up', {"list"}),
         Some(down', {"servers"}) => Some(down, {"servers"}),
         \A p \in Range(down) : Relists(p) => p \in Range(down') \/ Some(up', {"list"}),
         \A p : Latest(down, {"servers"}, p) => Latest(down', {"servers"}, p)
  PROVE  ListingComes'
  <1>1. ServerList' = ServerList /\ (Shows(ServerList) => Shows(ServerList)')
      BY DEF ServerList, Shows
  <1>2. \A p : Latest(down, {"servers"}, p) =>
          Latest(down', {"servers"}, p) /\ p \in Range(down')
      BY LatestIsThere
  <1> HIDE DEF ServerList, Shows
  <1>3. QED
      BY <1>1, <1>2 DEF ListingComes

(* The keys that send nothing. *)
LEMMA QuietKeyStep ==
  ASSUME IInv, UNCHANGED <<followed, named, crashed>>,
         MoveCursor \/ LeaveChat \/ OpenCommand \/ Cancel \/ TypeCommand
  PROVE  IInv'
  <1> USE DEF IInv
  <1>0. /\ UNCHANGED <<up, down, slots, count, guilds, outdated, viewing, refilled, unheard>>
        /\ waiting' => waiting
      BY DEF MoveCursor, LeaveChat, OpenCommand, Cancel, TypeCommand, server, chosen, window
  <1>1. TypeOK'
    <2>1. cursor' \in 1 .. MaxSlots
        BY LinksTyped DEF TypeOK, MoveCursor, LeaveChat, OpenCommand, Cancel, TypeCommand, chosen
    <2>2. active' \in 0 .. MaxSlots
        BY LinksTyped DEF TypeOK, MoveCursor, LeaveChat, OpenCommand, Cancel, TypeCommand, chosen
    <2>3. screen' \in {"servers", "chat", "command"} /\ previous' \in {"servers", "chat"} /\ waiting' \in BOOLEAN
        BY DEF TypeOK, MoveCursor, LeaveChat, OpenCommand, Cancel, TypeCommand, window
    <2>4. QED
        BY <1>0, <2>1, <2>2, <2>3 DEF TypeOK
  <1>2. ChatHasServer'
      BY DEF ChatHasServer, InChat, TypeOK, MoveCursor, LeaveChat, OpenCommand, Cancel, TypeCommand,
             chosen, window
  <1>3. SlotsNamed'
    <2>1. CASE MoveCursor
      <3>1. cursor' = cursor - 1 \/ (cursor < count /\ cursor' = cursor + 1)
          BY <2>1 DEF MoveCursor
      <3>2. active' = active
          BY <2>1 DEF MoveCursor
      <3>3. \A n \in 1 .. cursor' : n \in 1 .. cursor \/ n \in 1 .. count
          BY <3>1, LinksTyped
      <3>4. cursor' > 1 => cursor > 1 \/ \A n \in 1 .. cursor' : n \in 1 .. count
          BY <3>1, LinksTyped
      <3>5. QED
          BY <1>0, <3>2, <3>3, <3>4 DEF SlotsNamed, Known
    <2>2. CASE ~MoveCursor
        BY <1>0, <2>2 DEF SlotsNamed, Known, LeaveChat, OpenCommand, Cancel, TypeCommand, chosen
    <2>3. QED
        BY <2>1, <2>2
  <1>4. RequestsNamed' /\ Unviewed'
      BY <1>0 DEF RequestsNamed, Unviewed
  <1>5. Entered'
    <2>1. active' \in {0, active}
        BY DEF MoveCursor, LeaveChat, OpenCommand, Cancel, TypeCommand, chosen
    <2>2. QED
        BY <1>0, <2>1 DEF Entered
  <1>6. ListingComes'
      BY <1>0 DEF ListingComes, Shows, ServerList
  <1>7. AnswerComes'
      BY <1>0 DEF AnswerComes
  <1>8. QED
      BY <1>1, <1>2, <1>3, <1>4, <1>5, <1>6, <1>7

(* A request behind the others disturbs nothing but Entered, and that only *)
(* when it asks for another server's lists.                                *)
LEMMA AskStep ==
  ASSUME IInv, NEW r \in Requests, up' = Append(up, r),
         r.kind \notin {"list", "status"} => r.of \in Servers,
         UNCHANGED <<down, slots, count, server, named>>,
         r.kind \in SlowKinds \/ ((waiting' => waiting) /\ unheard' = unheard)
  PROVE  /\ up' \in Seq(Requests) /\ RequestsNamed' /\ ListingComes' /\ AnswerComes'
         /\ r.kind \in Lists => Latest(up', Lists, r) /\ r \in Range(up')
         /\ UNCHANGED <<active, refilled>> /\ r.kind \notin Lists => Entered'
  <1> USE DEF IInv
  <1>1. /\ up' \in Seq(Requests) /\ Range(up') = Range(up) \cup {r}
        /\ \A K : r.kind \in K => Latest(up', K, r)
        /\ \A K, m : r.kind \notin K /\ Latest(up, K, m) => Latest(up', K, m)
      BY LinksTyped, Sent
  <1>2. RequestsNamed'
      BY <1>1 DEF RequestsNamed
  <1>3. ListingComes'
      BY <1>1 DEF ListingComes, Shows, ServerList, Some, server
  <1>4. AnswerComes'
      BY <1>1 DEF AnswerComes, Some
  <1>5. ASSUME UNCHANGED <<active, refilled>>, r.kind \notin Lists PROVE Entered'
      BY <1>1, <1>5 DEF Entered, Some, server
  <1>6. QED
      BY <1>1, <1>2, <1>3, <1>4, <1>5

(* F2 on the server list, and ENTER. *)
LEMMA AskingKeyStep ==
  ASSUME IInv, UNCHANGED <<followed, named, crashed>>, Refresh \/ Enter
  PROVE  IInv'
  <1> USE DEF IInv
  <1>1. CASE Refresh
    <2>1. /\ up' = Append(up, ListRequest)
          /\ UNCHANGED <<server, down, slots, count, chosen, window>>
        BY <1>1 DEF Refresh, Asks
    <2>2. ListRequest.kind = "list" /\ ListRequest.kind \notin Lists
        BY DEF ListRequest, Lists
    <2>3. /\ up' \in Seq(Requests) /\ RequestsNamed' /\ ListingComes' /\ AnswerComes' /\ Entered'
        BY <2>1, <2>2, FirstRequest, AskStep DEF window, chosen
    <2>4. TypeOK' /\ ChatHasServer' /\ SlotsNamed' /\ Unviewed'
        BY <2>1, <2>3
           DEF TypeOK, ChatHasServer, InChat, SlotsNamed, Known, Unviewed, server, chosen, window
    <2>5. QED
        BY <2>3, <2>4
  <1>2. CASE Enter
    <2> DEFINE r == [kind |-> followed, of |-> slots[cursor].id]
    <2>1. /\ up' = Append(up, r) /\ count > 0
          /\ active' = cursor /\ refilled' = FALSE /\ screen' = "chat"
          /\ UNCHANGED <<server, down, slots, count, cursor, previous, waiting, unheard>>
        BY <1>2 DEF Enter, Asks
    <2>2. cursor \in 1 .. MaxSlots /\ Known(cursor)
      <3>1. cursor \in 1 .. MaxSlots
          BY DEF TypeOK
      <3>2. cursor = 1 => cursor \in 1 .. count
          BY <2>1, LinksTyped
      <3>3. cursor # 1 => cursor > 1 /\ cursor \in 1 .. cursor
          BY <3>1, LinksTyped
      <3>4. QED
          BY <3>1, <3>2, <3>3 DEF SlotsNamed
    <2>3. followed \in Lists /\ slots[cursor].id \in Servers
        BY <2>2 DEF TypeOK, Known
    <2>4. r \in Requests /\ r.kind \in Lists /\ r.of = slots[cursor].id
        BY <2>3 DEF Requests
    <2> HIDE DEF r
    <2>5. /\ up' \in Seq(Requests) /\ RequestsNamed' /\ ListingComes' /\ AnswerComes'
          /\ Latest(up', Lists, r) /\ r \in Range(up')
        BY <2>1, <2>3, <2>4, AskStep
    <2>6. Entered'
        BY <2>1, <2>4, <2>5 DEF Entered
    <2>7. TypeOK'
      <3>1. active' \in 0 .. MaxSlots
          BY <2>1, <2>2, LinksTyped
      <3>2. QED
          BY <2>1, <2>5, <3>1 DEF TypeOK, server
    <2>8. ChatHasServer' /\ Unviewed'
        BY <2>1, <2>2, LinksTyped DEF ChatHasServer, InChat, Unviewed, server
    <2>9. SlotsNamed'
        BY <2>1, <2>2 DEF SlotsNamed, Known
    <2>10. QED
        BY <2>5, <2>6, <2>7, <2>8, <2>9
  <1>3. QED
      BY <1>1, <1>2

(* The commands. *)
LEMMA CommandStep ==
  ASSUME IInv, UNCHANGED <<followed, named, crashed>>, NEW s \in Servers, NEW kind,
         \/ kind \in QuickKinds /\ QuickCommand(kind, s)
         \/ kind \in SlowKinds /\ SlowCommand(kind, s)
  PROVE  IInv'
  <1> USE DEF IInv
  <1> DEFINE r == [kind |-> kind, of |-> IF kind = "status" THEN None ELSE s]
  <1>1. /\ up' = Append(up, r)
        /\ UNCHANGED <<server, down, slots, count, chosen, previous>>
        /\ \/ screen = "command" /\ screen' = previous /\ waiting' = FALSE /\ unheard' = unheard
           \/ kind \in SlowKinds /\ screen' = screen /\ waiting' = TRUE /\ unheard' = FALSE
      BY KindsDiffer DEF QuickCommand, SlowCommand, Asks
  <1>2. r \in Requests /\ r.kind = kind /\ (kind # "status" => r.of = s) /\ r.kind \notin Lists
      BY KindsDiffer DEF Requests, Commands
  <1> HIDE DEF r
  <1>3. up' \in Seq(Requests) /\ RequestsNamed' /\ ListingComes' /\ AnswerComes' /\ Entered'
      BY <1>1, <1>2, AskStep DEF chosen
  <1>4. TypeOK'
      BY <1>1, <1>3 DEF TypeOK, server, chosen
  <1>5. ChatHasServer' /\ SlotsNamed' /\ Unviewed'
      BY <1>1 DEF ChatHasServer, InChat, SlotsNamed, Known, Unviewed, server, chosen
  <1>6. QED
      BY <1>3, <1>4, <1>5

-----------------------------------------------------------------------------
(* The server's steps. *)

(* A list of the servers is the newest, and as it is unless it is cut      *)
(* short.                                                                  *)
LEMMA HandleListStep ==
  ASSUME IInv, UNCHANGED <<followed, named, crashed>>, HandleList
  PROVE  IInv'
  <1> USE DEF IInv
  <1>0. PICK n \in 0 .. Cardinality(guilds) :
          /\ down' = Append(down, [kind |-> "servers", ids |-> SubSeq(ServerList, 1, n)])
          /\ outdated' = (n < Cardinality(guilds))
      BY DEF HandleList, Sends
  <1> DEFINE ids == SubSeq(ServerList, 1, n)
             p == [kind |-> "servers", ids |-> ids]
  <1>1. /\ up # <<>> /\ Head(up).kind = "list" /\ up' = Tail(up)
        /\ down' = Append(down, p)
        /\ UNCHANGED <<guilds, viewing, slots, count, chosen, window>>
      BY <1>0 DEF HandleList, Handles
  <1>2. /\ up' \in Seq(Requests) /\ Range(up) = {Head(up)} \cup Range(up')
        /\ \A K, m : Latest(up, K, m) => Latest(up', K, m) \/ (m = Head(up) /\ ~Some(up', K))
      BY <1>1, LinksTyped, Taken
  <1>3. ids \in Seq(Servers) /\ (outdated' \/ ids = ServerList)
    <2> DEFINE L == ServerList
               c == Cardinality(guilds)
    <2>1. L \in Seq(Servers) /\ Len(L) = c
        BY Listing
    <2>2. n \in 0 .. c /\ (outdated' <=> n < c)
        BY <1>0
    <2> HIDE DEF L, c
    <2>3. c \in Nat
        BY <2>1, LenProperties
    <2>4. n \in Nat /\ n <= c /\ (outdated' \/ n = Len(L))
        BY <2>1, <2>2, <2>3
    <2>5. \A i \in 1 .. n : L[i] \in Servers
        BY <2>1, <2>3, <2>4, ElementOfSeq
    <2>6. SubSeq(L, 1, n) \in Seq(Servers)
        BY <2>1, <2>4, <2>5, SubSeqProperties
    <2>7. SubSeq(L, 1, Len(L)) = L
        BY <2>1, SubSeqFull
    <2>8. QED
        BY <2>4, <2>6, <2>7 DEF L
  <1> HIDE DEF ids
  <1>3a. p \in Packets /\ p.kind = "servers" /\ p.ids = ids
      BY <1>3, PacketsTyped
  <1> HIDE DEF p
  <1>4. /\ down' \in Seq(Packets) /\ Range(down') = Range(down) \cup {p}
        /\ \A K : p.kind \in K => Latest(down', K, p)
        /\ \A K, m : p.kind \notin K /\ Latest(down, K, m) => Latest(down', K, m)
      BY <1>1, <1>3a, LinksTyped, Sent
  <1>5. TypeOK' /\ ChatHasServer' /\ SlotsNamed' /\ Unviewed'
    <2>1. TypeOK'
        BY <1>0, <1>1, <1>2, <1>4 DEF TypeOK, chosen, window
    <2>2. QED
        BY <1>1, <2>1 DEF ChatHasServer, InChat, SlotsNamed, Known, Unviewed, chosen, window
  <1>6. RequestsNamed' /\ AnswerComes'
      BY <1>1, <1>2, <1>4, KindsDiffer DEF RequestsNamed, AnswerComes, Some, window
  <1>7. ListingComes'
    <2>1. ServerList' = ServerList
        BY <1>1 DEF ServerList
    <2>2. Latest(down', {"servers"}, p) /\ p \in Range(down')
        BY <1>3a, <1>4
    <2>3. QED
        BY <1>3, <1>3a, <2>1, <2>2 DEF ListingComes
  <1>8. Entered'
    <2>1. Head(up).kind \notin Lists /\ p.kind \notin Lists
        BY <1>1, <1>3a, KindsDiffer
    <2>2. \A m : Latest(up, Lists, m) => Latest(up', Lists, m) /\ m \in Range(up')
        BY <1>2, <2>1, LatestIsThere
    <2>3. \A m : Latest(down, Lists, m) => Latest(down', Lists, m)
        BY <1>4, <2>1
    <2>4. (Some(up', Lists) => Some(up, Lists)) /\ (Some(down', Lists) => Some(down, Lists))
        BY <1>2, <1>4, <2>1 DEF Some
    <2>5. UNCHANGED <<slots, active, count, refilled, viewing>>
        BY <1>1 DEF chosen
    <2>6. QED
        BY <1>4, <2>2, <2>3, <2>4, <2>5 DEF Entered
  <1>9. QED
      BY <1>2, <1>4, <1>5, <1>6, <1>7, <1>8

(* The lists asked for go behind everything else; who asked for members    *)
(* views that server from now on.                                          *)
LEMMA HandleDetailsStep ==
  ASSUME IInv, UNCHANGED <<followed, named, crashed>>, HandleDetails(followed)
  PROVE  IInv'
  <1> USE DEF IInv
  <1> DEFINE r == Head(up)
  <1>1. PICK any \in BOOLEAN :
          /\ up # <<>> /\ r.kind = followed /\ up' = Tail(up)
          /\ down' = Append(down, [kind |-> followed, of |-> r.of, any |-> any])
      BY DEF HandleDetails, Handles, Sends
  <1>2. /\ viewing' = IF followed = "members" THEN r.of ELSE viewing
        /\ UNCHANGED <<guilds, outdated, slots, count, chosen, window>>
      BY DEF HandleDetails
  <1>3. /\ r \in Requests
        /\ up' \in Seq(Requests) /\ Range(up) = {r} \cup Range(up')
        /\ \A K, m : Latest(up, K, m) => Latest(up', K, m) \/ (m = r /\ ~Some(up', K))
      BY <1>1, LinksTyped, Taken
  <1>4. followed \in Lists /\ r.of \in Servers
      BY <1>1, <1>3, KindsDiffer DEF RequestsNamed, TypeOK
  <1> DEFINE p == [kind |-> followed, of |-> r.of, any |-> any]
  <1>5. p \in Packets /\ p.kind \in Lists /\ p.of = r.of
      BY <1>4, PacketsTyped
  <1>6. down' = Append(down, p)
      BY <1>1
  <1> HIDE DEF p, r
  <1>7. /\ down' \in Seq(Packets) /\ Range(down') = Range(down) \cup {p}
        /\ \A K : p.kind \in K => Latest(down', K, p)
        /\ \A K, m : p.kind \notin K /\ Latest(down, K, m) => Latest(down', K, m)
      BY <1>5, <1>6, LinksTyped, Sent
  <1>8. TypeOK'
      BY <1>2, <1>3, <1>4, <1>7 DEF TypeOK, chosen, window
  <1>9. ChatHasServer' /\ SlotsNamed' /\ Unviewed'
      BY <1>2, <1>4 DEF ChatHasServer, InChat, SlotsNamed, Known, Unviewed, chosen, window
  <1>10. RequestsNamed' /\ AnswerComes'
      BY <1>1, <1>2, <1>3, <1>4, <1>7, KindsDiffer DEF RequestsNamed, AnswerComes, Some, window
  <1>11. ListingComes'
    <2>1. r.kind # "list" /\ p.kind # "servers"
        BY <1>1, <1>4, <1>5, KindsDiffer
    <2>2. /\ Some(up, {"list"}) => Some(up', {"list"})
          /\ Some(down', {"servers"}) => Some(down, {"servers"})
        BY <1>3, <1>7, <2>1 DEF Some
    <2>3. \A m : Latest(down, {"servers"}, m) => Latest(down', {"servers"}, m)
        BY <1>7, <2>1
    <2>4. UNCHANGED <<guilds, outdated, slots, count>>
        BY <1>2
    <2>5. QED
        BY <1>7, <2>2, <2>3, <2>4, ListingStays
  <1>12. Entered'
    <2> SUFFICES ASSUME active \in 1 .. count, ~refilled,
                        ~\E m \in Range(up') : Latest(up', Lists, m) /\ m.of = slots[active].id
                 PROVE  /\ ~Some(up', Lists)
                        /\ viewing' \in {None, slots[active].id}
                        /\ \E m \in Range(down') : Latest(down', Lists, m) /\ m.of = slots[active].id
        BY <1>2 DEF Entered, chosen
    <2>1. Some(up, Lists)
        BY <1>1, <1>3, <1>4 DEF Some
    <2>2. PICK m \in Range(up) : Latest(up, Lists, m) /\ m.of = slots[active].id
        BY <2>1 DEF Entered
    <2>3. m = r /\ ~Some(up', Lists)
        BY <1>3, <2>2, LatestIsThere
    <2>4. p.of = slots[active].id /\ Latest(down', Lists, p) /\ p \in Range(down')
        BY <1>5, <1>7, <2>2, <2>3
    <2>5. viewing' \in {None, slots[active].id}
        BY <1>2, <1>4, <2>2, <2>3 DEF Unviewed, Lists
    <2>6. QED
        BY <2>3, <2>4, <2>5
  <1>13. QED
      BY <1>8, <1>9, <1>10, <1>11, <1>12

(* What the server sends unasked is about the server this client views.    *)
LEMMA PushStep ==
  ASSUME IInv, UNCHANGED <<followed, named, crashed>>, PushMembers
  PROVE  IInv'
  <1> USE DEF IInv
  <1> DEFINE p == [kind |-> "members", of |-> viewing, any |-> TRUE]
  <1>1. /\ viewing # None /\ down' = Append(down, p)
        /\ UNCHANGED <<server, up, slots, count, chosen, window>>
      BY DEF PushMembers, Sends
  <1>2. p \in Packets /\ p.kind = "members" /\ p.of = viewing /\ "members" \in Lists
      BY <1>1, PacketsTyped DEF TypeOK, Lists
  <1> HIDE DEF p
  <1>3. /\ down' \in Seq(Packets) /\ Range(down') = Range(down) \cup {p}
        /\ \A K : p.kind \in K => Latest(down', K, p)
        /\ \A K, m : p.kind \notin K /\ Latest(down, K, m) => Latest(down', K, m)
      BY <1>1, <1>2, LinksTyped, Sent
  <1>4. TypeOK'
      BY <1>1, <1>3 DEF TypeOK, server, chosen, window
  <1>5. ChatHasServer' /\ SlotsNamed' /\ Unviewed' /\ RequestsNamed'
      BY <1>1
         DEF ChatHasServer, InChat, SlotsNamed, Known, Unviewed, RequestsNamed, server, chosen, window
  <1>6. AnswerComes'
      BY <1>1, <1>3 DEF AnswerComes, window
  <1>7. ListingComes'
    <2>1. p.kind \notin {"servers"}
        BY <1>2
    <2>2. Some(down', {"servers"}) => Some(down, {"servers"})
        BY <1>3, <2>1 DEF Some
    <2>3. \A m : Latest(down, {"servers"}, m) => Latest(down', {"servers"}, m)
        BY <1>3, <2>1
    <2>4. UNCHANGED <<guilds, outdated, slots, count, up>>
        BY <1>1 DEF server
    <2>5. QED
        BY <1>3, <2>2, <2>3, <2>4, ListingStays
  <1>8. Entered'
    <2>1. UNCHANGED <<active, count, refilled, slots, up, viewing>>
        BY <1>1 DEF server, chosen
    <2>2. Latest(down', Lists, p) /\ p \in Range(down')
        BY <1>2, <1>3
    <2>3. QED
        BY <1>1, <1>2, <2>1, <2>2 DEF Entered
  <1>9. QED
      BY <1>3, <1>4, <1>5, <1>6, <1>7, <1>8

(* Somebody else's new status is not about the servers.                    *)
LEMMA PushNamesakeStep ==
  ASSUME IInv, UNCHANGED <<followed, named, crashed>>, PushNamesake
  PROVE  IInv'
  <1> USE DEF IInv
  <1> DEFINE p == [kind |-> "namesake"]
  <1>1. /\ down' = Append(down, p)
        /\ UNCHANGED <<server, up, slots, count, chosen, window>>
      BY DEF PushNamesake, Sends
  <1>2. p \in Packets /\ p.kind = "namesake" /\ p.kind \notin Lists
      BY PacketsTyped, KindsDiffer
  <1> HIDE DEF p
  <1>3. /\ down' \in Seq(Packets) /\ Range(down') = Range(down) \cup {p}
        /\ \A K, m : p.kind \notin K /\ Latest(down, K, m) => Latest(down', K, m)
      BY <1>1, <1>2, LinksTyped, Sent
  <1>4. TypeOK'
      BY <1>1, <1>3 DEF TypeOK, server, chosen, window
  <1>5. ChatHasServer' /\ SlotsNamed' /\ Unviewed' /\ RequestsNamed'
      BY <1>1
         DEF ChatHasServer, InChat, SlotsNamed, Known, Unviewed, RequestsNamed, server, chosen, window
  <1>6. AnswerComes'
      BY <1>1, <1>3 DEF AnswerComes, window
  <1>7. ListingComes'
    <2>1. p.kind \notin {"servers"}
        BY <1>2
    <2>2. Some(down', {"servers"}) => Some(down, {"servers"})
        BY <1>3, <2>1 DEF Some
    <2>3. \A m : Latest(down, {"servers"}, m) => Latest(down', {"servers"}, m)
        BY <1>3, <2>1
    <2>4. UNCHANGED <<guilds, outdated, slots, count, up>>
        BY <1>1 DEF server
    <2>5. QED
        BY <1>3, <2>2, <2>3, <2>4, ListingStays
  <1>8. Entered'
    <2>1. UNCHANGED <<active, count, refilled, slots, up, viewing>>
        BY <1>1 DEF server, chosen
    <2>2. \A m : Latest(down, Lists, m) => Latest(down', Lists, m) /\ m \in Range(down')
        BY <1>2, <1>3, LatestIsThere
    <2>3. Some(down', Lists) => Some(down, Lists)
        BY <1>2, <1>3 DEF Some
    <2>4. QED
        BY <2>1, <2>2, <2>3 DEF Entered
  <1>9. QED
      BY <1>3, <1>4, <1>5, <1>6, <1>7, <1>8

(* A command is answered, and its answer has the servers listed anew if it *)
(* changed them, or else the last list is outdated.                        *)
LEMMA Answered ==
  ASSUME IInv, UNCHANGED <<followed, named, crashed, slots, count, chosen, window>>,
         NEW kind \in Commands, NEW ok \in BOOLEAN, Handles(kind), Answer(kind, ok),
         viewing' \in {None, viewing}, guilds' \subseteq Servers,
         \/ outdated' = TRUE
         \/ outdated' = outdated /\ (guilds' = guilds \/ (ok /\ kind \in {"create", "delete"}))
  PROVE  IInv'
  <1> USE DEF IInv
  <1> DEFINE r == Head(up)
             p(b) == [kind |-> "reply", to |-> kind, ok |-> b]
  <1>1. up # <<>> /\ r.kind = kind /\ up' = Tail(up)
      BY DEF Handles
  <1>2. down' = Append(down, p(ok))
      BY DEF Answer, Sends
  <1>3. /\ r \in Requests
        /\ up' \in Seq(Requests) /\ Range(up) = {r} \cup Range(up')
        /\ \A K, m : Latest(up, K, m) => Latest(up', K, m) \/ (m = r /\ ~Some(up', K))
      BY <1>1, LinksTyped, Taken
  <1>4. r.kind # "list" /\ r.kind \notin Lists
      BY <1>1, <1>3, KindsDiffer
  <1> DEFINE q == p(ok)
  <1>5. q \in Packets /\ q.kind = "reply" /\ q.to = kind /\ q.ok = ok /\ down' = Append(down, q)
      BY <1>2, PacketsTyped
  <1> HIDE DEF p, q, r
  <1>6. /\ down' \in Seq(Packets) /\ Range(down') = Range(down) \cup {q}
        /\ \A K, m : q.kind \notin K /\ Latest(down, K, m) => Latest(down', K, m)
      BY <1>5, LinksTyped, Sent
  <1>7. outdated' = TRUE \/ (outdated' = outdated /\ (guilds' = guilds \/ Relists(q)))
      BY <1>5 DEF Relists
  <1>8. TypeOK'
      BY <1>3, <1>6 DEF TypeOK, chosen, window
  <1>9. ChatHasServer' /\ SlotsNamed' /\ Unviewed'
      BY DEF ChatHasServer, InChat, SlotsNamed, Known, Unviewed, chosen, window
  <1>10. RequestsNamed' /\ AnswerComes'
      BY <1>1, <1>3, <1>5, <1>6 DEF RequestsNamed, AnswerComes, Some, window
  <1>11. ListingComes'
    <2>1. CASE outdated' = TRUE \/ Relists(q)
        BY <1>6, <2>1 DEF ListingComes
    <2>2. CASE outdated' = outdated /\ guilds' = guilds
      <3>1. /\ Some(up, {"list"}) => Some(up', {"list"})
            /\ Some(down', {"servers"}) => Some(down, {"servers"})
          BY <1>3, <1>4, <1>5, <1>6 DEF Some
      <3>2. \A m : Latest(down, {"servers"}, m) => Latest(down', {"servers"}, m)
          BY <1>5, <1>6
      <3>3. QED
          BY <1>6, <2>2, <3>1, <3>2, ListingStays
    <2>3. QED
        BY <1>7, <2>1, <2>2
  <1>12. Entered'
    <2>1. \A m : Latest(up, Lists, m) => Latest(up', Lists, m) /\ m \in Range(up')
        BY <1>3, <1>4, LatestIsThere
    <2>2. \A m : Latest(down, Lists, m) => Latest(down', Lists, m)
        BY <1>5, <1>6, KindsDiffer
    <2>3. (Some(up', Lists) => Some(up, Lists)) /\ (Some(down', Lists) => Some(down, Lists))
        BY <1>3, <1>5, <1>6, KindsDiffer DEF Some
    <2>4. UNCHANGED <<slots, active, count, refilled>>
        BY DEF chosen
    <2>5. QED
        BY <1>6, <2>1, <2>2, <2>3, <2>4 DEF Entered
  <1>13. QED
      BY <1>3, <1>6, <1>8, <1>9, <1>10, <1>11, <1>12

(* The commands, one by one.                                               *)
LEMMA HandleCommandStep ==
  ASSUME IInv, UNCHANGED <<followed, named, crashed>>,
         HandleCreate \/ HandleLeave \/ HandleDelete \/ HandleChannel \/ HandleKick \/ HandleStatus
  PROVE  IInv'
  <1>1. guilds \subseteq Servers /\ {"create", "leave", "newChannel", "dropChannel", "kick", "status"}
                                    \subseteq Commands
      BY DEF IInv, TypeOK, Commands, QuickKinds, SlowKinds
  <1>2. CASE HandleCreate
    <2>1. Handles("create") /\ viewing' = viewing /\ UNCHANGED <<slots, count, chosen, window>>
        BY <1>2 DEF HandleCreate
    <2>2. Head(up).of \in Servers
      <3>1. up # <<>> /\ Head(up).kind = "create"
          BY <2>1 DEF Handles
      <3>2. Head(up) \in Range(up)
          BY <3>1, LinksTyped, Taken DEF IInv
      <3>3. QED
          BY <3>1, <3>2 DEF IInv, RequestsNamed
    <2>3. PICK ok \in BOOLEAN :
            /\ Answer("create", ok) /\ guilds' \subseteq Servers
            /\ outdated' = TRUE \/ (outdated' = outdated /\ (guilds' = guilds \/ ok))
        BY <1>1, <1>2, <2>2 DEF HandleCreate
    <2>4. QED
        BY <1>1, <2>1, <2>3, Answered
  <1>3. CASE HandleLeave
    <2>1. /\ Handles("leave") /\ viewing' \in {None, viewing}
          /\ UNCHANGED <<guilds, outdated, slots, count, chosen, window>>
        BY <1>3 DEF HandleLeave
    <2>2. PICK ok \in BOOLEAN : Answer("leave", ok)
        BY <1>3 DEF HandleLeave
    <2>3. QED
        BY <1>1, <2>1, <2>2, Answered
  <1>4. CASE HandleDelete
    <2>1. Handles("delete") /\ UNCHANGED <<viewing, outdated, slots, count, chosen, window>>
        BY <1>4 DEF HandleDelete
    <2>2. PICK ok \in BOOLEAN :
            Answer("delete", ok) /\ guilds' \subseteq guilds /\ (ok \/ guilds' = guilds)
        BY <1>4 DEF HandleDelete
    <2>3. QED
        BY <1>1, <2>1, <2>2, KindsDiffer, Answered
  <1>5. ASSUME NEW kind \in Commands, AnswersInside(kind) PROVE IInv'
    <2>1. Handles(kind) /\ UNCHANGED <<server, slots, count, chosen, window>>
        BY <1>5 DEF AnswersInside
    <2>2. PICK ok \in BOOLEAN : Answer(kind, ok)
        BY <1>5 DEF AnswersInside
    <2>3. QED
        BY <1>1, <2>1, <2>2, Answered DEF server
  <1>6. CASE HandleStatus
    <2>1. Handles("status") /\ UNCHANGED <<server, slots, count, chosen, window>>
        BY <1>6 DEF HandleStatus
    <2>2. PICK ok \in BOOLEAN : Answer("status", ok)
        BY <1>6 DEF HandleStatus
    <2>3. QED
        BY <1>1, <2>1, <2>2, Answered DEF server
  <1>7. QED
      BY <1>1, <1>2, <1>3, <1>4, <1>5, <1>6 DEF HandleChannel, HandleKick

(* What others do is not announced, and not promised to be shown.          *)
LEMMA OthersStep ==
  ASSUME IInv, UNCHANGED <<followed, named, crashed>>, NEW s \in Servers, OthersAct(s)
  PROVE  IInv'
  <1> USE DEF IInv
  <1>1. /\ guilds' \subseteq Servers /\ outdated' = TRUE
        /\ UNCHANGED <<viewing, up, down, slots, count, chosen, window>>
      BY DEF OthersAct, TypeOK
  <1>2. TypeOK'
      BY <1>1 DEF TypeOK, chosen, window
  <1>3. QED
      BY <1>1, <1>2
         DEF ChatHasServer, InChat, SlotsNamed, Known, RequestsNamed, Unviewed, Entered, ListingComes,
             AnswerComes, chosen, window

-----------------------------------------------------------------------------
(* The packets the client processes. *)

(* The slots of a list are named by it and not those of the chat any more. *)
LEMMA ReceiveServersStep ==
  ASSUME IInv, UNCHANGED <<followed, named, crashed>>, ReceiveServers
  PROVE  IInv'
  <1> USE DEF IInv
  <1> DEFINE p == Head(down)
             ids == p.ids
             n == Min({MaxSlots, Len(ids)})
  <1>1. /\ down # <<>> /\ p.kind = "servers" /\ down' = Tail(down)
        /\ count' = n
        /\ slots' = [k \in 1 .. MaxSlots |-> IF k <= n THEN [Blank EXCEPT !.id = ids[k]] ELSE slots[k]]
        /\ refilled' = (refilled \/ active \in 1 .. n)
        /\ UNCHANGED <<server, up, cursor, active, window>>
      BY DEF ReceiveServers, Gets
  <1>2. /\ p \in Packets
        /\ down' \in Seq(Packets) /\ Range(down) = {p} \cup Range(down')
        /\ \A K, m : Latest(down, K, m) => Latest(down', K, m) \/ (m = p /\ ~Some(down', K))
      BY <1>1, LinksTyped, Taken
  <1>3. ids \in Seq(Servers)
      BY <1>1, <1>2, PacketFields
  <1>4. n \in Nat /\ n <= MaxSlots /\ n <= Len(ids) /\ Len(ids) \in Nat
      BY <1>3, LinksTyped, LenProperties, MinOfTwo
  <1> HIDE DEF n
  <1>5. \A k \in 1 .. n : k \in 1 .. MaxSlots /\ ids[k] \in Servers
      BY <1>3, <1>4, LinksTyped, ElementOfSeq
  <1> HIDE DEF p, ids
  <1>6. slots' \in [1 .. MaxSlots -> Slot]
    <2> SUFFICES ASSUME NEW k \in 1 .. MaxSlots
                 PROVE  (IF k <= n THEN [Blank EXCEPT !.id = ids[k]] ELSE slots[k]) \in Slot
        BY <1>1
    <2>1. k <= n => k \in 1 .. n
        BY <1>4, LinksTyped
    <2>2. k <= n => [Blank EXCEPT !.id = ids[k]] \in Slot
        BY <1>5, <2>1 DEF Blank, Slot
    <2>3. QED
        BY <2>2, LinksTyped
  <1>7. /\ \A k \in 1 .. n : slots'[k].id = ids[k] /\ Known(k)'
        /\ \A k \in 1 .. MaxSlots : Known(k) => Known(k)'
    <2>1. \A k \in 1 .. MaxSlots : k <= n => slots'[k].id = ids[k] /\ k \in 1 .. n
        BY <1>1, <1>4, LinksTyped DEF Blank
    <2>2. \A k \in 1 .. MaxSlots : ~(k <= n) => slots'[k] = slots[k]
        BY <1>1
    <2>3. \A k \in 1 .. n : k \in 1 .. MaxSlots /\ k <= n
        BY <1>4, LinksTyped
    <2>4. QED
        BY <1>5, <2>1, <2>2, <2>3 DEF Known
  <1>8. TypeOK'
    <2>1. count' \in 0 .. MaxSlots
        BY <1>1, <1>4, LinksTyped
    <2>2. refilled' \in BOOLEAN
        BY <1>1
    <2>3. QED
        BY <1>1, <1>2, <1>6, <2>1, <2>2 DEF TypeOK, Slot, server, window
  <1>9. SlotsNamed'
    <2>1. /\ \A k \in 1 .. cursor : k \in 1 .. MaxSlots
          /\ active # 0 => active \in 1 .. MaxSlots
        BY LinksTyped DEF TypeOK
    <2>2. QED
        BY <1>1, <1>7, <2>1 DEF SlotsNamed
  <1>10. ChatHasServer' /\ RequestsNamed' /\ Unviewed' /\ Entered'
      BY <1>1 DEF ChatHasServer, InChat, RequestsNamed, Unviewed, Entered, server, window
  <1>11. AnswerComes'
      BY <1>1, <1>2 DEF AnswerComes, window
  <1>12. ListingComes'
    <2> SUFFICES ASSUME ~outdated, ~Some(up, {"list"}),
                        ~\E q \in Range(down') : Relists(q),
                        ~\E q \in Range(down') : Latest(down', {"servers"}, q) /\ q.ids = ServerList
                 PROVE  ~Some(down', {"servers"}) /\ Shows(ServerList)'
        BY <1>1 DEF ListingComes, ServerList, server
    <2>1. ~Relists(p) /\ Some(down, {"servers"})
        BY <1>1, <1>2 DEF Relists, Some
    <2>2. PICK q \in Range(down) : Latest(down, {"servers"}, q) /\ q.ids = ServerList
        BY <1>2, <2>1 DEF ListingComes
    <2>3. q = p /\ ~Some(down', {"servers"})
        BY <1>2, <2>2, LatestIsThere
    <2>4. ids = ServerList /\ ServerList' = ServerList
        BY <1>1, <2>2, <2>3 DEF ids, ServerList, server
    <2>5. count' = Min({MaxSlots, Len(ServerList)}) /\ \A k \in 1 .. count' : slots'[k].id = ServerList[k]
        BY <1>1, <1>7, <2>4 DEF n
    <2>6. QED
        BY <2>3, <2>4, <2>5 DEF Shows
  <1>13. QED
      BY <1>8, <1>9, <1>10, <1>11, <1>12

(* The last lists on their way are those of the slot they go to.           *)
LEMMA ReceiveDetailsStep ==
  ASSUME IInv, UNCHANGED <<followed, named, crashed>>, ReceiveDetails(followed)
  PROVE  IInv'
  <1> USE DEF IInv
  <1> DEFINE p == Head(down)
             any == IF followed = "channels" THEN p.any ELSE slots[active].any
  <1>1. /\ down # <<>> /\ p.kind = followed /\ down' = Tail(down)
        /\ UNCHANGED <<server, up, count, chosen, window>>
      BY DEF ReceiveDetails, Gets
  <1>2. slots' = IF active \in 1 .. count
                 THEN [slots EXCEPT ![active] = [@ EXCEPT !.list = p.of, !.any = any]]
                 ELSE slots
      BY DEF ReceiveDetails
  <1>3. /\ p \in Packets
        /\ down' \in Seq(Packets) /\ Range(down) = {p} \cup Range(down')
        /\ \A K, m : Latest(down, K, m) => Latest(down', K, m) \/ (m = p /\ ~Some(down', K))
      BY <1>1, LinksTyped, Taken
  <1>4. followed \in Lists /\ p.kind \in Lists /\ p.of \in Servers /\ p.any \in BOOLEAN
      BY <1>1, <1>3, PacketFields DEF TypeOK
  <1>5. active \in 1 .. count => active \in 1 .. MaxSlots /\ any \in BOOLEAN
      BY <1>4, LinksTyped DEF TypeOK, Slot
  <1> HIDE DEF p, any
  <1>6. /\ slots' \in [1 .. MaxSlots -> Slot]
        /\ \A k \in 1 .. MaxSlots : slots'[k].id = slots[k].id
        /\ active \in 1 .. count => slots'[active].list = p.of
    <2>1. CASE active \in 1 .. count
      <3>1. [slots[active] EXCEPT !.list = p.of, !.any = any] \in Slot
          BY <1>4, <1>5, <2>1, LinksTyped DEF Slot
      <3>2. QED
          BY <1>2, <1>5, <2>1, <3>1, LinksTyped DEF Slot
    <2>2. CASE active \notin 1 .. count
        BY <1>2, <2>2, LinksTyped
    <2>3. QED
        BY <2>1, <2>2
  <1>7. TypeOK'
      BY <1>1, <1>3, <1>6 DEF TypeOK, Slot, server, chosen, window
  <1>8. SlotsNamed'
    <2>1. /\ \A k \in 1 .. count : k \in 1 .. MaxSlots
          /\ \A k \in 1 .. cursor : k \in 1 .. MaxSlots
          /\ active # 0 => active \in 1 .. MaxSlots
        BY LinksTyped DEF TypeOK
    <2>2. QED
        BY <1>1, <1>6, <2>1 DEF SlotsNamed, Known, chosen
  <1>9. ChatHasServer' /\ RequestsNamed' /\ Unviewed'
      BY <1>1 DEF ChatHasServer, InChat, RequestsNamed, Unviewed, server, chosen, window
  <1>10. p.kind # "servers" /\ p.kind # "reply"
      BY <1>4, KindsDiffer
  <1>11. AnswerComes'
      BY <1>1, <1>3, <1>10 DEF AnswerComes, window
  <1>12. ListingComes'
    <2>1. Some(down', {"servers"}) => Some(down, {"servers"})
        BY <1>3 DEF Some
    <2>2. \A m : Latest(down, {"servers"}, m) => Latest(down', {"servers"}, m)
        BY <1>3, <1>10, LatestIsThere
    <2>3. \A q \in Range(down) : Relists(q) => q \in Range(down')
        BY <1>3, <1>10 DEF Relists
    <2>4. \A k \in 1 .. count : slots'[k].id = slots[k].id
        BY <1>6, LinksTyped DEF TypeOK
    <2>5. UNCHANGED <<guilds, outdated, count, up>>
        BY <1>1 DEF server
    <2>6. QED
        BY <2>1, <2>2, <2>3, <2>4, <2>5, ListingStays
  <1>13. Entered'
    <2> SUFFICES ASSUME active \in 1 .. count, ~refilled,
                        ~\E m \in Range(up) : Latest(up, Lists, m) /\ m.of = slots[active].id
                 PROVE  /\ ~Some(up, Lists)
                        /\ viewing \in {None, slots[active].id}
                        /\ \/ ~Some(down', Lists) /\ slots'[active].list = slots[active].id
                           \/ \E m \in Range(down') : Latest(down', Lists, m) /\ m.of = slots[active].id
        BY <1>1, <1>5, <1>6 DEF Entered, server, chosen
    <2>1. ~Some(up, Lists) /\ viewing \in {None, slots[active].id}
        BY DEF Entered
    <2>2. Some(down, Lists)
        BY <1>3, <1>4 DEF Some
    <2>3. PICK m \in Range(down) : Latest(down, Lists, m) /\ m.of = slots[active].id
        BY <2>2 DEF Entered
    <2>4. CASE Latest(down', Lists, m)
        BY <2>1, <2>3, <2>4, LatestIsThere
    <2>5. CASE m = p /\ ~Some(down', Lists)
        BY <1>6, <2>1, <2>3, <2>5
    <2>6. QED
        BY <1>3, <2>3, <2>4, <2>5
  <1>14. QED
      BY <1>7, <1>8, <1>9, <1>11, <1>12, <1>13

(* What a reply takes off the link matters to ListingComes only if it is   *)
(* one after which the servers are listed anew; a namesake's new status    *)
(* does not.                                                               *)
LEMMA ReplyTaken ==
  ASSUME IInv, down # <<>>, Head(down).kind \in {"reply", "namesake"}, down' = Tail(down),
         UNCHANGED <<followed, crashed, server, slots, count>>
  PROVE  /\ Head(down) \in Packets /\ down' \in Seq(Packets)
         /\ Range(down) = {Head(down)} \cup Range(down')
         /\ (Some(up, {"list"}) => Some(up', {"list"})) /\ (Relists(Head(down)) => Some(up', {"list"}))
              => ListingComes'
         /\ UNCHANGED <<up, active, refilled>> => Entered'
  <1> USE DEF IInv
  <1> DEFINE p == Head(down)
  <1>1. /\ p \in Packets /\ down' \in Seq(Packets) /\ Range(down) = {p} \cup Range(down')
        /\ \A K, m : Latest(down, K, m) => Latest(down', K, m) \/ (m = p /\ ~Some(down', K))
      BY LinksTyped, Taken
  <1> HIDE DEF p
  <1>2. p.kind \notin Lists /\ p.kind \notin {"servers"}
      BY KindsDiffer DEF p
  <1>3. /\ \A m : Latest(down, Lists, m) => Latest(down', Lists, m) /\ m \in Range(down')
        /\ \A m : Latest(down, {"servers"}, m) => Latest(down', {"servers"}, m)
      BY <1>1, <1>2, LatestIsThere
  <1>4. /\ Some(down', Lists) => Some(down, Lists)
        /\ Some(down', {"servers"}) => Some(down, {"servers"})
      BY <1>1 DEF Some
  <1>5. ASSUME Some(up, {"list"}) => Some(up', {"list"}), Relists(p) => Some(up', {"list"})
        PROVE  ListingComes'
    <2>1. \A q \in Range(down) : Relists(q) => q \in Range(down') \/ Some(up', {"list"})
        BY <1>1, <1>5
    <2>2. UNCHANGED <<guilds, outdated, count, slots>>
        BY DEF server
    <2>3. QED
        BY <1>3, <1>4, <1>5, <2>1, <2>2, ListingStays
  <1>6. ASSUME UNCHANGED <<up, active, refilled>> PROVE Entered'
      BY <1>3, <1>4, <1>6 DEF Entered, server
  <1>7. QED
      BY <1>1, <1>5, <1>6 DEF p

(* The chat is left for the server list, whatever window is open.          *)
LEMMA ReceiveLeftStep ==
  ASSUME IInv, UNCHANGED <<followed, named, crashed>>, ReceiveLeft
  PROVE  IInv'
  <1> USE DEF IInv
  <1>1. /\ down # <<>> /\ Head(down).kind = "reply" /\ down' = Tail(down)
        /\ active' = 0 /\ screen' = "servers" /\ waiting' = FALSE
        /\ up' = Append(up, ListRequest)
        /\ UNCHANGED <<server, slots, count, cursor, refilled, previous, unheard>>
      BY DEF ReceiveLeft, Gets
  <1>2. up' \in Seq(Requests) /\ Range(up') = Range(up) \cup {ListRequest} /\ ListRequest.kind = "list"
    <2>1. ListRequest \in Requests
        BY FirstRequest
    <2>2. up' \in Seq(Requests) /\ Range(up') = Range(up) \cup {ListRequest}
        BY <1>1, <2>1, LinksTyped, Sent
    <2>3. QED
        BY <2>2 DEF ListRequest
  <1>3. down' \in Seq(Packets)
      BY <1>1, ReplyTaken
  <1>4. 0 \in 0 .. MaxSlots
      BY LinksTyped
  <1>5. TypeOK'
      BY <1>1, <1>2, <1>3, <1>4 DEF TypeOK, server
  <1>6. ChatHasServer' /\ SlotsNamed' /\ Unviewed' /\ Entered' /\ AnswerComes'
      BY <1>1 DEF ChatHasServer, InChat, SlotsNamed, Known, Unviewed, Entered, AnswerComes, server
  <1>7. RequestsNamed' /\ ListingComes'
      BY <1>2 DEF RequestsNamed, ListingComes, Some
  <1>8. QED
      BY <1>5, <1>6, <1>7

(* What the client asks for after a command is the servers, or the lists   *)
(* of the active one.                                                      *)
LEMMA FollowsUp ==
  ASSUME IInv, NEW kind
  PROVE  \/ up \o FollowUp(kind) = up /\ kind \notin {"create", "delete"}
         \/ \E r \in Requests :
              /\ up \o FollowUp(kind) = Append(up, r)
              /\ r = ListRequest \/ (r.kind \in Lists /\ r.of = slots[active].id /\ active # 0)
              /\ kind \in {"create", "delete"} => r = ListRequest
  <1> USE DEF IInv
  <1>1. up \in Seq(Requests) /\ up \o <<>> = up
      BY LinksTyped, ConcatEmptySeq
  <1>2. \A r \in Requests : up \o <<r>> = Append(up, r)
      BY <1>1, AppendIsConcat
  <1>3. CASE kind \in {"create", "delete"}
    <2>1. FollowUp(kind) = <<ListRequest>>
        BY <1>3 DEF FollowUp
    <2>2. QED
        BY <1>2, <2>1, FirstRequest
  <1>4. CASE kind \notin {"create", "delete"} /\ active = 0
    <2>1. FollowUp(kind) = <<>>
        BY <1>4 DEF FollowUp
    <2>2. QED
        BY <1>1, <1>4, <2>1
  <1>5. CASE kind \notin {"create", "delete"} /\ active # 0
    <2> DEFINE r == [kind |-> ListAfter(kind), of |-> slots[active].id]
    <2>1. FollowUp(kind) = <<r>>
        BY <1>5 DEF FollowUp
    <2>2. slots[active].id \in Servers /\ ListAfter(kind) \in Lists
        BY <1>5 DEF SlotsNamed, Known, ListAfter, Lists
    <2>3. r \in Requests /\ r.kind \in Lists /\ r.of = slots[active].id
        BY <2>2 DEF Requests
    <2> HIDE DEF r
    <2>4. QED
        BY <1>2, <1>5, <2>1, <2>3
  <1>6. QED
      BY <1>3, <1>4, <1>5

(* A command was carried out: what it changed is asked for.                *)
LEMMA ReceiveDoneStep ==
  ASSUME IInv, UNCHANGED <<followed, named, crashed>>, ReceiveDone
  PROVE  IInv'
  <1> USE DEF IInv
  <1> DEFINE p == Head(down)
  <1>1. /\ down # <<>> /\ p.kind = "reply" /\ down' = Tail(down)
        /\ up' = up \o FollowUp(p.to)
        /\ screen' = screen \/ (screen = "command" /\ screen' = previous)
        /\ waiting' = (waiting /\ p.to = "create")
        /\ UNCHANGED <<server, slots, count, chosen, previous, unheard>>
      BY DEF ReceiveDone, Gets, TypeOK
  <1>2. /\ p \in Packets /\ down' \in Seq(Packets) /\ Range(down) = {p} \cup Range(down')
        /\ (Some(up, {"list"}) => Some(up', {"list"})) /\ (Relists(p) => Some(up', {"list"}))
             => ListingComes'
        /\ UNCHANGED <<up, active, refilled>> => Entered'
      BY <1>1, ReplyTaken
  <1> HIDE DEF p
  <1>3. ChatHasServer' /\ SlotsNamed' /\ Unviewed'
      BY <1>1 DEF ChatHasServer, InChat, SlotsNamed, Known, Unviewed, server, chosen
  <1>4. CASE up' = up /\ p.to \notin {"create", "delete"}
    <2>1. TypeOK'
        BY <1>1, <1>2, <1>4 DEF TypeOK, server, chosen
    <2>2. RequestsNamed' /\ ListingComes' /\ Entered'
        BY <1>1, <1>2, <1>4 DEF RequestsNamed, Relists, chosen
    <2>3. AnswerComes'
        BY <1>1, <1>4 DEF AnswerComes
    <2>4. QED
        BY <1>3, <2>1, <2>2, <2>3
  <1>5. ASSUME NEW r \in Requests, up' = Append(up, r),
               r = ListRequest \/ (r.kind \in Lists /\ r.of = slots[active].id /\ active # 0),
               p.to \in {"create", "delete"} => r = ListRequest
        PROVE  IInv'
    <2>1. /\ up' \in Seq(Requests) /\ Range(up') = Range(up) \cup {r}
          /\ \A K : r.kind \in K => Latest(up', K, r)
          /\ \A K, m : r.kind \notin K /\ Latest(up, K, m) => Latest(up', K, m)
        BY <1>5, LinksTyped, Sent
    <2>2. TypeOK'
        BY <1>1, <1>2, <2>1 DEF TypeOK, server, chosen
    <2>3. ListRequest.kind = "list"
        BY DEF ListRequest
    <2>4. RequestsNamed'
        BY <1>5, <2>1, <2>3 DEF RequestsNamed, SlotsNamed, Known
    <2>5. ListingComes'
        BY <1>2, <1>5, <2>1, <2>3 DEF Some, Relists
    <2>6. AnswerComes'
      <3>1. \A q \in Range(down) : q.to \in SlowKinds /\ waiting' => q \in Range(down')
          BY <1>1, <1>2, KindsDiffer
      <3>2. QED
          BY <1>1, <2>1, <3>1 DEF AnswerComes, Some
    <2>7. Entered'
      <3>1. CASE r.kind \in Lists
        <4>1. Latest(up', Lists, r) /\ r \in Range(up') /\ r.of = slots[active].id
            BY <1>5, <2>1, <2>3, <3>1, KindsDiffer
        <4>2. QED
            BY <1>1, <4>1 DEF Entered, chosen
      <3>2. CASE r.kind \notin Lists
        <4>1. Head(down).kind \notin Lists
            BY <1>1, KindsDiffer DEF p
        <4>2. \A m : Latest(down, Lists, m) => Latest(down', Lists, m) /\ m \in Range(down')
            BY <1>1, <4>1, LinksTyped, Taken, LatestIsThere
        <4>3. (Some(up', Lists) => Some(up, Lists)) /\ (Some(down', Lists) => Some(down, Lists))
            BY <1>2, <2>1, <3>2 DEF Some
        <4>4. QED
            BY <1>1, <2>1, <3>2, <4>2, <4>3 DEF Entered, server, chosen
      <3>3. QED
          BY <3>1, <3>2
    <2>8. QED
        BY <1>3, <2>2, <2>4, <2>5, <2>6, <2>7
  <1>6. QED
      BY <1>1, <1>4, <1>5, FollowsUp

(* A command was refused: the window says so.                              *)
LEMMA ReceiveRefusalStep ==
  ASSUME IInv, UNCHANGED <<followed, named, crashed>>, ReceiveRefusal
  PROVE  IInv'
  <1> USE DEF IInv
  <1> DEFINE p == Head(down)
  <1>1. /\ down # <<>> /\ p.kind = "reply" /\ ~p.ok /\ down' = Tail(down)
        /\ waiting' = (waiting /\ p.to \in QuickKinds)
        /\ UNCHANGED <<server, up, slots, count, chosen, screen, previous, unheard>>
      BY DEF ReceiveRefusal, Gets
  <1>2. /\ p \in Packets /\ down' \in Seq(Packets) /\ Range(down) = {p} \cup Range(down')
        /\ ~Relists(p) => ListingComes'
        /\ Entered'
      BY <1>1, ReplyTaken DEF chosen
  <1> HIDE DEF p
  <1>3. ListingComes' /\ Entered'
      BY <1>1, <1>2 DEF Relists
  <1>4. TypeOK'
      BY <1>1, <1>2 DEF TypeOK, server, chosen
  <1>5. ChatHasServer' /\ SlotsNamed' /\ Unviewed' /\ RequestsNamed'
      BY <1>1 DEF ChatHasServer, InChat, SlotsNamed, Known, Unviewed, RequestsNamed, server, chosen
  <1>6. AnswerComes'
    <2>1. \A q \in Range(down) : q.to \in SlowKinds /\ waiting' => q \in Range(down')
        BY <1>1, <1>2, KindsDiffer
    <2>2. QED
        BY <1>1, <2>1 DEF AnswerComes
  <1>7. QED
      BY <1>3, <1>4, <1>5, <1>6

(* The user's status was set, or another's of the same name: the window is *)
(* closed and waits no more.                                               *)
LEMMA ReceiveStatusStep ==
  ASSUME IInv, UNCHANGED <<followed, named, crashed>>, ReceiveStatus
  PROVE  IInv'
  <1> USE DEF IInv
  <1> DEFINE p == Head(down)
  <1>1. /\ down # <<>> /\ p.kind \in {"reply", "namesake"} /\ ~Relists(p) /\ down' = Tail(down)
        /\ screen' = screen \/ (screen = "command" /\ screen' = previous)
        /\ waiting' = FALSE
        /\ UNCHANGED <<server, up, slots, count, chosen, previous, unheard>>
      BY DEF ReceiveStatus, Gets, Relists
  <1>2. down' \in Seq(Packets) /\ ListingComes' /\ Entered'
      BY <1>1, ReplyTaken DEF chosen
  <1> HIDE DEF p
  <1>3. TypeOK'
      BY <1>1, <1>2 DEF TypeOK, server, chosen
  <1>4. ChatHasServer' /\ SlotsNamed' /\ Unviewed' /\ RequestsNamed' /\ AnswerComes'
      BY <1>1
         DEF ChatHasServer, InChat, SlotsNamed, Known, Unviewed, RequestsNamed, AnswerComes, server, chosen
  <1>5. QED
      BY <1>2, <1>3, <1>4

(* The user's status was set, and the client has not noticed.              *)
LEMMA ReceiveUnheardStep ==
  ASSUME IInv, UNCHANGED <<followed, named, crashed>>, ReceiveUnheard
  PROVE  IInv'
  <1> USE DEF IInv
  <1> DEFINE p == Head(down)
  <1>1. /\ down # <<>> /\ p.kind = "reply" /\ ~Relists(p) /\ down' = Tail(down)
        /\ ~named /\ unheard' = TRUE
        /\ UNCHANGED <<server, up, slots, count, chosen, screen, previous, waiting>>
      BY DEF ReceiveUnheard, Gets, Relists
  <1>2. down' \in Seq(Packets) /\ ListingComes' /\ Entered'
      BY <1>1, ReplyTaken DEF chosen
  <1> HIDE DEF p
  <1>3. TypeOK'
      BY <1>1, <1>2 DEF TypeOK, server, chosen
  <1>4. ChatHasServer' /\ SlotsNamed' /\ Unviewed' /\ RequestsNamed' /\ AnswerComes'
      BY <1>1
         DEF ChatHasServer, InChat, SlotsNamed, Known, Unviewed, RequestsNamed, AnswerComes, server, chosen
  <1>5. QED
      BY <1>2, <1>3, <1>4

-----------------------------------------------------------------------------
(* The beginning of a session. *)

(* A new login, and a client that is started again after TAB ended it,     *)
(* begin with the request for the servers; the slots of the former stay.   *)
LEMMA FreshStep ==
  ASSUME IInv,
         \/ SignInAgain /\ UNCHANGED <<followed, named, crashed>>
         \/ Restart
         \/ Tab
  PROVE  IInv'
  <1> USE DEF IInv
  <1>1. CASE Tab
    <2>1. UNCHANGED <<followed, named, server, up, down, slots, count, chosen, window>> /\ crashed' = TRUE
        BY <1>1 DEF Tab
    <2>2. TypeOK'
        BY <2>1 DEF TypeOK, server, chosen, window
    <2>3. ListingComes'
        BY <2>1 DEF ListingComes, Shows, ServerList, server
    <2>4. QED
        BY <2>1, <2>2, <2>3
           DEF ChatHasServer, InChat, SlotsNamed, Known, RequestsNamed, Unviewed, Entered, AnswerComes,
               server, chosen, window
  <1>2. CASE SignInAgain \/ Restart
    <2>1. /\ up' = <<ListRequest>> /\ down' \in {<<>>, down} /\ viewing' = None
          /\ count' = 0 /\ cursor' = 1 /\ active' = 0 /\ waiting' = FALSE /\ outdated' = TRUE
          /\ screen' = "servers" /\ guilds' = guilds
          /\ slots' = slots \/ slots' = [k \in 1 .. MaxSlots |-> Blank]
          /\ previous' \in {"servers", "chat"} /\ refilled' \in BOOLEAN /\ unheard' = unheard
        BY <1>2 DEF SignInAgain, Restart, TypeOK
    <2>2. followed' = followed /\ named' = named /\ crashed' \in BOOLEAN
        BY DEF SignInAgain, Restart, Tab, TypeOK
    <2>3. slots' \in [1 .. MaxSlots -> Slot]
      <3>1. Blank \in Slot
          BY DEF Blank, Slot
      <3>2. QED
          BY <2>1, <3>1, LinksTyped
    <2>4. up' \in Seq(Requests) /\ down' \in Seq(Packets) /\ Range(up') = {ListRequest}
        BY <2>1, LinksTyped, FirstRequest
    <2>5. 0 \in 0 .. MaxSlots /\ 1 \in 1 .. MaxSlots
        BY LinksTyped
    <2>6. TypeOK'
        BY <2>1, <2>2, <2>3, <2>4, <2>5 DEF TypeOK, Slot
    <2>7. RequestsNamed'
        BY <2>4 DEF RequestsNamed, ListRequest
    <2>8. QED
        BY <2>1, <2>6, <2>7
           DEF ChatHasServer, InChat, SlotsNamed, Unviewed, Entered, ListingComes, AnswerComes
  <1>3. QED
      BY <1>1, <1>2

(* Every step of the client, of the server and of others preserves it.     *)
LEMMA IInvStep == IInv /\ [Next]_vars => IInv'
  <1> SUFFICES ASSUME IInv, [Next]_vars PROVE IInv'
      OBVIOUS
  <1>1. CASE UNCHANGED vars
    <2>1. TypeOK'
        BY <1>1 DEF IInv, TypeOK, vars, server, chosen, window
    <2>2. ListingComes'
        BY <1>1 DEF IInv, ListingComes, Shows, ServerList, vars, server
    <2>3. QED
        BY <1>1, <2>1, <2>2
           DEF IInv, ChatHasServer, InChat, SlotsNamed, Known, RequestsNamed, Unviewed, Entered,
               AnswerComes, vars, server, chosen, window
  <1>2. CASE (Key \/ Receive) /\ UNCHANGED <<followed, named, crashed>>
    <2>1. CASE MoveCursor \/ LeaveChat \/ OpenCommand \/ Cancel \/ TypeCommand
        BY <1>2, <2>1, QuietKeyStep
    <2>2. CASE Refresh \/ Enter
        BY <1>2, <2>2, AskingKeyStep
    <2>3. ASSUME NEW s \in Servers, NEW kind \in QuickKinds, QuickCommand(kind, s) PROVE IInv'
        BY <1>2, <2>3, CommandStep
    <2>4. ASSUME NEW s \in Servers, NEW kind \in SlowKinds, SlowCommand(kind, s) PROVE IInv'
        BY <1>2, <2>4, CommandStep
    <2>5. CASE Receive
        BY <1>2, <2>5, ReceiveServersStep, ReceiveDetailsStep, ReceiveLeftStep, ReceiveDoneStep,
           ReceiveRefusalStep, ReceiveStatusStep, ReceiveUnheardStep DEF Receive
    <2>6. CASE SignInAgain
        BY <1>2, <2>6, FreshStep
    <2>7. QED
        BY <1>2, <2>1, <2>2, <2>3, <2>4, <2>5, <2>6 DEF Key
  <1>3. CASE /\ Handle \/ PushMembers \/ PushNamesake \/ \E s \in Shared : OthersAct(s)
             /\ UNCHANGED <<followed, named, crashed>>
      BY <1>3, HandleListStep, HandleDetailsStep, HandleCommandStep, PushStep, PushNamesakeStep, OthersStep,
         ServerBrowserAssumption DEF Handle
  <1>4. CASE Tab \/ Restart
      BY <1>4, FreshStep
  <1>5. QED
      BY <1>1, <1>2, <1>3, <1>4 DEF Next

(* It therefore holds throughout.                                          *)
LEMMA Invariance == Spec => []IInv
  BY IInvInit, IInvStep, PTL DEF Spec

-----------------------------------------------------------------------------
(* The properties. *)

(* What is in flight is on one of the links.                               *)
LEMMA InFlightIsSome ==
  ASSUME NEW K
  PROVE  InFlight(K) <=> Some(up, K) \/ Some(down, K)
  BY DEF InFlight, Some, Range

(* Cursor, active server and count stay within the slots, only well-formed *)
(* messages are sent, and a slot holds servers of the database.            *)
THEOREM Typing == Spec => []TypeOK
  BY Invariance, PTL DEF IInv

(* The chat, and a command window over it, always has a server.            *)
THEOREM ChatIsSafe == Spec => []ChatHasServer
  BY Invariance, PTL DEF IInv

(* With nothing on its way the chat shows the lists of its server, unless  *)
(* a server list refilled the slot.                                        *)
THEOREM ChatIsTrue == Spec => []ChatIsOfServer
  <1>1. ASSUME IInv PROVE ChatIsOfServer
    <2> SUFFICES ASSUME InChat, active <= count, ~refilled,
                        ~InFlight({"list", "servers", "reply"} \cup Lists \cup Commands)
                 PROVE  slots[active].list = slots[active].id
        BY DEF ChatIsOfServer
    <2>1. active \in 1 .. count
        BY <1>1, LinksTyped DEF IInv, ChatHasServer
    <2>2. ~Some(up, Lists) /\ ~Some(down, Lists)
        BY InFlightIsSome DEF Some
    <2>3. \A m : ~Latest(up, Lists, m) /\ ~Latest(down, Lists, m)
        BY <2>2, LatestIsThere DEF Some
    <2>4. QED
        BY <1>1, <2>1, <2>2, <2>3 DEF IInv, Entered
  <1>2. QED
      BY <1>1, Invariance, PTL

(* With nothing on its way the slots show the servers there are, in order, *)
(* unless since the last list, or by it, something was lost on this client *)
(* that it was not told of.                                                *)
THEOREM OwnChangesAreSeen == Spec => []OwnChangesAreListed
  <1>1. ASSUME IInv PROVE OwnChangesAreListed
    <2> SUFFICES ASSUME ~outdated, ~InFlight({"list", "servers", "reply"} \cup Commands)
                 PROVE  /\ count = Min({MaxSlots, Cardinality(guilds)})
                        /\ \A k \in 1 .. count : slots[k].id = ServerList[k]
        BY DEF OwnChangesAreListed
    <2>1. ~Some(up, {"list"}) /\ ~Some(down, {"servers"}) /\ ~Some(down, {"reply"})
        BY InFlightIsSome DEF Some
    <2>2. \A p \in Range(down) : ~Relists(p)
        BY <2>1 DEF Some, Relists
    <2>3. \A m : ~Latest(down, {"servers"}, m)
        BY <2>1, LatestIsThere DEF Some
    <2>4. Shows(ServerList)
        BY <1>1, <2>1, <2>2, <2>3 DEF IInv, ListingComes
    <2>5. Len(ServerList) = Cardinality(guilds)
        BY <1>1, Listing DEF IInv
    <2>6. QED
        BY <2>4, <2>5 DEF Shows
  <1>2. QED
      BY <1>1, Invariance, PTL

(* A command window that says a request was sent has its answer coming,    *)
(* unless it was about the status and went to another name.                *)
THEOREM NobodyWaitsInVain == Spec => []WaitHasAnswer
  <1>1. ASSUME IInv PROVE WaitHasAnswer
      BY <1>1 DEF IInv, AnswerComes, WaitHasAnswer, Some, Range
  <1>2. QED
      BY <1>1, Invariance, PTL

(* TAB stops the client in the cases its comment lists, and never else.    *)
THEOREM TabStops == Spec => TabStopsOnlyUnlisted
  <1>1. ASSUME IInv, [Next]_vars
        PROVE  [~crashed /\ crashed' =>
                  refilled \/ active > count \/ InFlight(Lists) \/ slots[active].list # None]_vars
    <2> SUFFICES ASSUME Next, ~crashed, crashed', ~refilled, ~(active > count), ~InFlight(Lists)
                 PROVE  slots[active].list # None
        BY <1>1
    <2>1. Tab
        BY DEF Next, Restart
    <2>2. active \in 1 .. count
        BY <1>1, <2>1, LinksTyped DEF Tab, IInv, ChatHasServer, InChat
    <2>3. \A m : ~Latest(up, Lists, m) /\ ~Latest(down, Lists, m)
        BY InFlightIsSome, LatestIsThere DEF Some
    <2>4. slots[active].list = slots[active].id
        BY <1>1, <2>2, <2>3, InFlightIsSome DEF IInv, Entered
    <2>5. slots[active].id \in Servers
        BY <1>1, <2>2 DEF IInv, SlotsNamed, Known
    <2>6. QED
        BY <2>4, <2>5, ServerBrowserAssumption
  <1>2. QED
      BY <1>1, Invariance, PTL DEF Spec, TabStopsOnlyUnlisted

=============================================================================
