-------------------------- MODULE FriendSlots_proofs --------------------------
(***************************************************************************)
(* Proofs about FriendSlots for any users, slots and bounds: its types,    *)
(* that only a list moves the user under a draft, that the slots are the   *)
(* table once the lists are in, and that a conversation is with the friend *)
(* whose slot it is in.                                                    *)
(***************************************************************************)
EXTENDS FriendSlots, Conversations_proofs

SlotRecords == [id : Users \cup {None}, type : Types, holds : SUBSET Users]
RowPackets == [kind : {"listRow"}, id : Users, type : Types]

(* A slot in use has a user, and so has the one a message is begun in.     *)
Filled ==
  /\ \A i \in 1 .. count : slots[i].id # None
  /\ draft # Empty => /\ active # 0
                      /\ slots[active].id # None
                      /\ ~draft.relisted => slots[active].id = draft.meant

-----------------------------------------------------------------------------
(* The slots TAB goes round. *)

LEMMA Divided ==
  ASSUME NEW a \in Nat, NEW n \in Nat \ {0}
  PROVE  a = n * (a \div n) + (a % n) /\ a \div n \in Nat /\ a % n \in 0 .. n - 1
  OBVIOUS

LEMMA OneRest ==
  ASSUME NEW q \in Nat, NEW p \in Nat, NEW n \in Nat \ {0}, NEW r \in 0 .. n - 1, NEW s \in 0 .. n - 1,
         n * q + r = n * p + s
  PROVE  r = s
  <1>1. CASE q > p
    <2>1. PICK d \in Nat \ {0} : q = p + d
      <3>1. q - p \in Nat \ {0}
          BY <1>1
      <3>2. QED
          BY <3>1
    <2>2. n * (p + d) = n * p + n * d /\ n * d \in Int /\ n * p \in Int
        OBVIOUS
    <2>3. n * d >= n
        OBVIOUS
    <2>4. QED
        BY <2>1, <2>2, <2>3
  <1>2. CASE p > q
    <2>1. PICK d \in Nat \ {0} : p = q + d
      <3>1. p - q \in Nat \ {0}
          BY <1>2
      <3>2. QED
          BY <3>1
    <2>2. n * (q + d) = n * q + n * d /\ n * d \in Int /\ n * q \in Int
        OBVIOUS
    <2>3. n * d >= n
        OBVIOUS
    <2>4. QED
        BY <2>1, <2>2, <2>3
  <1>3. CASE p = q
      BY <1>3
  <1>4. QED
      BY <1>1, <1>2, <1>3

(* Within n steps each remainder comes up. *)
LEMMA GoesRound ==
  ASSUME NEW a \in Nat, NEW n \in Nat \ {0}, NEW i \in 0 .. n - 1
  PROVE  \E k \in 1 .. n : (a + k) % n = i
  <1>1. a = n * (a \div n) + (a % n) /\ a \div n \in Nat /\ a % n \in 0 .. n - 1
      BY Divided
  <1> DEFINE q == a \div n
             r == a % n
             k == IF i > r THEN i - r ELSE i - r + n
             p == IF i > r THEN q ELSE q + 1
  <1>2. k \in 1 .. n /\ p \in Nat
      BY <1>1
  <1> HIDE DEF q, r
  <1>3. a + k = n * p + i
    <2>1. a = n * q + r /\ n * q \in Int /\ r \in Int /\ n * (q + 1) = n * q + n
        BY <1>1 DEF q, r
    <2>2. CASE i > r
        BY <2>1, <2>2
    <2>3. CASE ~(i > r)
        BY <2>1, <2>3
    <2>4. QED
        BY <2>2, <2>3
  <1>4. a + k \in Nat
      BY <1>2
  <1> HIDE DEF k, p
  <1> DEFINE b == a + k
  <1>5. b = n * (b \div n) + (b % n) /\ b \div n \in Nat /\ b % n \in 0 .. n - 1
      BY <1>4, Divided
  <1>6. b % n = i
      BY <1>2, <1>3, <1>5, OneRest
  <1>7. QED
      BY <1>2, <1>6

LEMMA ReachesSlot ==
  ASSUME NEW a \in Nat \ {0}, NEW n \in Nat, NEW i \in 1 .. n
  PROVE  \E k \in 1 .. n : ((a - 1 + k) % n) + 1 = i
  <1>1. a - 1 \in Nat /\ n \in Nat \ {0} /\ i - 1 \in 0 .. n - 1
      OBVIOUS
  <1> DEFINE b == a - 1
             j == i - 1
  <1>2. b \in Nat /\ n \in Nat \ {0} /\ j \in 0 .. n - 1 /\ j + 1 = i
      BY <1>1
  <1> HIDE DEF b, j
  <1>3. \E k \in 1 .. n : (b + k) % n = j
      BY <1>2, GoesRound
  <1>4. QED
      BY <1>2, <1>3 DEF b

LEMMA LeastIs ==
  ASSUME NEW S \in SUBSET Nat, S # {}
  PROVE  Min(S) \in S /\ \A n \in S : Min(S) <= n
  <1>1. \E n \in S : \A m \in S : n <= m
      BY HasLeast
  <1>2. QED
      BY <1>1 DEF Min

LEMMA FriendsAre ==
  ASSUME FriendSlotsAssumption, NEW n \in {0} \cup Slots, NEW s
  PROVE  /\ n \in Nat /\ n <= MaxFriends /\ 1 .. n \subseteq Slots
         /\ Accepted(n, s) \subseteq 1 .. n
         /\ \A i \in Accepted(n, s) : s[i].type = "friends"
         /\ Accepted(n, s) # {} => Min(Accepted(n, s)) \in Accepted(n, s)
  <1>1. MaxFriends \in Nat
      BY DEF FriendSlotsAssumption
  <1>2. n \in Nat /\ n <= MaxFriends
      BY <1>1 DEF Slots
  <1>3. 1 .. n \subseteq Slots
      BY <1>1, <1>2 DEF Slots
  <1> DEFINE S == Accepted(n, s)
  <1>4. S \in SUBSET Nat /\ S \subseteq 1 .. n /\ \A i \in S : s[i].type = "friends"
      BY DEF Accepted
  <1> HIDE DEF S
  <1>5. S # {} => Min(S) \in S
      BY <1>4, LeastIs
  <1>6. QED
      BY <1>2, <1>3, <1>4, <1>5 DEF S

LEMMA TabGoes ==
  ASSUME FriendSlotsAssumption, TypeOK, active # 0, Accepted(count, slots) # {}
  PROVE  NextFriend \in Accepted(count, slots)
  <1> DEFINE After(k) == ((active - 1 + k) % count) + 1
             S == {k \in 1 .. count : After(k) \in Accepted(count, slots)}
  <1>1. /\ count \in Nat /\ Accepted(count, slots) \subseteq 1 .. count
        /\ active \in Nat \ {0}
    <2>1. count \in {0} \cup Slots /\ active \in Slots
        BY DEF TypeOK
    <2>2. count \in Nat /\ Accepted(count, slots) \subseteq 1 .. count
        BY <2>1, FriendsAre
    <2>3. MaxFriends \in Nat /\ \A i \in 1 .. MaxFriends : i \in Nat \ {0}
        BY DEF FriendSlotsAssumption
    <2>4. active \in Nat \ {0}
        BY <2>1, <2>3 DEF Slots
    <2>5. QED
        BY <2>2, <2>4
  <1>2. PICK i \in 1 .. count : i \in Accepted(count, slots)
      BY <1>1
  <1>3. S # {}
    <2>1. \E k \in 1 .. count : ((active - 1 + k) % count) + 1 = i
        BY <1>1, ReachesSlot
    <2>2. QED
        BY <1>2, <2>1
  <1>4. S \in SUBSET Nat
      BY <1>1
  <1>5. NextFriend = After(Min(S))
      BY DEF NextFriend
  <1>6. Min(S) \in S
    <2> HIDE DEF S
    <2>1. QED
        BY <1>3, <1>4, LeastIs
  <1>7. QED
      BY <1>5, <1>6

-----------------------------------------------------------------------------
(* Type correctness. *)

LEMMA Words ==
  /\ [kind |-> "list"] \in Requests
  /\ \A u \in Users : [kind |-> "history", id |-> u] \in Requests /\ [kind |-> "post", id |-> u] \in Requests
  /\ \A verb \in Verbs, u \in Users : [kind |-> "command", verb |-> verb, id |-> u] \in Requests
  /\ \A r \in Requests : r.kind \in {"list", "history", "post", "command"}
  /\ \A r \in Requests : r.kind # "list" => r.id \in Users
  /\ \A r \in Requests : r.kind = "command" => r.verb \in Verbs
  /\ [kind |-> "listStart"] \in Packets /\ [kind |-> "listEnd"] \in Packets
  /\ \A u \in Users : [kind |-> "start", id |-> u] \in Packets /\ [kind |-> "message", id |-> u] \in Packets
  /\ RowPackets \subseteq Packets
  /\ \A p \in RowPackets : p.kind = "listRow"
  /\ \A p \in Packets : p.kind \in {"listStart", "listEnd", "listRow", "start", "message"}
  /\ \A p \in Packets : p.kind \in {"start", "message", "listRow"} => p.id \in Users
  /\ \A p \in Packets : p.kind = "listRow" => p.type \in Types
  BY DEF Requests, Packets, RowPackets

(* The list a table makes. *)
RowsOf(t) == Only(t, RowsBy(Users, {FALSE})) \o Only(t, RowsBy(Users, {TRUE}))

LEMMA ListIs ==
  ASSUME NEW t \in Seq(TableRows)
  PROVE  /\ RowsOf(t) \in Seq(TableRows)
         /\ FriendList(t) \in Seq(RowPackets) /\ Len(FriendList(t)) = Len(RowsOf(t))
         /\ \A k \in 1 .. Len(RowsOf(t)) : FriendList(t)[k] = ListedRow(RowsOf(t)[k])
  <1>1. RowsOf(t) \in Seq(TableRows)
    <2>1. Only(t, RowsBy(Users, {FALSE})) \in Seq(TableRows) /\ Only(t, RowsBy(Users, {TRUE})) \in Seq(TableRows)
        BY OnlyIn
    <2>2. QED
        BY <2>1, ConcatProperties DEF RowsOf
  <1>2. FriendList(t) = [k \in DOMAIN RowsOf(t) |-> ListedRow(RowsOf(t)[k])]
      BY DEF FriendList, RowsOf
  <1>3. \A r \in TableRows : ListedRow(r) \in RowPackets
      BY DEF TableRows, RowsBy, ListedRow, RowPackets, Types
  <1> DEFINE rows == RowsOf(t)
             f == FriendList(t)
  <1> HIDE DEF rows, f
  <1>4. rows \in Seq(TableRows) /\ f = [k \in DOMAIN rows |-> ListedRow(rows[k])]
      BY <1>1, <1>2 DEF rows, f
  <1>5. \A k \in 1 .. Len(rows) : f[k] = ListedRow(rows[k]) /\ f[k] \in RowPackets
      BY <1>3, <1>4, ElementOfSeq
  <1>6. Len(rows) \in Nat /\ f = [k \in 1 .. Len(rows) |-> ListedRow(rows[k])]
      BY <1>4
  <1>7. f \in Seq(RowPackets) /\ Len(f) = Len(rows)
      BY <1>5, <1>6
  <1>8. QED
      BY <1>4, <1>5, <1>7 DEF rows, f

LEMMA FramesTyped ==
  ASSUME NEW t \in Seq(TableRows)
  PROVE  ListFrames(t) \in Seq(Packets)
  <1> DEFINE f == FriendList(t)
             a == [kind |-> "listStart"]
             z == [kind |-> "listEnd"]
  <1>1. f \in Seq(Packets)
      BY ListIs, Words, SeqMonotonic
  <1>2. a \in Packets /\ z \in Packets
      BY Words
  <1> HIDE DEF f, a, z
  <1>3. (<<a>> \o f) \o <<z>> \in Seq(Packets)
      BY <1>1, <1>2
  <1>4. QED
      BY <1>3 DEF ListFrames, f, a, z

LEMMA ChangedTyped ==
  ASSUME table \in Seq(TableRows), NEW verb, NEW u \in Users, NEW mine \in BOOLEAN
  PROVE  Changed(verb, u, mine) \in Seq(TableRows)
  <1> DEFINE known == {k \in DOMAIN table : table[k].id = u}
             new == [id |-> u, mine |-> mine, accepted |-> FALSE]
             with == [k \in DOMAIN table |-> [table[k] EXCEPT !.accepted = @ \/ k \in known]]
             without == Only(table, RowsBy(Users \ {u}, BOOLEAN))
  <1>1. new \in TableRows
      BY DEF TableRows, RowsBy
  <1>2. Append(table, new) \in Seq(TableRows)
      BY <1>1, AppendProperties
  <1>3. without \in Seq(TableRows)
      BY OnlyIn
  <1>4. with \in Seq(TableRows)
    <2>1. \A k \in 1 .. Len(table) : table[k] \in TableRows
        BY ElementOfSeq
    <2>2. \A r \in TableRows, b \in BOOLEAN : [r EXCEPT !.accepted = b] \in TableRows
        BY DEF TableRows, RowsBy
    <2>3. \A r \in TableRows : r.accepted \in BOOLEAN
        BY DEF TableRows, RowsBy
    <2>4. \A k \in 1 .. Len(table) : (table[k].accepted \/ k \in known) \in BOOLEAN
        OBVIOUS
    <2>5. \A k \in 1 .. Len(table) : [table[k] EXCEPT !.accepted = @ \/ k \in known] \in TableRows
        BY <2>1, <2>2, <2>4
    <2>6. Len(table) \in Nat /\ DOMAIN table = 1 .. Len(table)
        OBVIOUS
    <2> DEFINE e(k) == [table[k] EXCEPT !.accepted = @ \/ k \in known]
    <2>7. with = [k \in 1 .. Len(table) |-> e(k)]
        BY <2>6
    <2>8. \A k \in 1 .. Len(table) : e(k) \in TableRows
        BY <2>5
    <2> HIDE DEF with, e
    <2>9. QED
        BY <2>6, <2>7, <2>8
  <1>5. Changed(verb, u, mine) \in {table, Append(table, new), with, without}
      BY DEF Changed
  <1> HIDE DEF new, with, without
  <1>6. QED
      BY <1>2, <1>3, <1>4, <1>5

LEMMA DrawnIs ==
  ASSUME FriendSlotsAssumption, NEW a \in {0} \cup Slots, count' \in {0} \cup Slots, Drawn(a)
  PROVE  /\ active' \in {0} \cup Slots
         /\ a # 0 => active' = a
         /\ active' # a => active' \in Accepted(count', slots')
  <1> DEFINE S == Accepted(count', slots')
  <1>1. S \subseteq Slots /\ (S # {} => Min(S) \in S)
      BY FriendsAre
  <1>2. active' = a \/ (a = 0 /\ S # {} /\ active' = Min(S))
      BY DEF Drawn
  <1> HIDE DEF S
  <1>3. QED
      BY <1>1, <1>2 DEF S

LEMMA InitTyped ==
  ASSUME FriendSlotsAssumption, Init
  PROVE  TypeOK /\ Filled
  <1>1. PICK ids \in SeqOf(Users, Cardinality(Users)) :
               table = [k \in DOMAIN ids |-> [id |-> ids[k], mine |-> FALSE, accepted |-> TRUE]]
      BY DEF Init
  <1>2. PICK m \in Nat : ids \in [1 .. m -> Users]
    <2>1. Cardinality(Users) \in Nat
        BY FS_CardinalityType DEF FriendSlotsAssumption
    <2>2. QED
        BY <2>1 DEF SeqOf
  <1>3. table \in Seq(TableRows)
    <2>1. table = [k \in 1 .. m |-> [id |-> ids[k], mine |-> FALSE, accepted |-> TRUE]]
        BY <1>1, <1>2
    <2>2. \A k \in 1 .. m : [id |-> ids[k], mine |-> FALSE, accepted |-> TRUE] \in TableRows
        BY <1>2 DEF TableRows, RowsBy
    <2> DEFINE e(k) == [id |-> ids[k], mine |-> FALSE, accepted |-> TRUE]
    <2>3. table = [k \in 1 .. m |-> e(k)] /\ \A k \in 1 .. m : e(k) \in TableRows
        BY <2>1, <2>2
    <2> HIDE DEF e
    <2>4. QED
        BY <2>3
  <1>4. NoSlots \in [Slots -> SlotRecords]
      BY DEF NoSlots, SlotRecords, Types
  <1>5. <<>> \in Seq(Requests) /\ <<>> \in Seq(Packets)
      BY EmptySeq
  <1>6. TypeOK
      BY <1>3, <1>4, <1>5 DEF Init, TypeOK, SlotRecords
  <1>7. Filled
      BY DEF Init, Filled
  <1>8. QED
      BY <1>6, <1>7

LEMMA AskTyped ==
  ASSUME TypeOK, NEW r \in Requests, Asks(r) \/ up' = Append(up, r)
  PROVE  up' \in Seq(Requests)
  <1>1. up \in Seq(Requests) /\ up' = Append(up, r)
      BY DEF Asks, TypeOK
  <1>2. QED
      BY <1>1, AppendProperties

(* A slot's messages change, and whose slot it is does not.                *)
LEMMA HoldsPut ==
  ASSUME TypeOK, NEW i \in Slots, NEW h \in SUBSET Users, slots' = [slots EXCEPT ![i].holds = h]
  PROVE  /\ slots' \in [Slots -> SlotRecords]
         /\ \A j \in Slots : /\ slots'[j].id = slots[j].id /\ slots'[j].type = slots[j].type
                             /\ slots'[j].holds = IF j = i THEN h ELSE slots[j].holds
  <1>1. slots \in [Slots -> SlotRecords] /\ slots[i] \in SlotRecords
      BY DEF TypeOK, SlotRecords
  <1>2. slots' = [slots EXCEPT ![i] = [slots[i] EXCEPT !.holds = h]]
      OBVIOUS
  <1> DEFINE r == [slots[i] EXCEPT !.holds = h]
  <1>3. r \in SlotRecords /\ r.id = slots[i].id /\ r.type = slots[i].type /\ r.holds = h
      BY <1>1 DEF SlotRecords
  <1>4. slots' = [slots EXCEPT ![i] = r]
      BY <1>2
  <1> HIDE DEF r
  <1>5. QED
      BY <1>1, <1>3, <1>4

(* Keys that leave the slots and the active one.                           *)
LEMMA PlainKeyTyped ==
  ASSUME FriendSlotsAssumption, TypeOK, Filled, stuck' = stuck,
         OpenFriends \/ Leave \/ BeginDraft \/ \E verb \in Verbs, u \in Users : Command(verb, u)
  PROVE  TypeOK' /\ Filled'
  <1>1. UNCHANGED <<table, down, slots, count, active, listed>>
      BY DEF OpenFriends, Leave, BeginDraft, Command, view
  <1>2. ASSUME up' \in Seq(Requests), screen' \in {"others", "dms"}, draft' = draft
        PROVE  TypeOK' /\ Filled'
      BY <1>1, <1>2 DEF TypeOK, Filled
  <1>3. CASE OpenFriends
    <2> DEFINE r == [kind |-> "list"]
    <2>1. r \in Requests
        BY Words
    <2>2. Asks(r) /\ screen' = screen /\ draft' = draft
        BY <1>3 DEF OpenFriends
    <2> HIDE DEF r
    <2>3. up' \in Seq(Requests)
        BY <2>1, <2>2, AskTyped
    <2>4. QED
        BY <1>2, <2>2, <2>3 DEF TypeOK
  <1>4. CASE Leave
      BY <1>2, <1>4 DEF Leave, TypeOK
  <1>5. CASE BeginDraft
    <2>1. /\ active # 0 /\ slots[active].id # None /\ UNCHANGED <<up, screen>>
          /\ draft' = [meant |-> slots[active].id, relisted |-> FALSE]
        BY <1>5 DEF BeginDraft, Conversing
    <2>2. slots[active].id \in Users
        BY <2>1 DEF TypeOK
    <2>3. draft' \in Drafts /\ draft'.meant = slots[active].id
        BY <2>1, <2>2 DEF Drafts
    <2>4. QED
        BY <1>1, <2>1, <2>3 DEF TypeOK, Filled
  <1>6. ASSUME NEW verb \in Verbs, NEW u \in Users, Command(verb, u)
        PROVE  TypeOK' /\ Filled'
    <2> DEFINE a == [kind |-> "command", verb |-> verb, id |-> u]
               b == [kind |-> "list"]
    <2>1. up' = up \o <<a, b>> /\ screen' = screen /\ draft' = draft
        BY <1>6 DEF Command
    <2>2. a \in Requests /\ b \in Requests /\ up \in Seq(Requests)
        BY Words DEF TypeOK
    <2> HIDE DEF a, b
    <2>3. up' \in Seq(Requests)
        BY <2>1, <2>2
    <2>4. QED
        BY <1>2, <2>1, <2>3 DEF TypeOK
  <1>7. QED
      BY <1>3, <1>4, <1>5, <1>6

LEMMA KeyTyped ==
  ASSUME FriendSlotsAssumption, TypeOK, Filled, stuck' = stuck, Key
  PROVE  TypeOK' /\ Filled'
  <1>1. Empty \in Drafts \cup {Empty} /\ count \in {0} \cup Slots /\ active \in {0} \cup Slots
      BY DEF TypeOK
  <1>2. CASE SignInAgain
    <2>1. /\ count' = 0 /\ active' = 0 /\ draft' = Empty /\ listed' = FALSE
          /\ UNCHANGED <<table, up, down, screen, slots>>
        BY <1>2 DEF SignInAgain
    <2>2. TypeOK'
        BY <2>1 DEF TypeOK
    <2>3. Filled'
        BY <2>1 DEF Filled
    <2>4. QED
        BY <2>2, <2>3
  <1>3. CASE OpenDMs
    <2>1. /\ Asks([kind |-> "list"]) /\ screen' = "dms" /\ Drawn(active)
          /\ UNCHANGED <<slots, count, table, down, draft, listed>>
        BY <1>3 DEF OpenDMs
    <2>2. up' \in Seq(Requests)
      <3> DEFINE r == [kind |-> "list"]
      <3>1. r \in Requests /\ Asks(r)
          BY <2>1, Words
      <3> HIDE DEF r
      <3>2. QED
          BY <3>1, AskTyped
    <2>3. active' \in {0} \cup Slots /\ (active # 0 => active' = active)
        BY <1>1, <2>1, DrawnIs
    <2>4. TypeOK'
        BY <2>1, <2>2, <2>3 DEF TypeOK
    <2>5. Filled'
        BY <2>1, <2>3 DEF Filled
    <2>6. QED
        BY <2>4, <2>5
  <1>4. CASE Tab
    <2>1. /\ active # 0 /\ Accepted(count, slots) # {} /\ active' = NextFriend /\ draft' = Empty
          /\ Asks([kind |-> "history", id |-> slots[NextFriend].id])
          /\ UNCHANGED <<table, down, screen, slots, count, listed>>
        BY <1>4 DEF Tab, Conversing
    <2>2. NextFriend \in 1 .. count /\ NextFriend \in Slots
        BY <1>1, <2>1, TabGoes, FriendsAre
    <2>3. slots[NextFriend].id \in Users
        BY <2>2 DEF TypeOK, Filled
    <2>4. up' \in Seq(Requests)
        BY <2>1, <2>3, AskTyped, Words
    <2>5. QED
        BY <2>1, <2>2, <2>4 DEF TypeOK, Filled
  <1>5. CASE Send
    <2>1. /\ active # 0 /\ draft # Empty /\ draft' = Empty
          /\ Asks([kind |-> "post", id |-> slots[active].id])
          /\ slots' = [slots EXCEPT ![active].holds = slots[active].holds \cup {slots[active].id}]
          /\ UNCHANGED <<table, down, screen, count, active, listed>>
        BY <1>5 DEF Send, Conversing
    <2>2. active \in Slots /\ slots[active].id \in Users /\ slots[active].holds \in SUBSET Users
        BY <2>1 DEF TypeOK, Filled
    <2>3. up' \in Seq(Requests)
        BY <2>1, <2>2, AskTyped, Words
    <2>4. slots' \in [Slots -> SlotRecords] /\ \A j \in Slots : slots'[j].id = slots[j].id
      <3> DEFINE i == active
                 h == slots[active].holds \cup {slots[active].id}
      <3>1. i \in Slots /\ h \in SUBSET Users /\ slots' = [slots EXCEPT ![i].holds = h]
          BY <2>1, <2>2
      <3> HIDE DEF i, h
      <3>2. QED
          BY <3>1, HoldsPut
    <2>5. TypeOK'
        BY <2>1, <2>3, <2>4 DEF TypeOK, SlotRecords
    <2>6. 1 .. count \subseteq Slots
        BY <1>1, FriendsAre
    <2>7. Filled'
        BY <2>1, <2>4, <2>6 DEF Filled
    <2>8. QED
        BY <2>5, <2>7
  <1>6. QED
      BY <1>2, <1>3, <1>4, <1>5, PlainKeyTyped DEF Key

LEMMA ServeTyped ==
  ASSUME FriendSlotsAssumption, TypeOK, Filled, stuck' = stuck, Serve
  PROVE  TypeOK' /\ Filled'
  <1>1. UNCHANGED <<screen, slots, count, active, draft, listed>>
      BY DEF Serve, HandleCommand, HandleList, HandleHistory, HandlePost, PeerWrites, PeerCommand, view
  <1>2. up' \in Seq(Requests) /\ (up' # up => up # <<>>)
    <2>1. up \in Seq(Requests)
        BY DEF TypeOK
    <2>2. up' = up \/ (up # <<>> /\ up' = Tail(up))
        BY DEF Serve, HandleCommand, HandleList, HandleHistory, HandlePost, PeerWrites, PeerCommand, Handles
    <2>3. QED
        BY <2>1, <2>2, FirstTaken
  <1>3. up # <<>> => Head(up) \in Requests
      BY FirstTaken DEF TypeOK
  <1>4. ASSUME NEW t \in Seq(TableRows), table' = t, down' = down \/ down' = down \o ListFrames(t)
        PROVE  table' \in Seq(TableRows) /\ down' \in Seq(Packets)
    <2>1. down \in Seq(Packets) /\ ListFrames(t) \in Seq(Packets)
        BY <1>4, FramesTyped DEF TypeOK
    <2>2. QED
        BY <1>4, <2>1, ConcatProperties
  <1>5. table' \in Seq(TableRows) /\ down' \in Seq(Packets)
    <2>1. table \in Seq(TableRows) /\ down \in Seq(Packets)
        BY DEF TypeOK
    <2>2. CASE HandleCommand
      <3> DEFINE t == Changed(Head(up).verb, Head(up).id, TRUE)
      <3>1. Head(up).kind = "command" /\ up # <<>> /\ table' = t /\ (down' = down \/ down' = down \o ListFrames(t))
          BY <2>2 DEF HandleCommand, Handles
      <3>2. Head(up).id \in Users
          BY <1>3, <3>1, Words
      <3>3. t \in Seq(TableRows)
          BY <2>1, <3>2, ChangedTyped
      <3> HIDE DEF t
      <3>4. QED
          BY <1>4, <3>1, <3>3
    <2>3. ASSUME NEW verb \in Verbs, NEW u \in Users, PeerCommand(verb, u)
          PROVE  table' \in Seq(TableRows) /\ down' \in Seq(Packets)
      <3> DEFINE t == Changed(verb, u, FALSE)
      <3>1. table' = t /\ down' = down \o ListFrames(t)
          BY <2>3 DEF PeerCommand
      <3>2. t \in Seq(TableRows)
          BY <2>1, ChangedTyped
      <3> HIDE DEF t
      <3>3. QED
          BY <1>4, <3>1, <3>2
    <2>4. CASE HandleList
        BY <1>4, <2>1, <2>4 DEF HandleList
    <2>5. CASE HandleHistory
      <3> DEFINE u == Head(up).id
                 a == [kind |-> "start", id |-> u]
                 b == [kind |-> "message", id |-> u]
      <3>1. /\ down' = Append(down, a) \/ down' = Append(Append(down, a), b)
            /\ table' = table /\ up # <<>> /\ Head(up).kind = "history"
          BY <2>5 DEF HandleHistory, Handles
      <3>2. a \in Packets /\ b \in Packets
          BY <1>3, <3>1, Words
      <3> HIDE DEF a, b
      <3>3. Append(down, a) \in Seq(Packets) /\ Append(Append(down, a), b) \in Seq(Packets)
          BY <2>1, <3>2
      <3>4. QED
          BY <2>1, <3>1, <3>3
    <2>6. CASE HandlePost
        BY <2>1, <2>6 DEF HandlePost
    <2>7. ASSUME NEW u \in Users, PeerWrites(u)
          PROVE  table' \in Seq(TableRows) /\ down' \in Seq(Packets)
      <3> DEFINE p == [kind |-> "message", id |-> u]
      <3>1. down' = Append(down, p) /\ table' = table
          BY <2>7 DEF PeerWrites
      <3>2. p \in Packets
          BY Words
      <3> HIDE DEF p
      <3>3. QED
          BY <2>1, <3>1, <3>2
    <2>8. QED
        BY <2>2, <2>3, <2>4, <2>5, <2>6, <2>7 DEF Serve
  <1>6. QED
      BY <1>1, <1>2, <1>5 DEF TypeOK, Filled

(* A row of a list takes a slot: whose it is changes, what is in it does   *)
(* not.                                                                    *)
LEMMA RowPut ==
  ASSUME TypeOK, NEW i \in Slots, NEW u \in Users, NEW t \in Types,
         slots' = [slots EXCEPT ![i].id = u, ![i].type = t]
  PROVE  /\ slots' \in [Slots -> SlotRecords]
         /\ slots'[i].id = u /\ slots'[i].type = t /\ slots'[i].holds = slots[i].holds
         /\ \A j \in Slots : j # i => slots'[j] = slots[j]
  <1> DEFINE r == [slots[i] EXCEPT !.id = u, !.type = t]
  <1>1. slots \in [Slots -> SlotRecords] /\ slots[i] \in SlotRecords
      BY DEF TypeOK, SlotRecords
  <1>2. r \in SlotRecords /\ r.id = u /\ r.type = t /\ r.holds = slots[i].holds
      BY <1>1 DEF SlotRecords
  <1>3. slots' = [slots EXCEPT ![i] = r]
      BY <1>1 DEF SlotRecords
  <1> HIDE DEF r
  <1>4. QED
      BY <1>1, <1>2, <1>3

(* What a packet of a conversation does to the slots.                      *)
Filed(h, u, adds) == IF adds THEN h \cup {u} ELSE {}

LEMMA FilesIs ==
  ASSUME FriendSlotsAssumption, TypeOK, NEW u \in Users, NEW adds \in BOOLEAN, Files(u, adds)
  PROVE  /\ slots' \in [Slots -> SlotRecords]
         /\ \A j \in Slots : slots'[j].id = slots[j].id /\ slots'[j].type = slots[j].type
         /\ \A j \in Slots : slots'[j].holds # slots[j].holds =>
              /\ j \in 1 .. count /\ slots[j].id = u
              /\ slots'[j].holds = Filed(slots[j].holds, u, adds)
         /\ \A j \in 1 .. count : slots[j].id = u =>
              \E i \in 1 .. count :
                /\ slots[i].id = u
                /\ slots'[i].holds = Filed(slots[i].holds, u, adds)
         /\ UNCHANGED <<table, up, screen, count, draft, listed>>
  <1> DEFINE S == SlotsOf(u)
             i == Min(S)
             h == Filed(slots[i].holds, u, adds)
  <1>1. count \in {0} \cup Slots /\ 1 .. count \subseteq Slots /\ count \in Nat
      BY FriendsAre DEF TypeOK
  <1>2. S \in SUBSET Nat /\ S \subseteq 1 .. count /\ \A j \in S : slots[j].id = u
      BY <1>1 DEF SlotsOf
  <1>3. \A j \in 1 .. count : slots[j].id = u => j \in S
      BY DEF SlotsOf
  <1>4. UNCHANGED <<table, up, screen, count, draft, listed>>
      BY DEF Files
  <1>5. slots' = IF S = {} THEN slots ELSE [slots EXCEPT ![i].holds = h]
    <2>1. slots' = IF S = {} THEN slots
                   ELSE [slots EXCEPT ![i].holds = IF adds THEN @ \cup {u} ELSE {}]
        BY DEF Files
    <2>2. QED
        BY <2>1 DEF Filed
  <1>6. slots \in [Slots -> SlotRecords]
      BY DEF TypeOK, SlotRecords
  <1>7. CASE S = {}
      BY <1>3, <1>4, <1>5, <1>6, <1>7
  <1>8. CASE S # {}
    <2>1. i \in S
      <3> HIDE DEF S
      <3>1. QED
          BY <1>2, <1>8, LeastIs
    <2>2. i \in Slots /\ i \in 1 .. count /\ slots[i].id = u /\ slots[i].holds \in SUBSET Users
        BY <1>1, <1>2, <1>6, <2>1 DEF SlotRecords
    <2>3. h \in SUBSET Users
        BY <2>2 DEF Filed
    <2>4. slots' = [slots EXCEPT ![i].holds = h]
        BY <1>5, <1>8
    <2>5. h = Filed(slots[i].holds, u, adds)
        OBVIOUS
    <2> HIDE DEF S, i, h
    <2>6. /\ slots' \in [Slots -> SlotRecords]
          /\ \A j \in Slots : /\ slots'[j].id = slots[j].id /\ slots'[j].type = slots[j].type
                              /\ slots'[j].holds = IF j = i THEN h ELSE slots[j].holds
        BY <2>2, <2>3, <2>4, HoldsPut
    <2>7. \A j \in Slots : slots'[j].holds # slots[j].holds => j = i
        BY <2>6
    <2>8. slots'[i].holds = h
        BY <2>2, <2>6
    <2>9. QED
        BY <1>4, <2>2, <2>5, <2>6, <2>7, <2>8
  <1>9. QED
      BY <1>7, <1>8

LEMMA ReceiveTyped ==
  ASSUME FriendSlotsAssumption, TypeOK, Filled, stuck' = stuck, Receive
  PROVE  TypeOK' /\ Filled'
  <1>1. /\ count \in {0} \cup Slots /\ active \in {0} \cup Slots /\ 1 .. count \subseteq Slots
        /\ count \in Nat /\ count <= MaxFriends
      BY FriendsAre DEF TypeOK
  <1>2. down # <<>> /\ down' = Tail(down) /\ table' = table
      BY DEF Receive, ReceiveListStart, ReceiveListRow, ReceiveListEnd, ReceiveStart, ReceiveMessage,
             Gets, Files
  <1>3. down' \in Seq(Packets) /\ Head(down) \in Packets
      BY <1>2, FirstTaken DEF TypeOK
  <1>4. Relisted \in Drafts \cup {Empty} /\ (Relisted # Empty => draft # Empty /\ Relisted.relisted)
      BY DEF TypeOK, Relisted, Drafts
  <1>5. CASE ReceiveListStart
    <2>1. count' = 0 /\ Drawn(active) /\ UNCHANGED <<slots, screen, up, draft, listed>>
        BY <1>5 DEF ReceiveListStart
    <2>2. active' \in {0} \cup Slots /\ (active # 0 => active' = active)
        BY <1>1, <2>1, DrawnIs
    <2>3. TypeOK'
        BY <1>2, <1>3, <2>1, <2>2 DEF TypeOK
    <2>4. Filled'
        BY <2>1, <2>2 DEF Filled
    <2>5. QED
        BY <2>3, <2>4
  <1>6. CASE ReceiveListRow
    <2> DEFINE u == Head(down).id
               t == Head(down).type
               i == count + 1
    <2>1. /\ Head(down).kind = "listRow" /\ UNCHANGED <<screen, up, listed>> /\ draft' = Relisted
          /\ Drawn(active)
          /\ IF count < MaxFriends
               THEN /\ count' = i
                    /\ slots' = [slots EXCEPT ![i].id = u, ![i].type = t]
               ELSE UNCHANGED <<slots, count>>
        BY <1>6 DEF ReceiveListRow, Gets
    <2>2. u \in Users /\ t \in Types
        BY <1>3, <2>1, Words
    <2>3. count < MaxFriends => i \in Slots /\ 1 .. i = 1 .. count \cup {i}
        BY <1>1 DEF Slots, FriendSlotsAssumption
    <2> HIDE DEF u, t, i
    <2>4. /\ slots' \in [Slots -> SlotRecords] /\ count' \in {0} \cup Slots
          /\ \A j \in 1 .. count' : slots'[j].id # None
          /\ \A j \in Slots : slots[j].id # None => slots'[j].id # None
      <3>1. CASE count < MaxFriends
        <4>1. /\ slots' \in [Slots -> SlotRecords] /\ slots'[i].id = u
              /\ \A j \in Slots : j # i => slots'[j] = slots[j]
            BY <2>1, <2>2, <2>3, <3>1, RowPut
        <4>2. u # None
            BY <2>2 DEF FriendSlotsAssumption
        <4>3. \A j \in 1 .. count : slots[j].id # None
            BY DEF Filled
        <4>4. QED
            BY <1>1, <2>1, <2>3, <3>1, <4>1, <4>2, <4>3
      <3>2. CASE ~(count < MaxFriends)
          BY <1>1, <2>1, <3>2 DEF TypeOK, SlotRecords, Filled
      <3>3. QED
          BY <3>1, <3>2
    <2>5. active' \in {0} \cup Slots /\ (active # 0 => active' = active)
        BY <1>1, <2>1, <2>4, DrawnIs
    <2>6. TypeOK'
        BY <1>2, <1>3, <1>4, <2>1, <2>4, <2>5 DEF TypeOK, SlotRecords
    <2>7. Filled'
        BY <1>1, <1>4, <2>1, <2>4, <2>5 DEF Filled
    <2>8. QED
        BY <2>6, <2>7
  <1>7. CASE ReceiveListEnd
    <2> DEFINE S == Accepted(count, slots)
               first == Min(S)
               opens == screen = "dms" /\ S # {}
               a == IF opens THEN first ELSE active
               r == [kind |-> "history", id |-> slots[first].id]
    <2>1. /\ UNCHANGED <<slots, count, screen>> /\ Drawn(a) /\ draft' = Relisted /\ listed' = TRUE
          /\ up' = IF opens THEN Append(up, r) ELSE up
        BY <1>7 DEF ReceiveListEnd
    <2>2. S # {} => first \in 1 .. count /\ first \in Slots /\ first # 0 /\ slots[first].id # None
      <3>1. S # {} => first \in 1 .. count
          BY <1>1, FriendsAre
      <3> HIDE DEF S, first
      <3>2. QED
          BY <1>1, <3>1 DEF Filled
    <2>3. opens => r \in Requests
        BY <2>2, Words DEF TypeOK
    <2>4. a \in {0} \cup Slots
        BY <1>1, <2>2
    <2>5. a # 0 => slots[a].id # None \/ a = active
        BY <2>2
    <2>6. active # 0 => a # 0
        BY <2>2
    <2> HIDE DEF S, first, opens, a, r
    <2>7. active' \in {0} \cup Slots /\ (a # 0 => active' = a)
        BY <1>1, <2>1, <2>4, DrawnIs
    <2>8. up' \in Seq(Requests)
        BY <2>1, <2>3, AppendProperties DEF TypeOK
    <2>9. TypeOK'
        BY <1>2, <1>3, <1>4, <2>1, <2>7, <2>8 DEF TypeOK
    <2>10. Filled'
        BY <1>4, <2>1, <2>5, <2>6, <2>7 DEF Filled
    <2>11. QED
        BY <2>9, <2>10
  <1>8. ASSUME NEW adds \in BOOLEAN, Head(down).kind \in {"start", "message"},
               Files(Head(down).id, adds), Drawn(active)
        PROVE  TypeOK' /\ Filled'
    <2> DEFINE u == Head(down).id
    <2>1. u \in Users /\ Files(u, adds)
        BY <1>3, <1>8, Words
    <2> HIDE DEF u
    <2>2. /\ slots' \in [Slots -> SlotRecords] /\ \A j \in Slots : slots'[j].id = slots[j].id
          /\ UNCHANGED <<table, up, screen, count, draft, listed>>
        BY <2>1, FilesIs
    <2>3. active' \in {0} \cup Slots /\ (active # 0 => active' = active)
        BY <1>1, <1>8, <2>2, DrawnIs
    <2>4. TypeOK'
        BY <1>3, <2>2, <2>3 DEF TypeOK, SlotRecords
    <2>5. Filled'
        BY <1>1, <2>2, <2>3 DEF Filled
    <2>6. QED
        BY <2>4, <2>5
  <1>9. QED
      BY <1>5, <1>6, <1>7, <1>8 DEF Receive, ReceiveStart, ReceiveMessage, Gets

LEMMA RestartTyped ==
  ASSUME FriendSlotsAssumption, TypeOK, Restart
  PROVE  TypeOK' /\ Filled'
  <1>1. NoSlots \in [Slots -> SlotRecords]
      BY DEF NoSlots, SlotRecords, Types
  <1>2. <<>> \in Seq(Requests) /\ <<>> \in Seq(Packets)
      BY EmptySeq
  <1>3. TypeOK'
      BY <1>1, <1>2 DEF Restart, TypeOK, SlotRecords
  <1>4. Filled'
      BY DEF Restart, Filled
  <1>5. QED
      BY <1>3, <1>4

LEMMA NextTyped ==
  ASSUME FriendSlotsAssumption, TypeOK, Filled, [Next]_vars
  PROVE  TypeOK' /\ Filled'
  <1>1. CASE UNCHANGED vars
      BY <1>1 DEF vars, TypeOK, Filled
  <1>2. CASE stuck = "no" /\ TabFails
    <2>1. /\ stuck' \in {"crashed", "looping"}
          /\ UNCHANGED <<table, up, down, screen, slots, count, active, draft, listed>>
        BY <1>2 DEF TabFails, view
    <2>2. QED
        BY <2>1 DEF TypeOK, Filled
  <1>3. QED
      BY <1>1, <1>2, KeyTyped, ReceiveTyped, ServeTyped, RestartTyped DEF Next

(* Every variable keeps its type, and a slot in use always has a user: the *)
(* index of the active friend stays in ui_friends whatever is received.    *)
THEOREM Typing == Spec => []TypeOK
  <1>1. Init => TypeOK /\ Filled
      BY FriendSlotsAssumption, InitTyped
  <1>2. TypeOK /\ Filled /\ [Next]_vars => TypeOK' /\ Filled'
      BY FriendSlotsAssumption, NextTyped
  <1>3. QED
      BY <1>1, <1>2, PTL DEF Spec

(* What is typed goes to the user it was begun for unless a list has been  *)
(* received since: no key of this client, and no message, moves a draft.   *)
THEOREM ListsRedirect == Spec => OnlyListsRedirect
  <1>1. Init => TypeOK /\ Filled
      BY FriendSlotsAssumption, InitTyped
  <1>2. TypeOK /\ Filled /\ [Next]_vars => TypeOK' /\ Filled'
      BY FriendSlotsAssumption, NextTyped
  <1>3. Filled => [Send => draft.relisted \/ slots[active].id = draft.meant]_vars
      BY DEF Filled, Send
  <1>4. QED
      BY <1>1, <1>2, <1>3, PTL DEF Spec, OnlyListsRedirect

-----------------------------------------------------------------------------
(* The frames of lists among the packets on their way. *)

LEMMA OnlyFirst ==
  ASSUME NEW T, NEW d \in Seq(T), d # <<>>, NEW S
  PROVE  /\ Head(d) \in S => /\ Only(d, S) # <<>> /\ Head(Only(d, S)) = Head(d)
                             /\ Tail(Only(d, S)) = Only(Tail(d), S)
         /\ Head(d) \notin S => Only(d, S) = Only(Tail(d), S)
  <1> DEFINE h == Head(d)
             one == Append(<<>>, h)
             t == Tail(d)
             o == Only(t, S)
  <1>1. h \in T /\ t \in Seq(T)
      BY FirstTaken
  <1>2. <<>> \in Seq(T) /\ one \in Seq(T)
      BY <1>1
  <1>3. d = one \o t
      BY <1>1
  <1>4. Only(<<>>, S) = <<>>
      BY OnlyEmpty
  <1> HIDE DEF h, one, t
  <1>5. Only(Append(<<>>, h), S) = IF h \in S THEN Append(Only(<<>>, S), h) ELSE Only(<<>>, S)
      BY <1>1, <1>2, OnlyAppend
  <1>6. Only(d, S) = Only(one, S) \o o
      BY <1>1, <1>2, <1>3, OnlyJoin
  <1>7. o \in Seq(T)
      BY <1>1, OnlyIn
  <1>8. h \in S => Only(d, S) = Append(<<>>, h) \o o
      BY <1>4, <1>5, <1>6 DEF one
  <1>9. h \notin S => Only(d, S) = <<>> \o o
      BY <1>4, <1>5, <1>6 DEF one
  <1> HIDE DEF o
  <1>10. /\ Append(<<>>, h) \o o # <<>> /\ Head(Append(<<>>, h) \o o) = h
         /\ Tail(Append(<<>>, h) \o o) = o /\ <<>> \o o = o
      BY <1>1, <1>7
  <1>11. QED
      BY <1>8, <1>9, <1>10 DEF h, t, o

LEMMA SuffixAt ==
  ASSUME NEW T, NEW s \in Seq(T), NEW t \in Seq(T), IsSuffix(s, t)
  PROVE  /\ Len(s) \in Nat /\ Len(t) \in Nat /\ Len(s) <= Len(t)
         /\ \A k \in 1 .. Len(s) : s[k] = t[Len(t) - Len(s) + k]
         /\ Len(s) = Len(t) => s = t
  <1>1. PICK u \in Seq(T) : t = u \o s
      BY SuffixRest
  <1>2. Len(u) \in Nat /\ Len(s) \in Nat /\ Len(t) = Len(u) + Len(s)
      BY <1>1
  <1>3. \A k \in 1 .. Len(s) : t[Len(u) + k] = s[k]
      BY <1>1
  <1>4. Len(s) = Len(t) => s = t
    <2>1. ASSUME Len(u) = 0
          PROVE  s = t
        BY <1>1, <2>1
    <2>2. QED
        BY <1>2, <2>1
  <1>5. QED
      BY <1>2, <1>3, <1>4

LEMMA SuffixTail ==
  ASSUME NEW T, NEW s \in Seq(T), s # <<>>
  PROVE  IsSuffix(Tail(s), s)
  <1> DEFINE one == <<Head(s)>>
             t == Tail(s)
  <1>1. one \in Seq(T) /\ t \in Seq(T) /\ s = one \o t
    <2>1. Head(s) \in T /\ t \in Seq(T)
        BY FirstTaken
    <2>2. QED
        BY <2>1
  <1> HIDE DEF one, t
  <1>2. QED
      BY <1>1, SuffixJoin DEF t

(* A friend command's list and a row of it, as they are sent.              *)
ListPackets == [kind : {"listStart", "listEnd"}] \cup RowPackets
Frames == Only(down, ListPackets)

LEMMA FrameKinds ==
  /\ ListPackets \subseteq Packets
  /\ \A p \in Packets : p \in ListPackets <=> p.kind \in {"listStart", "listRow", "listEnd"}
  BY DEF ListPackets, Packets, RowPackets

(* The frames of a list, one by one.                                       *)
LEMMA FramesAre ==
  ASSUME NEW t \in Seq(TableRows)
  PROVE  /\ ListFrames(t) \in Seq(ListPackets) /\ Only(ListFrames(t), ListPackets) = ListFrames(t)
         /\ Len(FriendList(t)) \in Nat /\ Len(ListFrames(t)) = Len(FriendList(t)) + 2
         /\ ListFrames(t)[1].kind = "listStart"
         /\ \A k \in 1 .. Len(FriendList(t)) : /\ ListFrames(t)[k + 1] = FriendList(t)[k]
                                               /\ FriendList(t)[k] \in RowPackets
         /\ ListFrames(t)[Len(FriendList(t)) + 2].kind = "listEnd"
  <1> DEFINE f == FriendList(t)
             a == [kind |-> "listStart"]
             z == [kind |-> "listEnd"]
             g == (<<a>> \o f) \o <<z>>
  <1>1. f \in Seq(RowPackets)
      BY ListIs
  <1>2. f \in Seq(ListPackets)
      BY <1>1, SeqMonotonic DEF ListPackets
  <1>3. a \in ListPackets /\ z \in ListPackets /\ a.kind = "listStart" /\ z.kind = "listEnd"
      BY DEF ListPackets
  <1>4. ListFrames(t) = g
      BY DEF ListFrames
  <1> HIDE DEF f, a, z
  <1>5. Len(f) \in Nat /\ \A k \in 1 .. Len(f) : f[k] \in RowPackets
      BY <1>1
  <1>6. g \in Seq(ListPackets) /\ Len(g) = Len(f) + 2
      BY <1>2, <1>3
  <1>7. g[1] = a /\ g[Len(f) + 2] = z
      BY <1>2, <1>3
  <1>8. \A k \in 1 .. Len(f) : g[k + 1] = f[k]
      BY <1>2, <1>3
  <1> HIDE DEF g
  <1>9. Only(g, ListPackets) = g
    <2>1. ToSet(g) \subseteq ListPackets
        BY <1>6, ToSetIn
    <2>2. QED
        BY <1>6, <2>1, OnlyAll
  <1>10. QED
      BY <1>3, <1>4, <1>5, <1>6, <1>7, <1>8, <1>9 DEF f

-----------------------------------------------------------------------------
(* Requests on their way: a friend command is followed by a request for    *)
(* the list.                                                               *)
Followed(q) ==
  \A k \in DOMAIN q : q[k].kind = "command" => \E l \in DOMAIN q : k < l /\ q[l].kind = "list"

LEMMA FollowedAppend ==
  ASSUME NEW q \in Seq(Requests), NEW r \in Requests, Followed(q), r.kind # "command"
  PROVE  Followed(Append(q, r))
  <1> DEFINE t == Append(q, r)
  <1>1. /\ Len(q) \in Nat /\ t \in Seq(Requests) /\ Len(t) = Len(q) + 1 /\ t[Len(q) + 1] = r
        /\ \A k \in 1 .. Len(q) : t[k] = q[k] /\ k \in 1 .. Len(q) + 1
        /\ \A k \in 1 .. Len(q) + 1 : k \in 1 .. Len(q) \/ k = Len(q) + 1
      BY OneAdded
  <1>2. DOMAIN q = 1 .. Len(q) /\ DOMAIN t = 1 .. Len(q) + 1
      BY <1>1
  <1> HIDE DEF t
  <1>3. SUFFICES ASSUME NEW k \in DOMAIN t, t[k].kind = "command"
                 PROVE  \E l \in DOMAIN t : k < l /\ t[l].kind = "list"
      BY DEF Followed, t
  <1>4. k \in 1 .. Len(q) /\ q[k].kind = "command"
      BY <1>1, <1>2, <1>3
  <1>5. PICK l \in 1 .. Len(q) : k < l /\ q[l].kind = "list"
      BY <1>2, <1>4 DEF Followed
  <1>6. QED
      BY <1>1, <1>2, <1>5

LEMMA FollowedCommand ==
  ASSUME NEW q \in Seq(Requests), NEW c \in Requests, NEW r \in Requests, Followed(q), r.kind = "list"
  PROVE  Followed(Append(Append(q, c), r)) /\ Has(Append(Append(q, c), r), "list")
  <1> DEFINE s == Append(q, c)
             t == Append(s, r)
  <1>1. s \in Seq(Requests)
      OBVIOUS
  <1> HIDE DEF s
  <1>2. /\ Len(s) \in Nat /\ t \in Seq(Requests) /\ Len(t) = Len(s) + 1 /\ t[Len(s) + 1] = r
        /\ \A k \in 1 .. Len(s) : t[k] = s[k] /\ k \in 1 .. Len(s) + 1
        /\ \A k \in 1 .. Len(s) + 1 : k \in 1 .. Len(s) \/ k = Len(s) + 1
      BY <1>1, OneAdded
  <1>3. DOMAIN t = 1 .. Len(s) + 1 /\ Len(s) + 1 \in DOMAIN t
      BY <1>2
  <1> HIDE DEF t
  <1>4. ASSUME NEW k \in DOMAIN t, t[k].kind = "command"
        PROVE  \E l \in DOMAIN t : k < l /\ t[l].kind = "list"
    <2>1. k \in 1 .. Len(s) /\ k < Len(s) + 1
        BY <1>2, <1>3, <1>4
    <2>2. QED
        BY <1>2, <1>3, <2>1
  <1>5. Followed(t)
      BY <1>4 DEF Followed
  <1>6. Has(t, "list")
      BY <1>2, <1>3 DEF Has
  <1>7. QED
      BY <1>5, <1>6 DEF s, t

LEMMA FollowedTail ==
  ASSUME NEW q \in Seq(Requests), q # <<>>, Followed(q)
  PROVE  /\ Followed(Tail(q))
         /\ Head(q).kind = "command" => Has(Tail(q), "list")
  <1> DEFINE t == Tail(q)
  <1>1. /\ Len(q) \in Nat \ {0} /\ Head(q) = q[1] /\ t \in Seq(Requests) /\ Len(t) = Len(q) - 1
        /\ \A k \in 1 .. Len(t) : t[k] = q[k + 1] /\ k + 1 \in 1 .. Len(q)
        /\ \A k \in 2 .. Len(q) : k - 1 \in 1 .. Len(t) /\ q[k] = t[k - 1]
      BY FirstTaken
  <1>2. DOMAIN q = 1 .. Len(q) /\ DOMAIN t = 1 .. Len(t)
      BY <1>1
  <1> HIDE DEF t
  <1>3. ASSUME NEW k \in DOMAIN t, t[k].kind = "command"
        PROVE  \E l \in DOMAIN t : k < l /\ t[l].kind = "list"
    <2>1. k + 1 \in 1 .. Len(q) /\ q[k + 1].kind = "command" /\ k \in Nat
        BY <1>1, <1>2, <1>3
    <2>2. PICK l \in 1 .. Len(q) : k + 1 < l /\ q[l].kind = "list"
        BY <1>2, <2>1 DEF Followed
    <2>3. l \in 2 .. Len(q) /\ k < l - 1
        BY <2>1, <2>2
    <2>4. QED
        BY <1>1, <1>2, <2>2, <2>3
  <1>4. Head(q).kind = "command" => Has(t, "list")
    <2>1. SUFFICES ASSUME q[1].kind = "command"
                   PROVE  \E l \in DOMAIN t : t[l].kind = "list"
        BY <1>1 DEF Has
    <2>2. 1 \in DOMAIN q
        BY <1>1, <1>2
    <2>3. PICK l \in 1 .. Len(q) : 1 < l /\ q[l].kind = "list"
        BY <1>2, <2>1, <2>2 DEF Followed
    <2>4. l \in 2 .. Len(q)
        BY <2>3
    <2>5. QED
        BY <1>1, <1>2, <2>3, <2>4
  <1>5. QED
      BY <1>3, <1>4 DEF Followed, t

-----------------------------------------------------------------------------
(* The list comes in. *)

ListAsked == Has(up, "list")
Settled == ~ListAsked /\ Frames = <<>>

(* The slots hold the first n rows of the list, as far as they go.         *)
Holds(n) ==
  /\ count <= n /\ (count = n \/ count = MaxFriends)
  /\ \A i \in 1 .. count :
       slots[i].id = FriendList(table)[i].id /\ slots[i].type = FriendList(table)[i].type

(* Unless a list is still to be asked for, the frames on their way end     *)
(* with the whole list, or are the rest of it and the slots hold what came *)
(* before, or are none.                                                    *)
WholeComing == IsSuffix(ListFrames(table), Frames)
RestComing ==
  /\ Frames # <<>> /\ IsSuffix(Frames, ListFrames(table))
  /\ Holds(Len(ListFrames(table)) - Len(Frames) - 1)
NoneComing == Frames = <<>> /\ IF listed THEN Holds(Len(FriendList(table))) ELSE count = 0

Follows == ~ListAsked => WholeComing \/ RestComing \/ NoneComing

(* Nothing happens to a list.                                              *)
Unlisted ==
  /\ Frames' = Frames
  /\ ListAsked => ListAsked'
  /\ UNCHANGED <<table, count, listed>>
  /\ \A i \in Slots : slots'[i].id = slots[i].id /\ slots'[i].type = slots[i].type

(* A list is sent, or is to be asked for.                                  *)
Sent == ListAsked' \/ Frames' = Frames \o ListFrames(table)'

(* The list is given up.                                                   *)
Dropped == Frames' = <<>> /\ listed' = FALSE /\ count' = 0

(* A frame of it comes in.                                                 *)
Framed(kind) ==
  /\ Frames # <<>> /\ Head(Frames).kind = kind /\ Frames' = Tail(Frames)
  /\ UNCHANGED <<table, up>>

Started == Framed("listStart") /\ count' = 0 /\ UNCHANGED <<slots, listed>>

Rowed ==
  /\ Framed("listRow") /\ UNCHANGED listed
  /\ IF count < MaxFriends
       THEN /\ count' = count + 1
            /\ slots'[count + 1].id = Head(Frames).id /\ slots'[count + 1].type = Head(Frames).type
            /\ \A i \in Slots : i # count + 1 => slots'[i] = slots[i]
       ELSE UNCHANGED <<slots, count>>

Ended ==
  /\ Frames # <<>> /\ Head(Frames).kind = "listEnd" /\ Frames' = Tail(Frames)
  /\ listed' = TRUE /\ UNCHANGED <<table, slots, count>>
  /\ ListAsked => ListAsked'

LEMMA WholeTail ==
  ASSUME NEW P, NEW d \in Seq(P), NEW l \in Seq(P), l # <<>>, IsSuffix(l, d)
  PROVE  d # <<>> /\ (d = l \/ IsSuffix(l, Tail(d)))
  <1>1. /\ Len(l) \in Nat /\ Len(d) \in Nat /\ Len(l) <= Len(d)
        /\ Len(l) = Len(d) => d = l
      BY SuffixAt
  <1>2. Len(l) # 0
      BY EmptySeq
  <1>3. d # <<>>
      BY <1>1, <1>2
  <1>4. Tail(d) \in Seq(P) /\ Len(Tail(d)) = Len(d) - 1
      BY <1>3, FirstTaken
  <1>5. IsSuffix(Tail(d), d)
      BY <1>3, SuffixTail
  <1>6. Len(l) # Len(d) => Len(l) <= Len(Tail(d))
      BY <1>1, <1>4
  <1> DEFINE t == Tail(d)
  <1> HIDE DEF t
  <1>7. t \in Seq(P) /\ IsSuffix(t, d) /\ (Len(l) # Len(d) => Len(l) <= Len(t))
      BY <1>4, <1>5, <1>6 DEF t
  <1>8. Len(l) # Len(d) => IsSuffix(l, t)
      BY <1>7, SuffixNested
  <1>9. QED
      BY <1>1, <1>3, <1>8 DEF t

LEMMA RestTail ==
  ASSUME NEW P, NEW d \in Seq(P), NEW l \in Seq(P), d # <<>>, IsSuffix(d, l)
  PROVE  /\ Len(d) \in 1 .. Len(l) /\ Len(l) \in Nat
         /\ Head(d) = l[Len(l) - Len(d) + 1]
         /\ Tail(d) \in Seq(P) /\ Len(Tail(d)) = Len(d) - 1 /\ IsSuffix(Tail(d), l)
  <1>1. /\ Len(d) \in Nat /\ Len(l) \in Nat /\ Len(d) <= Len(l)
        /\ \A k \in 1 .. Len(d) : d[k] = l[Len(l) - Len(d) + k]
      BY SuffixAt
  <1>2. Len(d) \in Nat \ {0} /\ Head(d) = d[1] /\ Tail(d) \in Seq(P) /\ Len(Tail(d)) = Len(d) - 1
      BY FirstTaken
  <1> DEFINE t == Tail(d)
  <1>3. t \in Seq(P) /\ IsSuffix(t, d)
      BY <1>2, SuffixTail
  <1> HIDE DEF t
  <1>4. IsSuffix(t, l)
      BY <1>3, SuffixTrans
  <1>5. d[1] = l[Len(l) - Len(d) + 1]
      BY <1>1, <1>2
  <1>6. QED
      BY <1>1, <1>2, <1>4, <1>5 DEF t

LEMMA FramesIn ==
  ASSUME TypeOK
  PROVE  Frames \in Seq(ListPackets)
  <1>1. down \in Seq(Packets)
      BY DEF TypeOK
  <1>2. Frames \in Seq(Packets \cap ListPackets)
      BY <1>1, OnlyTyped DEF Frames
  <1>3. Packets \cap ListPackets = ListPackets
      BY FrameKinds
  <1>4. QED
      BY <1>2, <1>3

(* What a list has brought stays while nothing happens to it.              *)
LEMMA HoldsKept ==
  ASSUME FriendSlotsAssumption, TypeOK, NEW n, Holds(n), table' = table, count' = count,
         \A i \in Slots : slots'[i].id = slots[i].id /\ slots'[i].type = slots[i].type
  PROVE  Holds(n)'
  <1>1. 1 .. count \subseteq Slots
      BY FriendsAre DEF TypeOK
  <1>2. QED
      BY <1>1 DEF Holds

LEMMA UnlistedFollows ==
  ASSUME FriendSlotsAssumption, TypeOK, Follows, Unlisted
  PROVE  Follows'
  <1>1. SUFFICES ASSUME ~ListAsked'
                 PROVE  (WholeComing \/ RestComing \/ NoneComing)'
      BY DEF Follows
  <1>2. WholeComing \/ RestComing \/ NoneComing
      BY <1>1 DEF Follows, Unlisted
  <1>3. /\ Frames' = Frames /\ table' = table /\ count' = count /\ listed' = listed
        /\ \A i \in Slots : slots'[i].id = slots[i].id /\ slots'[i].type = slots[i].type
      BY DEF Unlisted
  <1>4. ListFrames(table)' = ListFrames(table) /\ FriendList(table)' = FriendList(table)
      BY <1>3
  <1>5. ASSUME NEW n, Holds(n)
        PROVE  Holds(n)'
      BY <1>3, <1>5, HoldsKept
  <1>6. CASE WholeComing
    <2>1. IsSuffix(ListFrames(table), Frames)
        BY <1>6 DEF WholeComing
    <2>2. IsSuffix(ListFrames(table)', Frames')
        BY <1>3, <1>4, <2>1
    <2>3. QED
        BY <2>2 DEF WholeComing
  <1>7. CASE RestComing
    <2>1. PICK n : n = Len(ListFrames(table)) - Len(Frames) - 1
        OBVIOUS
    <2>2. Holds(n)'
        BY <1>5, <1>7, <2>1 DEF RestComing
    <2>3. n = (Len(ListFrames(table)) - Len(Frames) - 1)'
        BY <1>3, <1>4, <2>1
    <2>4. Holds(Len(ListFrames(table)) - Len(Frames) - 1)'
        BY <2>2, <2>3
    <2>5. QED
        BY <1>3, <1>4, <1>7, <2>4 DEF RestComing
  <1>8. CASE NoneComing
    <2>1. PICK n : n = Len(FriendList(table))
        OBVIOUS
    <2>2. listed => Holds(n)'
        BY <1>5, <1>8, <2>1 DEF NoneComing
    <2>3. listed' => Holds(Len(FriendList(table)))'
        BY <1>3, <1>4, <2>1, <2>2
    <2>4. QED
        BY <1>3, <1>8, <2>3 DEF NoneComing
  <1>9. QED
      BY <1>2, <1>6, <1>7, <1>8

LEMMA SentFollows ==
  ASSUME TypeOK, TypeOK', Sent
  PROVE  Follows'
  <1> DEFINE l == ListFrames(table)
             d == Frames
  <1>1. table' \in Seq(TableRows)
      BY DEF TypeOK
  <1>2. l' \in Seq(ListPackets) /\ d \in Seq(ListPackets)
      BY <1>1, FramesAre, FramesIn
  <1>3. ListAsked' \/ d' = d \o l'
      BY DEF Sent
  <1> HIDE DEF l, d
  <1>4. IsSuffix(l', d \o l')
      BY <1>2, SuffixJoin
  <1>5. ListAsked' \/ IsSuffix(l', d')
      BY <1>3, <1>4
  <1>6. WholeComing' <=> IsSuffix(l', d')
      BY DEF WholeComing, l, d
  <1>7. QED
      BY <1>5, <1>6 DEF Follows

LEMMA DroppedFollows ==
  ASSUME Dropped
  PROVE  Follows'
  BY DEF Dropped, Follows, NoneComing

(* A frame comes in, and more frames with the whole list are behind it.    *)
LEMMA WholeStays ==
  ASSUME TypeOK, Frames # <<>>, WholeComing, Frames' = Tail(Frames), table' = table,
         Head(Frames).kind # "listStart"
  PROVE  WholeComing'
  <1> DEFINE l == ListFrames(table)
             d == Frames
  <1>1. table \in Seq(TableRows)
      BY DEF TypeOK
  <1>2. /\ l \in Seq(ListPackets) /\ Len(l) = Len(FriendList(table)) + 2 /\ Len(FriendList(table)) \in Nat
        /\ l[1].kind = "listStart"
      BY <1>1, FramesAre
  <1>3. d \in Seq(ListPackets) /\ d # <<>> /\ Head(d).kind # "listStart" /\ IsSuffix(l, d) /\ d' = Tail(d)
      BY FramesIn DEF WholeComing
  <1>4. l' = l
      OBVIOUS
  <1>5. WholeComing' <=> IsSuffix(l', d')
      BY DEF WholeComing
  <1> HIDE DEF l, d
  <1>6. l # <<>> /\ Head(l) = l[1]
      BY <1>2
  <1>7. d = l \/ IsSuffix(l, Tail(d))
      BY <1>2, <1>3, <1>6, WholeTail
  <1>8. d # l
      BY <1>2, <1>3, <1>6
  <1>9. QED
      BY <1>3, <1>4, <1>5, <1>7, <1>8

LEMMA StartedFollows ==
  ASSUME FriendSlotsAssumption, TypeOK, Follows, Started
  PROVE  Follows'
  <1> DEFINE l == ListFrames(table)
             d == Frames
             f == FriendList(table)
  <1>1. table \in Seq(TableRows)
      BY DEF TypeOK
  <1>2. /\ l \in Seq(ListPackets) /\ Len(l) = Len(f) + 2 /\ Len(f) \in Nat
        /\ \A k \in 1 .. Len(f) : l[k + 1] = f[k] /\ f[k] \in RowPackets
        /\ l[Len(f) + 2].kind = "listEnd"
      BY <1>1, FramesAre
  <1>3. /\ d \in Seq(ListPackets) /\ d # <<>> /\ Head(d).kind = "listStart" /\ d' = Tail(d)
        /\ table' = table /\ up' = up /\ count' = 0
      BY FramesIn DEF Started, Framed
  <1>4. l' = l /\ f' = f
      BY <1>3
  <1>5. SUFFICES ASSUME ~ListAsked
                 PROVE  (WholeComing \/ RestComing)'
      BY <1>3 DEF Follows, ListAsked
  <1>6. CASE WholeComing
    <2>1. IsSuffix(l, d)
        BY <1>6 DEF WholeComing
    <2>2. (WholeComing' <=> IsSuffix(l', d')) /\ (RestComing' <=> d' # <<>> /\ IsSuffix(d', l') /\ Holds(Len(l) - Len(d) - 1)')
        BY DEF WholeComing, RestComing
    <2> HIDE DEF l, d
    <2>3. l # <<>>
        BY <1>2
    <2>4. d = l \/ IsSuffix(l, Tail(d))
        BY <1>2, <1>3, <2>1, <2>3, WholeTail
    <2>5. CASE d = l
      <3>1. Len(d') = Len(f) + 1 /\ d' # <<>>
        <4>1. Len(d) = Len(f) + 2 /\ Len(f) \in Nat
            BY <1>2, <2>5
        <4>2. Tail(d) \in Seq(ListPackets) /\ Len(Tail(d)) = Len(d) - 1
            BY <1>3, FirstTaken
        <4>3. Len(Tail(d)) = Len(f) + 1 /\ Len(Tail(d)) # 0
            BY <4>1, <4>2
        <4>4. QED
            BY <1>3, <4>3, EmptySeq
      <3>2. IsSuffix(d', l')
          BY <1>2, <1>3, <1>4, <2>3, <2>5, SuffixTail
      <3>3. (Len(l) - Len(d) - 1)' = 0
          BY <1>2, <1>4, <3>1
      <3>4. Holds(0)'
        <4>1. count' = 0 /\ count' <= 0 /\ 1 .. count' = {}
            BY <1>3
        <4>2. QED
            BY <4>1 DEF Holds
      <3>5. Holds(Len(l) - Len(d) - 1)'
          BY <3>3, <3>4
      <3>6. QED
          BY <2>2, <3>1, <3>2, <3>5
    <2>6. QED
        BY <1>3, <1>4, <2>2, <2>4, <2>5
  <1>7. CASE RestComing
    <2>1. IsSuffix(d, l) /\ Holds(Len(l) - Len(d) - 1)
        BY <1>7 DEF RestComing
    <2>2. count \in Nat
        BY FriendsAre DEF TypeOK
    <2>3. count <= Len(l) - Len(d) - 1
        BY <2>1 DEF Holds
    <2> HIDE DEF l, d, f
    <2>4. Head(d) = l[Len(l) - Len(d) + 1] /\ Len(d) \in 1 .. Len(l) /\ Len(l) \in Nat
        BY <1>2, <1>3, <2>1, RestTail
    <2> DEFINE k == Len(l) - Len(d)
    <2>5. k \in 1 .. Len(f) + 1 /\ Head(d) = l[k + 1]
        BY <1>2, <2>2, <2>3, <2>4
    <2> HIDE DEF k
    <2>6. Head(d).kind # "listStart"
      <3>1. CASE k \in 1 .. Len(f)
          BY <1>2, <2>5, <3>1, Words
      <3>2. CASE k = Len(f) + 1
        <4>1. k + 1 = Len(f) + 2
            BY <1>2, <3>2
        <4>2. QED
            BY <1>2, <2>5, <4>1
      <3>3. QED
          BY <2>5, <3>1, <3>2
    <2>7. QED
        BY <1>3, <2>6
  <1>8. CASE NoneComing
      BY <1>3, <1>8 DEF NoneComing
  <1>9. QED
      BY <1>5, <1>6, <1>7, <1>8 DEF Follows

(* The frame at the head of the rest of a list.                            *)
LEMMA RestHead ==
  ASSUME FriendSlotsAssumption, TypeOK, RestComing
  PROVE  \E n \in 0 .. Len(FriendList(table)) :
           /\ Holds(n) /\ Len(FriendList(table)) \in Nat
           /\ Len(Frames) = Len(FriendList(table)) - n + 1
           /\ Head(Frames).kind = "listEnd" => n = Len(FriendList(table))
           /\ Head(Frames).kind = "listRow" => /\ n < Len(FriendList(table))
                                               /\ Head(Frames) = FriendList(table)[n + 1]
           /\ Head(Frames).kind # "listStart"
           /\ Tail(Frames) \in Seq(ListPackets) /\ Len(Tail(Frames)) = Len(Frames) - 1
           /\ IsSuffix(Tail(Frames), ListFrames(table))
  <1> DEFINE l == ListFrames(table)
             d == Frames
             f == FriendList(table)
             n == Len(l) - Len(d) - 1
  <1>1. table \in Seq(TableRows)
      BY DEF TypeOK
  <1>2. /\ l \in Seq(ListPackets) /\ Len(l) = Len(f) + 2 /\ Len(f) \in Nat
        /\ \A k \in 1 .. Len(f) : l[k + 1] = f[k] /\ f[k] \in RowPackets
        /\ l[Len(f) + 2].kind = "listEnd"
      BY <1>1, FramesAre
  <1>3. d \in Seq(ListPackets) /\ d # <<>> /\ IsSuffix(d, l) /\ Holds(n)
      BY FramesIn DEF RestComing
  <1>4. count \in Nat
      BY FriendsAre DEF TypeOK
  <1>5. count <= n
      BY <1>3 DEF Holds
  <1> HIDE DEF l, d, f
  <1>6. /\ Len(d) \in 1 .. Len(l) /\ Len(l) \in Nat /\ Head(d) = l[Len(l) - Len(d) + 1]
        /\ Tail(d) \in Seq(ListPackets) /\ Len(Tail(d)) = Len(d) - 1 /\ IsSuffix(Tail(d), l)
      BY <1>2, <1>3, RestTail
  <1>7. n \in 0 .. Len(f) /\ Len(d) = Len(f) - n + 1 /\ Head(d) = l[n + 2]
    <2>1. Len(l) - Len(d) + 1 = n + 2 /\ n \in Int
        BY <1>6
    <2>2. n \in 0 .. Len(f) /\ Len(d) = Len(f) - n + 1
        BY <1>2, <1>4, <1>5, <1>6
    <2>3. QED
        BY <1>6, <2>1, <2>2
  <1> HIDE DEF n
  <1>8. \A p \in RowPackets : p.kind = "listRow"
      BY Words
  <1>9. CASE n < Len(f)
    <2>1. n + 1 \in 1 .. Len(f) /\ (n + 1) + 1 = n + 2
        BY <1>2, <1>7, <1>9
    <2>2. l[n + 2] = f[n + 1] /\ f[n + 1] \in RowPackets
        BY <1>2, <2>1
    <2>3. Head(d).kind = "listRow" /\ Head(d) = f[n + 1]
        BY <1>7, <1>8, <2>2
    <2>4. QED
        BY <1>2, <1>3, <1>6, <1>7, <1>9, <2>3 DEF l, d, f
  <1>10. CASE n = Len(f)
    <2>1. Head(d).kind = "listEnd"
        BY <1>2, <1>7, <1>10
    <2>2. QED
        BY <1>2, <1>3, <1>6, <1>7, <1>10, <2>1 DEF l, d, f
  <1>11. QED
      BY <1>2, <1>7, <1>9, <1>10

LEMMA RowedFollows ==
  ASSUME FriendSlotsAssumption, TypeOK, Follows, Rowed
  PROVE  Follows'
  <1> DEFINE l == ListFrames(table)
             d == Frames
             f == FriendList(table)
  <1>1. /\ d # <<>> /\ Head(d).kind = "listRow" /\ d' = Tail(d)
        /\ table' = table /\ up' = up
      BY DEF Rowed, Framed
  <1>2. SUFFICES ASSUME ~ListAsked
                 PROVE  (WholeComing \/ RestComing)'
      BY <1>1 DEF Follows, ListAsked
  <1>3. CASE WholeComing
      BY <1>1, <1>3, WholeStays
  <1>4. CASE RestComing
    <2>1. PICK n \in 0 .. Len(f) :
            /\ Holds(n) /\ Len(f) \in Nat /\ Len(d) = Len(f) - n + 1
            /\ n < Len(f) /\ Head(d) = f[n + 1]
            /\ Tail(d) \in Seq(ListPackets) /\ Len(Tail(d)) = Len(d) - 1 /\ IsSuffix(Tail(d), l)
        BY <1>1, <1>4, RestHead
    <2>2. table \in Seq(TableRows)
        BY DEF TypeOK
    <2>3. Len(l) = Len(f) + 2
        BY <2>2, FramesAre
    <2>4. l' = l /\ f' = f
        BY <1>1
    <2>5. RestComing' <=> d' # <<>> /\ IsSuffix(d', l') /\ Holds(Len(l) - Len(d) - 1)'
        BY DEF RestComing
    <2>6. /\ count \in Nat /\ count <= MaxFriends /\ MaxFriends \in Nat /\ 1 .. count \subseteq Slots
          /\ Slots = 1 .. MaxFriends
        BY FriendsAre DEF TypeOK, Slots, FriendSlotsAssumption
    <2>7. /\ count <= n /\ (count = n \/ count = MaxFriends)
          /\ \A i \in 1 .. count : slots[i].id = f[i].id /\ slots[i].type = f[i].type
        BY <2>1 DEF Holds
    <2> DEFINE m == n + 1
    <2>8. /\ count' <= m /\ (count' = m \/ count' = MaxFriends)
          /\ \A i \in 1 .. count' : slots'[i].id = f[i].id /\ slots'[i].type = f[i].type
      <3>1. CASE count < MaxFriends
        <4>1. /\ count' = m /\ slots'[m].id = Head(d).id /\ slots'[m].type = Head(d).type
              /\ \A i \in Slots : i # m => slots'[i] = slots[i]
              /\ count = n
          <5>1. count = n
              BY <2>6, <2>7, <3>1
          <5>2. QED
              BY <3>1, <5>1 DEF Rowed
        <4>2. \A i \in 1 .. m : i = m \/ (i \in 1 .. count /\ i \in Slots /\ i # m)
            BY <2>1, <2>6, <4>1
        <4>3. slots'[m].id = f[m].id /\ slots'[m].type = f[m].type
            BY <2>1, <4>1
        <4> HIDE DEF m, d, f
        <4>4. \A i \in 1 .. m : slots'[i].id = f[i].id /\ slots'[i].type = f[i].type
            BY <2>7, <4>1, <4>2, <4>3
        <4>5. m \in Nat
            BY <2>1 DEF m
        <4>6. QED
            BY <4>1, <4>4, <4>5
      <3>2. CASE ~(count < MaxFriends)
        <4>1. count' = count /\ slots' = slots /\ count = MaxFriends
            BY <2>6, <3>2 DEF Rowed
        <4>2. QED
            BY <2>1, <2>6, <2>7, <4>1
      <3>3. QED
          BY <3>1, <3>2
    <2>9. Holds(m)'
      <3>1. /\ count' <= m /\ (count' = m \/ count' = MaxFriends)
            /\ \A i \in 1 .. count' : slots'[i].id = f'[i].id /\ slots'[i].type = f'[i].type
          BY <2>4, <2>8
      <3> HIDE DEF m
      <3>2. QED
          BY <3>1 DEF Holds
    <2>10. (Len(l) - Len(d) - 1)' = m
      <3>1. Len(l') = Len(f) + 2 /\ Len(d') = Len(f) - n
          BY <1>1, <2>1, <2>3, <2>4
      <3>2. QED
          BY <2>1, <3>1
    <2>11. d' # <<>>
      <3> DEFINE t == Tail(d)
                 o == Len(f)
      <3>1. o \in Nat /\ n \in 0 .. o /\ n < o /\ Len(t) = (o - n + 1) - 1 /\ d' = t
          BY <1>1, <2>1
      <3> HIDE DEF t, o, d
      <3>2. Len(t) # 0
          BY <3>1
      <3>3. QED
          BY <3>1, <3>2, EmptySeq
    <2>12. Holds(Len(l) - Len(d) - 1)'
        BY <2>9, <2>10
    <2>13. QED
        BY <1>1, <2>1, <2>4, <2>5, <2>11, <2>12
  <1>5. CASE NoneComing
      BY <1>1, <1>5 DEF NoneComing
  <1>6. QED
      BY <1>2, <1>3, <1>4, <1>5 DEF Follows

LEMMA EndedFollows ==
  ASSUME FriendSlotsAssumption, TypeOK, Follows, Ended
  PROVE  Follows'
  <1> DEFINE d == Frames
             f == FriendList(table)
  <1>1. /\ d # <<>> /\ Head(d).kind = "listEnd" /\ d' = Tail(d) /\ listed' = TRUE
        /\ table' = table /\ slots' = slots /\ count' = count
      BY DEF Ended
  <1>2. SUFFICES ASSUME ~ListAsked
                 PROVE  (WholeComing \/ NoneComing)'
      BY DEF Follows, Ended
  <1>3. CASE WholeComing
      BY <1>1, <1>3, WholeStays
  <1>4. CASE RestComing
    <2>1. PICK n \in 0 .. Len(f) :
            /\ Holds(n) /\ Len(f) \in Nat /\ Len(d) = Len(f) - n + 1 /\ n = Len(f)
            /\ Tail(d) \in Seq(ListPackets) /\ Len(Tail(d)) = Len(d) - 1
        BY <1>1, <1>4, RestHead
    <2>2. Holds(n)'
        BY <1>1, <2>1, HoldsKept
    <2>3. n = Len(FriendList(table))'
        BY <1>1, <2>1
    <2>4. Holds(Len(FriendList(table)))'
        BY <2>2, <2>3
    <2>5. Len(Tail(d)) = 0
        BY <2>1
    <2>6. d' = <<>>
      <3> DEFINE t == Tail(d)
      <3>1. t \in Seq(ListPackets) /\ Len(t) = 0 /\ d' = t
          BY <1>1, <2>1, <2>5
      <3> HIDE DEF d, t
      <3>2. QED
          BY <3>1, EmptySeq
    <2>7. QED
        BY <1>1, <2>4, <2>6 DEF NoneComing
  <1>5. CASE NoneComing
      BY <1>1, <1>5 DEF NoneComing
  <1>6. QED
      BY <1>2, <1>3, <1>4, <1>5 DEF Follows

-----------------------------------------------------------------------------
(* What each step is to a list. *)

LEMMA FramesSame == ASSUME down' = down PROVE Frames' = Frames
  BY DEF Frames

LEMMA FramesAdd ==
  ASSUME TypeOK, NEW p \in Packets, p \notin ListPackets, down' = Append(down, p)
  PROVE  Frames' = Frames
  <1> DEFINE x == Only(down, ListPackets)
             y == Only(Append(down, p), ListPackets)
  <1>1. down \in Seq(Packets)
      BY DEF TypeOK
  <1>2. y = IF p \in ListPackets THEN Append(x, p) ELSE x
      BY <1>1, OnlyAppend
  <1>3. y = x
      BY <1>2
  <1>4. Frames' = y
      BY DEF Frames
  <1>5. QED
      BY <1>3, <1>4 DEF Frames

LEMMA FramesSent ==
  ASSUME TypeOK, NEW t \in Seq(TableRows), table' = t, down' = down \o ListFrames(t)
  PROVE  Sent
  <1> DEFINE l == ListFrames(t)
             x == Only(down, ListPackets)
             y == Only(down \o l, ListPackets)
             z == Only(l, ListPackets)
  <1>1. down \in Seq(Packets) /\ l \in Seq(Packets)
      BY FramesTyped DEF TypeOK
  <1>2. Frames' = y /\ Frames = x /\ l = ListFrames(table)'
      BY DEF Frames
  <1>3. z = l
      BY FramesAre
  <1> HIDE DEF l
  <1>4. y = x \o z
      BY <1>1, OnlyJoin
  <1> HIDE DEF x, y, z
  <1>5. Frames' = Frames \o ListFrames(table)'
      BY <1>2, <1>3, <1>4
  <1>6. QED
      BY <1>5 DEF Sent

LEMMA FramesTaken ==
  ASSUME TypeOK, down # <<>>, down' = Tail(down)
  PROVE  /\ Head(down) \in Packets
         /\ Head(down) \in ListPackets =>
              Frames # <<>> /\ Head(Frames) = Head(down) /\ Frames' = Tail(Frames)
         /\ Head(down) \notin ListPackets => Frames' = Frames
  <1> DEFINE x == Only(down, ListPackets)
             y == Only(Tail(down), ListPackets)
  <1>1. down \in Seq(Packets) /\ Head(down) \in Packets
      BY FirstTaken DEF TypeOK
  <1>2. /\ Head(down) \in ListPackets => x # <<>> /\ Head(x) = Head(down) /\ Tail(x) = y
        /\ Head(down) \notin ListPackets => x = y
      BY <1>1, OnlyFirst
  <1>3. Frames = x /\ Frames' = y
      BY DEF Frames
  <1> HIDE DEF x, y
  <1>4. QED
      BY <1>1, <1>2, <1>3

(* The requests after one more, or after the first was taken.              *)
LEMMA OneAsked ==
  ASSUME TypeOK, Followed(up), NEW r \in Requests, r.kind # "command", up' = Append(up, r)
  PROVE  /\ Followed(up') /\ (ListAsked => ListAsked')
         /\ r.kind = "list" => ListAsked'
  <1>1. up \in Seq(Requests)
      BY DEF TypeOK
  <1> DEFINE v == Append(up, r)
  <1>2. Followed(v)
      BY <1>1, FollowedAppend
  <1>3. Has(v, "list") <=> Has(up, "list") \/ r.kind = "list"
      BY <1>1, HasAppend
  <1> HIDE DEF v
  <1>4. ListAsked' <=> Has(v, "list")
      BY DEF ListAsked, v
  <1>5. up' = v
      BY DEF v
  <1>6. QED
      BY <1>2, <1>3, <1>4, <1>5 DEF ListAsked

LEMMA OneHandled ==
  ASSUME TypeOK, Followed(up), up # <<>>, up' = Tail(up)
  PROVE  /\ Followed(up') /\ Head(up) \in Requests
         /\ Head(up).kind # "list" => (ListAsked => ListAsked')
         /\ Head(up).kind = "command" => ListAsked'
  <1>1. up \in Seq(Requests)
      BY DEF TypeOK
  <1> DEFINE v == Tail(up)
  <1>2. Followed(v) /\ (Head(up).kind = "command" => Has(v, "list"))
      BY <1>1, FollowedTail
  <1>3. Has(up, "list") <=> Head(up).kind = "list" \/ Has(v, "list")
      BY <1>1, HasTail
  <1>4. Head(up) \in Requests
      BY <1>1, FirstTaken
  <1> HIDE DEF v
  <1>5. ListAsked' <=> Has(v, "list")
      BY DEF ListAsked, v
  <1>6. up' = v
      BY DEF v
  <1>7. QED
      BY <1>2, <1>3, <1>4, <1>5, <1>6 DEF ListAsked

LEMMA KeyListed ==
  ASSUME FriendSlotsAssumption, TypeOK, Filled, Followed(up), Key
  PROVE  (Unlisted \/ Sent \/ Dropped) /\ Followed(up')
  <1>1. ASSUME NEW r \in Requests, r.kind = "list", Asks(r)
        PROVE  Sent /\ Followed(up')
    <2>1. up' = Append(up, r) /\ r.kind # "command"
        BY <1>1 DEF Asks
    <2>2. QED
        BY <1>1, <2>1, OneAsked DEF Sent
  <1>2. ASSUME NEW r \in Requests, r.kind \in {"history", "post"}, Asks(r),
               UNCHANGED <<table, down, count, listed>>,
               \A i \in Slots : slots'[i].id = slots[i].id /\ slots'[i].type = slots[i].type
        PROVE  Unlisted /\ Followed(up')
    <2>1. up' = Append(up, r) /\ r.kind # "command"
        BY <1>2 DEF Asks
    <2>2. Followed(up') /\ (ListAsked => ListAsked')
        BY <1>2, <2>1, OneAsked
    <2>3. QED
        BY <1>2, <2>2, FramesSame DEF Unlisted
  <1>3. CASE OpenDMs \/ OpenFriends
    <2> DEFINE r == [kind |-> "list"]
    <2>1. r \in Requests /\ r.kind = "list" /\ Asks(r)
        BY <1>3, Words DEF OpenDMs, OpenFriends
    <2> HIDE DEF r
    <2>2. QED
        BY <1>1, <2>1
  <1>4. CASE Leave \/ BeginDraft
    <2>1. UNCHANGED <<table, up, down, slots, count, listed>>
        BY <1>4 DEF Leave, BeginDraft, view
    <2>2. ListAsked' = ListAsked
        BY <2>1 DEF ListAsked
    <2>3. Unlisted
        BY <2>1, <2>2, FramesSame DEF Unlisted
    <2>4. QED
        BY <2>1, <2>3
  <1>5. CASE Tab
    <2> DEFINE r == [kind |-> "history", id |-> slots[NextFriend].id]
    <2>1. /\ Asks(r) /\ UNCHANGED <<table, down, slots, count, listed>>
          /\ active # 0 /\ Accepted(count, slots) # {}
        BY <1>5 DEF Tab, Conversing
    <2>2. count \in {0} \cup Slots
        BY DEF TypeOK
    <2>3. NextFriend \in 1 .. count /\ NextFriend \in Slots
        BY <2>1, <2>2, TabGoes, FriendsAre
    <2>4. slots[NextFriend].id \in Users
        BY <2>3 DEF TypeOK, Filled
    <2>5. r \in Requests /\ r.kind \in {"history", "post"}
        BY <2>4, Words
    <2> HIDE DEF r
    <2>6. QED
        BY <1>2, <2>1, <2>5
  <1>6. CASE Send
    <2> DEFINE r == [kind |-> "post", id |-> slots[active].id]
               h == slots[active].holds \cup {slots[active].id}
    <2>1. /\ active # 0 /\ draft # Empty /\ Asks(r)
          /\ slots' = [slots EXCEPT ![active].holds = h]
          /\ UNCHANGED <<table, down, count, listed>>
        BY <1>6 DEF Send, Conversing
    <2>2. active \in Slots /\ slots[active].id \in Users /\ slots[active].holds \in SUBSET Users
        BY <2>1 DEF TypeOK, Filled
    <2>3. r \in Requests /\ r.kind \in {"history", "post"} /\ h \in SUBSET Users
        BY <2>2, Words
    <2> DEFINE i == active
    <2>4. i \in Slots /\ slots' = [slots EXCEPT ![i].holds = h]
        BY <2>1, <2>2
    <2> HIDE DEF r, h, i
    <2>5. \A j \in Slots : slots'[j].id = slots[j].id /\ slots'[j].type = slots[j].type
        BY <2>3, <2>4, HoldsPut
    <2>6. QED
        BY <1>2, <2>1, <2>3, <2>5
  <1>7. ASSUME NEW verb \in Verbs, NEW u \in Users, Command(verb, u)
        PROVE  Sent /\ Followed(up')
    <2> DEFINE c == [kind |-> "command", verb |-> verb, id |-> u]
               r == [kind |-> "list"]
               v == Append(Append(up, c), r)
    <2>1. c \in Requests /\ r \in Requests /\ r.kind = "list" /\ up \in Seq(Requests)
        BY Words DEF TypeOK
    <2>2. up' = up \o <<c, r>>
        BY <1>7 DEF Command
    <2> HIDE DEF c, r
    <2>3. up' = v
        BY <2>1, <2>2
    <2>4. Followed(v) /\ Has(v, "list")
        BY <2>1, FollowedCommand
    <2> HIDE DEF v
    <2>5. QED
        BY <2>3, <2>4 DEF Sent, ListAsked
  <1>8. CASE SignInAgain
    <2>1. /\ count' = 0 /\ listed' = FALSE /\ up = <<>> /\ up' = up
          /\ down = <<>> /\ down' = down
        BY <1>8 DEF SignInAgain
    <2>2. Frames' = <<>>
        BY <2>1, OnlyEmpty DEF Frames
    <2>3. QED
        BY <2>1, <2>2 DEF Dropped
  <1>9. QED
      BY <1>3, <1>4, <1>5, <1>6, <1>7, <1>8 DEF Key

LEMMA ServeListed ==
  ASSUME FriendSlotsAssumption, TypeOK, Followed(up), Serve
  PROVE  (Unlisted \/ Sent) /\ Followed(up')
  <1>1. UNCHANGED <<slots, count, listed>> /\ down \in Seq(Packets) /\ table \in Seq(TableRows)
      BY DEF Serve, HandleCommand, HandleList, HandleHistory, HandlePost, PeerWrites, PeerCommand, view,
             TypeOK
  <1>2. ASSUME up' = up
        PROVE  Followed(up') /\ (ListAsked => ListAsked')
      BY <1>2 DEF ListAsked
  <1>3. ASSUME table' = table, Frames' = Frames, ListAsked => ListAsked'
        PROVE  Unlisted
      BY <1>1, <1>3 DEF Unlisted
  <1>4. CASE HandleCommand
    <2>1. up # <<>> /\ up' = Tail(up) /\ Head(up).kind = "command"
        BY <1>4 DEF HandleCommand, Handles
    <2>2. Followed(up') /\ ListAsked'
        BY <2>1, OneHandled
    <2>3. QED
        BY <2>2 DEF Sent
  <1>5. CASE HandleList
    <2>1. up # <<>> /\ up' = Tail(up) /\ table' = table /\ down' = down \o ListFrames(table)
        BY <1>5 DEF HandleList, Handles
    <2>2. Followed(up')
        BY <2>1, OneHandled
    <2>3. Sent
        BY <1>1, <2>1, FramesSent
    <2>4. QED
        BY <2>2, <2>3
  <1>6. CASE HandleHistory
    <2> DEFINE u == Head(up).id
               a == [kind |-> "start", id |-> u]
               b == [kind |-> "message", id |-> u]
    <2>1. /\ up # <<>> /\ up' = Tail(up) /\ Head(up).kind = "history" /\ table' = table
          /\ down' = Append(down, a) \/ down' = Append(Append(down, a), b)
        BY <1>6 DEF HandleHistory, Handles
    <2>2. Followed(up') /\ (ListAsked => ListAsked') /\ u \in Users
        BY <2>1, OneHandled, Words
    <2>3. a \in Packets /\ b \in Packets /\ a \notin ListPackets /\ b \notin ListPackets
        BY <2>2, Words, FrameKinds
    <2> DEFINE x == Append(down, a)
    <2>4. x \in Seq(Packets)
        BY <1>1, <2>3
    <2> HIDE DEF a, b
    <2>5. Only(x, ListPackets) = Only(down, ListPackets)
        BY <1>1, <2>3, OnlyAppend
    <2>6. Only(Append(x, b), ListPackets) = Only(x, ListPackets)
      <3> HIDE DEF x
      <3>1. QED
          BY <2>3, <2>4, OnlyAppend
    <2>7. Frames' = Frames
        BY <2>1, <2>5, <2>6 DEF Frames
    <2>8. QED
        BY <1>3, <2>1, <2>2, <2>7
  <1>7. CASE HandlePost
    <2>1. /\ up # <<>> /\ up' = Tail(up) /\ Head(up).kind = "post" /\ table' = table /\ down' = down
        BY <1>7 DEF HandlePost, Handles
    <2>2. Followed(up') /\ (ListAsked => ListAsked')
        BY <2>1, OneHandled
    <2>3. QED
        BY <1>3, <2>1, <2>2, FramesSame
  <1>8. ASSUME NEW u \in Users, PeerWrites(u)
        PROVE  Unlisted /\ Followed(up')
    <2> DEFINE p == [kind |-> "message", id |-> u]
    <2>1. down' = Append(down, p) /\ up' = up /\ table' = table
        BY <1>8 DEF PeerWrites
    <2>2. p \in Packets /\ p \notin ListPackets
        BY Words, FrameKinds
    <2> HIDE DEF p
    <2>3. Frames' = Frames
        BY <2>1, <2>2, FramesAdd
    <2>4. QED
        BY <1>2, <1>3, <2>1, <2>3
  <1>9. ASSUME NEW u \in Users, NEW verb \in Verbs, PeerCommand(verb, u)
        PROVE  Sent /\ Followed(up')
    <2> DEFINE t == Changed(verb, u, FALSE)
    <2>1. table' = t /\ down' = down \o ListFrames(t) /\ up' = up
        BY <1>9 DEF PeerCommand
    <2>2. t \in Seq(TableRows)
        BY <1>1, ChangedTyped
    <2> HIDE DEF t
    <2>3. Sent
        BY <2>1, <2>2, FramesSent
    <2>4. QED
        BY <1>2, <2>1, <2>3
  <1>10. QED
      BY <1>4, <1>5, <1>6, <1>7, <1>8, <1>9 DEF Serve

LEMMA ReceiveListed ==
  ASSUME FriendSlotsAssumption, TypeOK, Filled, Followed(up), Receive
  PROVE  (Unlisted \/ Started \/ Rowed \/ Ended) /\ Followed(up')
  <1>1. down # <<>> /\ down' = Tail(down) /\ table' = table
      BY DEF Receive, ReceiveListStart, ReceiveListRow, ReceiveListEnd, ReceiveStart, ReceiveMessage,
             Gets, Files
  <1>2. /\ Head(down) \in Packets
        /\ Head(down).kind \in {"listStart", "listRow", "listEnd"} =>
             Frames # <<>> /\ Head(Frames) = Head(down) /\ Frames' = Tail(Frames)
        /\ Head(down).kind \in {"start", "message"} => Frames' = Frames
      BY <1>1, FramesTaken, FrameKinds
  <1>3. CASE ReceiveListStart
    <2>1. /\ Head(down).kind = "listStart" /\ count' = 0
          /\ UNCHANGED <<slots, up, listed>>
        BY <1>3 DEF ReceiveListStart, Gets
    <2>2. QED
        BY <1>1, <1>2, <2>1 DEF Started, Framed
  <1>4. CASE ReceiveListRow
    <2> DEFINE u == Head(down).id
               t == Head(down).type
               i == count + 1
    <2>1. /\ Head(down).kind = "listRow" /\ UNCHANGED <<up, listed>>
          /\ IF count < MaxFriends
               THEN /\ count' = i
                    /\ slots' = [slots EXCEPT ![i].id = u, ![i].type = t]
               ELSE UNCHANGED <<slots, count>>
        BY <1>4 DEF ReceiveListRow, Gets
    <2>2. u \in Users /\ t \in Types
        BY <1>2, <2>1, Words
    <2>3. count < MaxFriends => i \in Slots
      <3>1. count \in Nat /\ MaxFriends \in Nat
          BY FriendsAre DEF TypeOK, FriendSlotsAssumption
      <3>2. QED
          BY <3>1 DEF Slots
    <2>4. u = Head(Frames).id /\ t = Head(Frames).type /\ i = count + 1
        BY <1>2, <2>1
    <2> HIDE DEF u, t, i
    <2>5. count < MaxFriends =>
            /\ slots'[i].id = u /\ slots'[i].type = t
            /\ \A j \in Slots : j # i => slots'[j] = slots[j]
        BY <2>1, <2>2, <2>3, RowPut
    <2>6. Framed("listRow")
        BY <1>1, <1>2, <2>1 DEF Framed
    <2>7. Rowed
        BY <2>1, <2>4, <2>5, <2>6 DEF Rowed
    <2>8. QED
        BY <2>1, <2>7
  <1>5. CASE ReceiveListEnd
    <2> DEFINE first == Min(Accepted(count, slots))
               opens == screen = "dms" /\ Accepted(count, slots) # {}
               r == [kind |-> "history", id |-> slots[first].id]
    <2>1. /\ Head(down).kind = "listEnd" /\ UNCHANGED <<slots, count>> /\ listed' = TRUE
          /\ up' = IF opens THEN Append(up, r) ELSE up
        BY <1>5 DEF ReceiveListEnd, Gets
    <2>2. opens => r \in Requests /\ r.kind = "history"
      <3>1. opens => first \in 1 .. count /\ first \in Slots
        <4> DEFINE S == Accepted(count, slots)
        <4>1. count \in {0} \cup Slots
            BY DEF TypeOK
        <4>2. S \subseteq 1 .. count /\ 1 .. count \subseteq Slots /\ (S # {} => Min(S) \in S)
            BY <4>1, FriendsAre
        <4> HIDE DEF S
        <4>3. S # {} => Min(S) \in 1 .. count /\ Min(S) \in Slots
            BY <4>2
        <4>4. QED
            BY <4>3 DEF S
      <3> HIDE DEF first
      <3>2. opens => slots[first].id \in Users
          BY <3>1 DEF TypeOK, Filled
      <3>3. QED
          BY <3>2, Words
    <2> HIDE DEF first, opens, r
    <2>3. Followed(up') /\ (ListAsked => ListAsked')
      <3>1. CASE opens
        <4>1. r \in Requests /\ r.kind # "command" /\ up' = Append(up, r)
            BY <2>1, <2>2, <3>1
        <4>2. QED
            BY <4>1, OneAsked
      <3>2. CASE ~opens
          BY <2>1, <3>2 DEF ListAsked
      <3>3. QED
          BY <3>1, <3>2
    <2>4. Ended
        BY <1>1, <1>2, <2>1, <2>3 DEF Ended
    <2>5. QED
        BY <2>3, <2>4
  <1>6. ASSUME NEW adds \in BOOLEAN, Head(down).kind \in {"start", "message"}, Files(Head(down).id, adds)
        PROVE  Unlisted /\ Followed(up')
    <2> DEFINE u == Head(down).id
    <2>1. u \in Users /\ Files(u, adds)
        BY <1>2, <1>6, Words
    <2> HIDE DEF u
    <2>2. /\ \A j \in Slots : slots'[j].id = slots[j].id /\ slots'[j].type = slots[j].type
          /\ UNCHANGED <<table, up, screen, count, draft, listed>>
        BY <2>1, FilesIs
    <2>3. Frames' = Frames
        BY <1>2, <1>6
    <2>4. ListAsked => ListAsked'
        BY <2>2 DEF ListAsked
    <2>5. QED
        BY <2>2, <2>3, <2>4 DEF Unlisted
  <1>7. QED
      BY <1>3, <1>4, <1>5, <1>6 DEF Receive, ReceiveStart, ReceiveMessage, Gets

(* What is proved of every state about the list: its frames come whole.    *)
Listing == Followed(up) /\ Follows

LEMMA InitListing ==
  ASSUME Init
  PROVE  Listing
  <1>1. up = <<>> /\ down = <<>> /\ count = 0 /\ listed = FALSE
      BY DEF Init
  <1>2. Frames = <<>>
      BY <1>1, OnlyEmpty DEF Frames
  <1>3. Followed(up)
      BY <1>1 DEF Followed
  <1>4. QED
      BY <1>1, <1>2, <1>3 DEF Listing, Follows, NoneComing

LEMMA StepListed ==
  ASSUME FriendSlotsAssumption, TypeOK, Filled, Followed(up), [Next]_vars
  PROVE  (Unlisted \/ Sent \/ Dropped \/ Started \/ Rowed \/ Ended) /\ Followed(up')
  <1>1. ASSUME UNCHANGED <<table, up, down, slots, count, listed>>
        PROVE  Unlisted /\ Followed(up')
      BY <1>1, FramesSame DEF Unlisted, ListAsked
  <1>2. CASE UNCHANGED vars
      BY <1>1, <1>2 DEF vars
  <1>3. CASE TabFails
      BY <1>1, <1>3 DEF TabFails, view
  <1>4. CASE Restart
    <2>1. up' = <<>> /\ down' = <<>> /\ count' = 0 /\ listed' = FALSE
        BY <1>4 DEF Restart
    <2>2. Frames' = <<>>
        BY <2>1, OnlyEmpty DEF Frames
    <2>3. Followed(up')
        BY <2>1 DEF Followed
    <2>4. QED
        BY <2>1, <2>2, <2>3 DEF Dropped
  <1>5. QED
      BY <1>2, <1>3, <1>4, KeyListed, ServeListed, ReceiveListed DEF Next

LEMMA NextListing ==
  ASSUME FriendSlotsAssumption, TypeOK, Filled, TypeOK', Listing, [Next]_vars
  PROVE  Listing'
  <1>1. (Unlisted \/ Sent \/ Dropped \/ Started \/ Rowed \/ Ended) /\ Followed(up')
      BY StepListed DEF Listing
  <1>2. Follows'
      BY <1>1, UnlistedFollows, SentFollows, DroppedFollows, StartedFollows, RowedFollows, EndedFollows
      DEF Listing
  <1>3. QED
      BY <1>1, <1>2 DEF Listing

(* Without a frame of a list in the link.                                  *)
LEMMA NoFrames ==
  ASSUME TypeOK, ~InFlight(ListFrameKinds)
  PROVE  Settled
  <1>1. down \in Seq(Packets)
      BY DEF TypeOK
  <1>2. \A k \in DOMAIN down : down[k].kind \notin {"listStart", "listRow", "listEnd"}
      BY DEF InFlight, ListFrameKinds
  <1>3. ToSet(down) \cap ListPackets = {}
    <2>1. ToSet(down) = {down[k] : k \in 1 .. Len(down)} /\ DOMAIN down = 1 .. Len(down)
          /\ ToSet(down) \subseteq Packets
        BY <1>1, InToSet, ToSetIn
    <2>2. QED
        BY <1>2, <2>1, FrameKinds
  <1> DEFINE x == Only(down, ListPackets)
  <1>4. x \in Seq(Packets)
      BY <1>1, OnlyIn
  <1>5. ToSet(x) = {}
      BY <1>1, <1>3, OnlyRange
  <1> HIDE DEF x
  <1>6. x = <<>>
    <2>1. ToSet(x) = {x[k] : k \in 1 .. Len(x)}
        BY <1>4, InToSet
    <2>2. SUFFICES ASSUME x # <<>>
                   PROVE  FALSE
        OBVIOUS
    <2>3. Len(x) \in Nat \ {0}
        BY <1>4, <2>2, FirstTaken
    <2>4. 1 \in 1 .. Len(x)
        BY <2>3
    <2>5. QED
        BY <1>5, <2>1, <2>4
  <1>7. ~ListAsked
      BY DEF ListAsked, Has, InFlight, ListFrameKinds
  <1>8. QED
      BY <1>6, <1>7 DEF Settled, Frames, x

LEMMA SettledHolds ==
  ASSUME TypeOK, Follows, Settled
  PROVE  IF listed THEN Holds(Len(FriendList(table))) ELSE count = 0
  <1>1. WholeComing \/ RestComing \/ NoneComing
      BY DEF Follows, Settled
  <1>2. ~RestComing
      BY DEF RestComing, Settled
  <1>3. ~WholeComing
    <2> DEFINE l == ListFrames(table)
               d == Frames
    <2>1. table \in Seq(TableRows)
        BY DEF TypeOK
    <2>2. l \in Seq(ListPackets) /\ Len(l) = Len(FriendList(table)) + 2 /\ Len(FriendList(table)) \in Nat
        BY <2>1, FramesAre
    <2>3. d \in Seq(ListPackets) /\ d = <<>>
        BY FramesIn DEF Settled
    <2> HIDE DEF l, d
    <2>4. l # <<>> /\ (IsSuffix(l, d) => d # <<>>)
      <3>1. l # <<>>
          BY <2>2
      <3>2. QED
          BY <2>2, <2>3, <3>1, WholeTail
    <2>5. QED
        BY <2>3, <2>4 DEF WholeComing, l, d
  <1>4. QED
      BY <1>1, <1>2, <1>3 DEF NoneComing

LEMMA ListingIsTable ==
  ASSUME FriendSlotsAssumption, TypeOK, Follows
  PROVE  SlotsAreTheList
  <1> DEFINE f == FriendList(table)
             S == {MaxFriends, Len(f)}
  <1>1. SUFFICES ASSUME listed, ~InFlight(ListFrameKinds)
                 PROVE  /\ count = Min(S)
                        /\ \A i \in 1 .. count : slots[i].id = f[i].id /\ slots[i].type = f[i].type
      BY DEF SlotsAreTheList
  <1>2. Holds(Len(f))
      BY <1>1, NoFrames, SettledHolds
  <1>3. \A i \in 1 .. count : slots[i].id = f[i].id /\ slots[i].type = f[i].type
      BY <1>2 DEF Holds
  <1>4. table \in Seq(TableRows)
      BY DEF TypeOK
  <1>5. /\ Len(f) \in Nat /\ MaxFriends \in Nat /\ count \in Nat /\ count <= MaxFriends
        /\ count <= Len(f) /\ (count = Len(f) \/ count = MaxFriends)
    <2>1. Len(f) \in Nat
        BY <1>4, FramesAre
    <2>2. MaxFriends \in Nat /\ count \in Nat /\ count <= MaxFriends
        BY FriendsAre DEF TypeOK, FriendSlotsAssumption
    <2>3. QED
        BY <1>2, <2>1, <2>2 DEF Holds
  <1> HIDE DEF f
  <1>6. S \in SUBSET Nat /\ S # {} /\ count \in S /\ \A n \in S : count <= n
      BY <1>5
  <1>7. Min(S) \in S /\ \A n \in S : Min(S) <= n
    <2> HIDE DEF S
    <2>1. QED
        BY <1>6, LeastIs
  <1>8. Min(S) <= count /\ count <= Min(S) /\ Min(S) \in Nat
      BY <1>6, <1>7
  <1>9. count = Min(S)
    <2> HIDE DEF S
    <2>1. QED
        BY <1>5, <1>8
  <1>10. QED
      BY <1>3, <1>9

(* Whoever changes a friendship, and however commands, lists and pushed    *)
(* lists cross: once no list is on its way, the slots are the table's      *)
(* friends and requests.  A friend command is followed by a request for    *)
(* the list, whose answer is behind everything that was sent before; so    *)
(* the frames on their way always end with the whole of the table's list,  *)
(* or are the rest of it.                                                  *)
THEOREM SlotsFollowTable == Spec => []SlotsAreTheList
  <1>1. Init => TypeOK /\ Filled /\ Listing
      BY FriendSlotsAssumption, InitTyped, InitListing
  <1>2. TypeOK /\ Filled /\ Listing /\ [Next]_vars => TypeOK' /\ Filled' /\ Listing'
      BY FriendSlotsAssumption, NextTyped, NextListing
  <1>3. TypeOK /\ Listing => SlotsAreTheList
      BY FriendSlotsAssumption, ListingIsTable DEF Listing
  <1>4. QED
      BY <1>1, <1>2, <1>3, PTL DEF Spec

-----------------------------------------------------------------------------
(* Each user has one row of the table, and one of its list. *)

IdsOnce(t) == \A k, l \in DOMAIN t : t[k].id = t[l].id => k = l

LEMMA IdsRows ==
  ASSUME NEW t \in Seq(TableRows), IdsOnce(t)
  PROVE  /\ IsInjective(t)
         /\ \A p, q \in ToSet(t) : p.id = q.id => p = q
  <1>1. ToSet(t) = {t[k] : k \in 1 .. Len(t)} /\ DOMAIN t = 1 .. Len(t)
      BY InToSet
  <1>2. IsInjective(t)
      BY DEF IsInjective, IdsOnce
  <1>3. ASSUME NEW p \in ToSet(t), NEW q \in ToSet(t), p.id = q.id
        PROVE  p = q
    <2>1. PICK k \in DOMAIN t : p = t[k]
        BY <1>1
    <2>2. PICK l \in DOMAIN t : q = t[l]
        BY <1>1
    <2>3. k = l
        BY <1>3, <2>1, <2>2 DEF IdsOnce
    <2>4. QED
        BY <2>1, <2>2, <2>3
  <1>4. QED
      BY <1>2, <1>3

(* Rows of a table, each once: their users are different, too.             *)
LEMMA IdsPart ==
  ASSUME NEW t \in Seq(TableRows), IdsOnce(t), NEW s \in Seq(TableRows), IsInjective(s),
         ToSet(s) \subseteq ToSet(t)
  PROVE  IdsOnce(s)
  <1>1. ToSet(s) = {s[k] : k \in 1 .. Len(s)} /\ DOMAIN s = 1 .. Len(s)
      BY InToSet
  <1>2. \A p, q \in ToSet(t) : p.id = q.id => p = q
      BY IdsRows
  <1>3. SUFFICES ASSUME NEW k \in DOMAIN s, NEW l \in DOMAIN s, s[k].id = s[l].id
                 PROVE  k = l
      BY DEF IdsOnce
  <1>4. s[k] \in ToSet(t) /\ s[l] \in ToSet(t)
      BY <1>1
  <1>5. s[k] = s[l]
      BY <1>2, <1>3, <1>4
  <1>6. QED
      BY <1>5 DEF IsInjective

LEMMA InjectiveJoin ==
  ASSUME NEW T, NEW s \in Seq(T), NEW t \in Seq(T), IsInjective(s), IsInjective(t),
         ToSet(s) \cap ToSet(t) = {}
  PROVE  IsInjective(s \o t)
  <1> DEFINE u == s \o t
  <1>1. /\ u \in Seq(T) /\ Len(u) = Len(s) + Len(t) /\ Len(s) \in Nat /\ Len(t) \in Nat
        /\ \A k \in 1 .. Len(s) : u[k] = s[k]
        /\ \A k \in 1 .. Len(t) : u[Len(s) + k] = t[k]
      OBVIOUS
  <1>2. ToSet(s) = {s[k] : k \in 1 .. Len(s)} /\ DOMAIN s = 1 .. Len(s)
      BY InToSet
  <1>3. ToSet(t) = {t[k] : k \in 1 .. Len(t)} /\ DOMAIN t = 1 .. Len(t)
      BY InToSet
  <1>4. DOMAIN u = 1 .. Len(s) + Len(t)
      BY <1>1
  <1> HIDE DEF u
  <1>5. \A k \in DOMAIN u : \/ k \in 1 .. Len(s) /\ u[k] = s[k]
                            \/ k - Len(s) \in 1 .. Len(t) /\ u[k] = t[k - Len(s)] /\ k \in Int
    <2>1. SUFFICES ASSUME NEW k \in DOMAIN u, k \notin 1 .. Len(s)
                   PROVE  k - Len(s) \in 1 .. Len(t) /\ u[k] = t[k - Len(s)] /\ k \in Int
        BY <1>1
    <2>2. k \in Int /\ k - Len(s) \in 1 .. Len(t) /\ Len(s) + (k - Len(s)) = k
        BY <1>1, <1>4, <2>1
    <2>3. QED
        BY <1>1, <2>2
  <1>6. SUFFICES ASSUME NEW k \in DOMAIN u, NEW l \in DOMAIN u, u[k] = u[l]
                 PROVE  k = l
      BY DEF IsInjective, u
  <1>7. CASE k \in 1 .. Len(s) /\ u[k] = s[k]
    <2>1. s[k] \in ToSet(s)
        BY <1>2, <1>7
    <2>2. CASE l \in 1 .. Len(s) /\ u[l] = s[l]
        BY <1>2, <1>6, <1>7, <2>2 DEF IsInjective
    <2>3. CASE l - Len(s) \in 1 .. Len(t) /\ u[l] = t[l - Len(s)] /\ l \in Int
        BY <1>3, <1>6, <1>7, <2>1, <2>3
    <2>4. QED
        BY <1>5, <2>2, <2>3
  <1>8. CASE k - Len(s) \in 1 .. Len(t) /\ u[k] = t[k - Len(s)] /\ k \in Int
    <2>1. t[k - Len(s)] \in ToSet(t)
        BY <1>3, <1>8
    <2>2. CASE l \in 1 .. Len(s) /\ u[l] = s[l]
        BY <1>2, <1>6, <1>8, <2>1, <2>2
    <2>3. CASE l - Len(s) \in 1 .. Len(t) /\ u[l] = t[l - Len(s)] /\ l \in Int
      <3>1. k - Len(s) = l - Len(s)
          BY <1>3, <1>6, <1>8, <2>3 DEF IsInjective
      <3>2. QED
          BY <1>1, <1>8, <2>3, <3>1
    <2>4. QED
        BY <1>5, <2>2, <2>3
  <1>9. QED
      BY <1>5, <1>7, <1>8

LEMMA ListOnce ==
  ASSUME NEW t \in Seq(TableRows), IdsOnce(t)
  PROVE  \A k, l \in 1 .. Len(FriendList(t)) : FriendList(t)[k].id = FriendList(t)[l].id => k = l
  <1> DEFINE S == RowsBy(Users, {FALSE})
             U == RowsBy(Users, {TRUE})
             x == Only(t, S)
             y == Only(t, U)
             r == x \o y
  <1>1. x \in Seq(TableRows) /\ y \in Seq(TableRows)
      BY OnlyIn
  <1>2. IsInjective(t)
      BY IdsRows
  <1>3. IsInjective(x) /\ IsInjective(y)
      BY <1>2, OnlyInjective
  <1>4. ToSet(x) = ToSet(t) \cap S /\ ToSet(y) = ToSet(t) \cap U
      BY OnlyRange
  <1>5. S \cap U = {}
      BY DEF RowsBy
  <1>6. RowsOf(t) = r
      BY DEF RowsOf
  <1> HIDE DEF S, U, x, y
  <1>7. ToSet(x) \cap ToSet(y) = {}
      BY <1>4, <1>5
  <1>8. IsInjective(r) /\ r \in Seq(TableRows)
      BY <1>1, <1>3, <1>7, InjectiveJoin
  <1>9. ToSet(r) \subseteq ToSet(t)
    <2>1. ToSet(r) = ToSet(x) \cup ToSet(y)
        BY <1>1, ToSetJoin
    <2>2. QED
        BY <1>4, <2>1
  <1> HIDE DEF r
  <1>10. IdsOnce(r)
      BY <1>8, <1>9, IdsPart
  <1>11. Len(FriendList(t)) = Len(r) /\ \A k \in 1 .. Len(r) : FriendList(t)[k] = ListedRow(r[k])
      BY <1>6, ListIs
  <1>12. \A k \in 1 .. Len(r) : FriendList(t)[k].id = r[k].id
    <2>1. \A p : ListedRow(p).id = p.id
        BY DEF ListedRow
    <2>2. QED
        BY <1>11, <2>1
  <1>13. DOMAIN r = 1 .. Len(r)
      BY <1>8
  <1>14. QED
      BY <1>10, <1>11, <1>12, <1>13 DEF IdsOnce

(* A command adds one user's row, changes it or removes it.                *)
LEMMA ChangedOnce ==
  ASSUME table \in Seq(TableRows), IdsOnce(table), NEW verb, NEW u \in Users, NEW mine \in BOOLEAN
  PROVE  IdsOnce(Changed(verb, u, mine))
  <1> DEFINE known == {k \in DOMAIN table : table[k].id = u}
             new == [id |-> u, mine |-> mine, accepted |-> FALSE]
             added == Append(table, new)
             with == [k \in DOMAIN table |-> [table[k] EXCEPT !.accepted = @ \/ k \in known]]
             W == RowsBy(Users \ {u}, BOOLEAN)
             without == Only(table, W)
  <1>1. DOMAIN table = 1 .. Len(table) /\ Len(table) \in Nat
      OBVIOUS
  <1>2. known = {} => IdsOnce(added)
    <2>1. SUFFICES ASSUME known = {}
                   PROVE  IdsOnce(added)
        OBVIOUS
    <2>2. new \in TableRows /\ new.id = u
        BY DEF TableRows, RowsBy
    <2>3. \A k \in DOMAIN table : table[k].id # u
        BY <2>1
    <2> HIDE DEF new
    <2>4. /\ added[Len(table) + 1] = new /\ added \in Seq(TableRows) /\ Len(added) = Len(table) + 1
          /\ \A k \in 1 .. Len(table) : added[k] = table[k]
          /\ \A k \in 1 .. Len(table) + 1 : k \in 1 .. Len(table) \/ k = Len(table) + 1
        BY <2>2, OneAdded
    <2>5. DOMAIN added = 1 .. Len(table) + 1
        BY <1>1, <2>4
    <2> HIDE DEF added, known
    <2>6. SUFFICES ASSUME NEW k \in DOMAIN added, NEW l \in DOMAIN added, added[k].id = added[l].id
                   PROVE  k = l
        BY DEF IdsOnce
    <2>7. CASE k \in 1 .. Len(table) /\ l \in 1 .. Len(table)
        BY <1>1, <2>4, <2>6, <2>7 DEF IdsOnce
    <2>8. CASE k = Len(table) + 1 /\ l \in 1 .. Len(table)
        BY <1>1, <2>2, <2>3, <2>4, <2>6, <2>8
    <2>9. CASE k \in 1 .. Len(table) /\ l = Len(table) + 1
        BY <1>1, <2>2, <2>3, <2>4, <2>6, <2>9
    <2>10. QED
        BY <2>4, <2>5, <2>7, <2>8, <2>9
  <1>3. IdsOnce(without)
    <2>1. IsInjective(table)
        BY IdsRows
    <2> HIDE DEF W
    <2>2. without \in Seq(TableRows) /\ IsInjective(without) /\ ToSet(without) = ToSet(table) \cap W
        BY <2>1, OnlyIn, OnlyInjective, OnlyRange
    <2> HIDE DEF without
    <2>3. ToSet(without) \subseteq ToSet(table)
        BY <2>2
    <2>4. QED
        BY <2>2, <2>3, IdsPart
  <1>4. IdsOnce(with)
    <2>1. DOMAIN with = DOMAIN table
        OBVIOUS
    <2>2. \A k \in DOMAIN table : table[k] \in TableRows
        BY <1>1, ElementOfSeq
    <2>3. \A p \in TableRows : \A b : [p EXCEPT !.accepted = b].id = p.id
        BY DEF TableRows, RowsBy
    <2>4. \A k \in DOMAIN table : with[k].id = table[k].id
        BY <2>2, <2>3
    <2> HIDE DEF with
    <2>5. QED
        BY <2>1, <2>4 DEF IdsOnce
  <1>5. Changed(verb, u, mine) \in {table, with, without} \/ (known = {} /\ Changed(verb, u, mine) = added)
      BY DEF Changed
  <1> HIDE DEF known, added, with, without
  <1>6. QED
      BY <1>2, <1>3, <1>4, <1>5

LEMMA InitOnce ==
  ASSUME FriendSlotsAssumption, Init
  PROVE  IdsOnce(table)
  <1>1. PICK ids \in SeqOf(Users, Cardinality(Users)) :
               /\ IsInjective(ids)
               /\ table = [k \in DOMAIN ids |-> [id |-> ids[k], mine |-> FALSE, accepted |-> TRUE]]
      BY DEF Init
  <1>2. DOMAIN table = DOMAIN ids /\ \A k \in DOMAIN ids : table[k].id = ids[k]
      BY <1>1
  <1>3. QED
      BY <1>1, <1>2 DEF IdsOnce, IsInjective

LEMMA NextOnce ==
  ASSUME FriendSlotsAssumption, TypeOK, IdsOnce(table), [Next]_vars
  PROVE  IdsOnce(table')
  <1>1. table \in Seq(TableRows)
      BY DEF TypeOK
  <1>2. CASE HandleCommand
    <2>1. up # <<>> /\ Head(up).kind = "command" /\ table' = Changed(Head(up).verb, Head(up).id, TRUE)
        BY <1>2 DEF HandleCommand, Handles
    <2>2. Head(up) \in Requests
        BY <2>1, FirstTaken DEF TypeOK
    <2>3. Head(up).id \in Users
        BY <2>1, <2>2, Words
    <2>4. QED
        BY <1>1, <2>1, <2>3, ChangedOnce
  <1>3. ASSUME NEW u \in Users, NEW verb \in Verbs, PeerCommand(verb, u)
        PROVE  IdsOnce(table')
    <2>1. table' = Changed(verb, u, FALSE)
        BY <1>3 DEF PeerCommand
    <2>2. QED
        BY <1>1, <2>1, ChangedOnce
  <1>4. CASE table' = table
      BY <1>4
  <1>5. ASSUME Key \/ Receive \/ TabFails \/ Restart \/ UNCHANGED vars
        PROVE  table' = table
      BY <1>5 DEF Key, OpenDMs, OpenFriends, Leave, Tab, BeginDraft, Send, Command, SignInAgain,
             Receive, ReceiveListStart, ReceiveListRow, ReceiveListEnd, ReceiveStart, ReceiveMessage, Files,
             TabFails, Restart, vars
  <1>6. ASSUME HandleList \/ HandleHistory \/ HandlePost \/ \E u \in Users : PeerWrites(u)
        PROVE  table' = table
      BY <1>6 DEF HandleList, HandleHistory, HandlePost, PeerWrites
  <1>7. QED
      BY <1>2, <1>3, <1>4, <1>5, <1>6 DEF Next, Serve

-----------------------------------------------------------------------------
(* The conversation on the screen. *)

Tells(q, kind, u) == \E k \in DOMAIN q : q[k].kind = kind /\ q[k].id = u

(* It is its friend's, or will be opened anew.                             *)
Shown == slots[active].holds \subseteq {slots[active].id}
Reopening == Tells(up, "history", slots[active].id) \/ Tells(down, "start", slots[active].id)

(* When no list is on its way: an open list of friends has an active one,  *)
(* whose conversation is on the screen or asked for.                       *)
Opened ==
  Settled /\ screen = "dms" =>
    /\ Accepted(count, slots) # {} => active # 0
    /\ active \in Accepted(count, slots) => Shown \/ Reopening

LEMMA TellsAppend ==
  ASSUME NEW P, NEW q \in Seq(P), NEW p \in P
  PROVE  \A kind, u : Tells(Append(q, p), kind, u) <=> Tells(q, kind, u) \/ (p.kind = kind /\ p.id = u)
  <1> DEFINE t == Append(q, p)
  <1>1. /\ Len(q) \in Nat /\ t \in Seq(P) /\ Len(t) = Len(q) + 1 /\ t[Len(q) + 1] = p
        /\ \A k \in 1 .. Len(q) : t[k] = q[k] /\ k \in 1 .. Len(q) + 1
        /\ \A k \in 1 .. Len(q) + 1 : k \in 1 .. Len(q) \/ k = Len(q) + 1
        /\ Len(q) + 1 \in 1 .. Len(q) + 1
      BY OneAdded
  <1>2. DOMAIN q = 1 .. Len(q) /\ DOMAIN t = 1 .. Len(q) + 1
      BY <1>1
  <1> HIDE DEF t
  <1>3. QED
      BY <1>1, <1>2 DEF Tells, t

LEMMA TellsTail ==
  ASSUME NEW P, NEW q \in Seq(P), q # <<>>
  PROVE  \A kind, u :
           Tells(q, kind, u) <=> (Head(q).kind = kind /\ Head(q).id = u) \/ Tells(Tail(q), kind, u)
  <1> DEFINE t == Tail(q)
  <1>1. /\ Len(q) \in Nat \ {0} /\ Head(q) = q[1] /\ t \in Seq(P) /\ Len(t) = Len(q) - 1
        /\ \A k \in 1 .. Len(t) : t[k] = q[k + 1] /\ k + 1 \in 1 .. Len(q)
        /\ \A k \in 2 .. Len(q) : k - 1 \in 1 .. Len(t) /\ q[k] = t[k - 1]
      BY FirstTaken
  <1>2. DOMAIN q = 1 .. Len(q) /\ DOMAIN t = 1 .. Len(t) /\ 1 \in 1 .. Len(q)
      BY <1>1
  <1> HIDE DEF t
  <1>3. \A k \in 1 .. Len(q) : k = 1 \/ k \in 2 .. Len(q)
      BY <1>1
  <1>4. SUFFICES ASSUME NEW kind, NEW u
                 PROVE  Tells(q, kind, u) <=> (q[1].kind = kind /\ q[1].id = u) \/ Tells(t, kind, u)
      BY <1>1 DEF t
  <1>5. ASSUME Tells(q, kind, u)
        PROVE  (q[1].kind = kind /\ q[1].id = u) \/ Tells(t, kind, u)
    <2>1. PICK k \in 1 .. Len(q) : q[k].kind = kind /\ q[k].id = u
        BY <1>2, <1>5 DEF Tells
    <2>2. CASE k = 1
        BY <2>1, <2>2
    <2>3. CASE k \in 2 .. Len(q)
      <3>1. k - 1 \in DOMAIN t /\ t[k - 1] = q[k]
          BY <1>1, <1>2, <2>3
      <3>2. QED
          BY <2>1, <3>1 DEF Tells
    <2>4. QED
        BY <1>3, <2>2, <2>3
  <1>6. ASSUME Tells(t, kind, u)
        PROVE  Tells(q, kind, u)
    <2>1. PICK k \in 1 .. Len(t) : t[k].kind = kind /\ t[k].id = u
        BY <1>2, <1>6 DEF Tells
    <2>2. k + 1 \in DOMAIN q /\ q[k + 1] = t[k]
        BY <1>1, <1>2, <2>1
    <2>3. QED
        BY <2>1, <2>2 DEF Tells
  <1>7. ASSUME q[1].kind = kind, q[1].id = u
        PROVE  Tells(q, kind, u)
      BY <1>2, <1>7 DEF Tells
  <1>8. QED
      BY <1>5, <1>6, <1>7

(* The slots of a list that is in have different users.                    *)
LEMMA SlotsOnce ==
  ASSUME FriendSlotsAssumption, TypeOK, IdsOnce(table), Follows, Settled
  PROVE  \A i, j \in 1 .. count : slots[i].id = slots[j].id => i = j
  <1> DEFINE f == FriendList(table)
  <1>1. table \in Seq(TableRows)
      BY DEF TypeOK
  <1>2. \A k, l \in 1 .. Len(f) : f[k].id = f[l].id => k = l
      BY <1>1, ListOnce
  <1>3. Len(f) \in Nat
      BY <1>1, FramesAre
  <1>4. count \in Nat
      BY FriendsAre DEF TypeOK
  <1>5. IF listed THEN Holds(Len(f)) ELSE count = 0
      BY SettledHolds
  <1>6. CASE count = 0
      BY <1>6
  <1>7. CASE Holds(Len(f))
    <2>1. count <= Len(f) /\ \A i \in 1 .. count : slots[i].id = f[i].id
        BY <1>7 DEF Holds
    <2> HIDE DEF f
    <2>2. 1 .. count \subseteq 1 .. Len(f)
        BY <1>3, <1>4, <2>1
    <2>3. QED
        BY <1>2, <2>1, <2>2
  <1>8. QED
      BY <1>5, <1>6, <1>7

LEMMA MoreComing ==
  ASSUME FriendSlotsAssumption, TypeOK, Follows, ~ListAsked, Frames # <<>>, Head(Frames).kind # "listEnd"
  PROVE  Tail(Frames) # <<>>
  <1> DEFINE d == Frames
             l == ListFrames(table)
             f == FriendList(table)
  <1>1. d \in Seq(ListPackets) /\ d # <<>>
      BY FramesIn
  <1>2. Len(d) \in Nat /\ Tail(d) \in Seq(ListPackets) /\ Len(Tail(d)) = Len(d) - 1
      BY <1>1, FirstTaken
  <1>3. Len(d) >= 2
    <2>1. CASE WholeComing
      <3>1. table \in Seq(TableRows)
          BY DEF TypeOK
      <3>2. l \in Seq(ListPackets) /\ Len(l) = Len(f) + 2 /\ Len(f) \in Nat
          BY <3>1, FramesAre
      <3>3. IsSuffix(l, d)
          BY <2>1 DEF WholeComing
      <3> HIDE DEF l, d
      <3>4. Len(l) <= Len(d)
          BY <1>1, <3>2, <3>3, SuffixAt
      <3>5. QED
          BY <1>2, <3>2, <3>4
    <2>2. CASE RestComing
      <3>1. Head(d).kind \in {"listStart", "listRow"}
        <4>1. Head(d) \in ListPackets
            BY <1>1, FirstTaken
        <4>2. QED
            BY <4>1, FrameKinds
      <3>2. PICK n \in 0 .. Len(f) :
              /\ Len(f) \in Nat /\ Len(d) = Len(f) - n + 1
              /\ Head(d).kind = "listRow" => n < Len(f)
              /\ Head(d).kind # "listStart"
          BY <2>2, RestHead
      <3> DEFINE o == Len(f)
      <3>3. o \in Nat /\ n \in 0 .. o /\ n < o /\ Len(d) = o - n + 1
          BY <3>1, <3>2
      <3> HIDE DEF o, d
      <3>4. QED
          BY <3>3
    <2>3. CASE NoneComing
        BY <2>3 DEF NoneComing
    <2>4. QED
        BY <2>1, <2>2, <2>3 DEF Follows
  <1> DEFINE t == Tail(d)
  <1>4. Len(t) # 0
      BY <1>2, <1>3
  <1> HIDE DEF t
  <1>5. t # <<>>
      BY <1>4, EmptySeq
  <1>6. QED
      BY <1>5 DEF t

(* A step that leaves the friends and who is active.                       *)
LEMMA OpenedKept ==
  ASSUME FriendSlotsAssumption, TypeOK, Opened, Settled' => Settled,
         UNCHANGED <<screen, count, active>>,
         \A i \in Slots : slots'[i].id = slots[i].id /\ slots'[i].type = slots[i].type,
         Settled /\ active \in 1 .. count /\ (Shown \/ Reopening) => (Shown \/ Reopening)'
  PROVE  Opened'
  <1>1. 1 .. count \subseteq Slots
      BY FriendsAre DEF TypeOK
  <1>2. Accepted(count', slots') = Accepted(count, slots) /\ Accepted(count, slots) \subseteq 1 .. count
      BY <1>1 DEF Accepted
  <1>3. SUFFICES ASSUME Settled', screen' = "dms"
                 PROVE  /\ Accepted(count', slots') # {} => active' # 0
                        /\ active' \in Accepted(count', slots') => (Shown \/ Reopening)'
      BY DEF Opened
  <1>4. Settled /\ screen = "dms"
      BY <1>3
  <1>5. /\ Accepted(count, slots) # {} => active # 0
        /\ active \in Accepted(count, slots) => Shown \/ Reopening
      BY <1>4 DEF Opened
  <1>6. QED
      BY <1>2, <1>4, <1>5

LEMMA SettledBefore ==
  ASSUME ListAsked => ListAsked', Frames' = Frames
  PROVE  Settled' => Settled
  BY DEF Settled

(* One more request or packet, or none: what was to be opened still is.    *)
LEMMA StillReopening ==
  ASSUME TypeOK, UNCHANGED <<slots, active>>, Reopening,
         \/ up' = up
         \/ \E r \in Requests : up' = Append(up, r)
         \/ up # <<>> /\ up' = Tail(up) /\ Head(up).kind # "history",
         \/ down' = down
         \/ \E p \in Packets : down' = Append(down, p)
  PROVE  Reopening'
  <1>1. up \in Seq(Requests) /\ down \in Seq(Packets)
      BY DEF TypeOK
  <1>2. PICK u : u = slots[active].id
      OBVIOUS
  <1>3. Tells(up, "history", u) => Tells(up', "history", u)
    <2>1. CASE up' = up
        BY <2>1
    <2>2. ASSUME NEW r \in Requests, up' = Append(up, r)
          PROVE  Tells(up, "history", u) => Tells(up', "history", u)
        BY <1>1, <2>2, TellsAppend
    <2>3. CASE up # <<>> /\ up' = Tail(up) /\ Head(up).kind # "history"
        BY <1>1, <2>3, TellsTail
    <2>4. QED
        BY <2>1, <2>2, <2>3
  <1>4. Tells(down, "start", u) => Tells(down', "start", u)
    <2>1. CASE down' = down
        BY <2>1
    <2>2. ASSUME NEW p \in Packets, down' = Append(down, p)
          PROVE  Tells(down, "start", u) => Tells(down', "start", u)
        BY <1>1, <2>2, TellsAppend
    <2>3. QED
        BY <2>1, <2>2
  <1>5. Tells(up, "history", u) \/ Tells(down, "start", u)
      BY <1>2 DEF Reopening
  <1>6. slots'[active'].id = u
      BY <1>2
  <1>7. QED
      BY <1>3, <1>4, <1>5, <1>6 DEF Reopening

LEMMA KeyOpened ==
  ASSUME FriendSlotsAssumption, TypeOK, Filled, Followed(up), Opened, Key
  PROVE  Opened'
  <1>1. CASE ListAsked' \/ screen' = "others"
      BY <1>1 DEF Opened, Settled
  <1>2. ASSUME NEW r \in Requests, r.kind = "list", Asks(r)
        PROVE  ListAsked'
      BY <1>2, OneAsked DEF Asks
  <1>3. CASE OpenDMs \/ OpenFriends
    <2> DEFINE r == [kind |-> "list"]
    <2>1. r \in Requests /\ r.kind = "list" /\ Asks(r)
        BY <1>3, Words DEF OpenDMs, OpenFriends
    <2> HIDE DEF r
    <2>2. QED
        BY <1>1, <1>2, <2>1
  <1>4. ASSUME NEW verb \in Verbs, NEW u \in Users, Command(verb, u)
        PROVE  Opened'
    <2>1. screen' = "others"
        BY <1>4 DEF Command, TypeOK
    <2>2. QED
        BY <1>1, <2>1
  <1>5. CASE SignInAgain \/ Leave
      BY <1>1, <1>5 DEF SignInAgain, Leave
  <1>6. CASE BeginDraft
    <2>1. UNCHANGED <<up, down, screen, slots, count, active>>
        BY <1>6 DEF BeginDraft, view
    <2>2. Settled' => Settled
        BY <2>1 DEF Settled, ListAsked, Frames
    <2>3. (Shown \/ Reopening) => (Shown \/ Reopening)'
        BY <2>1 DEF Shown, Reopening
    <2>4. QED
        BY <2>1, <2>2, <2>3, OpenedKept
  <1>7. CASE Tab
    <2> DEFINE n == NextFriend
               u == slots[n].id
               r == [kind |-> "history", id |-> u]
    <2>1. /\ Asks(r) /\ UNCHANGED <<table, down, slots, count, screen>>
          /\ active # 0 /\ Accepted(count, slots) # {} /\ active' = n
        BY <1>7 DEF Tab, Conversing
    <2>2. count \in {0} \cup Slots
        BY DEF TypeOK
    <2>3. n \in 1 .. count /\ n \in Slots
        BY <2>1, <2>2, TabGoes, FriendsAre
    <2>4. u \in Users
        BY <2>3 DEF TypeOK, Filled
    <2>5. r \in Requests /\ r.kind = "history" /\ r.id = u
        BY <2>4, Words
    <2>6. up \in Seq(Requests)
        BY DEF TypeOK
    <2>7. slots'[active'].id = u /\ active' # 0
        BY <2>1, <2>3
    <2> HIDE DEF r, u, n
    <2>8. up' = Append(up, r)
        BY <2>1 DEF Asks
    <2>9. Tells(up', "history", u)
        BY <2>5, <2>6, <2>8, TellsAppend
    <2>10. Reopening'
        BY <2>7, <2>9 DEF Reopening
    <2>11. QED
        BY <2>7, <2>10 DEF Opened
  <1>8. CASE Send
    <2> DEFINE r == [kind |-> "post", id |-> slots[active].id]
               h == slots[active].holds \cup {slots[active].id}
    <2>1. /\ active # 0 /\ draft # Empty /\ Asks(r)
          /\ slots' = [slots EXCEPT ![active].holds = h]
          /\ UNCHANGED <<table, down, count, active, screen>>
        BY <1>8 DEF Send, Conversing
    <2>2. active \in Slots /\ slots[active].id \in Users /\ slots[active].holds \in SUBSET Users
        BY <2>1 DEF TypeOK, Filled
    <2>3. r \in Requests /\ r.kind = "post" /\ h \in SUBSET Users
        BY <2>2, Words
    <2>4. up' = Append(up, r) /\ up \in Seq(Requests)
        BY <2>1 DEF Asks, TypeOK
    <2> DEFINE i == active
    <2>5. i \in Slots /\ slots' = [slots EXCEPT ![i].holds = h] /\ i = active
        BY <2>1, <2>2
    <2>6. Shown => h \subseteq {slots[active].id}
        BY DEF Shown
    <2> HIDE DEF r, h, i
    <2>7. \A j \in Slots : slots'[j].id = slots[j].id /\ slots'[j].type = slots[j].type
        BY <2>3, <2>5, HoldsPut
    <2>8. slots'[active].holds = h /\ slots'[active].id = slots[active].id
      <3>1. slots'[i].holds = h
          BY <2>5 DEF TypeOK
      <3>2. QED
          BY <2>5, <2>7, <3>1
    <2>9. ListAsked => ListAsked'
        BY <2>3, <2>4, OneAsked
    <2>10. Frames' = Frames
        BY <2>1, FramesSame
    <2>11. Settled' => Settled
        BY <2>9, <2>10, SettledBefore
    <2>12. Shown => Shown'
        BY <2>1, <2>6, <2>8 DEF Shown
    <2>13. Reopening => Reopening'
      <3>1. PICK u : u = slots[active].id
          OBVIOUS
      <3>2. Tells(up, "history", u) => Tells(up', "history", u)
          BY <2>3, <2>4, TellsAppend
      <3>3. slots'[active'].id = u
          BY <2>1, <2>8, <3>1
      <3>4. Tells(down', "start", u) = Tells(down, "start", u)
          BY <2>1
      <3>5. QED
          BY <3>1, <3>2, <3>3, <3>4 DEF Reopening
    <2>14. QED
        BY <2>1, <2>7, <2>11, <2>12, <2>13, OpenedKept
  <1>9. QED
      BY <1>3, <1>4, <1>5, <1>6, <1>7, <1>8 DEF Key

LEMMA ServeOpened ==
  ASSUME FriendSlotsAssumption, TypeOK, TypeOK', Followed(up), Opened, Serve
  PROVE  Opened'
  <1>1. /\ UNCHANGED <<screen, slots, count, active, listed>>
        /\ up \in Seq(Requests) /\ down \in Seq(Packets) /\ table \in Seq(TableRows)
      BY DEF Serve, HandleCommand, HandleList, HandleHistory, HandlePost, PeerWrites, PeerCommand, view,
             TypeOK
  <1>2. ASSUME Settled' => Settled, Reopening => Reopening'
        PROVE  Opened'
    <2>1. Shown => Shown'
        BY <1>1 DEF Shown
    <2>2. QED
        BY <1>1, <1>2, <2>1, OpenedKept
  <1>3. ASSUME NEW t \in Seq(TableRows), table' = t, down' = down \o ListFrames(t)
        PROVE  Opened'
    <2>1. down' \in Seq(Packets) /\ ListFrames(t) \in Seq(Packets)
        BY FramesTyped DEF TypeOK
    <2> DEFINE x == Only(down, ListPackets)
               l == ListFrames(t)
               y == Only(down \o l, ListPackets)
    <2>2. l \in Seq(ListPackets) /\ Only(l, ListPackets) = l /\ Len(l) = Len(FriendList(t)) + 2
          /\ Len(FriendList(t)) \in Nat
        BY FramesAre
    <2>3. x \in Seq(Packets)
        BY <1>1, OnlyIn
    <2>4. l \in Seq(Packets)
        BY <2>1
    <2>5. Frames' = y
        BY <1>3 DEF Frames
    <2> HIDE DEF l
    <2>6. y = x \o l
      <3> DEFINE z == Only(l, ListPackets)
      <3>1. y = x \o z
          BY <1>1, <2>4, OnlyJoin
      <3>2. z = l
          BY <2>2
      <3> HIDE DEF x, y, z
      <3>3. QED
          BY <3>1, <3>2
    <2> HIDE DEF x, y
    <2>7. Len(x \o l) # 0
        BY <2>2, <2>3, <2>4
    <2>8. x \o l # <<>>
        BY <2>7, EmptySeq
    <2>9. ~Settled'
        BY <2>5, <2>6, <2>8 DEF Settled
    <2>10. QED
        BY <2>9 DEF Opened
  <1>4. CASE HandleCommand
    <2>1. up # <<>> /\ up' = Tail(up) /\ Head(up).kind = "command"
        BY <1>4 DEF HandleCommand, Handles
    <2>2. ListAsked'
        BY <2>1, OneHandled
    <2>3. QED
        BY <2>2 DEF Opened, Settled
  <1>5. CASE HandleList
    <2>1. table' = table /\ down' = down \o ListFrames(table)
        BY <1>5 DEF HandleList
    <2>2. QED
        BY <1>1, <1>3, <2>1
  <1>6. ASSUME NEW u \in Users, NEW verb \in Verbs, PeerCommand(verb, u)
        PROVE  Opened'
    <2> DEFINE t == Changed(verb, u, FALSE)
    <2>1. table' = t /\ down' = down \o ListFrames(t)
        BY <1>6 DEF PeerCommand
    <2>2. t \in Seq(TableRows)
        BY <1>1, ChangedTyped
    <2> HIDE DEF t
    <2>3. QED
        BY <1>3, <2>1, <2>2
  <1>7. CASE HandlePost
    <2>1. /\ up # <<>> /\ up' = Tail(up) /\ Head(up).kind = "post" /\ table' = table /\ down' = down
        BY <1>7 DEF HandlePost, Handles
    <2>2. Settled' => Settled
        BY <2>1, OneHandled, FramesSame, SettledBefore
    <2>3. Reopening => Reopening'
        BY <1>1, <2>1, StillReopening
    <2>4. QED
        BY <1>2, <2>2, <2>3
  <1>8. ASSUME NEW u \in Users, PeerWrites(u)
        PROVE  Opened'
    <2> DEFINE p == [kind |-> "message", id |-> u]
    <2>1. down' = Append(down, p) /\ up' = up
        BY <1>8 DEF PeerWrites
    <2>2. p \in Packets /\ p \notin ListPackets
        BY Words, FrameKinds
    <2> HIDE DEF p
    <2>3. Frames' = Frames
        BY <2>1, <2>2, FramesAdd
    <2>4. Settled' => Settled
        BY <2>1, <2>3, SettledBefore DEF ListAsked
    <2>5. Reopening => Reopening'
        BY <1>1, <2>1, <2>2, StillReopening
    <2>6. QED
        BY <1>2, <2>4, <2>5
  <1>9. CASE HandleHistory
    <2> DEFINE u == Head(up).id
               a == [kind |-> "start", id |-> u]
               b == [kind |-> "message", id |-> u]
               x == Append(down, a)
               z == Append(x, b)
    <2>1. /\ up # <<>> /\ up' = Tail(up) /\ Head(up).kind = "history" /\ table' = table
          /\ down' \in {x, z}
        BY <1>9 DEF HandleHistory, Handles
    <2>2. (ListAsked => ListAsked') /\ u \in Users
        BY <2>1, OneHandled, Words
    <2>3. a \in Packets /\ b \in Packets /\ a \notin ListPackets /\ b \notin ListPackets
        BY <2>2, Words, FrameKinds
    <2>4. a.kind = "start" /\ a.id = u
        OBVIOUS
    <2>5. Head(up).id = u
        OBVIOUS
    <2> HIDE DEF a, b, u
    <2>6. x \in Seq(Packets)
        BY <1>1, <2>3
    <2>7. Only(x, ListPackets) = Only(down, ListPackets)
        BY <1>1, <2>3, OnlyAppend
    <2>8. \A w : Tells(x, "start", w) <=> Tells(down, "start", w) \/ w = u
        BY <1>1, <2>3, <2>4, TellsAppend
    <2>9. Only(z, ListPackets) = Only(x, ListPackets)
      <3> HIDE DEF x
      <3>1. QED
          BY <2>3, <2>6, OnlyAppend
    <2>10. \A w : Tells(x, "start", w) => Tells(z, "start", w)
      <3> HIDE DEF x
      <3>1. QED
          BY <2>3, <2>6, TellsAppend
    <2> HIDE DEF x, z
    <2>11. Frames' = Frames
        BY <2>1, <2>7, <2>9 DEF Frames
    <2>12. Settled' => Settled
        BY <2>2, <2>11, SettledBefore
    <2>13. \A w : Tells(down, "start", w) \/ w = u => Tells(down', "start", w)
        BY <2>1, <2>8, <2>10
    <2>14. \A w : Tells(up, "history", w) => w = u \/ Tells(up', "history", w)
        BY <1>1, <2>1, <2>5, TellsTail
    <2>15. Reopening => Reopening'
        BY <1>1, <2>13, <2>14 DEF Reopening
    <2>16. QED
        BY <1>2, <2>12, <2>15
  <1>10. QED
      BY <1>4, <1>5, <1>6, <1>7, <1>8, <1>9 DEF Serve

(* A packet of a conversation: the slot of its user has it.                *)
LEMMA FiledOpened ==
  ASSUME FriendSlotsAssumption, TypeOK, Filled, IdsOnce(table), Follows, Opened,
         down # <<>>, down' = Tail(down), NEW adds \in BOOLEAN,
         Head(down).kind = (IF adds THEN "message" ELSE "start"),
         Files(Head(down).id, adds), Drawn(active)
  PROVE  Opened'
  <1>1. /\ Head(down) \in Packets
        /\ Frames' = Frames
      <2>1. Head(down).kind \in {"message", "start"}
          OBVIOUS
      <2>2. QED
          BY <2>1, FramesTaken, FrameKinds
  <1>2. PICK u : u = Head(down).id
      OBVIOUS
  <1>3. u \in Users
      BY <1>1, <1>2, Words
  <1>4. /\ \A j \in Slots : slots'[j].id = slots[j].id /\ slots'[j].type = slots[j].type
        /\ \A j \in Slots : slots'[j].holds # slots[j].holds =>
             /\ j \in 1 .. count /\ slots[j].id = u
             /\ slots'[j].holds = Filed(slots[j].holds, u, adds)
        /\ \A j \in 1 .. count : slots[j].id = u =>
             \E i \in 1 .. count :
               /\ slots[i].id = u
               /\ slots'[i].holds = Filed(slots[i].holds, u, adds)
        /\ UNCHANGED <<table, up, screen, count, draft, listed>>
    <2>1. Files(u, adds)
        BY <1>2
    <2>2. QED
        BY <1>3, <2>1, FilesIs
  <1>5. 1 .. count \subseteq Slots /\ active \in {0} \cup Slots
      BY FriendsAre DEF TypeOK
  <1>6. Settled' => Settled
      BY <1>1, <1>4, SettledBefore DEF ListAsked
  <1>7. CASE ~Settled'
      BY <1>7 DEF Opened
  <1>8. CASE Settled
    <2>1. Accepted(count', slots') = Accepted(count, slots)
        BY <1>4, <1>5 DEF Accepted
    <2>2. ~(screen' = "dms" /\ active = 0 /\ Accepted(count', slots') # {})
        BY <1>4, <1>8, <2>1 DEF Opened
    <2>3. active' = active
        BY <2>2 DEF Drawn
    <2>4. ASSUME active \in 1 .. count, Shown \/ Reopening
          PROVE  (Shown \/ Reopening)'
      <3>1. active \in Slots /\ slots'[active].id = slots[active].id
          BY <1>4, <1>5, <2>4
      <3>2. PICK w : w = slots[active].id
          OBVIOUS
      <3>3. (Shown' <=> slots'[active].holds \subseteq {w}) /\ (Shown <=> slots[active].holds \subseteq {w})
          BY <2>3, <3>1, <3>2 DEF Shown
      <3>4. /\ Reopening' <=> Tells(up', "history", w) \/ Tells(down', "start", w)
            /\ Reopening <=> Tells(up, "history", w) \/ Tells(down, "start", w)
          BY <2>3, <3>1, <3>2 DEF Reopening
      <3>5. CASE u = w /\ ~adds
        <4>1. PICK i \in 1 .. count : slots[i].id = u /\ slots'[i].holds = {}
            BY <1>4, <2>4, <3>2, <3>5 DEF Filed
        <4>2. i = active
            BY <1>8, <2>4, <3>2, <3>5, <4>1, SlotsOnce
        <4>3. QED
            BY <3>3, <4>1, <4>2
      <3>6. CASE u # w \/ adds
        <4>1. Shown => Shown'
            BY <1>4, <3>1, <3>2, <3>3, <3>6 DEF Filed
        <4>2. down \in Seq(Packets)
            BY DEF TypeOK
        <4>3. Tells(down, "start", w) => Tells(Tail(down), "start", w)
          <5>1. ~(Head(down).kind = "start" /\ Head(down).id = w)
              BY <1>2, <3>6
          <5>2. QED
              BY <4>2, <5>1, TellsTail
        <4>4. Reopening => Reopening'
            BY <1>4, <3>4, <4>3
        <4>5. QED
            BY <2>4, <4>1, <4>4
      <3>7. QED
          BY <3>5, <3>6
    <2>5. QED
        BY <1>4, <1>6, <2>3, <2>4, OpenedKept
  <1>9. QED
      BY <1>6, <1>7, <1>8

LEMMA ReceiveOpened ==
  ASSUME FriendSlotsAssumption, TypeOK, Filled, TypeOK', IdsOnce(table), Follows, Opened, Receive
  PROVE  Opened'
  <1>1. down # <<>> /\ down' = Tail(down)
      BY DEF Receive, ReceiveListStart, ReceiveListRow, ReceiveListEnd, ReceiveStart, ReceiveMessage, Gets
  <1>2. Head(down).kind \in {"listStart", "listRow", "listEnd"} =>
          Frames # <<>> /\ Head(Frames) = Head(down) /\ Frames' = Tail(Frames)
      BY <1>1, FramesTaken, FrameKinds
  <1>3. CASE ReceiveListStart \/ ReceiveListRow
    <2>1. Head(down).kind \in {"listStart", "listRow"} /\ up' = up
        BY <1>3 DEF ReceiveListStart, ReceiveListRow, Gets
    <2>2. ~ListAsked => Frames' # <<>>
        BY <1>2, <2>1, MoreComing
    <2>3. ~Settled'
        BY <2>1, <2>2 DEF Settled, ListAsked
    <2>4. QED
        BY <2>3 DEF Opened
  <1>4. CASE ReceiveListEnd
    <2> DEFINE S == Accepted(count, slots)
               first == Min(S)
               u == slots[first].id
               opens == screen = "dms" /\ S # {}
               r == [kind |-> "history", id |-> u]
    <2>1. /\ UNCHANGED <<slots, count, screen>> /\ Drawn(IF opens THEN first ELSE active)
          /\ up' = IF opens THEN Append(up, r) ELSE up
        BY <1>4 DEF ReceiveListEnd
    <2>2. Accepted(count', slots') = S
        BY <2>1
    <2>3. CASE ~opens
        BY <2>1, <2>2, <2>3 DEF Opened
    <2>4. CASE opens
      <3>1. first \in 1 .. count /\ first \in Slots /\ first # 0
        <4>1. count \in {0} \cup Slots
            BY DEF TypeOK
        <4>2. S \subseteq 1 .. count /\ 1 .. count \subseteq Slots /\ Min(S) \in S /\ count \in Nat
            BY <2>4, <4>1, FriendsAre
        <4> HIDE DEF S
        <4>3. \A i \in 1 .. count : i # 0
            BY <4>2
        <4>4. QED
            BY <4>2, <4>3
      <3>2. active' = first
          BY <2>1, <2>4, <3>1 DEF Drawn
      <3> HIDE DEF S, first
      <3>3. u \in Users
          BY <3>1 DEF TypeOK, Filled
      <3>4. r \in Requests /\ r.kind = "history" /\ r.id = u /\ up \in Seq(Requests)
          BY <3>3, Words DEF TypeOK
      <3>5. slots'[active'].id = u /\ active' # 0 /\ up' = Append(up, r)
          BY <2>1, <2>4, <3>1, <3>2
      <3> HIDE DEF u, r
      <3>6. Tells(up', "history", u)
          BY <3>4, <3>5, TellsAppend
      <3>7. Reopening'
          BY <3>5, <3>6 DEF Reopening
      <3>8. QED
          BY <3>5, <3>7 DEF Opened
    <2>5. QED
        BY <2>3, <2>4
  <1>5. CASE ReceiveStart
      BY <1>1, <1>5, FiledOpened DEF ReceiveStart, Gets
  <1>6. CASE ReceiveMessage
      BY <1>1, <1>6, FiledOpened DEF ReceiveMessage, Gets
  <1>7. QED
      BY <1>3, <1>4, <1>5, <1>6 DEF Receive

LEMMA NextOpened ==
  ASSUME FriendSlotsAssumption, TypeOK, Filled, TypeOK', Listing, IdsOnce(table), Opened, [Next]_vars
  PROVE  Opened'
  <1>1. ASSUME UNCHANGED <<up, down, screen, slots, count, active>>
        PROVE  Opened'
      BY <1>1 DEF Opened, Settled, ListAsked, Frames, Shown, Reopening
  <1>2. CASE UNCHANGED vars
      BY <1>1, <1>2 DEF vars
  <1>3. CASE TabFails
      BY <1>1, <1>3 DEF TabFails, view
  <1>4. CASE Restart
      BY <1>4 DEF Restart, Opened
  <1>5. QED
      BY <1>2, <1>3, <1>4, KeyOpened, ServeOpened, ReceiveOpened DEF Next, Listing

LEMMA OpenedShows ==
  ASSUME TypeOK, Opened
  PROVE  SlotIsConversation
  <1>1. SUFFICES ASSUME Conversing, active \in Accepted(count, slots),
                        ~InFlight(ListFrameKinds \cup {"history", "start"})
                 PROVE  Shown
      BY DEF SlotIsConversation, Shown
  <1>2. ~InFlight(ListFrameKinds) /\ ~InFlight({"history", "start"})
      BY <1>1 DEF InFlight
  <1>3. Settled
      BY <1>2, NoFrames
  <1>4. ~Reopening
      BY <1>2 DEF Reopening, Tells, InFlight
  <1>5. QED
      BY <1>1, <1>3, <1>4 DEF Opened, Conversing

(* The slots move under the messages that are in them; still the           *)
(* conversation with an active friend is that friend's once nothing is on  *)
(* its way: whenever the last list has come in, the active slot shows its  *)
(* own friend's messages or its history was asked for, and the start frame *)
(* of a history finds the slot, since no two slots have the same user.     *)
THEOREM SlotsShowFriend == Spec => []SlotIsConversation
  <1>1. Init => TypeOK /\ Filled /\ Listing /\ IdsOnce(table) /\ Opened
    <2>1. Init => Opened
        BY DEF Init, Opened
    <2>2. QED
        BY <2>1, FriendSlotsAssumption, InitTyped, InitListing, InitOnce
  <1>2. TypeOK /\ Filled /\ Listing /\ IdsOnce(table) /\ Opened /\ [Next]_vars
          => TypeOK' /\ Filled' /\ Listing' /\ IdsOnce(table)' /\ Opened'
      BY FriendSlotsAssumption, NextTyped, NextListing, NextOnce, NextOpened
  <1>3. TypeOK /\ Opened => SlotIsConversation
      BY OpenedShows
  <1>4. QED
      BY <1>1, <1>2, <1>3, PTL DEF Spec
=============================================================================
