-------------------------- MODULE Conversations_proofs --------------------------
(***************************************************************************)
(* What the proofs about conversations use: how a filter and a screen grow *)
(* with one more row or packet, and how they are composed.                 *)
(*                                                                         *)
(* Each law is proved for every sequence by SeqInduction, which takes the  *)
(* sequences a law holds of as a set.                                      *)
(***************************************************************************)
EXTENDS Conversations, SequenceTheorems, FiniteSetTheorems, WellFoundedInduction, TLAPS

-----------------------------------------------------------------------------
(* Induction and recursion. *)

(* A set of numbers has a least.                                           *)
LEMMA HasLeast ==
  ASSUME NEW T \in SUBSET Nat, T # {}
  PROVE  \E n \in T : \A m \in T : n <= m
  <1> DEFINE Below == {0 .. n : n \in T}
  <1>1. Below \subseteq FiniteSubsetsOf(Nat) /\ Below # {}
    <2>1. \A n \in T : 0 .. n \subseteq Nat /\ IsFiniteSet(0 .. n)
        BY FS_Interval
    <2>2. QED
        BY <2>1 DEF FiniteSubsetsOf
  <1>2. IsWellFoundedOn(StrictSubsetOrdering(Nat), FiniteSubsetsOf(Nat))
      BY FS_StrictSubsetOrderingWellFounded
  <1> HIDE DEF Below
  <1>3. PICK B \in Below : \A C \in Below : <<C, B>> \notin StrictSubsetOrdering(Nat)
      BY <1>1, <1>2, WFMin
  <1>4. PICK n \in T : B = 0 .. n
      BY DEF Below
  <1>5. ASSUME NEW m \in T, m < n
        PROVE  FALSE
    <2>1. 0 .. m \in Below
        BY DEF Below
    <2>2. 0 .. m \subseteq B /\ n \in B /\ n \notin 0 .. m
        BY <1>4, <1>5
    <2>3. <<0 .. m, B>> \in StrictSubsetOrdering(Nat)
        BY <1>4, <2>2 DEF StrictSubsetOrdering
    <2>4. QED
        BY <1>3, <2>1, <2>3
  <1>6. QED
      BY <1>5

(* What holds at 0 and is handed on up to n holds up to n.                 *)
LEMMA Onwards ==
  ASSUME NEW n \in Nat, NEW G, 0 \in G, \A i \in 1 .. n : i - 1 \in G => i \in G
  PROVE  0 .. n \subseteq G
  <1> DEFINE Bad == {i \in 0 .. n : i \notin G}
  <1>1. SUFFICES ASSUME Bad # {} PROVE FALSE
      OBVIOUS
  <1>2. PICK m \in Bad : \A k \in Bad : m <= k
    <2>1. Bad \in SUBSET Nat
        OBVIOUS
    <2> HIDE DEF Bad
    <2>2. QED
        BY <1>1, <2>1, HasLeast
  <1>3. m \in 1 .. n /\ m \notin G
      BY <1>2
  <1>4. m - 1 \in 0 .. n /\ ~(m <= m - 1)
      BY <1>3
  <1>5. m - 1 \in G
      BY <1>2, <1>4
  <1>6. QED
      BY <1>3, <1>5

(* What holds of the empty sequence and of one with one more element holds *)
(* of all.                                                                 *)
LEMMA SeqInduction ==
  ASSUME NEW T, NEW G, <<>> \in G,
         \A s \in Seq(T), x \in T : s \in G => Append(s, x) \in G
  PROVE  Seq(T) \subseteq G
  <1> SUFFICES ASSUME NEW s \in Seq(T) PROVE s \in G
      OBVIOUS
  <1> DEFINE N == {n \in 0 .. Len(s) : SubSeq(s, 1, n) \in G}
  <1>1. Len(s) \in Nat
      OBVIOUS
  <1>2. 0 \in N
    <2>1. SubSeq(s, 1, 0) = <<>>
        BY SubSeqEmpty
    <2>2. 0 \in 0 .. Len(s)
        BY <1>1
    <2>3. QED
        BY <2>1, <2>2
  <1>3. ASSUME NEW n \in 1 .. Len(s), n - 1 \in N
        PROVE  n \in N
    <2>1. SubSeq(s, 1, n - 1) \in Seq(T) /\ s[n] \in T
      <3>1. \A i \in 1 .. n - 1 : i \in 1 .. Len(s)
          BY <1>1
      <3>2. \A i \in 1 .. Len(s) : s[i] \in T
          BY ElementOfSeq
      <3>3. \A i \in 1 .. n - 1 : s[i] \in T
          BY <3>1, <3>2
      <3>4. n - 1 \in Int /\ 1 \in Int
          BY <1>1
      <3>5. QED
          BY <3>2, <3>3, <3>4, SubSeqProperties
    <2>2. SubSeq(s, 1, n) = SubSeq(s, 1, n - 1) \o <<s[n]>>
      <3>1. 1 \in 1 .. Len(s) /\ n \in 1 .. Len(s)
          BY <1>1
      <3>2. QED
          BY <3>1, SubSeqRecursiveSecond
    <2>3. SubSeq(s, 1, n) = Append(SubSeq(s, 1, n - 1), s[n])
        BY <2>1, <2>2, AppendIsConcat
    <2>4. SubSeq(s, 1, n - 1) \in G
        BY <1>3
    <2>5. SubSeq(s, 1, n) \in G
        BY <2>1, <2>3, <2>4
    <2>6. QED
        BY <1>1, <2>5
  <1> HIDE DEF N
  <1>4. Len(s) \in N
    <2>1. 0 .. Len(s) \subseteq N
        BY <1>1, <1>2, <1>3, Onwards
    <2>2. QED
        BY <1>1, <2>1
  <1>5. QED
      BY <1>4, SubSeqFull DEF N

(* f holds what is kept of the first rows of s, up to n of them.           *)
Keeps(f, s, S, n) ==
  f = [i \in 0 .. n |-> IF i = 0 THEN <<>> ELSE (IF s[i] \in S THEN Append(f[i - 1], s[i]) ELSE f[i - 1])]

(* Rows can be kept one after the other.                                   *)
LEMMA KeepsExist ==
  ASSUME NEW s, NEW S, NEW n \in Nat
  PROVE  \E f : Keeps(f, s, S, n)
  <1> DEFINE G == {m \in 0 .. n : \E f : Keeps(f, s, S, m)}
  <1>1. 0 \in G
    <2>1. Keeps([i \in 0 .. 0 |-> <<>>], s, S, 0)
        BY DEF Keeps
    <2>2. QED
        BY <2>1
  <1>2. ASSUME NEW m \in 1 .. n, m - 1 \in G
        PROVE  m \in G
    <2>1. PICK f : Keeps(f, s, S, m - 1)
        BY <1>2
    <2> DEFINE g == [i \in 0 .. m |-> IF i = m THEN (IF s[m] \in S THEN Append(f[m - 1], s[m]) ELSE f[m - 1]) ELSE f[i]]
    <2>2. \A i \in 0 .. m - 1 : g[i] = f[i]
        OBVIOUS
    <2>3. \A i \in 0 .. m - 1 : f[i] = IF i = 0 THEN <<>> ELSE (IF s[i] \in S THEN Append(f[i - 1], s[i]) ELSE f[i - 1])
        BY <2>1 DEF Keeps
    <2>4. ASSUME NEW i \in 0 .. m
          PROVE  g[i] = IF i = 0 THEN <<>> ELSE (IF s[i] \in S THEN Append(g[i - 1], s[i]) ELSE g[i - 1])
      <3>1. CASE i = m
          BY <2>2, <3>1
      <3>2. CASE i # m
        <4>1. i \in 0 .. m - 1 /\ (i # 0 => i - 1 \in 0 .. m - 1)
            BY <3>2
        <4>2. QED
            BY <2>2, <2>3, <4>1
      <3>3. QED
          BY <3>1, <3>2
    <2>5. Keeps(g, s, S, m)
      <3>1. g = [i \in 0 .. m |-> g[i]]
          OBVIOUS
      <3> HIDE DEF g
      <3>2. QED
          BY <2>4, <3>1 DEF Keeps
    <2>6. QED
        BY <2>5
  <1> HIDE DEF G
  <1>3. 0 .. n \subseteq G
      BY <1>1, <1>2, Onwards
  <1>4. QED
      BY <1>3 DEF G

(* Only, by recursion.                                                     *)
LEMMA OnlyIs ==
  ASSUME NEW s, NEW S, Len(s) \in Nat
  PROVE  \E f : /\ Only(s, S) = f[Len(s)]
              /\ f[0] = <<>>
              /\ \A i \in 1 .. Len(s) : f[i] = (IF s[i] \in S THEN Append(f[i - 1], s[i]) ELSE f[i - 1])
  <1> DEFINE h == CHOOSE f : Keeps(f, s, S, Len(s))
  <1>1. Only(s, S) = h[Len(s)]
      BY DEF Only, Keeps
  <1>2. Keeps(h, s, S, Len(s))
      BY KeepsExist
  <1> HIDE DEF h
  <1>3. \A i \in 0 .. Len(s) : h[i] = IF i = 0 THEN <<>> ELSE (IF s[i] \in S THEN Append(h[i - 1], s[i]) ELSE h[i - 1])
      BY <1>2 DEF Keeps
  <1>4. 0 \in 0 .. Len(s) /\ \A i \in 1 .. Len(s) : i \in 0 .. Len(s) /\ i # 0
      OBVIOUS
  <1>5. QED
      BY <1>1, <1>3, <1>4

(* f holds the screens after the first packets of d, up to n of them.      *)
Plays(f, s, d, n) ==
  f = [i \in 0 .. n |-> IF i = 0 THEN s ELSE Played(f[i - 1], d[i])]

(* Packets can be played one after the other.                              *)
LEMMA PlaysExist ==
  ASSUME NEW s, NEW d, NEW n \in Nat
  PROVE  \E f : Plays(f, s, d, n)
  <1> DEFINE G == {m \in 0 .. n : \E f : Plays(f, s, d, m)}
  <1>1. 0 \in G
    <2>1. Plays([i \in 0 .. 0 |-> s], s, d, 0)
        BY DEF Plays
    <2>2. QED
        BY <2>1
  <1>2. ASSUME NEW m \in 1 .. n, m - 1 \in G
        PROVE  m \in G
    <2>1. PICK f : Plays(f, s, d, m - 1)
        BY <1>2
    <2> DEFINE g == [i \in 0 .. m |-> IF i = m THEN Played(f[m - 1], d[m]) ELSE f[i]]
    <2>2. \A i \in 0 .. m - 1 : g[i] = f[i]
        OBVIOUS
    <2>3. \A i \in 0 .. m - 1 : f[i] = IF i = 0 THEN s ELSE Played(f[i - 1], d[i])
        BY <2>1 DEF Plays
    <2>4. ASSUME NEW i \in 0 .. m
          PROVE  g[i] = IF i = 0 THEN s ELSE Played(g[i - 1], d[i])
      <3>1. CASE i = m
          BY <2>2, <3>1
      <3>2. CASE i # m
        <4>1. i \in 0 .. m - 1 /\ (i # 0 => i - 1 \in 0 .. m - 1)
            BY <3>2
        <4>2. QED
            BY <2>2, <2>3, <4>1
      <3>3. QED
          BY <3>1, <3>2
    <2>5. Plays(g, s, d, m)
      <3>1. g = [i \in 0 .. m |-> g[i]]
          OBVIOUS
      <3> HIDE DEF g
      <3>2. QED
          BY <2>4, <3>1 DEF Plays
    <2>6. QED
        BY <2>5
  <1> HIDE DEF G
  <1>3. 0 .. n \subseteq G
      BY <1>1, <1>2, Onwards
  <1>4. QED
      BY <1>3 DEF G

(* Screen, by recursion.                                                   *)
LEMMA ScreenIs ==
  ASSUME NEW s, NEW d, Len(d) \in Nat
  PROVE  \E f : /\ Screen(s, d) = f[Len(d)]
              /\ f[0] = s
              /\ \A i \in 1 .. Len(d) : f[i] = Played(f[i - 1], d[i])
  <1> DEFINE h == CHOOSE f : Plays(f, s, d, Len(d))
  <1>1. Screen(s, d) = h[Len(d)]
      BY DEF Screen, Plays
  <1>2. Plays(h, s, d, Len(d))
      BY PlaysExist
  <1> HIDE DEF h
  <1>3. \A i \in 0 .. Len(d) : h[i] = IF i = 0 THEN s ELSE Played(h[i - 1], d[i])
      BY <1>2 DEF Plays
  <1>4. 0 \in 0 .. Len(d) /\ \A i \in 1 .. Len(d) : i \in 0 .. Len(d) /\ i # 0
      OBVIOUS
  <1>5. QED
      BY <1>1, <1>3, <1>4


-----------------------------------------------------------------------------
(* The rows a filter keeps. *)

LEMMA OnlyEmpty == ASSUME NEW S PROVE Only(<<>>, S) = <<>>
  <1>1. Len(<<>>) = 0
      OBVIOUS
  <1>2. QED
      BY <1>1, OnlyIs

(* One more row is kept or not. *)
LEMMA OnlyAppend ==
  ASSUME NEW T, NEW s \in Seq(T), NEW x \in T, NEW S
  PROVE  Only(Append(s, x), S) = IF x \in S THEN Append(Only(s, S), x) ELSE Only(s, S)
  <1> DEFINE t == Append(s, x)
             n == Len(s)
  <1>1. /\ n \in Nat /\ Len(t) = n + 1 /\ t[n + 1] = x
        /\ \A i \in 1 .. n : t[i] = s[i]
      BY AppendProperties
  <1>2. PICK f : /\ Only(s, S) = f[n] /\ f[0] = <<>>
                 /\ \A i \in 1 .. n : f[i] = (IF s[i] \in S THEN Append(f[i - 1], s[i]) ELSE f[i - 1])
      BY <1>1, OnlyIs
  <1>3. PICK g : /\ Only(t, S) = g[Len(t)] /\ g[0] = <<>>
                 /\ \A i \in 1 .. Len(t) :
                      g[i] = (IF t[i] \in S THEN Append(g[i - 1], t[i]) ELSE g[i - 1])
    <2>1. Len(t) \in Nat
        BY <1>1
    <2> HIDE DEF t
    <2>2. QED
        BY <2>1, OnlyIs
  <1> HIDE DEF t, n
  <1> DEFINE G == {i \in 0 .. n : f[i] = g[i]}
  <1>4. 0 \in G
      BY <1>1, <1>2, <1>3
  <1>5. ASSUME NEW i \in 1 .. n, i - 1 \in G
        PROVE  i \in G
    <2>1. i \in 1 .. Len(t) /\ i \in 0 .. n /\ f[i - 1] = g[i - 1] /\ t[i] = s[i]
        BY <1>1, <1>5
    <2>2. f[i] = g[i]
        BY <1>2, <1>3, <2>1
    <2>3. QED
        BY <2>1, <2>2
  <1>6. n \in G
    <2> HIDE DEF G
    <2>1. 0 .. n \subseteq G
        BY <1>1, <1>4, <1>5, Onwards
    <2>2. QED
        BY <1>1, <2>1
  <1>7. n + 1 \in 1 .. Len(t) /\ n + 1 - 1 = n
      BY <1>1
  <1>8. g[n + 1] = IF x \in S THEN Append(g[n], x) ELSE g[n]
      BY <1>1, <1>3, <1>7
  <1>9. QED
      BY <1>1, <1>2, <1>3, <1>6, <1>8 DEF t

(* They are rows of the table, and satisfy the condition.                  *)
LEMMA OnlyTyped ==
  ASSUME NEW T, NEW s \in Seq(T), NEW S
  PROVE  Only(s, S) \in Seq(T \cap S)
  <1> DEFINE G == {t \in Seq(T) : Only(t, S) \in Seq(T \cap S)}
  <1>1. <<>> \in G
    <2>1. <<>> \in Seq(T) /\ <<>> \in Seq(T \cap S)
        BY EmptySeq
    <2>2. Only(<<>>, S) = <<>>
        BY OnlyEmpty
    <2>3. QED
        BY <2>1, <2>2
  <1>2. ASSUME NEW t \in Seq(T), NEW x \in T, t \in G
        PROVE  Append(t, x) \in G
    <2>1. Only(Append(t, x), S) = IF x \in S THEN Append(Only(t, S), x) ELSE Only(t, S)
        BY OnlyAppend
    <2>2. Only(t, S) \in Seq(T \cap S)
        BY <1>2
    <2>3. x \in S => Append(Only(t, S), x) \in Seq(T \cap S)
        BY <2>2, AppendProperties
    <2>4. Append(t, x) \in Seq(T)
        BY AppendProperties
    <2>5. QED
        BY <2>1, <2>2, <2>3, <2>4
  <1> HIDE DEF G
  <1>3. s \in G
      BY <1>1, <1>2, SeqInduction
  <1>4. QED
      BY <1>3 DEF G

LEMMA OnlyIn ==
  ASSUME NEW T, NEW s \in Seq(T), NEW S
  PROVE  Only(s, S) \in Seq(T)
  <1>1. Only(s, S) \in Seq(T \cap S) /\ T \cap S \subseteq T
      BY OnlyTyped
  <1>2. QED
      BY <1>1, SeqMonotonic

LEMMA JoinAppend ==
  ASSUME NEW T, NEW s \in Seq(T), NEW t \in Seq(T), NEW x \in T
  PROVE  s \o Append(t, x) = Append(s \o t, x)
  OBVIOUS

(* The rows kept of two tables, one after the other.                       *)
LEMMA OnlyJoin ==
  ASSUME NEW T, NEW s \in Seq(T), NEW t \in Seq(T), NEW S
  PROVE  Only(s \o t, S) = Only(s, S) \o Only(t, S)
  <1> DEFINE G == {u \in Seq(T) : Only(s \o u, S) = Only(s, S) \o Only(u, S)}
  <1>1. <<>> \in G
    <2>1. s \o <<>> = s /\ Only(s, S) \o <<>> = Only(s, S) /\ <<>> \in Seq(T)
        BY OnlyIn, ConcatEmptySeq, EmptySeq
    <2>2. Only(<<>>, S) = <<>>
        BY OnlyEmpty
    <2>3. QED
        BY <2>1, <2>2
  <1>2. ASSUME NEW u \in Seq(T), NEW x \in T, u \in G
        PROVE  Append(u, x) \in G
    <2>1. Append(u, x) \in Seq(T) /\ s \o u \in Seq(T) /\ s \o Append(u, x) = Append(s \o u, x)
        OBVIOUS
    <2>2. /\ Only(Append(u, x), S) = IF x \in S THEN Append(Only(u, S), x) ELSE Only(u, S)
          /\ Only(Append(s \o u, x), S)
               = IF x \in S THEN Append(Only(s \o u, S), x) ELSE Only(s \o u, S)
        BY <2>1, OnlyAppend
    <2>3. Only(s \o u, S) = Only(s, S) \o Only(u, S)
        BY <1>2
    <2>4. Only(s, S) \in Seq(T) /\ Only(u, S) \in Seq(T)
        BY OnlyIn
    <2>5. Append(Only(s, S) \o Only(u, S), x) = Only(s, S) \o Append(Only(u, S), x)
      <3> DEFINE a == Only(s, S)
                 b == Only(u, S)
      <3> HIDE DEF a, b
      <3>1. a \in Seq(T) /\ b \in Seq(T)
          BY <2>4 DEF a, b
      <3>2. a \o Append(b, x) = Append(a \o b, x)
          BY <3>1, JoinAppend
      <3>3. QED
          BY <3>2 DEF a, b
    <2>6. QED
        BY <2>1, <2>2, <2>3, <2>5
  <1> HIDE DEF G
  <1>3. t \in G
      BY <1>1, <1>2, SeqInduction
  <1>4. QED
      BY <1>3 DEF G

(* Two conditions that agree on the rows keep the same.                    *)
LEMMA OnlyAgree ==
  ASSUME NEW T, NEW s \in Seq(T), NEW S, NEW U, \A x \in ToSet(s) : x \in S <=> x \in U
  PROVE  Only(s, S) = Only(s, U)
  <1> DEFINE G == {t \in Seq(T) : (\A x \in ToSet(t) : x \in S <=> x \in U)
                                  => Only(t, S) = Only(t, U)}
  <1>1. <<>> \in G
      BY OnlyEmpty
  <1>2. ASSUME NEW t \in Seq(T), NEW x \in T, t \in G
        PROVE  Append(t, x) \in G
    <2>1. Append(t, x) \in Seq(T) /\ ToSet(Append(t, x)) = ToSet(t) \cup {x}
      <3>1. /\ Append(t, x) \in Seq(T) /\ Len(Append(t, x)) = Len(t) + 1 /\ Len(t) \in Nat
            /\ Append(t, x)[Len(t) + 1] = x
            /\ \A i \in 1 .. Len(t) : Append(t, x)[i] = t[i]
          BY AppendProperties
      <3>2. DOMAIN t = 1 .. Len(t) /\ DOMAIN Append(t, x) = 1 .. Len(t) + 1
          BY <3>1
      <3>3. QED
          BY <3>1, <3>2 DEF ToSet
    <2>2. /\ Only(Append(t, x), S) = IF x \in S THEN Append(Only(t, S), x) ELSE Only(t, S)
          /\ Only(Append(t, x), U) = IF x \in U THEN Append(Only(t, U), x) ELSE Only(t, U)
        BY OnlyAppend
    <2>3. QED
        BY <1>2, <2>1, <2>2
  <1> HIDE DEF G
  <1>3. s \in G
      BY <1>1, <1>2, SeqInduction
  <1>4. QED
      BY <1>3 DEF G

(* What one more row adds to the set of rows.                              *)
LEMMA ToSetAppend ==
  ASSUME NEW T, NEW t \in Seq(T), NEW x \in T
  PROVE  ToSet(Append(t, x)) = ToSet(t) \cup {x}
  <1>1. /\ Append(t, x) \in Seq(T) /\ Len(Append(t, x)) = Len(t) + 1 /\ Len(t) \in Nat
        /\ Append(t, x)[Len(t) + 1] = x
        /\ \A i \in 1 .. Len(t) : Append(t, x)[i] = t[i]
      BY AppendProperties
  <1>2. DOMAIN t = 1 .. Len(t) /\ DOMAIN Append(t, x) = 1 .. Len(t) + 1
      BY <1>1
  <1>3. QED
      BY <1>1, <1>2 DEF ToSet

LEMMA ToSetIn ==
  ASSUME NEW T, NEW t \in Seq(T)
  PROVE  ToSet(t) \subseteq T /\ ToSet(<<>>) = {}
  BY DEF ToSet

(* A condition that all rows satisfy keeps them all. *)
LEMMA OnlyAll ==
  ASSUME NEW T, NEW s \in Seq(T), NEW S, ToSet(s) \subseteq S
  PROVE  Only(s, S) = s
  <1> DEFINE G == {t \in Seq(T) : ToSet(t) \subseteq S => Only(t, S) = t}
  <1>1. <<>> \in G
      BY OnlyEmpty
  <1>2. ASSUME NEW t \in Seq(T), NEW x \in T, t \in G
        PROVE  Append(t, x) \in G
    <2>1. ToSet(Append(t, x)) = ToSet(t) \cup {x}
        BY ToSetAppend
    <2>2. Append(t, x) \in Seq(T)
        BY AppendProperties
    <2>3. Only(Append(t, x), S) = IF x \in S THEN Append(Only(t, S), x) ELSE Only(t, S)
        BY OnlyAppend
    <2>4. QED
        BY <1>2, <2>1, <2>2, <2>3
  <1> HIDE DEF G
  <1>3. s \in G
      BY <1>1, <1>2, SeqInduction
  <1>4. QED
      BY <1>3 DEF G

(* The rows kept are the rows that satisfy the condition. *)
LEMMA OnlyRange ==
  ASSUME NEW T, NEW s \in Seq(T), NEW S
  PROVE  ToSet(Only(s, S)) = ToSet(s) \cap S
  <1> DEFINE G == {t \in Seq(T) : ToSet(Only(t, S)) = ToSet(t) \cap S}
  <1>1. <<>> \in G
      BY OnlyEmpty, ToSetIn
  <1>2. ASSUME NEW t \in Seq(T), NEW x \in T, t \in G
        PROVE  Append(t, x) \in G
    <2>1. ToSet(Append(t, x)) = ToSet(t) \cup {x}
        BY ToSetAppend
    <2>2. Append(t, x) \in Seq(T) /\ Only(t, S) \in Seq(T)
        BY AppendProperties, OnlyIn
    <2>3. ToSet(Append(Only(t, S), x)) = ToSet(Only(t, S)) \cup {x}
        BY <2>2, ToSetAppend
    <2>4. Only(Append(t, x), S) = IF x \in S THEN Append(Only(t, S), x) ELSE Only(t, S)
        BY OnlyAppend
    <2>5. CASE x \in S
        BY <1>2, <2>1, <2>2, <2>3, <2>4, <2>5
    <2>6. CASE x \notin S
        BY <1>2, <2>1, <2>2, <2>4, <2>6
    <2>7. QED
        BY <2>5, <2>6
  <1> HIDE DEF G
  <1>3. s \in G
      BY <1>1, <1>2, SeqInduction
  <1>4. QED
      BY <1>3 DEF G

(* One condition after the other.                                          *)
LEMMA OnlyOnly ==
  ASSUME NEW T, NEW s \in Seq(T), NEW S, NEW U
  PROVE  Only(Only(s, S), U) = Only(s, S \cap U)
  <1> DEFINE G == {t \in Seq(T) : Only(Only(t, S), U) = Only(t, S \cap U)}
  <1>1. <<>> \in G
      BY OnlyEmpty
  <1>2. ASSUME NEW t \in Seq(T), NEW x \in T, t \in G
        PROVE  Append(t, x) \in G
    <2>1. Append(t, x) \in Seq(T) /\ Only(t, S) \in Seq(T)
        BY AppendProperties, OnlyIn
    <2>2. /\ Only(Append(t, x), S) = IF x \in S THEN Append(Only(t, S), x) ELSE Only(t, S)
          /\ Only(Append(t, x), S \cap U)
               = IF x \in S \cap U THEN Append(Only(t, S \cap U), x) ELSE Only(t, S \cap U)
        BY OnlyAppend
    <2>3. Only(Append(Only(t, S), x), U)
            = IF x \in U THEN Append(Only(Only(t, S), U), x) ELSE Only(Only(t, S), U)
        BY <2>1, OnlyAppend
    <2>4. Only(Only(t, S), U) = Only(t, S \cap U)
        BY <1>2
    <2>5. Only(Only(Append(t, x), S), U) = Only(Append(t, x), S \cap U)
      <3>1. CASE x \in S
        <4>1. Only(Only(Append(t, x), S), U) = Only(Append(Only(t, S), x), U)
            BY <2>2, <3>1
        <4>2. x \in S \cap U <=> x \in U
            BY <3>1
        <4>3. QED
            BY <2>2, <2>3, <2>4, <4>1, <4>2
      <3>2. CASE x \notin S
          BY <2>2, <2>4, <3>2
      <3>3. QED
          BY <3>1, <3>2
    <2>6. QED
        BY <2>1, <2>5
  <1> HIDE DEF G
  <1>3. s \in G
      BY <1>1, <1>2, SeqInduction
  <1>4. QED
      BY <1>3 DEF G

(* No element is twice in a sequence to which one is added that it lacks.  *)
LEMMA InjectiveAppend ==
  ASSUME NEW T, NEW t \in Seq(T), NEW x \in T
  PROVE  IsInjective(Append(t, x)) <=> IsInjective(t) /\ x \notin ToSet(t)
  <1>1. /\ Append(t, x) \in Seq(T) /\ Len(Append(t, x)) = Len(t) + 1 /\ Len(t) \in Nat
        /\ Append(t, x)[Len(t) + 1] = x
        /\ \A i \in 1 .. Len(t) : Append(t, x)[i] = t[i]
      BY AppendProperties
  <1>2. /\ DOMAIN t = 1 .. Len(t) /\ DOMAIN Append(t, x) = 1 .. Len(t) + 1
        /\ \A i \in 1 .. Len(t) : i \in 1 .. Len(t) + 1 /\ i # Len(t) + 1
        /\ \A i \in 1 .. Len(t) + 1 : i \in 1 .. Len(t) \/ i = Len(t) + 1
        /\ Len(t) + 1 \in 1 .. Len(t) + 1
      BY <1>1
  <1>3. ASSUME IsInjective(Append(t, x)) PROVE IsInjective(t) /\ x \notin ToSet(t)
      BY <1>1, <1>2, <1>3 DEF IsInjective, ToSet
  <1>4. ASSUME IsInjective(t), x \notin ToSet(t) PROVE IsInjective(Append(t, x))
      BY <1>1, <1>2, <1>4 DEF IsInjective, ToSet
  <1>5. QED
      BY <1>3, <1>4

(* A filter keeps nothing twice that is there once.                        *)
LEMMA OnlyInjective ==
  ASSUME NEW T, NEW s \in Seq(T), NEW S, IsInjective(s)
  PROVE  IsInjective(Only(s, S))
  <1> DEFINE G == {t \in Seq(T) : IsInjective(t) => IsInjective(Only(t, S))}
  <1>1. <<>> \in G
      BY OnlyEmpty
  <1>2. ASSUME NEW t \in Seq(T), NEW x \in T, t \in G
        PROVE  Append(t, x) \in G
    <2>1. Append(t, x) \in Seq(T) /\ Only(t, S) \in Seq(T)
        BY AppendProperties, OnlyIn
    <2>2. IsInjective(Append(t, x)) <=> IsInjective(t) /\ x \notin ToSet(t)
        BY InjectiveAppend
    <2>3. IsInjective(Append(Only(t, S), x)) <=> IsInjective(Only(t, S)) /\ x \notin ToSet(Only(t, S))
        BY <2>1, InjectiveAppend
    <2>4. ToSet(Only(t, S)) = ToSet(t) \cap S
        BY OnlyRange
    <2>5. Only(Append(t, x), S) = IF x \in S THEN Append(Only(t, S), x) ELSE Only(t, S)
        BY OnlyAppend
    <2>6. IsInjective(t) => IsInjective(Only(t, S))
        BY <1>2
    <2>7. IsInjective(Append(t, x)) => IsInjective(Only(Append(t, x), S))
        BY <2>2, <2>3, <2>4, <2>5, <2>6
    <2>8. QED
        BY <2>1, <2>7
  <1> HIDE DEF G
  <1>3. s \in G
      BY <1>1, <1>2, SeqInduction
  <1>4. QED
      BY <1>3 DEF G

-----------------------------------------------------------------------------
(* Queues. *)

(* The queue that is left when its first element is taken.                 *)
LEMMA FirstTaken ==
  ASSUME NEW T, NEW q \in Seq(T), q # <<>>
  PROVE  /\ Len(q) \in Nat \ {0} /\ Head(q) = q[1] /\ Head(q) \in T
         /\ Tail(q) \in Seq(T) /\ Len(Tail(q)) = Len(q) - 1
         /\ \A k \in 1 .. Len(Tail(q)) : Tail(q)[k] = q[k + 1] /\ k + 1 \in 1 .. Len(q)
         /\ \A k \in 2 .. Len(q) : k - 1 \in 1 .. Len(Tail(q)) /\ q[k] = Tail(q)[k - 1]
  <1>1. /\ Len(q) \in Nat \ {0} /\ Head(q) \in T
        /\ Tail(q) \in Seq(T) /\ Len(Tail(q)) = Len(q) - 1
        /\ \A k \in 1 .. Len(Tail(q)) : Tail(q)[k] = q[k + 1]
      BY HeadTailProperties, EmptySeq
  <1>2. Head(q) = q[1]
      OBVIOUS
  <1>3. \A k \in 1 .. Len(Tail(q)) : k + 1 \in 1 .. Len(q)
      BY <1>1
  <1>4. \A k \in 2 .. Len(q) : k - 1 \in 1 .. Len(Tail(q)) /\ k - 1 + 1 = k
      BY <1>1
  <1>5. QED
      BY <1>1, <1>2, <1>3, <1>4

(* And the one to which an element is added.                               *)
LEMMA OneAdded ==
  ASSUME NEW T, NEW q \in Seq(T), NEW x \in T
  PROVE  /\ Len(q) \in Nat /\ Append(q, x) \in Seq(T) /\ Len(Append(q, x)) = Len(q) + 1
         /\ Append(q, x)[Len(q) + 1] = x
         /\ \A k \in 1 .. Len(q) : Append(q, x)[k] = q[k] /\ k \in 1 .. Len(q) + 1
         /\ \A k \in 1 .. Len(q) + 1 : k \in 1 .. Len(q) \/ k = Len(q) + 1
         /\ Len(q) + 1 \in 1 .. Len(q) + 1
         /\ Len(q) + 1 \notin 1 .. Len(q)
  <1>1. /\ Len(q) \in Nat /\ Append(q, x) \in Seq(T) /\ Len(Append(q, x)) = Len(q) + 1
        /\ Append(q, x)[Len(q) + 1] = x
        /\ \A k \in 1 .. Len(q) : Append(q, x)[k] = q[k]
      BY AppendProperties
  <1>2. QED
      BY <1>1

LEMMA InToSet ==
  ASSUME NEW T, NEW q \in Seq(T)
  PROVE  ToSet(q) = {q[k] : k \in 1 .. Len(q)} /\ DOMAIN q = 1 .. Len(q)
  BY DEF ToSet

(* A queue that a request or a packet is added to, or taken from.          *)
LEMMA Queues ==
  ASSUME NEW C, NEW R, NEW q \in [C -> Seq(R)], NEW c \in C
  PROVE  /\ \A r \in R : [q EXCEPT ![c] = Append(@, r)] \in [C -> Seq(R)]
         /\ \A s \in Seq(R) : [q EXCEPT ![c] = @ \o s] \in [C -> Seq(R)]
         /\ [q EXCEPT ![c] = <<>>] \in [C -> Seq(R)]
         /\ q[c] # <<>> => /\ [q EXCEPT ![c] = Tail(@)] \in [C -> Seq(R)]
                           /\ Head(q[c]) \in R
  <1>1. q[c] \in Seq(R)
      OBVIOUS
  <1>2. \A r \in R : Append(q[c], r) \in Seq(R)
      BY <1>1
  <1>3. \A s \in Seq(R) : q[c] \o s \in Seq(R)
      BY <1>1
  <1>4. <<>> \in Seq(R)
      BY EmptySeq
  <1>5. q[c] # <<>> => Tail(q[c]) \in Seq(R) /\ Head(q[c]) \in R
      BY <1>1, FirstTaken
  <1>6. \A s \in Seq(R) : [q EXCEPT ![c] = s] \in [C -> Seq(R)]
      OBVIOUS
  <1>7. QED
      BY <1>1, <1>2, <1>3, <1>4, <1>5, <1>6

(* A packet or a request of some kind in a queue.                          *)
Has(q, kind) == \E k \in DOMAIN q : q[k].kind = kind

LEMMA HasAppend ==
  ASSUME NEW P, NEW d \in Seq(P), NEW p \in P
  PROVE  \A kind : Has(Append(d, p), kind) <=> Has(d, kind) \/ p.kind = kind
  <1>1. /\ Append(d, p) \in Seq(P) /\ Len(Append(d, p)) = Len(d) + 1 /\ Len(d) \in Nat
        /\ Append(d, p)[Len(d) + 1] = p
        /\ \A i \in 1 .. Len(d) : Append(d, p)[i] = d[i]
      BY AppendProperties
  <1>2. /\ DOMAIN d = 1 .. Len(d) /\ DOMAIN Append(d, p) = 1 .. Len(d) + 1
        /\ \A i \in 1 .. Len(d) : i \in 1 .. Len(d) + 1
        /\ \A i \in 1 .. Len(d) + 1 : i \in 1 .. Len(d) \/ i = Len(d) + 1
        /\ Len(d) + 1 \in 1 .. Len(d) + 1
      BY <1>1
  <1>3. QED
      BY <1>1, <1>2 DEF Has

LEMMA HasTail ==
  ASSUME NEW P, NEW d \in Seq(P), d # <<>>
  PROVE  \A kind : Has(d, kind) <=> Head(d).kind = kind \/ Has(Tail(d), kind)
  <1>1. /\ Tail(d) \in Seq(P) /\ Len(d) \in Nat \ {0} /\ Head(d) = d[1]
        /\ \A k \in 1 .. Len(Tail(d)) : Tail(d)[k] = d[k + 1] /\ k + 1 \in 1 .. Len(d)
        /\ \A k \in 2 .. Len(d) : k - 1 \in 1 .. Len(Tail(d)) /\ d[k] = Tail(d)[k - 1]
      BY FirstTaken
  <1>2. DOMAIN d = 1 .. Len(d) /\ DOMAIN Tail(d) = 1 .. Len(Tail(d))
      BY <1>1, InToSet
  <1>3. 1 \in 1 .. Len(d) /\ \A k \in 1 .. Len(d) : k = 1 \/ k \in 2 .. Len(d)
      BY <1>1
  <1>4. QED
      BY <1>1, <1>2, <1>3 DEF Has

LEMMA HasJoin ==
  ASSUME NEW P, NEW d \in Seq(P), NEW e \in Seq(P)
  PROVE  \A kind : Has(d \o e, kind) <=> Has(d, kind) \/ Has(e, kind)
  <1>1. /\ d \o e \in Seq(P) /\ Len(d) \in Nat /\ Len(e) \in Nat /\ Len(d \o e) = Len(d) + Len(e)
        /\ \A i \in 1 .. Len(d) + Len(e) : (d \o e)[i] = IF i <= Len(d) THEN d[i] ELSE e[i - Len(d)]
      BY ConcatProperties
  <1>2. DOMAIN d = 1 .. Len(d) /\ DOMAIN e = 1 .. Len(e) /\ DOMAIN (d \o e) = 1 .. Len(d \o e)
      BY <1>1, InToSet
  <1>3. \A i \in 1 .. Len(d) : i \in 1 .. Len(d \o e) /\ (d \o e)[i] = d[i]
      BY <1>1
  <1>4. \A i \in 1 .. Len(e) : i + Len(d) \in 1 .. Len(d \o e) /\ (d \o e)[i + Len(d)] = e[i]
      BY <1>1
  <1>5. \A i \in 1 .. Len(d \o e) : \/ i \in 1 .. Len(d) /\ (d \o e)[i] = d[i]
                                    \/ i - Len(d) \in 1 .. Len(e) /\ (d \o e)[i] = e[i - Len(d)]
      BY <1>1
  <1>6. ASSUME NEW kind
        PROVE  Has(d \o e, kind) <=> Has(d, kind) \/ Has(e, kind)
    <2>1. Has(d, kind) => Has(d \o e, kind)
        BY <1>2, <1>3 DEF Has
    <2>2. Has(e, kind) => Has(d \o e, kind)
        BY <1>2, <1>4 DEF Has
    <2>3. Has(d \o e, kind) => Has(d, kind) \/ Has(e, kind)
        BY <1>2, <1>5 DEF Has
    <2>4. QED
        BY <2>1, <2>2, <2>3
  <1>7. QED
      BY <1>6

-----------------------------------------------------------------------------
(* The screen of a client that plays packets. *)

LEMMA ScreenEmpty == ASSUME NEW s PROVE Screen(s, <<>>) = s
  <1>1. Len(<<>>) = 0
      OBVIOUS
  <1>2. QED
      BY <1>1, ScreenIs

(* One more packet. *)
LEMMA ScreenAppend ==
  ASSUME NEW P, NEW d \in Seq(P), NEW p \in P, NEW s
  PROVE  Screen(s, Append(d, p)) = Played(Screen(s, d), p)
  <1> DEFINE e == Append(d, p)
             n == Len(d)
  <1>1. /\ n \in Nat /\ Len(e) = n + 1 /\ e[n + 1] = p
        /\ \A i \in 1 .. n : e[i] = d[i]
      BY AppendProperties
  <1>2. PICK f : /\ Screen(s, d) = f[n] /\ f[0] = s
                 /\ \A i \in 1 .. n : f[i] = Played(f[i - 1], d[i])
      BY <1>1, ScreenIs
  <1>3. PICK g : /\ Screen(s, e) = g[Len(e)] /\ g[0] = s
                 /\ \A i \in 1 .. Len(e) : g[i] = Played(g[i - 1], e[i])
    <2>1. Len(e) \in Nat
        BY <1>1
    <2> HIDE DEF e
    <2>2. QED
        BY <2>1, ScreenIs
  <1> HIDE DEF e, n
  <1> DEFINE G == {i \in 0 .. n : f[i] = g[i]}
  <1>4. 0 \in G
      BY <1>1, <1>2, <1>3
  <1>5. ASSUME NEW i \in 1 .. n, i - 1 \in G
        PROVE  i \in G
    <2>1. i \in 1 .. Len(e) /\ i \in 0 .. n /\ f[i - 1] = g[i - 1] /\ e[i] = d[i]
        BY <1>1, <1>5
    <2>2. f[i] = g[i]
        BY <1>2, <1>3, <2>1
    <2>3. QED
        BY <2>1, <2>2
  <1>6. n \in G
    <2> HIDE DEF G
    <2>1. 0 .. n \subseteq G
        BY <1>1, <1>4, <1>5, Onwards
    <2>2. QED
        BY <1>1, <2>1
  <1>7. n + 1 \in 1 .. Len(e) /\ n + 1 - 1 = n
      BY <1>1
  <1>8. g[n + 1] = Played(g[n], p)
      BY <1>1, <1>3, <1>7
  <1>9. QED
      BY <1>1, <1>2, <1>3, <1>6, <1>8 DEF e

(* Some packets and then others. *)
LEMMA ScreenJoin ==
  ASSUME NEW P, NEW d \in Seq(P), NEW e \in Seq(P), NEW s
  PROVE  Screen(s, d \o e) = Screen(Screen(s, d), e)
  <1> DEFINE G == {u \in Seq(P) : Screen(s, d \o u) = Screen(Screen(s, d), u)}
  <1>1. <<>> \in G
    <2>1. d \o <<>> = d /\ <<>> \in Seq(P)
        BY ConcatEmptySeq, EmptySeq
    <2>2. Screen(Screen(s, d), <<>>) = Screen(s, d)
        BY ScreenEmpty
    <2>3. QED
        BY <2>1, <2>2
  <1>2. ASSUME NEW u \in Seq(P), NEW p \in P, u \in G
        PROVE  Append(u, p) \in G
    <2>1. Append(u, p) \in Seq(P) /\ d \o u \in Seq(P)
        OBVIOUS
    <2>2. d \o Append(u, p) = Append(d \o u, p)
        BY JoinAppend
    <2>3. Screen(s, Append(d \o u, p)) = Played(Screen(s, d \o u), p)
        BY <2>1, ScreenAppend
    <2>4. Screen(Screen(s, d), Append(u, p)) = Played(Screen(Screen(s, d), u), p)
        BY ScreenAppend
    <2>5. Screen(s, d \o u) = Screen(Screen(s, d), u)
        BY <1>2
    <2>6. QED
        BY <2>1, <2>2, <2>3, <2>4, <2>5
  <1> HIDE DEF G
  <1>3. e \in G
      BY <1>1, <1>2, SeqInduction
  <1>4. QED
      BY <1>3 DEF G

(* The first packet, and then the others. *)
LEMMA ScreenFirst ==
  ASSUME NEW P, NEW d \in Seq(P), d # <<>>, NEW s
  PROVE  Screen(s, d) = Screen(Played(s, Head(d)), Tail(d))
  <1>1. Head(d) \in P /\ Tail(d) \in Seq(P) /\ <<>> \in Seq(P)
      BY HeadTailProperties, EmptySeq
  <1>2. d = Append(<<>>, Head(d)) \o Tail(d) /\ Append(<<>>, Head(d)) \in Seq(P)
      BY <1>1
  <1>3. Screen(s, Append(<<>>, Head(d))) = Played(s, Head(d))
      BY <1>1, ScreenAppend, ScreenEmpty
  <1>4. Screen(s, Append(<<>>, Head(d)) \o Tail(d)) = Screen(Screen(s, Append(<<>>, Head(d))), Tail(d))
      BY <1>1, <1>2, ScreenJoin
  <1>5. QED
      BY <1>2, <1>3, <1>4

(* A screen shows what the packets bring. *)
LEMMA ScreenTyped ==
  ASSUME NEW P, NEW T, \A p \in P : p.kind = "message" => p.msg \in T,
         NEW d \in Seq(P), NEW s \in Seq(T)
  PROVE  Screen(s, d) \in Seq(T)
  <1> DEFINE G == {u \in Seq(P) : Screen(s, u) \in Seq(T)}
  <1>1. <<>> \in G
      BY ScreenEmpty, EmptySeq
  <1>2. ASSUME NEW u \in Seq(P), NEW p \in P, u \in G
        PROVE  Append(u, p) \in G
    <2>1. Append(u, p) \in Seq(P) /\ Screen(s, u) \in Seq(T)
        BY <1>2
    <2>2. Screen(s, Append(u, p)) = Played(Screen(s, u), p)
        BY ScreenAppend
    <2>3. Played(Screen(s, u), p) \in Seq(T)
        BY <2>1, EmptySeq, AppendProperties DEF Played
    <2>4. QED
        BY <2>1, <2>2, <2>3
  <1> HIDE DEF G
  <1>3. d \in G
      BY <1>1, <1>2, SeqInduction
  <1>4. QED
      BY <1>3 DEF G

(* Without a start frame what is on the screen stays, and the rest follows; *)
(* a start frame wipes out what was before it.                              *)
LEMMA ScreenStart ==
  ASSUME NEW P, NEW T, \A p \in P : p.kind = "message" => p.msg \in T,
         NEW d \in Seq(P), NEW s \in Seq(T)
  PROVE  Screen(s, d) = IF Has(d, "start") THEN Screen(<<>>, d) ELSE s \o Screen(<<>>, d)
  <1> DEFINE G == {u \in Seq(P) :
                     Screen(s, u) = IF Has(u, "start") THEN Screen(<<>>, u) ELSE s \o Screen(<<>>, u)}
  <1>1. <<>> \in G
    <2>1. ~Has(<<>>, "start")
        BY DEF Has
    <2>2. <<>> \in Seq(P) /\ s \o <<>> = s
        BY EmptySeq, ConcatEmptySeq
    <2>3. Screen(s, <<>>) = s /\ Screen(<<>>, <<>>) = <<>>
        BY ScreenEmpty
    <2>4. QED
        BY <2>1, <2>2, <2>3
  <1>2. ASSUME NEW u \in Seq(P), NEW p \in P, u \in G
        PROVE  Append(u, p) \in G
    <2>1. Append(u, p) \in Seq(P) /\ Screen(<<>>, u) \in Seq(T)
      <3>1. <<>> \in Seq(T) /\ Append(u, p) \in Seq(P)
          BY EmptySeq, AppendProperties
      <3>2. Screen(<<>>, u) \in Seq(T)
          BY <3>1, ScreenTyped
      <3>3. QED
          BY <3>1, <3>2
    <2>2. /\ Screen(s, Append(u, p)) = Played(Screen(s, u), p)
          /\ Screen(<<>>, Append(u, p)) = Played(Screen(<<>>, u), p)
        BY ScreenAppend
    <2>3. Has(Append(u, p), "start") <=> Has(u, "start") \/ p.kind = "start"
        BY HasAppend
    <2>4. Screen(s, u) = IF Has(u, "start") THEN Screen(<<>>, u) ELSE s \o Screen(<<>>, u)
        BY <1>2
    <2>5. p.kind = "message" => s \o Append(Screen(<<>>, u), p.msg) = Append(s \o Screen(<<>>, u), p.msg)
        BY <2>1, JoinAppend
    <2>6. Screen(s, Append(u, p)) = IF Has(Append(u, p), "start") THEN Screen(<<>>, Append(u, p))
                                    ELSE s \o Screen(<<>>, Append(u, p))
      <3>1. CASE p.kind = "start"
          BY <2>2, <2>3, <3>1 DEF Played
      <3>2. CASE p.kind = "message"
          BY <2>2, <2>3, <2>4, <2>5, <3>2 DEF Played
      <3>3. CASE p.kind \notin {"start", "message"}
          BY <2>2, <2>3, <2>4, <3>3 DEF Played
      <3>4. QED
          BY <3>1, <3>2, <3>3
    <2>7. QED
        BY <2>1, <2>6
  <1> HIDE DEF G
  <1>3. d \in G
      BY <1>1, <1>2, SeqInduction
  <1>4. QED
      BY <1>3 DEF G

(* The rows of a history, as packets. *)
LEMMA PacketsTyped ==
  ASSUME NEW T, NEW rows \in Seq(T)
  PROVE  /\ AsPackets(rows) \in Seq([kind : {"message"}, msg : T])
         /\ Len(AsPackets(rows)) = Len(rows)
         /\ \A k \in 1 .. Len(rows) : AsPackets(rows)[k] = AsPacket(rows[k])
  <1>1. Len(rows) \in Nat /\ DOMAIN rows = 1 .. Len(rows) /\ \A k \in 1 .. Len(rows) : rows[k] \in T
      OBVIOUS
  <1>2. AsPackets(rows) = [k \in 1 .. Len(rows) |-> AsPacket(rows[k])]
      BY <1>1 DEF AsPackets
  <1>3. \A k \in 1 .. Len(rows) : AsPacket(rows[k]) \in [kind : {"message"}, msg : T]
      BY <1>1 DEF AsPacket
  <1>4. QED
      BY <1>1, <1>2, <1>3

LEMMA ScreenRows ==
  ASSUME NEW T, NEW rows \in Seq(T)
  PROVE  Screen(<<>>, AsPackets(rows)) = rows /\ ~Has(AsPackets(rows), "start")
  <1> DEFINE P == [kind : {"message"}, msg : T]
             G == {t \in Seq(T) : Screen(<<>>, AsPackets(t)) = t}
  <1>1. <<>> \in G
    <2>1. <<>> \in Seq(T)
        BY EmptySeq
    <2>2. AsPackets(<<>>) = <<>>
        BY DEF AsPackets
    <2>3. QED
        BY <2>1, <2>2, ScreenEmpty
  <1>2. ASSUME NEW t \in Seq(T), NEW x \in T, t \in G
        PROVE  Append(t, x) \in G
    <2>1. Append(t, x) \in Seq(T) /\ AsPackets(t) \in Seq(P) /\ AsPacket(x) \in P
        BY PacketsTyped, AppendProperties DEF AsPacket
    <2>2. AsPackets(Append(t, x)) = Append(AsPackets(t), AsPacket(x))
      <3>1. /\ Len(Append(t, x)) = Len(t) + 1 /\ Len(t) \in Nat /\ Append(t, x)[Len(t) + 1] = x
            /\ \A i \in 1 .. Len(t) : Append(t, x)[i] = t[i]
          BY AppendProperties
      <3>2. /\ AsPackets(Append(t, x)) \in Seq(P) /\ Len(AsPackets(Append(t, x))) = Len(t) + 1
            /\ \A k \in 1 .. Len(t) + 1 : AsPackets(Append(t, x))[k] = AsPacket(Append(t, x)[k])
          BY <2>1, <3>1, PacketsTyped
      <3>3. /\ Append(AsPackets(t), AsPacket(x)) \in Seq(P)
            /\ Len(Append(AsPackets(t), AsPacket(x))) = Len(t) + 1
            /\ Append(AsPackets(t), AsPacket(x))[Len(t) + 1] = AsPacket(x)
            /\ \A k \in 1 .. Len(t) : Append(AsPackets(t), AsPacket(x))[k] = AsPacket(t[k])
        <4>1. Len(AsPackets(t)) = Len(t) /\ \A k \in 1 .. Len(t) : AsPackets(t)[k] = AsPacket(t[k])
            BY PacketsTyped
        <4> HIDE DEF P
        <4>2. QED
            BY <2>1, <4>1, AppendProperties
      <3>4. \A k \in 1 .. Len(t) + 1 :
              AsPackets(Append(t, x))[k] = Append(AsPackets(t), AsPacket(x))[k]
        <4>1. \A k \in 1 .. Len(t) + 1 : k \in 1 .. Len(t) \/ k = Len(t) + 1
            BY <3>1
        <4>2. QED
            BY <3>1, <3>2, <3>3, <4>1
      <3> HIDE DEF P
      <3>5. QED
          BY <3>2, <3>3, <3>4, SeqEqual
    <2>3. Screen(<<>>, Append(AsPackets(t), AsPacket(x))) = Played(Screen(<<>>, AsPackets(t)), AsPacket(x))
      <3> HIDE DEF P
      <3>1. QED
          BY <2>1, ScreenAppend
    <2>4. Played(t, AsPacket(x)) = Append(t, x)
        BY DEF Played, AsPacket
    <2>5. Screen(<<>>, AsPackets(t)) = t
        BY <1>2
    <2>6. QED
        BY <2>1, <2>2, <2>3, <2>4, <2>5
  <1> HIDE DEF G
  <1>3. rows \in G
      BY <1>1, <1>2, SeqInduction
  <1>4. ~Has(AsPackets(rows), "start")
    <2>1. /\ DOMAIN AsPackets(rows) = 1 .. Len(rows)
          /\ \A k \in 1 .. Len(rows) : AsPackets(rows)[k].kind = "message"
      <3>1. /\ AsPackets(rows) \in Seq(P) /\ Len(AsPackets(rows)) = Len(rows)
            /\ \A k \in 1 .. Len(rows) : AsPackets(rows)[k] = AsPacket(rows[k])
          BY PacketsTyped
      <3> HIDE DEF P
      <3>2. DOMAIN AsPackets(rows) = 1 .. Len(rows)
          BY <3>1
      <3>3. QED
          BY <3>1, <3>2 DEF AsPacket
    <2>2. QED
        BY <2>1 DEF Has
  <1>5. QED
      BY <1>3, <1>4 DEF G

-----------------------------------------------------------------------------
(* Prefixes and suffixes. *)

LEMMA PrefixJoin ==
  ASSUME NEW T, NEW s \in Seq(T), NEW t \in Seq(T)
  PROVE  IsPrefix(s, s \o t)
  <1>1. /\ s \o t \in Seq(T) /\ Len(s) \in Nat /\ Len(t) \in Nat /\ Len(s \o t) = Len(s) + Len(t)
        /\ \A i \in 1 .. Len(s) : (s \o t)[i] = s[i] /\ (s \o t)[i] \in T /\ s[i] \in T
      BY ConcatProperties
  <1> DEFINE a == SubSeq(s, 1, Len(s))
             b == SubSeq(s \o t, 1, Len(s))
  <1>2. 1 \in Int /\ Len(s) \in Int
      BY <1>1
  <1>3. /\ a \in Seq(T) /\ Len(a) = IF 1 <= Len(s) THEN Len(s) - 1 + 1 ELSE 0
        /\ \A i \in 1 .. Len(s) - 1 + 1 : a[i] = s[1 + i - 1]
      BY <1>1, <1>2, SubSeqProperties
  <1>4. /\ b \in Seq(T) /\ Len(b) = IF 1 <= Len(s) THEN Len(s) - 1 + 1 ELSE 0
        /\ \A i \in 1 .. Len(s) - 1 + 1 : b[i] = (s \o t)[1 + i - 1]
      BY <1>1, <1>2, SubSeqProperties
  <1> HIDE DEF a, b
  <1>5. Len(a) = Len(s) /\ Len(b) = Len(s) /\ \A i \in 1 .. Len(s) : a[i] = s[i] /\ b[i] = (s \o t)[i]
    <2>1. Len(s) - 1 + 1 = Len(s) /\ (~(1 <= Len(s)) => Len(s) = 0)
          /\ \A i \in 1 .. Len(s) : 1 + i - 1 = i
        BY <1>1
    <2>2. QED
        BY <1>3, <1>4, <2>1
  <1>6. a = b
      BY <1>1, <1>3, <1>4, <1>5, SeqEqual
  <1>7. QED
      BY <1>1, <1>6 DEF IsPrefix, a, b

LEMMA PrefixEmpty ==
  ASSUME NEW T, NEW t \in Seq(T)
  PROVE  IsPrefix(<<>>, t)
  <1>1. <<>> \in Seq(T) /\ <<>> \o t = t
      BY EmptySeq, ConcatEmptySeq
  <1>2. IsPrefix(<<>>, <<>> \o t)
      BY <1>1, PrefixJoin
  <1>3. QED
      BY <1>1, <1>2

(* A prefix is the sequence it is cut from without a rest.                 *)
LEMMA PrefixRest ==
  ASSUME NEW T, NEW s \in Seq(T), NEW t \in Seq(T), IsPrefix(s, t)
  PROVE  \E u \in Seq(T) : t = s \o u
  <1>1. Len(s) \in Nat /\ Len(t) \in Nat /\ Len(s) <= Len(t) /\ SubSeq(s, 1, Len(s)) = SubSeq(t, 1, Len(s))
      BY DEF IsPrefix
  <1>2. SubSeq(s, 1, Len(s)) = s
      BY SubSeqFull
  <1>3. SubSeq(t, 1, Len(s)) = s
      BY <1>1, <1>2
  <1> DEFINE u == SubSeq(t, Len(s) + 1, Len(t))
  <1>4. \A i \in 1 .. Len(t) : t[i] \in T
      BY ElementOfSeq
  <1>5. Len(s) + 1 \in Int /\ Len(t) \in Int /\ 1 \in Int
        /\ \A i \in Len(s) + 1 .. Len(t) : i \in 1 .. Len(t)
      BY <1>1
  <1>6. /\ u \in Seq(T) /\ Len(u) = IF Len(s) + 1 <= Len(t) THEN Len(t) - (Len(s) + 1) + 1 ELSE 0
        /\ \A i \in 1 .. Len(t) - (Len(s) + 1) + 1 : u[i] = t[Len(s) + 1 + i - 1]
      BY <1>4, <1>5, SubSeqProperties
  <1>7. \A i \in 1 .. Len(s) : s[i] = t[i]
    <2>1. \A i \in 1 .. Len(s) : i \in 1 .. Len(t)
        BY <1>1
    <2>2. \A i \in 1 .. Len(s) - 1 + 1 : SubSeq(t, 1, Len(s))[i] = t[1 + i - 1]
        BY <1>1, <1>4, <1>5, <2>1, SubSeqProperties
    <2>3. \A i \in 1 .. Len(s) : i \in 1 .. Len(s) - 1 + 1 /\ 1 + i - 1 = i
        BY <1>1
    <2>4. QED
        BY <1>3, <2>2, <2>3
  <1> HIDE DEF u
  <1>8. Len(u) = Len(t) - Len(s) /\ \A i \in 1 .. Len(u) : u[i] = t[Len(s) + i]
    <2>1. Len(u) = Len(t) - Len(s)
        BY <1>1, <1>6
    <2>2. \A i \in 1 .. Len(u) : i \in 1 .. Len(t) - (Len(s) + 1) + 1 /\ Len(s) + 1 + i - 1 = Len(s) + i
        BY <1>1, <2>1
    <2>3. QED
        BY <1>6, <2>1, <2>2
  <1>9. /\ s \o u \in Seq(T) /\ Len(s \o u) = Len(s) + Len(u)
        /\ \A i \in 1 .. Len(s) + Len(u) : (s \o u)[i] = IF i <= Len(s) THEN s[i] ELSE u[i - Len(s)]
      BY <1>6, ConcatProperties
  <1>10. Len(s \o u) = Len(t) /\ \A i \in 1 .. Len(t) : (s \o u)[i] = t[i]
    <2>1. Len(s) + Len(u) = Len(t)
        BY <1>1, <1>8
    <2>2. ASSUME NEW i \in 1 .. Len(t)
          PROVE  (s \o u)[i] = t[i]
      <3>1. CASE i <= Len(s)
          BY <1>1, <1>7, <1>9, <2>1, <3>1
      <3>2. CASE ~(i <= Len(s))
        <4>1. i - Len(s) \in 1 .. Len(u) /\ Len(s) + (i - Len(s)) = i
            BY <1>1, <1>8, <3>2
        <4>2. QED
            BY <1>8, <1>9, <2>1, <3>2, <4>1
      <3>3. QED
          BY <3>1, <3>2
    <2>3. QED
        BY <1>9, <2>1, <2>2
  <1>11. t = s \o u
      BY <1>9, <1>10, SeqEqual
  <1>12. QED
      BY <1>6, <1>11

LEMMA PrefixOn ==
  ASSUME NEW T, NEW s \in Seq(T), NEW t \in Seq(T), NEW x \in T, IsPrefix(s, t)
  PROVE  IsPrefix(s, Append(t, x))
  <1>1. PICK u \in Seq(T) : t = s \o u
      BY PrefixRest
  <1>2. Append(u, x) \in Seq(T)
      BY <1>1, AppendProperties
  <1>3. s \o Append(u, x) = Append(s \o u, x)
      BY <1>1, JoinAppend
  <1>4. IsPrefix(s, s \o Append(u, x))
      BY <1>2, PrefixJoin
  <1>5. QED
      BY <1>1, <1>3, <1>4

LEMMA ToSetJoin ==
  ASSUME NEW T, NEW s \in Seq(T), NEW t \in Seq(T)
  PROVE  ToSet(s \o t) = ToSet(s) \cup ToSet(t)
  <1>1. /\ s \o t \in Seq(T) /\ Len(s) \in Nat /\ Len(t) \in Nat /\ Len(s \o t) = Len(s) + Len(t)
        /\ \A i \in 1 .. Len(s) + Len(t) : (s \o t)[i] = IF i <= Len(s) THEN s[i] ELSE t[i - Len(s)]
      BY ConcatProperties
  <1>2. \A i \in 1 .. Len(s) : i \in 1 .. Len(s \o t) /\ (s \o t)[i] = s[i]
      BY <1>1
  <1>3. \A i \in 1 .. Len(t) : i + Len(s) \in 1 .. Len(s \o t) /\ (s \o t)[i + Len(s)] = t[i]
      BY <1>1
  <1>4. \A i \in 1 .. Len(s \o t) : \/ i \in 1 .. Len(s) /\ (s \o t)[i] = s[i]
                                    \/ i - Len(s) \in 1 .. Len(t) /\ (s \o t)[i] = t[i - Len(s)]
      BY <1>1
  <1>5. /\ ToSet(s \o t) = {(s \o t)[i] : i \in 1 .. Len(s \o t)}
        /\ ToSet(s) = {s[i] : i \in 1 .. Len(s)}
        /\ ToSet(t) = {t[i] : i \in 1 .. Len(t)}
      BY <1>1, InToSet
  <1>6. QED
      BY <1>2, <1>3, <1>4, <1>5

LEMMA ReverseIs ==
  ASSUME NEW T, NEW s \in Seq(T)
  PROVE  /\ Reverse(s) \in Seq(T) /\ Len(Reverse(s)) = Len(s) /\ Len(s) \in Nat
         /\ \A i \in 1 .. Len(s) : Reverse(s)[i] = s[Len(s) - i + 1] /\ Len(s) - i + 1 \in 1 .. Len(s)
  <1>1. Len(s) \in Nat /\ \A i \in 1 .. Len(s) : Len(s) - i + 1 \in 1 .. Len(s)
      OBVIOUS
  <1>2. Reverse(s) = [i \in 1 .. Len(s) |-> s[Len(s) - i + 1]]
      BY DEF Reverse
  <1>3. \A i \in 1 .. Len(s) : s[Len(s) - i + 1] \in T
      BY <1>1, ElementOfSeq
  <1>4. QED
      BY <1>1, <1>2, <1>3

LEMMA ReverseJoin ==
  ASSUME NEW T, NEW s \in Seq(T), NEW t \in Seq(T)
  PROVE  Reverse(s \o t) = Reverse(t) \o Reverse(s)
  <1> DEFINE u == s \o t
             a == Reverse(s)
             b == Reverse(t)
  <1>1. /\ u \in Seq(T) /\ Len(s) \in Nat /\ Len(t) \in Nat /\ Len(u) = Len(s) + Len(t)
        /\ \A i \in 1 .. Len(s) + Len(t) : u[i] = IF i <= Len(s) THEN s[i] ELSE t[i - Len(s)]
      BY ConcatProperties
  <1>2. /\ a \in Seq(T) /\ Len(a) = Len(s) /\ \A i \in 1 .. Len(s) : a[i] = s[Len(s) - i + 1]
        /\ b \in Seq(T) /\ Len(b) = Len(t) /\ \A i \in 1 .. Len(t) : b[i] = t[Len(t) - i + 1]
      BY ReverseIs
  <1> HIDE DEF u, a, b
  <1>3. /\ Reverse(u) \in Seq(T) /\ Len(Reverse(u)) = Len(u)
        /\ \A i \in 1 .. Len(u) : Reverse(u)[i] = u[Len(u) - i + 1]
      BY <1>1, ReverseIs
  <1>4. /\ b \o a \in Seq(T) /\ Len(b \o a) = Len(b) + Len(a)
        /\ \A i \in 1 .. Len(b) + Len(a) : (b \o a)[i] = IF i <= Len(b) THEN b[i] ELSE a[i - Len(b)]
    <2>1. a \in Seq(T) /\ b \in Seq(T)
        BY <1>2
    <2>2. QED
        BY <2>1, ConcatProperties
  <1>5. ASSUME NEW i \in 1 .. Len(u)
        PROVE  Reverse(u)[i] = (b \o a)[i]
    <2>1. CASE i <= Len(t)
      <3>1. /\ i \in 1 .. Len(t) /\ Len(u) - i + 1 \in 1 .. Len(u) /\ ~(Len(u) - i + 1 <= Len(s))
            /\ Len(u) - i + 1 - Len(s) = Len(t) - i + 1
          BY <1>1, <2>1
      <3>2. Reverse(u)[i] = t[Len(t) - i + 1]
        <4>1. Reverse(u)[i] = u[Len(u) - i + 1]
            BY <1>3
        <4>2. u[Len(u) - i + 1] = t[Len(u) - i + 1 - Len(s)]
            BY <1>1, <3>1
        <4>3. QED
            BY <3>1, <4>1, <4>2
      <3>3. (b \o a)[i] = b[i]
          BY <1>1, <1>2, <1>4, <3>1
      <3>4. QED
          BY <1>2, <3>1, <3>2, <3>3
    <2>2. CASE ~(i <= Len(t))
      <3>1. /\ i - Len(t) \in 1 .. Len(s) /\ Len(u) - i + 1 \in 1 .. Len(u) /\ Len(u) - i + 1 <= Len(s)
            /\ Len(u) - i + 1 = Len(s) - (i - Len(t)) + 1
          BY <1>1, <2>2
      <3>2. Reverse(u)[i] = s[Len(s) - (i - Len(t)) + 1]
          BY <1>1, <1>3, <3>1
      <3>3. (b \o a)[i] = a[i - Len(t)]
          BY <1>1, <1>2, <1>4, <2>2
      <3>4. QED
          BY <1>2, <3>1, <3>2, <3>3
    <2>3. QED
        BY <2>1, <2>2
  <1>6. Len(Reverse(u)) = Len(b \o a)
      BY <1>1, <1>2, <1>3, <1>4
  <1>7. Reverse(u) = b \o a
      BY <1>3, <1>4, <1>5, <1>6, SeqEqual
  <1>8. QED
      BY <1>7 DEF u, a, b

LEMMA ReverseTwice ==
  ASSUME NEW T, NEW s \in Seq(T)
  PROVE  Reverse(Reverse(s)) = s
  <1> DEFINE a == Reverse(s)
  <1>1. /\ a \in Seq(T) /\ Len(a) = Len(s) /\ Len(s) \in Nat
        /\ \A i \in 1 .. Len(s) : a[i] = s[Len(s) - i + 1] /\ Len(s) - i + 1 \in 1 .. Len(s)
      BY ReverseIs
  <1> HIDE DEF a
  <1>2. /\ Reverse(a) \in Seq(T) /\ Len(Reverse(a)) = Len(a)
        /\ \A i \in 1 .. Len(a) : Reverse(a)[i] = a[Len(a) - i + 1]
      BY <1>1, ReverseIs
  <1>3. \A i \in 1 .. Len(s) : Len(s) - (Len(s) - i + 1) + 1 = i
      BY <1>1
  <1>4. \A i \in 1 .. Len(s) : Reverse(a)[i] = s[i]
      BY <1>1, <1>2, <1>3
  <1>5. Reverse(a) = s
      BY <1>1, <1>2, <1>4, SeqEqual
  <1>6. QED
      BY <1>5 DEF a

LEMMA SuffixJoin ==
  ASSUME NEW T, NEW s \in Seq(T), NEW t \in Seq(T)
  PROVE  IsSuffix(t, s \o t)
  <1>1. Reverse(s) \in Seq(T) /\ Reverse(t) \in Seq(T)
      BY ReverseIs
  <1>2. IsPrefix(Reverse(t), Reverse(t) \o Reverse(s))
      BY <1>1, PrefixJoin
  <1>3. QED
      BY <1>2, ReverseJoin DEF IsSuffix

LEMMA SuffixRest ==
  ASSUME NEW T, NEW s \in Seq(T), NEW t \in Seq(T), IsSuffix(s, t)
  PROVE  \E u \in Seq(T) : t = u \o s
  <1>1. Reverse(s) \in Seq(T) /\ Reverse(t) \in Seq(T) /\ IsPrefix(Reverse(s), Reverse(t))
      BY ReverseIs DEF IsSuffix
  <1>2. PICK u \in Seq(T) : Reverse(t) = Reverse(s) \o u
      BY <1>1, PrefixRest
  <1>3. Reverse(Reverse(t)) = Reverse(u) \o Reverse(Reverse(s))
      BY <1>1, <1>2, ReverseJoin
  <1>4. Reverse(Reverse(t)) = t /\ Reverse(Reverse(s)) = s
      BY ReverseTwice
  <1>5. Reverse(u) \in Seq(T)
      BY ReverseIs
  <1>6. QED
      BY <1>3, <1>4, <1>5

LEMMA SuffixSame ==
  ASSUME NEW T, NEW s \in Seq(T)
  PROVE  IsSuffix(s, s)
  <1>1. <<>> \in Seq(T) /\ <<>> \o s = s
      BY EmptySeq, ConcatEmptySeq
  <1>2. IsSuffix(s, <<>> \o s)
      BY <1>1, SuffixJoin
  <1>3. QED
      BY <1>1, <1>2

LEMMA SuffixTrans ==
  ASSUME NEW T, NEW s \in Seq(T), NEW t \in Seq(T), NEW u \in Seq(T), IsSuffix(s, t), IsSuffix(t, u)
  PROVE  IsSuffix(s, u)
  <1>1. PICK a \in Seq(T) : t = a \o s
      BY SuffixRest
  <1>2. PICK b \in Seq(T) : u = b \o t
      BY SuffixRest
  <1>3. u = (b \o a) \o s /\ b \o a \in Seq(T)
    <2>1. b \o (a \o s) = (b \o a) \o s
        BY <1>1, <1>2, ConcatAssociative
    <2>2. QED
        BY <1>1, <1>2, <2>1
  <1>4. IsSuffix(s, (b \o a) \o s)
      BY <1>3, SuffixJoin
  <1>5. QED
      BY <1>3, <1>4

LEMMA SuffixOn ==
  ASSUME NEW T, NEW s \in Seq(T), NEW t \in Seq(T), NEW x \in T, IsSuffix(s, t)
  PROVE  IsSuffix(Append(s, x), Append(t, x))
  <1>1. PICK a \in Seq(T) : t = a \o s
      BY SuffixRest
  <1>2. Append(s, x) \in Seq(T)
      OBVIOUS
  <1>3. a \o Append(s, x) = Append(a \o s, x)
      BY JoinAppend
  <1>4. IsSuffix(Append(s, x), a \o Append(s, x))
      BY <1>2, SuffixJoin
  <1>5. QED
      BY <1>1, <1>3, <1>4

(* Of two suffixes the shorter is a suffix of the longer.                  *)
LEMMA PrefixNested ==
  ASSUME NEW T, NEW s \in Seq(T), NEW t \in Seq(T), NEW u \in Seq(T),
         IsPrefix(s, u), IsPrefix(t, u), Len(s) <= Len(t)
  PROVE  IsPrefix(s, t)
  <1>1. PICK a \in Seq(T) : u = s \o a
      BY PrefixRest
  <1>2. PICK b \in Seq(T) : u = t \o b
      BY PrefixRest
  <1>3. Len(s) \in Nat /\ Len(t) \in Nat /\ \A i \in 1 .. Len(s) : s[i] \in T /\ t[i] \in T
    <2>1. \A i \in 1 .. Len(s) : i \in 1 .. Len(t)
        OBVIOUS
    <2>2. QED
        BY <2>1, ElementOfSeq
  <1>4. \A i \in 1 .. Len(s) : u[i] = s[i]
      BY <1>1, ConcatProperties
  <1>5. \A i \in 1 .. Len(t) : u[i] = t[i]
      BY <1>2, ConcatProperties
  <1>6. \A i \in 1 .. Len(s) : s[i] = t[i]
      BY <1>3, <1>4, <1>5
  <1> DEFINE v == SubSeq(s, 1, Len(s))
             w == SubSeq(t, 1, Len(s))
  <1>7. /\ v \in Seq(T) /\ Len(v) = IF 1 <= Len(s) THEN Len(s) - 1 + 1 ELSE 0
        /\ \A i \in 1 .. Len(s) - 1 + 1 : v[i] = s[1 + i - 1]
    <2>1. 1 \in Int /\ Len(s) \in Int
        BY <1>3
    <2>2. QED
        BY <1>3, <2>1, SubSeqProperties
  <1>8. /\ w \in Seq(T) /\ Len(w) = IF 1 <= Len(s) THEN Len(s) - 1 + 1 ELSE 0
        /\ \A i \in 1 .. Len(s) - 1 + 1 : w[i] = t[1 + i - 1]
    <2>1. 1 \in Int /\ Len(s) \in Int
        BY <1>3
    <2>2. QED
        BY <1>3, <2>1, SubSeqProperties
  <1> HIDE DEF v, w
  <1>9. Len(v) = Len(w) /\ \A i \in 1 .. Len(v) : v[i] = w[i]
    <2>1. Len(s) - 1 + 1 = Len(s) /\ (~(1 <= Len(s)) => Len(s) = 0) /\ \A i \in 1 .. Len(s) : 1 + i - 1 = i
        BY <1>3
    <2>2. Len(v) = Len(s) /\ Len(w) = Len(s)
        BY <1>7, <1>8, <2>1
    <2>3. \A i \in 1 .. Len(s) : v[i] = s[i] /\ w[i] = t[i]
        BY <1>7, <1>8, <2>1
    <2>4. QED
        BY <1>6, <2>2, <2>3
  <1>10. v = w
      BY <1>7, <1>8, <1>9, SeqEqual
  <1>11. QED
      BY <1>3, <1>10 DEF IsPrefix, v, w

LEMMA SuffixNested ==
  ASSUME NEW T, NEW s \in Seq(T), NEW t \in Seq(T), NEW u \in Seq(T),
         IsSuffix(s, u), IsSuffix(t, u), Len(s) <= Len(t)
  PROVE  IsSuffix(s, t)
  <1>1. /\ Reverse(s) \in Seq(T) /\ Reverse(t) \in Seq(T) /\ Reverse(u) \in Seq(T)
        /\ Len(Reverse(s)) <= Len(Reverse(t))
      BY ReverseIs
  <1>2. IsPrefix(Reverse(s), Reverse(u)) /\ IsPrefix(Reverse(t), Reverse(u))
      BY DEF IsSuffix
  <1>3. QED
      BY <1>1, <1>2, PrefixNested DEF IsSuffix

(* What a filter keeps of a suffix is a suffix of what it keeps.           *)
LEMMA SuffixOnly ==
  ASSUME NEW T, NEW s \in Seq(T), NEW t \in Seq(T), IsSuffix(s, t), NEW S
  PROVE  IsSuffix(Only(s, S), Only(t, S))
  <1>1. PICK a \in Seq(T) : t = a \o s
      BY SuffixRest
  <1>2. Only(t, S) = Only(a, S) \o Only(s, S)
      BY <1>1, OnlyJoin
  <1>3. Only(a, S) \in Seq(T) /\ Only(s, S) \in Seq(T)
      BY OnlyIn
  <1>4. QED
      BY <1>2, <1>3, SuffixJoin

LEMMA SuffixIn ==
  ASSUME NEW T, NEW s \in Seq(T), NEW t \in Seq(T), IsSuffix(s, t)
  PROVE  ToSet(s) \subseteq ToSet(t) /\ (IsInjective(t) => IsInjective(s))
  <1>1. PICK a \in Seq(T) : t = a \o s
      BY SuffixRest
  <1>2. ToSet(t) = ToSet(a) \cup ToSet(s)
      BY <1>1, ToSetJoin
  <1>3. /\ t \in Seq(T) /\ Len(a) \in Nat /\ Len(s) \in Nat /\ Len(t) = Len(a) + Len(s)
        /\ \A i \in 1 .. Len(a) + Len(s) : t[i] = IF i <= Len(a) THEN a[i] ELSE s[i - Len(a)]
      BY <1>1, ConcatProperties
  <1>4. DOMAIN s = 1 .. Len(s) /\ DOMAIN t = 1 .. Len(t)
      BY InToSet
  <1>5. \A i \in 1 .. Len(s) : i + Len(a) \in 1 .. Len(t) /\ t[i + Len(a)] = s[i]
    <2>1. \A i \in 1 .. Len(s) : /\ i + Len(a) \in 1 .. Len(a) + Len(s) /\ ~(i + Len(a) <= Len(a))
                                 /\ i + Len(a) - Len(a) = i
        BY <1>3
    <2>2. QED
        BY <1>3, <2>1
  <1>6. \A i, j \in 1 .. Len(s) : i + Len(a) = j + Len(a) => i = j
      BY <1>3
  <1>7. IsInjective(t) => IsInjective(s)
      BY <1>4, <1>5, <1>6 DEF IsInjective
  <1>8. QED
      BY <1>2, <1>7

(* An element more inside. *)
LEMMA InjectiveInside ==
  ASSUME NEW T, NEW s \in Seq(T), NEW z \in Seq(T), NEW x \in T
  PROVE  IsInjective(Append(s, x) \o z) <=> IsInjective(s \o z) /\ x \notin ToSet(s \o z)
  <1> DEFINE G == {t \in Seq(T) :
                     IsInjective(Append(s, x) \o t) <=> IsInjective(s \o t) /\ x \notin ToSet(s \o t)}
  <1>1. <<>> \in G
    <2>1. <<>> \in Seq(T) /\ Append(s, x) \in Seq(T)
        BY EmptySeq, AppendProperties
    <2>2. Append(s, x) \o <<>> = Append(s, x) /\ s \o <<>> = s
        BY <2>1, ConcatEmptySeq
    <2>3. QED
        BY <2>1, <2>2, InjectiveAppend
  <1>2. ASSUME NEW t \in Seq(T), NEW y \in T, t \in G
        PROVE  Append(t, y) \in G
    <2> DEFINE a == Append(s, x)
    <2>1. a \in Seq(T) /\ ToSet(a) = ToSet(s) \cup {x} /\ Append(t, y) \in Seq(T)
        BY ToSetAppend, AppendProperties
    <2>2. IsInjective(a \o t) <=> IsInjective(s \o t) /\ x \notin ToSet(s \o t)
        BY <1>2
    <2> HIDE DEF a
    <2>3. a \o Append(t, y) = Append(a \o t, y) /\ s \o Append(t, y) = Append(s \o t, y)
        BY <2>1, JoinAppend
    <2>4. a \o t \in Seq(T) /\ s \o t \in Seq(T)
        BY <2>1, ConcatProperties
    <2>5. ToSet(a \o t) = ToSet(a) \cup ToSet(t) /\ ToSet(s \o t) = ToSet(s) \cup ToSet(t)
        BY <2>1, ToSetJoin
    <2>6. IsInjective(Append(a \o t, y)) <=> IsInjective(a \o t) /\ y \notin ToSet(a \o t)
        BY <2>4, InjectiveAppend
    <2>7. IsInjective(Append(s \o t, y)) <=> IsInjective(s \o t) /\ y \notin ToSet(s \o t)
        BY <2>4, InjectiveAppend
    <2>8. ToSet(Append(s \o t, y)) = ToSet(s \o t) \cup {y}
      <3> DEFINE w == s \o t
      <3>1. w \in Seq(T)
          BY <2>4
      <3> HIDE DEF w
      <3>2. ToSet(Append(w, y)) = ToSet(w) \cup {y}
          BY <3>1, ToSetAppend
      <3>3. QED
          BY <3>2 DEF w
    <2>9. IsInjective(a \o Append(t, y))
            <=> IsInjective(s \o Append(t, y)) /\ x \notin ToSet(s \o Append(t, y))
        BY <2>1, <2>2, <2>3, <2>5, <2>6, <2>7, <2>8
    <2>10. QED
        BY <2>1, <2>9 DEF a
  <1> HIDE DEF G
  <1>3. z \in G
      BY <1>1, <1>2, SeqInduction
  <1>4. QED
      BY <1>3 DEF G

-----------------------------------------------------------------------------
(* Posts that wait to be handled: each waits once.                         *)

Posts(q) == {q[k].msg : k \in {j \in DOMAIN q : q[j].kind = "post"}}

OnceEach(q) ==
  \A k, l \in DOMAIN q : q[k].kind = "post" /\ q[l].kind = "post" /\ q[k].msg = q[l].msg => k = l

LEMMA PostsAppend ==
  ASSUME NEW R, NEW q \in Seq(R), NEW r \in R
  PROVE  /\ Posts(Append(q, r)) = Posts(q) \cup (IF r.kind = "post" THEN {r.msg} ELSE {})
         /\ OnceEach(q) /\ (r.kind = "post" => r.msg \notin Posts(q)) => OnceEach(Append(q, r))
  <1> DEFINE v == Append(q, r)
  <1>1. /\ DOMAIN q = 1 .. Len(q) /\ DOMAIN v = 1 .. Len(q) + 1
        /\ v[Len(q) + 1] = r
        /\ \A k \in 1 .. Len(q) : v[k] = q[k] /\ k \in 1 .. Len(q) + 1
        /\ \A k \in 1 .. Len(q) + 1 : k \in 1 .. Len(q) \/ k = Len(q) + 1
        /\ Len(q) + 1 \in 1 .. Len(q) + 1
    <2>1. v \in Seq(R) /\ Len(v) = Len(q) + 1
        BY OneAdded
    <2>2. DOMAIN q = 1 .. Len(q) /\ DOMAIN v = 1 .. Len(v)
        BY <2>1, InToSet
    <2>3. QED
        BY <2>1, <2>2, OneAdded
  <1> HIDE DEF v
  <1>2. Posts(v) = Posts(q) \cup (IF r.kind = "post" THEN {r.msg} ELSE {})
      BY <1>1 DEF Posts
  <1>3. ASSUME OnceEach(q), r.kind = "post" => r.msg \notin Posts(q)
        PROVE  OnceEach(v)
    <2>1. \A k \in 1 .. Len(q) : q[k].kind = "post" /\ r.kind = "post" => q[k].msg # r.msg
        BY <1>1, <1>3 DEF Posts
    <2>2. QED
        BY <1>1, <1>3, <2>1 DEF OnceEach
  <1>4. QED
      BY <1>2, <1>3 DEF v

LEMMA PostsTail ==
  ASSUME NEW R, NEW q \in Seq(R), q # <<>>
  PROVE  /\ Posts(Tail(q)) \subseteq Posts(q)
         /\ Head(q).kind = "post" => Head(q).msg \in Posts(q)
         /\ OnceEach(q) => /\ OnceEach(Tail(q))
                           /\ Head(q).kind = "post" => Head(q).msg \notin Posts(Tail(q))
  <1> DEFINE t == Tail(q)
  <1>1. /\ DOMAIN q = 1 .. Len(q) /\ DOMAIN t = 1 .. Len(t)
        /\ \A k \in 1 .. Len(t) : t[k] = q[k + 1] /\ k + 1 \in 1 .. Len(q) /\ k + 1 # 1
        /\ Head(q) = q[1] /\ 1 \in 1 .. Len(q)
    <2>1. t \in Seq(R) /\ Len(q) \in Nat \ {0} /\ Head(q) = q[1]
          /\ \A k \in 1 .. Len(t) : t[k] = q[k + 1] /\ k + 1 \in 1 .. Len(q)
        BY FirstTaken
    <2>2. DOMAIN q = 1 .. Len(q) /\ DOMAIN t = 1 .. Len(t)
        BY <2>1, InToSet
    <2>3. 1 \in 1 .. Len(q) /\ \A k \in 1 .. Len(t) : k + 1 # 1
        BY <2>1
    <2>4. QED
        BY <2>1, <2>2, <2>3
  <1>2. \A k, l \in 1 .. Len(t) : k + 1 = l + 1 => k = l
      OBVIOUS
  <1> HIDE DEF t
  <1>3. Posts(t) \subseteq Posts(q) /\ (Head(q).kind = "post" => Head(q).msg \in Posts(q))
      BY <1>1 DEF Posts
  <1>4. ASSUME OnceEach(q)
        PROVE  OnceEach(t) /\ (Head(q).kind = "post" => Head(q).msg \notin Posts(t))
    <2>1. OnceEach(t)
        BY <1>1, <1>2, <1>4 DEF OnceEach
    <2>2. ASSUME Head(q).kind = "post", Head(q).msg \in Posts(t)
          PROVE  FALSE
      <3>1. PICK k \in DOMAIN t : t[k].kind = "post" /\ t[k].msg = Head(q).msg
          BY <2>2 DEF Posts
      <3>2. q[k + 1].kind = "post" /\ q[k + 1].msg = q[1].msg /\ q[1].kind = "post" /\ k + 1 # 1
          BY <1>1, <2>2, <3>1
      <3>3. QED
          BY <1>1, <1>4, <3>1, <3>2 DEF OnceEach
    <2>3. QED
        BY <2>1, <2>2
  <1>5. QED
      BY <1>3, <1>4 DEF t

(* The posts that wait in the queues q of the clients C.                   *)
Waiting(C, q) == UNION {Posts(q[c]) : c \in C}

WaitOnce(C, q) ==
  \A c \in C : /\ OnceEach(q[c])
               /\ \A d \in C : d # c => Posts(q[c]) \cap Posts(q[d]) = {}

LEMMA WaitAdd ==
  ASSUME NEW C, NEW R, NEW q, WaitOnce(C, q), NEW c \in C, q[c] \in Seq(R), NEW r \in R,
         r.kind = "post" => r.msg \notin Waiting(C, q),
         NEW v, v[c] = Append(q[c], r), \A d \in C : d # c => v[d] = q[d]
  PROVE  /\ WaitOnce(C, v)
         /\ Waiting(C, v) = Waiting(C, q) \cup (IF r.kind = "post" THEN {r.msg} ELSE {})
  <1> DEFINE X == IF r.kind = "post" THEN {r.msg} ELSE {}
  <1>1. r.kind = "post" => r.msg \notin Posts(q[c])
      BY DEF Waiting
  <1>2. Posts(v[c]) = Posts(q[c]) \cup X
      BY PostsAppend
  <1>3. OnceEach(v[c])
    <2>1. q[c] \in Seq(R) /\ OnceEach(q[c])
        BY DEF WaitOnce
    <2>2. QED
        BY <1>1, <2>1, PostsAppend
  <1>4. \A d \in C : X \cap Posts(q[d]) = {}
      BY DEF Waiting
  <1> HIDE DEF X
  <1>5. WaitOnce(C, v)
      BY <1>2, <1>3, <1>4 DEF WaitOnce
  <1>6. Waiting(C, v) = Waiting(C, q) \cup X
      BY <1>2 DEF Waiting
  <1>7. QED
      BY <1>5, <1>6 DEF X

LEMMA WaitTake ==
  ASSUME NEW C, NEW R, NEW q, WaitOnce(C, q), NEW c \in C, q[c] \in Seq(R), q[c] # <<>>,
         NEW v, v[c] = Tail(q[c]), \A d \in C : d # c => v[d] = q[d]
  PROVE  /\ WaitOnce(C, v)
         /\ Waiting(C, v) \subseteq Waiting(C, q)
         /\ Head(q[c]).kind = "post" => Head(q[c]).msg \in Waiting(C, q) \ Waiting(C, v)
  <1>1. q[c] \in Seq(R) /\ OnceEach(q[c])
      BY DEF WaitOnce
  <1>2. /\ Posts(v[c]) \subseteq Posts(q[c]) /\ OnceEach(v[c])
        /\ Head(q[c]).kind = "post" =>
             Head(q[c]).msg \in Posts(q[c]) /\ Head(q[c]).msg \notin Posts(v[c])
      BY <1>1, PostsTail
  <1>3. WaitOnce(C, v)
      BY <1>2 DEF WaitOnce
  <1>4. Waiting(C, v) \subseteq Waiting(C, q)
      BY <1>2 DEF Waiting
  <1>5. ASSUME Head(q[c]).kind = "post"
        PROVE  Head(q[c]).msg \in Waiting(C, q) \ Waiting(C, v)
    <2>1. \A d \in C : d # c => Head(q[c]).msg \notin Posts(v[d])
        BY <1>2, <1>5 DEF WaitOnce
    <2>2. QED
        BY <1>2, <1>5, <2>1 DEF Waiting
  <1>6. QED
      BY <1>3, <1>4, <1>5

LEMMA WaitDrop ==
  ASSUME NEW C, NEW q, WaitOnce(C, q), NEW c \in C,
         NEW v, v[c] = <<>>, \A d \in C : d # c => v[d] = q[d]
  PROVE  WaitOnce(C, v) /\ Waiting(C, v) \subseteq Waiting(C, q)
  <1>1. Posts(v[c]) = {} /\ OnceEach(v[c])
      BY DEF Posts, OnceEach
  <1>2. QED
      BY <1>1 DEF WaitOnce, Waiting

-----------------------------------------------------------------------------
(* A message m comes in that is new to a screen x and to the table s: it   *)
(* is not saved and counts for nothing, or is the next row of both.        *)
LEMMA NotSaved ==
  ASSUME NEW T, NEW s \in Seq(T), NEW x \in Seq(T), NEW m \in T, m \notin ToSet(s), NEW C
  PROVE  Only(Append(x, m), C \cap ToSet(s)) = Only(x, C \cap ToSet(s))
  <1> DEFINE U == C \cap ToSet(s)
  <1>1. m \notin U
      OBVIOUS
  <1> HIDE DEF U
  <1>2. Only(Append(x, m), U) = Only(x, U)
      BY <1>1, OnlyAppend
  <1>3. QED
      BY <1>2 DEF U

LEMMA OneSaved ==
  ASSUME NEW T, NEW s \in Seq(T), NEW x \in Seq(T), NEW m \in T, m \notin ToSet(s), m \notin ToSet(x),
         NEW C
  PROVE  /\ Only(x, C \cap ToSet(s)) = Only(s, C)
              => Only(Append(x, m), C \cap ToSet(Append(s, m))) = Only(Append(s, m), C)
         /\ IsPrefix(Only(x, C \cap ToSet(s)), Only(s, C))
              => IsPrefix(Only(x, C \cap ToSet(Append(s, m))), Only(Append(s, m), C))
  <1> DEFINE U == C \cap ToSet(s)
             V == C \cap ToSet(Append(s, m))
  <1>1. ToSet(Append(s, m)) = ToSet(s) \cup {m}
      BY ToSetAppend
  <1>2. (\A z \in ToSet(x) : z \in V <=> z \in U) /\ (m \in V <=> m \in C)
    <2>1. \A z \in ToSet(x) : z # m
        OBVIOUS
    <2>2. QED
        BY <1>1, <2>1
  <1> HIDE DEF U, V
  <1>3. Only(x, V) = Only(x, U)
      BY <1>2, OnlyAgree
  <1>4. Only(Append(x, m), V) = IF m \in V THEN Append(Only(x, V), m) ELSE Only(x, V)
      BY OnlyAppend
  <1>5. Only(Append(s, m), C) = IF m \in C THEN Append(Only(s, C), m) ELSE Only(s, C)
      BY OnlyAppend
  <1>6. Only(x, U) \in Seq(T) /\ Only(s, C) \in Seq(T)
      BY OnlyIn
  <1>7. ASSUME Only(x, U) = Only(s, C)
        PROVE  Only(Append(x, m), V) = Only(Append(s, m), C)
      BY <1>2, <1>3, <1>4, <1>5, <1>7
  <1>8. ASSUME IsPrefix(Only(x, U), Only(s, C))
        PROVE  IsPrefix(Only(x, V), Only(Append(s, m), C))
    <2>1. IsPrefix(Only(x, U), Append(Only(s, C), m))
        BY <1>6, <1>8, PrefixOn
    <2>2. QED
        BY <1>3, <1>5, <1>8, <2>1
  <1>9. QED
      BY <1>7, <1>8 DEF U, V

(* The rows of a condition are all there is when they are sent.            *)
LEMMA OnlyAgain ==
  ASSUME NEW T, NEW s \in Seq(T), NEW C
  PROVE  Only(Only(s, C), C \cap ToSet(s)) = Only(s, C)
  <1>1. Only(s, C) \in Seq(T) /\ ToSet(Only(s, C)) = ToSet(s) \cap C
      BY OnlyIn, OnlyRange
  <1>2. ToSet(Only(s, C)) \subseteq C \cap ToSet(s)
      BY <1>1
  <1>3. QED
      BY <1>1, <1>2, OnlyAll
=============================================================================
