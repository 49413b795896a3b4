--------------------------- MODULE XmppServerProofs ---------------------------
(***************************************************************************)
(* Theorems about the XMPP server, for any number of streams, rooms,       *)
(* nicknames and resources, and any limits.                                *)
(***************************************************************************)
EXTENDS XmppServer, FiniteSetTheorems, SequenceTheorems, TLAPS

-----------------------------------------------------------------------------
(* Picking the elements of a sequence.  The sequence is built by recursion  *)
(* over its length; the induction is the one over a set of numbers, which   *)
(* follows from the least element of its complement.                        *)

LEMMA Induction ==
    ASSUME NEW S, 0 \in S, \A n \in Nat : n \in S => n + 1 \in S
    PROVE  Nat \subseteq S
<1> DEFINE Less == OpToRel(<, Nat)
           Rest == {n \in Nat : n \notin S}
<1>1. IsWellFoundedOn(Less, Nat)
    BY NatLessThanWellFounded
<1>2. \A m, n \in Nat : m < n => <<m, n>> \in Less
    BY DEF OpToRel
<1>3. SUFFICES ASSUME Rest # {} PROVE FALSE
    OBVIOUS
<1>4. PICK n \in Rest : \A m \in Rest : <<m, n>> \notin Less
    <2> HIDE DEF Less
    <2> QED BY <1>1, <1>3, WFMin
<1> HIDE DEF Less
<1>5. n \in Nat /\ n \notin S /\ n # 0
    BY <1>4
<1>6. n - 1 \in Nat /\ n - 1 < n
    BY <1>5
<1>7. n - 1 \notin Rest
    BY <1>2, <1>4, <1>5, <1>6
<1>8. (n - 1) + 1 = n
    BY <1>5
<1> QED BY <1>5, <1>6, <1>7, <1>8

\* f builds, step by step, the sequence picked from the first n elements of s.
Builds(f, s, I, n) ==
    /\ f[0] = <<>>
    /\ \A k \in 1 .. n : f[k] = IF k \in I THEN Append(f[k - 1], s[k]) ELSE f[k - 1]

LEMMA BuildsExists ==
    ASSUME NEW s, NEW I
    PROVE  \A n \in Nat : \E f : Builds(f, s, I, n)
<1> DEFINE S == {n \in Nat : \E f : Builds(f, s, I, n)}
<1>1. 0 \in S
  <2>1. Builds([k \in {0} |-> <<>>], s, I, 0)
      BY DEF Builds
  <2> QED BY <2>1
<1>2. ASSUME NEW n \in Nat, n \in S
      PROVE  n + 1 \in S
  <2>1. PICK f : Builds(f, s, I, n)
      BY <1>2
  <2> DEFINE g == [k \in 0 .. (n + 1) |->
                     IF k # n + 1 THEN f[k]
                     ELSE IF k \in I THEN Append(f[n], s[k]) ELSE f[n]]
  <2>2. \A k \in 0 .. n : g[k] = f[k]
      BY <1>2
  <2>3. g[n + 1] = IF n + 1 \in I THEN Append(f[n], s[n + 1]) ELSE f[n]
      BY <1>2
  <2> HIDE DEF g
  <2>4. Builds(g, s, I, n + 1)
    <3>1. g[0] = <<>>
        BY <1>2, <2>1, <2>2 DEF Builds
    <3>2. ASSUME NEW k \in 1 .. (n + 1)
          PROVE  g[k] = IF k \in I THEN Append(g[k - 1], s[k]) ELSE g[k - 1]
      <4>1. CASE k = n + 1
          BY <1>2, <2>2, <2>3, <4>1
      <4>2. CASE k \in 1 .. n
        <5>1. k - 1 \in 0 .. n /\ k \in 0 .. n
            BY <1>2, <4>2
        <5> QED BY <2>1, <2>2, <4>2, <5>1 DEF Builds
      <4> QED BY <1>2, <4>1, <4>2
    <3> QED BY <3>1, <3>2 DEF Builds
  <2> QED BY <1>2, <2>4
<1> HIDE DEF S
<1>3. Nat \subseteq S
    BY <1>1, <1>2, Induction
<1> QED BY <1>3 DEF S

\* The function that Picked() applies to the length of s.
UpTo(s, I) ==
    CHOOSE f : f = [n \in 0 .. Len(s) |->
                      IF n = 0 THEN <<>>
                      ELSE IF n \in I THEN Append(f[n - 1], s[n]) ELSE f[n - 1]]

LEMMA PickedBuilds ==
    ASSUME NEW S, NEW s \in Seq(S), NEW I
    PROVE  Picked(s, I) = UpTo(s, I)[Len(s)] /\ Builds(UpTo(s, I), s, I, Len(s))
<1>1. Picked(s, I) = UpTo(s, I)[Len(s)]
    BY DEF Picked, UpTo
<1> DEFINE F(f) == [n \in 0 .. Len(s) |->
                      IF n = 0 THEN <<>>
                      ELSE IF n \in I THEN Append(f[n - 1], s[n]) ELSE f[n - 1]]
<1>2. Len(s) \in Nat
    OBVIOUS
<1>3. PICK f : Builds(f, s, I, Len(s))
    BY <1>2, BuildsExists
<1> DEFINE g == [n \in 0 .. Len(s) |-> f[n]]
<1>4. g = F(g)
  <2>1. ASSUME NEW n \in 0 .. Len(s)
        PROVE  g[n] = F(g)[n]
    <3>1. CASE n = 0
        BY <1>2, <1>3, <3>1 DEF Builds
    <3>2. CASE n # 0
      <4>1. n \in 1 .. Len(s) /\ n - 1 \in 0 .. Len(s)
          BY <1>2, <3>2
      <4>2. g[n - 1] = f[n - 1] /\ g[n] = f[n]
          BY <4>1
      <4>3. f[n] = IF n \in I THEN Append(f[n - 1], s[n]) ELSE f[n - 1]
          BY <1>3, <4>1 DEF Builds
      <4> HIDE DEF g
      <4> QED BY <3>2, <4>2, <4>3
    <3> QED BY <3>1, <3>2
  <2> QED BY <2>1
<1>5. UpTo(s, I) = F(UpTo(s, I))
  <2> HIDE DEF g
  <2> QED BY <1>4 DEF UpTo
<1>6. Builds(UpTo(s, I), s, I, Len(s))
  <2> DEFINE u == UpTo(s, I)
  <2>1. \A n \in 0 .. Len(s) : u[n] = IF n = 0 THEN <<>>
                ELSE IF n \in I THEN Append(u[n - 1], s[n]) ELSE u[n - 1]
      BY <1>5
  <2> HIDE DEF u
  <2>2. u[0] = <<>>
      BY <1>2, <2>1
  <2>3. \A k \in 1 .. Len(s) : k \in 0 .. Len(s) /\ k # 0
      BY <1>2
  <2>4. \A k \in 1 .. Len(s) : u[k] = IF k \in I THEN Append(u[k - 1], s[k]) ELSE u[k - 1]
      BY <2>1, <2>3
  <2> QED BY <2>2, <2>4 DEF Builds, u
<1> QED BY <1>1, <1>6

\* f takes the elements of t to the positions in I of the first n elements of s.
Tracks(f, t, s, I, n) ==
    /\ f \in [1 .. Len(t) -> 1 .. n]
    /\ \A i \in 1 .. Len(t) : f[i] \in I /\ t[i] = s[f[i]]
    /\ \A i, j \in 1 .. Len(t) : i < j => f[i] < f[j]
    /\ \A k \in 1 .. n : k \in I => \E i \in 1 .. Len(t) : f[i] = k

LEMMA PickedFacts ==
    ASSUME NEW S, NEW s \in Seq(S), NEW I
    PROVE  /\ Picked(s, I) \in Seq(S)
           /\ \E f : Tracks(f, Picked(s, I), s, I, Len(s))
<1> DEFINE u == UpTo(s, I)
           Good(n) == u[n] \in Seq(S) /\ \E f : Tracks(f, u[n], s, I, n)
           Numbers == {n \in Nat : n <= Len(s) => Good(n)}
<1>1. Len(s) \in Nat
    OBVIOUS
<1>2. Builds(u, s, I, Len(s)) /\ Picked(s, I) = u[Len(s)]
    BY PickedBuilds
<1> HIDE DEF u
<1>3. 0 \in Numbers
  <2>1. u[0] = <<>>
      BY <1>2 DEF Builds
  <2>2. Len(u[0]) = 0 /\ 1 .. 0 = {} /\ u[0] \in Seq(S)
      BY <2>1
  <2>3. Tracks([i \in {} |-> i], u[0], s, I, 0)
      BY <2>2 DEF Tracks
  <2> QED BY <2>2, <2>3
<1>4. ASSUME NEW n \in Nat, n \in Numbers
      PROVE  n + 1 \in Numbers
  <2> SUFFICES ASSUME n + 1 <= Len(s)
               PROVE  Good(n + 1)
      BY <1>4
  <2>1. n + 1 \in 1 .. Len(s) /\ n <= Len(s) /\ (n + 1) - 1 = n
      BY <1>1, <1>4
  <2>2. u[n] \in Seq(S)
      BY <1>4, <2>1
  <2>3. PICK f : Tracks(f, u[n], s, I, n)
      BY <1>4, <2>1
  <2>4. u[n + 1] = IF n + 1 \in I THEN Append(u[n], s[n + 1]) ELSE u[n]
      BY <1>2, <2>1 DEF Builds
  <2>5. s[n + 1] \in S
      BY <2>1
  <2>6. CASE n + 1 \in I
    <3> DEFINE m == Len(u[n])
               g == [i \in 1 .. (m + 1) |-> IF i = m + 1 THEN n + 1 ELSE f[i]]
    <3>1. /\ u[n + 1] \in Seq(S) /\ m \in Nat /\ Len(u[n + 1]) = m + 1
          /\ u[n + 1][m + 1] = s[n + 1]
          /\ \A i \in 1 .. m : u[n + 1][i] = u[n][i]
        BY <2>2, <2>4, <2>5, <2>6
    <3>2. \A i \in 1 .. m : f[i] \in 1 .. n /\ f[i] \in I /\ u[n][i] = s[f[i]]
        BY <2>3 DEF Tracks
    <3>3. g[m + 1] = n + 1 /\ \A i \in 1 .. m : g[i] = f[i]
        BY <3>1
    <3>4. g \in [1 .. (m + 1) -> 1 .. (n + 1)]
        BY <1>4, <3>1, <3>2
    <3> HIDE DEF g
    <3>5. \A i \in 1 .. (m + 1) : i = m + 1 \/ i \in 1 .. m
        BY <3>1 DEF m
    <3> HIDE DEF m
    <3>6. \A i \in 1 .. (m + 1) : g[i] \in I /\ u[n + 1][i] = s[g[i]]
        BY <2>6, <3>1, <3>2, <3>3, <3>5
    <3>7. \A i, j \in 1 .. (m + 1) : i < j => g[i] < g[j]
      <4> SUFFICES ASSUME NEW i \in 1 .. (m + 1), NEW j \in 1 .. (m + 1), i < j
                   PROVE  g[i] < g[j]
          OBVIOUS
      <4>1. i \in 1 .. m
          BY <3>1
      <4>2. CASE j = m + 1
          BY <1>4, <3>2, <3>3, <4>1, <4>2
      <4>3. CASE j \in 1 .. m
          BY <2>3, <3>3, <4>1, <4>3 DEF Tracks, m
      <4> QED BY <3>5, <4>2, <4>3
    <3>8. \A k \in 1 .. (n + 1) : k \in I => \E i \in 1 .. (m + 1) : g[i] = k
      <4> SUFFICES ASSUME NEW k \in 1 .. (n + 1), k \in I
                   PROVE  \E i \in 1 .. (m + 1) : g[i] = k
          OBVIOUS
      <4>1. CASE k = n + 1
          BY <3>1, <3>3, <4>1
      <4>2. CASE k \in 1 .. n
        <5>1. PICK i \in 1 .. m : f[i] = k
            BY <2>3, <4>2 DEF Tracks, m
        <5>2. i \in 1 .. (m + 1) /\ g[i] = k
            BY <3>1, <3>3, <5>1
        <5> QED BY <5>2
      <4> QED BY <1>4, <4>1, <4>2
    <3>9. Tracks(g, u[n + 1], s, I, n + 1)
        BY <3>1, <3>4, <3>6, <3>7, <3>8 DEF Tracks
    <3> QED BY <3>1, <3>9
  <2>7. CASE n + 1 \notin I
    <3>1. u[n + 1] = u[n] /\ 1 .. n \subseteq 1 .. (n + 1)
        BY <1>4, <2>4, <2>7
    <3>2. \A k \in 1 .. (n + 1) : k \in I => k \in 1 .. n
        BY <1>4, <2>7
    <3>3. Tracks(f, u[n + 1], s, I, n + 1)
      <4>1. f \in [1 .. Len(u[n]) -> 1 .. (n + 1)]
          BY <2>3, <3>1 DEF Tracks
      <4> QED BY <2>3, <3>1, <3>2, <4>1 DEF Tracks
    <3> QED BY <2>2, <3>1, <3>3
  <2> QED BY <2>6, <2>7
<1> HIDE DEF Numbers
<1>5. Nat \subseteq Numbers
    BY <1>3, <1>4, Induction
<1>6. Good(Len(s))
    BY <1>1, <1>5 DEF Numbers
<1> QED BY <1>2, <1>6

\* What is picked is in s at a position in I, once for each, and all of it is.
LEMMA PickedElements ==
    ASSUME NEW S, NEW s \in Seq(S), NEW I
    PROVE  LET t == Picked(s, I)
           IN  /\ t \in Seq(S)
               /\ \A i \in DOMAIN t : \E k \in DOMAIN s : k \in I /\ t[i] = s[k]
               /\ \A k \in DOMAIN s : k \in I => \E i \in DOMAIN t : t[i] = s[k]
               /\ \A i, j \in DOMAIN t : i # j =>
                      \E k \in DOMAIN s : \E l \in DOMAIN s :
                          k # l /\ k \in I /\ l \in I /\ t[i] = s[k] /\ t[j] = s[l]
               /\ \A i, j \in DOMAIN t : i < j =>
                      \E k \in DOMAIN s : \E l \in DOMAIN s :
                          k < l /\ t[i] = s[k] /\ t[j] = s[l]
<1> DEFINE t == Picked(s, I)
<1>1. t \in Seq(S)
    BY PickedFacts
<1>2. PICK f : Tracks(f, t, s, I, Len(s))
    BY PickedFacts
<1>3. DOMAIN t = 1 .. Len(t) /\ DOMAIN s = 1 .. Len(s) /\ Len(t) \in Nat /\ Len(s) \in Nat
    BY <1>1
<1> HIDE DEF t
<1>4. \A i \in DOMAIN t : f[i] \in DOMAIN s /\ f[i] \in I /\ t[i] = s[f[i]]
    BY <1>2, <1>3 DEF Tracks
<1>5. \A k \in DOMAIN s : k \in I => \E i \in DOMAIN t : t[i] = s[k]
    BY <1>2, <1>3, <1>4 DEF Tracks
<1>6. ASSUME NEW i \in DOMAIN t, NEW j \in DOMAIN t, i # j
      PROVE  f[i] # f[j]
  <2>1. f[i] \in Int /\ f[j] \in Int /\ (i < j \/ j < i)
      BY <1>3, <1>4, <1>6
  <2> QED BY <1>2, <1>3, <2>1 DEF Tracks
<1>7. \A i, j \in DOMAIN t : i # j =>
          \E k \in DOMAIN s : \E l \in DOMAIN s :
              k # l /\ k \in I /\ l \in I /\ t[i] = s[k] /\ t[j] = s[l]
    BY <1>4, <1>6
<1>8. \A i, j \in DOMAIN t : i < j => f[i] < f[j]
    BY <1>2, <1>3 DEF Tracks
<1>9. \A i, j \in DOMAIN t : i < j =>
          \E k \in DOMAIN s : \E l \in DOMAIN s : k < l /\ t[i] = s[k] /\ t[j] = s[l]
    BY <1>4, <1>8
<1> QED BY <1>1, <1>4, <1>5, <1>7, <1>9 DEF t

-----------------------------------------------------------------------------
(* One room.                                                               *)

\* Session s is in the room under the nickname n.
Sits(room, s, n) == \E o \in room : o.session = s /\ o.nick = n

LEMMA LeftFacts ==
    ASSUME NEW r \in Rooms, NEW room, WellFormed(r, room), NEW s
    PROVE  /\ WellFormed(r, Left(room, s))
           /\ \A t, n : Sits(Left(room, s), t, n) <=> t # s /\ Sits(room, t, n)
           /\ \A t : Occupies(Left(room, s), t) <=> t # s /\ Occupies(room, t)
           /\ \A n : Sits(room, s, n) => NickNames(Left(room, s)) = NickNames(room) \ {n}
           /\ ~ Occupies(room, s) => Left(room, s) = room
<1>1. \A o : o \in Left(room, s) <=> o \in room /\ o.session # s
    BY DEF Left, Occupancy
<1>2. WellFormed(r, Left(room, s))
    BY <1>1 DEF WellFormed
<1>3. \A t, n : Sits(Left(room, s), t, n) <=> t # s /\ Sits(room, t, n)
    BY <1>1 DEF Sits
<1>4. \A t : Occupies(Left(room, s), t) <=> t # s /\ Occupies(room, t)
    BY <1>1 DEF Occupies
<1>5. ASSUME NEW n, Sits(room, s, n)
      PROVE  NickNames(Left(room, s)) = NickNames(room) \ {n}
  <2>1. PICK p \in room : p.session = s /\ p.nick = n
      BY <1>5 DEF Sits
  <2>2. \A o \in room : o.session # s <=> o.nick # n
      BY <2>1 DEF WellFormed
  <2> QED BY <1>1, <2>2 DEF NickNames
<1>6. ~ Occupies(room, s) => Left(room, s) = room
    BY <1>1 DEF Occupies
<1> QED BY <1>2, <1>3, <1>4, <1>5, <1>6

LEMMA JoinedFacts ==
    ASSUME NEW r \in Rooms, NEW room, WellFormed(r, room), NEW s \in Sessions,
           NEW nick \in Nicks, \A o \in room : o.nick = nick => o.session = s,
           NEW filled, filled = Joined(r, room, nick, s)
    PROVE  /\ WellFormed(r, filled)
           /\ \A t, n : Sits(filled, t, n) <=> (t = s /\ n = nick) \/ (t # s /\ Sits(room, t, n))
           /\ \A t : Occupies(filled, t) <=> t = s \/ Occupies(room, t)
           /\ NickNames(filled) = NickNames(Left(room, s)) \cup {nick}
           /\ NickNames(Left(room, s)) = NickNames(room) \ NickNames(Occupancy(room, s))
<1> DEFINE stands == IF Occupies(room, s) THEN \E o \in Occupancy(room, s) : o.owner
                     ELSE ~ Exists(r, room)
           seat == [nick |-> nick, session |-> s, owner |-> stands]
<1>1. /\ seat.nick = nick /\ seat.session = s /\ seat.owner = stands
      /\ seat \in Occupant
    BY DEF Occupant
<1>2. \A o : o \in filled <=> o = seat \/ (o \in room /\ o.session # s)
    BY DEF Joined, Occupancy
<1>3. \A o \in room : o.session # s => o.nick # nick
    OBVIOUS
<1> HIDE DEF seat
<1>4. WellFormed(r, filled)
  <2>1. filled \subseteq Occupant
      BY <1>1, <1>2 DEF WellFormed
  <2>2. \A o, p \in filled : o.nick = p.nick \/ o.session = p.session => o = p
      BY <1>1, <1>2, <1>3 DEF WellFormed
  <2>3. \A o \in room : o.session # s /\ o.owner => ~ stands
      BY DEF WellFormed, Occupies, Occupancy, Exists
  <2>4. \A o, p \in filled : o.owner /\ p.owner => o = p
      BY <1>1, <1>2, <2>3 DEF WellFormed
  <2>5. r \in Persistent => ~ stands
      BY DEF WellFormed, Occupies, Occupancy, Exists
  <2>6. r \in Persistent => \A o \in filled : ~ o.owner
      BY <1>1, <1>2, <2>5 DEF WellFormed
  <2> QED BY <2>1, <2>2, <2>4, <2>6 DEF WellFormed
<1>5. \A t, n : Sits(filled, t, n) <=> (t = s /\ n = nick) \/ (t # s /\ Sits(room, t, n))
    BY <1>1, <1>2 DEF Sits
<1>6. \A t : Occupies(filled, t) <=> t = s \/ Occupies(room, t)
    BY <1>1, <1>2 DEF Occupies
<1>7. NickNames(filled) = NickNames(Left(room, s)) \cup {nick}
    BY <1>1, <1>2 DEF NickNames, Left, Occupancy
<1>8. NickNames(Left(room, s)) = NickNames(room) \ NickNames(Occupancy(room, s))
    BY DEF NickNames, Left, Occupancy, WellFormed
<1> QED BY <1>4, <1>5, <1>6, <1>7, <1>8

-----------------------------------------------------------------------------
(* Types                                                                   *)

Tokens == Streams \X (1 .. MaxInitiations)
Entry == [at : Nat, token : {NoToken} \cup Tokens]
Holder == [resource : Resources, stream : Streams, earlier : SUBSET Streams, took : BOOLEAN]

AuthTypes ==
    /\ plan \in Plans
    /\ stream \in [Streams -> StreamType]
    /\ attempts \in Seq(Entry)
    /\ won \subseteq Tokens
    /\ now \in 0 .. plan.clock

Types ==
    /\ AuthTypes
    /\ server \in {"listening", "closed"}
    /\ bound \in Seq(Holder)
    /\ rooms \in [Rooms -> SUBSET Occupant]
    /\ roster \in [Streams -> [Rooms -> SUBSET Nicks]]
    /\ faults \in 0 .. plan.faults

LEMMA PlanFacts ==
    ASSUME plan \in Plans
    PROVE  /\ plan \in Plan /\ plan.faults \in Nat /\ plan.clock \in Nat
           /\ plan.resources \subseteq Resources /\ plan.rooms \subseteq Rooms
           /\ plan.mechanisms \subseteq Mechanisms /\ plan.payloads \subseteq Payloads
    BY ServerAssumption DEF Plan

LEMMA ConstantFacts ==
    /\ MaxInitiations \in Nat /\ Streams \subseteq Sessions /\ Service \in Sessions
    /\ Service \notin Streams /\ None \notin Resources /\ None \notin Nicks
    /\ WindowMs \in Nat /\ MaxFailures \in Nat /\ MaxFailures # 0
    BY ServerAssumption, AuthAssumption

LEMMA AbsentFacts ==
    /\ Absent \in StreamType /\ Absent.phase = "absent"
    /\ Closed \in StreamType /\ Closed.phase = "gone"
    /\ \A x \in {Absent, Closed} :
           /\ x.jid = None /\ x.initiations = 0 /\ x.charge = NoToken
           /\ \A r \in Rooms : x.nick[r] = None
<1>1. Absent \in StreamType
    BY ConstantFacts DEF Absent, StreamType
<1>2. Closed \in StreamType
    BY <1>1 DEF StreamType, Closed
<1>3. /\ Closed.phase = "gone" /\ Absent.phase = "absent"
      /\ Absent.nick = [r \in Rooms |-> None]
      /\ Closed.nick = [r \in Rooms |-> None]
    BY DEF Absent, Closed
<1>4. \A x \in {Absent, Closed} :
          x.jid = None /\ x.initiations = 0 /\ x.charge = NoToken
    BY DEF Absent, Closed
<1> QED BY <1>1, <1>2, <1>3, <1>4

LEMMA StrayFacts ==
    /\ \A res \in Resources :
           /\ StrayHolder(res) \in StreamType /\ StrayHolder(res).phase = "stray"
           /\ StrayHolder(res).jid = res /\ StrayHolder(res).charge = NoToken
           /\ \A r \in Rooms : StrayHolder(res).nick[r] = None
    /\ \A r \in Rooms, nick \in Nicks :
           /\ StrayOccupant(r, nick) \in StreamType /\ StrayOccupant(r, nick).phase = "stray"
           /\ StrayOccupant(r, nick).jid = None /\ StrayOccupant(r, nick).charge = NoToken
           /\ StrayOccupant(r, nick).nick[r] = nick
           /\ \A q \in Rooms : q # r => StrayOccupant(r, nick).nick[q] = None
<1>1. Absent \in StreamType /\ Absent.nick = [r \in Rooms |-> None] /\ Absent.jid = None
      /\ Absent.charge = NoToken
    BY AbsentFacts DEF Absent
<1>2. ASSUME NEW res \in Resources
      PROVE  /\ StrayHolder(res) \in StreamType /\ StrayHolder(res).phase = "stray"
             /\ StrayHolder(res).jid = res /\ StrayHolder(res).charge = NoToken
             /\ StrayHolder(res).nick = Absent.nick
    BY <1>1 DEF StrayHolder, StreamType
<1>3. ASSUME NEW r \in Rooms, NEW nick \in Nicks
      PROVE  /\ StrayOccupant(r, nick) \in StreamType /\ StrayOccupant(r, nick).phase = "stray"
             /\ StrayOccupant(r, nick).jid = None /\ StrayOccupant(r, nick).charge = NoToken
             /\ StrayOccupant(r, nick).nick[r] = nick
             /\ \A q \in Rooms : q # r => StrayOccupant(r, nick).nick[q] = None
  <2> DEFINE nicks == [Absent.nick EXCEPT ![r] = nick]
  <2>1. StrayOccupant(r, nick) = [Absent EXCEPT !.phase = "stray", !.nick = nicks]
      BY DEF StrayOccupant
  <2>2. /\ nicks \in [Rooms -> Nicks \cup {None}] /\ nicks[r] = nick
        /\ \A q \in Rooms : q # r => nicks[q] = None
      BY <1>1
  <2> HIDE DEF nicks
  <2>3. /\ StrayOccupant(r, nick) \in StreamType /\ StrayOccupant(r, nick).nick = nicks
        /\ StrayOccupant(r, nick).phase = "stray"
        /\ StrayOccupant(r, nick).jid = None /\ StrayOccupant(r, nick).charge = NoToken
      BY <1>1, <2>1, <2>2 DEF StreamType
  <2> QED BY <2>2, <2>3
<1> QED BY <1>1, <1>2, <1>3

LEMMA LimiterTypes ==
    ASSUME NEW entries \in Seq(Entry), NEW time \in Nat
    PROVE  /\ Pruned(entries, time) \in Seq(Entry)
           /\ \A token \in {NoToken} \cup Tokens :
                  /\ Charged(entries, time, token) \in Seq(Entry)
                  /\ Refunded(entries, time, token) \in Seq(Entry)
           /\ WithFailure(entries, time) \in Seq(Entry)
<1>1. \A es \in Seq(Entry) : Pruned(es, time) \in Seq(Entry)
    BY PickedElements DEF Pruned
<1>2. ASSUME NEW token \in {NoToken} \cup Tokens
      PROVE  /\ Charged(entries, time, token) \in Seq(Entry)
             /\ Refunded(entries, time, token) \in Seq(Entry)
  <2>1. [at |-> time, token |-> token] \in Entry
      BY DEF Entry
  <2>2. Charged(entries, time, token) \in Seq(Entry)
      BY <1>1, <2>1 DEF Charged
  <2>3. Refunded(entries, time, token) \in Seq(Entry)
      BY <1>1, PickedElements DEF Refunded
  <2> QED BY <2>2, <2>3
<1> QED BY <1>1, <1>2 DEF WithFailure

-----------------------------------------------------------------------------
(* The limiter: what it remembers at a time, in terms of the tokens charged. *)

TokensOf(entries) == {entries[i].token : i \in DOMAIN entries} \ {NoToken}

\* The tokens of the attempts still in the window.
Fresh(entries, time) ==
    {entries[i].token : i \in {j \in DOMAIN entries : time - entries[j].at < WindowMs}}
        \ {NoToken}

\* Each attempt is charged once, none of them succeeded, and no more of them are in
\* the window than the limiter allows.
Limited(entries, succeeded, time) ==
    /\ entries \in Seq(Entry)
    /\ \A i, j \in DOMAIN entries :
           entries[i].token # NoToken /\ entries[i].token = entries[j].token => i = j
    /\ TokensOf(entries) \cap succeeded = {}
    /\ IsFiniteSet(Fresh(entries, time))
    /\ Cardinality(Fresh(entries, time)) <= MaxFailures

LEMMA PickedLimited ==
    ASSUME NEW succeeded, NEW time \in Nat, NEW entries, Limited(entries, succeeded, time),
           NEW I
    PROVE  /\ Limited(Picked(entries, I), succeeded, time)
           /\ TokensOf(Picked(entries, I)) \subseteq TokensOf(entries)
           /\ Fresh(Picked(entries, I), time) \subseteq Fresh(entries, time)
<1> DEFINE picked == Picked(entries, I)
<1>1. entries \in Seq(Entry)
    BY DEF Limited
<1>2. /\ picked \in Seq(Entry)
      /\ \A i \in DOMAIN picked : \E k \in DOMAIN entries : picked[i] = entries[k]
      /\ \A i, j \in DOMAIN picked : i # j =>
             \E k \in DOMAIN entries : \E l \in DOMAIN entries :
                 k # l /\ picked[i] = entries[k] /\ picked[j] = entries[l]
    BY <1>1, PickedElements
<1> HIDE DEF picked
<1>3. TokensOf(picked) \subseteq TokensOf(entries)
    BY <1>2 DEF TokensOf
<1>4. Fresh(picked, time) \subseteq Fresh(entries, time)
    BY <1>2 DEF Fresh
<1>5. IsFiniteSet(Fresh(picked, time)) /\ Cardinality(Fresh(picked, time)) <= MaxFailures
  <2>1. IsFiniteSet(Fresh(entries, time)) /\ Cardinality(Fresh(entries, time)) <= MaxFailures
      BY DEF Limited
  <2>2. /\ IsFiniteSet(Fresh(picked, time))
        /\ Cardinality(Fresh(picked, time)) <= Cardinality(Fresh(entries, time))
      BY <1>4, <2>1, FS_Subset
  <2>3. Cardinality(Fresh(picked, time)) \in Nat /\ Cardinality(Fresh(entries, time)) \in Nat
      BY <2>1, <2>2, FS_CardinalityType
  <2> QED BY <2>1, <2>2, <2>3, ConstantFacts
<1>6. ASSUME NEW i \in DOMAIN picked, NEW j \in DOMAIN picked, picked[i].token # NoToken,
             picked[i].token = picked[j].token, i # j
      PROVE  FALSE
    BY <1>2, <1>6 DEF Limited
<1>7. TokensOf(picked) \cap succeeded = {}
    BY <1>3 DEF Limited
<1> QED BY <1>2, <1>3, <1>4, <1>5, <1>6, <1>7 DEF Limited, picked

LEMMA PrunedLimited ==
    ASSUME NEW succeeded, NEW time \in Nat, NEW entries, Limited(entries, succeeded, time)
    PROVE  /\ Limited(Pruned(entries, time), succeeded, time)
           /\ TokensOf(Pruned(entries, time)) \subseteq TokensOf(entries)
           /\ Fresh(Pruned(entries, time), time) \subseteq Fresh(entries, time)
    BY PickedLimited DEF Pruned

\* Appending an entry whose token is new, where the window has room for it.
LEMMA AppendLimited ==
    ASSUME NEW succeeded, NEW time \in Nat, NEW entries, Limited(entries, succeeded, time),
           NEW token \in {NoToken} \cup Tokens, token \notin TokensOf(entries) \cup succeeded,
           token = NoToken \/ Cardinality(Fresh(entries, time)) < MaxFailures
    PROVE  LET longer == Append(entries, [at |-> time, token |-> token])
           IN  /\ Limited(longer, succeeded, time)
               /\ TokensOf(longer) \subseteq TokensOf(entries) \cup ({token} \ {NoToken})
<1> DEFINE entry == [at |-> time, token |-> token]
           longer == Append(entries, entry)
           n == Len(entries)
<1>1. entries \in Seq(Entry) /\ entry \in Entry /\ entry.at = time /\ entry.token = token
    BY DEF Limited, Entry
<1> HIDE DEF entry
<1>2. /\ longer \in Seq(Entry) /\ n \in Nat /\ DOMAIN entries = 1 .. n
      /\ DOMAIN longer = 1 .. (n + 1) /\ longer[n + 1] = entry
      /\ \A i \in 1 .. n : longer[i] = entries[i]
    BY <1>1
<1>3. \A i \in 1 .. (n + 1) : i = n + 1 \/ i \in 1 .. n
    BY <1>2
<1> HIDE DEF longer, n
<1>4. TokensOf(longer) \subseteq TokensOf(entries) \cup ({token} \ {NoToken})
    BY <1>1, <1>2, <1>3 DEF TokensOf
<1>5. Fresh(longer, time) \subseteq Fresh(entries, time) \cup ({token} \ {NoToken})
    BY <1>1, <1>2, <1>3 DEF Fresh
<1>6. /\ IsFiniteSet(Fresh(entries, time)) /\ Cardinality(Fresh(entries, time)) \in Nat
      /\ Cardinality(Fresh(entries, time)) <= MaxFailures
    BY FS_CardinalityType DEF Limited
<1>7. IsFiniteSet(Fresh(longer, time)) /\ Cardinality(Fresh(longer, time)) <= MaxFailures
  <2>1. CASE token = NoToken
    <3>1. Fresh(longer, time) \in SUBSET Fresh(entries, time)
        BY <1>5, <2>1
    <3>2. /\ IsFiniteSet(Fresh(longer, time))
          /\ Cardinality(Fresh(longer, time)) <= Cardinality(Fresh(entries, time))
        BY <1>6, <3>1, FS_Subset
    <3> QED BY <1>6, <3>2, FS_CardinalityType, ConstantFacts
  <2>2. CASE token # NoToken
    <3> DEFINE more == Fresh(entries, time) \cup {token}
    <3>1. IsFiniteSet(more) /\ Cardinality(more) \in Nat
          /\ Cardinality(more) <= Cardinality(Fresh(entries, time)) + 1
      <4>1. /\ IsFiniteSet(more)
            /\ Cardinality(more) = IF token \in Fresh(entries, time)
                                   THEN Cardinality(Fresh(entries, time))
                                   ELSE Cardinality(Fresh(entries, time)) + 1
          BY <1>6, FS_AddElement
      <4> QED BY <1>6, <4>1
    <3>2. Fresh(longer, time) \in SUBSET more
        BY <1>5
    <3> HIDE DEF more
    <3>3. /\ IsFiniteSet(Fresh(longer, time))
          /\ Cardinality(Fresh(longer, time)) <= Cardinality(more)
        BY <3>1, <3>2, FS_Subset
    <3>4. Cardinality(Fresh(longer, time)) \in Nat
        BY <3>3, FS_CardinalityType
    <3> QED BY <1>6, <2>2, <3>1, <3>3, <3>4, ConstantFacts
  <2> QED BY <2>1, <2>2
<1>8. ASSUME NEW i \in DOMAIN longer, NEW j \in DOMAIN longer, longer[i].token # NoToken,
             longer[i].token = longer[j].token
      PROVE  i = j
  <2>1. \A k \in 1 .. n : longer[k].token # NoToken => longer[k].token # token
      BY <1>2 DEF TokensOf
  <2> QED BY <1>1, <1>2, <1>3, <1>8, <2>1 DEF Limited
<1>9. TokensOf(longer) \cap succeeded = {}
    BY <1>4 DEF Limited
<1> QED BY <1>2, <1>4, <1>7, <1>8, <1>9 DEF Limited, longer, entry

LEMMA WithFailureLimited ==
    ASSUME NEW succeeded \in SUBSET Tokens, NEW time \in Nat, NEW entries,
           Limited(entries, succeeded, time)
    PROVE  /\ Limited(WithFailure(entries, time), succeeded, time)
           /\ TokensOf(WithFailure(entries, time)) \subseteq TokensOf(entries)
<1>1. NoToken \notin Tokens
    BY DEF NoToken, Tokens
<1>2. NoToken \notin TokensOf(Pruned(entries, time)) \cup succeeded
    BY <1>1 DEF TokensOf
<1> QED BY <1>2, PrunedLimited, AppendLimited DEF WithFailure, Charged

\* A charge is given only while fewer attempts than allowed are in the window.
LEMMA ChargedLimited ==
    ASSUME NEW succeeded \in SUBSET Tokens, NEW time \in Nat, NEW entries,
           Limited(entries, succeeded, time), MayCharge(entries, time),
           NEW token \in Tokens, token \notin TokensOf(entries) \cup succeeded
    PROVE  /\ Limited(Charged(entries, time, token), succeeded, time)
           /\ TokensOf(Charged(entries, time, token)) \subseteq TokensOf(entries) \cup {token}
<1> DEFINE kept == Pruned(entries, time)
           tokens == {kept[i].token : i \in 1 .. Len(kept)}
           f == [i \in 1 .. Len(kept) |-> kept[i].token]
<1>1. /\ Limited(kept, succeeded, time) /\ TokensOf(kept) \subseteq TokensOf(entries)
      /\ Len(kept) < MaxFailures
    BY PrunedLimited DEF MayCharge
<1> HIDE DEF kept
<1>10. kept \in Seq(Entry)
    BY <1>1 DEF Limited
<1>11. Len(kept) \in Nat
    BY <1>10
<1>2. f \in Surjection(1 .. Len(kept), tokens)
    BY DEF Surjection
<1>3. IsFiniteSet(1 .. Len(kept)) /\ Cardinality(1 .. Len(kept)) = Len(kept)
  <2>1. ASSUME NEW n \in Nat
        PROVE  IsFiniteSet(1 .. n) /\ Cardinality(1 .. n) = n
    <3>1. 1 \in Int /\ n \in Int
        OBVIOUS
    <3>2. IsFiniteSet(1 .. n) /\ Cardinality(1 .. n) = IF 1 > n THEN 0 ELSE n - 1 + 1
        BY <3>1, FS_Interval
    <3> QED BY <3>2
  <2> QED BY <1>11, <2>1
<1>4. IsFiniteSet(tokens) /\ Cardinality(tokens) <= Len(kept)
    <2> HIDE DEF f, tokens
    <2> QED BY <1>2, <1>3, FS_Surjection
<1>5. Fresh(kept, time) \in SUBSET tokens
    BY <1>10 DEF Fresh
<1>6. Cardinality(Fresh(kept, time)) < MaxFailures
    <2> HIDE DEF tokens
    <2>1. /\ IsFiniteSet(Fresh(kept, time))
          /\ Cardinality(Fresh(kept, time)) <= Cardinality(tokens)
        BY <1>4, <1>5, FS_Subset
    <2>2. Cardinality(Fresh(kept, time)) \in Nat /\ Cardinality(tokens) \in Nat
        BY <1>4, <2>1, FS_CardinalityType
    <2> QED BY <1>1, <1>4, <1>11, <2>1, <2>2, ConstantFacts
<1>7. token \notin TokensOf(kept) \cup succeeded
    BY <1>1
<1>8. /\ Limited(Append(kept, [at |-> time, token |-> token]), succeeded, time)
      /\ TokensOf(Append(kept, [at |-> time, token |-> token]))
             \subseteq TokensOf(kept) \cup {token}
    BY <1>1, <1>6, <1>7, AppendLimited
<1> QED BY <1>1, <1>8 DEF Charged, kept

\* A success takes its own charge back and becomes one of those that succeeded.
LEMMA RefundedLimited ==
    ASSUME NEW succeeded \in SUBSET Tokens, NEW time \in Nat, NEW entries,
           Limited(entries, succeeded, time), NEW token \in Tokens
    PROVE  /\ Limited(Refunded(entries, time, token), succeeded \cup {token}, time)
           /\ TokensOf(Refunded(entries, time, token)) \subseteq TokensOf(entries)
<1> DEFINE kept == Pruned(entries, time)
           I == {i \in DOMAIN kept : token = NoToken \/ kept[i].token # token}
           left == Picked(kept, I)
<1>1. /\ Limited(kept, succeeded, time) /\ TokensOf(kept) \subseteq TokensOf(entries)
      /\ kept \in Seq(Entry)
    BY PrunedLimited DEF Limited
<1>2. NoToken # token
    BY DEF NoToken, Tokens
<1>3. /\ Limited(left, succeeded, time) /\ TokensOf(left) \subseteq TokensOf(kept)
      /\ \A i \in DOMAIN left : \E k \in DOMAIN kept : k \in I /\ left[i] = kept[k]
  <2> HIDE DEF kept, I
  <2>1. Limited(left, succeeded, time) /\ TokensOf(left) \subseteq TokensOf(kept)
      BY <1>1, PickedLimited
  <2>2. \A i \in DOMAIN left : \E k \in DOMAIN kept : k \in I /\ left[i] = kept[k]
      BY <1>1, PickedElements
  <2> QED BY <2>1, <2>2
<1>4. \A i \in DOMAIN left : left[i].token # token
    BY <1>2, <1>3
<1> HIDE DEF left
<1>5. TokensOf(left) \cap (succeeded \cup {token}) = {}
    BY <1>3, <1>4 DEF Limited, TokensOf
<1>6. Limited(left, succeeded \cup {token}, time)
    BY <1>3, <1>5 DEF Limited
<1> QED BY <1>1, <1>3, <1>6 DEF Refunded, left

\* As time passes, attempts leave the window.
LEMMA LaterLimited ==
    ASSUME NEW succeeded, NEW time \in Nat, NEW entries, Limited(entries, succeeded, time)
    PROVE  Limited(entries, succeeded, time + 1)
<1>1. entries \in Seq(Entry)
    BY DEF Limited
<1>2. \A i \in DOMAIN entries : entries[i].at \in Nat
  <2>1. \A i \in DOMAIN entries : entries[i] \in Entry
      BY <1>1
  <2> QED BY <2>1 DEF Entry
<1>3. Fresh(entries, time + 1) \in SUBSET Fresh(entries, time)
    BY <1>2, ConstantFacts DEF Fresh
<1>4. /\ IsFiniteSet(Fresh(entries, time)) /\ Cardinality(Fresh(entries, time)) \in Nat
      /\ Cardinality(Fresh(entries, time)) <= MaxFailures
    BY FS_CardinalityType DEF Limited
<1>5. /\ IsFiniteSet(Fresh(entries, time + 1))
      /\ Cardinality(Fresh(entries, time + 1)) <= Cardinality(Fresh(entries, time))
    BY <1>3, <1>4, FS_Subset
<1>6. Cardinality(Fresh(entries, time + 1)) \in Nat
    BY <1>5, FS_CardinalityType
<1>7. Cardinality(Fresh(entries, time + 1)) <= MaxFailures
    BY <1>4, <1>5, <1>6, ConstantFacts
<1> QED BY <1>5, <1>7 DEF Limited

-----------------------------------------------------------------------------
(* The invariant                                                           *)

\* The attempt was made by a stream that counted it, or is gone.
Spent(token) ==
    stream[token[1]].phase \in {"gone", "stray"} \/ token[2] <= stream[token[1]].initiations
StaysSpent(token) ==
    stream'[token[1]].phase \in {"gone", "stray"} \/ token[2] <= stream'[token[1]].initiations

AuthInv ==
    /\ Limited(attempts, won, now)
    /\ \A token \in TokensOf(attempts) \cup won : Spent(token)
    /\ \A c \in Streams : stream[c].charge # NoToken => Spent(stream[c].charge)

\* A room, the streams that know to be in it, and who they see there.
RoomAgrees(r) ==
    /\ WellFormed(r, rooms[r])
    /\ \A c \in Streams, nick \in Nicks :
           Sits(rooms[r], c, nick) <=> There(c) /\ stream[c].nick[r] = nick
    /\ \A c \in Streams :
           roster[c][r] = IF Live(c) /\ Occupies(rooms[r], c) THEN NickNames(rooms[r]) ELSE {}

OneHolder == \A i, j \in DOMAIN bound : bound[i].resource = bound[j].resource => i = j

HoldersAreThere ==
    \A i \in DOMAIN bound : /\ There(bound[i].stream)
                            /\ stream[bound[i].stream].jid = bound[i].resource

ResourcesAreHeld ==
    \A c \in Streams :
        Live(c) /\ stream[c].jid # None => Holds(c, stream[c].jid) \/ stream[c].ending

\* The entries are in the order they were bound in, but for those taken over.
HoldersAreInOrder ==
    \A i, j \in DOMAIN bound :
        i < j => bound[i].took \/ bound[i].stream \in bound[j].earlier

OthersAreNowhere ==
    \A c \in Streams : ~ There(c) =>
        stream[c].jid = None /\ \A r \in Rooms : stream[c].nick[r] = None

RegistryInv == /\ OneHolder
               /\ HoldersAreThere
               /\ ResourcesAreHeld
               /\ HoldersAreInOrder
               /\ OthersAreNowhere
               /\ \A r \in Rooms : RoomAgrees(r)

Inv == Types /\ AuthInv /\ RegistryInv

-----------------------------------------------------------------------------
(* Steps of a stream that stays where it is.                               *)

Stays(c) ==
    /\ stream' \in [Streams -> StreamType]
    /\ \A d \in Streams : d # c => stream'[d] = stream[d]
    /\ stream[c].phase = "open" /\ stream'[c].phase = "open"
    /\ stream'[c].jid = stream[c].jid /\ stream'[c].nick = stream[c].nick
    /\ stream[c].ending => stream'[c].ending

LEMMA StaysKeepsRegistries ==
    ASSUME Types, RegistryInv, NEW c \in Streams, Stays(c), UNCHANGED <<bound, roomVars>>
    PROVE  RegistryInv'
<1>1. /\ bound' = bound /\ rooms' = rooms /\ roster' = roster
      /\ \A i \in DOMAIN bound : bound[i].stream \in Streams
  <2>1. \A i \in DOMAIN bound : bound[i] \in Holder
      BY DEF Types, AuthTypes
  <2> QED BY <2>1 DEF roomVars, Holder
<1>2. \A d \in Streams : /\ stream'[d].phase = stream[d].phase
                         /\ stream'[d].jid = stream[d].jid
                         /\ stream'[d].nick = stream[d].nick
                         /\ stream[d].ending => stream'[d].ending
    BY DEF Stays
<1>3. \A d \in Streams : \A res : Holds(d, res)' <=> Holds(d, res)
    BY <1>1 DEF Holds, HolderOf
<1>4. /\ OneHolder' /\ HoldersAreThere' /\ ResourcesAreHeld' /\ HoldersAreInOrder'
      /\ OthersAreNowhere'
    BY <1>1, <1>2, <1>3
       DEF RegistryInv, OneHolder, HoldersAreThere, ResourcesAreHeld, HoldersAreInOrder,
           OthersAreNowhere, There, Live, Stray
<1>5. \A r \in Rooms : RoomAgrees(r)'
    BY <1>1, <1>2 DEF RegistryInv, RoomAgrees, There, Live, Stray, WellFormed
<1> QED BY <1>4, <1>5 DEF RegistryInv

\* Nothing is charged, and no stream forgets an attempt while it is there.
AuthUnmoved ==
    /\ UNCHANGED authVars
    /\ \A d \in Streams :
           /\ \/ stream'[d].phase \in {"gone", "stray"}
              \/ stream[d].phase \notin {"gone", "stray"} /\ stream'[d].initiations = stream[d].initiations
           /\ stream'[d].charge \in {stream[d].charge, NoToken}

LEMMA UnmovedKeepsLimit ==
    ASSUME AuthTypes, AuthInv, AuthUnmoved
    PROVE  AuthInv'
<1>1. attempts' = attempts /\ won' = won /\ now' = now
    BY DEF AuthUnmoved, authVars
<1>2. ASSUME NEW token \in Tokens, Spent(token)
      PROVE  Spent(token)'
    BY <1>2 DEF AuthUnmoved, Spent, Tokens
<1>3. TokensOf(attempts) \subseteq Tokens
  <2>1. \A i \in DOMAIN attempts : attempts[i] \in Entry
      BY DEF AuthTypes
  <2> QED BY <2>1 DEF TokensOf, Entry
<1>4. \A c \in Streams : stream[c].charge \in {NoToken} \cup Tokens
    BY DEF AuthTypes, StreamType, Tokens
<1> QED BY <1>1, <1>2, <1>3, <1>4 DEF AuthInv, AuthUnmoved, AuthTypes

\* The streams' own steps that charge nothing.
LEMMA PlainSteps ==
    ASSUME AuthTypes, NEW c \in Streams,
           StreamStart(c) \/ BreaksOff(c) \/ StartTls(c) \/ SaslBeforeTls(c)
    PROVE  Stays(c) /\ AuthUnmoved /\ UNCHANGED <<bound, roomVars>>
<1>1. stream \in [Streams -> StreamType] /\ stream[c] \in StreamType
    BY DEF AuthTypes
<1> DEFINE Alike(x) == /\ x.phase = stream[c].phase /\ x.jid = stream[c].jid
                       /\ x.nick = stream[c].nick /\ x.initiations = stream[c].initiations
                       /\ x.charge = stream[c].charge /\ (stream[c].ending => x.ending)
<1>2. ASSUME NEW x \in StreamType, Alike(x), stream[c].phase = "open",
             stream' = [stream EXCEPT ![c] = x], UNCHANGED authVars
      PROVE  Stays(c) /\ AuthUnmoved
    BY <1>1, <1>2 DEF Stays, AuthUnmoved
<1>3. CASE StreamStart(c)
  <2> DEFINE x == [stream[c] EXCEPT !.started = TRUE]
  <2>1. x \in StreamType
      BY <1>1 DEF StreamType
  <2>2. Alike(x)
      BY <1>1 DEF StreamType
  <2>3. stream' = [stream EXCEPT ![c] = x] /\ UNCHANGED authVars /\ stream[c].phase = "open"
      BY <1>3 DEF StreamStart, Live
  <2> HIDE DEF Alike, x
  <2> QED BY <1>2, <1>3, <2>1, <2>2, <2>3 DEF StreamStart
<1>4. CASE BreaksOff(c) \/ SaslBeforeTls(c)
  <2> DEFINE x == [stream[c] EXCEPT !.ending = TRUE]
  <2>1. x \in StreamType
      BY <1>1 DEF StreamType
  <2>2. Alike(x)
      BY <1>1 DEF StreamType
  <2>3. stream' = [stream EXCEPT ![c] = x] /\ UNCHANGED authVars /\ stream[c].phase = "open"
      BY <1>4 DEF BreaksOff, SaslBeforeTls, Ends, Live, Reads
  <2> HIDE DEF Alike, x
  <2> QED BY <1>2, <1>4, <2>1, <2>2, <2>3 DEF BreaksOff, SaslBeforeTls
<1>5. CASE StartTls(c)
  <2> DEFINE x == [stream[c] EXCEPT !.secure = TRUE, !.started = FALSE]
  <2>1. x \in StreamType
      BY <1>1 DEF StreamType
  <2>2. Alike(x)
      BY <1>1 DEF StreamType
  <2>3. stream' = [stream EXCEPT ![c] = x] /\ UNCHANGED authVars /\ stream[c].phase = "open"
      BY <1>5 DEF StartTls, Live, Reads
  <2> HIDE DEF Alike, x
  <2> QED BY <1>2, <1>5, <2>1, <2>2, <2>3 DEF StartTls
<1> QED BY <1>3, <1>4, <1>5

-----------------------------------------------------------------------------
(* Signing in                                                              *)

\* What an attempt may leave of the entries it found charged to the token.
Answered(entries, token) ==
    \/ attempts' \in {entries, Pruned(entries, now), WithFailure(entries, now)} /\ won' = won
    \/ /\ token # NoToken
       /\ attempts' = Refunded(entries, now, token)
       /\ won' = won \cup {token}

\* A stream that signs in counts its attempts and holds the charge of one of them.
Counts(c, token) ==
    /\ Stays(c)
    /\ stream[c].initiations <= stream'[c].initiations
    /\ stream'[c].charge \in {NoToken, token}
    /\ token # NoToken => token \in Tokens /\ StaysSpent(token)

LEMMA AnsweredKeepsLimit ==
    ASSUME AuthTypes, AuthInv, now' = now, NEW c \in Streams, NEW token, Counts(c, token),
           NEW entries, Limited(entries, won, now),
           TokensOf(entries) \subseteq TokensOf(attempts) \cup ({token} \ {NoToken}),
           Answered(entries, token)
    PROVE  AuthInv' /\ attempts' \in Seq(Entry) /\ won' \subseteq Tokens
<1>1. now \in Nat /\ won \in SUBSET Tokens
    BY PlanFacts DEF AuthTypes
<1>2. /\ Limited(attempts', won', now)
      /\ TokensOf(attempts') \subseteq TokensOf(entries)
      /\ won' \subseteq Tokens /\ won' \subseteq won \cup ({token} \ {NoToken})
  <2>1. CASE attempts' \in {entries, Pruned(entries, now), WithFailure(entries, now)} /\ won' = won
      BY <1>1, <2>1, PrunedLimited, WithFailureLimited
  <2>2. CASE /\ token # NoToken
             /\ attempts' = Refunded(entries, now, token)
             /\ won' = won \cup {token}
    <3>1. token \in Tokens
        BY <2>2 DEF Counts
    <3> QED BY <1>1, <2>2, <3>1, RefundedLimited
  <2> QED BY <2>1, <2>2 DEF Answered
<1>3. ASSUME NEW t \in Tokens, Spent(t)
      PROVE  Spent(t)'
  <2>1. t[1] \in Streams /\ t[2] \in Nat /\ stream \in [Streams -> StreamType]
      BY DEF Tokens, AuthTypes
  <2>2. stream[c].initiations \in Nat /\ stream'[c].initiations \in Nat
      BY <2>1 DEF StreamType, Counts, Stays
  <2> QED BY <1>3, <2>1, <2>2 DEF Counts, Stays, Spent
<1>4. TokensOf(attempts) \subseteq Tokens
  <2>1. \A i \in DOMAIN attempts : attempts[i] \in Entry
      BY DEF AuthTypes
  <2> QED BY <2>1 DEF TokensOf, Entry
<1>5. \A t \in TokensOf(attempts)' \cup won' : Spent(t)'
    BY <1>1, <1>2, <1>3, <1>4 DEF AuthInv, Counts, Spent, StaysSpent
<1>6. ASSUME NEW d \in Streams, stream'[d].charge # NoToken
      PROVE  Spent(stream[d].charge)'
  <2>1. CASE d = c
      BY <1>6, <2>1 DEF Counts, Spent, StaysSpent
  <2>2. CASE d # c
    <3>1. stream'[d] = stream[d] /\ stream[d] \in StreamType
        BY <2>2 DEF Counts, Stays, AuthTypes
    <3>2. stream[d].charge \in Tokens
        BY <1>6, <3>1 DEF StreamType, Tokens
    <3> QED BY <1>3, <1>6, <3>1, <3>2 DEF AuthInv
  <2> QED BY <2>1, <2>2
<1> QED BY <1>2, <1>5, <1>6 DEF AuthInv, Limited

\* What signing in may do to the stream itself.
LEMMA SigningInStays ==
    ASSUME AuthTypes, NEW c \in Streams, Live(c), NEW x \in StreamType,
           x.phase = stream[c].phase, x.jid = stream[c].jid, x.nick = stream[c].nick,
           x.ending = stream[c].ending, stream' = [stream EXCEPT ![c] = x]
    PROVE  Stays(c) /\ stream'[c] = x
    BY DEF AuthTypes, Stays, Live

LEMMA AppliedEffects ==
    ASSUME AuthTypes, NEW c \in Streams, Live(c), NEW exchange \in Exchange, NEW result,
           NEW initiations \in 0 .. MaxInitiations, NEW charge \in {NoToken} \cup Tokens,
           NEW entries, Applied(c, exchange, result, initiations, charge, entries)
    PROVE  /\ Stays(c) /\ Answered(entries, charge)
           /\ stream'[c].initiations = initiations
           /\ stream'[c].charge \in {NoToken, charge}
<1> DEFINE s == stream[c]
<1>1. s \in StreamType /\ stream \in [Streams -> StreamType]
    BY DEF AuthTypes
<1>2. [exchange EXCEPT !.stage = "final"] \in Exchange
    BY DEF Exchange
<1>3. CASE result = "challenge"
  <2> DEFINE x == [s EXCEPT !.exchange = [exchange EXCEPT !.stage = "final"],
                            !.initiations = initiations, !.charge = charge]
  <2>1. x \in StreamType
      BY <1>1, <1>2 DEF StreamType, Tokens
  <2>2. /\ x.phase = s.phase /\ x.jid = s.jid /\ x.nick = s.nick /\ x.ending = s.ending
        /\ x.initiations = initiations /\ x.charge = charge
      BY <1>1 DEF StreamType
  <2>3. /\ stream' = [stream EXCEPT ![c] = x] /\ attempts' = entries /\ won' = won
      BY <1>3 DEF Applied
  <2> HIDE DEF x
  <2> QED BY <2>1, <2>2, <2>3, SigningInStays DEF Answered
<1>4. CASE result = "success"
  <2> DEFINE x == [s EXCEPT !.authenticated = TRUE, !.started = FALSE,
                            !.exchange = NoExchange,
                            !.initiations = initiations, !.charge = NoToken]
  <2>1. x \in StreamType
      BY <1>1 DEF StreamType
  <2>2. /\ x.phase = s.phase /\ x.jid = s.jid /\ x.nick = s.nick /\ x.ending = s.ending
        /\ x.initiations = initiations /\ x.charge = NoToken
      BY <1>1 DEF StreamType
  <2>3. /\ stream' = [stream EXCEPT ![c] = x]
        /\ attempts' = IF charge = NoToken THEN entries ELSE Refunded(entries, now, charge)
        /\ won' = IF charge = NoToken THEN won ELSE won \cup {charge}
      BY <1>4 DEF Applied
  <2> HIDE DEF x
  <2>4. Answered(entries, charge)
      BY <2>3 DEF Answered
  <2> QED BY <2>1, <2>2, <2>3, <2>4, SigningInStays
<1>5. CASE result \notin {"challenge", "success"}
  <2> DEFINE x == [s EXCEPT !.exchange = NoExchange,
                            !.initiations = initiations, !.charge = NoToken]
  <2>1. x \in StreamType
      BY <1>1 DEF StreamType
  <2>2. /\ x.phase = s.phase /\ x.jid = s.jid /\ x.nick = s.nick /\ x.ending = s.ending
        /\ x.initiations = initiations /\ x.charge = NoToken
      BY <1>1 DEF StreamType
  <2>3. /\ stream' = [stream EXCEPT ![c] = x]
        /\ attempts' = IF charge # NoToken THEN entries ELSE WithFailure(entries, now)
        /\ won' = won
      BY <1>5 DEF Applied
  <2> HIDE DEF x
  <2>4. Answered(entries, charge)
      BY <2>3 DEF Answered
  <2> QED BY <2>1, <2>2, <2>3, <2>4, SigningInStays
<1> QED BY <1>3, <1>4, <1>5

\* A failure outside the exchange's own answer.
LEMMA RecordedEffects ==
    ASSUME AuthTypes, NEW c \in Streams, Live(c), RecordAuthFailure(c),
           NEW exchange \in {stream[c].exchange, NoExchange},
           stream' = [stream EXCEPT ![c].exchange = exchange, ![c].charge = NoToken]
    PROVE  Counts(c, NoToken) /\ Answered(attempts, NoToken) /\ now' = now
<1> DEFINE s == stream[c]
           x == [s EXCEPT !.exchange = exchange, !.charge = NoToken]
<1>1. s \in StreamType /\ stream \in [Streams -> StreamType] /\ s.initiations \in Nat
    BY DEF AuthTypes, StreamType
<1>2. x \in StreamType
    BY <1>1 DEF StreamType
<1>3. /\ x.phase = s.phase /\ x.jid = s.jid /\ x.nick = s.nick /\ x.ending = s.ending
      /\ x.initiations = s.initiations /\ x.charge = NoToken
    BY <1>1 DEF StreamType
<1>4. stream' = [stream EXCEPT ![c] = x]
    OBVIOUS
<1> HIDE DEF x
<1>5. Stays(c) /\ stream'[c] = x
    BY <1>2, <1>3, <1>4, SigningInStays
<1>6. Answered(attempts, NoToken) /\ now' = now
    BY DEF RecordAuthFailure, Answered
<1>7. s.initiations <= stream'[c].initiations
    BY <1>1, <1>3, <1>5
<1> QED BY <1>3, <1>5, <1>6, <1>7 DEF Counts

\* A step of signing in, as the limiter and the registries see it.
SignsIn(c) ==
    /\ Stays(c)
    /\ now' = now
    /\ AuthInv'
    /\ attempts' \in Seq(Entry)
    /\ won' \subseteq Tokens

LEMMA AttemptsAreTheirOwn ==
    ASSUME AuthTypes, AuthInv
    PROVE  /\ Limited(attempts, won, now)
           /\ \A c \in Streams : Live(c) /\ stream[c].initiations < MaxInitiations =>
                  LET token == <<c, stream[c].initiations + 1>>
                  IN  token \in Tokens /\ token \notin TokensOf(attempts) \cup won
                      /\ token # NoToken
<1>1. ASSUME NEW c \in Streams, Live(c), stream[c].initiations < MaxInitiations
      PROVE  LET token == <<c, stream[c].initiations + 1>>
             IN  token \in Tokens /\ token \notin TokensOf(attempts) \cup won
                 /\ token # NoToken
  <2> DEFINE token == <<c, stream[c].initiations + 1>>
  <2>1. stream[c].initiations \in Nat /\ MaxInitiations \in Nat
      BY ConstantFacts DEF AuthTypes, StreamType
  <2>2. stream[c].initiations + 1 \in 1 .. MaxInitiations
      BY <1>1, <2>1
  <2>3. token \in Tokens /\ token # NoToken
      BY <2>2 DEF Tokens, NoToken
  <2>4. ~ Spent(token)
      BY <1>1, <2>1 DEF Spent, Live
  <2> QED BY <2>3, <2>4 DEF AuthInv
<1> QED BY <1>1 DEF AuthInv

LEMMA InterruptsSignsIn ==
    ASSUME AuthTypes, AuthInv, NEW c \in Streams, AuthInterrupts(c)
    PROVE  SignsIn(c)
<1>1. /\ Live(c) /\ RecordAuthFailure(c)
      /\ stream' = [stream EXCEPT ![c].exchange = NoExchange, ![c].charge = NoToken]
    BY DEF AuthInterrupts, MayAuthenticate, Reads
<1>2. Counts(c, NoToken) /\ Answered(attempts, NoToken) /\ now' = now
    BY <1>1, RecordedEffects
<1>3. Limited(attempts, won, now)
    BY DEF AuthInv
<1>4. AuthInv' /\ attempts' \in Seq(Entry) /\ won' \subseteq Tokens
    BY <1>2, <1>3, AnsweredKeepsLimit
<1> QED BY <1>2, <1>4 DEF SignsIn, Counts

LEMMA ResponseSignsIn ==
    ASSUME AuthTypes, AuthInv, NEW c \in Streams, NEW payload, Response(c, payload)
    PROVE  SignsIn(c)
<1> DEFINE s == stream[c]
<1>1. Live(c) /\ s \in StreamType /\ Limited(attempts, won, now)
    BY DEF Response, MayAuthenticate, Reads, AuthTypes, AuthInv
<1>2. CASE /\ RecordAuthFailure(c)
           /\ stream' = [stream EXCEPT ![c].charge = NoToken]
  <2>1. stream' = [stream EXCEPT ![c].exchange = s.exchange, ![c].charge = NoToken]
    <3>1. stream \in [Streams -> StreamType]
        BY DEF AuthTypes
    <3>2. [s EXCEPT !.charge = NoToken] = [s EXCEPT !.exchange = s.exchange, !.charge = NoToken]
        BY <1>1 DEF StreamType
    <3> QED BY <1>2, <3>1, <3>2
  <2>2. Counts(c, NoToken) /\ Answered(attempts, NoToken) /\ now' = now
      BY <1>1, <1>2, <2>1, RecordedEffects
  <2>3. AuthInv' /\ attempts' \in Seq(Entry) /\ won' \subseteq Tokens
      BY <1>1, <2>2, AnsweredKeepsLimit
  <2> QED BY <2>2, <2>3 DEF SignsIn, Counts
<1>3. CASE /\ s.exchange # NoExchange
           /\ Applied(c, s.exchange, SaslNext(s.exchange, payload), s.initiations, s.charge, attempts)
           /\ now' = now
  <2>1. /\ s.exchange \in Exchange /\ s.initiations \in 0 .. MaxInitiations
        /\ s.charge \in {NoToken} \cup Tokens
      BY <1>1, <1>3 DEF StreamType, Tokens
  <2>2. /\ Stays(c) /\ Answered(attempts, s.charge)
        /\ stream'[c].initiations = s.initiations
        /\ stream'[c].charge \in {NoToken, s.charge}
    <3> HIDE DEF s
    <3> QED BY <1>1, <1>3, <2>1, AppliedEffects
  <2>3. s.charge # NoToken => s.charge \in Tokens /\ StaysSpent(s.charge)
    <3> SUFFICES ASSUME s.charge # NoToken
                 PROVE  s.charge \in Tokens /\ StaysSpent(s.charge)
        OBVIOUS
    <3>1. s.charge \in Tokens /\ Spent(s.charge)
        BY <2>1 DEF AuthInv
    <3>2. s.charge[1] \in Streams
        BY <3>1 DEF Tokens
    <3>3. /\ stream'[s.charge[1]].phase = stream[s.charge[1]].phase
          /\ stream'[s.charge[1]].initiations = stream[s.charge[1]].initiations
        BY <2>2, <3>2 DEF Stays
    <3> QED BY <3>1, <3>3 DEF Spent, StaysSpent
  <2>4. Counts(c, s.charge)
      BY <2>1, <2>2, <2>3 DEF Counts
  <2>5. TokensOf(attempts) \subseteq TokensOf(attempts) \cup ({s.charge} \ {NoToken})
      OBVIOUS
  <2>6. AuthInv' /\ attempts' \in Seq(Entry) /\ won' \subseteq Tokens
    <3> HIDE DEF s
    <3> QED BY <1>1, <1>3, <2>2, <2>4, <2>5, AnsweredKeepsLimit
  <2> QED BY <1>3, <2>2, <2>6 DEF SignsIn
<1> QED BY <1>2, <1>3 DEF Response

LEMMA AuthenticateSignsIn ==
    ASSUME AuthTypes, AuthInv, NEW c \in Streams, NEW mechanism \in Mechanisms, NEW payload,
           Authenticate(c, mechanism, payload)
    PROVE  SignsIn(c)
<1> DEFINE s == stream[c]
           token == <<c, s.initiations + 1>>
           entries == Charged(attempts, now, token)
           exchange == [mechanism |-> mechanism, stage |-> "initial", known |-> payload = "right"]
           Settles(ex, charge) ==
               /\ stream' = [stream EXCEPT ![c].initiations = token[2], ![c].exchange = ex,
                                           ![c].charge = charge]
               /\ attempts' = entries
               /\ won' = won
<1>1. /\ Live(c) /\ s \in StreamType /\ stream \in [Streams -> StreamType]
      /\ s.initiations < MaxInitiations /\ s.initiations \in Nat /\ now' = now
      /\ Limited(attempts, won, now)
    BY DEF Authenticate, MayAuthenticate, Reads, AuthTypes, StreamType, AuthInv
<1>2. token \in Tokens /\ token \notin TokensOf(attempts) \cup won /\ token # NoToken
    BY <1>1, AttemptsAreTheirOwn
<1>3. token[1] = c /\ token[2] = s.initiations + 1 /\ token[2] \in 1 .. MaxInitiations
    BY <1>2 DEF Tokens
<1>4. \/ /\ stream' = [stream EXCEPT ![c].initiations = token[2]]
         /\ attempts' = Pruned(attempts, now) /\ won' = won
      \/ /\ MayCharge(attempts, now)
         /\ \/ Settles(NoExchange, NoToken)
            \/ Settles(NoExchange, token)
            \/ mechanism # "other" /\ Settles(exchange, NoToken)
            \/ /\ mechanism # "other"
               /\ Applied(c, exchange, SaslStart(mechanism, payload), token[2], token, entries)
  <2> DEFINE inTheClear == mechanism = "PLAIN" /\ ~ s.secure /\ plan.tls # "disabled"
             outcome == IF ~ MayCharge(attempts, now) THEN "limited"
                        ELSE IF inTheClear THEN "encryption-required"
                        ELSE IF mechanism = "other" THEN "invalid-mechanism"
                        ELSE IF payload = "undecodable" THEN "incorrect-encoding"
                        ELSE "answered"
  <2>1. \/ /\ outcome = "limited"
           /\ stream' = [stream EXCEPT ![c].initiations = token[2]]
           /\ attempts' = Pruned(attempts, now) /\ won' = won
        \/ outcome = "encryption-required" /\ Settles(NoExchange, NoToken)
        \/ outcome = "invalid-mechanism" /\ Settles(NoExchange, token)
        \/ outcome = "incorrect-encoding" /\ Settles(exchange, NoToken)
        \/ /\ outcome = "answered"
           /\ Applied(c, exchange, SaslStart(mechanism, payload), token[2], token, entries)
      BY Zenon DEF Authenticate
  <2>2. ~ MayCharge(attempts, now) => outcome = "limited"
      OBVIOUS
  <2>3. mechanism = "other" =>
            outcome \in {"limited", "encryption-required", "invalid-mechanism"}
      OBVIOUS
  <2> HIDE DEF outcome, Settles, token, exchange, entries
  <2> QED BY <2>1, <2>2, <2>3
<1> HIDE DEF entries
<1>5. CASE /\ stream' = [stream EXCEPT ![c].initiations = token[2]]
           /\ attempts' = Pruned(attempts, now) /\ won' = won
  <2> DEFINE x == [s EXCEPT !.initiations = token[2]]
  <2>1. x \in StreamType
      BY <1>1, <1>3 DEF StreamType
  <2>2. /\ x.phase = s.phase /\ x.jid = s.jid /\ x.nick = s.nick /\ x.ending = s.ending
        /\ x.initiations = token[2] /\ x.charge = s.charge
      BY <1>1 DEF StreamType
  <2>3. stream' = [stream EXCEPT ![c] = x]
      BY <1>5
  <2> HIDE DEF x
  <2>4. Stays(c) /\ stream'[c] = x
      BY <1>1, <2>1, <2>2, <2>3, SigningInStays
  <2>5. s.charge \in {NoToken} \cup Tokens
      BY <1>1 DEF StreamType, Tokens
  <2>6. s.initiations <= stream'[c].initiations
      BY <1>1, <1>3, <2>2, <2>4
  <2>7. s.charge # NoToken => s.charge \in Tokens /\ StaysSpent(s.charge)
    <3> SUFFICES ASSUME s.charge # NoToken
                 PROVE  s.charge \in Tokens /\ StaysSpent(s.charge)
        OBVIOUS
    <3>1. s.charge \in Tokens /\ Spent(s.charge)
        BY <2>5 DEF AuthInv
    <3>2. s.charge[1] \in Streams /\ s.charge[2] \in Nat
        BY <3>1 DEF Tokens
    <3>3. CASE s.charge[1] # c
        BY <2>4, <3>1, <3>2, <3>3 DEF Stays, Spent, StaysSpent
    <3>4. CASE s.charge[1] = c
      <4>1. s.charge[2] <= s.initiations
          BY <1>1, <3>1, <3>4 DEF Spent, Live
      <4>2. s.charge[2] <= stream'[c].initiations
          BY <1>1, <1>3, <2>2, <2>4, <3>2, <4>1
      <4>3. stream'[s.charge[1]] = stream'[c]
          BY <3>4
      <4> HIDE DEF s
      <4> QED BY <3>1, <4>2, <4>3 DEF StaysSpent
    <3> QED BY <3>3, <3>4
  <2>8. Counts(c, s.charge)
      BY <2>2, <2>4, <2>6, <2>7 DEF Counts
  <2>9. Answered(attempts, s.charge)
      BY <1>5 DEF Answered
  <2>10. AuthInv' /\ attempts' \in Seq(Entry) /\ won' \subseteq Tokens
    <3> HIDE DEF s
    <3> QED BY <1>1, <2>8, <2>9, AnsweredKeepsLimit
  <2> QED BY <1>1, <2>4, <2>10 DEF SignsIn
<1>6. ASSUME MayCharge(attempts, now), Stays(c), stream'[c].initiations = token[2],
             stream'[c].charge \in {NoToken, token}, Answered(entries, token)
      PROVE  SignsIn(c)
  <2>1. /\ Limited(entries, won, now)
        /\ TokensOf(entries) \subseteq TokensOf(attempts) \cup ({token} \ {NoToken})
    <3>1. won \in SUBSET Tokens /\ now \in Nat
        BY PlanFacts DEF AuthTypes
    <3> HIDE DEF token
    <3> QED BY <1>1, <1>2, <1>6, <3>1, ChargedLimited DEF entries
  <2>2. StaysSpent(token)
      BY <1>1, <1>3, <1>6 DEF StaysSpent
  <2>3. s.initiations <= stream'[c].initiations
      BY <1>1, <1>3, <1>6
  <2>4. Counts(c, token)
      BY <1>2, <1>6, <2>2, <2>3 DEF Counts
  <2>5. AuthInv' /\ attempts' \in Seq(Entry) /\ won' \subseteq Tokens
    <3> HIDE DEF s, token
    <3> QED BY <1>1, <1>6, <2>1, <2>4, AnsweredKeepsLimit
  <2> QED BY <1>1, <1>6, <2>5 DEF SignsIn
<1>7. exchange \in Exchange \/ mechanism = "other"
    BY DEF Exchange, Mechanisms
<1>8. ASSUME NEW ex \in Exchange \cup {NoExchange}, NEW charge \in {NoToken, token},
             MayCharge(attempts, now), Settles(ex, charge)
      PROVE  SignsIn(c)
  <2> DEFINE x == [s EXCEPT !.initiations = token[2], !.exchange = ex, !.charge = charge]
  <2>1. x \in StreamType
    <3>1. charge \in {NoToken} \cup Tokens /\ token[2] \in 0 .. MaxInitiations
        BY <1>1, <1>2, <1>3
    <3> HIDE DEF token
    <3> QED BY <1>1, <3>1 DEF StreamType, Tokens
  <2>2. /\ x.phase = s.phase /\ x.jid = s.jid /\ x.nick = s.nick /\ x.ending = s.ending
        /\ x.initiations = token[2] /\ x.charge = charge
      BY <1>1 DEF StreamType
  <2>3. stream' = [stream EXCEPT ![c] = x]
      BY <1>8
  <2> HIDE DEF x
  <2>4. Stays(c) /\ stream'[c] = x
      BY <1>1, <2>1, <2>2, <2>3, SigningInStays
  <2>5. Answered(entries, token)
      BY <1>8 DEF Answered
  <2> QED BY <1>6, <1>8, <2>2, <2>4, <2>5
<1>9. ASSUME MayCharge(attempts, now), mechanism # "other",
             Applied(c, exchange, SaslStart(mechanism, payload), token[2], token, entries)
      PROVE  SignsIn(c)
  <2>1. exchange \in Exchange /\ token[2] \in 0 .. MaxInitiations /\ token \in {NoToken} \cup Tokens
      BY <1>1, <1>2, <1>3, <1>7, <1>9
  <2>2. /\ Stays(c) /\ Answered(entries, token)
        /\ stream'[c].initiations = token[2]
        /\ stream'[c].charge \in {NoToken, token}
    <3> HIDE DEF token, exchange
    <3> QED BY <1>1, <1>9, <2>1, AppliedEffects
  <2> QED BY <1>6, <1>9, <2>2
<1> QED BY <1>4, <1>5, <1>7, <1>8, <1>9

-----------------------------------------------------------------------------
(* The resources: what each step does to bound.                            *)

HoldingInv == OneHolder /\ HoldersAreThere /\ ResourcesAreHeld /\ HoldersAreInOrder

LEMMA HoldersAreStreams ==
    ASSUME Types
    PROVE  /\ \A i \in DOMAIN bound : /\ bound[i] \in Holder
                                      /\ bound[i].stream \in Streams
                                      /\ bound[i].resource \in Resources
           /\ \A d, res : Holds(d, res) <=>
                  \E i \in DOMAIN bound : bound[i].resource = res /\ bound[i].stream = d
<1>1. \A i \in DOMAIN bound : bound[i] \in Holder
    BY DEF Types, AuthTypes
<1>2. \A d, res : Holds(d, res) <=>
          \E i \in DOMAIN bound : bound[i].resource = res /\ bound[i].stream = d
    BY DEF Holds, HolderOf, HoldersIn, Range
<1> QED BY <1>1, <1>2 DEF Holder

\* Holds() after a step, and what ResourcesAreHeld says then.
HoldsThen(d, res) == \E i \in DOMAIN bound' : bound'[i].resource = res /\ bound'[i].stream = d

LEMMA ResourcesAreHeldThen ==
    ASSUME \A d \in Streams : stream'[d].phase = "open" /\ stream'[d].jid # None =>
               HoldsThen(d, stream'[d].jid) \/ stream'[d].ending
    PROVE  ResourcesAreHeld'
<1> SUFFICES ASSUME NEW d \in Streams, stream'[d].phase = "open", stream'[d].jid # None
             PROVE  (\E b \in HolderOf(stream[d].jid)' : b.stream = d) \/ stream'[d].ending
    BY DEF ResourcesAreHeld, Holds, Live
<1>1. CASE HoldsThen(d, stream'[d].jid)
  <2>1. PICK i \in DOMAIN bound' : bound'[i].resource = stream'[d].jid /\ bound'[i].stream = d
      BY <1>1 DEF HoldsThen
  <2>2. bound'[i] \in HolderOf(stream[d].jid)'
      BY <2>1 DEF HolderOf, HoldersIn, Range
  <2> QED BY <2>1, <2>2
<1> QED BY <1>1

\* Streams that go take their entries with them.
LEMMA GoingKeepsHolders ==
    ASSUME Types, HoldingInv, NEW gone, bound' = BoundWithout(gone),
           \A d \in Streams \ gone : stream'[d] = stream[d],
           \A d \in Streams \cap gone : stream'[d].jid = None
    PROVE  HoldingInv' /\ bound' \in Seq(Holder)
<1> DEFINE I == {i \in DOMAIN bound : bound[i].stream \notin gone}
<1>1. bound \in Seq(Holder) /\ bound' = Picked(bound, I)
    BY DEF Types, AuthTypes, BoundWithout
<1>2. /\ bound' \in Seq(Holder)
      /\ \A i \in DOMAIN bound' : \E k \in DOMAIN bound : k \in I /\ bound'[i] = bound[k]
      /\ \A k \in DOMAIN bound : k \in I => \E i \in DOMAIN bound' : bound'[i] = bound[k]
      /\ \A i, j \in DOMAIN bound' : i # j =>
             \E k \in DOMAIN bound : \E l \in DOMAIN bound :
                 k # l /\ k \in I /\ l \in I /\ bound'[i] = bound[k] /\ bound'[j] = bound[l]
      /\ \A i, j \in DOMAIN bound' : i < j =>
             \E k \in DOMAIN bound : \E l \in DOMAIN bound :
                 k < l /\ bound'[i] = bound[k] /\ bound'[j] = bound[l]
    <2> HIDE DEF I
    <2> QED BY <1>1, PickedElements
<1>3. \A i \in DOMAIN bound : bound[i].stream \in Streams
    BY HoldersAreStreams
<1>4. OneHolder'
  <2>1. ASSUME NEW i \in DOMAIN bound', NEW j \in DOMAIN bound',
               bound'[i].resource = bound'[j].resource, i # j
        PROVE  FALSE
    <3>1. \E k \in DOMAIN bound : \E l \in DOMAIN bound :
              k # l /\ bound'[i] = bound[k] /\ bound'[j] = bound[l]
        BY <1>2, <2>1
    <3>2. \A k, l \in DOMAIN bound : bound[k].resource = bound[l].resource => k = l
        BY DEF HoldingInv, OneHolder
    <3> QED BY <2>1, <3>1, <3>2
  <2> QED BY <2>1 DEF OneHolder
<1>5. HoldersAreThere'
    BY <1>2, <1>3 DEF HoldingInv, HoldersAreThere, There, Live, Stray
<1>6. ASSUME NEW d \in Streams, stream'[d].phase = "open", stream'[d].jid # None
      PROVE  HoldsThen(d, stream'[d].jid) \/ stream'[d].ending
  <2>1. d \notin gone /\ stream'[d] = stream[d] /\ Live(d)
      BY <1>6 DEF Live
  <2>2. CASE stream[d].ending
      BY <2>1, <2>2
  <2>3. CASE Holds(d, stream[d].jid)
    <3>1. PICK k \in DOMAIN bound : bound[k].resource = stream[d].jid /\ bound[k].stream = d
        BY <2>3, HoldersAreStreams
    <3>2. PICK i \in DOMAIN bound' : bound'[i] = bound[k]
        BY <1>2, <2>1, <3>1
    <3> QED BY <2>1, <3>1, <3>2 DEF HoldsThen
  <2> QED BY <1>6, <2>1, <2>2, <2>3 DEF HoldingInv, ResourcesAreHeld
<1>7. ResourcesAreHeld'
    BY <1>6, ResourcesAreHeldThen
<1>8. HoldersAreInOrder'
    BY <1>2 DEF HoldingInv, HoldersAreInOrder
<1> QED BY <1>2, <1>4, <1>5, <1>7, <1>8 DEF HoldingInv

\* What binding does to the streams.
LEMMA BindStreams ==
    ASSUME AuthTypes, NEW c \in Streams, NEW res, NEW holder \in StreamType,
           Bound(c, res, holder)
    PROVE  /\ stream' \in [Streams -> StreamType]
           /\ stream'[c] = holder
           /\ \A d \in Streams : d # c =>
                  /\ stream'[d].phase = stream[d].phase
                  /\ stream'[d].nick = stream[d].nick
                  /\ stream'[d].initiations = stream[d].initiations
                  /\ stream'[d].charge = stream[d].charge
                  /\ stream'[d].jid = stream[d].jid
                  /\ stream[d].ending => stream'[d].ending
                  /\ Live(d) /\ Holds(d, res) => stream'[d].ending
<1>1. stream' = [d \in Streams |->
          IF d = c THEN holder
          ELSE IF Live(d) /\ Holds(d, res) THEN [stream[d] EXCEPT !.ending = TRUE]
          ELSE stream[d]]
    BY DEF Bound
<1>2. \A d \in Streams : stream[d] \in StreamType
    BY DEF AuthTypes
<1>3. ASSUME NEW d \in Streams, d # c
      PROVE  /\ stream'[d] \in StreamType
             /\ stream'[d].phase = stream[d].phase
             /\ stream'[d].nick = stream[d].nick
             /\ stream'[d].initiations = stream[d].initiations
             /\ stream'[d].charge = stream[d].charge
             /\ stream'[d].jid = stream[d].jid
             /\ stream[d].ending => stream'[d].ending
             /\ Live(d) /\ Holds(d, res) => stream'[d].ending
  <2>1. CASE Live(d) /\ Holds(d, res)
    <3>1. stream'[d] = [stream[d] EXCEPT !.ending = TRUE]
        BY <1>1, <1>3, <2>1
    <3>2. [stream[d] EXCEPT !.ending = TRUE] \in StreamType
        BY <1>2 DEF StreamType
    <3>3. \A x : x = [stream[d] EXCEPT !.ending = TRUE] =>
              /\ x.phase = stream[d].phase /\ x.nick = stream[d].nick
              /\ x.initiations = stream[d].initiations /\ x.charge = stream[d].charge
              /\ x.jid = stream[d].jid /\ x.ending
        BY <1>2 DEF StreamType
    <3> QED BY <3>1, <3>2, <3>3
  <2>2. CASE ~ (Live(d) /\ Holds(d, res))
      BY <1>1, <1>2, <1>3, <2>2
  <2> QED BY <2>1, <2>2
<1>4. stream'[c] = holder
    BY <1>1
<1> QED BY <1>1, <1>3, <1>4

\* The last to bind a resource holds it; who held it is on its way out, if it was
\* still there.  An entry that is added comes behind all the others.
LEMMA BindKeepsHolders ==
    ASSUME Types, HoldingInv, NEW c \in Streams, NEW res \in Resources,
           NEW holder \in StreamType, holder.phase \in {"open", "stray"}, holder.jid = res,
           stream[c].jid = None, Bound(c, res, holder)
    PROVE  /\ HoldingInv' /\ bound' \in Seq(Holder)
<1> DEFINE entry == Binding(res, c)
<1>1. bound' = BoundWith(res, c)
    BY DEF Bound
<1>2. /\ stream'[c].phase \in {"open", "stray"} /\ stream'[c].jid = res
      /\ \A d \in Streams : d # c =>
          /\ stream'[d].phase = stream[d].phase
          /\ stream'[d].jid = stream[d].jid
          /\ stream[d].ending => stream'[d].ending
          /\ Live(d) /\ Holds(d, res) => stream'[d].ending
    BY BindStreams DEF Types
<1>3. /\ entry.resource = res /\ entry.stream = c
      /\ entry.earlier = {b.stream : b \in Range(bound)}
      /\ entry.took <=> HolderOf(res) # {}
    BY DEF Binding
<1>5. /\ \A i \in DOMAIN bound : /\ bound[i] \in Holder
                                 /\ bound[i].stream \in Streams
                                 /\ bound[i].resource \in Resources
                                 /\ bound[i].stream # c
                                 /\ bound[i].stream \in entry.earlier
  <2>1. None \notin Resources
      BY ConstantFacts
  <2>2. \A i \in DOMAIN bound : bound[i].stream \in entry.earlier
      BY <1>3 DEF Range
  <2> QED BY <2>1, <2>2, HoldersAreStreams DEF HoldingInv, HoldersAreThere
<1>4. entry \in Holder
  <2>1. \A b \in Range(bound) : b.stream \in Streams
      BY <1>5 DEF Range
  <2> QED BY <2>1 DEF Holder, Binding
<1> HIDE DEF entry
\* What bound becomes, entry by entry.
<1>6. /\ bound' \in Seq(Holder)
      /\ DOMAIN bound \subseteq DOMAIN bound'
      /\ \A i \in DOMAIN bound' :
             \/ i \in DOMAIN bound /\ bound[i].resource # res /\ bound'[i] = bound[i]
             \/ bound'[i] = entry
      /\ \A i \in DOMAIN bound : bound[i].resource # res => bound'[i] = bound[i]
      /\ \E i \in DOMAIN bound' : bound'[i] = entry
      /\ \A i, j \in DOMAIN bound' : bound'[i].resource = res /\ bound'[j].resource = res => i = j
      /\ \A i, j \in DOMAIN bound' : i < j /\ bound'[i].resource = res => entry.took
  <2>1. bound \in Seq(Holder)
      BY DEF Types
  <2>2. CASE HolderOf(res) = {}
    <3> DEFINE n == Len(bound)
    <3>1. bound' = Append(bound, entry)
        BY <1>1, <2>2 DEF BoundWith, entry
    <3>2. \A i \in DOMAIN bound : bound[i].resource # res
        BY <2>2 DEF HolderOf, HoldersIn, Range
    <3>3. /\ bound' \in Seq(Holder) /\ n \in Nat /\ DOMAIN bound = 1 .. n
          /\ DOMAIN bound' = 1 .. (n + 1) /\ bound'[n + 1] = entry
          /\ \A i \in 1 .. n : bound'[i] = bound[i]
        BY <1>4, <2>1, <3>1
    <3> HIDE DEF n
    <3>4. \A i \in 1 .. (n + 1) : i = n + 1 \/ i \in 1 .. n
        BY <3>3
    <3>5. 1 .. n \subseteq 1 .. (n + 1) /\ n + 1 \in 1 .. (n + 1)
        BY <3>3
    <3>6. \A i \in DOMAIN bound' : bound'[i].resource = res => i = n + 1
        BY <3>2, <3>3, <3>4
    <3>7. \A i, j \in DOMAIN bound' : i < j => i # n + 1
        BY <3>3
    <3> QED BY <3>2, <3>3, <3>4, <3>5, <3>6, <3>7
  <2>3. CASE HolderOf(res) # {}
    <3>1. bound' = [i \in DOMAIN bound |-> IF bound[i].resource = res THEN entry ELSE bound[i]]
        BY <1>1, <2>3 DEF BoundWith, entry
    <3>2. DOMAIN bound' = DOMAIN bound
        BY <3>1
    <3>3. \A i \in DOMAIN bound :
              bound'[i] = IF bound[i].resource = res THEN entry ELSE bound[i]
        BY <3>1
    <3>4. bound' \in Seq(Holder)
      <4>1. DOMAIN bound = 1 .. Len(bound) /\ Len(bound) \in Nat
          BY <2>1
      <4>2. \A i \in DOMAIN bound : bound'[i] \in Holder
          BY <1>4, <1>5, <3>3
      <4>3. bound' \in [1 .. Len(bound) -> Holder]
          BY <3>1, <3>2, <4>1, <4>2
      <4> QED BY <4>1, <4>3, SeqDef
    <3>5. \E i \in DOMAIN bound : bound[i].resource = res
        BY <2>3 DEF HolderOf, HoldersIn, Range
    <3>6. \A i \in DOMAIN bound : bound'[i].resource = res => bound[i].resource = res
        BY <3>3
    <3>7. \A i, j \in DOMAIN bound : bound[i].resource = res /\ bound[j].resource = res => i = j
        BY DEF HoldingInv, OneHolder
    <3>8. entry.took
        BY <1>3, <2>3
    <3> QED BY <3>2, <3>3, <3>4, <3>5, <3>6, <3>7, <3>8
  <2> QED BY <2>2, <2>3
<1>7. OneHolder'
  <2> SUFFICES ASSUME NEW i \in DOMAIN bound', NEW j \in DOMAIN bound',
                      bound'[i].resource = bound'[j].resource
               PROVE  i = j
      BY DEF OneHolder
  <2>1. CASE bound'[i].resource = res
      BY <1>6, <2>1
  <2>2. CASE bound'[i].resource # res
    <3>1. /\ i \in DOMAIN bound /\ bound'[i] = bound[i]
          /\ j \in DOMAIN bound /\ bound'[j] = bound[j]
        BY <1>3, <1>6, <2>2
    <3> QED BY <3>1 DEF HoldingInv, OneHolder
  <2> QED BY <2>1, <2>2
<1>8. HoldersAreThere'
  <2> SUFFICES ASSUME NEW i \in DOMAIN bound'
               PROVE  /\ stream'[bound'[i].stream].phase \in {"open", "stray"}
                      /\ stream'[bound'[i].stream].jid = bound'[i].resource
      BY DEF HoldersAreThere, There, Live, Stray
  <2>1. CASE bound'[i] = entry
      BY <1>2, <1>3, <2>1
  <2>2. CASE i \in DOMAIN bound /\ bound[i].resource # res /\ bound'[i] = bound[i]
    <3>1. /\ stream[bound[i].stream].phase \in {"open", "stray"}
          /\ stream[bound[i].stream].jid = bound[i].resource
        BY <2>2 DEF HoldingInv, HoldersAreThere, There, Live, Stray
    <3> QED BY <1>2, <1>5, <2>2, <3>1
  <2> QED BY <1>6, <2>1, <2>2
<1>9. ResourcesAreHeld'
  <2> SUFFICES ASSUME NEW d \in Streams, stream'[d].phase = "open", stream'[d].jid # None
               PROVE  HoldsThen(d, stream'[d].jid) \/ stream'[d].ending
      BY ResourcesAreHeldThen
  <2>1. CASE d = c
    <3>1. PICK i \in DOMAIN bound' : bound'[i] = entry
        BY <1>6
    <3> QED BY <1>2, <1>3, <2>1, <3>1 DEF HoldsThen
  <2>2. CASE d # c
    <3>1. /\ stream'[d].jid = stream[d].jid /\ (stream[d].ending => stream'[d].ending)
          /\ Live(d) /\ stream[d].jid # None
        BY <1>2, <2>2 DEF Live
    <3>2. CASE Holds(d, stream[d].jid) /\ stream[d].jid # res
      <4>1. PICK k \in DOMAIN bound : bound[k].resource = stream[d].jid /\ bound[k].stream = d
          BY <3>2, HoldersAreStreams
      <4>2. k \in DOMAIN bound' /\ bound'[k] = bound[k]
          BY <1>6, <3>2, <4>1
      <4> QED BY <3>1, <4>1, <4>2 DEF HoldsThen
    <3>3. CASE Holds(d, stream[d].jid) /\ stream[d].jid = res
        BY <1>2, <2>2, <3>1, <3>3
    <3> QED BY <3>1, <3>2, <3>3 DEF HoldingInv, ResourcesAreHeld
  <2> QED BY <2>1, <2>2
<1>10. HoldersAreInOrder'
  <2> SUFFICES ASSUME NEW i \in DOMAIN bound', NEW j \in DOMAIN bound', i < j
               PROVE  bound'[i].took \/ bound'[i].stream \in bound'[j].earlier
      BY DEF HoldersAreInOrder
  <2>1. CASE bound'[i] = entry
      BY <1>3, <1>6, <2>1
  <2>2. CASE bound'[i] # entry /\ bound'[j] = entry
      BY <1>5, <1>6, <2>2
  <2>3. CASE bound'[i] # entry /\ bound'[j] # entry
    <3>1. /\ i \in DOMAIN bound /\ bound'[i] = bound[i]
          /\ j \in DOMAIN bound /\ bound'[j] = bound[j]
        BY <1>6, <2>3
    <3> QED BY <3>1 DEF HoldingInv, HoldersAreInOrder
  <2> QED BY <2>1, <2>2, <2>3
<1> QED BY <1>6, <1>7, <1>8, <1>9, <1>10 DEF HoldingInv

-----------------------------------------------------------------------------
(* The rooms: what each step does to them.                                 *)

RoomsInv == OthersAreNowhere /\ \A r \in Rooms : RoomAgrees(r)

RoomShapes ==
    /\ stream \in [Streams -> StreamType]
    /\ rooms \in [Rooms -> SUBSET Occupant]
    /\ roster \in [Streams -> [Rooms -> SUBSET Nicks]]

\* A room that a step leaves alone.
RoomUnmoved(r) ==
    /\ rooms'[r] = rooms[r]
    /\ \A d \in Streams : /\ stream'[d].phase = stream[d].phase
                          /\ stream'[d].nick[r] = stream[d].nick[r]
                          /\ roster'[d][r] = roster[d][r]

LEMMA UnmovedRoomAgrees ==
    ASSUME NEW r \in Rooms, RoomAgrees(r), RoomUnmoved(r)
    PROVE  RoomAgrees(r)'
    BY DEF RoomAgrees, RoomUnmoved, There, Live, Stray, WellFormed

\* The parts of RoomAgrees(r)' for a room whose occupants are now those of filled.
LEMMA RoomAgreesThen ==
    ASSUME NEW r \in Rooms, NEW filled, rooms'[r] = filled, WellFormed(r, filled),
           \A c \in Streams, nick \in Nicks :
               Sits(filled, c, nick) <=>
                   stream'[c].phase \in {"open", "stray"} /\ stream'[c].nick[r] = nick,
           \A c \in Streams :
               roster'[c][r] = IF stream'[c].phase = "open" /\ Occupies(filled, c)
                               THEN NickNames(filled) ELSE {}
    PROVE  RoomAgrees(r)'
<1>1. WellFormed(r, rooms[r])'
    BY DEF WellFormed
<1>2. \A c \in Streams, nick \in Nicks :
          Sits(rooms[r], c, nick)' <=> There(c)' /\ stream'[c].nick[r] = nick
    BY DEF Sits, There, Live, Stray
<1>3. \A c \in Streams :
          roster'[c][r] = IF Live(c)' /\ Occupies(rooms[r], c)' THEN NickNames(rooms[r])' ELSE {}
    BY DEF Occupies, NickNames, Live
<1> QED BY <1>1, <1>2, <1>3 DEF RoomAgrees

\* Who is in a room has a nickname in it that the stream knows of, and is live or a
\* stray.
LEMMA SeatFacts ==
    ASSUME Types, RoomsInv, NEW r \in Rooms
    PROVE  /\ WellFormed(r, rooms[r]) /\ NickNames(rooms[r]) \subseteq Nicks
           /\ \A d \in Streams :
                  /\ d \in Members(rooms[r]) <=> Live(d) /\ Occupies(rooms[r], d)
                  /\ Occupies(rooms[r], d) <=> stream[d].nick[r] # None
                  /\ stream[d].nick[r] # None =>
                         /\ stream[d].nick[r] \in Nicks
                         /\ There(d)
                         /\ Sits(rooms[r], d, stream[d].nick[r])
                  /\ roster[d][r] = IF d \in Members(rooms[r]) THEN NickNames(rooms[r]) ELSE {}
<1>1. RoomAgrees(r) /\ None \notin Nicks
    BY ConstantFacts DEF RoomsInv
<1>2. \A o \in rooms[r] : o.nick \in Nicks
  <2>1. \A o \in rooms[r] : o \in Occupant
      BY <1>1 DEF RoomAgrees, WellFormed
  <2> QED BY <2>1 DEF Occupant
<1>3. NickNames(rooms[r]) \subseteq Nicks
    BY <1>2 DEF NickNames
<1>4. ASSUME NEW d \in Streams
      PROVE  /\ d \in Members(rooms[r]) <=> Live(d) /\ Occupies(rooms[r], d)
             /\ Occupies(rooms[r], d) <=> stream[d].nick[r] # None
             /\ stream[d].nick[r] # None =>
                    /\ stream[d].nick[r] \in Nicks
                    /\ There(d)
                    /\ Sits(rooms[r], d, stream[d].nick[r])
  <2>1. stream[d] \in StreamType /\ stream[d].nick[r] \in Nicks \cup {None}
      BY DEF Types, AuthTypes, StreamType
  <2>2. There(d) \/ stream[d].nick[r] = None
      BY DEF RoomsInv, OthersAreNowhere
  <2>3. \A n \in Nicks : Sits(rooms[r], d, n) <=> There(d) /\ stream[d].nick[r] = n
      BY <1>1 DEF RoomAgrees
  <2>4. Occupies(rooms[r], d) <=> \E n \in Nicks : Sits(rooms[r], d, n)
      BY <1>2 DEF Occupies, Sits
  <2> QED BY <1>1, <2>1, <2>2, <2>3, <2>4 DEF Members
<1>5. \A d \in Streams :
          roster[d][r] = IF d \in Members(rooms[r]) THEN NickNames(rooms[r]) ELSE {}
    BY <1>1, <1>4 DEF RoomAgrees
<1> QED BY <1>1, <1>3, <1>4, <1>5 DEF RoomAgrees

\* A room without the stream c: who is in it, and under which names.
LEMMA WithoutFacts ==
    ASSUME Types, RoomsInv, NEW c \in Streams, NEW r \in Rooms, NEW after,
           after = Left(rooms[r], c)
    PROVE  /\ WellFormed(r, after)
           /\ \A t, n : Sits(after, t, n) <=> t # c /\ Sits(rooms[r], t, n)
           /\ \A t : Occupies(after, t) <=> t # c /\ Occupies(rooms[r], t)
           /\ NickNames(after) = NickNames(rooms[r]) \ {stream[c].nick[r]}
<1>1. /\ WellFormed(r, rooms[r]) /\ NickNames(rooms[r]) \subseteq Nicks /\ None \notin Nicks
    BY SeatFacts, ConstantFacts
<1>2. /\ WellFormed(r, after)
      /\ \A t, n : Sits(after, t, n) <=> t # c /\ Sits(rooms[r], t, n)
      /\ \A t : Occupies(after, t) <=> t # c /\ Occupies(rooms[r], t)
      /\ \A n : Sits(rooms[r], c, n) => NickNames(after) = NickNames(rooms[r]) \ {n}
      /\ ~ Occupies(rooms[r], c) => after = rooms[r]
    BY <1>1, LeftFacts
<1>3. NickNames(after) = NickNames(rooms[r]) \ {stream[c].nick[r]}
  <2>1. CASE stream[c].nick[r] = None
      BY <1>1, <1>2, <2>1, SeatFacts
  <2>2. CASE stream[c].nick[r] # None
      BY <1>2, <2>2, SeatFacts
  <2> QED BY <2>1, <2>2
<1> QED BY <1>2, <1>3

\* One stream leaves one room: what the room and the others' view of it become.
LEMMA LeavingAgrees ==
    ASSUME Types, RoomsInv, NEW c \in Streams, NEW r \in Rooms,
           rooms'[r] = Left(rooms[r], c),
           stream'[c].nick[r] = None,
           \A d \in Streams : d # c =>
               stream'[d].phase = stream[d].phase /\ stream'[d].nick = stream[d].nick,
           roster'[c][r] = {},
           \A d \in Streams : d # c =>
               roster'[d][r] = IF d \in Members(rooms[r])
                               THEN roster[d][r] \ {stream[c].nick[r]} ELSE roster[d][r]
    PROVE  RoomAgrees(r)'
<1> DEFINE after == Left(rooms[r], c)
<1>1. RoomAgrees(r) /\ None \notin Nicks
    BY ConstantFacts DEF RoomsInv
<1>2. /\ WellFormed(r, after)
      /\ \A t, n : Sits(after, t, n) <=> t # c /\ Sits(rooms[r], t, n)
      /\ \A t : Occupies(after, t) <=> t # c /\ Occupies(rooms[r], t)
      /\ NickNames(after) = NickNames(rooms[r]) \ {stream[c].nick[r]}
    BY WithoutFacts
<1> HIDE DEF after
<1>3. \A d \in Streams, n \in Nicks :
          Sits(after, d, n) <=>
              stream'[d].phase \in {"open", "stray"} /\ stream'[d].nick[r] = n
    BY <1>1, <1>2 DEF RoomAgrees, There, Live, Stray
<1>4. \A d \in Streams : roster'[d][r] = IF stream'[d].phase = "open" /\ Occupies(after, d)
                                         THEN NickNames(after) ELSE {}
  <2> SUFFICES ASSUME NEW d \in Streams
               PROVE  roster'[d][r] = IF stream'[d].phase = "open" /\ Occupies(after, d)
                                      THEN NickNames(after) ELSE {}
      OBVIOUS
  <2>1. CASE d = c
      BY <1>2, <2>1
  <2>2. CASE d # c /\ d \in Members(rooms[r])
      BY <1>2, <2>2, SeatFacts DEF Live
  <2>3. CASE d # c /\ d \notin Members(rooms[r])
      BY <1>2, <2>3, SeatFacts DEF Live
  <2> QED BY <2>1, <2>2, <2>3
<1> QED BY <1>2, <1>3, <1>4, RoomAgreesThen DEF after

\* Every room without the stream c, and what the others see of it.
LEMMA RoomsWithout ==
    ASSUME Types, RoomsInv, NEW c \in Streams
    PROVE  /\ RoomsAfter(c) \in [Rooms -> SUBSET Occupant]
           /\ \A r \in Rooms : RoomsAfter(c)[r] = Left(rooms[r], c)
           /\ RosterAfter(c) \in [Streams -> [Rooms -> SUBSET Nicks]]
           /\ \A r \in Rooms, d \in Streams :
                  RosterAfter(c)[d][r] =
                      IF d = c THEN {}
                      ELSE IF d \in Members(rooms[r])
                      THEN roster[d][r] \ {stream[c].nick[r]} ELSE roster[d][r]
<1>1. \A r \in Rooms : RoomsAfter(c)[r] = Left(rooms[r], c)
  <2> SUFFICES ASSUME NEW r \in Rooms PROVE RoomsAfter(c)[r] = Left(rooms[r], c)
      OBVIOUS
  <2>1. CASE stream[c].nick[r] # None
      BY <2>1 DEF RoomsAfter
  <2>2. CASE stream[c].nick[r] = None
    <3>1. ~ Occupies(rooms[r], c) /\ WellFormed(r, rooms[r])
        BY <2>2, SeatFacts
    <3>2. Left(rooms[r], c) = rooms[r]
        BY <3>1, LeftFacts
    <3> QED BY <2>2, <3>2 DEF RoomsAfter
  <2> QED BY <2>1, <2>2
<1>2. \A r \in Rooms, d \in Streams :
          RosterAfter(c)[d][r] =
              IF d = c THEN {}
              ELSE IF d \in Members(rooms[r])
              THEN roster[d][r] \ {stream[c].nick[r]} ELSE roster[d][r]
    BY DEF RosterAfter
<1>3. RoomsAfter(c) \in [Rooms -> SUBSET Occupant]
  <2>1. \A r \in Rooms : Left(rooms[r], c) \subseteq Occupant
      BY DEF Types, AuthTypes, Left
  <2> QED BY <1>1, <2>1 DEF RoomsAfter
<1>4. RosterAfter(c) \in [Streams -> [Rooms -> SUBSET Nicks]]
  <2>1. \A d \in Streams, r \in Rooms : roster[d][r] \in SUBSET Nicks
      BY DEF Types, AuthTypes
  <2>2. \A d \in Streams, r \in Rooms : RosterAfter(c)[d][r] \in SUBSET Nicks
      BY <1>2, <2>1
  <2> QED BY <2>2 DEF RosterAfter
<1> QED BY <1>1, <1>2, <1>3, <1>4

\* A connection that is closed is taken out of every room and sees nobody.
LEMMA GoneKeepsRooms ==
    ASSUME Types, RoomsInv, NEW c \in Streams,
           rooms' = RoomsAfter(c), roster' = RosterAfter(c),
           stream' \in [Streams -> StreamType],
           \A d \in Streams : d # c => /\ stream'[d].phase = stream[d].phase
                                       /\ stream'[d].nick = stream[d].nick
                                       /\ stream'[d].jid = stream[d].jid,
           stream'[c].phase = "stray" \/ stream'[c].jid = None,
           \A r \in Rooms : stream'[c].nick[r] = None
    PROVE  RoomsInv' /\ RoomShapes'
<1>1. /\ rooms' \in [Rooms -> SUBSET Occupant]
      /\ \A r \in Rooms : rooms'[r] = Left(rooms[r], c)
      /\ roster' \in [Streams -> [Rooms -> SUBSET Nicks]]
      /\ \A r \in Rooms, d \in Streams :
             roster'[d][r] = IF d = c THEN {}
                             ELSE IF d \in Members(rooms[r])
                             THEN roster[d][r] \ {stream[c].nick[r]} ELSE roster[d][r]
  <2> DEFINE filled == RoomsAfter(c)
             seen == RosterAfter(c)
  <2>1. /\ filled \in [Rooms -> SUBSET Occupant]
        /\ \A r \in Rooms : filled[r] = Left(rooms[r], c)
        /\ seen \in [Streams -> [Rooms -> SUBSET Nicks]]
        /\ \A r \in Rooms, d \in Streams :
               seen[d][r] = IF d = c THEN {}
                            ELSE IF d \in Members(rooms[r])
                            THEN roster[d][r] \ {stream[c].nick[r]} ELSE roster[d][r]
      BY RoomsWithout
  <2>2. rooms' = filled /\ roster' = seen
      OBVIOUS
  <2> HIDE DEF filled, seen
  <2> QED BY <2>1, <2>2
<1>2. ASSUME NEW r \in Rooms PROVE RoomAgrees(r)'
    BY <1>1, LeavingAgrees
<1>3. OthersAreNowhere'
    BY DEF RoomsInv, OthersAreNowhere, There, Live, Stray
<1> QED BY <1>1, <1>2, <1>3 DEF RoomsInv, RoomShapes

\* A stray takes its seat in a room it has just been taken out of, or was not in.
LEMMA JoinBehindKeepsRooms ==
    ASSUME Types, RoomsInv, NEW c \in Streams, NEW r \in Rooms, NEW nick \in Nicks,
           NEW password, JoinBehind(c, r, nick, password)
    PROVE  RoomsInv' /\ RoomShapes'
<1> DEFINE room == Left(rooms[r], c)
           after == Joined(r, room, nick, c)
<1>1. /\ RoomsAfter(c) \in [Rooms -> SUBSET Occupant]
      /\ \A q \in Rooms : RoomsAfter(c)[q] = Left(rooms[q], c)
      /\ RosterAfter(c) \in [Streams -> [Rooms -> SUBSET Nicks]]
      /\ \A q \in Rooms, d \in Streams :
             RosterAfter(c)[d][q] = IF d = c THEN {}
                                    ELSE IF d \in Members(rooms[q])
                                    THEN roster[d][q] \ {stream[c].nick[q]} ELSE roster[d][q]
    BY RoomsWithout
<1>2. /\ JoinRefusal(r, room, nick, password, c) = "none"
      /\ rooms' = [RoomsAfter(c) EXCEPT ![r] = after]
      /\ roster' = [d \in Streams |->
             IF d \in Members(room) THEN [RosterAfter(c)[d] EXCEPT ![r] = @ \cup {nick}]
             ELSE RosterAfter(c)[d]]
      /\ stream' = [stream EXCEPT ![c] = StrayOccupant(r, nick)]
    BY <1>1 DEF JoinBehind
<1>3. /\ stream' \in [Streams -> StreamType]
      /\ \A d \in Streams : d # c => stream'[d] = stream[d]
      /\ stream'[c].phase = "stray" /\ stream'[c].nick[r] = nick
      /\ \A q \in Rooms : q # r => stream'[c].nick[q] = None
    BY <1>2, StrayFacts DEF Types, AuthTypes
<1>4. /\ WellFormed(r, room)
      /\ \A t, n : Sits(room, t, n) <=> t # c /\ Sits(rooms[r], t, n)
      /\ \A t : Occupies(room, t) <=> t # c /\ Occupies(rooms[r], t)
      /\ NickNames(room) = NickNames(rooms[r]) \ {stream[c].nick[r]}
    BY WithoutFacts
<1>5. Members(room) = Members(rooms[r]) \ {c}
    BY <1>4 DEF Members
<1> HIDE DEF room
<1>6. /\ WellFormed(r, after)
      /\ \A t, n : Sits(after, t, n) <=> (t = c /\ n = nick) \/ (t # c /\ Sits(room, t, n))
      /\ \A t : Occupies(after, t) <=> t = c \/ Occupies(room, t)
      /\ NickNames(after) = NickNames(Left(room, c)) \cup {nick}
    <2>1. after = Joined(r, room, nick, c) /\ c \in Sessions
        BY ConstantFacts
    <2>2. \A o \in room : o.nick = nick => o.session = c
        BY <1>2 DEF JoinRefusal
    <2> HIDE DEF after
    <2> QED BY <1>4, <2>1, <2>2, JoinedFacts
<1>7. NickNames(after) = NickNames(room) \cup {nick}
  <2>1. Left(room, c) = room
      BY <1>4, LeftFacts
  <2> QED BY <1>6, <2>1
<1>8. after \subseteq Occupant
    BY <1>6 DEF WellFormed
<1> HIDE DEF after
<1>9. /\ rooms' \in [Rooms -> SUBSET Occupant] /\ rooms'[r] = after
      /\ \A q \in Rooms : q # r => rooms'[q] = Left(rooms[q], c)
    BY <1>1, <1>2, <1>8
<1>10. ASSUME NEW d \in Streams
       PROVE  /\ roster'[d] \in [Rooms -> SUBSET Nicks]
              /\ roster'[d][r] = IF d \in Members(room) THEN RosterAfter(c)[d][r] \cup {nick}
                                 ELSE RosterAfter(c)[d][r]
              /\ \A q \in Rooms : q # r => roster'[d][q] = RosterAfter(c)[d][q]
  <2>1. RosterAfter(c)[d] \in [Rooms -> SUBSET Nicks]
      BY <1>1
  <2>2. roster'[d] = IF d \in Members(room) THEN [RosterAfter(c)[d] EXCEPT ![r] = @ \cup {nick}]
                     ELSE RosterAfter(c)[d]
      BY <1>2
  <2> QED BY <2>1, <2>2
<1>11. roster' \in [Streams -> [Rooms -> SUBSET Nicks]]
    BY <1>2, <1>10
<1>12. RoomAgrees(r)'
  <2>1. \A d \in Streams, n \in Nicks :
            Sits(after, d, n) <=>
                stream'[d].phase \in {"open", "stray"} /\ stream'[d].nick[r] = n
    <3>1. RoomAgrees(r)
        BY DEF RoomsInv
    <3> QED BY <1>3, <1>4, <1>6, <3>1 DEF RoomAgrees, There, Live, Stray
  <2>2. \A d \in Streams : roster'[d][r] = IF stream'[d].phase = "open" /\ Occupies(after, d)
                                           THEN NickNames(after) ELSE {}
    <3> SUFFICES ASSUME NEW d \in Streams
                 PROVE  roster'[d][r] = IF stream'[d].phase = "open" /\ Occupies(after, d)
                                        THEN NickNames(after) ELSE {}
        OBVIOUS
    <3>1. CASE d = c
        BY <1>1, <1>3, <1>5, <1>10, <3>1
    <3>2. CASE d # c /\ d \in Members(rooms[r])
      <4>1. /\ Live(d) /\ Occupies(rooms[r], d) /\ roster[d][r] = NickNames(rooms[r])
          BY <3>2, SeatFacts
      <4> QED BY <1>1, <1>3, <1>4, <1>5, <1>6, <1>7, <1>10, <3>2, <4>1 DEF Live
    <3>3. CASE d # c /\ d \notin Members(rooms[r])
      <4>1. ~ (Live(d) /\ Occupies(rooms[r], d)) /\ roster[d][r] = {}
          BY <3>3, SeatFacts
      <4>2. d \notin Members(room)
          BY <1>5, <3>3
      <4>3. roster'[d][r] = {}
          BY <1>1, <1>10, <3>3, <4>1, <4>2
      <4>4. ~ (stream'[d].phase = "open" /\ Occupies(after, d))
          BY <1>3, <1>4, <1>6, <3>3, <4>1 DEF Live
      <4> QED BY <4>3, <4>4
    <3> QED BY <3>1, <3>2, <3>3
  <2>3. rooms'[r] = after /\ WellFormed(r, after)
      BY <1>6, <1>9
  <2> QED BY <2>1, <2>2, <2>3, RoomAgreesThen
<1>13. ASSUME NEW q \in Rooms, q # r PROVE RoomAgrees(q)'
  <2>1. /\ rooms'[q] = Left(rooms[q], c) /\ stream'[c].nick[q] = None
        /\ \A d \in Streams : d # c =>
               stream'[d].phase = stream[d].phase /\ stream'[d].nick = stream[d].nick
      BY <1>3, <1>9, <1>13
  <2>2. /\ roster'[c][q] = {}
        /\ \A d \in Streams : d # c =>
               roster'[d][q] = IF d \in Members(rooms[q])
                               THEN roster[d][q] \ {stream[c].nick[q]} ELSE roster[d][q]
      BY <1>1, <1>10, <1>13
  <2> QED BY <2>1, <2>2, LeavingAgrees
<1>14. OthersAreNowhere'
    BY <1>3 DEF RoomsInv, OthersAreNowhere, There, Live, Stray
<1> QED BY <1>3, <1>9, <1>11, <1>12, <1>13, <1>14 DEF RoomsInv, RoomShapes

\* What a step that sets the nickname of one stream in one room leaves alone.
SetsNick(c, r, nick) ==
    /\ stream' \in [Streams -> StreamType]
    /\ stream'[c].nick[r] = nick
    /\ \A q \in Rooms : q # r => stream'[c].nick[q] = stream[c].nick[q]
    /\ stream'[c].jid = stream[c].jid
    /\ \A d \in Streams : /\ d # c => stream'[d] = stream[d]
                          /\ stream'[d].phase = stream[d].phase
                          /\ stream'[d].jid = stream[d].jid
                          /\ stream'[d].ending = stream[d].ending
                          /\ stream'[d].initiations = stream[d].initiations
                          /\ stream'[d].charge = stream[d].charge

LEMMA SetsNickFacts ==
    ASSUME AuthTypes, NEW c \in Streams, NEW r \in Rooms, NEW nick \in Nicks \cup {None},
           stream' = [stream EXCEPT ![c].nick[r] = nick]
    PROVE  SetsNick(c, r, nick)
<1> DEFINE s == stream[c]
           nicks == [s.nick EXCEPT ![r] = nick]
           x == [s EXCEPT !.nick = nicks]
<1>1. stream \in [Streams -> StreamType] /\ s \in StreamType
      /\ s.nick \in [Rooms -> Nicks \cup {None}]
    BY DEF AuthTypes, StreamType
<1>2. /\ nicks \in [Rooms -> Nicks \cup {None}] /\ nicks[r] = nick
      /\ \A q \in Rooms : q # r => nicks[q] = s.nick[q]
    BY <1>1
<1>3. stream' = [stream EXCEPT ![c] = x]
    OBVIOUS
<1> HIDE DEF nicks
<1>4. x \in StreamType
    BY <1>1, <1>2 DEF StreamType
<1>5. /\ x.nick = nicks /\ x.phase = s.phase /\ x.jid = s.jid /\ x.ending = s.ending
      /\ x.initiations = s.initiations /\ x.charge = s.charge
    BY <1>1 DEF StreamType
<1> HIDE DEF x
<1> QED BY <1>1, <1>2, <1>3, <1>4, <1>5 DEF SetsNick

\* The other rooms, and who is nowhere, when one nickname of a live stream changes.
LEMMA SetsNickKeepsOthers ==
    ASSUME Types, RoomsInv, NEW c \in Streams, NEW r \in Rooms, NEW nick,
           SetsNick(c, r, nick), Live(c),
           \A q \in Rooms : q # r => rooms'[q] = rooms[q],
           \A d \in Streams, q \in Rooms : q # r => roster'[d][q] = roster[d][q]
    PROVE  OthersAreNowhere' /\ \A q \in Rooms : q # r => RoomAgrees(q)'
<1>1. OthersAreNowhere'
    BY DEF RoomsInv, OthersAreNowhere, SetsNick, There, Live, Stray
<1>2. ASSUME NEW q \in Rooms, q # r PROVE RoomAgrees(q)'
  <2>1. RoomUnmoved(q) /\ RoomAgrees(q)
      BY <1>2 DEF RoomUnmoved, SetsNick, RoomsInv
  <2> QED BY <2>1, UnmovedRoomAgrees
<1> QED BY <1>1, <1>2

LEMMA LeaveRoomKeepsRooms ==
    ASSUME Types, RoomsInv, NEW c \in Streams, NEW r \in Rooms, LeaveRoom(c, r)
    PROVE  RoomsInv' /\ RoomShapes' /\ SetsNick(c, r, None)
<1>1. /\ Live(c)
      /\ rooms' = [rooms EXCEPT ![r] = Left(@, c)]
      /\ stream' = [stream EXCEPT ![c].nick[r] = None]
      /\ roster' = [d \in Streams |->
             IF d = c THEN [roster[d] EXCEPT ![r] = {}]
             ELSE IF d \in Members(rooms[r])
                  THEN [roster[d] EXCEPT ![r] = @ \ {stream[c].nick[r]}]
                  ELSE roster[d]]
    BY DEF LeaveRoom, Reads
<1>2. SetsNick(c, r, None)
    BY <1>1, SetsNickFacts DEF Types
<1>3. /\ rooms \in [Rooms -> SUBSET Occupant]
      /\ \A d \in Streams : roster[d] \in [Rooms -> SUBSET Nicks]
    BY DEF Types, AuthTypes
<1>4. rooms' \in [Rooms -> SUBSET Occupant] /\ rooms'[r] = Left(rooms[r], c)
      /\ \A q \in Rooms : q # r => rooms'[q] = rooms[q]
    BY <1>1, <1>3 DEF Left
<1>5. ASSUME NEW d \in Streams
      PROVE  /\ roster'[d] \in [Rooms -> SUBSET Nicks]
             /\ roster'[d][r] = IF d = c THEN {}
                                ELSE IF d \in Members(rooms[r])
                                THEN roster[d][r] \ {stream[c].nick[r]} ELSE roster[d][r]
             /\ \A q \in Rooms : q # r => roster'[d][q] = roster[d][q]
    BY <1>1, <1>3
<1>6. roster' \in [Streams -> [Rooms -> SUBSET Nicks]]
    BY <1>1, <1>5
<1>7. RoomAgrees(r)'
  <2>1. /\ stream'[c].nick[r] = None
        /\ \A d \in Streams : d # c =>
               stream'[d].phase = stream[d].phase /\ stream'[d].nick = stream[d].nick
      BY <1>2 DEF SetsNick
  <2>2. roster'[c][r] = {} /\ rooms'[r] = Left(rooms[r], c)
      BY <1>4, <1>5
  <2>3. \A d \in Streams : d # c =>
            roster'[d][r] = IF d \in Members(rooms[r])
                            THEN roster[d][r] \ {stream[c].nick[r]} ELSE roster[d][r]
      BY <1>5
  <2> QED BY <2>1, <2>2, <2>3, LeavingAgrees
<1>8. OthersAreNowhere' /\ \A q \in Rooms : q # r => RoomAgrees(q)'
    BY <1>1, <1>2, <1>4, <1>5, SetsNickKeepsOthers
<1> QED BY <1>2, <1>4, <1>6, <1>7, <1>8 DEF RoomsInv, RoomShapes, SetsNick

\* A newcomer is shown who is there, the others the newcomer; who was there under
\* another name is taken off under it.
LEMMA JoinKeepsRooms ==
    ASSUME Types, RoomsInv, NEW c \in Streams, NEW r \in Rooms, NEW nick \in Nicks,
           NEW password, Join(c, r, nick, password)
    PROVE  RoomsInv' /\ RoomShapes' /\ SetsNick(c, r, nick)
<1> DEFINE after == Joined(r, rooms[r], nick, c)
           mine == NickNames(Occupancy(rooms[r], c))
           others == NickNames(Left(rooms[r], c))
           renamed == Renames(rooms[r], nick, c)
           shown(d) == (roster[d][r] \ (mine \ {nick})) \cup {nick}
                       \cup IF d = c /\ ~ renamed THEN others ELSE {}
           told(d) == Live(d) /\ Occupies(after, d)
<1>1. /\ Live(c) /\ JoinRefusal(r, rooms[r], nick, password, c) = "none"
      /\ rooms' = [rooms EXCEPT ![r] = after]
      /\ stream' = [stream EXCEPT ![c].nick[r] = nick]
      /\ roster' = [d \in Streams |->
             IF d \notin {e \in Streams : Live(e) /\ Occupies(after, e)} THEN roster[d]
             ELSE [roster[d] EXCEPT ![r] =
                       (@ \ (mine \ {nick})) \cup {nick}
                       \cup IF d = c /\ ~ renamed THEN others ELSE {}]]
    BY DEF Join, Reads, Left
<1>2. SetsNick(c, r, nick)
    BY <1>1, SetsNickFacts DEF Types
<1>3. WellFormed(r, rooms[r]) /\ c \in Sessions /\ RoomAgrees(r)
    BY SeatFacts, ConstantFacts DEF RoomsInv
<1>4. /\ WellFormed(r, after)
      /\ \A t, n : Sits(after, t, n) <=> (t = c /\ n = nick) \/ (t # c /\ Sits(rooms[r], t, n))
      /\ \A t : Occupies(after, t) <=> t = c \/ Occupies(rooms[r], t)
      /\ NickNames(after) = others \cup {nick}
      /\ others = NickNames(rooms[r]) \ mine
    <2>1. after = Joined(r, rooms[r], nick, c)
        OBVIOUS
    <2>2. \A o \in rooms[r] : o.nick = nick => o.session = c
        BY <1>1 DEF JoinRefusal
    <2> HIDE DEF after
    <2> QED BY <1>3, <2>1, <2>2, JoinedFacts
<1>5. /\ after \subseteq Occupant /\ mine \subseteq Nicks /\ others \subseteq Nicks
      /\ mine \subseteq NickNames(rooms[r])
  <2>1. NickNames(rooms[r]) \subseteq Nicks /\ after \subseteq Occupant
      BY <1>4, SeatFacts DEF WellFormed
  <2>2. mine \subseteq NickNames(rooms[r]) /\ others \subseteq NickNames(rooms[r])
      BY DEF NickNames, Left, Occupancy
  <2> QED BY <2>1, <2>2
<1>6. ~ renamed => mine \subseteq {nick}
    BY DEF Renames, NickNames, Occupancy
<1>7. ~ Occupies(rooms[r], c) => ~ renamed
    BY DEF Renames, Occupies, Occupancy
<1> HIDE DEF after, mine, others, renamed
<1>8. /\ rooms \in [Rooms -> SUBSET Occupant]
      /\ \A d \in Streams : roster[d] \in [Rooms -> SUBSET Nicks]
    BY DEF Types, AuthTypes
<1>9. /\ rooms' \in [Rooms -> SUBSET Occupant] /\ rooms'[r] = after
      /\ \A q \in Rooms : q # r => rooms'[q] = rooms[q]
    BY <1>1, <1>5, <1>8
<1>10. ASSUME NEW d \in Streams
       PROVE  /\ roster'[d] \in [Rooms -> SUBSET Nicks]
              /\ roster'[d][r] = IF told(d) THEN shown(d) ELSE roster[d][r]
              /\ \A q \in Rooms : q # r => roster'[d][q] = roster[d][q]
  <2>1. roster'[d] = IF told(d) THEN [roster[d] EXCEPT ![r] = shown(d)] ELSE roster[d]
      BY <1>1, <1>8
  <2>2. shown(d) \subseteq Nicks
      BY <1>5, <1>8
  <2> HIDE DEF shown, told
  <2> QED BY <1>8, <2>1, <2>2
<1>11. roster' \in [Streams -> [Rooms -> SUBSET Nicks]]
    BY <1>1, <1>10
<1>12. \A d \in Streams : roster'[d][r] = IF stream'[d].phase = "open" /\ Occupies(after, d)
                                         THEN NickNames(after) ELSE {}
  <2> SUFFICES ASSUME NEW d \in Streams
               PROVE  roster'[d][r] = IF stream'[d].phase = "open" /\ Occupies(after, d)
                                      THEN NickNames(after) ELSE {}
      OBVIOUS
  <2> stream'[d].phase = "open" <=> Live(d)
      BY <1>2 DEF SetsNick, Live
  <2>1. CASE Live(d) /\ Occupies(rooms[r], d)
    <3>1. /\ roster[d][r] = NickNames(rooms[r]) /\ Live(d) /\ Occupies(after, d)
        BY <1>4, <2>1, SeatFacts
    <3>2. roster'[d][r] = (NickNames(rooms[r]) \ (mine \ {nick})) \cup {nick}
                          \cup IF d = c /\ ~ renamed THEN others ELSE {}
        BY <1>10, <3>1
    <3> QED BY <1>4, <3>1, <3>2
  <2>2. CASE ~ (Live(d) /\ Occupies(rooms[r], d)) /\ d # c
    <3>1. roster[d][r] = {} /\ ~ (Live(d) /\ Occupies(after, d))
        BY <1>4, <2>2, SeatFacts
    <3> QED BY <1>10, <3>1
  <2>3. CASE ~ (Live(d) /\ Occupies(rooms[r], d)) /\ d = c
    <3>1. roster[d][r] = {} /\ Occupies(after, d) /\ ~ renamed /\ Live(d)
        BY <1>1, <1>4, <1>7, <2>3, SeatFacts
    <3>2. roster'[d][r] = ({} \ (mine \ {nick})) \cup {nick} \cup others
        BY <1>1, <1>10, <2>3, <3>1
    <3> QED BY <1>4, <3>1, <3>2
  <2> QED BY <2>1, <2>2, <2>3
<1>13. \A d \in Streams, n \in Nicks :
           Sits(after, d, n) <=>
               stream'[d].phase \in {"open", "stray"} /\ stream'[d].nick[r] = n
    BY <1>1, <1>2, <1>3, <1>4 DEF RoomAgrees, There, Live, Stray, SetsNick
<1>14. RoomAgrees(r)'
  <2>1. WellFormed(r, after)
      BY <1>4
  <2> QED BY <1>9, <1>12, <1>13, <2>1, RoomAgreesThen
<1>15. OthersAreNowhere' /\ \A q \in Rooms : q # r => RoomAgrees(q)'
    BY <1>1, <1>2, <1>9, <1>10, SetsNickKeepsOthers
<1> QED BY <1>2, <1>9, <1>11, <1>14, <1>15 DEF RoomsInv, RoomShapes, SetsNick

\* The application identity enters a room it was not in.
LEMMA ServiceKeepsRooms ==
    ASSUME Types, RoomsInv, NEW r \in Rooms, NEW nick \in Nicks, JoinRoomAsService(r, nick)
    PROVE  RoomsInv' /\ RoomShapes'
<1> DEFINE after == Joined(r, rooms[r], nick, Service)
<1>1. /\ JoinRefusal(r, rooms[r], nick, TRUE, Service) = "none"
      /\ ~ Occupies(rooms[r], Service)
      /\ rooms' = [rooms EXCEPT ![r] = after]
      /\ roster' = [d \in Streams |->
             IF d \in Members(rooms[r]) THEN [roster[d] EXCEPT ![r] = @ \cup {nick}]
             ELSE roster[d]]
      /\ stream' = stream
    BY DEF JoinRoomAsService
<1>2. WellFormed(r, rooms[r]) /\ Service \in Sessions /\ Service \notin Streams /\ RoomAgrees(r)
    BY SeatFacts, ConstantFacts DEF RoomsInv
<1>3. /\ WellFormed(r, after)
      /\ \A t, n : Sits(after, t, n) <=> (t = Service /\ n = nick) \/ (t # Service /\ Sits(rooms[r], t, n))
      /\ \A t : Occupies(after, t) <=> t = Service \/ Occupies(rooms[r], t)
      /\ NickNames(after) = NickNames(Left(rooms[r], Service)) \cup {nick}
    <2>1. after = Joined(r, rooms[r], nick, Service)
        OBVIOUS
    <2>2. \A o \in rooms[r] : o.nick = nick => o.session = Service
        BY <1>1 DEF JoinRefusal
    <2> HIDE DEF after
    <2> QED BY <1>2, <2>1, <2>2, JoinedFacts
<1>4. NickNames(after) = NickNames(rooms[r]) \cup {nick}
  <2>1. Left(rooms[r], Service) = rooms[r]
      BY <1>1 DEF Left, Occupancy, Occupies
  <2> QED BY <1>3, <2>1
<1>5. after \subseteq Occupant
    BY <1>3 DEF WellFormed
<1> HIDE DEF after
<1>6. /\ rooms \in [Rooms -> SUBSET Occupant]
      /\ \A d \in Streams : roster[d] \in [Rooms -> SUBSET Nicks]
    BY DEF Types, AuthTypes
<1>7. /\ rooms' \in [Rooms -> SUBSET Occupant] /\ rooms'[r] = after
      /\ \A q \in Rooms : q # r => rooms'[q] = rooms[q]
    BY <1>1, <1>5, <1>6
<1>8. ASSUME NEW d \in Streams
      PROVE  /\ roster'[d] \in [Rooms -> SUBSET Nicks]
             /\ roster'[d][r] = IF d \in Members(rooms[r]) THEN roster[d][r] \cup {nick}
                                ELSE roster[d][r]
             /\ \A q \in Rooms : q # r => roster'[d][q] = roster[d][q]
    BY <1>1, <1>6
<1>9. roster' \in [Streams -> [Rooms -> SUBSET Nicks]]
    BY <1>1, <1>8
<1>10. \A d \in Streams : roster'[d][r] = IF stream'[d].phase = "open" /\ Occupies(after, d)
                                         THEN NickNames(after) ELSE {}
  <2> SUFFICES ASSUME NEW d \in Streams
               PROVE  roster'[d][r] = IF stream'[d].phase = "open" /\ Occupies(after, d)
                                      THEN NickNames(after) ELSE {}
      OBVIOUS
  <2>1. (Occupies(after, d) <=> Occupies(rooms[r], d)) /\ (stream'[d].phase = "open" <=> Live(d))
      BY <1>1, <1>2, <1>3 DEF Live
  <2>2. CASE d \in Members(rooms[r])
    <3>1. roster[d][r] = NickNames(rooms[r]) /\ Live(d) /\ Occupies(rooms[r], d)
        BY <2>2, SeatFacts
    <3> QED BY <1>4, <1>8, <2>1, <2>2, <3>1
  <2>3. CASE d \notin Members(rooms[r])
    <3>1. roster[d][r] = {} /\ ~ (Live(d) /\ Occupies(rooms[r], d))
        BY <2>3, SeatFacts
    <3> QED BY <1>8, <2>1, <2>3, <3>1
  <2> QED BY <2>2, <2>3
<1>11. \A d \in Streams, n \in Nicks :
           Sits(after, d, n) <=>
               stream'[d].phase \in {"open", "stray"} /\ stream'[d].nick[r] = n
    BY <1>1, <1>2, <1>3 DEF RoomAgrees, There, Live, Stray
<1>12. RoomAgrees(r)'
  <2>1. WellFormed(r, after)
      BY <1>3
  <2> QED BY <1>7, <1>10, <1>11, <2>1, RoomAgreesThen
<1>13. ASSUME NEW q \in Rooms, q # r PROVE RoomAgrees(q)'
  <2>1. RoomUnmoved(q) /\ RoomAgrees(q)
      BY <1>1, <1>7, <1>8, <1>13 DEF RoomUnmoved, RoomsInv
  <2> QED BY <2>1, UnmovedRoomAgrees
<1>14. OthersAreNowhere' /\ stream' \in [Streams -> StreamType]
    BY <1>1 DEF RoomsInv, OthersAreNowhere, There, Live, Stray, Types, AuthTypes
<1> QED BY <1>7, <1>9, <1>12, <1>13, <1>14 DEF RoomsInv, RoomShapes

\* Closing the server empties every room, but for the strays.
LEMMA CloseKeepsRooms ==
    ASSUME Types, RoomsInv, Close
    PROVE  RoomsInv' /\ RoomShapes'
<1> DEFINE filled(r) == {o \in Left(rooms[r], Service) :
                            ~ (Live(o.session) /\ stream[o.session].nick[r] # None)}
<1>1. /\ rooms' = [r \in Rooms |-> filled(r)]
      /\ stream' = [c \in Streams |-> IF Live(c) THEN Closed ELSE stream[c]]
      /\ roster' = [c \in Streams |-> [r \in Rooms |-> {}]]
    BY DEF Close, NobodyIsThere
<1>2. /\ Closed \in StreamType /\ Closed.phase = "gone" /\ Closed.jid = None
      /\ \A r \in Rooms : Closed.nick[r] = None
    BY AbsentFacts
<1>3. /\ stream' \in [Streams -> StreamType]
      /\ \A c \in Streams : stream'[c].phase # "open"
      /\ \A c \in Streams : ~ Live(c) => stream'[c] = stream[c]
      /\ \A c \in Streams : Live(c) => stream'[c] = Closed
    BY <1>1, <1>2 DEF Types, AuthTypes, Live
<1>4. ASSUME NEW r \in Rooms
      PROVE  /\ WellFormed(r, filled(r))
             /\ \A d \in Streams, n \in Nicks :
                    Sits(filled(r), d, n) <=> ~ Live(d) /\ Sits(rooms[r], d, n)
  <2>1. WellFormed(r, rooms[r]) /\ Service \notin Streams
      BY SeatFacts, ConstantFacts
  <2>2. \A o : o \in filled(r) <=>
            /\ o \in rooms[r] /\ o.session # Service
            /\ ~ (Live(o.session) /\ stream[o.session].nick[r] # None)
      BY DEF Left, Occupancy
  <2> HIDE DEF filled
  <2>3. WellFormed(r, filled(r))
      BY <2>1, <2>2 DEF WellFormed
  <2>4. \A d \in Streams, n \in Nicks : Sits(rooms[r], d, n) => stream[d].nick[r] # None
    <3>1. \A d \in Streams, n \in Nicks : Sits(rooms[r], d, n) => Occupies(rooms[r], d)
        BY DEF Sits, Occupies
    <3> QED BY <3>1, SeatFacts
  <2>5. ASSUME NEW d \in Streams, NEW n \in Nicks
        PROVE  Sits(filled(r), d, n) <=> ~ Live(d) /\ Sits(rooms[r], d, n)
      BY <2>1, <2>2, <2>4 DEF Sits
  <2> QED BY <2>3, <2>5
<1> HIDE DEF filled
<1>5. rooms' \in [Rooms -> SUBSET Occupant]
  <2>1. \A r \in Rooms : filled(r) \subseteq Occupant
      BY <1>4 DEF WellFormed
  <2> QED BY <1>1, <2>1
<1>6. roster' \in [Streams -> [Rooms -> SUBSET Nicks]]
    BY <1>1
<1>7. ASSUME NEW r \in Rooms PROVE RoomAgrees(r)'
  <2>1. WellFormed(r, filled(r)) /\ rooms'[r] = filled(r)
      BY <1>1, <1>4
  <2>2. \A d \in Streams, n \in Nicks :
            Sits(filled(r), d, n) <=>
                stream'[d].phase \in {"open", "stray"} /\ stream'[d].nick[r] = n
    <3>1. RoomAgrees(r) /\ None \notin Nicks
        BY ConstantFacts DEF RoomsInv
    <3> QED BY <1>2, <1>3, <1>4, <3>1 DEF RoomAgrees, There, Live, Stray
  <2>3. \A d \in Streams : roster'[d][r] =
            IF stream'[d].phase = "open" /\ Occupies(filled(r), d) THEN NickNames(filled(r)) ELSE {}
      BY <1>1, <1>3
  <2> QED BY <2>1, <2>2, <2>3, RoomAgreesThen
<1>8. OthersAreNowhere'
    BY <1>2, <1>3 DEF RoomsInv, OthersAreNowhere, There, Live, Stray
<1> QED BY <1>3, <1>5, <1>6, <1>7, <1>8 DEF RoomsInv, RoomShapes

-----------------------------------------------------------------------------
(* The limiter keeps its limit, whatever the streams do.                   *)

\* A stream that comes, or goes.
LEMMA AcceptedStays ==
    ASSUME AuthTypes, NEW c \in Streams, Accept(c)
    PROVE  /\ stream' \in [Streams -> StreamType]
           /\ \A d \in Streams : /\ d # c => stream'[d] = stream[d]
                                 /\ stream'[d].jid = stream[d].jid
                                 /\ stream'[d].nick = stream[d].nick
                                 /\ stream'[d].ending = stream[d].ending
                                 /\ stream'[d].initiations = stream[d].initiations
                                 /\ stream'[d].charge = stream[d].charge
           /\ stream[c].phase = "absent" /\ stream'[c].phase = "open"
<1> DEFINE x == [stream[c] EXCEPT !.phase = "open"]
<1>1. stream \in [Streams -> StreamType] /\ stream[c] \in StreamType
    BY DEF AuthTypes
<1>2. x \in StreamType
    BY <1>1 DEF StreamType
<1>3. /\ x.phase = "open" /\ x.jid = stream[c].jid /\ x.nick = stream[c].nick
      /\ x.ending = stream[c].ending
      /\ x.initiations = stream[c].initiations /\ x.charge = stream[c].charge
    BY <1>1 DEF StreamType
<1>4. stream' = [stream EXCEPT ![c] = x] /\ stream[c].phase = "absent"
    BY DEF Accept
<1> HIDE DEF x
<1> QED BY <1>1, <1>2, <1>3, <1>4

LEMMA GoingUnmoved ==
    ASSUME AuthTypes, NEW gone \in SUBSET Streams, UNCHANGED authVars,
           stream' = [c \in Streams |-> IF c \in gone THEN Closed
                                        ELSE stream[c]]
    PROVE  stream' \in [Streams -> StreamType] /\ AuthUnmoved
<1>1. Closed \in StreamType /\ Closed.phase = "gone" /\ Closed.charge = NoToken
    BY AbsentFacts
<1>2. stream' \in [Streams -> StreamType]
    BY <1>1 DEF AuthTypes
<1> QED BY <1>1, <1>2 DEF AuthUnmoved

\* What goes when c is closed, with or without something behind it.
LEMMA GoneUnmoved ==
    ASSUME AuthTypes, NEW c \in Streams, UNCHANGED authVars, NEW x \in StreamType,
           x.phase \in {"gone", "stray"}, x.charge = NoToken,
           stream' = [stream EXCEPT ![c] = x]
    PROVE  stream' \in [Streams -> StreamType] /\ AuthUnmoved
    BY DEF AuthTypes, AuthUnmoved

\* Every step of a stream either signs it in or leaves the limiter alone.
LEMMA StreamStepCharges ==
    ASSUME AuthTypes, AuthInv, NEW c \in Streams, StreamStep(c)
    PROVE  /\ plan' = plan /\ now' = now /\ stream' \in [Streams -> StreamType]
           /\ SignsIn(c) \/ AuthUnmoved
<1> DEFINE Goal == /\ plan' = plan /\ now' = now /\ stream' \in [Streams -> StreamType]
                   /\ SignsIn(c) \/ AuthUnmoved
<1>1. CASE Accept(c)
  <2>1. UNCHANGED authVars /\ plan' = plan
      BY <1>1 DEF Accept
  <2> QED BY <1>1, <2>1, AcceptedStays DEF AuthUnmoved, authVars
<1>2. CASE StreamStart(c) \/ BreaksOff(c) \/ StartTls(c) \/ SaslBeforeTls(c)
  <2>1. Stays(c) /\ AuthUnmoved
      BY <1>2, PlainSteps
  <2>2. plan' = plan
      BY <1>2 DEF StreamStart, BreaksOff, StartTls, SaslBeforeTls
  <2> QED BY <2>1, <2>2 DEF AuthUnmoved, authVars, Stays
<1>3. ASSUME UNCHANGED authVars, plan' = plan, Gone(c)
      PROVE  Goal
  <2>1. stream' = [stream EXCEPT ![c] = Closed] /\ now' = now
      BY <1>3 DEF Gone, authVars
  <2>2. Closed \in StreamType /\ Closed.phase = "gone" /\ Closed.charge = NoToken
      BY AbsentFacts
  <2>3. stream' \in [Streams -> StreamType] /\ AuthUnmoved
      BY <1>3, <2>1, <2>2, GoneUnmoved
  <2> QED BY <1>3, <2>1, <2>3
<1>11. CASE Ended(c) \/ SocketCloses(c) \/ StartTlsRefused(c)
    BY <1>3, <1>11 DEF Ended, SocketCloses, StartTlsRefused, StartTlsFails
<1>4. CASE \/ AuthInterrupts(c)
           \/ \E mechanism \in plan.mechanisms, payload \in plan.payloads :
                  Authenticate(c, mechanism, payload)
           \/ \E payload \in plan.payloads : Response(c, payload)
  <2>1. plan.mechanisms \subseteq Mechanisms
      BY PlanFacts DEF AuthTypes
  <2>2. SignsIn(c)
      BY <1>4, <2>1, InterruptsSignsIn, ResponseSignsIn, AuthenticateSignsIn
  <2>3. plan' = plan
      BY <1>4 DEF AuthInterrupts, Authenticate, Response
  <2> QED BY <2>2, <2>3 DEF SignsIn, Stays
<1>5. CASE \E res \in plan.resources : Bind(c, res) \/ BindBehind(c, res)
  <2>1. PICK res \in plan.resources : Bind(c, res) \/ BindBehind(c, res)
      BY <1>5
  <2>2. res \in Resources /\ stream[c] \in StreamType
      BY <2>1, PlanFacts DEF AuthTypes
  <2>3. UNCHANGED authVars /\ plan' = plan
      BY <2>1 DEF Bind, BindBehind, StartTlsFails
  <2>4. CASE Bind(c, res)
    <3> DEFINE x == [stream[c] EXCEPT !.jid = res]
    <3>1. /\ x \in StreamType /\ x.initiations = stream[c].initiations
          /\ x.charge = stream[c].charge /\ x.phase = stream[c].phase
        BY <2>2 DEF StreamType
    <3>2. Bound(c, res, x) /\ Live(c)
        BY <2>4 DEF Bind, Reads
    <3> HIDE DEF x
    <3> QED BY <2>3, <3>1, <3>2, BindStreams DEF AuthUnmoved, authVars, Live
  <2>5. CASE BindBehind(c, res)
    <3>1. Bound(c, res, StrayHolder(res))
        BY <2>5 DEF BindBehind
    <3>2. /\ StrayHolder(res) \in StreamType /\ StrayHolder(res).phase = "stray"
          /\ StrayHolder(res).charge = NoToken
        BY <2>2, StrayFacts
    <3> QED BY <2>3, <3>1, <3>2, BindStreams DEF AuthUnmoved, authVars
  <2> QED BY <2>1, <2>4, <2>5
<1>6. ASSUME NEW r \in plan.rooms, NEW nick \in Nicks \cup {None},
             stream' = [stream EXCEPT ![c].nick[r] = nick], UNCHANGED authVars, plan' = plan
      PROVE  Goal
  <2>1. r \in Rooms
      BY PlanFacts DEF AuthTypes
  <2>2. SetsNick(c, r, nick)
      BY <1>6, <2>1, SetsNickFacts
  <2> QED BY <1>6, <2>2 DEF AuthUnmoved, authVars, SetsNick
<1>7. ASSUME UNCHANGED <<stream, authVars, plan>>
      PROVE  Goal
    BY <1>7 DEF AuthTypes, AuthUnmoved, authVars
<1>8. CASE \E to \in plan.resources \cup {"bare"} \cup plan.rooms :
               Message(c, to) \/ MessageBehind(c, to)
    BY <1>3, <1>7, <1>8 DEF Message, MessageBehind, Delivers, StartTlsFails
<1>9. CASE \E r \in plan.rooms, nick \in Nicks, password \in BOOLEAN :
               \/ Join(c, r, nick, password) \/ JoinRefused(c, r, nick, password)
               \/ JoinBehind(c, r, nick, password)
  <2>1. PICK r \in plan.rooms, nick \in Nicks, password \in BOOLEAN :
            \/ Join(c, r, nick, password) \/ JoinRefused(c, r, nick, password)
            \/ JoinBehind(c, r, nick, password)
      BY <1>9
  <2>2. CASE Join(c, r, nick, password)
      BY <1>6, <2>2 DEF Join
  <2>3. CASE JoinRefused(c, r, nick, password)
      BY <1>7, <2>3 DEF JoinRefused
  <2>4. CASE JoinBehind(c, r, nick, password)
    <3>1. /\ UNCHANGED authVars /\ plan' = plan
          /\ stream' = [stream EXCEPT ![c] = StrayOccupant(r, nick)]
        BY <2>4 DEF JoinBehind, StartTlsFails
    <3>2. /\ StrayOccupant(r, nick) \in StreamType /\ StrayOccupant(r, nick).phase = "stray"
          /\ StrayOccupant(r, nick).charge = NoToken
        BY PlanFacts, StrayFacts DEF AuthTypes
    <3>3. stream' \in [Streams -> StreamType] /\ AuthUnmoved
        BY <3>1, <3>2, GoneUnmoved
    <3> QED BY <3>1, <3>3 DEF authVars
  <2> QED BY <2>1, <2>2, <2>3, <2>4
<1>10. CASE \E r \in plan.rooms : LeaveRoom(c, r)
    BY <1>6, <1>10 DEF LeaveRoom
<1> QED
  <2> HIDE DEF Goal
  <2> QED BY <1>1, <1>2, <1>4, <1>5, <1>8, <1>9, <1>10, <1>11 DEF StreamStep, Goal

LEMMA NextKeepsLimit ==
    ASSUME AuthTypes, AuthInv, [Next]_vars
    PROVE  AuthTypes' /\ AuthInv' /\ plan' = plan
<1>1. ASSUME stream' \in [Streams -> StreamType], AuthUnmoved, plan' = plan
      PROVE  AuthTypes' /\ AuthInv'
    BY <1>1, UnmovedKeepsLimit DEF AuthTypes, AuthUnmoved, authVars
<1>2. ASSUME UNCHANGED <<stream, authVars, plan>>
      PROVE  AuthTypes' /\ AuthInv' /\ plan' = plan
  <2>1. AuthUnmoved /\ stream' \in [Streams -> StreamType] /\ plan' = plan
      BY <1>2 DEF AuthTypes, AuthUnmoved
  <2> QED BY <1>1, <2>1
<1>3. ASSUME NEW c \in Streams, StreamStep(c)
      PROVE  AuthTypes' /\ AuthInv' /\ plan' = plan
  <2>1. /\ plan' = plan /\ now' = now /\ stream' \in [Streams -> StreamType]
        /\ SignsIn(c) \/ AuthUnmoved
      BY <1>3, StreamStepCharges
  <2>2. CASE SignsIn(c)
      BY <2>1, <2>2 DEF SignsIn, AuthTypes
  <2> QED BY <1>1, <2>1, <2>2
<1>4. CASE \E r \in plan.rooms, nick \in Nicks : JoinRoomAsService(r, nick)
    BY <1>2, <1>4 DEF JoinRoomAsService
<1>5. CASE \E to \in plan.resources \cup {"bare", "everyone"} \cup plan.rooms : Publish(to)
    BY <1>2, <1>5 DEF Publish, Delivers
<1>6. CASE Tick
  <2>1. /\ plan' = plan /\ stream' = stream /\ attempts' = attempts /\ won' = won
        /\ now < plan.clock /\ now' = now + 1
      BY <1>6 DEF Tick
  <2>2. now \in Nat /\ plan.clock \in Nat
      BY PlanFacts DEF AuthTypes
  <2>3. now' \in 0 .. plan'.clock
      BY <2>1, <2>2
  <2>4. Limited(attempts', won', now')
      BY <2>1, <2>2, LaterLimited DEF AuthInv
  <2>5. AuthInv'
      BY <2>1, <2>4 DEF AuthInv, Spent
  <2> QED BY <2>1, <2>3, <2>5 DEF AuthTypes
<1>7. CASE Close
  <2>1. /\ UNCHANGED authVars /\ plan' = plan
        /\ stream' = [c \in Streams |-> IF c \in {d \in Streams : Live(d)}
                                        THEN Closed ELSE stream[c]]
      BY <1>7 DEF Close
  <2>2. stream' \in [Streams -> StreamType] /\ AuthUnmoved
      BY <2>1, GoingUnmoved
  <2> QED BY <1>1, <2>1, <2>2
<1>8. CASE UNCHANGED vars
    BY <1>2, <1>8 DEF vars
<1> QED BY <1>3, <1>4, <1>5, <1>6, <1>7, <1>8 DEF Next

LEMMA InitLimit ==
    ASSUME Init
    PROVE  AuthTypes /\ AuthInv
<1>1. plan \in Plans /\ plan.clock \in Nat
    BY PlanFacts DEF Init
<1>2. stream \in [Streams -> StreamType] /\ \A c \in Streams : stream[c].charge = NoToken
    BY AbsentFacts DEF Init
<1>3. attempts = <<>> /\ won = {} /\ now = 0
    BY DEF Init
<1>4. Limited(attempts, won, now)
  <2>1. attempts \in Seq(Entry) /\ DOMAIN attempts = {}
      BY <1>3
  <2>2. TokensOf(attempts) = {} /\ Fresh(attempts, now) = {}
      BY <2>1 DEF TokensOf, Fresh
  <2>3. IsFiniteSet({}) /\ Cardinality({}) = 0
      BY FS_EmptySet
  <2>4. Cardinality({}) <= MaxFailures
      BY <2>3, ConstantFacts
  <2> QED BY <2>1, <2>2, <2>3, <2>4 DEF Limited
<1>5. TokensOf(attempts) \cup won = {}
    BY <1>3 DEF TokensOf
<1> QED BY <1>1, <1>2, <1>3, <1>4, <1>5 DEF AuthTypes, AuthInv

LEMMA LimitShows ==
    ASSUME AuthTypes, AuthInv
    PROVE  OnlyFailuresAreCharged
<1> DEFINE W == {i \in DOMAIN attempts : now - attempts[i].at < WindowMs}
           entries == Pruned(attempts, now)
           F == {i \in DOMAIN entries : entries[i].token # NoToken}
           charged == Picked(entries, F)
           fresh == Fresh(attempts, now)
<1>1. attempts \in Seq(Entry) /\ now \in Nat /\ Limited(attempts, won, now)
    BY PlanFacts DEF AuthTypes, AuthInv
<1>2. /\ Limited(entries, won, now) /\ entries \in Seq(Entry)
      /\ \A i \in DOMAIN entries : \E k \in DOMAIN attempts : k \in W /\ entries[i] = attempts[k]
  <2>1. Limited(entries, won, now) /\ entries \in Seq(Entry)
      BY <1>1, PrunedLimited DEF Limited
  <2>2. entries = Picked(attempts, W)
      BY DEF Pruned
  <2> HIDE DEF entries, W
  <2> QED BY <1>1, <2>1, <2>2, PickedElements
<1>3. /\ charged \in Seq(Entry)
      /\ \A i \in DOMAIN charged : \E k \in DOMAIN entries : k \in F /\ charged[i] = entries[k]
      /\ \A i, j \in DOMAIN charged : i # j =>
             \E k \in DOMAIN entries : \E l \in DOMAIN entries :
                 k # l /\ k \in F /\ l \in F /\ charged[i] = entries[k] /\ charged[j] = entries[l]
    <2> HIDE DEF entries, F
    <2> QED BY <1>2, PickedElements
<1> HIDE DEF entries, charged
<1>4. \A i, j \in DOMAIN charged : charged[i].token = charged[j].token => i = j
    BY <1>2, <1>3 DEF Limited
<1>5. \A i \in DOMAIN charged : charged[i].token \notin won /\ charged[i].token \in fresh
  <2> SUFFICES ASSUME NEW i \in DOMAIN charged
               PROVE  charged[i].token \notin won /\ charged[i].token \in fresh
      OBVIOUS
  <2>1. PICK k \in DOMAIN entries : entries[k].token # NoToken /\ charged[i] = entries[k]
      BY <1>3
  <2>2. PICK m \in DOMAIN attempts : m \in W /\ entries[k] = attempts[m]
      BY <1>2
  <2>3. charged[i].token \in TokensOf(entries)
      BY <2>1 DEF TokensOf
  <2>4. charged[i].token \in fresh
      BY <2>1, <2>2 DEF Fresh
  <2> QED BY <1>2, <2>3, <2>4 DEF Limited
<1>6. Len(charged) <= MaxFailures
  <2> DEFINE f == [i \in 1 .. Len(charged) |-> charged[i].token]
  <2>1. Len(charged) \in Nat /\ DOMAIN charged = 1 .. Len(charged)
      BY <1>3
  <2>2. f \in Injection(1 .. Len(charged), fresh)
    <3> HIDE DEF fresh
    <3> QED BY <1>4, <1>5, <2>1 DEF Injection, IsInjective
  <2>3. IsFiniteSet(fresh) /\ Cardinality(fresh) <= MaxFailures /\ Cardinality(fresh) \in Nat
      BY <1>1, FS_CardinalityType DEF Limited
  <2> HIDE DEF f, fresh
  <2>4. Cardinality(1 .. Len(charged)) <= Cardinality(fresh)
      BY <2>2, <2>3, FS_Injection
  <2>5. Cardinality(1 .. Len(charged)) = Len(charged)
    <3>1. ASSUME NEW n \in Nat
          PROVE  Cardinality(1 .. n) = n
      <4>1. 1 \in Int /\ n \in Int
          OBVIOUS
      <4>2. Cardinality(1 .. n) = IF 1 > n THEN 0 ELSE n - 1 + 1
          BY <4>1, FS_Interval
      <4> QED BY <4>2
    <3> QED BY <2>1, <3>1
  <2> QED BY <2>1, <2>3, <2>4, <2>5, ConstantFacts
<1> QED BY <1>4, <1>5, <1>6 DEF OnlyFailuresAreCharged, entries, charged

\* The limiter remembers attempts that failed or were broken off, one entry for each,
\* and in a window no more of them than it allows; a stream that signed in is not
\* among them, however the exchanges of any number of streams interleave, are broken
\* off or are lost with their connection (xmpp-server-core.js _handleAuth and
\* _handleSaslResponse, and the limiter of xmpp-utils.js).
THEOREM FailuresAreWhatIsCharged == Spec => []OnlyFailuresAreCharged
<1>1. Init => AuthTypes /\ AuthInv
    BY InitLimit
<1>2. AuthTypes /\ AuthInv /\ [Next]_vars => (AuthTypes /\ AuthInv)'
    BY NextKeepsLimit
<1>3. AuthTypes /\ AuthInv => OnlyFailuresAreCharged
    BY LimitShows
<1> QED BY <1>1, <1>2, <1>3, PTL DEF Spec

-----------------------------------------------------------------------------
(* The registries agree.                                                   *)

LEMMA InvParts ==
    RegistryInv <=> HoldingInv /\ RoomsInv
    BY DEF RegistryInv, HoldingInv, RoomsInv

LEMMA StaysKeepsShapes ==
    ASSUME Types, RegistryInv, NEW c \in Streams, Stays(c), UNCHANGED <<bound, roomVars>>
    PROVE  RegistryInv' /\ RoomShapes' /\ bound' \in Seq(Holder)
<1>1. RegistryInv'
    BY StaysKeepsRegistries
<1> QED BY <1>1 DEF Types, AuthTypes, Stays, RoomShapes, roomVars

LEMMA GoneKeepsRegistries ==
    ASSUME Types, RegistryInv, NEW c \in Streams, Gone(c)
    PROVE  RegistryInv' /\ RoomShapes' /\ bound' \in Seq(Holder)
<1>1. HoldingInv /\ RoomsInv
    BY InvParts
<1>2. /\ stream' \in [Streams -> StreamType]
      /\ \A d \in Streams : d # c => stream'[d] = stream[d]
      /\ stream'[c].jid = None /\ \A r \in Rooms : stream'[c].nick[r] = None
    BY AbsentFacts DEF Gone, Types, AuthTypes
<1>3. RoomsInv' /\ RoomShapes'
    BY <1>1, <1>2, GoneKeepsRooms DEF Gone
<1>4. /\ bound' = BoundWithout({c})
      /\ \A d \in Streams \ {c} : stream'[d] = stream[d]
      /\ \A d \in Streams \cap {c} : stream'[d].jid = None
    BY <1>2 DEF Gone
<1>5. HoldingInv' /\ bound' \in Seq(Holder)
    BY <1>1, <1>4, GoingKeepsHolders
<1>6. RegistryInv'
    BY <1>3, <1>5 DEF RegistryInv, HoldingInv, RoomsInv
<1> QED BY <1>3, <1>5, <1>6

LEMMA JoinBehindKeepsRegistries ==
    ASSUME Types, RegistryInv, NEW c \in Streams, NEW r \in Rooms, NEW nick \in Nicks,
           NEW password, JoinBehind(c, r, nick, password)
    PROVE  RegistryInv' /\ RoomShapes' /\ bound' \in Seq(Holder)
<1>1. HoldingInv /\ RoomsInv
    BY InvParts
<1>2. RoomsInv' /\ RoomShapes'
    BY <1>1, JoinBehindKeepsRooms
<1>3. /\ bound' = BoundWithout({c})
      /\ \A d \in Streams \ {c} : stream'[d] = stream[d]
      /\ \A d \in Streams \cap {c} : stream'[d].jid = None
    BY StrayFacts DEF JoinBehind, Types, AuthTypes
<1>4. HoldingInv' /\ bound' \in Seq(Holder)
    BY <1>1, <1>3, GoingKeepsHolders
<1>5. RegistryInv'
    BY <1>2, <1>4 DEF RegistryInv, HoldingInv, RoomsInv
<1> QED BY <1>2, <1>4, <1>5

LEMMA AcceptKeepsRegistries ==
    ASSUME Types, RegistryInv, NEW c \in Streams, Accept(c)
    PROVE  RegistryInv' /\ RoomShapes' /\ bound' \in Seq(Holder)
<1>1. HoldingInv /\ RoomsInv
    BY InvParts
<1>2. /\ stream' \in [Streams -> StreamType]
      /\ \A d \in Streams : /\ d # c => stream'[d] = stream[d]
                            /\ stream'[d].jid = stream[d].jid
                            /\ stream'[d].nick = stream[d].nick
                            /\ stream'[d].ending = stream[d].ending
      /\ stream[c].phase = "absent" /\ stream'[c].phase = "open"
    BY AcceptedStays DEF Types
<1>3. bound' = bound /\ rooms' = rooms /\ roster' = roster
    BY DEF Accept, roomVars
<1>4. \A i \in DOMAIN bound : bound[i].stream \in Streams
    BY HoldersAreStreams
<1>5. \A d \in Streams : \A res : Holds(d, res) => HoldsThen(d, res)
    BY <1>3, HoldersAreStreams DEF HoldsThen
<1>6. OneHolder' /\ HoldersAreThere' /\ HoldersAreInOrder'
    BY <1>1, <1>2, <1>3, <1>4
       DEF HoldingInv, OneHolder, HoldersAreThere, HoldersAreInOrder, There, Live, Stray
<1>7. ASSUME NEW d \in Streams, stream'[d].phase = "open", stream'[d].jid # None
      PROVE  HoldsThen(d, stream'[d].jid) \/ stream'[d].ending
  <2>1. stream[c].jid = None
      BY <1>1, <1>2 DEF RoomsInv, OthersAreNowhere, There, Live, Stray
  <2>2. d # c /\ Live(d)
      BY <1>2, <1>7, <2>1 DEF Live
  <2> QED BY <1>1, <1>2, <1>5, <1>7, <2>2 DEF HoldingInv, ResourcesAreHeld
<1>8. ResourcesAreHeld'
    BY <1>7, ResourcesAreHeldThen
<1>9. OthersAreNowhere'
    BY <1>1, <1>2 DEF RoomsInv, OthersAreNowhere, There, Live, Stray
<1>10. ASSUME NEW r \in Rooms PROVE RoomAgrees(r)'
  <2>1. RoomAgrees(r) /\ None \notin Nicks
      BY <1>1, ConstantFacts DEF RoomsInv
  <2>2. stream[c].nick[r] = None
      BY <1>1, <1>2 DEF RoomsInv, OthersAreNowhere, There, Live, Stray
  <2>3. \A d \in Streams, n \in Nicks :
            Sits(rooms[r], d, n) <=>
                stream'[d].phase \in {"open", "stray"} /\ stream'[d].nick[r] = n
      BY <1>2, <2>1, <2>2 DEF RoomAgrees, There, Live, Stray
  <2>4. ~ Occupies(rooms[r], c)
      BY <1>1, <2>2, SeatFacts
  <2>5. /\ WellFormed(r, rooms[r]) /\ rooms'[r] = rooms[r]
        /\ \A d \in Streams : roster'[d][r] =
               IF stream'[d].phase = "open" /\ Occupies(rooms[r], d)
               THEN NickNames(rooms[r]) ELSE {}
      BY <1>2, <1>3, <2>1, <2>4 DEF RoomAgrees, Live
  <2> QED BY <2>3, <2>5, RoomAgreesThen
<1>11. RegistryInv'
    BY <1>6, <1>8, <1>9, <1>10 DEF RegistryInv
<1> QED BY <1>2, <1>3, <1>11 DEF Types, RoomShapes

LEMMA BindKeepsRegistries ==
    ASSUME Types, RegistryInv, NEW c \in Streams, NEW res \in Resources, Bind(c, res)
    PROVE  RegistryInv' /\ RoomShapes' /\ bound' \in Seq(Holder)
<1> DEFINE x == [stream[c] EXCEPT !.jid = res]
<1>1. HoldingInv /\ RoomsInv /\ Live(c) /\ stream[c].jid = None /\ Bound(c, res, x)
    BY InvParts DEF Bind, Reads, MayBind
<1>2. /\ x \in StreamType /\ x.phase = "open" /\ x.jid = res /\ x.nick = stream[c].nick
  <2>1. stream[c] \in StreamType
      BY DEF Types, AuthTypes
  <2> QED BY <1>1, <2>1 DEF StreamType, Live
<1> HIDE DEF x
<1>3. HoldingInv' /\ bound' \in Seq(Holder)
    BY <1>1, <1>2, BindKeepsHolders
<1>4. /\ stream' \in [Streams -> StreamType]
      /\ \A d \in Streams : /\ stream'[d].phase = stream[d].phase
                            /\ stream'[d].nick = stream[d].nick
                            /\ d # c => stream'[d].jid = stream[d].jid
    BY <1>1, <1>2, BindStreams DEF Types, Live
<1>5. rooms' = rooms /\ roster' = roster
    BY DEF Bind, roomVars
<1>6. OthersAreNowhere'
    BY <1>1, <1>4 DEF RoomsInv, OthersAreNowhere, There, Live, Stray
<1>7. ASSUME NEW r \in Rooms PROVE RoomAgrees(r)'
  <2>1. RoomUnmoved(r) /\ RoomAgrees(r)
      BY <1>1, <1>4, <1>5 DEF RoomUnmoved, RoomsInv
  <2> QED BY <2>1, UnmovedRoomAgrees
<1>8. RegistryInv'
    BY <1>3, <1>6, <1>7 DEF RegistryInv, HoldingInv
<1> QED BY <1>3, <1>4, <1>5, <1>8 DEF Types, RoomShapes

LEMMA BindBehindKeepsRegistries ==
    ASSUME Types, RegistryInv, NEW c \in Streams, NEW res \in Resources, BindBehind(c, res)
    PROVE  RegistryInv' /\ RoomShapes' /\ bound' \in Seq(Holder)
<1>1. /\ HoldingInv /\ RoomsInv /\ stream[c].jid = None
      /\ Bound(c, res, StrayHolder(res))
      /\ rooms' = RoomsAfter(c) /\ roster' = RosterAfter(c)
    BY InvParts DEF BindBehind, MayBind
<1>2. /\ StrayHolder(res) \in StreamType /\ StrayHolder(res).phase = "stray"
      /\ StrayHolder(res).jid = res
      /\ \A r \in Rooms : StrayHolder(res).nick[r] = None
    BY StrayFacts
<1>3. HoldingInv' /\ bound' \in Seq(Holder)
    BY <1>1, <1>2, BindKeepsHolders
<1>4. /\ stream' \in [Streams -> StreamType] /\ stream'[c] = StrayHolder(res)
      /\ \A d \in Streams : d # c => /\ stream'[d].phase = stream[d].phase
                                      /\ stream'[d].nick = stream[d].nick
                                      /\ stream'[d].jid = stream[d].jid
    BY <1>1, <1>2, BindStreams DEF Types
<1>5. RoomsInv' /\ RoomShapes'
    BY <1>1, <1>2, <1>4, GoneKeepsRooms
<1>6. RegistryInv'
    BY <1>3, <1>5 DEF RegistryInv, HoldingInv, RoomsInv
<1> QED BY <1>3, <1>5, <1>6

\* Steps of the rooms do not touch the resources.
LEMMA NickKeepsHolders ==
    ASSUME Types, HoldingInv, bound' = bound,
           \A d \in Streams : /\ stream'[d].phase = stream[d].phase
                              /\ stream'[d].jid = stream[d].jid
                              /\ stream'[d].ending = stream[d].ending
    PROVE  HoldingInv' /\ bound' \in Seq(Holder)
<1>1. \A i \in DOMAIN bound : bound[i].stream \in Streams
    BY HoldersAreStreams
<1>2. \A d \in Streams : \A res : Holds(d, res) => HoldsThen(d, res)
    BY HoldersAreStreams DEF HoldsThen
<1>3. OneHolder' /\ HoldersAreThere' /\ HoldersAreInOrder'
    BY <1>1 DEF HoldingInv, OneHolder, HoldersAreThere, HoldersAreInOrder, There, Live, Stray
<1>4. \A d \in Streams : stream'[d].phase = "open" /\ stream'[d].jid # None =>
          HoldsThen(d, stream'[d].jid) \/ stream'[d].ending
    BY <1>2 DEF HoldingInv, ResourcesAreHeld, Live
<1>5. ResourcesAreHeld'
    BY <1>4, ResourcesAreHeldThen
<1> QED BY <1>3, <1>5 DEF HoldingInv, Types

LEMMA CloseKeepsRegistries ==
    ASSUME Types, RegistryInv, Close
    PROVE  RegistryInv' /\ RoomShapes' /\ bound' \in Seq(Holder)
<1> DEFINE gone == {c \in Streams : Live(c)}
<1>1. HoldingInv /\ RoomsInv
    BY InvParts
<1>2. RoomsInv' /\ RoomShapes'
    BY <1>1, CloseKeepsRooms
<1>3. bound' = BoundWithout(gone)
    BY DEF Close
<1>4. ASSUME NEW c \in Streams
      PROVE  /\ c \notin gone => stream'[c] = stream[c]
             /\ c \in gone => stream'[c].jid = None
  <2>1. stream'[c] = IF Live(c) THEN Closed ELSE stream[c]
      BY DEF Close
  <2> QED BY <2>1, AbsentFacts
<1> HIDE DEF gone
<1>5. HoldingInv' /\ bound' \in Seq(Holder)
    BY <1>1, <1>3, <1>4, GoingKeepsHolders
<1>6. RegistryInv'
    BY <1>2, <1>5 DEF RegistryInv, HoldingInv, RoomsInv
<1> QED BY <1>2, <1>5, <1>6

LEMMA UnchangedRegistries ==
    ASSUME Types, RegistryInv, UNCHANGED <<stream, bound, roomVars>>
    PROVE  RegistryInv' /\ RoomShapes' /\ bound' \in Seq(Holder)
<1>1. HoldingInv /\ RoomsInv
    BY InvParts
<1>2. stream' = stream /\ bound' = bound /\ rooms' = rooms /\ roster' = roster
    BY DEF roomVars
<1>3. HoldingInv' /\ bound' \in Seq(Holder)
    BY <1>1, <1>2, NickKeepsHolders
<1>4. \A r \in Rooms : RoomAgrees(r)'
    BY <1>1, <1>2, UnmovedRoomAgrees DEF RoomUnmoved, RoomsInv
<1>5. OthersAreNowhere'
    BY <1>1, <1>2 DEF RoomsInv, OthersAreNowhere, There, Live, Stray
<1>6. RegistryInv'
    BY <1>3, <1>4, <1>5 DEF RegistryInv, HoldingInv
<1> QED BY <1>2, <1>3, <1>6 DEF Types, AuthTypes, RoomShapes

LEMMA StreamStepKeepsRegistries ==
    ASSUME Types, AuthInv, RegistryInv, NEW c \in Streams, StreamStep(c)
    PROVE  RegistryInv' /\ RoomShapes' /\ bound' \in Seq(Holder)
<1> DEFINE Goal == RegistryInv' /\ RoomShapes' /\ bound' \in Seq(Holder)
<1>1. HoldingInv /\ RoomsInv /\ AuthTypes
    BY InvParts DEF Types
<1>2. /\ plan.resources \subseteq Resources /\ plan.rooms \subseteq Rooms
      /\ plan.mechanisms \subseteq Mechanisms
    BY <1>1, PlanFacts DEF AuthTypes
<1>3. CASE StreamStart(c) \/ BreaksOff(c) \/ StartTls(c) \/ SaslBeforeTls(c)
    BY <1>1, <1>3, PlainSteps, StaysKeepsShapes
<1>4. CASE \/ AuthInterrupts(c)
           \/ \E mechanism \in plan.mechanisms, payload \in plan.payloads :
                  Authenticate(c, mechanism, payload)
           \/ \E payload \in plan.payloads : Response(c, payload)
  <2>1. SignsIn(c)
      BY <1>1, <1>2, <1>4, InterruptsSignsIn, ResponseSignsIn, AuthenticateSignsIn
  <2>2. UNCHANGED <<bound, roomVars>>
      BY <1>4 DEF AuthInterrupts, Authenticate, Response
  <2> QED BY <2>1, <2>2, StaysKeepsShapes DEF SignsIn
<1>5. CASE Ended(c) \/ SocketCloses(c) \/ StartTlsRefused(c)
  <2>1. Gone(c)
      BY <1>5 DEF Ended, SocketCloses, StartTlsRefused
  <2> QED BY <2>1, GoneKeepsRegistries
<1>6. CASE \E res \in plan.resources : Bind(c, res) \/ BindBehind(c, res)
    BY <1>2, <1>6, BindKeepsRegistries, BindBehindKeepsRegistries
<1>7. ASSUME NEW r \in Rooms, NEW nick, SetsNick(c, r, nick), bound' = bound,
             RoomsInv', RoomShapes'
      PROVE  Goal
  <2>1. HoldingInv' /\ bound' \in Seq(Holder)
      BY <1>1, <1>7, NickKeepsHolders DEF SetsNick
  <2>2. RegistryInv'
      BY <1>7, <2>1 DEF RegistryInv, HoldingInv, RoomsInv
  <2> QED BY <1>7, <2>1, <2>2
<1>8. CASE \E r \in plan.rooms, nick \in Nicks, password \in BOOLEAN :
               \/ Join(c, r, nick, password) \/ JoinRefused(c, r, nick, password)
               \/ JoinBehind(c, r, nick, password)
  <2>1. PICK r \in plan.rooms, nick \in Nicks, password \in BOOLEAN :
            \/ Join(c, r, nick, password) \/ JoinRefused(c, r, nick, password)
            \/ JoinBehind(c, r, nick, password)
      BY <1>8
  <2>2. CASE Join(c, r, nick, password)
    <3>1. r \in Rooms /\ bound' = bound
        BY <1>2, <2>2 DEF Join
    <3>2. RoomsInv' /\ RoomShapes' /\ SetsNick(c, r, nick)
        BY <1>1, <2>2, <3>1, JoinKeepsRooms
    <3> QED BY <1>7, <3>1, <3>2
  <2>3. CASE JoinRefused(c, r, nick, password)
      BY <2>3, UnchangedRegistries DEF JoinRefused
  <2>4. CASE JoinBehind(c, r, nick, password)
      BY <1>2, <2>4, JoinBehindKeepsRegistries
  <2> QED BY <2>1, <2>2, <2>3, <2>4
<1>9. CASE \E r \in plan.rooms : LeaveRoom(c, r)
  <2>1. PICK r \in plan.rooms : LeaveRoom(c, r)
      BY <1>9
  <2>2. r \in Rooms /\ bound' = bound
      BY <1>2, <2>1 DEF LeaveRoom
  <2>3. RoomsInv' /\ RoomShapes' /\ SetsNick(c, r, None)
      BY <1>1, <2>1, <2>2, LeaveRoomKeepsRooms
  <2> QED BY <1>7, <2>2, <2>3
<1>10. CASE \E to \in plan.resources \cup {"bare"} \cup plan.rooms :
                Message(c, to) \/ MessageBehind(c, to)
    BY <1>10, UnchangedRegistries, GoneKeepsRegistries DEF Message, MessageBehind, Delivers
<1>11. CASE Accept(c)
    BY <1>11, AcceptKeepsRegistries
<1> QED
  <2> HIDE DEF Goal
  <2> QED BY <1>3, <1>4, <1>5, <1>6, <1>8, <1>9, <1>10, <1>11 DEF StreamStep, Goal

\* The server's state and the faults counted.
LEMMA NextRest ==
    ASSUME Types, [Next]_vars
    PROVE  server' \in {"listening", "closed"} /\ faults' \in 0 .. plan.faults
<1> DEFINE Rest == server' \in {"listening", "closed"} /\ faults' \in 0 .. plan.faults
<1>1. server \in {"listening", "closed"} /\ faults \in 0 .. plan.faults /\ plan.faults \in Nat
    BY PlanFacts DEF Types, AuthTypes
<1>2. Fault => faults' \in 0 .. plan.faults
    BY <1>1 DEF Fault
<1>3. ASSUME server' = server, faults' = faults \/ Fault
      PROVE  Rest
    BY <1>1, <1>2, <1>3
<1>4. ASSUME NEW payload, Faulty(payload)
      PROVE  faults' = faults \/ Fault
    BY <1>4 DEF Faulty
<1>5. ASSUME NEW c \in Streams, StreamStep(c)
      PROVE  server' = server /\ (faults' = faults \/ Fault)
  <2>1. CASE \/ Accept(c) \/ StreamStart(c) \/ BreaksOff(c) \/ Ended(c) \/ SocketCloses(c)
             \/ StartTls(c) \/ SaslBeforeTls(c) \/ AuthInterrupts(c)
      BY <2>1 DEF Accept, StreamStart, BreaksOff, Ended, SocketCloses, StartTls, SaslBeforeTls,
                  AuthInterrupts
  <2>2. CASE StartTlsFails(c)
      BY <2>2 DEF StartTlsFails
  <2>3. ASSUME NEW mechanism, NEW payload, Authenticate(c, mechanism, payload)
        PROVE  server' = server /\ (faults' = faults \/ Fault)
    <3>1. server' = server /\ \E p : Faulty(p)
        BY <2>3 DEF Authenticate
    <3> QED BY <1>4, <3>1
  <2>4. ASSUME NEW payload, Response(c, payload)
        PROVE  server' = server /\ (faults' = faults \/ Fault)
    <3>1. server' = server /\ \E p : Faulty(p)
        BY <2>4 DEF Response
    <3> QED BY <1>4, <3>1
  <2>5. CASE \/ StartTlsRefused(c)
             \/ \E res \in plan.resources : Bind(c, res) \/ BindBehind(c, res)
             \/ \E to \in plan.resources \cup {"bare"} \cup plan.rooms :
                    Message(c, to) \/ MessageBehind(c, to)
             \/ \E r \in plan.rooms : LeaveRoom(c, r)
      BY <2>2, <2>5 DEF StartTlsRefused, Bind, BindBehind, Message, MessageBehind, Delivers,
                        LeaveRoom
  <2>6. CASE \E r \in plan.rooms, nick \in Nicks, password \in BOOLEAN :
                 \/ Join(c, r, nick, password) \/ JoinRefused(c, r, nick, password)
                 \/ JoinBehind(c, r, nick, password)
      BY <2>2, <2>6 DEF Join, JoinRefused, JoinBehind
  <2> QED BY <1>5, <2>1, <2>3, <2>4, <2>5, <2>6 DEF StreamStep
<1>6. ASSUME \/ \E r \in plan.rooms, nick \in Nicks : JoinRoomAsService(r, nick)
             \/ \E to \in plan.resources \cup {"bare", "everyone"} \cup plan.rooms : Publish(to)
             \/ Tick \/ UNCHANGED vars
      PROVE  Rest
  <2>1. server' = server /\ faults' = faults
      BY <1>6 DEF JoinRoomAsService, Publish, Delivers, Tick, vars
  <2> QED BY <1>3, <2>1
<1>7. ASSUME Close
      PROVE  Rest
    BY <1>1, <1>7 DEF Close
<1>8. ASSUME NEW c \in Streams, StreamStep(c)
      PROVE  Rest
    BY <1>3, <1>5, <1>8
<1> HIDE DEF Rest
<1>9. Rest
    BY <1>6, <1>7, <1>8 DEF Next
<1> QED BY <1>9 DEF Rest

LEMMA NextKeepsInv ==
    ASSUME Inv, [Next]_vars
    PROVE  Inv'
<1>1. Types /\ AuthTypes /\ AuthInv /\ RegistryInv /\ HoldingInv /\ RoomsInv
    BY InvParts DEF Inv, Types
<1>2. AuthTypes' /\ AuthInv' /\ plan' = plan
    BY <1>1, NextKeepsLimit
<1>3. server' \in {"listening", "closed"} /\ faults' \in 0 .. plan.faults
    BY <1>1, NextRest
<1>4. RegistryInv' /\ RoomShapes' /\ bound' \in Seq(Holder)
  <2>1. ASSUME NEW c \in Streams, StreamStep(c)
        PROVE  RegistryInv' /\ RoomShapes' /\ bound' \in Seq(Holder)
      BY <1>1, <2>1, StreamStepKeepsRegistries
  <2>2. CASE \E r \in plan.rooms, nick \in Nicks : JoinRoomAsService(r, nick)
    <3>1. PICK r \in plan.rooms, nick \in Nicks : JoinRoomAsService(r, nick)
        BY <2>2
    <3>2. r \in Rooms
        BY <1>1, PlanFacts DEF AuthTypes
    <3>3. RoomsInv' /\ RoomShapes'
        BY <1>1, <3>1, <3>2, ServiceKeepsRooms
    <3>4. HoldingInv' /\ bound' \in Seq(Holder)
        BY <1>1, <3>1, NickKeepsHolders DEF JoinRoomAsService
    <3>5. RegistryInv'
        BY <3>3, <3>4 DEF RegistryInv, HoldingInv, RoomsInv
    <3> QED BY <3>3, <3>4, <3>5
  <2>3. CASE \/ \E to \in plan.resources \cup {"bare", "everyone"} \cup plan.rooms : Publish(to)
             \/ Tick \/ UNCHANGED vars
    <3>1. UNCHANGED <<stream, bound, roomVars>>
        BY <2>3 DEF Publish, Delivers, Tick, vars
    <3> QED BY <1>1, <3>1, UnchangedRegistries
  <2>4. CASE Close
      BY <1>1, <2>4, CloseKeepsRegistries
  <2> QED BY <2>1, <2>2, <2>3, <2>4 DEF Next
<1>5. Types'
    BY <1>2, <1>3, <1>4 DEF Types, RoomShapes
<1> QED BY <1>2, <1>4, <1>5 DEF Inv

LEMMA InitInv ==
    ASSUME Init
    PROVE  Inv
<1>1. AuthTypes /\ AuthInv
    BY InitLimit
<1>2. /\ server = "listening" /\ bound = <<>> /\ faults = 0 /\ plan \in Plans
      /\ stream = [c \in Streams |-> Absent]
      /\ rooms = [r \in Rooms |-> {}]
      /\ roster = [c \in Streams |-> [r \in Rooms |-> {}]]
    BY DEF Init, NobodyIsThere
<1>3. Types
  <2>1. plan.faults \in Nat
      BY <1>2, PlanFacts
  <2> QED BY <1>1, <1>2, <2>1 DEF Types
<1>4. \A c \in Streams : /\ stream[c].phase = "absent" /\ stream[c].jid = None
                         /\ \A r \in Rooms : stream[c].nick[r] = None
    BY <1>2, AbsentFacts
<1>5. /\ OneHolder /\ HoldersAreThere /\ ResourcesAreHeld /\ HoldersAreInOrder
      /\ OthersAreNowhere
  <2>1. DOMAIN bound = {}
      BY <1>2
  <2> QED BY <1>4, <2>1 DEF OneHolder, HoldersAreThere, ResourcesAreHeld, HoldersAreInOrder,
                            OthersAreNowhere
<1>6. \A r \in Rooms : RoomAgrees(r)
    BY <1>2, <1>4 DEF RoomAgrees, WellFormed, Sits, Occupies, There, Live, Stray
<1> QED BY <1>1, <1>3, <1>5, <1>6 DEF Inv, RegistryInv

LEMMA InvShows ==
    ASSUME Inv
    PROVE  EveryoneAgrees
<1>1. Types /\ AuthTypes /\ RegistryInv /\ HoldingInv /\ RoomsInv
    BY InvParts DEF Inv, Types
<1>2. TypeOK
  <2>1. \A c \in Streams : DOMAIN roster[c] = Rooms
      BY <1>1 DEF Types
  <2>2. \A r \in Rooms : WellFormed(r, rooms[r])
      BY <1>1 DEF RoomsInv, RoomAgrees
  <2> QED BY <1>1, <2>1, <2>2 DEF TypeOK, Types, AuthTypes
<1>3. RegistriesAgree
  <2>1. \A r \in Rooms, c \in Streams, nick \in Nicks :
            (\E o \in rooms[r] : o.session = c /\ o.nick = nick)
              <=> There(c) /\ stream[c].nick[r] = nick
      BY <1>1 DEF RoomsInv, RoomAgrees, Sits
  <2> QED BY <1>1, <2>1
          DEF RegistriesAgree, HoldingInv, OneHolder, HoldersAreThere, ResourcesAreHeld
<1>4. RostersAgree
    BY <1>1, SeatFacts DEF RostersAgree, Members
<1> QED BY <1>2, <1>3, <1>4 DEF EveryoneAgrees

LEMMA Invariance == Spec => []Inv
<1>1. Init => Inv
    BY InitInv
<1>2. Inv /\ [Next]_vars => Inv'
    BY NextKeepsInv
<1> QED BY <1>1, <1>2, PTL DEF Spec

\* The server and everyone on it have one picture of who is there, in every order of
\* joins, renames, departures, replaced resources, lost connections and elements
\* sent behind a refused <starttls/> (xmpp-server-core.js _startTls, _bind, _joinRoom,
\* _leaveRoom, _cleanup and close with the occupants of xmpp-muc.js).  It is a
\* picture of live streams and of the strays such an element leaves, and shown to
\* everyone with them.
THEOREM OnePictureOfWhoIsThere == Spec => []EveryoneAgrees
<1>1. Inv => EveryoneAgrees
    BY InvShows
<1> QED BY <1>1, Invariance, PTL

-----------------------------------------------------------------------------
(* Who a message reaches.                                                  *)

\* Nothing but the message changes.
Standing == UNCHANGED <<stream, bound, roomVars>>

\* A stream that is live or a stray after the step.
IsThere(c) == stream'[c].phase \in {"open", "stray"}

LEMMA BroadcastReaches ==
    ASSUME Inv, Standing, NEW r \in Rooms, NEW from,
           delivery' = [from |-> from, to |-> r, reached |-> Broadcast(r, from)]
    PROVE  Addressed(delivery)'
<1>1. RoomsInv /\ Types
    BY InvParts DEF Inv
<1>2. /\ delivery'.from = from /\ delivery'.to = r
      /\ delivery'.reached = Broadcast(r, from)
    OBVIOUS
<1>3. r \notin Resources /\ r # "bare" /\ r # "everyone"
    BY ServerAssumption
<1>4. Members(rooms[r]) = {c \in Streams : roster[c][r] # {}}
  <2>1. \A c \in Streams : Occupies(rooms[r], c) => NickNames(rooms[r]) # {}
      BY DEF Occupies, NickNames
  <2>2. \A c \in Streams : c \in Members(rooms[r]) <=> roster[c][r] # {}
      BY <1>1, <2>1, SeatFacts
  <2>3. Members(rooms[r]) \subseteq Streams
      BY DEF Members
  <2> QED BY <2>2, <2>3
<1>5. Broadcast(r, from) \in {{}, Members(rooms[r])}
    BY DEF Broadcast
<1>6. from \in Members(rooms[r]) => from \in Broadcast(r, from)
    BY DEF Members, Broadcast
<1>7. /\ bound' = bound /\ rooms' = rooms /\ roster' = roster
      /\ \A c : There(c)' <=> There(c)
      /\ Members(rooms[r])' = Members(rooms[r])
    BY DEF Standing, roomVars, There, Live, Stray, Members, Occupies
<1>8. \A c \in Members(rooms[r]) : There(c)
    BY DEF Members, There
<1>9. \A c \in delivery'.reached : There(c)'
    BY <1>2, <1>5, <1>7, <1>8
<1>10. \/ delivery'.reached = {}
       \/ delivery'.reached = {c \in Streams : roster'[c][r] # {}}
    BY <1>2, <1>4, <1>5, <1>7
<1>11. from \in Members(rooms[r])' => from \in delivery'.reached
    BY <1>2, <1>6, <1>7
<1> HIDE DEF Inv
<1> QED BY <1>2, <1>3, <1>9, <1>10, <1>11 DEF Addressed

\* Whom the entries of bound name for a full JID, and for a bare one.
LEMMA RecipientFacts ==
    ASSUME NEW entries \in Seq(Holder), NEW to,
           \A i, j \in DOMAIN entries :
               i < j => entries[i].took \/ entries[i].stream \in entries[j].earlier
    PROVE  /\ to \in Resources =>
                  \A c : c \in Recipient(entries, to) <=>
                      \E i \in DOMAIN entries :
                          entries[i].resource = to /\ entries[i].stream = c
           /\ to \notin Resources =>
                  IF entries = <<>> THEN Recipient(entries, to) = {}
                  ELSE \E b \in Range(entries) :
                           /\ Recipient(entries, to) = {b.stream}
                           /\ \A other \in Range(entries) :
                                  other = b \/ other.stream \in b.earlier \/ other.took
<1>1. CASE to \in Resources
    BY <1>1 DEF Recipient, HoldersIn, Range
<1>2. CASE to \notin Resources /\ entries = <<>>
    BY <1>2 DEF Recipient
<1>3. CASE to \notin Resources /\ entries # <<>>
  <2> DEFINE n == Len(entries)
             b == entries[n]
  <2>1. /\ DOMAIN entries = 1 .. n /\ n \in Nat /\ n \in 1 .. n
        /\ \A i \in 1 .. n : i = n \/ i < n
      BY <1>3
  <2>2. Recipient(entries, to) = {b.stream} /\ b \in Range(entries)
      BY <1>3, <2>1 DEF Recipient, Range
  <2>3. ASSUME NEW other \in Range(entries)
        PROVE  other = b \/ other.stream \in b.earlier \/ other.took
    <3>1. PICK i \in 1 .. n : other = entries[i]
        BY <2>1 DEF Range
    <3> QED BY <2>1, <3>1
  <2> HIDE DEF b
  <2> QED BY <1>3, <2>2, <2>3
<1> QED BY <1>1, <1>2, <1>3

\* A message to a full or a bare JID, by the entries after the step.
LEMMA RecipientReaches ==
    ASSUME Inv', NEW to \in Resources \cup {"bare"}, NEW from,
           delivery' = [from |-> from, to |-> to, reached |-> Recipient(bound', to)]
    PROVE  Addressed(delivery)'
<1>1. /\ bound' \in Seq(Holder) /\ HoldersAreInOrder'
      /\ \A i \in DOMAIN bound' : IsThere(bound'[i].stream)
    BY DEF Inv, Types, RegistryInv, HoldersAreThere, There, Live, Stray, IsThere
<1>2. delivery'.to = to /\ delivery'.reached = Recipient(bound', to)
    OBVIOUS
<1>3. to \notin Rooms /\ to # "everyone" /\ "bare" \notin Resources
    BY ServerAssumption
<1>4. \A i \in DOMAIN bound' : bound'[i].stream \in Streams /\ IsThere(bound'[i].stream)
  <2>1. \A i \in DOMAIN bound' : bound'[i] \in Holder
      BY <1>1
  <2> QED BY <1>1, <2>1 DEF Holder
<1>5. \A i, j \in DOMAIN bound' :
          i < j => bound'[i].took \/ bound'[i].stream \in bound'[j].earlier
    BY <1>1 DEF HoldersAreInOrder
<1>6. CASE to \in Resources
  <2>1. \A c : c \in Recipient(bound', to) <=>
            \E i \in DOMAIN bound' : bound'[i].resource = to /\ bound'[i].stream = c
      BY <1>1, <1>5, <1>6, RecipientFacts
  <2>2. \A c : (\E b \in HolderOf(to)' : b.stream = c) <=>
            \E i \in DOMAIN bound' : bound'[i].resource = to /\ bound'[i].stream = c
      BY DEF HolderOf, HoldersIn, Range
  <2>3. Recipient(bound', to) = {c \in Streams : \E b \in HolderOf(to)' : b.stream = c}
      BY <1>4, <2>1, <2>2
  <2>4. \A c \in Recipient(bound', to) : IsThere(c)
      BY <1>4, <2>1
  <2>5. to # "bare"
      BY <1>3, <1>6
  <2> HIDE DEF Inv
  <2> QED BY <1>2, <1>3, <2>3, <2>4, <2>5 DEF Addressed, Holds, IsThere, There, Live, Stray
<1>7. CASE to = "bare"
  <2>1. IF bound' = <<>> THEN Recipient(bound', to) = {}
        ELSE \E b \in Range(bound') :
                 /\ Recipient(bound', to) = {b.stream}
                 /\ \A other \in Range(bound') :
                        other = b \/ other.stream \in b.earlier \/ other.took
    <3>1. to \notin Resources
        BY <1>3, <1>7
    <3> QED BY <1>1, <1>5, <3>1, RecipientFacts
  <2>2. \A b \in Range(bound') : IsThere(b.stream)
      BY <1>4 DEF Range
  <2>3. \A c \in Recipient(bound', to) : IsThere(c)
      BY <2>1, <2>2
  <2> HIDE DEF Inv
  <2> QED BY <1>2, <1>3, <1>7, <2>1, <2>3 DEF Addressed, IsThere, There, Live, Stray
<1> QED BY <1>6, <1>7

LEMMA EveryoneReaches ==
    ASSUME Inv', NEW from,
           delivery' = [from |-> from, to |-> "everyone",
                        reached |-> {b.stream : b \in Range(bound')}]
    PROVE  Addressed(delivery)'
<1> DEFINE reached == {b.stream : b \in Range(bound')}
<1>1. delivery'.to = "everyone" /\ delivery'.reached = reached
    OBVIOUS
<1>2. "everyone" \notin Rooms \cup Resources
    BY ServerAssumption
<1>3. \A c : c \in reached <=> \E i \in DOMAIN bound' : bound'[i].stream = c
    BY DEF Range
<1>4. \A i \in DOMAIN bound' : /\ bound'[i].stream \in Streams /\ IsThere(bound'[i].stream)
                               /\ bound'[i].resource \in Resources
  <2>1. bound' \in Seq(Holder) /\ \A i \in DOMAIN bound' : IsThere(bound'[i].stream)
      BY DEF Inv, Types, RegistryInv, HoldersAreThere, There, Live, Stray, IsThere
  <2>2. \A i \in DOMAIN bound' : bound'[i] \in Holder
      BY <2>1
  <2> QED BY <2>1, <2>2 DEF Holder
<1> HIDE DEF reached
<1>5. \A c, res : (\E b \in HolderOf(res)' : b.stream = c) <=>
          \E i \in DOMAIN bound' : bound'[i].resource = res /\ bound'[i].stream = c
    BY DEF HolderOf, HoldersIn, Range
<1>6. reached = {c \in Streams : \E res \in Resources : \E b \in HolderOf(res)' : b.stream = c}
  <2> DEFINE held == {c \in Streams : \E res \in Resources : \E b \in HolderOf(res)' : b.stream = c}
  <2>1. \A c : c \in held <=> \E i \in DOMAIN bound' : bound'[i].stream = c
    <3>1. \A c : c \in held <=>
              c \in Streams /\ \E res \in Resources : \E b \in HolderOf(res)' : b.stream = c
        OBVIOUS
    <3> HIDE DEF held
    <3>2. ASSUME NEW c, c \in held PROVE \E i \in DOMAIN bound' : bound'[i].stream = c
        BY <1>5, <3>1, <3>2
    <3>3. ASSUME NEW i \in DOMAIN bound', NEW res, res = bound'[i].resource
          PROVE  bound'[i].stream \in held
      <4>1. \E b \in HolderOf(res)' : b.stream = bound'[i].stream
          BY <1>5, <3>3
      <4> QED BY <1>4, <3>1, <3>3, <4>1
    <3> QED BY <3>2, <3>3
  <2> HIDE DEF held
  <2>2. reached = held
      BY <1>3, <2>1
  <2> QED BY <2>2 DEF held
<1>7. \A c \in reached : IsThere(c)
    BY <1>3, <1>4
<1> HIDE DEF Inv
<1> QED BY <1>1, <1>2, <1>6, <1>7 DEF Addressed, Holds, IsThere, There, Live, Stray

\* A message behind a refused <starttls/> to a room comes from outside it.
LEMMA OutsiderReachesNobody ==
    ASSUME NEW r \in Rooms, NEW c, ~ Live(c)',
           delivery' = [from |-> c, to |-> r, reached |-> {}]
    PROVE  Addressed(delivery)'
<1>1. delivery'.from = c /\ delivery'.to = r /\ delivery'.reached = {}
    OBVIOUS
<1>2. r \notin Resources /\ r # "bare" /\ r # "everyone"
    BY ServerAssumption
<1>3. c \notin Members(rooms[r])'
    BY DEF Members
<1> QED BY <1>1, <1>2, <1>3 DEF Addressed

LEMMA StepDelivers ==
    ASSUME Inv, Inv', [Next]_vars, delivery # delivery'
    PROVE  Addressed(delivery)'
<1>1. /\ plan.resources \subseteq Resources /\ plan.rooms \subseteq Rooms
      /\ stream \in [Streams -> StreamType]
    BY PlanFacts DEF Inv, Types, AuthTypes
<1>2. ASSUME NEW c \in Streams, StreamStep(c)
      PROVE  \E to \in plan.resources \cup {"bare"} \cup plan.rooms :
                 Message(c, to) \/ MessageBehind(c, to)
  <2>1. ~ (\/ Accept(c) \/ StreamStart(c) \/ BreaksOff(c) \/ Ended(c) \/ SocketCloses(c)
           \/ StartTls(c) \/ StartTlsRefused(c) \/ SaslBeforeTls(c) \/ AuthInterrupts(c))
      BY DEF Accept, StreamStart, BreaksOff, Ended, SocketCloses, StartTls, StartTlsRefused,
             SaslBeforeTls, AuthInterrupts
  <2>2. ~ \E mechanism \in plan.mechanisms, payload \in plan.payloads :
              Authenticate(c, mechanism, payload)
      BY DEF Authenticate
  <2>3. ~ \E payload \in plan.payloads : Response(c, payload)
      BY DEF Response
  <2>4. ~ (\/ \E res \in plan.resources : Bind(c, res) \/ BindBehind(c, res)
           \/ \E r \in plan.rooms : LeaveRoom(c, r))
      BY DEF Bind, BindBehind, Bound, LeaveRoom
  <2>5. ~ \E r \in plan.rooms, nick \in Nicks, password \in BOOLEAN :
              \/ Join(c, r, nick, password) \/ JoinRefused(c, r, nick, password)
              \/ JoinBehind(c, r, nick, password)
      BY DEF Join, JoinRefused, JoinBehind
  <2> QED BY <1>2, <2>1, <2>2, <2>3, <2>4, <2>5 DEF StreamStep
<1>3. ASSUME NEW c \in Streams, NEW to \in plan.resources \cup {"bare"} \cup plan.rooms,
             Message(c, to)
      PROVE  Addressed(delivery)'
  <2>1. /\ Standing
        /\ delivery' = [from |-> c, to |-> to, reached |->
                           IF to \in Rooms THEN Broadcast(to, c) ELSE Recipient(bound, to)]
      BY <1>3 DEF Message, Delivers, Handed, Standing
  <2>2. CASE to \in Rooms
      BY <2>1, <2>2, BroadcastReaches
  <2>3. CASE to \notin Rooms
    <3>1. to \in Resources \cup {"bare"}
        BY <1>1, <2>3
    <3>2. delivery' = [from |-> c, to |-> to, reached |-> Recipient(bound', to)]
        BY <2>1, <2>3 DEF Standing
    <3> QED BY <3>1, <3>2, RecipientReaches
  <2> QED BY <2>2, <2>3
<1>4. ASSUME NEW c \in Streams, NEW to \in plan.resources \cup {"bare"} \cup plan.rooms,
             MessageBehind(c, to)
      PROVE  Addressed(delivery)'
  <2>1. /\ delivery' = [from |-> c, to |-> to, reached |->
                           IF to \in Rooms THEN {} ELSE Recipient(bound', to)]
        /\ stream' = [stream EXCEPT ![c] = Closed]
      BY <1>4 DEF MessageBehind, Handed, Gone
  <2>2. CASE to \in Rooms
    <3>1. ~ Live(c)'
        BY <1>1, <2>1, AbsentFacts DEF Live
    <3>2. delivery' = [from |-> c, to |-> to, reached |-> {}]
        BY <2>1, <2>2
    <3> QED BY <2>2, <3>1, <3>2, OutsiderReachesNobody
  <2>3. CASE to \notin Rooms
    <3>1. to \in Resources \cup {"bare"}
        BY <1>1, <2>3
    <3>2. delivery' = [from |-> c, to |-> to, reached |-> Recipient(bound', to)]
        BY <2>1, <2>3
    <3> QED BY <3>1, <3>2, RecipientReaches
  <2> QED BY <2>2, <2>3
<1>5. ASSUME NEW to \in plan.resources \cup {"bare", "everyone"} \cup plan.rooms, Publish(to)
      PROVE  Addressed(delivery)'
  <2>1. /\ Standing
        /\ delivery' = [from |-> Service, to |-> to, reached |->
                           IF to \in Rooms THEN Broadcast(to, Service)
                           ELSE IF to = "everyone" THEN {b.stream : b \in Range(bound)}
                           ELSE Recipient(bound, to)]
      BY <1>5 DEF Publish, Delivers, Handed, Standing
  <2>2. CASE to \in Rooms
      BY <2>1, <2>2, BroadcastReaches
  <2>3. CASE to \notin Rooms /\ to = "everyone"
    <3>1. delivery' = [from |-> Service, to |-> "everyone",
                       reached |-> {b.stream : b \in Range(bound')}]
        BY <2>1, <2>3 DEF Standing
    <3> QED BY <3>1, EveryoneReaches
  <2>4. CASE to \notin Rooms /\ to # "everyone"
    <3>1. to \in Resources \cup {"bare"}
        BY <1>1, <2>4
    <3>2. delivery' = [from |-> Service, to |-> to, reached |-> Recipient(bound', to)]
        BY <2>1, <2>4 DEF Standing
    <3> QED BY <3>1, <3>2, RecipientReaches
  <2> QED BY <2>2, <2>3, <2>4
<1>6. ~ (\/ \E r \in plan.rooms, nick \in Nicks : JoinRoomAsService(r, nick)
         \/ Tick \/ Close \/ UNCHANGED vars)
    BY DEF JoinRoomAsService, Tick, Close, vars
<1> QED BY <1>2, <1>3, <1>4, <1>5, <1>6 DEF Next

\* A message reaches the streams it is addressed to, whoever has bound, joined, been
\* replaced or been lost before it, and a bare JID the one bound last, but for those
\* that took a resource over (xmpp-server-core.js _findRecipient, _handleMessage,
\* _sendMucMessage and sendServiceMessage).
THEOREM MessagesReachTheAddressed == Spec => DeliversToTheAddressed
<1>1. Inv /\ Inv' /\ [Next]_vars => [delivery # delivery' => Addressed(delivery)']_vars
    BY StepDelivers
<1> QED BY <1>1, Invariance, PTL DEF Spec, DeliversToTheAddressed
=============================================================================
