----------------------------- MODULE PartyProofs -----------------------------
(***************************************************************************)
(* Type correctness of Party, and that who shares experience is within the *)
(* range of levels, for any players, parties, levels, bounds and setups.   *)
(*                                                                         *)
(* That range is not looked at anew by every handler: the char-server goes *)
(* by the least and the greatest level it noted (Bounded), and that they   *)
(* still are those of who is online is what has to be shown of each.       *)
(***************************************************************************)
EXTENDS Party, FoldTheorems

\* What the map-server has.  Who is in the game, or waits to be saved, has a level.
Data == [online : BOOLEAN, party : PartyId \union {0}, creating : BOOLEAN, joining : BOOLEAN,
         invite : PartyId \union {0}, waiting : BOOLEAN, lv : Level \union {0}]
Sd == {r \in Data : r.online \/ r.waiting => r.lv \in Level}
ShownSlots == [Place -> [p : Player \union {0}, online : BOOLEAN, leader : BOOLEAN]]
Copy == {c \in [loaded : BOOLEAN, slots : ShownSlots, data : SUBSET Place, exp : BOOLEAN] :
            \A s \in c.data : c.slots[s].p # 0}

\* What the char-server has.
Slots == [Place -> Member \union {NoMember}]
Pt == [loaded : BOOLEAN, slots : Slots, exp : BOOLEAN, min : Int, max : Int]
Row == [exists : BOOLEAN, exp : BOOLEAN, leader : Player \union {0}]
Char == [party : PartyId \union {0}, lv : Level]

\* Messages, by direction.
ToChar == [type : {"create"}, p : Player, lv : Level]
          \union [type : {"info", "leave", "leader"}, id : PartyId, p : Player]
          \union [type : {"add"}, id : PartyId, p : Player, lv : Level]
          \union [type : {"option"}, id : PartyId, exp : BOOLEAN]
          \union [type : {"move"}, id : PartyId, p : Player, online : BOOLEAN, lv : Level]
          \union [type : {"char"}, p : Player, party : PartyId \union {0}, lv : Level, quits : BOOLEAN]
ToMap == [type : {"created"}, p : Player, id : PartyId \union {0}]
         \union [type : {"noinfo", "withdraw"}, id : PartyId, p : Player]
         \union [type : {"info"}, id : PartyId, slots : ShownSlots, exp : BOOLEAN, p : Player \union {0}]
         \union [type : {"added"}, id : PartyId, p : Player, ok : BOOLEAN]
         \union [type : {"option"}, id : PartyId, exp : BOOLEAN, denied : BOOLEAN]
         \union [type : {"broken"}, id : PartyId]
         \union [type : {"moved"}, id : PartyId, p : Player, online : BOOLEAN]
         \union [type : {"enter"}, p : Player, party : PartyId \union {0}, lv : Level]
         \union [type : {"charSaved"}, p : Player]

-----------------------------------------------------------------------------
(* The inductive invariant. *)

MapTyped == sd \in [Player -> Sd] /\ local \in [PartyId -> Copy]
CharTyped ==
    /\ mem \in [PartyId -> Pt] /\ row \in [PartyId -> Row] /\ chars \in [Player -> Char]
    /\ \A id \in PartyId : mem[id].loaded => row[id].exists
    /\ playing \subseteq Player
LinkTyped ==
    /\ up \in BOOLEAN /\ losses \in 0..MaxLosses
    /\ toChar \in Seq(ToChar) /\ toMap \in Seq(ToMap)
    /\ ~up => toChar = << >> /\ toMap = << >>
Typed ==
    /\ MapTyped /\ CharTyped /\ LinkTyped
    /\ cached \in [Player -> PartyId \union {0, NotCached}]
    /\ gone \subseteq Player /\ slips \subseteq Slip

\* The range noted is that of who is online, and who shares is within it.
LevelOf(pt, s) == pt.slots[s].lv
Bounded(pt) ==
    /\ OnlineIn(pt) = {} => pt.min = Max(Level) + 1 /\ pt.max = 0
    /\ OnlineIn(pt) # {} => /\ \E s \in OnlineIn(pt) : LevelOf(pt, s) = pt.min
                            /\ \E s \in OnlineIn(pt) : LevelOf(pt, s) = pt.max
    /\ \A s \in OnlineIn(pt) : pt.min <= LevelOf(pt, s) /\ LevelOf(pt, s) <= pt.max
Shares(pt) == pt.exp => pt.loaded /\ pt.max - pt.min <= ShareLevel
Right(pt) == Shares(pt) /\ (pt.loaded => Bounded(pt))

IInv == Typed /\ ("leapt" \notin slips => \A id \in PartyId : Right(mem[id]))

\* The type invariant the runs check is part of it.
LEMMA TypedIsTypeOK == Typed => TypeOK
<1> SUFFICES ASSUME Typed PROVE TypeOK
  OBVIOUS
<1>1. sd \in [Player -> Data]
  BY DEF Typed, MapTyped, Sd
<1>2. ASSUME NEW id \in PartyId
      PROVE  /\ \A s \in Place : mem[id].slots[s] \in Member \union {NoMember}
             /\ mem[id].loaded => row[id].exists
             /\ local[id].data \subseteq {s \in Place : local[id].slots[s].p # 0}
             /\ Members(local[id].slots) \subseteq Player
  <2>1. mem[id] \in Pt /\ local[id] \in Copy
    BY DEF Typed, MapTyped, CharTyped
  <2>2. \A s \in Place : mem[id].slots[s] \in Member \union {NoMember}
    BY <2>1 DEF Pt, Slots
  <2>3. local[id].slots \in ShownSlots
    BY <2>1 DEF Copy
  <2>4. Members(local[id].slots) \subseteq Player
    BY <2>3 DEF Members, ShownSlots
  <2> QED BY <2>1, <2>2, <2>4 DEF Copy, Typed, CharTyped
<1> QED BY <1>1, <1>2 DEF TypeOK, Typed, CharTyped, LinkTyped, Char, Data

-----------------------------------------------------------------------------
(* The range of levels. *)

LEMMA PlaceIs ==
    /\ IsFiniteSet(Place) /\ Place \subseteq Nat /\ Place # {}
    /\ 0 \notin Player /\ 0 \notin PartyId /\ 0 \notin Level
    /\ Level \subseteq Int /\ Player \subseteq Nat /\ ShareLevel \in Nat
    /\ Max(Level) \in Nat /\ Max(Level) \in Level /\ \A l \in Level : l <= Max(Level)
<1>1. IsFiniteSet(Place)
  BY FS_Interval, LevelAssumption DEF Place
<1>2. Max(Level) \in Level /\ \A l \in Level : l <= Max(Level)
  BY MaxIs, LevelAssumption
<1>3. Max(Level) \in Nat
  <2>1. Max(Level) \in Level
    BY <1>2
  <2> DEFINE top == Max(Level)
  <2> HIDE DEF top
  <2> QED BY <2>1, LevelAssumption DEF top
<1> QED BY <1>1, <1>2, <1>3, LevelAssumption, PlayerAssumption DEF Place

LEMMA OnlineIs ==
    ASSUME NEW pt \in Pt
    PROVE  /\ IsFiniteSet(OnlineIn(pt)) /\ Cardinality(OnlineIn(pt)) \in Nat
           /\ OnlineIn(pt) \subseteq Place
           /\ \A s \in OnlineIn(pt) : /\ LevelOf(pt, s) \in Level /\ pt.slots[s].p \in Player
                                      /\ pt.slots[s].online
           /\ \A s \in Place : pt.slots[s].online => s \in OnlineIn(pt)
<1>1. OnlineIn(pt) \subseteq Place
  BY DEF OnlineIn
<1>2. IsFiniteSet(OnlineIn(pt)) /\ Cardinality(OnlineIn(pt)) \in Nat
  BY <1>1, PlaceIs, FS_Subset, FS_CardinalityType
<1>3. \A s \in Place : pt.slots[s] \in Member \union {NoMember}
  BY DEF Pt, Slots
<1>4. \A s \in Place : pt.slots[s].p # 0 =>
         pt.slots[s].p \in Player /\ pt.slots[s].lv \in Level
  BY <1>3 DEF Member, NoMember
<1>5. \A s \in Place : pt.slots[s].online => pt.slots[s].p # 0
  BY <1>3, PlaceIs DEF Member, NoMember
<1> QED BY <1>1, <1>2, <1>4, <1>5 DEF OnlineIn, LevelOf

\* Of less than two there is no range.
LEMMA FewAreInRange ==
    ASSUME NEW pt \in Pt, Bounded(pt), CheckExpShare(pt)
    PROVE  pt.max - pt.min <= ShareLevel
<1>0. pt.max \in Int /\ pt.min \in Int /\ ShareLevel \in Nat
  BY PlaceIs DEF Pt
<1>1. CASE Cardinality(OnlineIn(pt)) < 2
  <2>1. CASE OnlineIn(pt) = {}
    <3>1. pt.min = Max(Level) + 1 /\ pt.max = 0 /\ Max(Level) \in Nat
      BY <2>1, PlaceIs, LevelAssumption DEF Bounded
    <3> QED BY <3>1, <1>0
  <2>2. CASE OnlineIn(pt) # {}
    <3>1. Cardinality(OnlineIn(pt)) # 0 /\ Cardinality(OnlineIn(pt)) \in Nat
      BY <2>2, OnlineIs, FS_EmptySet
    <3>2. Cardinality(OnlineIn(pt)) = 1
      BY <1>1, <3>1
    <3>3. PICK s : OnlineIn(pt) = {s}
      BY <3>2, OnlineIs, FS_Singleton
    <3>4. pt.min = pt.max
      BY <2>2, <3>3 DEF Bounded
    <3> QED BY <3>4, <1>0
  <2> QED BY <2>1, <2>2
<1> QED BY <1>1 DEF CheckExpShare

LEMMA CheckLvIs ==
    ASSUME NEW pt \in Pt
    PROVE  /\ CheckLv(pt) \in Pt /\ CheckLv(pt).slots = pt.slots
           /\ CheckLv(pt).loaded = pt.loaded /\ (CheckLv(pt).exp => pt.exp)
           /\ pt.loaded => Right(CheckLv(pt))
<1> DEFINE levels == {pt.slots[s].lv : s \in OnlineIn(pt)}
           lo == IF levels = {} THEN Max(Level) + 1 ELSE Min(levels)
           hi == IF levels = {} THEN 0 ELSE Max(levels)
           r == [pt EXCEPT !.min = lo, !.max = hi]
           n == CheckLv(pt)
<1>1. levels \subseteq Level /\ IsFiniteSet(levels)
  BY OnlineIs, FS_Subset, LevelAssumption DEF LevelOf
<1>2. levels # {} => /\ Min(levels) \in levels /\ \A l \in levels : Min(levels) <= l
                     /\ Max(levels) \in levels /\ \A l \in levels : l <= Max(levels)
  <2> HIDE DEF levels
  <2>1. levels \in SUBSET Nat /\ levels \in SUBSET Int
    BY <1>1, LevelAssumption
  <2> QED BY <2>1, <1>1, MaxIs, MinIs
<1>3. /\ r \in Pt /\ r.slots = pt.slots /\ r.loaded = pt.loaded /\ r.exp = pt.exp
      /\ r.min = lo /\ r.max = hi
  <2>1. lo \in Int /\ hi \in Int
    <3>1. Max(Level) \in Int /\ Max(Level) + 1 \in Int
      BY PlaceIs
    <3>2. levels # {} => Min(levels) \in Int /\ Max(levels) \in Int
      <4> HIDE DEF levels
      <4> QED BY <1>1, <1>2, PlaceIs
    <3> HIDE DEF levels
    <3> QED BY <3>1, <3>2
  <2> HIDE DEF lo, hi
  <2> QED BY <2>1 DEF Pt
<1>4. n = [r EXCEPT !.exp = @ /\ CheckExpShare(r)]
  BY DEF CheckLv
<1>5. OnlineIn(r) = OnlineIn(pt) /\ \A s : LevelOf(r, s) = pt.slots[s].lv
  BY <1>3 DEF OnlineIn, LevelOf
<1>6. Bounded(r)
  <2>1. levels = {} <=> OnlineIn(r) = {}
    BY <1>5
  <2>2. \A s \in OnlineIn(r) : LevelOf(r, s) \in levels
    BY <1>5
  <2>3. \A l \in levels : \E s \in OnlineIn(r) : LevelOf(r, s) = l
    BY <1>5
  <2> HIDE DEF levels, r
  <2> QED BY <1>2, <1>3, <2>1, <2>2, <2>3 DEF Bounded
<1> HIDE DEF r, levels
<1>7. /\ n \in Pt /\ n.slots = r.slots /\ n.loaded = r.loaded /\ n.min = r.min /\ n.max = r.max
      /\ n.exp = (r.exp /\ CheckExpShare(r))
  <2>1. CheckExpShare(r) \in BOOLEAN
    BY DEF CheckExpShare
  <2> QED BY <1>3, <1>4, <2>1 DEF Pt
<1> HIDE DEF n
<1>8. Bounded(n)
  BY <1>6, <1>7 DEF Bounded, OnlineIn, LevelOf
<1>9. n.exp => n.max - n.min <= ShareLevel
  BY <1>3, <1>6, <1>7, FewAreInRange
<1> QED BY <1>3, <1>7, <1>8, <1>9 DEF Right, Shares, n

-----------------------------------------------------------------------------
(* The functions of the char-server. *)

CState == {c \in [mem : [PartyId -> Pt], row : [PartyId -> Row], chars : [Player -> Char],
                  online : SUBSET Player, out : Seq(ToMap)] :
              \A id \in PartyId : c.mem[id].loaded => c.row[id].exists}
Rights(c) == \A id \in PartyId : Right(c.mem[id])

\* d is what became of c, and is as right.
Follows(d, c) == d \in CState /\ (Rights(c) => Rights(d))

LEMMA TellIs ==
    ASSUME NEW c \in CState, NEW msg \in ToMap
    PROVE  Follows(Tell(c, msg), c) /\ Tell(c, msg) = [c EXCEPT !.out = Append(@, msg)]
<1> DEFINE d == [c EXCEPT !.out = Append(@, msg)]
<1>1. Tell(c, msg) = d
  BY DEF Tell
<1>2. c \in [mem : [PartyId -> Pt], row : [PartyId -> Row], chars : [Player -> Char],
             online : SUBSET Player, out : Seq(ToMap)]
      /\ \A id \in PartyId : c.mem[id].loaded => c.row[id].exists
  BY DEF CState
<1>3. Append(c.out, msg) \in Seq(ToMap)
  BY <1>2
<1>4. d \in [mem : [PartyId -> Pt], row : [PartyId -> Row], chars : [Player -> Char],
             online : SUBSET Player, out : Seq(ToMap)]
      /\ d.mem = c.mem /\ d.row = c.row
  BY <1>2, <1>3
<1> HIDE DEF d
<1> QED BY <1>1, <1>2, <1>4 DEF Follows, CState, Rights, d

LEMMA FollowsTwice ==
    ASSUME NEW c, NEW d, NEW e, Follows(d, c), Follows(e, d)
    PROVE  Follows(e, c)
BY DEF Follows

\* The memory of one party is written.
LEMMA WrittenIs ==
    ASSUME NEW c \in CState, NEW id \in PartyId, NEW pt \in Pt, pt.loaded => c.row[id].exists
    PROVE  /\ [c EXCEPT !.mem[id] = pt] \in CState
           /\ Rights(c) /\ Right(pt) => Rights([c EXCEPT !.mem[id] = pt])
           /\ [c EXCEPT !.mem[id] = pt].mem[id] = pt
           /\ [c EXCEPT !.mem[id] = pt].row = c.row /\ [c EXCEPT !.mem[id] = pt].chars = c.chars
<1> DEFINE d == [c EXCEPT !.mem[id] = pt]
<1>1. /\ d \in [mem : [PartyId -> Pt], row : [PartyId -> Row], chars : [Player -> Char],
                online : SUBSET Player, out : Seq(ToMap)]
      /\ d.mem = [c.mem EXCEPT ![id] = pt] /\ d.row = c.row /\ d.chars = c.chars
  BY DEF CState
<1>2. /\ c.mem \in [PartyId -> Pt] /\ \A i \in PartyId : c.mem[i].loaded => c.row[i].exists
  BY DEF CState
<1> HIDE DEF d
<1>3. d \in CState
  BY <1>1, <1>2 DEF CState
<1>4. Rights(c) /\ Right(pt) => Rights(d)
  BY <1>1, <1>2 DEF Rights
<1> QED BY <1>1, <1>2, <1>3, <1>4 DEF d

LEMMA KeepIs ==
    ASSUME NEW c \in CState, NEW id \in PartyId, NEW pt \in Pt, pt.loaded => c.row[id].exists
    PROVE  /\ Keep(c, id, pt) \in CState
           /\ Rights(c) /\ Right(pt) => Rights(Keep(c, id, pt))
           /\ Keep(c, id, pt).mem[id] = pt
           /\ Keep(c, id, pt).row = c.row /\ Keep(c, id, pt).chars = c.chars
<1> DEFINE kept == [c EXCEPT !.mem[id] = pt]
<1>1. /\ kept \in CState /\ (Rights(c) /\ Right(pt) => Rights(kept))
      /\ kept.mem[id] = pt /\ kept.row = c.row /\ kept.chars = c.chars
  BY WrittenIs
<1>2. Optioned(id, pt, FALSE) \in ToMap
  BY DEF Optioned, Pt, ToMap
<1> HIDE DEF kept
<1>3. Tell(kept, Optioned(id, pt, FALSE)) = [kept EXCEPT !.out = Append(@, Optioned(id, pt, FALSE))]
      /\ Follows(Tell(kept, Optioned(id, pt, FALSE)), kept)
  BY <1>1, <1>2, TellIs
<1>4. LET t == Tell(kept, Optioned(id, pt, FALSE))
      IN  t.mem = kept.mem /\ t.row = kept.row /\ t.chars = kept.chars
  BY <1>1, <1>3 DEF CState
<1>5. \/ Keep(c, id, pt) = kept
      \/ Keep(c, id, pt) = Tell(kept, Optioned(id, pt, FALSE))
  BY DEF Keep, kept
<1> QED BY <1>1, <1>3, <1>4, <1>5 DEF Follows

LEMMA InfoIs ==
    ASSUME NEW id \in PartyId, NEW pt \in Pt, NEW p \in Player \union {0}
    PROVE  Info(id, pt, p) \in ToMap
<1>1. Shown(pt.slots) \in ShownSlots
  <2> SUFFICES ASSUME NEW s \in Place
               PROVE  /\ pt.slots[s].p \in Player \union {0}
                      /\ pt.slots[s].online \in BOOLEAN /\ pt.slots[s].leader \in BOOLEAN
    BY DEF Shown, ShownSlots
  <2>1. pt.slots[s] \in Member \union {NoMember}
    BY DEF Pt, Slots
  <2>2. CASE pt.slots[s] \in Member
    BY <2>2 DEF Member
  <2>3. CASE pt.slots[s] = NoMember
    BY <2>3 DEF NoMember
  <2> QED BY <2>1, <2>2, <2>3
<1>2. pt.exp \in BOOLEAN
  BY DEF Pt
<1> QED BY <1>1, <1>2 DEF Info, ToMap

\* A party that is loaded shares what its row says, if those online are in range.
LEMMA FromSqlIs ==
    ASSUME NEW c \in CState, NEW id \in PartyId
    PROVE  /\ Follows(FromSql(c, id), c)
           /\ FromSql(c, id).chars = c.chars /\ FromSql(c, id).row = c.row
<1> DEFINE ps == {p \in Player : c.chars[p].party = id}
           Nth(n) == {p \in ps : Cardinality({q \in ps : q < p}) = n - 1}
           Loads(p) == [p |-> p, online |-> p \in c.online, leader |-> c.row[id].leader = p,
                        lv |-> c.chars[p].lv]
           slots == [s \in Place |-> IF Nth(s) = {} THEN NoMember
                                     ELSE Loads(CHOOSE p \in Nth(s) : TRUE)]
           pt == [loaded |-> TRUE, exp |-> c.row[id].exp, min |-> 0, max |-> 0, slots |-> slots]
           d == [c EXCEPT !.mem[id] = pt]
<1>1. /\ c.mem \in [PartyId -> Pt] /\ c.row[id] \in Row /\ c.chars \in [Player -> Char]
  BY DEF CState
<1>2. ASSUME NEW p \in Player PROVE Loads(p) \in Member
  <2>1. c.chars[p].lv \in Level
    BY <1>1 DEF Char
  <2> QED BY <2>1 DEF Member
<1>3. slots \in Slots
  <2> SUFFICES ASSUME NEW s \in Place PROVE slots[s] \in Member \union {NoMember}
    BY DEF Slots
  <2>1. CASE Nth(s) # {}
    <3>1. (CHOOSE p \in Nth(s) : TRUE) \in Player
      BY <2>1
    <3> QED BY <2>1, <3>1, <1>2
  <2> QED BY <2>1
<1>4. pt \in Pt /\ pt.loaded
  <2> HIDE DEF slots
  <2> QED BY <1>1, <1>3 DEF Pt, Row
<1>5. \/ FromSql(c, id) = c
      \/ c.row[id].exists /\ FromSql(c, id) = Keep(d, id, CheckLv(pt))
  BY DEF FromSql
<1> HIDE DEF pt
<1>6. CASE c.row[id].exists /\ FromSql(c, id) = Keep(d, id, CheckLv(pt))
  <2>1. d \in CState /\ d.row = c.row /\ d.chars = c.chars
    BY <1>4, <1>6, WrittenIs
  <2>2. CheckLv(pt) \in Pt /\ CheckLv(pt).loaded /\ Right(CheckLv(pt))
    BY <1>4, CheckLvIs
  <2> DEFINE k == Keep(d, id, CheckLv(pt))
  <2>3. /\ k \in CState /\ k.row = d.row /\ k.chars = d.chars
        /\ k.mem[id] = CheckLv(pt)
    <3> HIDE DEF d
    <3> QED BY <2>1, <2>2, <1>6, KeepIs
  <2>4. \A i \in PartyId \ {id} : k.mem[i] = c.mem[i]
    <3>1. \A i \in PartyId \ {id} : d.mem[i] = c.mem[i]
      BY <1>1, <1>4, WrittenIs DEF CState
    <3>2. \A i \in PartyId \ {id} : k.mem[i] = d.mem[i]
      <4> HIDE DEF d
      <4> QED BY <2>1 DEF Keep, Tell, CState
    <3> QED BY <3>1, <3>2
  <2>5. Rights(c) => Rights(k)
    <3> HIDE DEF k
    <3> QED BY <2>2, <2>3, <2>4 DEF Rights
  <2> QED BY <1>6, <2>1, <2>3, <2>5 DEF Follows
<1> QED BY <1>5, <1>6 DEF Follows

LEMMA KnownIs ==
    ASSUME NEW c \in CState, NEW id \in PartyId
    PROVE  /\ c.mem[id] \in Pt
           /\ Known(c, id) <=> c.mem[id].loaded
           /\ c.mem[id].loaded => c.row[id].exists
BY PlaceIs DEF CState, Known

LEMMA PlaceOfIs ==
    ASSUME NEW slots, NEW p \in Members(slots)
    PROVE  /\ PlaceOf(slots, p) \in Place /\ slots[PlaceOf(slots, p)].p = p
<1>1. {s \in Place : slots[s].p = p} # {}
  BY DEF Members
<1> QED BY <1>1, PlaceIs, MinIs DEF PlaceOf

-----------------------------------------------------------------------------
(* One place of a party changes. *)

LEMMA SlotIs ==
    ASSUME NEW pt \in Pt, NEW s \in Place, NEW m \in Member \union {NoMember}
    PROVE  LET n == [pt EXCEPT !.slots[s] = m]
           IN  /\ n \in Pt /\ n.slots = [pt.slots EXCEPT ![s] = m]
               /\ n.loaded = pt.loaded /\ n.exp = pt.exp /\ n.min = pt.min /\ n.max = pt.max
<1>1. [pt.slots EXCEPT ![s] = m] \in Slots
  BY DEF Pt, Slots
<1> QED BY <1>1 DEF Pt

\* Looked at anew the range is right; else what changes must be within it.
LEMMA StaysBounded ==
    ASSUME NEW pt \in Pt, NEW n \in Pt, NEW s \in Place, Right(pt), pt.loaded,
           n.min = pt.min, n.max = pt.max, n.exp = pt.exp, n.loaded = pt.loaded,
           \A k \in Place \ {s} : n.slots[k] = pt.slots[k],
           n.slots[s].online => pt.min <= n.slots[s].lv /\ n.slots[s].lv <= pt.max,
           pt.slots[s].online => \/ n.slots[s].online /\ n.slots[s].lv = pt.slots[s].lv
                                 \/ pt.min < pt.slots[s].lv /\ pt.slots[s].lv < pt.max
    PROVE  Right(n)
<1>1. Bounded(pt) /\ pt.min \in Int /\ pt.max \in Int
  BY DEF Right, Pt
<1>2. /\ \A k \in OnlineIn(pt) : LevelOf(pt, k) \in Level /\ k \in Place /\ pt.slots[k].online
      /\ \A k \in OnlineIn(n) : LevelOf(n, k) \in Level /\ k \in Place /\ n.slots[k].online
      /\ \A k \in Place : /\ pt.slots[k].online => k \in OnlineIn(pt)
                          /\ n.slots[k].online => k \in OnlineIn(n)
  BY OnlineIs
<1>3. Level \subseteq Int /\ Max(Level) \in Int /\ \A l \in Level : l <= Max(Level)
  BY PlaceIs
<1>4. ASSUME OnlineIn(n) = {} PROVE OnlineIn(pt) = {}
  <2>1. SUFFICES ASSUME OnlineIn(pt) # {} PROVE FALSE
    OBVIOUS
  <2>2. PICK a \in OnlineIn(pt) : LevelOf(pt, a) = pt.min
    BY <2>1, <1>1 DEF Bounded
  <2>3. PICK b \in OnlineIn(pt) : LevelOf(pt, b) = pt.max
    BY <2>1, <1>1 DEF Bounded
  <2>4. a = s /\ b = s
    BY <1>2, <1>4
  <2> QED BY <1>1, <1>2, <1>4, <2>2, <2>3, <2>4 DEF LevelOf
<1>5. ASSUME OnlineIn(n) # {} PROVE OnlineIn(pt) # {}
  <2>1. SUFFICES ASSUME OnlineIn(pt) = {} PROVE FALSE
    OBVIOUS
  <2>2. s \in OnlineIn(n)
    BY <1>2, <1>5, <2>1
  <2>3. pt.min = Max(Level) + 1 /\ n.slots[s].lv \in Level /\ pt.min <= n.slots[s].lv
    BY <1>1, <1>2, <2>1, <2>2 DEF Bounded, LevelOf
  <2> QED BY <1>3, <2>3
<1>6. ASSUME NEW k \in OnlineIn(n) PROVE n.min <= LevelOf(n, k) /\ LevelOf(n, k) <= n.max
  BY <1>1, <1>2 DEF Bounded, LevelOf
<1>7. ASSUME NEW k \in OnlineIn(pt), LevelOf(pt, k) \in {pt.min, pt.max}
      PROVE  k \in OnlineIn(n) /\ LevelOf(n, k) = LevelOf(pt, k)
  BY <1>1, <1>2, <1>3, <1>7 DEF LevelOf
<1>8. Bounded(n)
  <2>1. CASE OnlineIn(n) = {}
    BY <2>1, <1>1, <1>4 DEF Bounded
  <2>2. CASE OnlineIn(n) # {}
    <3>1. PICK a \in OnlineIn(pt) : LevelOf(pt, a) = pt.min
      BY <1>1, <1>5, <2>2 DEF Bounded
    <3>2. PICK b \in OnlineIn(pt) : LevelOf(pt, b) = pt.max
      BY <1>1, <1>5, <2>2 DEF Bounded
    <3>3. a \in OnlineIn(n) /\ LevelOf(n, a) = n.min
      BY <3>1, <1>7
    <3>4. b \in OnlineIn(n) /\ LevelOf(n, b) = n.max
      BY <3>2, <1>7
    <3> QED BY <2>2, <3>3, <3>4, <1>6 DEF Bounded
  <2> QED BY <2>1, <2>2
<1> QED BY <1>8 DEF Right, Shares

-----------------------------------------------------------------------------
(* The requests, as the char-server handles them. *)

LEMMA RightOfNone == Right(NotInMemory) /\ NotInMemory \in Pt
<1>1. [s \in Place |-> NoMember] \in Slots
  BY DEF Slots
<1>2. NotInMemory \in Pt
  BY <1>1 DEF NotInMemory, Pt
<1> QED BY <1>2 DEF NotInMemory, Right, Shares

LEMMA CreatePartyIs ==
    ASSUME NEW c \in CState, NEW id \in PartyId, NEW p \in Player, NEW lv \in Level
    PROVE  Follows(CreateParty(c, id, p, lv), c)
<1> DEFINE m == [p |-> p, online |-> TRUE, leader |-> TRUE, lv |-> lv]
           new == [NotInMemory EXCEPT !.loaded = TRUE, !.slots[1] = m]
           pt == CheckLv(new)
           r == [exists |-> TRUE, leader |-> p, exp |-> FALSE]
           d == [c EXCEPT !.mem[id] = pt, !.chars[p].party = id, !.row[id] = r]
           made == [type |-> "created", p |-> p, id |-> id]
<1>1. m \in Member /\ 1 \in Place
  BY LevelAssumption DEF Member, Place
<1>2. new \in Pt /\ new.loaded
  <2> DEFINE on == [NotInMemory EXCEPT !.loaded = TRUE]
  <2>1. on \in Pt /\ on.loaded
    BY RightOfNone DEF Pt
  <2>2. new = [on EXCEPT !.slots[1] = m]
    BY DEF NotInMemory
  <2> HIDE DEF m, on
  <2>3. [on EXCEPT !.slots[1] = m] \in Pt /\ [on EXCEPT !.slots[1] = m].loaded = on.loaded
    BY <1>1, <2>1, SlotIs
  <2> QED BY <2>1, <2>2, <2>3
<1>3. pt \in Pt /\ pt.loaded /\ Right(pt)
  <2> HIDE DEF new
  <2> QED BY <1>2, CheckLvIs
<1>4. r \in Row
  BY DEF Row
<1> HIDE DEF pt, r
<1>5. /\ c.mem \in [PartyId -> Pt] /\ c.row \in [PartyId -> Row] /\ c.chars \in [Player -> Char]
      /\ \A i \in PartyId : c.mem[i].loaded => c.row[i].exists
  BY DEF CState
<1>6. /\ d \in [mem : [PartyId -> Pt], row : [PartyId -> Row], chars : [Player -> Char],
                online : SUBSET Player, out : Seq(ToMap)]
      /\ d.mem = [c.mem EXCEPT ![id] = pt] /\ d.row = [c.row EXCEPT ![id] = r]
  <2>1. [c.chars EXCEPT ![p].party = id] \in [Player -> Char]
    BY <1>5 DEF Char
  <2> QED BY <1>3, <1>4, <1>5, <2>1 DEF CState
<1> HIDE DEF d
<1>7. Follows(d, c)
  <2>1. r.exists
    BY DEF r
  <2>2. d \in CState
    BY <1>5, <1>6, <2>1 DEF CState
  <2> QED BY <1>3, <1>5, <1>6, <2>2 DEF Follows, Rights
<1>8. Info(id, pt, 0) \in ToMap /\ made \in ToMap
  BY <1>3, InfoIs DEF ToMap
<1> DEFINE told == Tell(d, Info(id, pt, 0))
<1>9. Follows(told, d)
  BY <1>7, <1>8, TellIs DEF Follows
<1>10. Follows(Tell(told, made), told)
  <2> HIDE DEF told, made
  <2> QED BY <1>8, <1>9, TellIs DEF Follows
<1>11. CreateParty(c, id, p, lv) = Tell(told, made)
  BY DEF CreateParty, pt, r, d
<1> HIDE DEF told
<1> QED BY <1>7, <1>9, <1>10, <1>11, FollowsTwice

LEMMA PartyInfoIs ==
    ASSUME NEW c \in CState, NEW id \in PartyId, NEW p \in Player
    PROVE  Follows(PartyInfo(c, id, p), c)
<1> DEFINE d == FromSql(c, id)
           no == [type |-> "noinfo", id |-> id, p |-> p]
<1>1. Follows(d, c)
  BY FromSqlIs
<1>2. d \in CState /\ d.mem[id] \in Pt
  BY <1>1, KnownIs DEF Follows
<1> HIDE DEF d
<1>3. Info(id, d.mem[id], p) \in ToMap /\ no \in ToMap
  BY <1>2, InfoIs DEF ToMap
<1>4. PartyInfo(c, id, p) = Tell(d, IF Known(d, id) THEN Info(id, d.mem[id], p) ELSE no)
  BY DEF PartyInfo, d
<1>5. Follows(Tell(d, IF Known(d, id) THEN Info(id, d.mem[id], p) ELSE no), d)
  BY <1>2, <1>3, TellIs
<1> QED BY <1>1, <1>4, <1>5, FollowsTwice

\* The party of a member is written down with the character.
LEMMA CharIs ==
    ASSUME NEW c \in CState, NEW p \in Player, NEW id \in PartyId
    PROVE  LET d == [c EXCEPT !.chars[p].party = id]
           IN  Follows(d, c) /\ d.mem = c.mem /\ d.row = c.row
<1> DEFINE d == [c EXCEPT !.chars[p].party = id]
<1>1. [c.chars EXCEPT ![p].party = id] \in [Player -> Char]
  BY DEF CState, Char
<1>2. /\ d \in [mem : [PartyId -> Pt], row : [PartyId -> Row], chars : [Player -> Char],
                online : SUBSET Player, out : Seq(ToMap)]
      /\ d.mem = c.mem /\ d.row = c.row
  BY <1>1 DEF CState
<1> HIDE DEF d
<1>3. d \in CState
  BY <1>2 DEF CState
<1> QED BY <1>2, <1>3 DEF Follows, Rights, d

\* Who joins is looked at if its level is not in the range noted.
LEMMA PartyAddMemberIs ==
    ASSUME NEW c0 \in CState, NEW id \in PartyId, NEW p \in Player, NEW lv \in Level
    PROVE  Follows(PartyAddMember(c0, id, p, lv), c0)
<1> DEFINE c == FromSql(c0, id)
           old == c.mem[id]
           free == Min(Free(old.slots))
           m == [p |-> p, online |-> TRUE, leader |-> FALSE, lv |-> lv]
           pt == [old EXCEPT !.slots[free] = m]
           size == MaxParty - Cardinality(Free(pt.slots))
           anew == size \in {2, 3} \/ lv < pt.min \/ lv > pt.max
           now == IF anew THEN CheckLv(pt) ELSE pt
           kept == Keep(c, id, now)
           joined == [kept EXCEPT !.chars[p].party = id]
           told == Tell(joined, Info(id, kept.mem[id], 0))
           no == [type |-> "added", id |-> id, p |-> p, ok |-> FALSE]
           yes == [type |-> "added", id |-> id, p |-> p, ok |-> TRUE]
<1>1. Follows(c, c0)
  BY FromSqlIs
<1> HIDE DEF c
<1>2. c \in CState /\ no \in ToMap /\ yes \in ToMap
  BY <1>1 DEF Follows, ToMap
<1>3. old \in Pt /\ (Known(c, id) <=> old.loaded) /\ (old.loaded => c.row[id].exists)
      /\ (Rights(c) => Right(old))
  BY <1>2, KnownIs DEF Rights
<1>4. CASE ~Known(c, id) \/ (id # 0 /\ Free(old.slots) = {})
  <2>1. PartyAddMember(c0, id, p, lv) = Tell(c, no)
    BY <1>4 DEF PartyAddMember, c
  <2> HIDE DEF no
  <2>2. Follows(Tell(c, no), c)
    BY <1>2, TellIs
  <2> QED BY <1>1, <2>1, <2>2, FollowsTwice
<1>5. CASE ~(~Known(c, id) \/ (id # 0 /\ Free(old.slots) = {}))
  <2>1. free \in Place /\ old.slots[free].p = 0
    <3>1. Free(old.slots) \in SUBSET Nat /\ Free(old.slots) # {}
      BY <1>5, PlaceIs DEF Free
    <3>2. free \in Free(old.slots)
      BY <3>1, MinIs
    <3> HIDE DEF free, old
    <3> QED BY <3>2 DEF Free
  <2>2. old.loaded /\ c.row[id].exists
    BY <1>3, <1>5
  <2>3. m \in Member /\ m.online /\ m.lv = lv
    BY DEF Member
  <2> HIDE DEF old, free, m
  <2>4. /\ pt \in Pt /\ pt.slots = [old.slots EXCEPT ![free] = m]
        /\ pt.loaded = old.loaded /\ pt.exp = old.exp /\ pt.min = old.min /\ pt.max = old.max
    BY <1>3, <2>1, <2>3, SlotIs
  <2>5. ~old.slots[free].online
    <3>1. old.slots[free] \in Member \union {NoMember}
      BY <1>3, <2>1 DEF Pt, Slots
    <3> QED BY <2>1, <3>1, PlaceIs DEF Member, NoMember
  <2>6. ~anew /\ Right(old) => Right(pt)
    <3> SUFFICES ASSUME ~anew, Right(old) PROVE Right(pt)
      OBVIOUS
    <3>1. pt.min \in Int /\ pt.max \in Int /\ lv \in Int
      BY <2>4, PlaceIs DEF Pt
    <3>2. pt.min <= lv /\ lv <= pt.max
      BY <3>1
    <3>3. pt.slots[free].lv = lv /\ \A k \in Place \ {free} : pt.slots[k] = old.slots[k]
      BY <1>3, <2>1, <2>3, <2>4 DEF Pt, Slots
    <3> HIDE DEF pt, anew
    <3> QED BY <1>3, <2>1, <2>2, <2>4, <2>5, <3>2, <3>3, StaysBounded
  <2> HIDE DEF pt, anew
  <2>7. now \in Pt /\ now.loaded /\ (Right(old) => Right(now))
    BY <2>2, <2>4, <2>6, CheckLvIs
  <2> HIDE DEF now
  <2>8. Follows(kept, c) /\ kept.mem[id] = now
    BY <1>2, <1>3, <2>2, <2>7, KeepIs DEF Follows
  <2> HIDE DEF kept
  <2>9. Follows(joined, kept)
    BY <2>8, CharIs DEF Follows
  <2> HIDE DEF joined
  <2>10. Info(id, kept.mem[id], 0) \in ToMap
    BY <2>7, <2>8, InfoIs
  <2>11. Follows(told, joined)
    BY <2>9, <2>10, TellIs DEF Follows
  <2> HIDE DEF told, yes
  <2>12. Follows(Tell(told, yes), told)
    BY <1>2, <2>11, TellIs DEF Follows
  <2>13. PartyAddMember(c0, id, p, lv) = Tell(told, yes)
    BY <1>5, Zenon DEF PartyAddMember, c, old, free, m, pt, size, anew, now, kept, joined, told, yes
  <2>14. Follows(told, c0)
    BY <1>1, <2>8, <2>9, <2>11, FollowsTwice, Zenon
  <2> QED BY <2>12, <2>13, <2>14, FollowsTwice
<1> QED BY <1>4, <1>5

\* The option is given only if those online are in range.
LEMMA PartyChangeOptionIs ==
    ASSUME NEW c0 \in CState, NEW id \in PartyId, NEW exp \in BOOLEAN
    PROVE  Follows(PartyChangeOption(c0, id, exp), c0)
<1> DEFINE c == FromSql(c0, id)
           old == c.mem[id]
           denied == exp /\ ~CheckExpShare(old)
           pt == [old EXCEPT !.exp = exp /\ ~denied]
           d == [c EXCEPT !.mem[id] = pt, !.row[id].exp = pt.exp]
<1>1. Follows(c, c0)
  BY FromSqlIs
<1> HIDE DEF c
<1>2. c \in CState
  BY <1>1 DEF Follows
<1>3. old \in Pt /\ (Known(c, id) <=> old.loaded) /\ (old.loaded => c.row[id].exists)
      /\ (Rights(c) => Right(old))
  BY <1>2, KnownIs DEF Rights
<1>4. CASE ~Known(c, id)
  BY <1>1, <1>4 DEF PartyChangeOption, c
<1>5. CASE Known(c, id)
  <2> HIDE DEF old
  <2>1. denied \in BOOLEAN /\ (exp /\ ~denied) \in BOOLEAN
    BY DEF CheckExpShare
  <2>2. /\ pt \in Pt /\ pt.slots = old.slots /\ pt.loaded = old.loaded /\ pt.min = old.min
        /\ pt.max = old.max /\ pt.exp = (exp /\ ~denied) /\ pt.exp \in BOOLEAN
    <3> HIDE DEF denied
    <3> QED BY <1>3, <2>1 DEF Pt
  <2>3. Right(old) => Right(pt)
    <3> SUFFICES ASSUME Right(old) PROVE Right(pt)
      OBVIOUS
    <3>1. Bounded(old)
      BY <1>3, <1>5 DEF Right
    <3> HIDE DEF pt
    <3>2. Bounded(pt)
      BY <2>2, <3>1 DEF Bounded, OnlineIn, LevelOf
    <3>3. pt.exp => pt.max - pt.min <= ShareLevel
      BY <1>3, <2>2, <3>1, FewAreInRange
    <3> QED BY <1>3, <1>5, <2>2, <3>2, <3>3 DEF Right, Shares
  <2> HIDE DEF pt
  <2>4. [c.row[id] EXCEPT !.exp = pt.exp] \in Row
    BY <1>2, <2>2, ZenonT(30) DEF CState, Row
  <2>5. /\ d.mem = [c.mem EXCEPT ![id] = pt] /\ d.row = [c.row EXCEPT ![id].exp = pt.exp]
        /\ d \in [mem : [PartyId -> Pt], row : [PartyId -> Row], chars : [Player -> Char],
                  online : SUBSET Player, out : Seq(ToMap)]
    BY <1>2, <2>2, <2>4 DEF CState
  <2> HIDE DEF d
  <2>6. d \in CState
    <3>1. \A i \in PartyId : d.mem[i].loaded => d.row[i].exists
      BY <1>2, <1>3, <2>2, <2>4, <2>5 DEF CState, Row
    <3> QED BY <2>5, <3>1 DEF CState
  <2>7. Follows(d, c)
    BY <1>2, <1>3, <2>3, <2>5, <2>6 DEF Follows, Rights, CState
  <2>8. Optioned(id, pt, denied) \in ToMap
    <3> HIDE DEF denied
    <3> QED BY <2>1, <2>2 DEF Optioned, ToMap
  <2>9. Follows(Tell(d, Optioned(id, pt, denied)), d)
    BY <2>6, <2>8, TellIs
  <2>10. PartyChangeOption(c0, id, exp) = Tell(d, Optioned(id, pt, denied))
    BY <1>5 DEF PartyChangeOption, c, old, denied, pt, d
  <2> HIDE DEF denied
  <2> QED BY <1>1, <2>7, <2>9, <2>10, FollowsTwice
<1> QED BY <1>4, <1>5

LEMMA BrokenIs ==
    ASSUME NEW c \in CState, NEW id \in PartyId
    PROVE  /\ Follows(Broken(c, id), c) /\ Follows([c EXCEPT !.chars = Broken(c, id).chars], c)
<1> DEFINE out == [p \in Player |-> IF c.chars[p].party = id THEN [c.chars[p] EXCEPT !.party = 0]
                                    ELSE c.chars[p]]
           d == [c EXCEPT !.mem[id] = NotInMemory, !.row[id].exists = FALSE, !.chars = out]
           e == [c EXCEPT !.chars = out]
<1>1. out \in [Player -> Char]
  BY DEF CState, Char
<1>2. Broken(c, id) = d
  BY DEF Broken
<1> HIDE DEF out
<1>3. [c.row[id] EXCEPT !.exists = FALSE] \in Row
  BY DEF CState, Row
<1>4. /\ d.mem = [c.mem EXCEPT ![id] = NotInMemory]
      /\ d.row = [c.row EXCEPT ![id] = [@ EXCEPT !.exists = FALSE]]
      /\ d \in [mem : [PartyId -> Pt], row : [PartyId -> Row], chars : [Player -> Char],
                online : SUBSET Player, out : Seq(ToMap)]
      /\ d.chars = out
  BY <1>1, <1>3, RightOfNone DEF CState
<1>5. /\ e.mem = c.mem /\ e.row = c.row
      /\ e \in [mem : [PartyId -> Pt], row : [PartyId -> Row], chars : [Player -> Char],
                online : SUBSET Player, out : Seq(ToMap)]
  BY <1>1 DEF CState
<1> HIDE DEF d, e
<1>6. Follows(e, c)
  BY <1>5 DEF Follows, Rights, CState
<1>7. Follows(d, c)
  <2>1. ~NotInMemory.loaded
    BY DEF NotInMemory
  <2>2. d \in CState
    BY <1>4, <2>1 DEF CState
  <2> QED BY <1>4, <2>2, RightOfNone DEF Follows, Rights, CState
<1> QED BY <1>2, <1>4, <1>6, <1>7 DEF e

\* Who leaves is not missed if its level is within the range noted.
LEMMA PartyLeaveIs ==
    ASSUME NEW c0 \in CState, NEW id \in PartyId, NEW p \in Player
    PROVE  Follows(PartyLeave(c0, id, p), c0)
<1> DEFINE c == FromSql(c0, id)
           old == c.mem[id]
           s == PlaceOf(old.slots, p)
           lv == old.slots[s].lv
           pt == [old EXCEPT !.slots[s] = NoMember]
           left == Tell(c, [type |-> "withdraw", id |-> id, p |-> p])
           anew == lv \in {pt.min, pt.max}
           now == IF anew THEN CheckLv(pt) ELSE pt
           kept == Keep(left, id, now)
           none == Tell(kept, [type |-> "broken", id |-> id])
<1>1. Follows(c, c0)
  BY FromSqlIs
<1> HIDE DEF c
<1>2. c \in CState
  BY <1>1 DEF Follows
<1>3. old \in Pt /\ (Known(c, id) <=> old.loaded) /\ (old.loaded => c.row[id].exists)
      /\ (Rights(c) => Right(old))
  BY <1>2, KnownIs DEF Rights
<1>4. CASE ~Known(c, id)
  BY <1>1, <1>2, <1>4, BrokenIs, FollowsTwice DEF PartyLeave, c
<1>5. CASE Known(c, id) /\ p \notin Members(old.slots)
  BY <1>1, <1>5 DEF PartyLeave, c, old
<1>6. CASE Known(c, id) /\ p \in Members(old.slots)
  <2> HIDE DEF old
  <2>1. s \in Place /\ old.slots[s].p = p
    BY <1>6, PlaceOfIs
  <2> HIDE DEF s
  <2>2. NoMember \in Member \union {NoMember} /\ ~NoMember.online
    BY DEF NoMember
  <2>3. /\ pt \in Pt /\ pt.slots = [old.slots EXCEPT ![s] = NoMember] /\ pt.loaded = old.loaded
        /\ pt.exp = old.exp /\ pt.min = old.min /\ pt.max = old.max
    BY <1>3, <2>1, <2>2, SlotIs
  <2>4. old.slots[s].online => s \in OnlineIn(old) /\ lv \in Level
    BY <1>3, <2>1, OnlineIs DEF LevelOf
  <2>5. old.slots[s] \in Member
    BY <1>3, <2>1, PlaceIs DEF Pt, Slots, NoMember
  <2> HIDE DEF pt
  <2>6. ~anew /\ Right(old) => Right(pt)
    <3> SUFFICES ASSUME ~anew, Right(old) PROVE Right(pt)
      OBVIOUS
    <3>1. old.min \in Int /\ old.max \in Int /\ (old.slots[s].online => lv \in Int)
      BY <1>3, <2>4, PlaceIs DEF Pt
    <3>2. lv # old.min /\ lv # old.max
      BY <2>3
    <3>3. old.slots[s].online => old.min <= lv /\ lv <= old.max
      BY <1>3, <1>6, <2>4 DEF Right, Bounded, LevelOf
    <3>4. old.slots[s].online => old.min < old.slots[s].lv /\ old.slots[s].lv < old.max
      BY <3>1, <3>2, <3>3
    <3>5. ~pt.slots[s].online /\ \A k \in Place \ {s} : pt.slots[k] = old.slots[k]
      BY <1>3, <2>1, <2>2, <2>3 DEF Pt, Slots
    <3> HIDE DEF anew, lv
    <3> QED BY <1>3, <1>6, <2>1, <2>3, <3>4, <3>5, StaysBounded
  <2> HIDE DEF anew
  <2>7. now \in Pt /\ (now.loaded => c.row[id].exists) /\ (Right(old) => Right(now))
    BY <1>3, <1>6, <2>3, <2>6, CheckLvIs
  <2> HIDE DEF now
  <2>8. [type |-> "withdraw", id |-> id, p |-> p] \in ToMap /\ [type |-> "broken", id |-> id] \in ToMap
    BY DEF ToMap
  <2>9. Follows(left, c) /\ left.row = c.row
    <3>1. Follows(left, c)
      BY <1>2, <2>8, TellIs
    <3> QED BY <1>2, <3>1 DEF Tell, CState
  <2> HIDE DEF left
  <2>10. left \in CState /\ left.row[id] = c.row[id]
    BY <2>9 DEF Follows
  <2>11. /\ kept \in CState /\ (Rights(left) /\ Right(now) => Rights(kept))
         /\ kept.mem[id] = now
    BY <2>7, <2>10, KeepIs
  <2>12. Follows(kept, c)
    BY <1>3, <2>7, <2>9, <2>11 DEF Follows
  <2> HIDE DEF kept
  <2>13. Follows(none, kept) /\ Follows(Broken(none, id), none)
    <3>1. Follows(none, kept)
      BY <2>8, <2>11, TellIs
    <3> HIDE DEF none
    <3> QED BY <3>1, BrokenIs DEF Follows
  <2>14. Info(id, kept.mem[id], 0) \in ToMap
    BY <2>7, <2>11, InfoIs
  <2>15. Follows(Tell(kept, Info(id, kept.mem[id], 0)), kept)
    BY <2>11, <2>14, TellIs
  <2>16. PartyLeave(c0, id, p) = IF Members(pt.slots) = {} THEN Broken(none, id)
                                ELSE Tell(kept, Info(id, kept.mem[id], 0))
    BY <1>6, Zenon DEF PartyLeave, c, old, s, lv, pt, left, anew, now, kept, none
  <2> HIDE DEF none
  <2>17. Follows(Broken(none, id), c0)
    BY <1>1, <2>12, <2>13, FollowsTwice, Zenon
  <2>18. Follows(Tell(kept, Info(id, kept.mem[id], 0)), c0)
    BY <1>1, <2>12, <2>15, FollowsTwice, Zenon
  <2> QED BY <2>16, <2>17, <2>18
<1> QED BY <1>4, <1>5, <1>6

\* A level that changes by one from within the range is still in it.
LEMMA ChangedLevelIs ==
    ASSUME NEW old \in Pt, NEW s \in Place, old.slots[s].p \in Player, NEW online \in BOOLEAN,
           NEW lv \in Level
    PROVE  LET n == ChangedLevel(old, s, online, lv)
           IN  /\ n \in Pt /\ n.loaded = old.loaded
               /\ Right(old) /\ old.loaded
                  /\ (old.slots[s].online /\ online => lv \in (old.slots[s].lv - 1)..(old.slots[s].lv + 1))
                  => Right(n)
<1> DEFINE was == old.slots[s].lv
           on == [old EXCEPT !.slots[s].online = online]
           m == [[old.slots[s] EXCEPT !.online = online] EXCEPT !.lv = lv]
           now == [old EXCEPT !.slots[s] = m]
           anew == \/ /\ old.slots[s].online # online
                      /\ \/ was <= old.min \/ was >= old.max
                         \/ was # lv /\ (lv <= old.min \/ lv >= old.max)
                   \/ was # lv /\ was \in {old.min, old.max}
<1>1. old.slots[s] \in Member
  <2>1. old.slots[s] \in Member \union {NoMember}
    BY DEF Pt, Slots
  <2> QED BY <2>1, PlaceIs DEF NoMember
<1>2. m \in Member /\ m.online = online /\ m.lv = lv
  BY <1>1 DEF Member
<1>3. [on EXCEPT !.slots[s].lv = lv] = now
  <2>1. old.slots \in Slots
    BY DEF Pt
  <2>2. on.slots = [old.slots EXCEPT ![s] = [old.slots[s] EXCEPT !.online = online]]
    BY DEF Pt
  <2>3. on.slots[s] = [old.slots[s] EXCEPT !.online = online]
    BY <2>1, <2>2 DEF Slots
  <2>4. [on.slots EXCEPT ![s] = m] = [old.slots EXCEPT ![s] = m]
    BY <2>1, <2>2 DEF Slots
  <2>5. [on EXCEPT !.slots[s].lv = lv] = [on EXCEPT !.slots = [on.slots EXCEPT ![s] = m]]
    BY <2>3
  <2> QED BY <2>4, <2>5 DEF Pt
<1>4. ChangedLevel(old, s, online, lv) = IF anew THEN CheckLv(now) ELSE now
  BY <1>3 DEF ChangedLevel
<1> HIDE DEF m
<1>5. /\ now \in Pt /\ now.slots = [old.slots EXCEPT ![s] = m] /\ now.loaded = old.loaded
      /\ now.exp = old.exp /\ now.min = old.min /\ now.max = old.max
  BY <1>2, SlotIs
<1>6. now.slots[s] = m /\ \A k \in Place \ {s} : now.slots[k] = old.slots[k]
  BY <1>5 DEF Pt, Slots
<1> HIDE DEF now
<1>7. ASSUME ~anew, Right(old), old.loaded,
             old.slots[s].online /\ online => lv \in (was - 1)..(was + 1)
      PROVE  Right(now)
  <2>1. old.min \in Int /\ old.max \in Int /\ was \in Int /\ lv \in Int
    BY <1>1, PlaceIs DEF Pt, Member
  <2>2. old.slots[s].online => old.min <= was /\ was <= old.max
    BY <1>7, OnlineIs DEF Right, Bounded, LevelOf
  <2>3. old.slots[s].online \in BOOLEAN
    BY <1>1 DEF Member
  <2> DEFINE lo == old.min
             hi == old.max
             isOn == old.slots[s].online
  <2>4. isOn = online \/ (lo < was /\ was < hi /\ (was = lv \/ (lo < lv /\ lv < hi)))
    BY <1>7, <2>1
  <2>5. was = lv \/ (was # lo /\ was # hi)
    BY <1>7
  <2>6. isOn => lo <= was /\ was <= hi
    BY <2>2
  <2>7. isOn /\ online => was - 1 <= lv /\ lv <= was + 1
    BY <1>7, <2>1
  <2>8. lo \in Int /\ hi \in Int
    BY <2>1
  <2> HIDE DEF lo, hi, isOn, was
  <2>9. online => lo <= lv /\ lv <= hi
    <3>1. CASE isOn = online
      BY <2>1, <2>3, <2>5, <2>6, <2>7, <2>8, <3>1
    <3>2. CASE lo < was /\ was < hi /\ (was = lv \/ (lo < lv /\ lv < hi))
      BY <2>1, <2>8, <3>2
    <3> QED BY <2>4, <3>1, <3>2
  <2>10. isOn => (online /\ lv = was) \/ (lo < was /\ was < hi)
    <3>1. CASE isOn = online
      BY <2>1, <2>3, <2>5, <2>6, <2>8, <3>1
    <3>2. CASE lo < was /\ was < hi
      BY <3>2
    <3> QED BY <2>4, <3>1, <3>2
  <2> QED BY <1>2, <1>5, <1>6, <1>7, <2>9, <2>10, StaysBounded DEF lo, hi, isOn, was
<1> HIDE DEF anew
<1>8. CASE anew
  <2>1. ChangedLevel(old, s, online, lv) = CheckLv(now)
    BY <1>4, <1>8
  <2> QED BY <1>5, <2>1, CheckLvIs
<1>9. CASE ~anew
  <2>1. ChangedLevel(old, s, online, lv) = now
    BY <1>4, <1>9
  <2> QED BY <1>5, <1>7, <1>9, <2>1
<1> QED BY <1>8, <1>9

LEMMA PartyChangeMapIs ==
    ASSUME NEW c0 \in CState, NEW id \in PartyId, NEW p \in Player, NEW online \in BOOLEAN,
           NEW lv \in Level, NEW elsewhere \in BOOLEAN
    PROVE  LET d == PartyChangeMap(c0, id, p, online, lv, elsewhere)
               slots == FromSql(c0, id).mem[id].slots
           IN  /\ d \in CState
               /\ Rights(c0) /\ (\A s \in Place : slots[s].p = p /\ slots[s].online /\ online
                                   => lv \in (slots[s].lv - 1)..(slots[s].lv + 1))
                  => Rights(d)
<1> DEFINE c == FromSql(c0, id)
           old == c.mem[id]
           s == PlaceOf(old.slots, p)
           now == ChangedLevel(old, s, online, lv)
           kept == Keep(c, id, now)
           moved == [type |-> "moved", id |-> id, p |-> p, online |-> online]
           seen == IF old.slots[s].online # online THEN Tell(kept, moved) ELSE kept
           near == \A k \in Place : old.slots[k].p = p /\ old.slots[k].online /\ online
                                      => lv \in (old.slots[k].lv - 1)..(old.slots[k].lv + 1)
           d == PartyChangeMap(c0, id, p, online, lv, elsewhere)
<1>1. Follows(c, c0)
  BY FromSqlIs
<1> HIDE DEF c
<1>2. c \in CState /\ (Rights(c0) => Rights(c))
  BY <1>1 DEF Follows
<1>3. old \in Pt /\ (Known(c, id) <=> old.loaded) /\ (old.loaded => c.row[id].exists)
      /\ (Rights(c) => Right(old))
  BY <1>2, KnownIs DEF Rights
<1>4. CASE ~(Known(c, id) /\ p \in Members(old.slots))
  <2>1. d = c
    BY <1>4, PlaceIs DEF PartyChangeMap, c, old
  <2> HIDE DEF d
  <2> QED BY <1>2, <2>1 DEF d
<1>5. CASE Known(c, id) /\ p \in Members(old.slots)
  <2> HIDE DEF old
  <2>1. s \in Place /\ old.slots[s].p = p
    BY <1>5, PlaceOfIs
  <2> HIDE DEF s
  <2>2. near => (old.slots[s].online /\ online => lv \in (old.slots[s].lv - 1)..(old.slots[s].lv + 1))
    BY <2>1
  <2> HIDE DEF near
  <2>3. now \in Pt /\ now.loaded /\ (Right(old) /\ near => Right(now))
    BY <1>3, <1>5, <2>1, <2>2, ChangedLevelIs
  <2> HIDE DEF now
  <2>4. kept \in CState /\ (Rights(c) /\ near => Rights(kept))
    BY <1>2, <1>3, <1>5, <2>3, KeepIs
  <2>5. moved \in ToMap
    BY DEF ToMap
  <2> HIDE DEF kept, moved
  <2>6. Follows(Tell(kept, moved), kept)
    BY <2>4, <2>5, TellIs
  <2>7. Follows(seen, kept)
    BY <2>4, <2>6 DEF Follows
  <2> HIDE DEF seen
  <2>8. Follows(Tell(seen, moved), seen)
    BY <2>5, <2>7, TellIs DEF Follows
  <2>9. d = seen \/ d = Tell(seen, moved)
    BY <1>5, Zenon DEF PartyChangeMap, c, old, s, now, kept, moved, seen
  <2> HIDE DEF d
  <2>10. d \in CState /\ (Rights(kept) => Rights(d))
    BY <2>7, <2>8, <2>9 DEF Follows
  <2> QED BY <1>2, <2>4, <2>10 DEF d, near, old, c
<1> QED BY <1>4, <1>5

\* Who leads does not matter to the range.
LEMMA PartyLeaderChangeIs ==
    ASSUME NEW c0 \in CState, NEW id \in PartyId, NEW p \in Player
    PROVE  Follows(PartyLeaderChange(c0, id, p), c0)
<1> DEFINE c == FromSql(c0, id)
           old == c.mem[id]
           slots == [s \in Place |-> [old.slots[s] EXCEPT !.leader = (old.slots[s].p = p /\ p # 0)]]
           pt == [old EXCEPT !.slots = slots]
           who == IF p \in Members(old.slots) THEN p ELSE c.row[id].leader
           d == [c EXCEPT !.mem[id].slots = slots, !.row[id].leader = who]
<1>1. Follows(c, c0)
  BY FromSqlIs
<1> HIDE DEF c
<1>2. c \in CState
  BY <1>1 DEF Follows
<1>3. old \in Pt /\ (Known(c, id) <=> old.loaded) /\ (old.loaded => c.row[id].exists)
      /\ (Rights(c) => Right(old))
  BY <1>2, KnownIs DEF Rights
<1>4. CASE ~Known(c, id)
  BY <1>1, <1>4 DEF PartyLeaderChange, c
<1>5. CASE Known(c, id)
  <2>1. PartyLeaderChange(c0, id, p) = d
    BY <1>5 DEF PartyLeaderChange, c
  <2>2. who \in Player \union {0}
    BY <1>2 DEF CState, Row
  <2> HIDE DEF who
  <2>3. [c.row[id] EXCEPT !.leader = who] \in Row
        /\ [c.row[id] EXCEPT !.leader = who].exists = c.row[id].exists
    BY <1>2, <2>2 DEF CState, Row
  <2>4. ASSUME NEW s \in Place
        PROVE  /\ slots[s] \in Member \union {NoMember} /\ slots[s].p = old.slots[s].p
               /\ slots[s].online = old.slots[s].online /\ slots[s].lv = old.slots[s].lv
    <3>1. old.slots[s] \in Member \union {NoMember}
      BY <1>3 DEF Pt, Slots
    <3> DEFINE m == old.slots[s]
    <3> HIDE DEF old
    <3>2. slots[s] = [m EXCEPT !.leader = (m.p = p /\ p # 0)]
      OBVIOUS
    <3> HIDE DEF m, slots
    <3>3. CASE m \in Member
      BY <3>2, <3>3 DEF Member, m
    <3>4. CASE m = NoMember
      <4>1. (m.p = p /\ p # 0) = FALSE
        BY <3>4, PlaceIs DEF NoMember
      <4>2. slots[s] = [NoMember EXCEPT !.leader = FALSE]
        BY <3>2, <3>4, <4>1
      <4>3. slots[s] = NoMember
        BY <4>2 DEF NoMember
      <4> QED BY <3>4, <4>3 DEF m
    <3> QED BY <3>1, <3>3, <3>4 DEF m
  <2>5. slots \in Slots
    BY <2>4 DEF Slots
  <2>6. d.mem = [c.mem EXCEPT ![id] = pt] /\ d.row = [c.row EXCEPT ![id] = [@ EXCEPT !.leader = who]]
    <3> HIDE DEF slots
    <3> QED BY <1>2 DEF CState
  <2> HIDE DEF slots
  <2>7. /\ pt \in Pt /\ pt.loaded = old.loaded /\ pt.exp = old.exp /\ pt.min = old.min
        /\ pt.max = old.max /\ pt.slots = slots
    BY <1>3, <2>5 DEF Pt
  <2> HIDE DEF pt
  <2>8. d \in [mem : [PartyId -> Pt], row : [PartyId -> Row], chars : [Player -> Char],
               online : SUBSET Player, out : Seq(ToMap)]
    <3>1. [c.mem EXCEPT ![id] = pt] \in [PartyId -> Pt]
          /\ [c.row EXCEPT ![id] = [@ EXCEPT !.leader = who]] \in [PartyId -> Row]
      BY <1>2, <2>3, <2>7 DEF CState
    <3>2. d = [c EXCEPT !.mem = d.mem, !.row = d.row]
      BY <1>2 DEF CState
    <3> HIDE DEF d
    <3> QED BY <1>2, <2>6, <3>1, <3>2 DEF CState
  <2> HIDE DEF d
  <2>9. Right(old) => Right(pt)
    <3>1. OnlineIn(pt) = OnlineIn(old) /\ \A s \in OnlineIn(pt) : LevelOf(pt, s) = LevelOf(old, s)
      BY <2>4, <2>7 DEF OnlineIn, LevelOf
    <3> QED BY <2>7, <3>1 DEF Right, Bounded, Shares
  <2>10. d \in CState
    <3>1. c.row[id].exists /\ \A i \in PartyId : c.mem[i].loaded => c.row[i].exists
      BY <1>2, <1>3, <1>5 DEF CState
    <3>2. c.row \in [PartyId -> Row]
      BY <1>2 DEF CState
    <3>3. d.row[id].exists /\ \A i \in PartyId \ {id} : d.row[i] = c.row[i] /\ d.mem[i] = c.mem[i]
      BY <1>2, <2>3, <2>6, <3>1, <3>2 DEF CState
    <3>4. \A i \in PartyId : d.mem[i].loaded => d.row[i].exists
      BY <3>1, <3>3
    <3> QED BY <2>8, <3>4 DEF CState
  <2>11. Follows(d, c)
    BY <1>2, <1>3, <2>6, <2>9, <2>10 DEF Follows, Rights, CState
  <2> QED BY <1>1, <2>1, <2>11, FollowsTwice
<1> QED BY <1>4, <1>5

-----------------------------------------------------------------------------
(* The functions of the map-server. *)

MState == {m \in [sd : [Player -> Sd], local : [PartyId -> Copy], out : Seq(ToChar),
                  lost : BOOLEAN] : up \/ m.out = << >>}

LEMMA NowIs == Typed => Now \in MState /\ Now.sd = sd /\ Now.local = local
BY DEF Typed, MapTyped, Now, MState

LEMMA SentIs ==
    ASSUME NEW m \in MState, NEW msg \in ToChar
    PROVE  Sent(m, msg) \in MState /\ Sent(m, msg).sd = m.sd /\ Sent(m, msg).local = m.local
<1> DEFINE appended == Append(m.out, msg)
<1>1. appended \in Seq(ToChar)
  BY DEF MState
<1>2. Sent(m, msg) = IF up THEN [m EXCEPT !.out = appended] ELSE [m EXCEPT !.lost = TRUE]
  BY DEF Sent
<1> HIDE DEF appended
<1> QED BY <1>1, <1>2 DEF MState

\* What is written of one player or one copy.
LEMMA SdWritten ==
    ASSUME NEW m \in MState, NEW p \in Player, NEW r \in Sd
    PROVE  LET n == [m EXCEPT !.sd[p] = r]
           IN  n \in MState /\ n.sd = [m.sd EXCEPT ![p] = r] /\ n.local = m.local
BY DEF MState

LEMMA CopyWritten ==
    ASSUME NEW m \in MState, NEW id \in PartyId, NEW c \in Copy
    PROVE  LET n == [m EXCEPT !.local[id] = c]
           IN  n \in MState /\ n.local = [m.local EXCEPT ![id] = c] /\ n.sd = m.sd
BY DEF MState

LEMMA OneIs ==
    ASSUME NEW m \in MState
    PROVE  /\ \A p \in Player : m.sd[p] \in Sd
           /\ \A id \in PartyId : m.local[id] \in Copy
BY DEF MState

LEMMA PartyOfIs ==
    ASSUME NEW r \in Sd, NEW id \in PartyId \union {0}
    PROVE  [r EXCEPT !.party = id] \in Sd
BY DEF Sd, Data

LEMMA CopyIs ==
    ASSUME NEW c \in Copy
    PROVE  /\ c.slots \in ShownSlots /\ c.data \in SUBSET Place /\ c.loaded \in BOOLEAN /\ c.exp \in BOOLEAN
           /\ \A s \in Place : /\ c.slots[s].p \in Player \union {0} /\ c.slots[s].online \in BOOLEAN
                               /\ c.slots[s].leader \in BOOLEAN
           /\ \A s \in c.data : c.slots[s].p \in Player
<1>1. /\ c.slots \in ShownSlots /\ c.data \in SUBSET Place /\ c.loaded \in BOOLEAN /\ c.exp \in BOOLEAN
      /\ \A s \in c.data : c.slots[s].p # 0
  BY DEF Copy
<1> QED BY <1>1 DEF ShownSlots

\* Who is named by data is there.
LEMMA DataIs ==
    ASSUME NEW c \in Copy, NEW slots \in ShownSlots, NEW data \in SUBSET Place,
           \A s \in data : slots[s].p # 0
    PROVE  [c EXCEPT !.slots = slots, !.data = data] \in Copy
<1> DEFINE n == [c EXCEPT !.slots = slots, !.data = data]
<1>1. /\ n \in [loaded : BOOLEAN, slots : ShownSlots, data : SUBSET Place, exp : BOOLEAN]
      /\ n.slots = slots /\ n.data = data
  BY DEF Copy
<1> HIDE DEF n
<1> QED BY <1>1 DEF Copy, n

LEMMA SdCheckIs ==
    ASSUME NEW m \in MState, NEW id \in PartyId, NEW p \in Player
    PROVE  LET c == SdCheck(m, id, p)
           IN  c.m \in MState /\ c.ok \in BOOLEAN /\ c.m.local = m.local
<1>1. m.sd[p] \in Sd
  BY OneIs
<1>2. Leave(id, p) \in ToChar
  BY DEF Leave, ToChar
<1>3. Sent(m, Leave(id, p)) \in MState /\ Sent(m, Leave(id, p)).local = m.local
  BY <1>2, SentIs
<1> DEFINE r == [m.sd[p] EXCEPT !.party = id]
           n == [m EXCEPT !.sd[p].party = id]
<1>4. r \in Sd
  BY <1>1, PartyOfIs
<1>5. n \in MState /\ n.local = m.local
  <2>1. n = [m EXCEPT !.sd[p] = r]
    OBVIOUS
  <2> HIDE DEF r
  <2> QED BY <1>4, <2>1, SdWritten
<1> HIDE DEF n
<1> QED BY <1>3, <1>5 DEF SdCheck, n

LEMMA NextLeaderIs ==
    ASSUME NEW slots \in ShownSlots, NextLeader(slots) # {}
    PROVE  slots[Min(NextLeader(slots))].p \in Player
<1> DEFINE online == {s \in Place : slots[s].p # 0 /\ slots[s].online}
           any == {s \in Place : slots[s].p # 0}
           next == NextLeader(slots)
<1>1. online \in SUBSET Nat /\ any \in SUBSET Nat
  BY PlaceIs
<1>2. \A s \in any : slots[s].p \in Player
  BY DEF ShownSlots
<1>3. next = IF online # {} THEN {Min(online)} ELSE IF any # {} THEN {Min(any)} ELSE {}
  BY DEF NextLeader
<1>4. online \subseteq any
  OBVIOUS
<1> HIDE DEF online, any
<1>5. (online # {} => Min(online) \in online) /\ (any # {} => Min(any) \in any)
  BY <1>1, MinIs
<1>6. PICK s \in any : next = {s}
  BY <1>3, <1>4, <1>5
<1>7. Min({s}) = s
  <2>1. {s} \in SUBSET Nat /\ {s} # {}
    BY <1>1
  <2> QED BY <2>1, MinIs
<1> QED BY <1>2, <1>6, <1>7

LEMMA MemberOutIs ==
    ASSUME NEW m \in MState, NEW id \in PartyId, NEW p \in Player
    PROVE  MemberOut(m, id, p) \in MState /\ MemberOut(m, id, p).sd = m.sd
<1> DEFINE c == m.local[id]
           places == PlacesOf(m, id, p)
           s == Min(places)
           led == c.slots[s].leader
           none == Shown(NotInMemory.slots)[s]
           slots == [c.slots EXCEPT ![s] = none]
           next == IF led THEN NextLeader(slots) ELSE {}
           leads == [k \in Place |-> [slots[k] EXCEPT !.leader = @ \/ k \in next]]
           data == c.data \ {s}
           gets == [c EXCEPT !.slots = leads, !.data = data]
           out == [m EXCEPT !.local[id].slots = leads, !.local[id].data = @ \ {s}]
           msg == [type |-> "leader", id |-> id, p |-> slots[Min(next)].p]
<1>1. c \in Copy
  BY OneIs
<1>2. CASE ~HasCopy(m, id) \/ places = {}
  BY <1>2, PlaceIs DEF MemberOut
<1>3. CASE HasCopy(m, id) /\ places # {}
  <2>1. s \in Place
    <3>1. places \in SUBSET Nat /\ places \subseteq Place
      BY PlaceIs DEF PlacesOf
    <3>2. s \in places
      BY <1>3, <3>1, MinIs
    <3> QED BY <3>1, <3>2
  <2>2. none = [p |-> 0, online |-> FALSE, leader |-> FALSE]
    <3> HIDE DEF s
    <3> QED BY <2>1 DEF Shown, NotInMemory, NoMember
  <2>3. MemberOut(m, id, p) = IF next = {} THEN out ELSE Sent(out, msg)
    BY <1>3 DEF MemberOut
  <2> HIDE DEF s, none
  <2>4. slots \in ShownSlots /\ (\A k \in Place \ {s} : slots[k] = c.slots[k])
    BY <1>1, <2>1, <2>2, CopyIs DEF ShownSlots
  <2>5. next # {} => slots[Min(next)].p \in Player
    BY <2>4, NextLeaderIs
  <2> HIDE DEF slots, next
  <2>6. leads \in ShownSlots /\ \A k \in Place : leads[k].p = slots[k].p
    BY <2>4 DEF ShownSlots
  <2> HIDE DEF leads
  <2>7. gets \in Copy
    <3>1. data \in SUBSET Place /\ \A k \in data : leads[k].p # 0
      <4>1. c.data \in SUBSET Place /\ \A k \in c.data : c.slots[k].p \in Player
        BY <1>1, CopyIs
      <4> HIDE DEF c
      <4>2. ASSUME NEW k \in data PROVE leads[k].p = c.slots[k].p /\ c.slots[k].p \in Player
        BY <2>4, <2>6, <4>1
      <4> QED BY <4>1, <4>2, PlaceIs
    <3> HIDE DEF c, data
    <3> QED BY <1>1, <2>6, <3>1, DataIs
  <2>8. out = [m EXCEPT !.local[id] = gets]
    BY DEF MState
  <2> HIDE DEF gets
  <2>9. out \in MState /\ out.sd = m.sd
    BY <2>7, <2>8, CopyWritten
  <2> HIDE DEF out
  <2>10. next # {} => Sent(out, msg) \in MState /\ Sent(out, msg).sd = out.sd
    <3>1. next # {} => msg \in ToChar
      BY <2>5 DEF ToChar
    <3> HIDE DEF msg
    <3> QED BY <2>9, <3>1, SentIs
  <2> QED BY <2>3, <2>9, <2>10
<1> QED BY <1>2, <1>3

LEMMA MemberWithdrawIs ==
    ASSUME NEW m \in MState, NEW id \in PartyId, NEW p \in Player
    PROVE  MemberWithdraw(m, id, p) \in MState
<1> DEFINE out == MemberOut(m, id, p)
           r == [out.sd[p] EXCEPT !.party = 0]
<1>1. out \in MState
  BY MemberOutIs
<1>2. MemberWithdraw(m, id, p) \in {out, [out EXCEPT !.sd[p] = r]}
  BY DEF MemberWithdraw
<1> HIDE DEF out
<1>3. r \in Sd
  BY <1>1, OneIs, PartyOfIs
<1> HIDE DEF r
<1> QED BY <1>1, <1>2, <1>3, SdWritten

LEMMA NoCopyIs == NoCopy \in Copy /\ Shown(NotInMemory.slots) \in ShownSlots
<1>1. Shown(NotInMemory.slots) = [s \in Place |-> [p |-> 0, online |-> FALSE, leader |-> FALSE]]
  BY DEF Shown, NotInMemory, NoMember
<1>2. Shown(NotInMemory.slots) \in ShownSlots
  BY <1>1 DEF ShownSlots
<1> QED BY <1>2 DEF NoCopy, Copy

LEMMA PartyBrokenIs ==
    ASSUME NEW m \in MState, NEW id \in PartyId
    PROVE  PartyBroken(m, id) \in MState
<1> DEFINE there == {m.local[id].slots[s].p : s \in m.local[id].data}
           sds == [p \in Player |-> IF p \in there THEN [m.sd[p] EXCEPT !.party = 0] ELSE m.sd[p]]
           n == [m EXCEPT !.local[id] = NoCopy, !.sd = sds]
<1>1. PartyBroken(m, id) \in {m, n}
  BY DEF PartyBroken
<1>2. sds \in [Player -> Sd]
  BY OneIs, PartyOfIs
<1> HIDE DEF sds
<1>3. n \in MState
  BY <1>2, NoCopyIs DEF MState
<1> HIDE DEF n
<1> QED BY <1>1, <1>3

LEMMA ChrifSaveIs ==
    ASSUME NEW m \in MState, NEW p \in Player, m.sd[p].online, NEW quits \in BOOLEAN
    PROVE  ChrifSave(m, p, quits) \in MState /\ ChrifSave(m, p, quits).sd = m.sd
           /\ ChrifSave(m, p, quits).local = m.local
<1> DEFINE msg == [type |-> "char", p |-> p, party |-> m.sd[p].party, lv |-> m.sd[p].lv,
                   quits |-> quits]
<1>1. m.sd[p] \in Sd
  BY OneIs
<1>2. m.sd[p].party \in PartyId \union {0} /\ m.sd[p].lv \in Level
  BY <1>1 DEF Sd, Data
<1>3. msg \in ToChar
  BY <1>2 DEF ToChar
<1>4. ChrifSave(m, p, quits) \in {m, Sent(m, msg)}
  BY DEF ChrifSave
<1> HIDE DEF msg
<1> QED BY <1>3, <1>4, SentIs

-----------------------------------------------------------------------------
(* What a party_info says: place by place. *)

Hindmost == [s \in SUBSET Place |-> Max(s)]

LEMMA LastIs ==
    /\ Chooses(Hindmost, Place) /\ DOMAIN Places = Place
    /\ \A s \in SUBSET Place : s # {} => Hindmost[s] = Max(s) /\ Max(s) \in s /\ Places[Max(s)] = Max(s)
<1>1. ASSUME NEW s \in SUBSET Place, s # {} PROVE Hindmost[s] = Max(s) /\ Max(s) \in s
  <2>1. IsFiniteSet(s)
    BY PlaceIs, FS_Subset
  <2>2. \A x \in s : x \in Int
    BY PlaceIs
  <2> QED BY <1>1, <2>1, <2>2, MaxIs DEF Hindmost
<1> QED BY <1>1 DEF Chooses, Places

\* One after the other is withdrawn.
LEMMA WithdrawnIs ==
    ASSUME NEW m \in MState, NEW id \in PartyId, NEW old \in Copy, NEW removed \in SUBSET old.data
    PROVE  LET Out(n, k) == LET s == MaxParty + 1 - k
                            IN  IF s \in removed THEN MemberWithdraw(n, id, old.slots[s].p) ELSE n
           IN  FoldLeft(Out, m, Places) \in MState
<1> DEFINE Out(n, k) == LET s == MaxParty + 1 - k
                        IN  IF s \in removed THEN MemberWithdraw(n, id, old.slots[s].p) ELSE n
           IsFold(run) == run = [s \in SUBSET DOMAIN Places |-> IF s = {} THEN m ELSE
                                    Out(run[s \ {Max(s)}], Places[Max(s)])]
           run == CHOOSE r : IsFold(r)
           F == [nk \in MState \X Place |-> Out(nk[1], nk[2])]
           N == [s \in SUBSET Place |-> MState]
<1>1. ASSUME NEW n \in MState, NEW k \in Place PROVE Out(n, k) \in MState
  BY CopyIs, MemberWithdrawIs
<1> HIDE DEF Out
<1>2. F \in [MState \X Place -> MState]
  BY <1>1
<1>3. PICK r : IsRun(r, Place, Hindmost, MState, m, F)
  <2>1. Maps(F, MState, Place)
    BY <1>2 DEF Maps
  <2> HIDE DEF F
  <2> QED BY <2>1, PlaceIs, LastIs, RunExists
<1>4. IsFold(r)
  <2>1. ASSUME NEW s \in SUBSET Place, s # {}
        PROVE  r[s] = Out(r[s \ {Max(s)}], Places[Max(s)])
    <3>1. r[s \ {Max(s)}] \in MState /\ Max(s) \in Place /\ Hindmost[s] = Max(s) /\ Places[Max(s)] = Max(s)
      BY <1>3, <2>1, LastIs DEF IsRun
    <3>2. r[s] = F[<<r[s \ {Max(s)}], Max(s)>>]
      BY <1>3, <2>1, <3>1 DEF IsRun
    <3> QED BY <3>1, <3>2
  <2> QED BY <1>3, <2>1, LastIs DEF IsRun
<1>5. IsFold(run)
  BY <1>4
<1>6. FoldLeft(Out, m, Places) = run[DOMAIN Places]
  BY Zenon DEF FoldLeft, MapThenFoldSet
<1> HIDE DEF run
<1>7. run[{}] \in N[{}]
  BY <1>5, LastIs
<1>8. ASSUME NEW s \in SUBSET Place, s # {}, run[s \ {Hindmost[s]}] \in N[s \ {Hindmost[s]}]
      PROVE  run[s] \in N[s]
  <2>1. Hindmost[s] = Max(s) /\ Max(s) \in s /\ Places[Max(s)] = Max(s) /\ DOMAIN Places = Place
    BY <1>8, LastIs
  <2>2. run[s \ {Max(s)}] \in MState
    BY <1>8, <2>1
  <2>3. run[s] = Out(run[s \ {Max(s)}], Max(s))
    BY <1>5, <1>8, <2>1
  <2> QED BY <1>1, <1>8, <2>1, <2>2, <2>3
<1>9. \A s \in SUBSET Place : run[s] \in N[s]
  <2> HIDE DEF N
  <2> QED BY <1>7, <1>8, PlaceIs, LastIs, RunIsIn
<1> QED BY <1>6, <1>9, LastIs DEF Out

\* The copy of id names who the message names.
Naming(id, slots) == {n \in MState : \A s \in Place : n.local[id].slots[s].p = slots[s].p}

LEMMA CheckedIs ==
    ASSUME NEW n \in MState, NEW id \in PartyId, NEW slots \in ShownSlots, n \in Naming(id, slots),
           NEW s \in Place, slots[s].p # 0
    PROVE  LET c == SdCheck(n, id, slots[s].p)
           IN  (IF c.ok THEN [c.m EXCEPT !.local[id].data = @ \union {s}] ELSE c.m) \in Naming(id, slots)
<1> DEFINE c == SdCheck(n, id, slots[s].p)
           was == c.m.local[id]
           data == was.data \union {s}
           gets == [was EXCEPT !.slots = was.slots, !.data = data]
           d == [c.m EXCEPT !.local[id].data = @ \union {s}]
<1>1. c.m \in MState /\ c.m.local = n.local
  <2>1. slots[s].p \in Player
    BY DEF ShownSlots
  <2> QED BY <2>1, SdCheckIs
<1> HIDE DEF c
<1>2. was \in Copy /\ \A k \in Place : was.slots[k].p = slots[k].p
  BY <1>1, OneIs DEF Naming
<1>3. d = [c.m EXCEPT !.local[id] = gets]
  <2>1. gets = [was EXCEPT !.data = data]
    BY <1>2 DEF Copy
  <2> QED BY <1>1, <2>1 DEF MState
<1>4. gets \in Copy /\ gets.slots = was.slots
  <2>1. was.slots \in ShownSlots /\ data \in SUBSET Place /\ \A k \in data : was.slots[k].p # 0
    BY <1>2, CopyIs, PlaceIs
  <2>2. gets.slots = was.slots
    BY <1>2 DEF Copy
  <2> HIDE DEF was, data
  <2> QED BY <1>2, <2>1, <2>2, DataIs
<1> HIDE DEF gets
<1>5. d \in MState /\ d.local = [c.m.local EXCEPT ![id] = gets]
  BY <1>1, <1>3, <1>4, CopyWritten
<1> HIDE DEF d
<1>6. d \in Naming(id, slots)
  <2>1. d.local[id] = gets
    BY <1>1, <1>5 DEF MState
  <2> QED BY <1>2, <1>4, <1>5, <2>1 DEF Naming
<1>7. c.m \in Naming(id, slots)
  BY <1>1, <1>2 DEF Naming
<1> QED BY <1>6, <1>7 DEF d, c

\* One after the other is looked up.
LEMMA LookedUpIs ==
    ASSUME NEW id \in PartyId, NEW slots \in ShownSlots, NEW m \in Naming(id, slots)
    PROVE  LET Check(n, s) == LET c == SdCheck(n, id, slots[s].p)
                              IN  IF slots[s].p = 0 THEN n
                                  ELSE IF c.ok THEN [c.m EXCEPT !.local[id].data = @ \union {s}] ELSE c.m
           IN  FoldLeft(Check, m, Places) \in MState
<1> DEFINE Check(n, s) == LET c == SdCheck(n, id, slots[s].p)
                          IN  IF slots[s].p = 0 THEN n
                              ELSE IF c.ok THEN [c.m EXCEPT !.local[id].data = @ \union {s}] ELSE c.m
           M == Naming(id, slots)
           IsFold(run) == run = [s \in SUBSET DOMAIN Places |-> IF s = {} THEN m ELSE
                                    Check(run[s \ {Max(s)}], Places[Max(s)])]
           run == CHOOSE r : IsFold(r)
           F == [nk \in M \X Place |-> Check(nk[1], nk[2])]
           N == [s \in SUBSET Place |-> M]
<1>1. ASSUME NEW n \in M, NEW k \in Place PROVE Check(n, k) \in M
  <2>1. n \in MState
    BY DEF Naming
  <2>2. CASE slots[k].p = 0
    BY <2>2
  <2>3. CASE slots[k].p # 0
    BY <2>1, <2>3, CheckedIs
  <2> QED BY <2>2, <2>3
<1> HIDE DEF Check
<1>2. M \subseteq MState
  BY DEF Naming
<1> HIDE DEF M
<1>3. F \in [M \X Place -> M]
  BY <1>1
<1>4. PICK r : IsRun(r, Place, Hindmost, M, m, F)
  <2>1. Maps(F, M, Place) /\ m \in M
    BY <1>3 DEF Maps, M
  <2> HIDE DEF F
  <2> QED BY <2>1, PlaceIs, LastIs, RunExists
<1>5. IsFold(r)
  <2>1. ASSUME NEW s \in SUBSET Place, s # {}
        PROVE  r[s] = Check(r[s \ {Max(s)}], Places[Max(s)])
    <3>1. r[s \ {Max(s)}] \in M /\ Max(s) \in Place /\ Hindmost[s] = Max(s) /\ Places[Max(s)] = Max(s)
      BY <1>4, <2>1, LastIs DEF IsRun
    <3>2. r[s] = F[<<r[s \ {Max(s)}], Max(s)>>]
      BY <1>4, <2>1, <3>1 DEF IsRun
    <3> QED BY <3>1, <3>2
  <2> QED BY <1>4, <2>1, LastIs DEF IsRun
<1>6. IsFold(run)
  BY <1>5
<1>7. FoldLeft(Check, m, Places) = run[DOMAIN Places]
  BY Zenon DEF FoldLeft, MapThenFoldSet
<1> HIDE DEF run
<1>8. run[{}] \in N[{}]
  BY <1>6, LastIs DEF M
<1>9. ASSUME NEW s \in SUBSET Place, s # {}, run[s \ {Hindmost[s]}] \in N[s \ {Hindmost[s]}]
      PROVE  run[s] \in N[s]
  <2>1. Hindmost[s] = Max(s) /\ Max(s) \in s /\ Places[Max(s)] = Max(s) /\ DOMAIN Places = Place
    BY <1>9, LastIs
  <2>2. run[s \ {Max(s)}] \in M
    BY <1>9, <2>1
  <2>3. run[s] = Check(run[s \ {Max(s)}], Max(s))
    BY <1>6, <1>9, <2>1
  <2> QED BY <1>1, <1>9, <2>1, <2>2, <2>3
<1>10. \A s \in SUBSET Place : run[s] \in N[s]
  <2> HIDE DEF N
  <2> QED BY <1>8, <1>9, PlaceIs, LastIs, RunIsIn
<1> QED BY <1>2, <1>7, <1>10, LastIs DEF Check

LEMMA RecvInfoIs ==
    ASSUME NEW m \in MState, NEW msg \in ToMap, msg.type = "info"
    PROVE  RecvInfo(m, msg) \in MState
<1> DEFINE id == msg.id
           old == m.local[id]
           In(slots, p) == \E k \in Place : slots[k].p = p
           removed == {s \in old.data : ~In(msg.slots, old.slots[s].p)}
           Out(n, k) == LET s == MaxParty + 1 - k
                        IN  IF s \in removed THEN MemberWithdraw(n, id, old.slots[s].p) ELSE n
           without == FoldLeft(Out, m, Places)
           Leader(s) == msg.slots[s].leader \/ msg.slots[s].p \in LedBefore(old, msg.slots)
           slots == [s \in Place |-> [msg.slots[s] EXCEPT !.leader = Leader(s)]]
           copy == [loaded |-> TRUE, data |-> {}, exp |-> msg.exp, slots |-> slots]
           read == [without EXCEPT !.local[id] = copy]
           Check(n, s) == LET c == SdCheck(n, id, msg.slots[s].p)
                          IN  IF msg.slots[s].p = 0 THEN n
                              ELSE IF c.ok THEN [c.m EXCEPT !.local[id].data = @ \union {s}] ELSE c.m
           done == FoldLeft(Check, read, Places)
           alone == msg.p # 0 /\ done.sd[msg.p].online /\ done.sd[msg.p].party = id /\ ~In(msg.slots, msg.p)
           r == [done.sd[msg.p] EXCEPT !.party = 0]
<1>1. id \in PartyId /\ msg.slots \in ShownSlots /\ msg.exp \in BOOLEAN /\ msg.p \in Player \union {0}
  BY DEF ToMap
<1>2. without \in MState
  <2>1. old \in Copy
    BY <1>1, OneIs
  <2>2. removed \in SUBSET old.data
    OBVIOUS
  <2> HIDE DEF removed, old, id
  <2> QED BY <1>1, <2>1, <2>2, WithdrawnIs
<1>3. slots \in ShownSlots /\ \A s \in Place : slots[s].p = msg.slots[s].p
  <2> SUFFICES ASSUME NEW s \in Place
               PROVE  /\ slots[s] \in [p : Player \union {0}, online : BOOLEAN, leader : BOOLEAN]
                      /\ slots[s].p = msg.slots[s].p
    BY DEF ShownSlots
  <2>1. msg.slots[s] \in [p : Player \union {0}, online : BOOLEAN, leader : BOOLEAN]
    BY <1>1 DEF ShownSlots
  <2>2. Leader(s) \in BOOLEAN
    BY <2>1
  <2> HIDE DEF Leader
  <2> QED BY <2>1, <2>2
<1> HIDE DEF slots
<1>4. copy \in Copy /\ copy.slots = slots
  BY <1>1, <1>3 DEF Copy
<1> HIDE DEF copy, without
<1>5. read \in Naming(id, msg.slots)
  <2>1. read \in MState /\ read.local = [without.local EXCEPT ![id] = copy]
    BY <1>1, <1>2, <1>4, CopyWritten
  <2>2. read.local[id] = copy
    BY <1>1, <1>2, <2>1 DEF MState
  <2> QED BY <1>3, <1>4, <2>1, <2>2 DEF Naming
<1> HIDE DEF read
<1>6. done \in MState
  BY <1>1, <1>5, LookedUpIs
<1>7. RecvInfo(m, msg) = IF alone THEN [done EXCEPT !.sd[msg.p].party = 0] ELSE done
  BY Zenon DEF RecvInfo, without, read, copy, slots
<1> HIDE DEF done
<1>8. msg.p # 0 => [done EXCEPT !.sd[msg.p].party = 0] \in MState
  <2> SUFFICES ASSUME msg.p # 0 PROVE [done EXCEPT !.sd[msg.p].party = 0] \in MState
    OBVIOUS
  <2>1. msg.p \in Player
    BY <1>1
  <2>2. r \in Sd
    BY <1>6, <2>1, OneIs, PartyOfIs
  <2>3. [done EXCEPT !.sd[msg.p].party = 0] = [done EXCEPT !.sd[msg.p] = r]
    OBVIOUS
  <2> HIDE DEF r
  <2> QED BY <1>6, <2>1, <2>2, <2>3, SdWritten
<1> QED BY <1>6, <1>7, <1>8

-----------------------------------------------------------------------------
(* The steps of the map-server. *)

\* What a player or a message has the map-server do.
LEMMA DoesIs ==
    ASSUME IInv, NEW m \in MState, NEW more \in SUBSET Slip, Does(m, more),
           toMap' \in Seq(ToMap), up \/ toMap' = << >>, UNCHANGED <<charVars, Fixed>>
    PROVE  IInv'
<1>1. /\ sd' = m.sd /\ local' = m.local /\ toChar' = toChar \o m.out
      /\ slips \subseteq slips' /\ slips' \subseteq Slip
  <2>1. slips \subseteq Slip
    BY DEF IInv, Typed
  <2> QED BY <2>1 DEF Does, Slip
<1>2. m.sd \in [Player -> Sd] /\ m.local \in [PartyId -> Copy] /\ m.out \in Seq(ToChar)
      /\ (up \/ m.out = << >>)
  BY DEF MState
<1>3. MapTyped'
  BY <1>1, <1>2 DEF MapTyped
<1>4. CharTyped'
  BY DEF IInv, Typed, CharTyped, charVars
<1>5. LinkTyped'
  <2>1. toChar \in Seq(ToChar) /\ (~up => toChar = << >>) /\ up \in BOOLEAN /\ losses \in 0..MaxLosses
    BY DEF IInv, Typed, LinkTyped
  <2>2. toChar' \in Seq(ToChar)
    BY <1>1, <1>2, <2>1
  <2>3. ~up => toChar' = << >>
    BY <1>1, <1>2, <2>1
  <2> QED BY <2>1, <2>2, <2>3 DEF LinkTyped, Fixed
<1>6. Typed'
  BY <1>1, <1>3, <1>4, <1>5 DEF IInv, Typed, charVars
<1> QED BY <1>1, <1>6 DEF IInv, charVars

LEMMA InvIs ==
    ASSUME IInv
    PROVE  /\ Now \in MState /\ Now.sd = sd /\ Now.local = local
           /\ toMap \in Seq(ToMap) /\ (up \/ toMap = << >>)
           /\ toChar \in Seq(ToChar) /\ up \in BOOLEAN /\ (up \/ toChar = << >>)
           /\ \A p \in Player : sd[p] \in Sd
           /\ \A id \in PartyId : local[id] \in Copy
           /\ {} \in SUBSET Slip /\ {"two"} \in SUBSET Slip /\ {"away"} \in SUBSET Slip
           /\ {"crossed"} \in SUBSET Slip /\ {"doubled"} \in SUBSET Slip
BY NowIs DEF IInv, Typed, LinkTyped, MapTyped, Slip

\* A message from the other side.
LEMMA FromCharIs ==
    ASSUME IInv, NEW type, FromChar(type)
    PROVE  /\ toMap # << >> /\ Head(toMap) \in ToMap /\ Head(toMap).type = type
           /\ toMap' \in Seq(ToMap) /\ up
BY InvIs DEF FromChar

LEMMA SdFields ==
    ASSUME NEW r \in Sd
    PROVE  /\ r.party \in PartyId \union {0} /\ (r.online \/ r.waiting => r.lv \in Level)
           /\ \A b \in BOOLEAN : [r EXCEPT !.creating = b] \in Sd /\ [r EXCEPT !.joining = b] \in Sd
           /\ \A id \in PartyId \union {0} : [r EXCEPT !.invite = id] \in Sd
           /\ \A lv \in Level : [r EXCEPT !.lv = lv] \in Sd
           /\ [r EXCEPT !.waiting = FALSE] \in Sd
BY DEF Sd, Data

LEMMA AwayIs ==
    ASSUME NEW id \in PartyId \union {0}, NEW lv \in Level
    PROVE  /\ [Away EXCEPT !.online = TRUE, !.party = id, !.lv = lv] \in Sd
           /\ [Away EXCEPT !.waiting = TRUE, !.party = id, !.lv = lv] \in Sd
BY DEF Away, Sd, Data

LEMMA PartyCreateIs ==
    ASSUME IInv, NEW p \in Player, PartyCreate(p)
    PROVE  IInv'
<1> DEFINE r == [sd[p] EXCEPT !.creating = TRUE]
           msg == [type |-> "create", p |-> p, lv |-> sd[p].lv]
           m == [Now EXCEPT !.sd[p] = r]
<1>1. r \in Sd /\ msg \in ToChar
  BY InvIs, SdFields DEF PartyCreate, ToChar
<1>2. [Now EXCEPT !.sd[p].creating = TRUE] = m
  BY InvIs
<1> HIDE DEF r
<1>3. m \in MState
  BY <1>1, InvIs, SdWritten
<1> HIDE DEF m, msg
<1>4. Sent(m, msg) \in MState
  BY <1>1, <1>3, SentIs
<1>5. Does(Sent(m, msg), {}) /\ UNCHANGED <<charVars, toMap, Fixed>>
  BY <1>2 DEF PartyCreate, msg
<1> QED BY <1>4, <1>5, InvIs, DoesIs

\* sd' is written without a message.
LEMMA SdOnly ==
    ASSUME IInv, NEW p \in Player, NEW r \in Sd, sd' = [sd EXCEPT ![p] = r],
           UNCHANGED <<local, charVars, toChar, Fixed, slips>>,
           toMap' \in Seq(ToMap), up \/ toMap' = << >>
    PROVE  IInv'
<1>1. MapTyped'
  BY DEF IInv, Typed, MapTyped
<1>2. CharTyped' /\ LinkTyped'
  BY DEF IInv, Typed, CharTyped, LinkTyped, charVars, Fixed
<1> QED BY <1>1, <1>2 DEF IInv, Typed, charVars

LEMMA PartyInviteIs ==
    ASSUME IInv, NEW p \in Player, NEW t \in Player, PartyInvite(p, t)
    PROVE  IInv'
<1> DEFINE r == [sd[t] EXCEPT !.invite = sd[p].party]
<1>1. r \in Sd
  BY InvIs, SdFields
<1>2. sd' = [sd EXCEPT ![t] = r] /\ UNCHANGED <<local, charVars, toChar, toMap, Fixed, slips>>
  BY DEF PartyInvite
<1> HIDE DEF r
<1> QED BY <1>1, <1>2, InvIs, SdOnly

LEMMA PartyReplyInviteIs ==
    ASSUME IInv, NEW p \in Player, NEW accept \in BOOLEAN, PartyReplyInvite(p, accept)
    PROVE  IInv'
<1> DEFINE joins == [sd[p] EXCEPT !.joining = TRUE]
           refuses == [sd[p] EXCEPT !.invite = 0]
           msg == [type |-> "add", id |-> sd[p].invite, p |-> p, lv |-> sd[p].lv]
           more == IF sd[p].party # 0 THEN {"two"} ELSE {}
           m == [Now EXCEPT !.sd[p] = joins]
           n == [Now EXCEPT !.sd[p] = refuses]
<1>1. joins \in Sd /\ refuses \in Sd
  BY InvIs, SdFields
<1>2. sd[p].invite \in PartyId /\ sd[p].lv \in Level
  BY InvIs DEF PartyReplyInvite, Sd, Data
<1>3. msg \in ToChar
  BY <1>2 DEF ToChar
<1>4. [Now EXCEPT !.sd[p].joining = TRUE] = m /\ [Now EXCEPT !.sd[p].invite = 0] = n
  BY InvIs
<1>5. Does(Sent(m, msg), more) \/ Does(n, {})
  BY <1>4 DEF PartyReplyInvite
<1>6. UNCHANGED <<charVars, toMap, Fixed>>
  BY DEF PartyReplyInvite
<1>7. more \in SUBSET Slip
  BY InvIs
<1> HIDE DEF joins, refuses, msg, more
<1>8. m \in MState /\ n \in MState
  BY <1>1, InvIs, SdWritten
<1> HIDE DEF m, n
<1>9. Sent(m, msg) \in MState
  BY <1>3, <1>8, SentIs
<1>10. CASE Does(Sent(m, msg), more)
  BY <1>6, <1>7, <1>9, <1>10, InvIs, DoesIs
<1>11. CASE Does(n, {})
  BY <1>6, <1>8, <1>11, InvIs, DoesIs
<1> QED BY <1>5, <1>10, <1>11

\* What is only asked for.
LEMMA AsksIs ==
    ASSUME IInv, NEW msg \in ToChar, Does(Sent(Now, msg), {}), UNCHANGED <<charVars, toMap, Fixed>>
    PROVE  IInv'
<1>1. Sent(Now, msg) \in MState
  BY InvIs, SentIs
<1> QED BY <1>1, InvIs, DoesIs

LEMMA InPartyIs ==
    ASSUME IInv, NEW p \in Player, sd[p].online
    PROVE  /\ sd[p].lv \in Level /\ sd[p].party \in PartyId \union {0}
           /\ HasCopy(Now, sd[p].party) => sd[p].party \in PartyId
BY InvIs, SdFields DEF HasCopy

LEMMA AskingIs ==
    ASSUME IInv, NEW p \in Player, NEW t \in Player, NEW exp \in BOOLEAN,
           PartyLeaves(p) \/ PartyRemoveMember(p, t) \/ PartyChangeOptionReq(p, exp)
           \/ PartySendMovemap(p)
    PROVE  IInv'
<1>1. CASE PartyLeaves(p)
  <2>1. Leave(sd[p].party, p) \in ToChar
    BY <1>1, InPartyIs DEF PartyLeaves, Leave, ToChar
  <2> QED BY <1>1, <2>1, AsksIs DEF PartyLeaves
<1>2. CASE PartyRemoveMember(p, t)
  <2>1. Leave(sd[p].party, t) \in ToChar
    BY <1>2, InPartyIs DEF PartyRemoveMember, Leads, Leave, ToChar
  <2> QED BY <1>2, <2>1, AsksIs DEF PartyRemoveMember
<1>3. CASE PartyChangeOptionReq(p, exp)
  <2>1. [type |-> "option", id |-> sd[p].party, exp |-> exp] \in ToChar
    BY <1>3, InPartyIs DEF PartyChangeOptionReq, LeadsByData, ToChar
  <2> QED BY <1>3, <2>1, AsksIs DEF PartyChangeOptionReq
<1>4. CASE PartySendMovemap(p)
  <2>1. Moves(p, TRUE, sd[p].lv) \in ToChar
    BY <1>4, InPartyIs DEF PartySendMovemap, Moves, ToChar
  <2> QED BY <1>4, <2>1, AsksIs DEF PartySendMovemap
<1> QED BY <1>1, <1>2, <1>3, <1>4

LEMMA PartyChangeLeaderIs ==
    ASSUME IInv, NEW p \in Player, NEW t \in Player, PartyChangeLeader(p, t)
    PROVE  IInv'
<1> DEFINE id == sd[p].party
           c == Now.local[id]
           there == {s \in local[id].data : local[id].slots[s].p = t}
           was == {s \in local[id].data : local[id].slots[s].p = p}
           lead == (Leaders(local[id].slots) \ was) \union there
           slots == [s \in Place |-> [c.slots[s] EXCEPT !.leader = s \in lead]]
           gets == [c EXCEPT !.slots = slots, !.data = c.data]
           m == [Now EXCEPT !.local[id] = gets]
           msg == [type |-> "leader", id |-> id, p |-> t]
<1>1. id \in PartyId /\ UNCHANGED <<charVars, toMap, Fixed>>
  BY InPartyIs DEF PartyChangeLeader, LeadsByData
<1>2. c \in Copy
  BY <1>1, InvIs
<1>3. Does(Sent([Now EXCEPT !.local[id].slots = slots], msg), {})
  BY DEF PartyChangeLeader
<1> HIDE DEF lead
<1>4. slots \in ShownSlots /\ \A s \in Place : slots[s].p = c.slots[s].p
  <2>1. c.slots \in ShownSlots
    BY <1>2, CopyIs
  <2>2. \A s \in Place : (s \in lead) \in BOOLEAN
    OBVIOUS
  <2> HIDE DEF c
  <2> QED BY <2>1, <2>2 DEF ShownSlots
<1>5. gets \in Copy
  <2>1. c.data \in SUBSET Place /\ \A s \in c.data : slots[s].p # 0
    <3>1. c.data \in SUBSET Place /\ \A s \in c.data : c.slots[s].p \in Player
      BY <1>2, CopyIs
    <3> HIDE DEF c, slots
    <3> QED BY <1>4, <3>1, PlaceIs
  <2> HIDE DEF c, slots
  <2> QED BY <1>2, <1>4, <2>1, DataIs
<1>6. msg \in ToChar
  BY <1>1 DEF ToChar
<1>7. [Now EXCEPT !.local[id].slots = slots] = m
  <2>1. gets = [c EXCEPT !.slots = slots]
    BY <1>2 DEF Copy
  <2> HIDE DEF slots, gets
  <2> QED BY <2>1, InvIs
<1> HIDE DEF gets, slots, msg, id
<1>8. m \in MState
  BY <1>1, <1>5, InvIs, CopyWritten
<1> HIDE DEF m
<1>9. Sent(m, msg) \in MState
  BY <1>6, <1>8, SentIs
<1> QED BY <1>1, <1>3, <1>7, <1>9, InvIs, DoesIs

LEMMA PartySendLevelupIs ==
    ASSUME IInv, NEW p \in Player, NEW lv \in Level, PartySendLevelup(p, lv)
    PROVE  IInv'
<1> DEFINE r == [sd[p] EXCEPT !.lv = lv]
           m == [Now EXCEPT !.sd[p] = r]
           msg == Moves(p, TRUE, lv)
<1>1. r \in Sd
  BY InvIs, SdFields
<1>2. m = [Now EXCEPT !.sd[p].lv = lv]
  BY InvIs
<1>3. sd[p].party # 0 => msg \in ToChar
  BY InPartyIs DEF PartySendLevelup, Moves, ToChar
<1>4. Does(IF sd[p].party = 0 THEN m ELSE Sent(m, msg), {}) /\ UNCHANGED <<charVars, toMap, Fixed>>
  BY <1>2 DEF PartySendLevelup
<1> HIDE DEF r
<1>5. m \in MState
  BY <1>1, InvIs, SdWritten
<1> HIDE DEF m, msg
<1>6. sd[p].party # 0 => Sent(m, msg) \in MState
  BY <1>3, <1>5, SentIs
<1>7. (IF sd[p].party = 0 THEN m ELSE Sent(m, msg)) \in MState
  BY <1>5, <1>6
<1> QED BY <1>4, <1>7, InvIs, DoesIs

LEMMA AutoSaveIs ==
    ASSUME IInv, NEW p \in Player, AutoSave(p)
    PROVE  IInv'
<1>1. ChrifSave(Now, p, FALSE) \in MState
  BY InvIs, ChrifSaveIs DEF AutoSave
<1> QED BY <1>1, InvIs, DoesIs DEF AutoSave

\* Who quits is saved, and its party told.
LEMMA MapQuitIs ==
    ASSUME IInv, NEW p \in Player, MapQuit(p)
    PROVE  IInv'
<1> DEFINE id == sd[p].party
           saved == ChrifSave(Now, p, TRUE)
           told == IF id = 0 THEN saved ELSE Sent(saved, Moves(p, FALSE, sd[p].lv))
           r == [Away EXCEPT !.waiting = TRUE, !.party = id, !.lv = sd[p].lv]
           out == [told EXCEPT !.sd[p] = r]
           c == out.local[id]
           data == c.data \ PlacesOf(out, id, p)
           gets == [c EXCEPT !.slots = c.slots, !.data = data]
           done == IF ~HasCopy(out, id) THEN out ELSE [out EXCEPT !.local[id].data = data]
<1>1. Does(done, {}) /\ UNCHANGED <<charVars, toMap, Fixed>>
  BY DEF MapQuit
<1>2. sd[p].lv \in Level /\ id \in PartyId \union {0} /\ sd[p].online
  BY InPartyIs DEF MapQuit
<1>3. saved \in MState
  BY <1>2, InvIs, ChrifSaveIs
<1>4. id # 0 => Moves(p, FALSE, sd[p].lv) \in ToChar
  BY <1>2 DEF Moves, ToChar
<1> HIDE DEF saved
<1>5. told \in MState
  BY <1>3, <1>4, SentIs
<1>6. r \in Sd
  BY <1>2, AwayIs
<1> HIDE DEF told, r
<1>7. out \in MState
  BY <1>5, <1>6, SdWritten
<1> HIDE DEF out
<1>8. ASSUME HasCopy(out, id) PROVE [out EXCEPT !.local[id].data = data] \in MState
  <2>1. id \in PartyId
    BY <1>2, <1>8 DEF HasCopy
  <2>2. c \in Copy
    BY <1>7, <2>1, OneIs
  <2>3. c.slots \in ShownSlots /\ data \in SUBSET Place /\ \A s \in data : c.slots[s].p # 0
    BY <2>2, CopyIs, PlaceIs
  <2>4. gets = [c EXCEPT !.data = data]
    BY <2>2 DEF Copy
  <2>5. [out EXCEPT !.local[id].data = data] = [out EXCEPT !.local[id] = gets]
    BY <2>4
  <2> HIDE DEF c, data, id
  <2>6. gets \in Copy
    BY <2>2, <2>3, DataIs
  <2> HIDE DEF gets
  <2> QED BY <1>7, <2>1, <2>5, <2>6, CopyWritten DEF c, data
<1>9. done \in MState
  BY <1>7, <1>8
<1> HIDE DEF done
<1> QED BY <1>1, <1>9, InvIs, DoesIs

-----------------------------------------------------------------------------
(* The map-server on a message. *)

\* Done with a message: from some other state than Now, by DoesIs.
LEMMA HandledIs ==
    ASSUME IInv, NEW type, FromChar(type), NEW m \in MState, NEW more \in SUBSET Slip, Does(m, more),
           UNCHANGED <<charVars, Fixed>>
    PROVE  IInv'
BY FromCharIs, DoesIs

LEMMA PartyCreatedIs ==
    ASSUME IInv, PartyCreated
    PROVE  IInv'
<1> DEFINE msg == Head(toMap)
           p == msg.p
           r == [sd[p] EXCEPT !.creating = FALSE]
           to == IF msg.id = 0 THEN sd[p].party ELSE msg.id
           q == [r EXCEPT !.party = to]
           m == [Now EXCEPT !.sd[p] = q]
           late == IF msg.id = 0 THEN Now ELSE Sent(Now, Leave(msg.id, p))
           done == IF ~sd[p].online \/ ~sd[p].creating THEN late ELSE m
<1>1. msg \in ToMap /\ msg.type = "created" /\ FromChar("created") /\ UNCHANGED <<charVars, Fixed>>
  BY FromCharIs DEF PartyCreated
<1>2. p \in Player /\ msg.id \in PartyId \union {0}
  <2> HIDE DEF msg
  <2> QED BY <1>1 DEF ToMap
<1>3. q \in Sd
  <2>1. r \in Sd
    BY <1>2, InvIs, SdFields
  <2>2. to \in PartyId \union {0}
    BY <1>2, InvIs, SdFields
  <2> HIDE DEF r, to
  <2> QED BY <2>1, <2>2, PartyOfIs
<1>4. m \in MState
  <2> HIDE DEF q, p
  <2> QED BY <1>2, <1>3, InvIs, SdWritten
<1>5. late \in MState
  <2>1. msg.id # 0 => Leave(msg.id, p) \in ToChar
    <3> HIDE DEF msg
    <3> QED BY <1>2 DEF Leave, ToChar
  <2> HIDE DEF p
  <2> QED BY <2>1, InvIs, SentIs
<1>6. [Now EXCEPT !.sd[p].creating = FALSE, !.sd[p].party = to] = m
  <2>1. q = [sd[p] EXCEPT !.creating = FALSE, !.party = to]
    <3>1. r \in Sd /\ sd[p] \in Sd
      BY <1>2, InvIs, SdFields
    <3> HIDE DEF msg
    <3> QED BY <3>1 DEF Sd, Data
  <2> HIDE DEF q, to, p
  <2> QED BY <1>2, <2>1, InvIs DEF MState
<1>7. Does(done, {})
  BY <1>6 DEF PartyCreated
<1>8. done \in MState
  <2> HIDE DEF late, m, p
  <2> QED BY <1>4, <1>5
<1> HIDE DEF done
<1> QED BY <1>1, <1>7, <1>8, InvIs, HandledIs

LEMMA PartyRecvNoinfoIs ==
    ASSUME IInv, PartyRecvNoinfo
    PROVE  IInv'
<1> DEFINE msg == Head(toMap)
           p == msg.p
           m == PartyBroken(Now, msg.id)
           r == [m.sd[p] EXCEPT !.party = 0]
           n == [m EXCEPT !.sd[p] = r]
           done == IF m.sd[p].online /\ m.sd[p].party = msg.id THEN n ELSE m
<1>1. msg \in ToMap /\ msg.type = "noinfo" /\ FromChar("noinfo") /\ UNCHANGED <<charVars, Fixed>>
  BY FromCharIs DEF PartyRecvNoinfo
<1>2. p \in Player /\ msg.id \in PartyId
  <2> HIDE DEF msg
  <2> QED BY <1>1 DEF ToMap
<1>3. Does(done, {})
  <2>1. Does(IF m.sd[p].online /\ m.sd[p].party = msg.id THEN [m EXCEPT !.sd[p].party = 0] ELSE m, {})
    BY DEF PartyRecvNoinfo
  <2>2. [m EXCEPT !.sd[p].party = 0] = n
    <3> HIDE DEF m, p
    <3> QED OBVIOUS
  <2> HIDE DEF m, n
  <2> QED BY <2>1, <2>2
<1> HIDE DEF msg
<1>4. m \in MState
  BY <1>2, InvIs, PartyBrokenIs
<1> HIDE DEF p, m
<1>5. r \in Sd
  BY <1>2, <1>4, OneIs, PartyOfIs
<1> HIDE DEF r
<1>6. n \in MState
  BY <1>2, <1>4, <1>5, SdWritten
<1> HIDE DEF n
<1>7. done \in MState
  BY <1>4, <1>6
<1> HIDE DEF done
<1> QED BY <1>1, <1>3, <1>7, InvIs, HandledIs DEF msg

LEMMA PartyRecvInfoIs ==
    ASSUME IInv, PartyRecvInfo
    PROVE  IInv'
<1> DEFINE more == InfoSlips(Head(toMap))
           m == RecvInfo(Now, Head(toMap))
<1>1. FromChar("info") /\ UNCHANGED <<charVars, Fixed>> /\ Does(m, more)
  BY DEF PartyRecvInfo
<1>2. m \in MState
  BY <1>1, FromCharIs, InvIs, RecvInfoIs
<1>3. more \in SUBSET Slip
  BY InvIs DEF InfoSlips
<1> HIDE DEF more, m
<1> QED BY <1>1, <1>2, <1>3, HandledIs

LEMMA PartyMemberAddedIs ==
    ASSUME IInv, PartyMemberAdded
    PROVE  IInv'
<1> DEFINE msg == Head(toMap)
           p == msg.p
           r == [sd[p] EXCEPT !.joining = FALSE, !.invite = 0]
           q == [r EXCEPT !.party = msg.id]
           asked == [Now EXCEPT !.sd[p] = r]
           joined == [asked EXCEPT !.sd[p] = q]
           leave == Leave(msg.id, p)
           done == IF ~sd[p].online \/ ~sd[p].joining
                   THEN IF msg.ok THEN Sent(Now, leave) ELSE Now
                   ELSE IF ~HasCopy(Now, msg.id) THEN Sent(asked, leave)
                   ELSE IF msg.ok THEN joined ELSE asked
<1>1. msg \in ToMap /\ msg.type = "added" /\ FromChar("added") /\ UNCHANGED <<charVars, Fixed>>
  BY FromCharIs DEF PartyMemberAdded
<1>2. p \in Player /\ msg.id \in PartyId
  <2> HIDE DEF msg
  <2> QED BY <1>1 DEF ToMap
<1>3. leave \in ToChar
  <2> HIDE DEF msg
  <2> QED BY <1>2 DEF Leave, ToChar
<1>4. Does(done, {})
  <2> DEFINE a == [Now EXCEPT !.sd[p].joining = FALSE, !.sd[p].invite = 0]
  <2>1. Does(IF ~sd[p].online \/ ~sd[p].joining
             THEN IF msg.ok THEN Sent(Now, leave) ELSE Now
             ELSE IF ~HasCopy(Now, msg.id) THEN Sent(a, leave)
             ELSE IF msg.ok THEN [a EXCEPT !.sd[p].party = msg.id] ELSE a, {})
    BY DEF PartyMemberAdded
  <2>2. a = asked
    <3> HIDE DEF p
    <3> QED BY <1>2, InvIs DEF MState
  <2>3. asked.sd[p] = r
    <3> HIDE DEF p, r
    <3> QED BY <1>2, InvIs DEF MState
  <2>4. [asked EXCEPT !.sd[p].party = msg.id] = joined
    <3> HIDE DEF asked, r
    <3> QED BY <2>3
  <2> HIDE DEF a, asked, joined, leave
  <2> QED BY <2>1, <2>2, <2>4
<1> HIDE DEF leave, msg
<1>5. r \in Sd
  BY <1>2, InvIs DEF Sd, Data
<1>6. q \in Sd
  <2> HIDE DEF r
  <2> QED BY <1>2, <1>5, PartyOfIs
<1> HIDE DEF p, r, q
<1>7. asked \in MState
  BY <1>2, <1>5, InvIs, SdWritten
<1> HIDE DEF asked
<1>8. joined \in MState
  BY <1>2, <1>6, <1>7, SdWritten
<1> HIDE DEF joined
<1>9. Sent(Now, leave) \in MState /\ Sent(asked, leave) \in MState
  BY <1>3, <1>7, InvIs, SentIs
<1>10. done \in MState
  BY <1>7, <1>8, <1>9, InvIs
<1> HIDE DEF done
<1> QED BY <1>1, <1>4, <1>10, InvIs, HandledIs DEF msg

LEMMA PartyMemberWithdrawIs ==
    ASSUME IInv, PartyMemberWithdraw
    PROVE  IInv'
<1> DEFINE msg == Head(toMap)
           m == MemberWithdraw(Now, msg.id, msg.p)
           more == IF sd[msg.p].online THEN {} ELSE {"away"}
<1>1. msg \in ToMap /\ msg.type = "withdraw" /\ FromChar("withdraw") /\ UNCHANGED <<charVars, Fixed>>
      /\ Does(m, more)
  BY FromCharIs DEF PartyMemberWithdraw
<1>2. more \in SUBSET Slip
  BY InvIs
<1> HIDE DEF msg
<1>3. msg.p \in Player /\ msg.id \in PartyId
  BY <1>1 DEF ToMap
<1>4. m \in MState
  BY <1>3, InvIs, MemberWithdrawIs
<1> HIDE DEF m, more
<1> QED BY <1>1, <1>2, <1>4, HandledIs

LEMMA PartyIsBrokenIs ==
    ASSUME IInv, PartyIsBroken
    PROVE  IInv'
<1> DEFINE msg == Head(toMap)
           m == PartyBroken(Now, msg.id)
<1>1. msg \in ToMap /\ msg.type = "broken" /\ FromChar("broken") /\ UNCHANGED <<charVars, Fixed>>
      /\ Does(m, {})
  BY FromCharIs DEF PartyIsBroken
<1> HIDE DEF msg
<1>2. msg.id \in PartyId
  BY <1>1 DEF ToMap
<1>3. m \in MState
  BY <1>2, InvIs, PartyBrokenIs
<1> HIDE DEF m
<1> QED BY <1>1, <1>3, InvIs, HandledIs

LEMMA PartyOptionChangedIs ==
    ASSUME IInv, PartyOptionChanged
    PROVE  IInv'
<1> DEFINE msg == Head(toMap)
           id == msg.id
           c == local[id]
           gets == [c EXCEPT !.exp = msg.exp]
           m == [Now EXCEPT !.local[id] = gets]
           done == IF HasCopy(Now, id) /\ ~msg.denied THEN m ELSE Now
<1>1. msg \in ToMap /\ msg.type = "option" /\ FromChar("option") /\ UNCHANGED <<charVars, Fixed>>
  BY FromCharIs DEF PartyOptionChanged
<1>2. Does(done, {})
  <2>1. [Now EXCEPT !.local[id].exp = msg.exp] = m
    BY InvIs
  <2> QED BY <2>1 DEF PartyOptionChanged
<1> HIDE DEF msg
<1>3. id \in PartyId /\ msg.exp \in BOOLEAN
  BY <1>1 DEF ToMap
<1>4. gets \in Copy
  <2>1. c \in Copy
    BY <1>3, InvIs
  <2> HIDE DEF c
  <2>2. gets \in [loaded : BOOLEAN, slots : ShownSlots, data : SUBSET Place, exp : BOOLEAN]
        /\ gets.slots = c.slots /\ gets.data = c.data
    BY <1>3, <2>1 DEF Copy
  <2> HIDE DEF gets
  <2> QED BY <2>1, <2>2 DEF Copy
<1> HIDE DEF gets, id
<1>5. m \in MState
  BY <1>3, <1>4, InvIs, CopyWritten
<1> HIDE DEF m
<1>6. done \in MState
  BY <1>5, InvIs
<1> HIDE DEF done
<1> QED BY <1>1, <1>2, <1>6, InvIs, HandledIs

\* A place of the copy is where it was, with or without session data.
LEMMA PartyRecvMovemapIs ==
    ASSUME IInv, PartyRecvMovemap
    PROVE  IInv'
<1> DEFINE msg == Head(toMap)
           id == msg.id
           p == msg.p
           places == PlacesOf(Now, id, p)
           s == Min(places)
           was == local[id]
           slots == [was.slots EXCEPT ![s].online = msg.online]
           seen == [was EXCEPT !.slots = slots, !.data = was.data]
           told == [Now EXCEPT !.local[id] = seen]
           c == SdCheck(told, id, p)
           data == IF c.ok THEN seen.data \union {s} ELSE seen.data \ {s}
           gets == [seen EXCEPT !.slots = seen.slots, !.data = data]
           m == [c.m EXCEPT !.local[id] = gets]
           done == IF ~HasCopy(Now, id) \/ places = {} THEN Now ELSE m
<1>1. msg \in ToMap /\ msg.type = "moved" /\ FromChar("moved") /\ UNCHANGED <<charVars, Fixed>>
  BY FromCharIs DEF PartyRecvMovemap
<1> DEFINE told0 == [Now EXCEPT !.local[id].slots[s].online = msg.online]
           c0 == SdCheck(told0, id, p)
           m0 == [c0.m EXCEPT !.local[id].data = IF c0.ok THEN @ \union {s} ELSE @ \ {s}]
<1>2. Does(IF ~HasCopy(Now, id) \/ places = {} THEN Now ELSE m0, {})
  BY DEF PartyRecvMovemap
<1> HIDE DEF msg
<1>3. id \in PartyId /\ p \in Player /\ msg.online \in BOOLEAN
  BY <1>1 DEF ToMap
<1>4. CASE ~HasCopy(Now, id) \/ places = {}
  BY <1>1, <1>2, <1>4, InvIs, HandledIs
<1>5. CASE ~(~HasCopy(Now, id) \/ places = {})
  <2>1. was \in Copy
    BY <1>3, InvIs
  <2>2. s \in Place /\ was.slots[s].p = p
    <3>1. places \in SUBSET Nat
      BY PlaceIs DEF PlacesOf
    <3>2. s \in places
      BY <1>5, <3>1, MinIs
    <3> HIDE DEF s
    <3> QED BY <3>2, InvIs DEF PlacesOf
  <2>3. was.slots \in ShownSlots
    BY <2>1, CopyIs
  <2> HIDE DEF s, places
  <2>4. slots \in ShownSlots /\ \A k \in Place : slots[k].p = was.slots[k].p
    <3> HIDE DEF was
    <3> QED BY <1>3, <2>2, <2>3 DEF ShownSlots
  <2>5. seen = [was EXCEPT !.slots = slots]
    BY <2>1 DEF Copy
  <2>6. told0 = told
    <3>1. [was EXCEPT !.slots[s].online = msg.online] = seen
      <4> HIDE DEF was
      <4> QED BY <2>5
    <3>2. told0 = [Now EXCEPT !.local[id] = [was EXCEPT !.slots[s].online = msg.online]]
      BY InvIs
    <3> QED BY <3>1, <3>2
  <2>7. seen \in Copy /\ seen.slots = slots
    <3>1. was.data \in SUBSET Place /\ \A k \in was.data : slots[k].p # 0
      BY <2>1, <2>4, CopyIs, PlaceIs
    <3>2. seen.slots = slots
      BY <2>1 DEF Copy
    <3> HIDE DEF was, slots
    <3> QED BY <2>1, <2>4, <3>1, <3>2, DataIs
  <2> HIDE DEF seen, told0
  <2>8. told \in MState /\ told.local = [local EXCEPT ![id] = seen]
    BY <1>3, <2>7, InvIs, CopyWritten
  <2> HIDE DEF told
  <2>9. c.m \in MState /\ c.m.local = told.local
    BY <1>3, <2>8, SdCheckIs
  <2> HIDE DEF c
  <2>10. c.m.local[id] = seen
    BY <1>3, <2>8, <2>9 DEF MState
  <2>11. gets \in Copy
    <3>1. seen.slots \in ShownSlots /\ seen.data \in SUBSET Place /\ \A k \in seen.data : seen.slots[k].p # 0
      BY <2>7, CopyIs, PlaceIs
    <3>2. seen.slots[s].p # 0
      BY <1>3, <2>2, <2>4, <2>7, PlaceIs
    <3>3. data \in SUBSET Place /\ \A k \in data : seen.slots[k].p # 0
      BY <2>2, <3>1, <3>2
    <3> HIDE DEF data
    <3> QED BY <2>7, <3>1, <3>3, DataIs
  <2>12. m0 = m
    <3>1. m0 = [c.m EXCEPT !.local[id].data = IF c.ok THEN @ \union {s} ELSE @ \ {s}]
      BY <2>6 DEF c
    <3>2. gets = [seen EXCEPT !.data = data]
      BY <2>7 DEF Copy
    <3>3. [c.m EXCEPT !.local[id].data = IF c.ok THEN @ \union {s} ELSE @ \ {s}]
            = [c.m EXCEPT !.local[id] = [seen EXCEPT !.data = data]]
      BY <2>10
    <3> QED BY <3>1, <3>2, <3>3
  <2> HIDE DEF gets, m0
  <2>13. m \in MState
    BY <1>3, <2>9, <2>11, CopyWritten
  <2> HIDE DEF m
  <2>14. Does(m, {})
    BY <1>2, <1>5, <2>12
  <2> QED BY <1>1, <2>13, <2>14, InvIs, HandledIs
<1> QED BY <1>4, <1>5

\* Who enters the game is in the copy of its party, or in no party.
LEMMA PartyMemberJoinedIs ==
    ASSUME IInv, PartyMemberJoined
    PROVE  IInv'
<1> DEFINE msg == Head(toMap)
           p == msg.p
           id == msg.party
           r == [Away EXCEPT !.online = TRUE, !.party = id, !.lv = msg.lv]
           m == [Now EXCEPT !.sd[p] = r]
           places == PlacesOf(m, id, p)
           asks == Sent(m, [type |-> "info", id |-> id, p |-> p])
           none == [m EXCEPT !.sd[p].party = 0]
           c == m.local[id]
           data == c.data \union {Min(places)}
           gets == [c EXCEPT !.slots = c.slots, !.data = data]
           there == [m EXCEPT !.local[id].data = @ \union {Min(places)}]
           done == IF id = 0 THEN m ELSE IF ~HasCopy(m, id) THEN asks
                   ELSE IF places = {} THEN none ELSE there
<1>1. msg \in ToMap /\ msg.type = "enter" /\ FromChar("enter") /\ UNCHANGED <<charVars, Fixed>>
  BY FromCharIs DEF PartyMemberJoined
<1>2. Does(done, {})
  BY DEF PartyMemberJoined
<1> HIDE DEF msg
<1>3. p \in Player /\ id \in PartyId \union {0} /\ msg.lv \in Level
  BY <1>1 DEF ToMap
<1>4. r \in Sd
  BY <1>3, AwayIs
<1> HIDE DEF p, r
<1>5. m \in MState
  BY <1>3, <1>4, InvIs, SdWritten
<1> HIDE DEF m
<1>6. id # 0 => asks \in MState
  <2>1. id # 0 => [type |-> "info", id |-> id, p |-> p] \in ToChar
    BY <1>3 DEF ToChar
  <2> QED BY <1>5, <2>1, SentIs
<1>7. none \in MState
  <2> DEFINE q == [m.sd[p] EXCEPT !.party = 0]
  <2>1. q \in Sd
    BY <1>3, <1>5, OneIs, PartyOfIs
  <2>2. none = [m EXCEPT !.sd[p] = q]
    OBVIOUS
  <2> HIDE DEF q
  <2> QED BY <1>3, <1>5, <2>1, <2>2, SdWritten
<1>8. ASSUME id # 0, places # {} PROVE there \in MState
  <2>1. id \in PartyId /\ c \in Copy
    BY <1>3, <1>5, <1>8, OneIs
  <2>2. Min(places) \in Place /\ c.slots[Min(places)].p = p
    <3>1. places \in SUBSET Nat
      BY PlaceIs DEF PlacesOf
    <3>2. Min(places) \in places
      BY <1>8, <3>1, MinIs
    <3> DEFINE s == Min(places)
    <3> HIDE DEF s
    <3> QED BY <3>2 DEF s, PlacesOf
  <2>3. c.slots \in ShownSlots /\ data \in SUBSET Place /\ \A k \in data : c.slots[k].p # 0
    BY <1>3, <2>1, <2>2, CopyIs, PlaceIs
  <2>4. there = [m EXCEPT !.local[id] = gets]
    <3>1. gets = [c EXCEPT !.data = data]
      BY <2>1 DEF Copy
    <3> QED BY <3>1
  <2> HIDE DEF c, data
  <2>5. gets \in Copy
    BY <2>1, <2>3, DataIs
  <2> HIDE DEF gets
  <2> QED BY <1>5, <2>1, <2>4, <2>5, CopyWritten
<1> HIDE DEF there, none, asks
<1>9. done \in MState
  BY <1>5, <1>6, <1>7, <1>8
<1> HIDE DEF done
<1> QED BY <1>1, <1>2, <1>9, InvIs, HandledIs

LEMMA ChrifSaveAckIs ==
    ASSUME IInv, ChrifSaveAck
    PROVE  IInv'
<1> DEFINE msg == Head(toMap)
           r == [sd[msg.p] EXCEPT !.waiting = FALSE]
<1>1. msg \in ToMap /\ msg.type = "charSaved" /\ FromChar("charSaved")
      /\ UNCHANGED <<local, charVars, toChar, Fixed, slips>>
  BY FromCharIs DEF ChrifSaveAck
<1>2. sd' = [sd EXCEPT ![msg.p] = r]
  BY DEF ChrifSaveAck
<1> HIDE DEF msg
<1>3. msg.p \in Player
  BY <1>1 DEF ToMap
<1>4. r \in Sd
  BY <1>3, InvIs, SdFields
<1> HIDE DEF r
<1> QED BY <1>1, <1>2, <1>3, <1>4, FromCharIs, SdOnly

-----------------------------------------------------------------------------
(* The steps of the char-server. *)

LEMMA KeptIs ==
    ASSUME IInv
    PROVE  /\ Kept \in CState
           /\ Kept.mem = mem /\ Kept.row = row /\ Kept.chars = chars
           /\ "leapt" \notin slips => Rights(Kept)
BY DEF IInv, Typed, CharTyped, Kept, CState, Rights

LEMMA AnswersIs ==
    ASSUME IInv, NEW type, Answers(type)
    PROVE  /\ toChar # << >> /\ Head(toChar) \in ToChar /\ Head(toChar).type = type
           /\ toChar' \in Seq(ToChar) /\ up
BY InvIs DEF Answers

\* What a request left is stored, and its answers are sent.
LEMMA StoresIs ==
    ASSUME IInv, NEW c \in CState, NEW more \in SUBSET Slip, StoresBut(c, more),
           "leapt" \notin slips' => Rights(c),
           toChar' \in Seq(ToChar), up
    PROVE  IInv'
<1>1. /\ c.mem \in [PartyId -> Pt] /\ c.row \in [PartyId -> Row] /\ c.chars \in [Player -> Char]
      /\ c.out \in Seq(ToMap) /\ \A id \in PartyId : c.mem[id].loaded => c.row[id].exists
  BY DEF CState
<1>2. /\ mem' = c.mem /\ row' = c.row /\ chars' = c.chars /\ toMap' = toMap \o c.out
      /\ slips' = slips \union more
      /\ UNCHANGED <<mapVars, cached, playing, gone, Fixed>>
  BY DEF StoresBut
<1>3. MapTyped' /\ CharTyped'
  BY <1>1, <1>2 DEF IInv, Typed, MapTyped, CharTyped, mapVars
<1>4. toMap \in Seq(ToMap) /\ toMap' \in Seq(ToMap)
  BY <1>1, <1>2, InvIs
<1>5. LinkTyped'
  BY <1>2, <1>4 DEF IInv, Typed, LinkTyped, Fixed
<1>6. Typed'
  BY <1>2, <1>3, <1>5 DEF IInv, Typed
<1>7. "leapt" \notin slips' => \A id \in PartyId : Right(mem'[id])
  BY <1>2 DEF Rights
<1> QED BY <1>6, <1>7 DEF IInv

LEMMA StoresFollowing ==
    ASSUME IInv, NEW type, Answers(type), NEW c, Follows(c, Kept), NEW more \in SUBSET Slip,
           StoresBut(c, more)
    PROVE  IInv'
<1>1. "leapt" \notin slips' => Rights(c)
  BY KeptIs DEF Follows, StoresBut
<1> QED BY <1>1, AnswersIs, StoresIs DEF Follows

LEMMA MapifParseCreatePartyIs ==
    ASSUME IInv, MapifParseCreateParty
    PROVE  IInv'
<1> DEFINE msg == Head(toChar)
           new == {id \in PartyId : row[id].leader = 0}
           no == [type |-> "created", p |-> msg.p, id |-> 0]
<1>1. msg \in ToChar /\ msg.type = "create" /\ Answers("create")
  BY AnswersIs DEF MapifParseCreateParty
<1>2. \/ new # {} /\ StoresBut(CreateParty(Kept, Min(new), msg.p, msg.lv), {})
      \/ StoresBut(Tell(Kept, no), {})
  BY DEF MapifParseCreateParty, Stores
<1> HIDE DEF msg
<1>3. msg.p \in Player /\ msg.lv \in Level /\ no \in ToMap
  BY <1>1 DEF ToChar, ToMap
<1>4. CASE new # {} /\ StoresBut(CreateParty(Kept, Min(new), msg.p, msg.lv), {})
  <2>1. new \in SUBSET Nat
    BY PlayerAssumption
  <2>2. Min(new) \in PartyId
    <3>1. Min(new) \in new
      BY <1>4, <2>1, MinIs
    <3> QED BY <3>1
  <2>3. Follows(CreateParty(Kept, Min(new), msg.p, msg.lv), Kept)
    BY <1>3, <2>2, KeptIs, CreatePartyIs
  <2> QED BY <1>1, <1>4, <2>3, InvIs, StoresFollowing
<1>5. CASE StoresBut(Tell(Kept, no), {})
  <2>1. Follows(Tell(Kept, no), Kept)
    BY <1>3, KeptIs, TellIs
  <2> QED BY <1>1, <1>5, <2>1, InvIs, StoresFollowing
<1> QED BY <1>2, <1>4, <1>5

LEMMA MapifParsePartyInfoIs ==
    ASSUME IInv, MapifParsePartyInfo
    PROVE  IInv'
<1> DEFINE msg == Head(toChar)
           c == PartyInfo(Kept, msg.id, msg.p)
<1>1. msg \in ToChar /\ msg.type = "info" /\ Answers("info") /\ StoresBut(c, {})
  BY AnswersIs DEF MapifParsePartyInfo, Stores
<1> HIDE DEF msg
<1>2. Follows(c, Kept)
  BY <1>1, KeptIs, PartyInfoIs DEF ToChar
<1> QED BY <1>1, <1>2, InvIs, StoresFollowing

LEMMA MapifParsePartyAddMemberIs ==
    ASSUME IInv, MapifParsePartyAddMember
    PROVE  IInv'
<1> DEFINE msg == Head(toChar)
           c == PartyAddMember(Kept, msg.id, msg.p, msg.lv)
<1>1. msg \in ToChar /\ msg.type = "add" /\ Answers("add") /\ StoresBut(c, {})
  BY AnswersIs DEF MapifParsePartyAddMember, Stores
<1> HIDE DEF msg
<1>2. Follows(c, Kept)
  BY <1>1, KeptIs, PartyAddMemberIs DEF ToChar
<1> QED BY <1>1, <1>2, InvIs, StoresFollowing

LEMMA MapifParsePartyChangeOptionIs ==
    ASSUME IInv, MapifParsePartyChangeOption
    PROVE  IInv'
<1> DEFINE msg == Head(toChar)
           c == PartyChangeOption(Kept, msg.id, msg.exp)
<1>1. msg \in ToChar /\ msg.type = "option" /\ Answers("option") /\ StoresBut(c, {})
  BY AnswersIs DEF MapifParsePartyChangeOption, Stores
<1> HIDE DEF msg
<1>2. Follows(c, Kept)
  BY <1>1, KeptIs, PartyChangeOptionIs DEF ToChar
<1> QED BY <1>1, <1>2, InvIs, StoresFollowing

LEMMA MapifParsePartyLeaveIs ==
    ASSUME IInv, MapifParsePartyLeave
    PROVE  IInv'
<1> DEFINE msg == Head(toChar)
           c == PartyLeave(Kept, msg.id, msg.p)
<1>1. msg \in ToChar /\ msg.type = "leave" /\ Answers("leave") /\ StoresBut(c, {})
  BY AnswersIs DEF MapifParsePartyLeave, Stores
<1> HIDE DEF msg
<1>2. Follows(c, Kept)
  BY <1>1, KeptIs, PartyLeaveIs DEF ToChar
<1> QED BY <1>1, <1>2, InvIs, StoresFollowing

LEMMA MapifParsePartyLeaderChangeIs ==
    ASSUME IInv, MapifParsePartyLeaderChange
    PROVE  IInv'
<1> DEFINE msg == Head(toChar)
           c == PartyLeaderChange(Kept, msg.id, msg.p)
           more == IF \E i \in DOMAIN toMap : Crosses(toMap[i], msg) THEN {"crossed"} ELSE {}
<1>1. msg \in ToChar /\ msg.type = "leader" /\ Answers("leader") /\ StoresBut(c, more)
  BY AnswersIs DEF MapifParsePartyLeaderChange
<1>2. more \in SUBSET Slip
  BY InvIs
<1> HIDE DEF msg, more
<1>3. Follows(c, Kept)
  BY <1>1, KeptIs, PartyLeaderChangeIs DEF ToChar
<1> QED BY <1>1, <1>2, <1>3, StoresFollowing

\* A level that leapt is noted; else the range is right.
LEMMA MapifParsePartyChangeMapIs ==
    ASSUME IInv, MapifParsePartyChangeMap
    PROVE  IInv'
<1> DEFINE msg == Head(toChar)
           slots == FromSql(Kept, msg.id).mem[msg.id].slots
           more == IF Leaps(slots, msg) THEN {"leapt"} ELSE {}
           c(elsewhere) == PartyChangeMap(Kept, msg.id, msg.p, msg.online, msg.lv, elsewhere)
<1>1. msg \in ToChar /\ msg.type = "move" /\ Answers("move")
  BY AnswersIs DEF MapifParsePartyChangeMap
<1>2. PICK elsewhere \in BOOLEAN : StoresBut(c(elsewhere), more)
  BY DEF MapifParsePartyChangeMap
<1>3. more \in SUBSET Slip /\ ("leapt" \notin slips' => "leapt" \notin slips /\ ~Leaps(slots, msg))
  BY <1>2 DEF Slip, StoresBut
<1> HIDE DEF msg, more
<1>4. msg.id \in PartyId /\ msg.p \in Player /\ msg.online \in BOOLEAN /\ msg.lv \in Level
  BY <1>1 DEF ToChar
<1>5. /\ c(elsewhere) \in CState
      /\ Rights(Kept) /\ (\A s \in Place : slots[s].p = msg.p /\ slots[s].online /\ msg.online
                            => msg.lv \in (slots[s].lv - 1)..(slots[s].lv + 1))
         => Rights(c(elsewhere))
  BY <1>4, KeptIs, PartyChangeMapIs
<1>6. "leapt" \notin slips' => Rights(c(elsewhere))
  BY <1>3, <1>5, KeptIs DEF Leaps
<1> QED BY <1>1, <1>2, <1>3, <1>5, <1>6, AnswersIs, StoresIs

LEMMA SaveCharacterIs ==
    ASSUME IInv, SaveCharacter
    PROVE  IInv'
<1> DEFINE msg == Head(toChar)
           r == [party |-> msg.party, lv |-> msg.lv]
           saved == [type |-> "charSaved", p |-> msg.p]
<1>1. msg \in ToChar /\ msg.type = "char" /\ Answers("char")
  BY AnswersIs DEF SaveCharacter
<1>2. /\ chars' = [chars EXCEPT ![msg.p] = r] \/ chars' = chars
      /\ slips \subseteq slips' /\ slips' \subseteq slips \union {"kept"}
      /\ cached' = [cached EXCEPT ![msg.p] = IF msg.quits THEN NotCached ELSE msg.party]
      /\ playing' \subseteq playing
      /\ toMap' = toMap \/ toMap' = Append(toMap, saved)
      /\ UNCHANGED <<mapVars, mem, row, gone, Fixed>>
  BY DEF SaveCharacter
<1> HIDE DEF msg
<1>3. msg.p \in Player /\ r \in Char /\ saved \in ToMap /\ msg.party \in PartyId \union {0}
  BY <1>1 DEF ToChar, Char, ToMap
<1> HIDE DEF r, saved
<1>4. chars' \in [Player -> Char] /\ playing' \subseteq Player
      /\ cached' \in [Player -> PartyId \union {0, NotCached}]
  BY <1>2, <1>3 DEF IInv, Typed, CharTyped
<1>5. toMap' \in Seq(ToMap)
  BY <1>2, <1>3, InvIs
<1>6. slips' \subseteq Slip
  BY <1>2 DEF IInv, Typed, Slip
<1>7. MapTyped' /\ CharTyped'
  BY <1>2, <1>4 DEF IInv, Typed, MapTyped, CharTyped, mapVars
<1>8. LinkTyped'
  BY <1>1, <1>2, <1>5, AnswersIs DEF IInv, Typed, LinkTyped, Fixed
<1>9. Typed'
  BY <1>2, <1>4, <1>6, <1>7, <1>8 DEF IInv, Typed
<1> QED BY <1>2, <1>9 DEF IInv

LEMMA MapAuthOkIs ==
    ASSUME IInv, NEW p \in Player, MapAuthOk(p)
    PROVE  IInv'
<1> DEFINE msg == [type |-> "enter", p |-> p, party |-> chars[p].party, lv |-> chars[p].lv]
<1>1. /\ up /\ playing' = playing \union {p} /\ cached' = [cached EXCEPT ![p] = chars[p].party]
      /\ toMap' = Append(toMap, msg)
      /\ UNCHANGED <<mapVars, mem, row, chars, gone, toChar, Fixed, slips>>
  BY DEF MapAuthOk
<1>2. chars[p].party \in PartyId \union {0} /\ chars[p].lv \in Level
  BY DEF IInv, Typed, CharTyped, Char
<1>3. msg \in ToMap
  BY <1>2 DEF ToMap
<1> HIDE DEF msg
<1>4. toMap' \in Seq(ToMap)
  BY <1>1, <1>3, InvIs
<1>5. MapTyped' /\ CharTyped' /\ LinkTyped'
  BY <1>1, <1>4 DEF IInv, Typed, MapTyped, CharTyped, LinkTyped, mapVars, Fixed
<1>6. cached' \in [Player -> PartyId \union {0, NotCached}]
  BY <1>1, <1>2 DEF IInv, Typed
<1> QED BY <1>1, <1>5, <1>6 DEF IInv, Typed

LEMMA DeleteCharIs ==
    ASSUME IInv, NEW p \in Player, DeleteChar(p)
    PROVE  IInv'
<1> DEFINE c == IF chars[p].party = 0 THEN Kept ELSE PartyLeave(Kept, chars[p].party, p)
           r == [c.chars[p] EXCEPT !.party = 0]
<1>1. /\ mem' = c.mem /\ row' = c.row /\ chars' = [c.chars EXCEPT ![p] = r]
      /\ toMap' = (IF up THEN toMap \o c.out ELSE toMap)
      /\ slips \subseteq slips' /\ slips' \subseteq slips \union {"lost"}
      /\ gone' = gone \union {p}
      /\ UNCHANGED <<mapVars, cached, playing, toChar, Fixed>>
  BY DEF DeleteChar
<1>2. Follows(c, Kept)
  <2>1. Follows(Kept, Kept)
    BY KeptIs DEF Follows
  <2>2. chars[p].party \in PartyId \union {0}
    BY DEF IInv, Typed, CharTyped, Char
  <2>3. chars[p].party # 0 => Follows(PartyLeave(Kept, chars[p].party, p), Kept)
    BY <2>2, KeptIs, PartyLeaveIs
  <2> QED BY <2>1, <2>3
<1> HIDE DEF c
<1>3. /\ c.mem \in [PartyId -> Pt] /\ c.row \in [PartyId -> Row] /\ c.chars \in [Player -> Char]
      /\ c.out \in Seq(ToMap) /\ \A id \in PartyId : c.mem[id].loaded => c.row[id].exists
  BY <1>2 DEF Follows, CState
<1>4. r \in Char
  BY <1>3 DEF Char
<1> HIDE DEF r
<1>5. MapTyped' /\ CharTyped'
  BY <1>1, <1>3, <1>4 DEF IInv, Typed, MapTyped, CharTyped, mapVars
<1>6. toMap' \in Seq(ToMap) /\ (~up => toMap' = << >>)
  BY <1>1, <1>3, InvIs
<1>7. LinkTyped'
  BY <1>1, <1>6 DEF IInv, Typed, LinkTyped, Fixed
<1>8. Typed'
  BY <1>1, <1>5, <1>7 DEF IInv, Typed, Slip
<1>9. "leapt" \notin slips' => \A id \in PartyId : Right(mem'[id])
  BY <1>1, <1>2, KeptIs DEF Follows, Rights
<1> QED BY <1>8, <1>9 DEF IInv

LEMMA LinkLostIs ==
    ASSUME IInv, NEW restart \in BOOLEAN, LinkLost(restart)
    PROVE  IInv'
<1>1. /\ up' = FALSE /\ losses' = losses + 1 /\ losses < MaxLosses
      /\ toChar' = << >> /\ toMap' = << >>
      /\ \/ mem' = [id \in PartyId |-> NotInMemory] /\ cached' = [p \in Player |-> NotCached]
         \/ mem' = mem /\ cached' = cached
      /\ slips \subseteq slips' /\ slips' \subseteq slips \union {"lost", "again", "stale"}
      /\ UNCHANGED <<mapVars, row, chars, playing, gone, setup>>
  BY DEF LinkLost
<1>2. /\ mem' \in [PartyId -> Pt] /\ \A id \in PartyId : mem'[id].loaded => row[id].exists
      /\ ("leapt" \notin slips => \A id \in PartyId : Right(mem'[id]))
  <2>1. ~NotInMemory.loaded
    BY DEF NotInMemory
  <2>2. /\ mem \in [PartyId -> Pt] /\ \A id \in PartyId : mem[id].loaded => row[id].exists
        /\ ("leapt" \notin slips => \A id \in PartyId : Right(mem[id]))
    BY DEF IInv, Typed, CharTyped
  <2>3. CASE mem' = mem
    BY <2>2, <2>3
  <2>4. CASE mem' = [id \in PartyId |-> NotInMemory]
    BY <2>1, <2>4, RightOfNone
  <2> QED BY <1>1, <2>3, <2>4
<1>3. MapTyped' /\ CharTyped'
  BY <1>1, <1>2 DEF IInv, Typed, MapTyped, CharTyped, mapVars
<1>4. LinkTyped'
  <2>1. losses' \in 0..MaxLosses
    <3>1. losses \in 0..MaxLosses
      BY DEF IInv, Typed, LinkTyped
    <3>2. MaxLosses \in Nat
      BY SetupsAssumption
    <3>3. losses' = losses + 1 /\ losses < MaxLosses
      BY <1>1
    <3> QED BY <3>1, <3>2, <3>3
  <2>2. << >> \in Seq(ToChar) /\ << >> \in Seq(ToMap)
    OBVIOUS
  <2>3. up' = FALSE /\ toChar' = << >> /\ toMap' = << >>
    BY <1>1
  <2> QED BY <2>1, <2>2, <2>3 DEF LinkTyped
<1>5. Typed'
  BY <1>1, <1>3, <1>4 DEF IInv, Typed, Slip
<1> QED BY <1>1, <1>2, <1>5 DEF IInv

\* The saves not confirmed, one after the other.
LEMMA SavedAgainIs ==
    ASSUME IInv
    PROVE  LET Again(p, out) == IF ~sd[p].waiting THEN out
                                ELSE Append(out, [type |-> "char", p |-> p, party |-> sd[p].party,
                                                  lv |-> sd[p].lv, quits |-> TRUE])
           IN  FoldSet(Again, << >>, Player) \in Seq(ToChar)
<1> DEFINE Again(p, out) == IF ~sd[p].waiting THEN out
                            ELSE Append(out, [type |-> "char", p |-> p, party |-> sd[p].party,
                                              lv |-> sd[p].lv, quits |-> TRUE])
           M == Seq(ToChar)
           Ch == [s \in SUBSET Player |-> One(s)]
           IsFold(run) == run = [s \in SUBSET Player |-> IF s = {} THEN << >> ELSE
                                    Again(CHOOSE x \in s : TRUE, run[s \ {CHOOSE x \in s : TRUE}])]
           run == CHOOSE r : IsFold(r)
           F == [nk \in M \X Player |-> Again(nk[2], nk[1])]
           N == [s \in SUBSET Player |-> M]
<1>1. ASSUME NEW n \in M, NEW p \in Player PROVE Again(p, n) \in M
  <2> DEFINE msg == [type |-> "char", p |-> p, party |-> sd[p].party, lv |-> sd[p].lv, quits |-> TRUE]
  <2>1. sd[p].waiting => msg \in ToChar
    BY InvIs, SdFields DEF ToChar
  <2> HIDE DEF msg
  <2>2. sd[p].waiting => Append(n, msg) \in M
    BY <2>1
  <2> QED BY <2>2 DEF msg
<1> HIDE DEF Again
<1>2. << >> \in M
  OBVIOUS
<1> HIDE DEF M
<1>3. F \in [M \X Player -> M]
  BY <1>1
<1>4. Chooses(Ch, Player) /\ \A s \in SUBSET Player : Ch[s] = CHOOSE x \in s : TRUE
  BY DEF Chooses, One
<1>5. IsFiniteSet(Player)
  BY PlayerAssumption
<1>6. PICK r : IsRun(r, Player, Ch, M, << >>, F)
  <2>1. Maps(F, M, Player)
    BY <1>3 DEF Maps
  <2> HIDE DEF F, Ch
  <2> QED BY <1>2, <1>4, <1>5, <2>1, RunExists
<1>7. IsFold(r)
  <2>1. ASSUME NEW s \in SUBSET Player, s # {}
        PROVE  r[s] = Again(CHOOSE x \in s : TRUE, r[s \ {CHOOSE x \in s : TRUE}])
    <3> DEFINE c == CHOOSE x \in s : TRUE
    <3>1. c \in s /\ Ch[s] = c
      BY <1>4, <2>1
    <3> HIDE DEF c, Ch, F
    <3>2. r[s \ {c}] \in M /\ r[s] = F[<<r[s \ {c}], c>>]
      BY <1>6, <2>1, <3>1 DEF IsRun
    <3> QED BY <3>1, <3>2 DEF c, F
  <2> HIDE DEF F, Ch
  <2> QED BY <1>6, <2>1 DEF IsRun
<1>8. IsFold(run)
  BY <1>7
<1>9. FoldSet(Again, << >>, Player) = run[Player]
  BY Zenon DEF FoldSet, MapThenFoldSet
<1> HIDE DEF run
<1>10. run[{}] \in N[{}]
  BY <1>2, <1>8
<1>11. ASSUME NEW s \in SUBSET Player, s # {}, run[s \ {Ch[s]}] \in N[s \ {Ch[s]}]
       PROVE  run[s] \in N[s]
  <2> DEFINE c == CHOOSE x \in s : TRUE
  <2>1. c \in s /\ Ch[s] = c
    BY <1>4, <1>11
  <2>2. run[s] = Again(c, run[s \ {c}])
    BY <1>8, <1>11
  <2> HIDE DEF c, Ch
  <2>3. run[s \ {c}] \in M
    BY <1>11, <2>1
  <2> QED BY <1>1, <1>11, <2>1, <2>2, <2>3
<1>12. \A s \in SUBSET Player : run[s] \in N[s]
  <2> HIDE DEF N, Ch
  <2> QED BY <1>4, <1>5, <1>10, <1>11, RunIsIn
<1> QED BY <1>9, <1>12 DEF Again, M

LEMMA ChrifOnReadyIs ==
    ASSUME IInv, ChrifOnReady
    PROVE  IInv'
<1>1. /\ up' = TRUE /\ playing' = {p \in Player : sd[p].online \/ sd[p].waiting}
      /\ UNCHANGED <<mapVars, mem, row, chars, cached, gone, losses, toMap, setup, slips>>
  BY DEF ChrifOnReady
<1>2. toChar' \in Seq(ToChar)
  BY SavedAgainIs DEF ChrifOnReady
<1>3. MapTyped' /\ CharTyped' /\ LinkTyped'
  BY <1>1, <1>2 DEF IInv, Typed, MapTyped, CharTyped, LinkTyped, mapVars
<1> QED BY <1>1, <1>3 DEF IInv, Typed

-----------------------------------------------------------------------------
(* The theorems. *)

LEMMA InitIs == Init => IInv
<1> SUFFICES ASSUME Init PROVE IInv
  OBVIOUS
<1>1. PICK s \in Setups :
        /\ sd = [p \in Player |-> Away]
        /\ local = [id \in PartyId |-> NoCopy]
        /\ mem = [id \in PartyId |-> NotInMemory]
        /\ row = [id \in PartyId |-> [exists |-> id = 1 /\ s.members # {}, exp |-> s.exp,
                                      leader |-> IF id = 1 /\ s.members # {} THEN Min(s.members) ELSE 0]]
        /\ chars = [p \in Player |-> [party |-> IF p \in s.members THEN 1 ELSE 0, lv |-> s.lv[p]]]
        /\ cached = [p \in Player |-> NotCached] /\ playing = {} /\ gone = {}
        /\ up = TRUE /\ losses = 0 /\ toChar = << >> /\ toMap = << >>
        /\ slips = {}
  BY DEF Init
<1>2. /\ s.members \subseteq Player /\ s.exp \in BOOLEAN /\ s.lv \in [Player -> Level]
      /\ 1 \in PartyId /\ MaxLosses \in Nat
  BY SetupsAssumption
<1>3. MapTyped
  <2>1. Away \in Sd
    BY DEF Away, Sd, Data
  <2> QED BY <1>1, <2>1, NoCopyIs DEF MapTyped
<1>4. row \in [PartyId -> Row]
  <2> DEFINE leader == Min(s.members)
  <2>1. s.members # {} => leader \in Player
    <3>1. s.members \in SUBSET Nat
      BY <1>2, PlaceIs
    <3>2. s.members # {} => leader \in s.members
      BY <3>1, MinIs
    <3> QED BY <1>2, <3>2
  <2>2. ASSUME NEW id \in PartyId PROVE row[id] \in Row
    <3> DEFINE some == id = 1 /\ s.members # {}
               who == IF some THEN leader ELSE 0
    <3>1. row[id] = [exists |-> some, exp |-> s.exp, leader |-> who]
      BY <1>1
    <3>2. some \in BOOLEAN
      OBVIOUS
    <3>3. who \in Player \union {0}
      <4> HIDE DEF leader
      <4> QED BY <2>1
    <3> HIDE DEF some, who
    <3> QED BY <1>2, <3>1, <3>2, <3>3 DEF Row
  <2>3. DOMAIN row = PartyId /\ row = [id \in PartyId |-> row[id]]
    BY <1>1
  <2> QED BY <2>2, <2>3
<1>5. chars \in [Player -> Char]
  BY <1>1, <1>2 DEF Char
<1>6. CharTyped
  <2>1. ~NotInMemory.loaded
    BY DEF NotInMemory
  <2> QED BY <1>1, <1>4, <1>5, <2>1, RightOfNone DEF CharTyped
<1>7. LinkTyped
  <2>1. losses \in 0..MaxLosses
    BY <1>1, <1>2
  <2>2. << >> \in Seq(ToChar) /\ << >> \in Seq(ToMap)
    OBVIOUS
  <2> QED BY <1>1, <2>1, <2>2 DEF LinkTyped
<1>8. Typed
  BY <1>1, <1>3, <1>6, <1>7 DEF Typed
<1> QED BY <1>1, <1>8, RightOfNone DEF IInv

LEMMA StutterIs ==
    ASSUME IInv, UNCHANGED vars
    PROVE  IInv'
BY DEF IInv, Typed, MapTyped, CharTyped, LinkTyped, vars

LEMMA PlayerNextIs ==
    ASSUME IInv, PlayerNext
    PROVE  IInv'
<1>1. PICK p \in Player :
        \/ PartyCreate(p) \/ PartyLeaves(p) \/ PartySendMovemap(p) \/ AutoSave(p) \/ MapQuit(p)
        \/ \E accept \in BOOLEAN : PartyReplyInvite(p, accept)
        \/ \E exp \in BOOLEAN : PartyChangeOptionReq(p, exp)
        \/ \E lv \in Level : PartySendLevelup(p, lv)
        \/ \E t \in Player : PartyInvite(p, t) \/ PartyRemoveMember(p, t) \/ PartyChangeLeader(p, t)
  BY DEF PlayerNext
<1>2. CASE PartyCreate(p)
  BY <1>2, PartyCreateIs
<1>3. CASE PartyLeaves(p) \/ PartySendMovemap(p)
  <2>1. TRUE \in BOOLEAN
    OBVIOUS
  <2> QED BY <1>3, <2>1, AskingIs
<1>4. CASE AutoSave(p)
  BY <1>4, AutoSaveIs
<1>5. CASE MapQuit(p)
  BY <1>5, MapQuitIs
<1>6. CASE \E accept \in BOOLEAN : PartyReplyInvite(p, accept)
  BY <1>6, PartyReplyInviteIs
<1>7. CASE \E exp \in BOOLEAN : PartyChangeOptionReq(p, exp)
  BY <1>7, AskingIs
<1>8. CASE \E lv \in Level : PartySendLevelup(p, lv)
  BY <1>8, PartySendLevelupIs
<1>9. CASE \E t \in Player : PartyInvite(p, t) \/ PartyRemoveMember(p, t) \/ PartyChangeLeader(p, t)
  <2>1. PICK t \in Player : PartyInvite(p, t) \/ PartyRemoveMember(p, t) \/ PartyChangeLeader(p, t)
    BY <1>9
  <2>2. CASE PartyInvite(p, t)
    BY <2>2, PartyInviteIs
  <2>3. CASE PartyRemoveMember(p, t)
    <3>1. TRUE \in BOOLEAN
      OBVIOUS
    <3> QED BY <2>3, <3>1, AskingIs
  <2>4. CASE PartyChangeLeader(p, t)
    BY <2>4, PartyChangeLeaderIs
  <2> QED BY <2>1, <2>2, <2>3, <2>4
<1> QED BY <1>1, <1>2, <1>3, <1>4, <1>5, <1>6, <1>7, <1>8, <1>9

LEMMA HandlesIs ==
    ASSUME IInv, MapHandles \/ CharHandles
    PROVE  IInv'
BY PartyCreatedIs, PartyRecvNoinfoIs, PartyRecvInfoIs, PartyMemberAddedIs, PartyMemberWithdrawIs,
   PartyIsBrokenIs, PartyOptionChangedIs, PartyRecvMovemapIs, PartyMemberJoinedIs, ChrifSaveAckIs,
   MapifParseCreatePartyIs, MapifParsePartyInfoIs, MapifParsePartyAddMemberIs,
   MapifParsePartyChangeOptionIs, MapifParsePartyLeaveIs, MapifParsePartyChangeMapIs,
   MapifParsePartyLeaderChangeIs, SaveCharacterIs
   DEF MapHandles, CharHandles

LEMMA StepIs == IInv /\ [Next]_vars => IInv'
<1> SUFFICES ASSUME IInv, [Next]_vars PROVE IInv'
  OBVIOUS
<1>1. CASE PlayerNext
  BY <1>1, PlayerNextIs
<1>2. CASE MapHandles \/ CharHandles
  BY <1>2, HandlesIs
<1>3. CASE \E p \in Player : MapAuthOk(p) \/ DeleteChar(p)
  BY <1>3, MapAuthOkIs, DeleteCharIs
<1>4. CASE \E restart \in BOOLEAN : LinkLost(restart)
  BY <1>4, LinkLostIs
<1>5. CASE ChrifOnReady
  BY <1>5, ChrifOnReadyIs
<1>6. CASE UNCHANGED vars
  BY <1>6, StutterIs
<1> QED BY <1>1, <1>2, <1>3, <1>4, <1>5, <1>6 DEF Next

\* What is right shares within the range.
LEMMA RightIsInRange ==
    ASSUME NEW pt \in Pt, Right(pt), pt.exp
    PROVE  LET levels == {pt.slots[s].lv : s \in OnlineIn(pt)}
           IN  Cardinality(levels) > 1 => Max(levels) - Min(levels) <= ShareLevel
<1> DEFINE levels == {pt.slots[s].lv : s \in OnlineIn(pt)}
<1>1. Bounded(pt) /\ pt.max - pt.min <= ShareLevel /\ pt.min \in Int /\ pt.max \in Int
  BY DEF Right, Shares, Pt
<1>2. levels \subseteq Level /\ IsFiniteSet(levels)
  BY OnlineIs, FS_Subset, LevelAssumption DEF LevelOf
<1>3. CASE levels = {}
  <2>1. Cardinality(levels) = 0
    BY <1>3, FS_EmptySet
  <2>2. ~(Cardinality(levels) > 1)
    BY <2>1
  <2> QED BY <2>2
<1>4. CASE levels # {}
  <2>1. pt.min \in levels /\ pt.max \in levels
    BY <1>1, <1>4 DEF Bounded, LevelOf
  <2>2. \A l \in levels : pt.min <= l /\ l <= pt.max
    BY <1>1 DEF Bounded, LevelOf
  <2> DEFINE lo == Min(levels)
             hi == Max(levels)
  <2>3. lo \in levels /\ hi \in levels
    <3> HIDE DEF levels
    <3>1. levels \in SUBSET Nat /\ levels \in SUBSET Int
      BY <1>2, LevelAssumption
    <3> QED BY <1>2, <1>4, <3>1, MaxIs, MinIs
  <2>4. lo \in Int /\ hi \in Int /\ ShareLevel \in Int
    <3> HIDE DEF levels, lo, hi
    <3> QED BY <1>2, <2>3, PlaceIs
  <2> HIDE DEF lo, hi, levels
  <2>5. hi - lo <= ShareLevel
    <3>1. pt.min <= lo /\ hi <= pt.max
      BY <2>2, <2>3
    <3> QED BY <1>1, <2>4, <3>1
  <2> QED BY <2>5 DEF lo, hi, levels
<1> QED BY <1>3, <1>4

LEMMA InvariantIs == Spec => []IInv
<1>1. Init => IInv
  BY InitIs
<1>2. IInv /\ [Next]_vars => IInv'
  BY StepIs
<1> QED BY <1>1, <1>2, PTL DEF Spec

\* The fields hold what the handlers may leave there, of both servers, whatever
\* the players do and whenever the link fails (map/party.c, char/int_party.c).
THEOREM PartyTypeOK == Spec => []TypeOK
<1>1. IInv => TypeOK
  BY TypedIsTypeOK DEF IInv
<1> QED BY <1>1, InvariantIs, PTL

\* Who shares experience is within the range of levels, though few of the
\* handlers look at it anew (inter_party_check_lv), as long as no member's level
\* changes by more than one between two of the char-server's messages.
THEOREM PartyShareInRange == Spec => []ShareInRange
<1>1. IInv => ShareInRange
  <2> SUFFICES ASSUME IInv, "leapt" \notin slips, NEW id \in PartyId, mem[id].exp,
                      Cardinality({mem[id].slots[s].lv : s \in OnlineIn(mem[id])}) > 1
               PROVE  Max({mem[id].slots[s].lv : s \in OnlineIn(mem[id])})
                        - Min({mem[id].slots[s].lv : s \in OnlineIn(mem[id])}) <= ShareLevel
    BY DEF ShareInRange
  <2>1. mem[id] \in Pt /\ Right(mem[id])
    BY DEF IInv, Typed, CharTyped
  <2> QED BY <2>1, RightIsInRange
<1> QED BY <1>1, InvariantIs, PTL

=============================================================================
