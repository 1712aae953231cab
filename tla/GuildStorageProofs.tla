------------------------- MODULE GuildStorageProofs -------------------------
(***************************************************************************)
(* Type correctness of GuildStorage, that one member at a time has the     *)
(* storage open, that nothing is left of a broken guild, that a copy not   *)
(* marked dirty is saved, and that no unit is lost or doubled, for any     *)
(* members, items, bounds and setups.                                      *)
(*                                                                         *)
(* None of the five is inductive.  A character that enters the map comes   *)
(* with nothing open: if it could enter while it is there already, the one *)
(* who has the storage open would lose it.  That it cannot rests on saves, *)
(* answers and entries on both directions of the link (Session).  That no  *)
(* member comes back to a broken guild rests on the order of messages      *)
(* (Breaking), and so does what a copy without changes stands for (Order): *)
(* which loads, saves, answers and storages are on the link, behind which. *)
(* That every unit is kept at rest is a sum over what counts on the way    *)
(* there (Accounted): the copy or the rows, session data or rows.          *)
(***************************************************************************)
EXTENDS GuildStorage, FoldTheorems, TLAPS, FiniteSetTheorems, SequenceTheorems

GStor == [loaded : BOOLEAN, dirty : BOOLEAN, status : BOOLEAN, lock : BOOLEAN, items : Bag]
Sd == [online : BOOLEAN, guild : BOOLEAN, open : BOOLEAN, waiting : BOOLEAN, inv : Bag]

\* Messages, by direction.
ToChar == [type : {"load", "retrieve"}, p : Player]
          \union [type : {"save"}, items : Bag]
          \union [type : {"char"}, p : Player, inv : Bag, quits : BOOLEAN]
          \union [type : {"break"}]
ToMap == [type : {"storage"}, exists : BOOLEAN, opens : BOOLEAN, p : Player, items : Bag]
         \union [type : {"saved", "unlock", "broken"}]
         \union [type : {"withdraw", "charSaved"}, p : Player]
         \union [type : {"enter"}, p : Player, guild : BOOLEAN, inv : Bag]

\* The last save of p, the answer to it, p entering the map; anybody entering as a member.
Leaves(p) == {m \in ToChar : m.type = "char" /\ m.quits /\ m.p = p}
Left(p) == {m \in ToMap : m.type = "charSaved" /\ m.p = p}
Enters(p) == {m \in ToMap : m.type = "enter" /\ m.p = p}
Joins == {m \in ToMap : m.type = "enter" /\ m.guild}
Breaks == {m \in ToMap : m.type = "broken"}

\* Of the messages in S there is none in s, or one at most.
Without(s, S) == \A i \in DOMAIN s : s[i] \notin S
Once(s, S) == \A i, j \in DOMAIN s : s[i] \in S /\ s[j] \in S => i = j

-----------------------------------------------------------------------------
(* The inductive invariant. *)

Shaped ==
    /\ gstor \in GStor /\ sd \in [Player -> Sd]
    /\ guild \in [exists : BOOLEAN, members : SUBSET Player]
    /\ known \in [exists : BOOLEAN, members : SUBSET Player]
    /\ db \in Bag /\ charDb \in [Player -> Bag] /\ playing \subseteq Player
    /\ up \in BOOLEAN /\ losses \in 0..MaxLosses /\ slips \subseteq Slip
    /\ toChar \in Seq(ToChar) /\ toMap \in Seq(ToMap)
    /\ ~up => toChar = << >> /\ toMap = << >>

\* Who enters is not there, nor is anything of it left to be saved; who left is saved
\* once, and the answer comes once.
Session(p) ==
    /\ sd[p].online => ~sd[p].waiting
    /\ up /\ sd[p].online => p \in playing
    /\ \/ Without(toMap, Enters(p))
       \/ Once(toMap, Enters(p)) /\ ~sd[p].online /\ ~sd[p].waiting /\ p \in playing
    /\ \/ Without(toChar, Leaves(p))
       \/ Once(toChar, Leaves(p)) /\ sd[p].waiting /\ Without(toMap, Left(p))
    /\ \/ Without(toMap, Left(p))
       \/ Once(toMap, Left(p)) /\ sd[p].waiting

Holders ==
    /\ gstor.status => gstor.loaded /\ \E p \in Player : sd[p].open
    /\ \A p \in Player : sd[p].open => sd[p].online /\ sd[p].guild /\ gstor.loaded
    /\ "shut" \notin slips => \A p \in Player : sd[p].open => /\ gstor.status
                                                              /\ \A q \in Player : sd[q].open => q = p

Breaking ==
    /\ ~guild.exists => guild.members = {}
    /\ ~known.exists => /\ ~guild.exists /\ ~gstor.loaded /\ Without(toMap, Joins)
                        /\ \A p \in Player : sd[p].online => ~sd[p].guild
    /\ Without(toMap, Breaks) \/ ~guild.exists
    /\ \A i, j \in DOMAIN toMap : i < j /\ toMap[i] \in Breaks => toMap[j] \notin Joins

IInv == Shaped /\ (\A p \in Player : Session(p)) /\ Holders /\ Breaking

-----------------------------------------------------------------------------
(* Sequences of messages. *)

LEMMA TailOf ==
    ASSUME NEW T, NEW s \in Seq(T), s # << >>
    PROVE  /\ Tail(s) \in Seq(T) /\ Head(s) \in T /\ Head(s) = s[1]
           /\ DOMAIN s = 1..Len(s) /\ DOMAIN Tail(s) = 1..(Len(s) - 1) /\ Len(s) \in Nat \ {0}
           /\ \A i \in DOMAIN Tail(s) : i + 1 \in DOMAIN s /\ Tail(s)[i] = s[i + 1]
OBVIOUS

LEMMA CatOf ==
    ASSUME NEW T, NEW s \in Seq(T), NEW t \in Seq(T)
    PROVE  /\ s \o t \in Seq(T) /\ DOMAIN s = 1..Len(s) /\ DOMAIN t = 1..Len(t)
           /\ Len(s) \in Nat /\ Len(t) \in Nat
           /\ \A i \in DOMAIN (s \o t) :
                 \/ i \in DOMAIN s /\ (s \o t)[i] = s[i]
                 \/ /\ i > Len(s) /\ i \in Nat
                    /\ i - Len(s) \in DOMAIN t /\ (s \o t)[i] = t[i - Len(s)]
OBVIOUS

LEMMA Tails ==
    ASSUME NEW T, NEW s \in Seq(T), s # << >>, NEW S
    PROVE  /\ Without(s, S) => Without(Tail(s), S)
           /\ Once(s, S) => Once(Tail(s), S)
           /\ Once(s, S) /\ Head(s) \in S => Without(Tail(s), S)
<1>1. Without(s, S) => Without(Tail(s), S)
  BY TailOf DEF Without
<1>2. ASSUME Once(s, S), NEW i \in DOMAIN Tail(s), NEW j \in DOMAIN Tail(s),
             Tail(s)[i] \in S, Tail(s)[j] \in S
      PROVE  i = j
  BY <1>2, TailOf DEF Once
<1>3. ASSUME Once(s, S), Head(s) \in S, NEW i \in DOMAIN Tail(s), Tail(s)[i] \in S
      PROVE  FALSE
  BY <1>3, TailOf DEF Once
<1> QED BY <1>1, <1>2, <1>3 DEF Once, Without

LEMMA Cats ==
    ASSUME NEW T, NEW s \in Seq(T), NEW t \in Seq(T), NEW S
    PROVE  /\ Without(s, S) /\ Without(t, S) => Without(s \o t, S)
           /\ Once(s, S) /\ Without(t, S) => Once(s \o t, S)
           /\ Without(s, S) /\ Once(t, S) => Once(s \o t, S)
<1>1. Without(s, S) /\ Without(t, S) => Without(s \o t, S)
  BY CatOf DEF Without
<1>2. ASSUME Once(s, S), Without(t, S), NEW i \in DOMAIN (s \o t), NEW j \in DOMAIN (s \o t),
             (s \o t)[i] \in S, (s \o t)[j] \in S
      PROVE  i = j
  BY <1>2, CatOf DEF Once, Without
<1>3. ASSUME Without(s, S), Once(t, S), NEW i \in DOMAIN (s \o t), NEW j \in DOMAIN (s \o t),
             (s \o t)[i] \in S, (s \o t)[j] \in S
      PROVE  i = j
  BY <1>3, CatOf DEF Once, Without
<1> QED BY <1>1, <1>2, <1>3 DEF Once

LEMMA Ones ==
    ASSUME NEW m, NEW S
    PROVE  /\ Without(<< >>, S) /\ Once(<< >>, S) /\ Once(<<m>>, S)
           /\ m \notin S => Without(<<m>>, S)
BY DEF Without, Once

-----------------------------------------------------------------------------
(* The functions of the map-server.  Those that save nobody for the last time *)
(* keep who is there, and open nothing (Calm).                                *)

Plain == {m \in ToChar : m.type = "char" => ~m.quits}
Side == [gstor : GStor, sd : [Player -> Sd], out : Seq(Plain)]

Calm(n, m) ==
    /\ n \in Side
    /\ n.gstor.loaded = m.gstor.loaded
    /\ n.gstor.status => m.gstor.status
    /\ ~up => n.out = m.out
    /\ \A q \in Player : /\ n.sd[q].online = m.sd[q].online /\ n.sd[q].guild = m.sd[q].guild
                         /\ n.sd[q].waiting = m.sd[q].waiting
                         /\ n.sd[q].open => m.sd[q].open

LEMMA NowIsSide == Shaped => Now \in Side
BY DEF Shaped, Now, Side, Plain

LEMMA CalmTrans ==
    ASSUME NEW k, NEW n, NEW m, Calm(k, n), Calm(n, m)
    PROVE  Calm(k, m)
BY DEF Calm

LEMMA SentSide ==
    ASSUME NEW m \in Side, NEW msg \in Plain
    PROVE  /\ Sent(m, msg) \in Side
           /\ Sent(m, msg).gstor = m.gstor /\ Sent(m, msg).sd = m.sd
           /\ ~up => Sent(m, msg) = m
<1>1. m.out \in Seq(Plain)
  BY DEF Side
<1>2. Append(m.out, msg) \in Seq(Plain)
  BY <1>1
<1>3. CASE up
  <2>1. Sent(m, msg) = [m EXCEPT !.out = Append(m.out, msg)]
    BY <1>3 DEF Sent
  <2> QED BY <1>2, <1>3, <2>1 DEF Side
<1> QED BY <1>3 DEF Sent

LEMMA SaveStorage ==
    ASSUME NEW m \in Side
    PROVE  LET n == GuildStorageSave(m, FALSE)
           IN  /\ n \in Side /\ n.sd = m.sd /\ (~up => n.out = m.out)
               /\ n.gstor.loaded = m.gstor.loaded /\ n.gstor.status = m.gstor.status
<1> DEFINE g == [m.gstor EXCEPT !.status = @ /\ ~FALSE]
           k == [m EXCEPT !.gstor = g]
<1>1. m.gstor \in GStor /\ m.sd \in [Player -> Sd]
  BY DEF Side
<1>2. g \in GStor /\ g.loaded = m.gstor.loaded /\ g.status = m.gstor.status
  BY <1>1 DEF GStor
<1>3. k \in Side /\ k.sd = m.sd /\ k.gstor = g /\ k.out = m.out
  BY <1>2 DEF Side
<1>4. [type |-> "save", items |-> g.items] \in Plain
  BY <1>2 DEF Plain, ToChar, GStor
<1>5. GuildStorageSave(m, FALSE) \in {m, k, Sent(k, [type |-> "save", items |-> g.items])}
  BY DEF GuildStorageSave
<1> HIDE DEF k, g
<1>6. LET n == Sent(k, [type |-> "save", items |-> g.items])
      IN  n \in Side /\ n.gstor = k.gstor /\ n.sd = k.sd /\ (~up => n.out = k.out)
  BY <1>3, <1>4, SentSide
<1> QED BY <1>2, <1>3, <1>5, <1>6

LEMMA SaveChar ==
    ASSUME NEW m \in Side, NEW p \in Player
    PROVE  LET n == ChrifSave(m, p, FALSE)
           IN  /\ Calm(n, m) /\ n.sd = m.sd /\ n.gstor.status = m.gstor.status
<1> DEFINE stored == IF m.sd[p].open THEN GuildStorageSave(m, FALSE) ELSE m
           msg == [type |-> "char", p |-> p, inv |-> m.sd[p].inv, quits |-> FALSE]
<1>1. stored \in Side /\ stored.sd = m.sd /\ (~up => stored.out = m.out)
      /\ stored.gstor.loaded = m.gstor.loaded
      /\ stored.gstor.status = m.gstor.status
  BY SaveStorage
<1>2. msg \in Plain
  BY DEF Plain, ToChar, Side, Sd
<1>3. ChrifSave(m, p, FALSE) = IF ~up THEN m ELSE Sent(stored, msg)
  BY DEF ChrifSave
<1> HIDE DEF stored, msg
<1> QED BY <1>1, <1>2, <1>3, SentSide, ZenonT(30) DEF Calm

\* The storage is shut for all: not open any more, nor for p.
Shut(n, m, p) ==
    /\ Calm(n, m)
    /\ \A q \in Player \ {p} : n.sd[q].open = m.sd[q].open
    /\ m.gstor.loaded => ~n.gstor.status /\ ~n.sd[p].open
    /\ ~m.gstor.loaded => n.gstor.status = m.gstor.status /\ n.sd[p].open = m.sd[p].open

LEMMA ShutFrom ==
    ASSUME NEW m, NEW p \in Player, NEW n, Calm(n, m), n.sd = m.sd, m.gstor.loaded,
           NEW k \in Side, k.gstor.loaded = n.gstor.loaded, ~k.gstor.status, k.out = n.out,
           k.sd[p].online = n.sd[p].online, k.sd[p].guild = n.sd[p].guild,
           k.sd[p].waiting = n.sd[p].waiting, ~k.sd[p].open,
           \A q \in Player \ {p} : k.sd[q] = n.sd[q]
    PROVE  Shut(k, m, p)
<1>1. k.gstor.loaded = m.gstor.loaded /\ (k.gstor.status => m.gstor.status) /\ (~up => k.out = m.out)
  BY DEF Calm
<1>2. ASSUME NEW q \in Player
      PROVE  /\ k.sd[q].online = m.sd[q].online /\ k.sd[q].guild = m.sd[q].guild
             /\ k.sd[q].waiting = m.sd[q].waiting
             /\ k.sd[q].open => m.sd[q].open
  <2>1. CASE q = p
    BY <2>1
  <2>2. CASE q # p
    <3>1. k.sd[q] = m.sd[q]
      BY <2>2
    <3> QED BY <3>1
  <2> QED BY <2>1, <2>2
<1>3. Calm(k, m)
  BY <1>1, <1>2 DEF Calm
<1>4. \A q \in Player \ {p} : k.sd[q].open = m.sd[q].open
  OBVIOUS
<1> QED BY <1>3, <1>4 DEF Shut

LEMMA ShutIs ==
    ASSUME NEW m \in Side, NEW p \in Player, NEW n, Calm(n, m), n.sd = m.sd, m.gstor.loaded
    PROVE  /\ Shut([n EXCEPT !.gstor.status = FALSE, !.sd[p].open = FALSE], m, p)
           /\ Shut([n EXCEPT !.sd[p].open = FALSE, !.gstor.status = FALSE], m, p)
           /\ ~n.gstor.status => Shut([n EXCEPT !.sd[p].open = FALSE], m, p)
<1>1. n \in Side /\ n.gstor \in GStor /\ n.sd \in [Player -> Sd] /\ n.sd[p] \in Sd
  BY DEF Calm, Side
<1> DEFINE g == [n.gstor EXCEPT !.status = FALSE]
           d == [n.sd EXCEPT ![p] = [n.sd[p] EXCEPT !.open = FALSE]]
<1>2. g \in GStor /\ g.loaded = n.gstor.loaded /\ ~g.status
  BY <1>1 DEF GStor
<1>3. /\ d \in [Player -> Sd] /\ ~d[p].open
      /\ d[p].online = n.sd[p].online /\ d[p].guild = n.sd[p].guild /\ d[p].waiting = n.sd[p].waiting
      /\ \A q \in Player \ {p} : d[q] = n.sd[q]
  BY <1>1 DEF Sd
<1>4. [n EXCEPT !.gstor.status = FALSE, !.sd[p].open = FALSE] = [n EXCEPT !.gstor = g, !.sd = d]
      /\ [n EXCEPT !.sd[p].open = FALSE, !.gstor.status = FALSE] = [n EXCEPT !.gstor = g, !.sd = d]
      /\ [n EXCEPT !.sd[p].open = FALSE] = [n EXCEPT !.sd = d]
  BY <1>1 DEF Side
<1> DEFINE k == [n EXCEPT !.gstor = g, !.sd = d]
           l == [n EXCEPT !.sd = d]
<1>5. k \in Side /\ k.gstor = g /\ k.sd = d /\ k.out = n.out
  BY <1>1, <1>2, <1>3 DEF Side
<1>6. l \in Side /\ l.gstor = n.gstor /\ l.sd = d /\ l.out = n.out
  BY <1>1, <1>3 DEF Side
<1> HIDE DEF g, d, k, l
<1>7. Shut(k, m, p)
  <2>1. k.gstor.loaded = n.gstor.loaded /\ ~k.gstor.status
    BY <1>2, <1>5
  <2>2. /\ k.sd[p].online = n.sd[p].online /\ k.sd[p].guild = n.sd[p].guild
        /\ k.sd[p].waiting = n.sd[p].waiting /\ ~k.sd[p].open
        /\ \A q \in Player \ {p} : k.sd[q] = n.sd[q]
    BY <1>3, <1>5
  <2> QED BY <1>5, <2>1, <2>2, ShutFrom
<1>8. ~n.gstor.status => Shut(l, m, p)
  <2>1. /\ l.sd[p].online = n.sd[p].online /\ l.sd[p].guild = n.sd[p].guild
        /\ l.sd[p].waiting = n.sd[p].waiting /\ ~l.sd[p].open
        /\ \A q \in Player \ {p} : l.sd[q] = n.sd[q]
    BY <1>3, <1>6
  <2> QED BY <1>6, <2>1, ShutFrom
<1> QED BY <1>4, <1>7, <1>8 DEF k, l

LEMMA CloseShuts ==
    ASSUME NEW m \in Side, NEW p \in Player
    PROVE  Shut(GuildStorageClose(m, p), m, p)
<1>1. CASE ~m.gstor.loaded
  BY <1>1 DEF GuildStorageClose, Shut, Calm
<1>2. CASE m.gstor.loaded /\ m.gstor.status
  <2> DEFINE n == ChrifSave(m, p, FALSE)
  <2>1. Calm(n, m) /\ n.sd = m.sd
    BY SaveChar
  <2>2. GuildStorageClose(m, p) = [[n EXCEPT !.gstor.status = FALSE] EXCEPT !.sd[p].open = FALSE]
    BY <1>2 DEF GuildStorageClose
  <2> HIDE DEF n
  <2> QED BY <1>2, <2>1, <2>2, ShutIs, ZenonT(30)
<1>3. CASE m.gstor.loaded /\ ~m.gstor.status
  <2>1. GuildStorageClose(m, p) = [m EXCEPT !.sd[p].open = FALSE]
    BY <1>3 DEF GuildStorageClose
  <2>2. Calm(m, m)
    BY DEF Calm
  <2> QED BY <1>3, <2>1, <2>2, ShutIs
<1> QED BY <1>1, <1>2, <1>3

LEMMA QuitShuts ==
    ASSUME NEW m \in Side, NEW p \in Player
    PROVE  Shut(GuildStorageQuit(m, p, FALSE), m, p)
<1>1. CASE ~m.gstor.loaded
  BY <1>1 DEF GuildStorageQuit, Shut, Calm
<1>2. CASE m.gstor.loaded
  <2> DEFINE n == IF m.gstor.status THEN ChrifSave(m, p, FALSE) ELSE m
  <2>1. Calm(n, m) /\ n.sd = m.sd
    BY SaveChar DEF Calm
  <2>2. GuildStorageQuit(m, p, FALSE) = [n EXCEPT !.sd[p].open = FALSE, !.gstor.status = FALSE]
    BY <1>2 DEF GuildStorageQuit
  <2> HIDE DEF n
  <2>3. Shut([n EXCEPT !.sd[p].open = FALSE, !.gstor.status = FALSE], m, p)
    BY <1>2, <2>1, ShutIs
  <2> QED BY <2>2, <2>3
<1> QED BY <1>1, <1>2

LEMMA ShutTrans ==
    ASSUME NEW k, NEW n, NEW m, NEW p \in Player, Shut(k, n, p), Calm(n, m),
           n.gstor.status = m.gstor.status, \A q \in Player : n.sd[q].open = m.sd[q].open
    PROVE  Shut(k, m, p)
BY DEF Shut, Calm

LEMMA ClearShuts ==
    ASSUME NEW m \in Side, NEW p \in Player
    PROVE  Shut(PcBoundClear(m, p), m, p)
<1> DEFINE fits(i) == /\ m.gstor.loaded /\ m.sd[p].inv[i] > 0
                      /\ m.gstor.items[i] + m.sd[p].inv[i] <= MaxAmount
           into == [i \in Item |-> IF i \in Bound /\ fits(i)
                                   THEN m.gstor.items[i] + m.sd[p].inv[i] ELSE m.gstor.items[i]]
           rest == [i \in Item |-> IF i \in Bound THEN 0 ELSE m.sd[p].inv[i]]
           g == [m.gstor EXCEPT !.items = into, !.dirty = @ \/ into # m.gstor.items]
           d == [m.sd EXCEPT ![p] = [m.sd[p] EXCEPT !.inv = rest]]
           moved == [m EXCEPT !.gstor.items = into, !.gstor.dirty = @ \/ into # m.gstor.items,
                              !.sd[p].inv = [i \in Item |-> IF i \in Bound THEN 0 ELSE @[i]]]
<1>1. /\ m.gstor \in GStor /\ m.sd \in [Player -> Sd] /\ m.sd[p] \in Sd
      /\ m.gstor.items \in Bag /\ m.sd[p].inv \in Bag
  BY DEF Side, GStor, Sd
<1>2. into \in Bag /\ rest \in Bag
  BY <1>1 DEF Bag
<1>3. moved = [m EXCEPT !.gstor = g, !.sd = d]
  BY <1>1 DEF Side, GStor
<1>4. PcBoundClear(m, p) = GuildStorageClose(moved, p)
  BY DEF PcBoundClear
<1> HIDE DEF into, rest
<1>5. g \in GStor /\ g.loaded = m.gstor.loaded /\ g.status = m.gstor.status
  BY <1>1, <1>2 DEF GStor
<1>6. /\ d \in [Player -> Sd]
      /\ \A q \in Player : /\ d[q].online = m.sd[q].online /\ d[q].guild = m.sd[q].guild
                           /\ d[q].waiting = m.sd[q].waiting /\ d[q].open = m.sd[q].open
  BY <1>1, <1>2 DEF Sd
<1> HIDE DEF g, d
<1>7. moved \in Side /\ moved.gstor = g /\ moved.sd = d /\ moved.out = m.out
  BY <1>3, <1>5, <1>6 DEF Side
<1> HIDE DEF moved
<1>8. Calm(moved, m)
  BY <1>5, <1>6, <1>7 DEF Calm
<1> QED BY <1>4, <1>5, <1>6, <1>7, <1>8, CloseShuts, ShutTrans

\* The last save of p, which has nothing open.
LEMMA SaveLast ==
    ASSUME NEW m \in Side, NEW p \in Player, ~m.sd[p].open
    PROVE  LET n == ChrifSave(m, p, TRUE)
               msg == [type |-> "char", p |-> p, inv |-> m.sd[p].inv, quits |-> TRUE]
           IN  /\ n.gstor = m.gstor /\ n.sd \in [Player -> Sd]
               /\ \A q \in Player \ {p} : n.sd[q] = m.sd[q]
               /\ n.sd[p].waiting /\ ~n.sd[p].open /\ n.sd[p].inv = m.sd[p].inv
               /\ n = [gstor |-> n.gstor, sd |-> n.sd, out |-> n.out]
               /\ msg \in ToChar
               /\ n.out = IF up THEN Append(m.out, msg) ELSE m.out
<1> DEFINE msg == [type |-> "char", p |-> p, inv |-> m.sd[p].inv, quits |-> TRUE]
           d == [m.sd EXCEPT ![p] = [m.sd[p] EXCEPT !.waiting = TRUE]]
           e == [d EXCEPT ![p] = [d[p] EXCEPT !.open = FALSE]]
           kept == [m EXCEPT !.sd[p].waiting = TRUE]
           shut == [kept EXCEPT !.sd[p].open = FALSE]
<1>1. m.sd \in [Player -> Sd] /\ m.sd[p] \in Sd
  BY DEF Side
<1>2. kept = [m EXCEPT !.sd = d]
  BY DEF Side
<1>3. /\ d \in [Player -> Sd] /\ d[p].waiting /\ ~d[p].open /\ d[p].inv = m.sd[p].inv
      /\ \A q \in Player \ {p} : d[q] = m.sd[q]
  BY <1>1 DEF Sd
<1>4. /\ e \in [Player -> Sd] /\ e[p].waiting /\ ~e[p].open /\ e[p].inv = m.sd[p].inv
      /\ \A q \in Player \ {p} : e[q] = m.sd[q]
  <2> HIDE DEF d
  <2>1. d[p] \in Sd
    BY <1>3
  <2>2. [d[p] EXCEPT !.open = FALSE] \in Sd /\ [d[p] EXCEPT !.open = FALSE].waiting = d[p].waiting
        /\ ~[d[p] EXCEPT !.open = FALSE].open /\ [d[p] EXCEPT !.open = FALSE].inv = d[p].inv
    BY <2>1 DEF Sd
  <2> QED BY <1>3, <2>2
<1>5. msg \in ToChar
  BY <1>1 DEF ToChar, Sd
<1> HIDE DEF d, kept
<1>6. kept = [gstor |-> m.gstor, sd |-> d, out |-> m.out]
  BY <1>2 DEF Side
<1>7. shut = [gstor |-> m.gstor, sd |-> e, out |-> m.out]
  <2>1. kept.sd = d /\ kept.gstor = m.gstor /\ kept.out = m.out
    BY <1>6
  <2>2. shut = [kept EXCEPT !.sd = e]
    BY <2>1
  <2> HIDE DEF shut, e
  <2> QED BY <1>6, <2>2
<1> HIDE DEF e, shut, msg
<1>8. ChrifSave(m, p, TRUE) = IF ~up THEN kept ELSE [shut EXCEPT !.out = Append(@, msg)]
  BY DEF ChrifSave, Sent, kept, shut, msg
<1>9. ~up => ChrifSave(m, p, TRUE) = [gstor |-> m.gstor, sd |-> d, out |-> m.out]
  BY <1>6, <1>8
<1>10. up => ChrifSave(m, p, TRUE) = [gstor |-> m.gstor, sd |-> e, out |-> Append(m.out, msg)]
  <2>1. [shut EXCEPT !.out = Append(@, msg)] = [gstor |-> m.gstor, sd |-> e, out |-> Append(m.out, msg)]
    BY <1>7, SMTT(30)
  <2> QED BY <1>8, <2>1
<1> DEFINE n == ChrifSave(m, p, TRUE)
<1> HIDE DEF n
<1>11. /\ n.gstor = m.gstor /\ n.sd \in {d, e}
       /\ n = [gstor |-> n.gstor, sd |-> n.sd, out |-> n.out]
       /\ n.out = IF up THEN Append(m.out, msg) ELSE m.out
  <2>1. CASE ~up
    <3>1. n = [gstor |-> m.gstor, sd |-> d, out |-> m.out]
      BY <1>9, <2>1 DEF n
    <3> QED BY <2>1, <3>1
  <2>2. CASE up
    <3>1. n = [gstor |-> m.gstor, sd |-> e, out |-> Append(m.out, msg)]
      BY <1>10, <2>2 DEF n
    <3> QED BY <2>2, <3>1
  <2> QED BY <2>1, <2>2
<1>12. /\ n.sd \in [Player -> Sd] /\ n.sd[p].waiting /\ ~n.sd[p].open /\ n.sd[p].inv = m.sd[p].inv
       /\ \A q \in Player \ {p} : n.sd[q] = m.sd[q]
  BY <1>3, <1>4, <1>11
<1> QED BY <1>5, <1>11, <1>12 DEF n, msg

-----------------------------------------------------------------------------
(* What a step keeps of each part of the invariant.                          *)

\* The map-server takes one message, or none, and sends nobody's last save.
LEMMA SessionKept ==
    ASSUME Shaped, NEW p \in Player, Session(p), NEW more \in Seq(Plain),
           toChar' = toChar \o more,
           toMap' = toMap \/ (toMap # << >> /\ toMap' = Tail(toMap)),
           up' = up, playing' = playing,
           sd'[p].online = sd[p].online, sd'[p].waiting = sd[p].waiting
    PROVE  Session(p)'
<1>1. toChar \in Seq(ToChar) /\ toMap \in Seq(ToMap) /\ more \in Seq(ToChar)
  BY DEF Shaped, Plain
<1>2. Without(more, Leaves(p))
  BY DEF Without, Leaves, Plain
<1>3. /\ Without(toChar, Leaves(p)) => Without(toChar', Leaves(p))
      /\ Once(toChar, Leaves(p)) => Once(toChar', Leaves(p))
  BY <1>1, <1>2, Cats
<1>4. \A S : /\ Without(toMap, S) => Without(toMap', S)
             /\ Once(toMap, S) => Once(toMap', S)
  BY <1>1, Tails
<1>5. Enters(p)' = Enters(p) /\ Leaves(p)' = Leaves(p) /\ Left(p)' = Left(p)
  BY DEF Enters, Leaves, Left, ToChar, ToMap
<1> QED BY <1>3, <1>4, <1>5 DEF Session, Without, Once

\* The char-server takes one message, or none, and answers with nobody entering or having left.
LEMMA SessionAnswered ==
    ASSUME Shaped, NEW p \in Player, Session(p), NEW more \in Seq(ToMap),
           Without(more, Enters(p)), Without(more, Left(p)),
           toMap' = toMap \o more,
           toChar' = toChar \/ (toChar # << >> /\ toChar' = Tail(toChar)),
           up' = up, playing' = playing, sd' = sd
    PROVE  Session(p)'
<1>1. toChar \in Seq(ToChar) /\ toMap \in Seq(ToMap)
  BY DEF Shaped
<1>2. /\ Without(toChar, Leaves(p)) => Without(toChar', Leaves(p))
      /\ Once(toChar, Leaves(p)) => Once(toChar', Leaves(p))
  BY <1>1, Tails
<1>3. /\ Without(toMap, Enters(p)) => Without(toMap', Enters(p))
      /\ Once(toMap, Enters(p)) => Once(toMap', Enters(p))
      /\ Without(toMap, Left(p)) => Without(toMap', Left(p))
      /\ Once(toMap, Left(p)) => Once(toMap', Left(p))
  BY <1>1, Cats
<1>4. Enters(p)' = Enters(p) /\ Leaves(p)' = Leaves(p) /\ Left(p)' = Left(p)
  BY DEF Enters, Leaves, Left, ToChar, ToMap
<1> QED BY <1>2, <1>3, <1>4 DEF Session, Without, Once

\* The map-server takes one message, or none; nobody becomes a member.
LEMMA BreakingKept ==
    ASSUME Shaped, Breaking,
           toMap' = toMap \/ (toMap # << >> /\ toMap' = Tail(toMap)),
           guild' = guild, known'.exists = known.exists,
           gstor'.loaded => gstor.loaded \/ known.exists,
           \A p \in Player : sd'[p].online /\ sd'[p].guild => sd[p].online /\ sd[p].guild
    PROVE  Breaking'
<1>1. toMap \in Seq(ToMap)
  BY DEF Shaped
<1>2. \A S : Without(toMap, S) => Without(toMap', S)
  BY <1>1, Tails
<1>3. ASSUME NEW i \in DOMAIN toMap', NEW j \in DOMAIN toMap', i < j, toMap'[i] \in Breaks
      PROVE  toMap'[j] \notin Joins
  <2>1. CASE toMap' = toMap
    BY <1>3, <2>1 DEF Breaking
  <2>2. CASE toMap # << >> /\ toMap' = Tail(toMap)
    BY <1>1, <1>3, <2>2, TailOf DEF Breaking
  <2> QED BY <2>1, <2>2
<1>4. Joins' = Joins /\ Breaks' = Breaks
  BY DEF Joins, Breaks, ToMap
<1> QED BY <1>2, <1>3, <1>4 DEF Breaking, Without

\* The char-server answers with nobody entering and no broken guild.
LEMMA BreakingAnswered ==
    ASSUME Shaped, Breaking, NEW more \in Seq(ToMap),
           Without(more, Joins), Without(more, Breaks), toMap' = toMap \o more,
           guild' = guild \/ (~guild'.exists /\ guild'.members = {}) \/ (guild.exists /\ guild'.exists),
           known' = known, gstor' = gstor, sd' = sd
    PROVE  Breaking'
<1>1. toMap \in Seq(ToMap)
  BY DEF Shaped
<1>2. Without(toMap, Joins) => Without(toMap', Joins)
  BY <1>1, Cats
<1>3. Without(toMap, Breaks) => Without(toMap', Breaks)
  BY <1>1, Cats
<1>4. ASSUME NEW i \in DOMAIN toMap', NEW j \in DOMAIN toMap', i < j, toMap'[i] \in Breaks
      PROVE  toMap'[j] \notin Joins
  BY <1>1, <1>4, CatOf DEF Breaking, Without
<1>5. Joins' = Joins /\ Breaks' = Breaks
  BY DEF Joins, Breaks, ToMap
<1> QED BY <1>2, <1>3, <1>4, <1>5 DEF Breaking, Without

\* Nothing is opened or closed.
LEMMA HoldersKept ==
    ASSUME Holders, gstor'.status = gstor.status, gstor'.loaded = gstor.loaded,
           slips \subseteq slips',
           \A p \in Player : /\ sd'[p].open <=> sd[p].open
                             /\ sd[p].open => /\ sd'[p].online = sd[p].online
                                              /\ sd'[p].guild = sd[p].guild
    PROVE  Holders'
BY DEF Holders

\* The storage is shut, for p and all others, or "shut" tells of it.
LEMMA HoldersShut ==
    ASSUME Holders, NEW p \in Player, NEW k, Shut(k, Now, p),
           gstor'.status = k.gstor.status, gstor'.loaded = k.gstor.loaded,
           slips \subseteq slips', sd[p].open \/ ~gstor.status \/ "shut" \in slips',
           \A q \in Player : sd'[q].open => /\ k.sd[q].open
                                            /\ sd'[q].online = sd[q].online
                                            /\ sd'[q].guild = sd[q].guild
    PROVE  Holders'
<1>1. Now.gstor = gstor /\ Now.sd = sd
  BY DEF Now
<1>2. gstor'.loaded = gstor.loaded /\ ~gstor'.status
  BY <1>1 DEF Shut, Calm, Holders
<1>3. \A q \in Player : sd'[q].open => q # p /\ sd[q].open
  BY <1>1 DEF Shut, Calm, Holders
<1>4. \A q \in Player : sd'[q].open => sd'[q].online /\ sd'[q].guild /\ gstor'.loaded
  BY <1>2, <1>3 DEF Holders
<1>5. "shut" \notin slips' => \A q \in Player : ~sd'[q].open
  BY <1>3 DEF Holders
<1> QED BY <1>2, <1>4, <1>5 DEF Holders

\* The shape of what the map-server does.
LEMMA ShapedDone ==
    ASSUME Shaped, NEW k \in Side, Does(k), ~up => k.out = << >>,
           toMap' = toMap \/ (toMap # << >> /\ toMap' = Tail(toMap)),
           UNCHANGED <<CharSide, up, losses>>, slips' \subseteq Slip,
           known' = known \/ \E P \in SUBSET Player : known' = [known EXCEPT !.members = P]
    PROVE  Shaped'
<1>1. k.gstor \in GStor /\ k.sd \in [Player -> Sd] /\ k.out \in Seq(ToChar)
  BY DEF Side, Plain
<1>2. toChar' \in Seq(ToChar) /\ (~up' => toChar' = << >> /\ toMap' = << >>)
  BY <1>1, CatOf DEF Shaped, Does
<1>3. toMap' \in Seq(ToMap)
  BY TailOf DEF Shaped
<1>4. known' \in [exists : BOOLEAN, members : SUBSET Player]
  BY DEF Shaped
<1> QED BY <1>1, <1>2, <1>3, <1>4 DEF Shaped, Does, CharSide, GStor, Sd, Bag, ToChar, ToMap

LEMMA ShapedAnswered ==
    ASSUME Shaped, NEW more \in Seq(ToMap), toMap' = toMap \o more,
           toChar # << >>, toChar' = Tail(toChar),
           UNCHANGED <<MapSide, up, losses>>, slips' \subseteq Slip,
           guild' \in [exists : BOOLEAN, members : SUBSET Player],
           db' \in Bag, charDb' \in [Player -> Bag], playing' \subseteq Player
    PROVE  Shaped'
<1>1. toChar' \in Seq(ToChar) /\ toMap' \in Seq(ToMap)
  BY TailOf, CatOf DEF Shaped
<1>2. up'
  BY DEF Shaped
<1> QED BY <1>1, <1>2 DEF Shaped, MapSide, GStor, Sd, Bag, ToChar, ToMap

-----------------------------------------------------------------------------
(* The steps. *)

\* What the map-server does without opening or closing anything.
LEMMA StepCalm ==
    ASSUME IInv, NEW k, Calm(k, Now), Does(k),
           UNCHANGED <<CharSide, known, toMap, Fixed, slips>>,
           k.gstor.status = gstor.status, \A q \in Player : k.sd[q].open = sd[q].open
    PROVE  IInv'
<1>1. Shaped /\ k \in Side /\ Now.gstor = gstor /\ Now.sd = sd /\ Now.out = << >>
  BY DEF IInv, Calm, Now
<1>2. Shaped'
  BY <1>1, ShapedDone DEF Fixed, Shaped, Calm
<1>3. /\ gstor' = k.gstor /\ sd' = k.sd
      /\ toChar' = toChar \o k.out /\ k.out \in Seq(Plain)
  BY <1>1 DEF Does, Side
<1>4. \A q \in Player : Session(q)'
  BY <1>1, <1>3, SessionKept DEF IInv, CharSide, Fixed, Calm
<1>5. Holders'
  BY <1>1, <1>3, HoldersKept DEF IInv, Calm
<1>6. Breaking'
  BY <1>1, <1>3, BreakingKept DEF IInv, CharSide, Calm
<1> QED BY <1>2, <1>4, <1>5, <1>6 DEF IInv

\* What the map-server does that shuts the storage.
LEMMA StepShut ==
    ASSUME IInv, NEW p \in Player, NEW k, Shut(k, Now, p), Does(k),
           UNCHANGED <<CharSide, known, toMap, Fixed>>,
           slips \subseteq slips', slips' \subseteq Slip,
           sd[p].open \/ ~gstor.status \/ "shut" \in slips'
    PROVE  IInv'
<1>1. /\ Shaped /\ Calm(k, Now) /\ k \in Side
      /\ Now.gstor = gstor /\ Now.sd = sd /\ Now.out = << >>
  BY DEF IInv, Shut, Calm, Now
<1>2. Shaped'
  BY <1>1, ShapedDone DEF Fixed, Shaped, Calm
<1>3. /\ gstor' = k.gstor /\ sd' = k.sd
      /\ toChar' = toChar \o k.out /\ k.out \in Seq(Plain)
  BY <1>1 DEF Does, Side
<1>4. \A q \in Player : Session(q)'
  BY <1>1, <1>3, SessionKept DEF IInv, CharSide, Fixed, Calm
<1>5. Holders'
  BY <1>1, <1>3, HoldersShut DEF IInv, Calm
<1>6. Breaking'
  BY <1>1, <1>3, BreakingKept DEF IInv, CharSide, Calm
<1> QED BY <1>2, <1>4, <1>5, <1>6 DEF IInv

LEMMA StepOpen ==
    ASSUME IInv, NEW p \in Player, GuildStorageOpen(p)
    PROVE  IInv'
<1> DEFINE loads == Sent(Now, [type |-> "load", p |-> p])
           g == [gstor EXCEPT !.status = TRUE]
           d == [sd EXCEPT ![p] = [sd[p] EXCEPT !.open = TRUE]]
           opens == [Now EXCEPT !.gstor.status = TRUE, !.sd[p].open = TRUE]
<1>1. Shaped /\ Now \in Side /\ gstor \in GStor /\ sd \in [Player -> Sd] /\ sd[p] \in Sd
  BY NowIsSide DEF IInv, Shaped
<1>2. CASE ~gstor.loaded
  <2>1. [type |-> "load", p |-> p] \in Plain
    BY DEF Plain, ToChar
  <2>2. loads \in Side /\ loads.gstor = gstor /\ loads.sd = sd /\ (~up => loads.out = << >>)
    BY <1>1, <2>1, SentSide DEF Now
  <2>3. Does(loads) /\ UNCHANGED <<CharSide, known, toMap, Fixed, slips>>
    BY <1>2 DEF GuildStorageOpen
  <2> HIDE DEF loads
  <2>4. Calm(loads, Now)
    BY <2>2 DEF Calm, Now
  <2> QED BY <2>2, <2>3, <2>4, StepCalm
<1>3. CASE gstor.loaded
  <2>1. g \in GStor /\ g.loaded /\ g.status
    BY <1>1, <1>3 DEF GStor
  <2>2. /\ d \in [Player -> Sd] /\ d[p].open /\ d[p].online = sd[p].online
        /\ d[p].guild = sd[p].guild /\ d[p].waiting = sd[p].waiting
        /\ \A q \in Player \ {p} : d[q] = sd[q]
    BY <1>1 DEF Sd
  <2>3. opens = [gstor |-> g, sd |-> d, out |-> << >>]
    <3>1. Now.gstor = gstor /\ Now.sd = sd /\ Now = [gstor |-> gstor, sd |-> sd, out |-> << >>]
      BY DEF Now
    <3>2. opens = [Now EXCEPT !.gstor = g, !.sd = d]
      BY <3>1
    <3> HIDE DEF opens, g, d
    <3>3. opens = [[Now EXCEPT !.gstor = g] EXCEPT !.sd = d]
      BY <3>2
    <3>4. [Now EXCEPT !.gstor = g] = [gstor |-> g, sd |-> sd, out |-> << >>]
      BY <3>1
    <3> QED BY <3>3, <3>4
  <2>4. /\ Does(opens) /\ UNCHANGED <<CharSide, known, toMap, Fixed, slips>> /\ ~gstor.status
        /\ sd[p].online /\ sd[p].guild /\ ~sd[p].open
    BY <1>3 DEF GuildStorageOpen
  <2> HIDE DEF g, d, opens
  <2>5. opens \in Side /\ opens.out = << >>
    BY <2>1, <2>2, <2>3 DEF Side
  <2>6. Shaped'
    BY <1>1, <2>4, <2>5, ShapedDone DEF Fixed, Shaped
  <2>7. gstor' = g /\ sd' = d /\ toChar' = toChar \o << >> /\ << >> \in Seq(Plain)
    BY <2>3, <2>4, <2>5 DEF Does
  <2>8. \A q \in Player : Session(q)'
    <3> TAKE q \in Player
    <3>1. sd'[q].online = sd[q].online /\ sd'[q].waiting = sd[q].waiting
      BY <2>2, <2>7
    <3> QED BY <1>1, <2>4, <2>7, <3>1, SessionKept DEF IInv, CharSide, Fixed
  <2>9. Holders'
    BY <1>3, <2>1, <2>2, <2>4, <2>7 DEF IInv, Holders
  <2>10. Breaking'
    <3>1. \A q \in Player : sd'[q].online /\ sd'[q].guild => sd[q].online /\ sd[q].guild
      BY <2>2, <2>4, <2>7
    <3> QED BY <1>1, <1>3, <2>4, <2>7, <3>1, BreakingKept DEF IInv, CharSide
  <2> QED BY <2>6, <2>8, <2>9, <2>10 DEF IInv
<1> QED BY <1>2, <1>3

\* A unit moves between p and the storage.
LEMMA StepMove ==
    ASSUME IInv, NEW p \in Player, NEW i \in Item, NEW x \in Nat, NEW y \in Nat,
           Does([Now EXCEPT !.gstor.items[i] = x, !.gstor.dirty = TRUE, !.sd[p].inv[i] = y]),
           UNCHANGED <<CharSide, known, toMap, Fixed, slips>>
    PROVE  IInv'
<1> DEFINE g == [gstor EXCEPT !.items = [gstor.items EXCEPT ![i] = x], !.dirty = TRUE]
           d == [sd EXCEPT ![p] = [sd[p] EXCEPT !.inv = [sd[p].inv EXCEPT ![i] = y]]]
           k == [Now EXCEPT !.gstor.items[i] = x, !.gstor.dirty = TRUE, !.sd[p].inv[i] = y]
<1>1. /\ Shaped /\ gstor \in GStor /\ sd \in [Player -> Sd] /\ sd[p] \in Sd
      /\ Now.gstor = gstor /\ Now.sd = sd /\ Now = [gstor |-> gstor, sd |-> sd, out |-> << >>]
  BY DEF IInv, Shaped, Now
<1>2. gstor.items \in Bag /\ sd[p].inv \in Bag
  BY <1>1 DEF GStor, Sd
<1>3. [gstor.items EXCEPT ![i] = x] \in Bag /\ [sd[p].inv EXCEPT ![i] = y] \in Bag
  BY <1>2 DEF Bag
<1>4. g \in GStor /\ g.loaded = gstor.loaded /\ g.status = gstor.status
  BY <1>1, <1>3 DEF GStor
<1>5. /\ d \in [Player -> Sd]
      /\ \A q \in Player : /\ d[q].online = sd[q].online /\ d[q].guild = sd[q].guild
                           /\ d[q].waiting = sd[q].waiting /\ d[q].open = sd[q].open
  BY <1>1, <1>3 DEF Sd
<1>6. k = [[Now EXCEPT !.gstor = g] EXCEPT !.sd = d]
  BY <1>1 DEF GStor
<1> HIDE DEF g, d
<1>7. [Now EXCEPT !.gstor = g] = [gstor |-> g, sd |-> sd, out |-> << >>]
  BY <1>1
<1> HIDE DEF k
<1>8. k = [gstor |-> g, sd |-> d, out |-> << >>]
  BY <1>6, <1>7
<1>9. Calm(k, Now)
  BY <1>1, <1>4, <1>5, <1>8 DEF Calm, Side
<1>10. Does(k)
  BY DEF k
<1> QED BY <1>4, <1>5, <1>8, <1>9, <1>10, StepCalm

LEMMA StepLocked ==
    ASSUME IInv, NEW p \in Player, sd[p].open, Does(GuildStorageClose(Now, p)),
           UNCHANGED <<CharSide, known, toMap, Fixed, slips>>
    PROVE  IInv'
<1>1. Shut(GuildStorageClose(Now, p), Now, p)
  BY CloseShuts, NowIsSide DEF IInv
<1> QED BY <1>1, StepShut DEF IInv, Shaped

LEMMA StepAdd ==
    ASSUME IInv, NEW p \in Player, NEW i \in Item, NEW cart \in BOOLEAN,
           GuildStorageAdd(p, i, cart)
    PROVE  IInv'
<1>1. CASE gstor.lock /\ ~cart
  BY <1>1, StepLocked DEF GuildStorageAdd, Usable
<1>2. CASE ~(gstor.lock /\ ~cart)
  <2>1. gstor.items[i] \in Nat /\ sd[p].inv[i] \in Nat /\ sd[p].inv[i] > 0
    BY DEF GuildStorageAdd, IInv, Shaped, GStor, Sd, Bag
  <2>2. Does([Now EXCEPT !.gstor.items[i] = gstor.items[i] + 1, !.gstor.dirty = TRUE,
                         !.sd[p].inv[i] = sd[p].inv[i] - 1])
    BY <1>2 DEF GuildStorageAdd, Now
  <2>3. gstor.items[i] + 1 \in Nat /\ sd[p].inv[i] - 1 \in Nat
    BY <2>1
  <2> QED BY <2>2, <2>3, StepMove DEF GuildStorageAdd
<1> QED BY <1>1, <1>2

LEMMA StepGet ==
    ASSUME IInv, NEW p \in Player, NEW i \in Item, NEW cart \in BOOLEAN,
           GuildStorageGet(p, i, cart)
    PROVE  IInv'
<1>1. CASE gstor.lock /\ ~cart
  BY <1>1, StepLocked DEF GuildStorageGet, Usable
<1>2. CASE ~(gstor.lock /\ ~cart)
  <2>1. gstor.items[i] \in Nat /\ sd[p].inv[i] \in Nat /\ gstor.items[i] > 0
    BY DEF GuildStorageGet, IInv, Shaped, GStor, Sd, Bag
  <2>2. Does([Now EXCEPT !.gstor.items[i] = gstor.items[i] - 1, !.gstor.dirty = TRUE,
                         !.sd[p].inv[i] = sd[p].inv[i] + 1])
    BY <1>2 DEF GuildStorageGet, Now
  <2>3. gstor.items[i] - 1 \in Nat /\ sd[p].inv[i] + 1 \in Nat
    BY <2>1
  <2> QED BY <2>2, <2>3, StepMove DEF GuildStorageGet
<1> QED BY <1>1, <1>2

LEMMA StepClose ==
    ASSUME IInv, NEW p \in Player, CloseStorage(p)
    PROVE  IInv'
BY StepLocked DEF CloseStorage

LEMMA StepAutoSave ==
    ASSUME IInv, NEW p \in Player, AutoSave(p)
    PROVE  IInv'
<1>1. Now \in Side /\ Now.gstor = gstor /\ Now.sd = sd
  BY NowIsSide DEF IInv, Now
<1> QED BY <1>1, SaveChar, StepCalm DEF AutoSave

LEMMA StepQuit ==
    ASSUME IInv, NEW p \in Player, MapQuit(p)
    PROVE  IInv'
<1> DEFINE shut == [GuildStorageQuit(Now, p, FALSE) EXCEPT !.sd[p].open = FALSE]
           left == IF sd[p].open THEN shut ELSE Now
           saved == ChrifSave(left, p, TRUE)
           msg == [type |-> "char", p |-> p, inv |-> left.sd[p].inv, quits |-> TRUE]
           gone == [saved EXCEPT !.sd[p].online = FALSE]
<1>1. /\ Shaped /\ Session(p) /\ Holders /\ Breaking /\ Now \in Side
      /\ Now.gstor = gstor /\ Now.sd = sd /\ Now.out = << >>
      /\ sd[p].online /\ ~sd[p].waiting
  BY NowIsSide DEF IInv, Now, MapQuit, Session
<1>2. Shut(left, Now, p) \/ (left = Now /\ ~sd[p].open)
  <2>1. CASE sd[p].open
    <3> DEFINE n == GuildStorageQuit(Now, p, FALSE)
               d == [n.sd EXCEPT ![p] = [n.sd[p] EXCEPT !.open = FALSE]]
    <3>1. Shut(n, Now, p) /\ n \in Side /\ n.sd \in [Player -> Sd] /\ n.sd[p] \in Sd
      <4>1. Shut(n, Now, p)
        BY <1>1, QuitShuts
      <4> HIDE DEF n
      <4> QED BY <4>1 DEF Shut, Calm, Side
    <3>2. shut = [n EXCEPT !.sd = d]
      BY <3>1 DEF Side
    <3> HIDE DEF n, shut
    <3>3. /\ d \in [Player -> Sd] /\ ~d[p].open /\ \A q \in Player \ {p} : d[q] = n.sd[q]
          /\ d[p].online = n.sd[p].online /\ d[p].guild = n.sd[p].guild
          /\ d[p].waiting = n.sd[p].waiting
      BY <3>1 DEF Sd
    <3> HIDE DEF d
    <3>4. shut \in Side /\ shut.gstor = n.gstor /\ shut.sd = d /\ shut.out = n.out
      BY <3>1, <3>2, <3>3 DEF Side
    <3>5. gstor.loaded
      BY <1>1, <2>1 DEF Holders
    <3>6. Shut(shut, Now, p)
      BY <1>1, <3>1, <3>3, <3>4, <3>5, ZenonT(30) DEF Shut, Calm
    <3> QED BY <2>1, <3>6
  <2> QED BY <2>1
<1> HIDE DEF shut
<1>3. Calm(left, Now) /\ left \in Side /\ ~left.sd[p].open
  BY <1>1, <1>2 DEF Shut, Calm, Holders
<1> HIDE DEF left
<1>4. /\ saved.gstor = left.gstor /\ saved.sd \in [Player -> Sd]
      /\ \A q \in Player \ {p} : saved.sd[q] = left.sd[q]
      /\ saved.sd[p].waiting /\ ~saved.sd[p].open
      /\ saved = [gstor |-> saved.gstor, sd |-> saved.sd, out |-> saved.out]
      /\ msg \in ToChar /\ saved.out = IF up THEN Append(left.out, msg) ELSE left.out
  BY <1>3, SaveLast
<1> HIDE DEF saved
<1> DEFINE d == [saved.sd EXCEPT ![p] = [saved.sd[p] EXCEPT !.online = FALSE]]
<1>5. gone = [gstor |-> saved.gstor, sd |-> d, out |-> saved.out]
  <2>1. gone = [saved EXCEPT !.sd = d]
    BY <1>4
  <2> HIDE DEF gone, d
  <2> QED BY <1>4, <2>1
<1>6. /\ d \in [Player -> Sd] /\ ~d[p].online /\ d[p].waiting /\ ~d[p].open
      /\ \A q \in Player \ {p} : d[q] = saved.sd[q]
  BY <1>4 DEF Sd
<1> HIDE DEF d
<1>7. Does(gone) /\ UNCHANGED <<CharSide, known, toMap, Fixed, slips>>
  BY DEF MapQuit, gone, saved, left, shut
<1> HIDE DEF gone
<1>8. gstor' = left.gstor /\ sd' = d /\ toChar' = toChar \o saved.out
  BY <1>4, <1>5, <1>7 DEF Does
<1>9. /\ left.out \in Seq(ToChar) /\ left.out \in Seq(Plain) /\ saved.out \in Seq(ToChar)
      /\ (~up => saved.out = << >>)
  <2>1. left.out \in Seq(Plain) /\ left.out \in Seq(ToChar)
    BY <1>3 DEF Side, Plain
  <2> QED BY <1>1, <1>3, <1>4, <2>1 DEF Calm
<1>10. Shaped'
  <2>1. toChar' \in Seq(ToChar) /\ (~up' => toChar' = << >> /\ toMap' = << >>)
    BY <1>1, <1>7, <1>8, <1>9, CatOf DEF Shaped, Fixed
  <2>2. gstor' \in GStor /\ sd' \in [Player -> Sd]
    BY <1>3, <1>6, <1>8 DEF Side
  <2> QED BY <1>1, <1>7, <2>1, <2>2 DEF Shaped, CharSide, Fixed, GStor, Sd, Bag, ToChar, ToMap
<1> HIDE DEF msg
<1>11. ASSUME NEW S, Without(toChar, S), Without(left.out, S)
       PROVE  Once(toChar', S) /\ (msg \notin S => Without(toChar', S))
  <2>1. toChar \in Seq(ToChar) /\ <<msg>> \in Seq(ToChar)
    BY <1>1, <1>4 DEF Shaped
  <2>2. saved.out = left.out \o <<msg>> \/ saved.out = left.out
    BY <1>4, <1>9, AppendIsConcat
  <2>3. Once(saved.out, S) /\ (msg \notin S => Without(saved.out, S))
    <3>1. Once(<<msg>>, S) /\ (msg \notin S => Without(<<msg>>, S))
      BY Ones
    <3>2. Once(left.out \o <<msg>>, S) /\ (msg \notin S => Without(left.out \o <<msg>>, S))
      BY <1>9, <1>11, <2>1, <3>1, Cats
    <3>3. Once(left.out, S)
      BY <1>11 DEF Once, Without
    <3> QED BY <1>11, <2>2, <3>2, <3>3
  <2> QED BY <1>8, <1>9, <1>11, <2>1, <2>3, Cats
<1>12. Session(p)'
  <2>1. Without(toChar, Leaves(p)) /\ Without(toMap, Left(p)) /\ Without(toMap, Enters(p))
    BY <1>1 DEF Session
  <2>2. Without(left.out, Leaves(p))
    BY <1>9 DEF Without, Leaves, Plain
  <2>3. Once(toChar', Leaves(p))
    BY <1>11, <2>1, <2>2
  <2>4. Enters(p)' = Enters(p) /\ Leaves(p)' = Leaves(p) /\ Left(p)' = Left(p)
    BY DEF Enters, Leaves, Left, ToChar, ToMap
  <2>5. toMap' = toMap /\ ~sd'[p].online /\ sd'[p].waiting
    BY <1>6, <1>7, <1>8
  <2> QED BY <2>1, <2>3, <2>4, <2>5 DEF Session, Without, Once
<1>13. ASSUME NEW q \in Player, q # p
       PROVE  Session(q)'
  <2>1. toChar' = toChar \o saved.out /\ saved.out \in Seq(ToChar) /\ toChar \in Seq(ToChar)
    BY <1>1, <1>8, <1>9 DEF Shaped
  <2>2. Without(left.out, Leaves(q)) /\ msg \notin Leaves(q)
    BY <1>9, <1>13 DEF Without, Leaves, Plain, msg
  <2>3. Without(saved.out, Leaves(q))
    <3>1. saved.out = left.out \o <<msg>> \/ saved.out = left.out
      BY <1>4, <1>9, AppendIsConcat
    <3>2. <<msg>> \in Seq(ToChar) /\ Without(<<msg>>, Leaves(q))
      BY <1>4, <2>2, Ones
    <3> QED BY <1>9, <2>2, <3>1, <3>2, Cats
  <2>4. /\ Without(toChar, Leaves(q)) => Without(toChar', Leaves(q))
        /\ Once(toChar, Leaves(q)) => Once(toChar', Leaves(q))
    BY <2>1, <2>3, Cats
  <2>5. Enters(q)' = Enters(q) /\ Leaves(q)' = Leaves(q) /\ Left(q)' = Left(q)
    BY DEF Enters, Leaves, Left, ToChar, ToMap
  <2>6. /\ toMap' = toMap /\ up' = up /\ playing' = playing
        /\ sd'[q].online = sd[q].online /\ sd'[q].waiting = sd[q].waiting
    BY <1>1, <1>3, <1>4, <1>6, <1>7, <1>8, <1>13 DEF CharSide, Fixed, Calm
  <2>7. Session(q)
    BY DEF IInv
  <2> QED BY <2>4, <2>5, <2>6, <2>7 DEF Session, Without, Once
<1>14. \A q \in Player \ {p} : /\ sd'[q].open = left.sd[q].open
                               /\ sd'[q].online = sd[q].online /\ sd'[q].guild = sd[q].guild
  BY <1>1, <1>3, <1>4, <1>6, <1>8 DEF Calm
<1>15. ~sd'[p].open /\ ~sd'[p].online
  BY <1>6, <1>8
<1>16. Holders'
  <2>1. CASE Shut(left, Now, p) /\ sd[p].open
    BY <1>1, <1>7, <1>8, <1>14, <1>15, <2>1, HoldersShut
  <2>2. CASE ~sd[p].open /\ left.gstor = gstor /\ left.sd = sd
    BY <1>1, <1>7, <1>8, <1>14, <1>15, <2>2, HoldersKept
  <2>3. CASE Shut(left, Now, p) /\ ~sd[p].open
    <3>1. left.gstor = gstor /\ left.sd = sd
      BY <1>1, <2>3 DEF left
    <3> QED BY <2>2, <2>3, <3>1
  <2> QED BY <1>1, <1>2, <2>1, <2>2, <2>3
<1>17. Breaking'
  <2>1. gstor'.loaded = gstor.loaded
    BY <1>1, <1>3, <1>8 DEF Calm
  <2>2. \A q \in Player : sd'[q].online /\ sd'[q].guild => sd[q].online /\ sd[q].guild
    BY <1>14, <1>15
  <2> QED BY <1>1, <1>7, <2>1, <2>2, BreakingKept DEF CharSide
<1> QED BY <1>10, <1>12, <1>13, <1>16, <1>17 DEF IInv

LEMMA StepGuildBreak ==
    ASSUME IInv, NEW p \in Player, GuildBreak(p)
    PROVE  IInv'
<1> DEFINE left == PcBoundClear(Now, p)
           k == Sent(left, [type |-> "break"])
<1>1. Shut(left, Now, p) /\ left \in Side
  <2>1. Shut(left, Now, p)
    BY ClearShuts, NowIsSide DEF IInv
  <2> QED BY <2>1 DEF Shut, Calm
<1>2. Does(k) /\ UNCHANGED <<CharSide, known, toMap, Fixed>> /\ up
  BY DEF GuildBreak
<1>3. slips' = slips \union ClearingSlips(p)
  BY DEF GuildBreak, Slipped
<1> HIDE DEF left
<1>4. [type |-> "break"] \in Plain
  BY DEF Plain, ToChar
<1>5. k \in Side /\ k.gstor = left.gstor /\ k.sd = left.sd
  BY <1>1, <1>4, SentSide
<1> HIDE DEF k
<1>6. Shut(k, Now, p)
  BY <1>1, <1>2, <1>5 DEF Shut, Calm
<1>7. slips \subseteq slips' /\ slips' \subseteq Slip
  BY <1>3 DEF IInv, Shaped, ClearingSlips, Slip
<1>8. gstor.status /\ ~sd[p].open => "shut" \in slips'
  BY <1>3 DEF ClearingSlips
<1> QED BY <1>2, <1>6, <1>7, <1>8, StepShut

\* Of who has left the guild nothing stays open; the char-server is asked for its items.
LEMMA StepWithdraw ==
    ASSUME IInv, GuildMemberWithdraw
    PROVE  IInv'
<1> DEFINE p == Head(toMap).p
           openers == {q \in Player : Now.sd[q].online /\ Now.sd[q].guild /\ Now.sd[q].open}
           r == CHOOSE q \in openers : TRUE
           shut == IF Now.gstor.status /\ openers # {} THEN GuildStorageClose(Now, r) ELSE Now
           g == [shut.gstor EXCEPT !.lock = gstor.loaded]
           lock == [shut EXCEPT !.gstor.lock = Now.gstor.loaded]
           msg == [type |-> "retrieve", p |-> p]
           left == IF sd[p].online THEN PcBoundClear(Now, p) ELSE ItemboundReq(Now, p)
           k == [left EXCEPT !.sd[p].open = FALSE, !.sd[p].guild = FALSE]
           P == known.members \ {p}
<1>1. /\ Shaped /\ Holders /\ Breaking /\ Now \in Side
      /\ Now.gstor = gstor /\ Now.sd = sd /\ Now.out = << >>
  BY NowIsSide DEF IInv, Now
<1>2. toMap # << >> /\ toMap' = Tail(toMap) /\ Head(toMap).type = "withdraw" /\ up
  BY <1>1 DEF GuildMemberWithdraw, FromChar, Shaped
<1>3. p \in Player
  BY <1>1, <1>2, TailOf DEF Shaped, ToMap
<1>4. known' = [known EXCEPT !.members = P] /\ UNCHANGED <<CharSide, Fixed>>
  BY DEF GuildMemberWithdraw
<1>5. P \in SUBSET Player /\ known'.exists = known.exists
  BY <1>1, <1>4 DEF Shaped
<1>6. CASE UNCHANGED <<gstor, sd, toChar, slips>>
  <2>1. Does(Now) /\ toChar' = toChar \o << >> /\ << >> \in Seq(Plain)
    BY <1>1, <1>6 DEF Does, Shaped
  <2>2. Shaped'
    BY <1>1, <1>2, <1>4, <1>5, <1>6, <2>1, ShapedDone DEF Fixed, Shaped
  <2>3. \A q \in Player : Session(q)'
    BY <1>1, <1>2, <1>4, <1>6, <2>1, SessionKept DEF IInv, CharSide, Fixed
  <2>4. Holders'
    BY <1>1, <1>6, HoldersKept
  <2>5. Breaking'
    BY <1>1, <1>2, <1>4, <1>5, <1>6, BreakingKept DEF CharSide
  <2> QED BY <2>2, <2>3, <2>4, <2>5 DEF IInv
<1>7. CASE /\ Does(k)
           /\ slips' = IF sd[p].online THEN slips \union ClearingSlips(p) ELSE slips
  <2>1. /\ slips \subseteq slips' /\ slips' \subseteq Slip
        /\ sd[p].online /\ gstor.status /\ ~sd[p].open => "shut" \in slips'
    BY <1>1, <1>7 DEF Shaped, ClearingSlips, Slip
  \* What the two branches leave.
  <2>2. /\ Calm(left, Now)
        /\ \/ \E q \in Player : /\ Shut(left, Now, q)
                                /\ sd[q].open \/ ~gstor.status \/ "shut" \in slips'
           \/ /\ left.gstor.status = gstor.status /\ ~sd[p].open
              /\ \A q \in Player : left.sd[q].open = sd[q].open
    <3>1. CASE sd[p].online
      <4>1. Shut(left, Now, p)
        BY <1>1, <1>3, <3>1, ClearShuts
      <4> HIDE DEF left
      <4> QED BY <1>3, <2>1, <3>1, <4>1 DEF Shut
    <3>2. CASE ~sd[p].online
      <4>1. left = Sent(lock, msg)
        BY <3>2 DEF ItemboundReq
      <4>2. \/ shut = Now /\ ~gstor.status
            \/ r \in Player /\ sd[r].open /\ Shut(shut, Now, r)
        <5>1. CASE gstor.status
          <6>1. openers # {}
            BY <1>1, <5>1 DEF Holders
          <6>2. r \in openers
            BY <6>1
          <6>3. r \in Player /\ sd[r].open
            BY <1>1, <6>2
          <6>4. shut = GuildStorageClose(Now, r)
            BY <1>1, <5>1, <6>1
          <6> HIDE DEF r, shut
          <6> QED BY <1>1, <6>3, <6>4, CloseShuts
        <5> QED BY <1>1, <5>1
      <4> HIDE DEF shut, r, left
      <4>3. Calm(shut, Now)
        BY <1>1, <4>2 DEF Shut, Calm
      <4>4. g \in GStor /\ g.loaded = shut.gstor.loaded /\ g.status = shut.gstor.status
        BY <1>1, <4>3 DEF Calm, Side, GStor
      <4>5. lock = [shut EXCEPT !.gstor = g]
        BY <1>1
      <4> HIDE DEF g
      <4>6. lock \in Side /\ lock.gstor = g /\ lock.sd = shut.sd
        BY <4>3, <4>4, <4>5 DEF Calm, Side
      <4> HIDE DEF lock
      <4>7. msg \in Plain
        BY <1>3 DEF Plain, ToChar
      <4>8. left \in Side /\ left.gstor = g /\ left.sd = shut.sd
        BY <4>1, <4>6, <4>7, SentSide
      <4>9. Calm(left, Now)
        BY <1>2, <4>3, <4>4, <4>8 DEF Calm
      <4>10. CASE shut = Now /\ ~gstor.status
        BY <1>1, <1>3, <3>2, <4>4, <4>8, <4>9, <4>10 DEF Holders
      <4>11. CASE r \in Player /\ sd[r].open /\ Shut(shut, Now, r)
        <5>1. Shut(left, Now, r)
          BY <4>4, <4>8, <4>9, <4>11 DEF Shut
        <5> QED BY <4>9, <4>11, <5>1
      <4> QED BY <4>2, <4>10, <4>11
    <3> QED BY <3>1, <3>2
  <2> HIDE DEF left
  <2> DEFINE d == [left.sd EXCEPT ![p] = [left.sd[p] EXCEPT !.open = FALSE, !.guild = FALSE]]
  <2>3. left \in Side /\ left.sd \in [Player -> Sd] /\ left.sd[p] \in Sd
    BY <1>3, <2>2 DEF Calm, Side
  <2>4. k = [left EXCEPT !.sd = d]
    <3>1. k = [left EXCEPT !.sd = [[left.sd EXCEPT ![p] = [left.sd[p] EXCEPT !.open = FALSE]]
                                     EXCEPT ![p].guild = FALSE]]
      BY <1>3, <2>3 DEF Side
    <3> QED BY <1>3, <2>3, <3>1
  <2> HIDE DEF k
  <2>5. /\ d \in [Player -> Sd] /\ ~d[p].open /\ ~d[p].guild
        /\ d[p].online = left.sd[p].online /\ d[p].waiting = left.sd[p].waiting
        /\ \A q \in Player \ {p} : d[q] = left.sd[q]
    BY <1>3, <2>3 DEF Sd
  <2> HIDE DEF d
  <2>6. k \in Side /\ k.gstor = left.gstor /\ k.sd = d /\ k.out = left.out
    BY <2>3, <2>4, <2>5 DEF Side
  <2>7. /\ gstor' = left.gstor /\ sd' = d
        /\ toChar' = toChar \o k.out /\ k.out \in Seq(Plain)
    BY <1>7, <2>6 DEF Does, Side
  <2>8. Shaped'
    BY <1>1, <1>2, <1>4, <1>5, <1>7, <2>1, <2>6, ShapedDone DEF Fixed, Shaped
  <2>9. \A q \in Player : /\ sd'[q].online = sd[q].online /\ sd'[q].waiting = sd[q].waiting
                          /\ sd'[q].open => /\ left.sd[q].open /\ q # p
                                            /\ sd'[q].guild = sd[q].guild
                          /\ sd'[q].guild => sd[q].guild
    BY <1>1, <1>3, <2>2, <2>5, <2>7 DEF Calm
  <2>10. \A q \in Player : Session(q)'
    BY <1>1, <1>2, <1>4, <2>7, <2>9, SessionKept DEF IInv, CharSide, Fixed
  <2>11. Breaking'
    <3>1. gstor'.loaded = gstor.loaded
      BY <1>1, <2>2, <2>7 DEF Calm
    <3> QED BY <1>1, <1>2, <1>4, <1>5, <2>9, <3>1, BreakingKept DEF CharSide
  <2>12. Holders'
    <3>1. CASE \E q \in Player : /\ Shut(left, Now, q)
                                 /\ sd[q].open \/ ~gstor.status \/ "shut" \in slips'
      BY <1>1, <2>1, <2>7, <2>9, <3>1, HoldersShut
    <3>2. CASE /\ left.gstor.status = gstor.status /\ ~sd[p].open
               /\ \A q \in Player : left.sd[q].open = sd[q].open
      <4>1. gstor'.loaded = gstor.loaded /\ gstor'.status = gstor.status
        BY <1>1, <2>2, <2>7, <3>2 DEF Calm
      <4>2. \A q \in Player : sd'[q].open <=> sd[q].open
        BY <1>3, <2>5, <2>7, <3>2
      <4> QED BY <1>1, <2>1, <2>9, <4>1, <4>2, HoldersKept
    <3> QED BY <2>2, <3>1, <3>2
  <2> QED BY <2>8, <2>10, <2>11, <2>12 DEF IInv
<1> QED BY <1>6, <1>7 DEF GuildMemberWithdraw, Slipped

\* Handlers that send nothing and leave the characters where they are.
LEMMA StepQuiet ==
    ASSUME IInv, toMap # << >>, toMap' = Tail(toMap), gstor' \in GStor,
           sd' \in [Player -> Sd], UNCHANGED <<CharSide, known, toChar, Fixed>>,
           slips \subseteq slips', slips' \subseteq Slip,
           gstor'.loaded => gstor.loaded \/ known.exists,
           \A q \in Player : /\ sd'[q].online = sd[q].online /\ sd'[q].waiting = sd[q].waiting
                             /\ sd'[q].guild = sd[q].guild,
           Holders'
    PROVE  IInv'
<1> DEFINE k == [gstor |-> gstor', sd |-> sd', out |-> << >>]
<1>1. Shaped /\ Breaking
  BY DEF IInv
<1>2. toChar' = toChar \o << >> /\ << >> \in Seq(Plain)
  BY <1>1 DEF Shaped
<1>3. toMap' \in Seq(ToMap) /\ up
  BY <1>1, TailOf DEF Shaped
<1>4. Shaped'
  BY <1>1, <1>3 DEF Shaped, CharSide, Fixed, GStor, Sd, Bag, ToChar, ToMap
<1>5. \A q \in Player : Session(q)'
  BY <1>1, <1>2, SessionKept DEF IInv, CharSide, Fixed
<1>6. Breaking'
  BY <1>1, BreakingKept DEF CharSide
<1> QED BY <1>4, <1>5, <1>6 DEF IInv

LEMMA StepLoaded ==
    ASSUME IInv, IntifParseLoadGuildStorage
    PROVE  IInv'
<1> DEFINE msg == Head(toMap)
           opens == msg.opens /\ sd[msg.p].guild /\ ~sd[msg.p].open
           g == [loaded |-> TRUE, dirty |-> FALSE, status |-> opens, lock |-> FALSE,
                 items |-> msg.items]
           d == [sd EXCEPT ![msg.p] = [sd[msg.p] EXCEPT !.open = TRUE]]
<1>1. Shaped /\ Holders
  BY DEF IInv
<1>2. /\ toMap # << >> /\ toMap' = Tail(toMap) /\ msg.type = "storage"
      /\ UNCHANGED <<CharSide, known, toChar, Fixed>>
      /\ slips \subseteq slips' /\ slips' \subseteq Slip
  BY <1>1 DEF IntifParseLoadGuildStorage, FromChar, Slipped, Shaped, Slip
<1>3. msg \in [type : {"storage"}, exists : BOOLEAN, opens : BOOLEAN, p : Player, items : Bag]
  <2>1. msg \in ToMap
    BY <1>1, <1>2, TailOf DEF Shaped
  <2> HIDE DEF msg
  <2> QED BY <1>2, <2>1 DEF ToMap
<1>4. CASE UNCHANGED <<gstor, sd>>
  <2>1. Holders'
    BY <1>1, <1>2, <1>4, HoldersKept
  <2>2. gstor' \in GStor /\ sd' \in [Player -> Sd]
    BY <1>1, <1>4 DEF Shaped
  <2> QED BY <1>2, <1>4, <2>1, <2>2, StepQuiet
<1>5. CASE ~UNCHANGED <<gstor, sd>>
  <2>1. /\ known.exists /\ ~gstor.status /\ (msg.opens => sd[msg.p].online)
        /\ gstor' = g /\ sd' = IF opens THEN d ELSE sd
    BY <1>5 DEF IntifParseLoadGuildStorage
  <2>2. g \in GStor
    BY <1>1, <1>3 DEF GStor, Shaped, Sd
  <2>3. sd[msg.p] \in Sd /\ sd \in [Player -> Sd]
    BY <1>1, <1>3 DEF Shaped
  <2>4. /\ d \in [Player -> Sd] /\ d[msg.p].open
        /\ d[msg.p].online = sd[msg.p].online /\ d[msg.p].guild = sd[msg.p].guild
        /\ d[msg.p].waiting = sd[msg.p].waiting
        /\ \A q \in Player \ {msg.p} : d[q] = sd[q]
    BY <1>3, <2>3 DEF Sd
  <2>5. g.loaded /\ g.status = opens
    OBVIOUS
  <2> HIDE DEF g, d, msg
  <2>6. sd' \in [Player -> Sd] /\ gstor' \in GStor
    BY <2>1, <2>2, <2>3, <2>4
  <2>7. Holders'
    <3>1. CASE opens
      BY <1>1, <1>2, <1>3, <2>1, <2>4, <2>5, <3>1 DEF Holders
    <3>2. CASE ~opens
      BY <1>1, <1>2, <2>1, <2>5, <3>2 DEF Holders
    <3> QED BY <3>1, <3>2
  <2>8. \A q \in Player : /\ sd'[q].online = sd[q].online /\ sd'[q].waiting = sd[q].waiting
                          /\ sd'[q].guild = sd[q].guild
    BY <2>1, <2>4
  <2> QED BY <1>2, <2>1, <2>6, <2>7, <2>8, StepQuiet
<1> QED BY <1>4, <1>5

LEMMA StepSaved ==
    ASSUME IInv, GuildStorageSaved
    PROVE  IInv'
<1>1. Shaped /\ Holders /\ gstor \in GStor /\ sd \in [Player -> Sd]
  BY DEF IInv, Shaped
<1>2. /\ gstor' \in GStor /\ gstor'.status = gstor.status /\ gstor'.loaded = gstor.loaded
      /\ sd' = sd /\ slips \subseteq slips' /\ slips' \subseteq Slip
  BY <1>1 DEF GuildStorageSaved, GStor, Slipped, Slip, Shaped
<1>3. Holders'
  BY <1>1, <1>2, HoldersKept
<1> QED BY <1>1, <1>2, <1>3, StepQuiet DEF GuildStorageSaved, FromChar

LEMMA StepUnlock ==
    ASSUME IInv, IntifParseItemboundAck
    PROVE  IInv'
<1>1. Shaped /\ Holders /\ gstor \in GStor /\ sd \in [Player -> Sd]
  BY DEF IInv, Shaped
<1>2. /\ gstor' \in GStor /\ gstor'.status = gstor.status /\ gstor'.loaded = gstor.loaded
      /\ sd' = sd /\ slips \subseteq slips' /\ slips' \subseteq Slip
  BY <1>1 DEF IntifParseItemboundAck, GStor, Shaped
<1>3. Holders'
  BY <1>1, <1>2, HoldersKept
<1> QED BY <1>1, <1>2, <1>3, StepQuiet DEF IntifParseItemboundAck, FromChar

\* Who enters was not there, so it had nothing open.
LEMMA StepEnter ==
    ASSUME IInv, PcAuthOk
    PROVE  IInv'
<1> DEFINE msg == Head(toMap)
           new == [online |-> TRUE, guild |-> msg.guild, open |-> FALSE, waiting |-> FALSE,
                   inv |-> msg.inv]
<1>1. Shaped /\ Holders /\ Breaking /\ toMap \in Seq(ToMap) /\ sd \in [Player -> Sd]
  BY DEF IInv, Shaped
<1>2. /\ toMap # << >> /\ toMap' = Tail(toMap) /\ msg.type = "enter"
      /\ UNCHANGED <<CharSide, gstor, known, toChar, Fixed, slips>>
      /\ sd' = [sd EXCEPT ![msg.p] = new]
  BY DEF PcAuthOk, FromChar
<1>3. msg \in [type : {"enter"}, p : Player, guild : BOOLEAN, inv : Bag] /\ msg \in ToMap
  <2>1. msg \in ToMap
    BY <1>1, <1>2, TailOf
  <2> HIDE DEF msg
  <2> QED BY <1>2, <2>1 DEF ToMap
<1>4. PICK p \in Player : msg.p = p
  BY <1>3
<1>5. msg \in Enters(p) /\ (msg.guild => msg \in Joins)
  BY <1>2, <1>3, <1>4 DEF Enters, Joins
<1>6. ~Without(toMap, Enters(p)) /\ (msg.guild => ~Without(toMap, Joins))
  BY <1>1, <1>2, <1>5, TailOf DEF Without
<1>7. Session(p)
  BY DEF IInv
<1>8. /\ ~sd[p].online /\ ~sd[p].waiting /\ ~sd[p].open
      /\ p \in playing /\ Once(toMap, Enters(p))
  BY <1>1, <1>6, <1>7 DEF Session, Holders
<1>9. Without(toMap', Enters(p))
  BY <1>1, <1>2, <1>5, <1>8, Tails
<1>10. new \in Sd /\ new.online /\ ~new.open /\ ~new.waiting /\ new.guild = msg.guild
  BY <1>3 DEF Sd
<1> HIDE DEF msg, new
<1>11. /\ sd' \in [Player -> Sd] /\ sd'[p] = new
       /\ \A q \in Player \ {p} : sd'[q] = sd[q]
  BY <1>1, <1>2, <1>4, <1>10
<1>12. Shaped'
  BY <1>1, <1>2, <1>11, TailOf DEF Shaped, CharSide, Fixed, GStor, Sd, Bag, ToChar, ToMap
<1>13. toChar' = toChar \o << >> /\ << >> \in Seq(Plain)
  BY <1>1, <1>2 DEF Shaped
<1>14. ASSUME NEW q \in Player, q # p PROVE Session(q)'
  BY <1>1, <1>2, <1>11, <1>13, <1>14, SessionKept DEF IInv, CharSide, Fixed
<1>15. Session(p)'
  <2>1. /\ Without(toMap, Left(p)) /\ Without(toMap', Left(p)) /\ Without(toChar, Leaves(p))
    BY <1>1, <1>2, <1>7, <1>8, Tails DEF Session
  <2>2. Enters(p)' = Enters(p) /\ Leaves(p)' = Leaves(p) /\ Left(p)' = Left(p)
    BY DEF Enters, Leaves, Left, ToChar, ToMap
  <2>3. sd'[p].online /\ ~sd'[p].waiting /\ p \in playing' /\ toChar' = toChar
    BY <1>2, <1>8, <1>10, <1>11 DEF CharSide
  <2> QED BY <1>9, <2>1, <2>2, <2>3 DEF Session, Without, Once
<1>16. Holders'
  <2>1. \A q \in Player : sd'[q].open <=> sd[q].open
    BY <1>8, <1>10, <1>11
  <2>2. \A q \in Player : sd[q].open => sd'[q] = sd[q]
    BY <1>8, <1>11
  <2> QED BY <1>1, <1>2, <2>1, <2>2, HoldersKept
<1>17. Breaking'
  <2>1. CASE known.exists
    <3>1. /\ Without(toMap, Breaks) => Without(toMap', Breaks)
          /\ toMap \in Seq(ToMap)
      BY <1>1, <1>2, Tails
    <3>2. ASSUME NEW i \in DOMAIN toMap', NEW j \in DOMAIN toMap', i < j, toMap'[i] \in Breaks
          PROVE  toMap'[j] \notin Joins
      BY <1>1, <1>2, <3>2, TailOf DEF Breaking
    <3>3. Joins' = Joins /\ Breaks' = Breaks
      BY DEF Joins, Breaks, ToMap
    <3> QED BY <1>1, <1>2, <2>1, <3>1, <3>2, <3>3 DEF Breaking, Without, CharSide
  <2>2. CASE ~known.exists
    <3>1. ~new.guild
      BY <1>1, <1>6, <1>10, <2>2 DEF Breaking
    <3>2. \A q \in Player : sd'[q].online /\ sd'[q].guild => sd[q].online /\ sd[q].guild
      BY <1>11, <3>1
    <3> QED BY <1>1, <1>2, <3>2, BreakingKept DEF CharSide
  <2> QED BY <2>1, <2>2
<1> QED BY <1>12, <1>14, <1>15, <1>16, <1>17 DEF IInv

\* The answer to the last save of p: it may come back.
LEMMA StepSaveAck ==
    ASSUME IInv, ChrifSaveAck
    PROVE  IInv'
<1> DEFINE msg == Head(toMap)
<1>1. Shaped /\ Holders /\ Breaking /\ toMap \in Seq(ToMap) /\ sd \in [Player -> Sd]
  BY DEF IInv, Shaped
<1>2. /\ toMap # << >> /\ toMap' = Tail(toMap) /\ msg.type = "charSaved"
      /\ UNCHANGED <<CharSide, gstor, known, toChar, Fixed, slips>>
      /\ sd' = [sd EXCEPT ![msg.p] = [sd[msg.p] EXCEPT !.waiting = FALSE]]
  BY DEF ChrifSaveAck, FromChar
<1>3. msg \in [type : {"withdraw", "charSaved"}, p : Player] /\ msg \in ToMap
  <2>1. msg \in ToMap
    BY <1>1, <1>2, TailOf
  <2> HIDE DEF msg
  <2> QED BY <1>2, <2>1 DEF ToMap
<1>4. PICK p \in Player : msg.p = p
  BY <1>3
<1>5. msg \in Left(p)
  BY <1>2, <1>3, <1>4 DEF Left
<1>6. ~Without(toMap, Left(p))
  BY <1>1, <1>2, <1>5, TailOf DEF Without
<1>7. Session(p)
  BY DEF IInv
<1>8. /\ ~sd[p].online /\ Once(toMap, Left(p))
      /\ Without(toChar, Leaves(p)) /\ Without(toMap, Enters(p))
  BY <1>6, <1>7 DEF Session
<1>9. Without(toMap', Left(p)) /\ Without(toMap', Enters(p))
  BY <1>1, <1>2, <1>5, <1>8, Tails
<1> HIDE DEF msg
<1>10. /\ sd' \in [Player -> Sd] /\ ~sd'[p].waiting
       /\ sd'[p].online = sd[p].online /\ sd'[p].guild = sd[p].guild /\ sd'[p].open = sd[p].open
       /\ \A q \in Player \ {p} : sd'[q] = sd[q]
  BY <1>1, <1>2, <1>4 DEF Sd
<1>11. Shaped'
  BY <1>1, <1>2, <1>10, TailOf DEF Shaped, CharSide, Fixed, GStor, Sd, Bag, ToChar, ToMap
<1>12. toChar' = toChar \o << >> /\ << >> \in Seq(Plain)
  BY <1>1, <1>2 DEF Shaped
<1>13. ASSUME NEW q \in Player, q # p PROVE Session(q)'
  BY <1>1, <1>2, <1>10, <1>12, <1>13, SessionKept DEF IInv, CharSide, Fixed
<1>14. Session(p)'
  <2>1. Enters(p)' = Enters(p) /\ Leaves(p)' = Leaves(p) /\ Left(p)' = Left(p)
    BY DEF Enters, Leaves, Left, ToChar, ToMap
  <2> QED BY <1>2, <1>8, <1>9, <1>10, <2>1 DEF Session, Without, Once
<1>15. Holders'
  BY <1>1, <1>2, <1>10, HoldersKept
<1>16. Breaking'
  BY <1>1, <1>2, <1>10, BreakingKept DEF CharSide
<1> QED BY <1>11, <1>13, <1>14, <1>15, <1>16 DEF IInv

\* Each of some characters is saved once.
LEMMA SavesOf ==
    ASSUME Shaped, NEW P \in SUBSET Player, NEW order \in SetToSeqs(P), NEW quits \in BOOLEAN
    PROVE  /\ Saves(order, quits) \in Seq(ToChar)
           /\ ~quits => Saves(order, quits) \in Seq(Plain)
           /\ \A p \in Player : /\ Once(Saves(order, quits), Leaves(p))
                                /\ p \notin P => Without(Saves(order, quits), Leaves(p))
<1>1. Cardinality(P) \in Nat
  BY PlayerAssumption, FS_Subset, FS_CardinalityType
<1>2. /\ order \in [1..Cardinality(P) -> P]
      /\ \A i, j \in 1..Cardinality(P) : i # j => order[i] # order[j]
  BY DEF SetToSeqs
<1> DEFINE s == Saves(order, quits)
           msg(i) == [type |-> "char", p |-> order[i], inv |-> sd[order[i]].inv, quits |-> quits]
<1>3. s = [i \in 1..Cardinality(P) |-> msg(i)]
  BY <1>2 DEF Saves
<1>4. ASSUME NEW i \in 1..Cardinality(P)
      PROVE  msg(i) \in ToChar /\ (~quits => msg(i) \in Plain)
  BY <1>2 DEF Shaped, ToChar, Plain, Sd
<1> HIDE DEF s
<1>5. s \in Seq(ToChar) /\ (~quits => s \in Seq(Plain)) /\ DOMAIN s = 1..Cardinality(P)
  <2>1. \A T : s \in [1..Cardinality(P) -> T] => s \in Seq(T)
    BY <1>1, SeqDef
  <2>2. s \in [1..Cardinality(P) -> ToChar] /\ (~quits => s \in [1..Cardinality(P) -> Plain])
    BY <1>3, <1>4
  <2> QED BY <1>3, <2>1, <2>2
<1>6. ASSUME NEW p \in Player, NEW i \in DOMAIN s, s[i] \in Leaves(p)
      PROVE  order[i] = p
  BY <1>3, <1>5, <1>6 DEF Leaves
<1>7. ASSUME NEW p \in Player PROVE Once(s, Leaves(p)) /\ (p \notin P => Without(s, Leaves(p)))
  BY <1>2, <1>5, <1>6 DEF Once, Without
<1> QED BY <1>5, <1>7 DEF s

LEMMA StepBroken ==
    ASSUME IInv, GuildBroken
    PROVE  IInv'
<1>1. Shaped /\ Holders /\ Breaking /\ toMap \in Seq(ToMap) /\ sd \in [Player -> Sd]
  BY DEF IInv, Shaped
<1>2. /\ toMap # << >> /\ toMap' = Tail(toMap) /\ Head(toMap).type = "broken"
      /\ UNCHANGED <<CharSide, Fixed, slips>>
  BY DEF GuildBroken, FromChar
<1>3. CASE UNCHANGED <<gstor, sd, toChar, known>>
  <2>1. Holders'
    BY <1>1, <1>2, <1>3, HoldersKept
  <2> QED BY <1>1, <1>2, <1>3, <2>1, StepQuiet DEF Shaped
<1>4. CASE MembersOut /\ gstor' = NotLoaded
  <2> DEFINE members == {p \in Player : sd[p].online /\ sd[p].guild}
             P == {p \in members : up /\ gstor.loaded /\ sd[p].open}
  <2>1. PICK order \in SetToSeqs(P) : toChar' = toChar \o Saves(order, FALSE)
    BY <1>4 DEF MembersOut
  <2>2. P \in SUBSET Player
    OBVIOUS
  <2> HIDE DEF P
  <2>3. Saves(order, FALSE) \in Seq(Plain) /\ Saves(order, FALSE) \in Seq(ToChar)
    BY <1>1, <2>2, SavesOf
  <2>4. /\ sd' = [p \in Player |->
                    IF p \in members
                    THEN [sd[p] EXCEPT !.guild = FALSE, !.open = @ /\ ~gstor.loaded] ELSE sd[p]]
        /\ known' = [exists |-> FALSE, members |-> {}]
    BY <1>4 DEF MembersOut
  <2>5. ASSUME NEW q \in Player
        PROVE  /\ sd'[q] \in Sd /\ sd'[q].online = sd[q].online /\ sd'[q].waiting = sd[q].waiting
               /\ ~sd'[q].open /\ (sd'[q].online => ~sd'[q].guild)
    <3>1. sd[q] \in Sd /\ (sd[q].open => gstor.loaded /\ q \in members)
      BY <1>1 DEF Holders
    <3>2. CASE q \in members
      <4>1. sd'[q] = [sd[q] EXCEPT !.guild = FALSE, !.open = @ /\ ~gstor.loaded]
        BY <2>4, <3>2
      <4>2. gstor.loaded \in BOOLEAN
        BY <1>1 DEF Shaped, GStor
      <4> QED BY <3>1, <4>1, <4>2 DEF Sd
    <3>3. CASE q \notin members
      BY <2>4, <3>1, <3>3 DEF Sd
    <3> QED BY <3>2, <3>3
  <2>6. sd' \in [Player -> Sd] /\ gstor' \in GStor /\ ~gstor'.loaded /\ ~gstor'.status
    BY <1>4, <2>4, <2>5 DEF NotLoaded, GStor, Empty, Bag
  <2>7. Shaped'
    <3>1. toChar' \in Seq(ToChar) /\ toMap' \in Seq(ToMap) /\ up /\ up'
      BY <1>1, <1>2, <2>1, <2>3, CatOf, TailOf DEF Shaped, Fixed
    <3> QED BY <1>1, <1>2, <2>4, <2>6, <3>1 DEF Shaped, CharSide, Fixed, GStor, Sd, Bag, ToChar, ToMap
  <2>8. \A q \in Player : Session(q)'
    BY <1>1, <1>2, <2>1, <2>3, <2>5, SessionKept DEF IInv, CharSide, Fixed
  <2>9. Holders'
    BY <2>5, <2>6 DEF Holders
  <2>10. Breaking'
    <3>1. Head(toMap) \in Breaks /\ Head(toMap) = toMap[1] /\ 1 \in DOMAIN toMap
      BY <1>1, <1>2, TailOf DEF Breaks
    <3>2. ~guild.exists /\ guild.members = {}
      BY <1>1, <3>1 DEF Breaking, Without
    <3>3. Without(toMap', Joins)
      BY <1>1, <1>2, <3>1, TailOf DEF Breaking, Without
    <3>4. Joins' = Joins /\ Breaks' = Breaks
      BY DEF Joins, Breaks, ToMap
    <3> QED BY <1>2, <2>4, <2>5, <2>6, <3>2, <3>3, <3>4 DEF Breaking, Without, CharSide
  <2> QED BY <2>7, <2>8, <2>9, <2>10 DEF IInv
<1> QED BY <1>3, <1>4 DEF GuildBroken

LEMMA StepLinkLost ==
    ASSUME IInv, LinkLost
    PROVE  IInv'
<1>1. /\ ~up' /\ losses' = losses + 1 /\ losses < MaxLosses /\ toChar' = << >> /\ toMap' = << >>
      /\ UNCHANGED <<gstor, sd, known, CharSide>> /\ slips \subseteq slips'
  BY DEF LinkLost, Slipped, MapSide
<1>2. slips' \subseteq Slip /\ up' \in BOOLEAN
  BY DEF LinkLost, Slipped, IInv, Shaped, Slip
<1>3. Shaped'
  <2>1. losses' \in 0..MaxLosses
    BY <1>1, BoundsAssumption DEF IInv, Shaped
  <2>2. toChar' \in Seq(ToChar) /\ toMap' \in Seq(ToMap)
    BY <1>1
  <2> QED BY <1>1, <1>2, <2>1, <2>2 DEF IInv, Shaped, CharSide, GStor, Sd, Bag, ToChar, ToMap
<1>4. ASSUME NEW p \in Player PROVE Session(p)'
  BY <1>1 DEF IInv, Session, Without
<1>5. Holders'
  BY <1>1, HoldersKept DEF IInv
<1>6. Breaking'
  BY <1>1 DEF IInv, Breaking, Without, CharSide
<1> QED BY <1>3, <1>4, <1>5, <1>6 DEF IInv

LEMMA StepReady ==
    ASSUME IInv, ChrifOnReady
    PROVE  IInv'
<1> DEFINE P == {p \in Player : sd[p].waiting}
           save == IF gstor.dirty /\ ~gstor.status
                   THEN <<[type |-> "save", items |-> gstor.items]>> ELSE << >>
<1>1. Shaped /\ Holders /\ Breaking /\ ~up /\ toMap = << >>
  BY DEF IInv, Shaped, ChrifOnReady
<1>2. /\ up' /\ up' \in BOOLEAN /\ playing' = {p \in Player : sd[p].online \/ sd[p].waiting}
      /\ UNCHANGED <<gstor, sd, known, guild, db, charDb, losses, toMap, slips>>
  BY DEF ChrifOnReady, MapSide
<1>3. PICK order \in SetToSeqs(P) : toChar' = Saves(order, TRUE) \o save
  BY DEF ChrifOnReady
<1>4. /\ Saves(order, TRUE) \in Seq(ToChar)
      /\ \A p \in Player : /\ Once(Saves(order, TRUE), Leaves(p))
                           /\ p \notin P => Without(Saves(order, TRUE), Leaves(p))
  BY <1>1, SavesOf
<1>5. save \in Seq(ToChar) /\ \A p \in Player : Without(save, Leaves(p))
  <2>1. [type |-> "save", items |-> gstor.items] \in ToChar
    BY <1>1 DEF Shaped, GStor, ToChar
  <2>2. \A p \in Player : [type |-> "save", items |-> gstor.items] \notin Leaves(p)
    BY DEF Leaves
  <2> QED BY <2>1, <2>2, Ones
<1> HIDE DEF save
<1>6. toChar' \in Seq(ToChar)
  BY <1>3, <1>4, <1>5, CatOf
<1>7. Shaped'
  BY <1>1, <1>2, <1>6 DEF Shaped, GStor, Sd, Bag, ToChar, ToMap
<1>8. ASSUME NEW p \in Player PROVE Session(p)'
  <2>1. Once(toChar', Leaves(p)) /\ (~sd[p].waiting => Without(toChar', Leaves(p)))
    BY <1>3, <1>4, <1>5, Cats
  <2>2. Without(toMap, Enters(p)) /\ Without(toMap, Left(p))
    BY <1>1, Ones
  <2>3. Enters(p)' = Enters(p) /\ Leaves(p)' = Leaves(p) /\ Left(p)' = Left(p)
    BY DEF Enters, Leaves, Left, ToChar, ToMap
  <2>4. Session(p)
    BY DEF IInv
  <2> QED BY <1>2, <2>1, <2>2, <2>3, <2>4 DEF Session, Without, Once
<1>9. Holders'
  BY <1>1, <1>2, HoldersKept
<1>10. Breaking'
  BY <1>1, <1>2, BreakingKept
<1> QED BY <1>7, <1>8, <1>9, <1>10 DEF IInv

\* The char-server answers: nobody enters or has left, and no guild is broken.
LEMMA StepAnswered ==
    ASSUME IInv, NEW more \in Seq(ToMap), toMap' = toMap \o more,
           \A i \in DOMAIN more : more[i].type \notin {"enter", "charSaved", "broken"},
           toChar # << >>, toChar' = Tail(toChar),
           UNCHANGED <<MapSide, guild, playing, Fixed>>,
           slips \subseteq slips', slips' \subseteq Slip, db' \in Bag, charDb' \in [Player -> Bag]
    PROVE  IInv'
<1>1. Shaped /\ Holders /\ Breaking
  BY DEF IInv
<1>2. Shaped'
  BY <1>1, ShapedAnswered DEF Fixed, Shaped
<1>3. /\ Without(more, Joins) /\ Without(more, Breaks)
      /\ \A p \in Player : Without(more, Enters(p)) /\ Without(more, Left(p))
  BY DEF Without, Joins, Breaks, Enters, Left
<1>4. \A p \in Player : Session(p)'
  BY <1>1, <1>3, SessionAnswered DEF IInv, Fixed, MapSide
<1>5. Holders'
  BY <1>1, HoldersKept DEF MapSide
<1>6. Breaking'
  BY <1>1, <1>3, BreakingAnswered DEF MapSide
<1> QED BY <1>2, <1>4, <1>5, <1>6 DEF IInv

LEMMA StepLoad ==
    ASSUME IInv, MapifParseLoadGuildStorage
    PROVE  IInv'
<1> DEFINE msg == Head(toChar)
           answer == [type |-> "storage", exists |-> guild.exists, opens |-> TRUE,
                      p |-> msg.p, items |-> db]
<1>1. /\ toChar # << >> /\ msg.type = "load" /\ toChar' = Tail(toChar)
      /\ toMap' = toMap \o <<answer>> /\ UNCHANGED <<MapSide, CharSide, Fixed, slips>>
  BY DEF MapifParseLoadGuildStorage, Answers
<1>2. msg.p \in Player
  <2>1. msg \in ToChar
    BY <1>1, TailOf DEF IInv, Shaped
  <2> HIDE DEF msg
  <2> QED BY <1>1, <2>1 DEF ToChar
<1>3. answer \in ToMap
  BY <1>2 DEF ToMap, IInv, Shaped
<1>4. answer.type = "storage"
  OBVIOUS
<1> HIDE DEF answer
<1>5. <<answer>> \in Seq(ToMap) /\ \A i \in DOMAIN <<answer>> : <<answer>>[i] = answer
  BY <1>3
<1>6. slips' \subseteq Slip /\ db' \in Bag /\ charDb' \in [Player -> Bag]
  BY <1>1 DEF IInv, Shaped, CharSide
<1> QED BY <1>1, <1>4, <1>5, <1>6, StepAnswered DEF CharSide

LEMMA StepSave ==
    ASSUME IInv, MapifParseSaveGuildStorage
    PROVE  IInv'
<1> DEFINE msg == Head(toChar)
           answer == [type |-> "saved"]
<1>1. /\ toChar # << >> /\ msg.type = "save" /\ toChar' = Tail(toChar)
      /\ toMap' = toMap \o <<answer>> /\ UNCHANGED <<MapSide, guild, charDb, playing, Fixed, slips>>
      /\ db' = IF guild.exists THEN msg.items ELSE db
  BY DEF MapifParseSaveGuildStorage, Answers
<1>2. msg.items \in Bag
  <2>1. msg \in ToChar
    BY <1>1, TailOf DEF IInv, Shaped
  <2> HIDE DEF msg
  <2> QED BY <1>1, <2>1 DEF ToChar
<1>3. answer \in ToMap /\ answer.type = "saved"
  BY DEF ToMap
<1> HIDE DEF answer, msg
<1>4. <<answer>> \in Seq(ToMap) /\ \A i \in DOMAIN <<answer>> : <<answer>>[i] = answer
  BY <1>3
<1>5. slips' \subseteq Slip /\ db' \in Bag /\ charDb' \in [Player -> Bag]
  BY <1>1, <1>2 DEF IInv, Shaped
<1> QED BY <1>1, <1>3, <1>4, <1>5, StepAnswered

LEMMA StepRetrieve ==
    ASSUME IInv, MapifParseItemBoundRetrieve
    PROVE  IInv'
<1> DEFINE msg == Head(toChar)
           unlock == [type |-> "unlock"]
           some == IF BoundRows(msg.p) = {} THEN << >> ELSE <<Reloaded(msg.p)>>
           more == some \o <<unlock>>
<1>1. /\ toChar # << >> /\ msg.type = "retrieve" /\ toChar' = Tail(toChar)
      /\ toMap' = toMap \o more /\ UNCHANGED <<MapSide, guild, playing, Fixed>>
      /\ RowsMoved(msg.p)
  BY DEF MapifParseItemBoundRetrieve, Answers
<1>2. msg.p \in Player
  <2>1. msg \in ToChar
    BY <1>1, TailOf DEF IInv, Shaped
  <2> HIDE DEF msg
  <2> QED BY <1>1, <2>1 DEF ToChar
<1> HIDE DEF msg
<1>3. db \in Bag /\ charDb \in [Player -> Bag] /\ charDb[msg.p] \in Bag /\ guild.exists \in BOOLEAN
  BY <1>2 DEF IInv, Shaped
<1>4. DbWith(msg.p) \in Bag
  BY <1>3 DEF DbWith, Bag
<1>5. Reloaded(msg.p) \in ToMap /\ Reloaded(msg.p).type = "storage"
  BY <1>2, <1>3, <1>4 DEF Reloaded, ToMap
<1>6. unlock \in ToMap /\ unlock.type = "unlock"
  BY DEF ToMap
<1> HIDE DEF unlock
<1>7. more \in Seq(ToMap) /\ \A i \in DOMAIN more : more[i] \in {Reloaded(msg.p), unlock}
  BY <1>5, <1>6
<1> HIDE DEF more
<1>8. db' \in Bag /\ charDb' \in [Player -> Bag]
  <2>1. [i \in Item |-> IF i \in Bound THEN 0 ELSE charDb[msg.p][i]] \in Bag
    BY <1>3 DEF Bag
  <2>2. charDb' = [charDb EXCEPT ![msg.p] = [i \in Item |-> IF i \in Bound THEN 0 ELSE charDb[msg.p][i]]]
    BY <1>1, <1>3 DEF RowsMoved
  <2>3. db' = DbWith(msg.p)
    BY <1>1 DEF RowsMoved
  <2> QED BY <1>3, <1>4, <2>1, <2>2, <2>3
<1>9. slips \subseteq slips' /\ slips' \subseteq Slip
  BY <1>1 DEF RowsMoved, Slipped, Slip, IInv, Shaped
<1>10. \A i \in DOMAIN more : more[i].type \notin {"enter", "charSaved", "broken"}
  BY <1>5, <1>6, <1>7
<1> QED BY <1>1, <1>7, <1>8, <1>9, <1>10, StepAnswered

\* The last save of p comes in: it counts as gone, and is told so once.
LEMMA StepSaveCharacter ==
    ASSUME IInv, SaveCharacter
    PROVE  IInv'
<1> DEFINE msg == Head(toChar)
           answer == [type |-> "charSaved", p |-> msg.p]
<1>1. /\ toChar # << >> /\ msg.type = "char" /\ toChar' = Tail(toChar)
      /\ toMap' = toMap \o (IF msg.quits THEN <<answer>> ELSE << >>)
      /\ charDb' = [charDb EXCEPT ![msg.p] = msg.inv]
      /\ playing' = IF msg.quits THEN playing \ {msg.p} ELSE playing
      /\ UNCHANGED <<MapSide, guild, db, Fixed, slips>>
  BY DEF SaveCharacter, Answers
<1>2. msg \in [type : {"char"}, p : Player, inv : Bag, quits : BOOLEAN] /\ msg \in ToChar
  <2>1. msg \in ToChar
    BY <1>1, TailOf DEF IInv, Shaped
  <2> HIDE DEF msg
  <2> QED BY <1>1, <2>1 DEF ToChar
<1>3. PICK p \in Player : msg.p = p
  BY <1>2
<1>4. /\ Shaped /\ Holders /\ Breaking /\ toMap \in Seq(ToMap) /\ toChar \in Seq(ToChar)
      /\ charDb' \in [Player -> Bag] /\ db' \in Bag /\ slips' \subseteq Slip
  BY <1>1, <1>2 DEF IInv, Shaped
<1>5. CASE ~msg.quits
  <2>1. toMap' = toMap \o << >> /\ << >> \in Seq(ToMap) /\ DOMAIN << >> = {}
    BY <1>1, <1>5
  <2>2. UNCHANGED <<MapSide, guild, playing, Fixed>> /\ slips \subseteq slips'
    BY <1>1, <1>5
  <2> QED BY <1>1, <1>4, <2>1, <2>2, StepAnswered
<1>6. CASE msg.quits
  <2>1. msg \in Leaves(p) /\ Head(toChar) = toChar[1] /\ 1 \in DOMAIN toChar
    BY <1>1, <1>2, <1>3, <1>4, <1>6, TailOf DEF Leaves
  <2>2. /\ Once(toChar, Leaves(p)) /\ sd[p].waiting /\ ~sd[p].online
        /\ Without(toMap, Left(p)) /\ Without(toMap, Enters(p))
    <3>1. Session(p) /\ ~Without(toChar, Leaves(p))
      BY <2>1 DEF IInv, Without
    <3> QED BY <3>1 DEF Session
  <2>3. /\ answer \in ToMap /\ answer \in Left(p)
        /\ \A q \in Player : answer \notin Enters(q) /\ (q # p => answer \notin Left(q))
        /\ answer \notin Joins /\ answer \notin Breaks
    BY <1>3 DEF ToMap, Left, Enters, Joins, Breaks
  <2>4. /\ toMap' = toMap \o <<answer>> /\ playing' = playing \ {p} /\ playing' \subseteq Player
    BY <1>1, <1>3, <1>4, <1>6 DEF Shaped
  <2> HIDE DEF answer, msg
  <2>5. <<answer>> \in Seq(ToMap)
    BY <2>3
  <2>6. Shaped'
    BY <1>1, <1>4, <2>4, <2>5, ShapedAnswered DEF Fixed, Shaped
  <2>7. Without(toChar', Leaves(p))
    BY <1>1, <1>4, <2>1, <2>2, Tails DEF msg
  <2>8. Session(p)'
    <3>1. Once(toMap', Left(p)) /\ Without(toMap', Enters(p))
      BY <1>4, <2>2, <2>3, <2>4, <2>5, Ones, Cats
    <3>2. Enters(p)' = Enters(p) /\ Leaves(p)' = Leaves(p) /\ Left(p)' = Left(p)
      BY DEF Enters, Leaves, Left, ToChar, ToMap
    <3> QED BY <1>1, <2>2, <2>7, <3>1, <3>2 DEF Session, Without, Once, MapSide
  <2>9. ASSUME NEW q \in Player, q # p PROVE Session(q)'
    <3>1. /\ Without(toMap, Enters(q)) => Without(toMap', Enters(q))
          /\ Once(toMap, Enters(q)) => Once(toMap', Enters(q))
          /\ Without(toMap, Left(q)) => Without(toMap', Left(q))
          /\ Once(toMap, Left(q)) => Once(toMap', Left(q))
      BY <1>4, <2>3, <2>4, <2>5, <2>9, Ones, Cats
    <3>2. /\ Without(toChar, Leaves(q)) => Without(toChar', Leaves(q))
          /\ Once(toChar, Leaves(q)) => Once(toChar', Leaves(q))
      BY <1>1, <1>4, Tails
    <3>3. Enters(q)' = Enters(q) /\ Leaves(q)' = Leaves(q) /\ Left(q)' = Left(q)
      BY DEF Enters, Leaves, Left, ToChar, ToMap
    <3>4. Session(q) /\ sd' = sd /\ up' = up /\ (q \in playing' <=> q \in playing)
      BY <1>1, <2>4, <2>9 DEF IInv, MapSide, Fixed
    <3> QED BY <3>1, <3>2, <3>3, <3>4 DEF Session, Without, Once
  <2>10. Holders'
    BY <1>1, <1>4, HoldersKept DEF MapSide
  <2>11. Breaking'
    BY <1>1, <1>4, <2>3, <2>4, <2>5, Ones, BreakingAnswered DEF MapSide
  <2> QED BY <2>6, <2>8, <2>9, <2>10, <2>11 DEF IInv
<1> QED BY <1>2, <1>5, <1>6

LEMMA StepBreak ==
    ASSUME IInv, MapifParseBreakGuild
    PROVE  IInv'
<1> DEFINE answer == [type |-> "broken"]
           more == IF guild.exists THEN <<answer>> ELSE << >>
<1>1. /\ toChar # << >> /\ toChar' = Tail(toChar) /\ toMap' = toMap \o more
      /\ guild' = [exists |-> FALSE, members |-> {}]
      /\ db' = (IF guild.exists THEN Empty ELSE db)
      /\ UNCHANGED <<MapSide, charDb, playing, Fixed, slips>>
  BY DEF MapifParseBreakGuild, Answers
<1>2. Shaped /\ Holders /\ Breaking /\ toMap \in Seq(ToMap)
  BY DEF IInv, Shaped
<1>3. answer \in ToMap /\ answer \notin Joins /\ \A q \in Player : answer \notin Enters(q) \union Left(q)
  BY DEF ToMap, Joins, Enters, Left
<1> HIDE DEF answer
<1>4. /\ more \in Seq(ToMap) /\ Without(more, Joins)
      /\ \A q \in Player : Without(more, Enters(q)) /\ Without(more, Left(q))
      /\ \A i, j \in DOMAIN more : i = j
  BY <1>3, Ones
<1> HIDE DEF more
<1>5. Shaped'
  <2>1. /\ guild' \in [exists : BOOLEAN, members : SUBSET Player] /\ db' \in Bag
        /\ charDb' \in [Player -> Bag] /\ playing' \subseteq Player /\ slips' \subseteq Slip
    BY <1>1, <1>2 DEF Shaped, Empty, Bag
  <2> QED BY <1>1, <1>2, <1>4, <2>1, ShapedAnswered DEF Fixed
<1>6. \A q \in Player : Session(q)'
  BY <1>1, <1>2, <1>4, SessionAnswered DEF IInv, Fixed, MapSide
<1>7. Holders'
  BY <1>1, <1>2, HoldersKept DEF MapSide
<1>8. Breaking'
  <2>1. Without(toMap, Joins) => Without(toMap', Joins)
    BY <1>1, <1>2, <1>4, Cats
  <2>2. ASSUME NEW i \in DOMAIN toMap', NEW j \in DOMAIN toMap', i < j, toMap'[i] \in Breaks
        PROVE  toMap'[j] \notin Joins
    BY <1>1, <1>2, <1>4, <2>2, CatOf DEF Breaking, Without
  <2>3. Joins' = Joins /\ Breaks' = Breaks
    BY DEF Joins, Breaks, ToMap
  <2> QED BY <1>1, <1>2, <2>1, <2>2, <2>3 DEF Breaking, Without, MapSide
<1> QED BY <1>5, <1>6, <1>7, <1>8 DEF IInv

LEMMA StepLeave ==
    ASSUME IInv, NEW p \in Player, MapifParseGuildLeave(p)
    PROVE  IInv'
<1> DEFINE left == guild.members \ {p}
           gone == [type |-> "withdraw", p |-> p]
           broken == [type |-> "broken"]
           more == <<gone>> \o (IF left = {} THEN <<broken>> ELSE << >>)
<1>1. Shaped /\ Holders /\ Breaking /\ toMap \in Seq(ToMap) /\ guild.members \subseteq Player
  BY DEF IInv, Shaped
<1>2. /\ up /\ p \in guild.members
      /\ guild' = [exists |-> left # {}, members |-> left]
      /\ db' = (IF left = {} THEN Empty ELSE db)
      /\ toMap' = (toMap \o <<gone>>) \o (IF left = {} THEN <<broken>> ELSE << >>)
      /\ UNCHANGED <<MapSide, charDb, playing, toChar, Fixed, slips>>
  BY DEF MapifParseGuildLeave
<1>3. /\ gone \in ToMap /\ broken \in ToMap /\ {gone, broken} \intersect Joins = {} /\ gone \notin Breaks
      /\ \A q \in Player : {gone, broken} \intersect (Enters(q) \union Left(q)) = {}
  BY DEF ToMap, Joins, Breaks, Enters, Left
<1> HIDE DEF gone, broken
<1>4. /\ more \in Seq(ToMap) /\ \A i \in DOMAIN more : more[i] \in {gone, broken}
      /\ left # {} => Without(more, Breaks)
      /\ \A i, j \in DOMAIN more : i < j => more[j] = broken
  BY <1>3 DEF Without
<1>5. toMap' = toMap \o more
  <2>1. <<gone>> \in Seq(ToMap) /\ (IF left = {} THEN <<broken>> ELSE << >>) \in Seq(ToMap)
    BY <1>3
  <2> QED BY <1>1, <1>2, <2>1, ConcatAssociative
<1> HIDE DEF more, left
<1>6. /\ Without(more, Joins)
      /\ \A q \in Player : Without(more, Enters(q)) /\ Without(more, Left(q))
  BY <1>3, <1>4 DEF Without
<1>7. Shaped'
  <2>1. toMap' \in Seq(ToMap)
    BY <1>1, <1>4, <1>5, CatOf
  <2>2. guild' \in [exists : BOOLEAN, members : SUBSET Player] /\ db' \in Bag
    BY <1>1, <1>2 DEF left, Empty, Bag, Shaped
  <2> QED BY <1>1, <1>2, <2>1, <2>2 DEF Shaped, MapSide, Fixed, GStor, Sd, Bag, ToChar, ToMap
<1>8. \A q \in Player : Session(q)'
  BY <1>1, <1>2, <1>4, <1>5, <1>6, SessionAnswered DEF IInv, Fixed, MapSide
<1>9. Holders'
  BY <1>1, <1>2, HoldersKept DEF MapSide
<1>10. guild.exists /\ Without(toMap, Breaks)
  BY <1>1, <1>2 DEF Breaking
<1>11. Breaking'
  <2>1. left # {} => Without(toMap', Breaks)
    BY <1>1, <1>4, <1>5, <1>10, Cats
  <2>2. ASSUME NEW i \in DOMAIN toMap', NEW j \in DOMAIN toMap', i < j, toMap'[i] \in Breaks
        PROVE  toMap'[j] \notin Joins
    <3>1. i \notin DOMAIN toMap
      BY <1>1, <1>4, <1>5, <1>10, <2>2, CatOf DEF Without
    <3>2. j \notin DOMAIN toMap
      BY <1>1, <1>4, <1>5, <2>2, <3>1, CatOf
    <3> QED BY <1>1, <1>4, <1>5, <1>6, <3>2, CatOf DEF Without
  <2>3. Joins' = Joins /\ Breaks' = Breaks
    BY DEF Joins, Breaks, ToMap
  <2>4. known.exists /\ known' = known
    BY <1>1, <1>2, <1>10 DEF Breaking, MapSide
  <2> QED BY <1>2, <2>1, <2>2, <2>3, <2>4 DEF Breaking, Without
<1> QED BY <1>7, <1>8, <1>9, <1>11 DEF IInv

\* Who is let in is not on the map, nor on its way there.
LEMMA StepAuth ==
    ASSUME IInv, NEW p \in Player, MapAuthOk(p)
    PROVE  IInv'
<1> DEFINE msg == [type |-> "enter", p |-> p, guild |-> p \in guild.members, inv |-> charDb[p]]
<1>1. /\ Shaped /\ Holders /\ Breaking /\ Session(p) /\ toMap \in Seq(ToMap)
      /\ charDb[p] \in Bag
  BY DEF IInv, Shaped
<1>2. /\ up /\ p \notin playing /\ ~sd[p].waiting /\ playing' = playing \union {p}
      /\ toMap' = Append(toMap, msg)
      /\ UNCHANGED <<MapSide, guild, db, charDb, toChar, Fixed, slips>>
  BY DEF MapAuthOk
<1>3. /\ msg \in ToMap /\ msg \notin Breaks /\ (msg \in Joins => p \in guild.members)
      /\ msg \notin Left(p) /\ \A q \in Player \ {p} : msg \notin Enters(q) \union Left(q)
  <2>1. (p \in guild.members) \in BOOLEAN
    OBVIOUS
  <2>2. msg \in [type : {"enter"}, p : Player, guild : BOOLEAN, inv : Bag]
    BY <1>1, <2>1
  <2>3. msg.type = "enter" /\ msg.p = p /\ (msg.guild => p \in guild.members)
    OBVIOUS
  <2> HIDE DEF msg
  <2> QED BY <2>2, <2>3 DEF ToMap, Breaks, Joins, Enters, Left
<1> HIDE DEF msg
<1>4. toMap' = toMap \o <<msg>> /\ <<msg>> \in Seq(ToMap)
  BY <1>1, <1>2, <1>3, AppendIsConcat
<1>5. Shaped'
  <2>1. toMap' \in Seq(ToMap) /\ playing' \subseteq Player
    BY <1>1, <1>2, <1>3 DEF Shaped
  <2> QED BY <1>1, <1>2, <2>1 DEF Shaped, MapSide, Fixed, GStor, Sd, Bag, ToChar, ToMap
<1>6. Session(p)'
  <2>1. ~sd[p].online /\ Without(toMap, Enters(p)) /\ Without(toMap, Left(p)) /\ Without(toChar, Leaves(p))
    BY <1>1, <1>2 DEF Session
  <2>2. Once(toMap', Enters(p)) /\ Without(toMap', Left(p))
    BY <1>1, <1>3, <1>4, <2>1, Ones, Cats
  <2>3. Enters(p)' = Enters(p) /\ Leaves(p)' = Leaves(p) /\ Left(p)' = Left(p)
    BY DEF Enters, Leaves, Left, ToChar, ToMap
  <2> QED BY <1>2, <2>1, <2>2, <2>3 DEF Session, Without, Once, MapSide
<1>7. ASSUME NEW q \in Player, q # p PROVE Session(q)'
  <2>1. /\ Without(toMap, Enters(q)) => Without(toMap', Enters(q))
        /\ Once(toMap, Enters(q)) => Once(toMap', Enters(q))
        /\ Without(toMap, Left(q)) => Without(toMap', Left(q))
        /\ Once(toMap, Left(q)) => Once(toMap', Left(q))
    BY <1>1, <1>3, <1>4, <1>7, Ones, Cats
  <2>2. Enters(q)' = Enters(q) /\ Leaves(q)' = Leaves(q) /\ Left(q)' = Left(q)
    BY DEF Enters, Leaves, Left, ToChar, ToMap
  <2>3. Session(q) /\ sd' = sd /\ up' = up /\ toChar' = toChar /\ (q \in playing' <=> q \in playing)
    BY <1>2, <1>7 DEF IInv, MapSide, Fixed
  <2> QED BY <2>1, <2>2, <2>3 DEF Session, Without, Once
<1>8. Holders'
  BY <1>1, <1>2, HoldersKept DEF MapSide
<1>9. Breaking'
  <2>1. CASE guild.exists
    <3>1. Without(toMap', Breaks) /\ Without(toMap, Breaks)
      BY <1>1, <1>3, <1>4, <2>1, Ones, Cats DEF Breaking
    <3>2. Breaks' = Breaks /\ Joins' = Joins
      BY DEF Breaks, Joins, ToMap
    <3> QED BY <1>1, <1>2, <2>1, <3>1, <3>2 DEF Breaking, Without, MapSide
  <2>2. CASE ~guild.exists
    <3>1. msg \notin Joins
      BY <1>1, <1>3, <2>2 DEF Breaking
    <3>2. Without(<<msg>>, Joins) /\ Without(<<msg>>, Breaks)
      BY <1>3, <3>1, Ones
    <3> QED BY <1>1, <1>2, <1>4, <3>2, BreakingAnswered DEF MapSide
  <2> QED BY <2>1, <2>2
<1> QED BY <1>5, <1>6, <1>7, <1>8, <1>9 DEF IInv

-----------------------------------------------------------------------------
(* The theorems. *)

LEMMA Starts == Init => IInv
<1> SUFFICES ASSUME Init PROVE IInv
  OBVIOUS
<1>1. PICK s \in Setups :
        /\ sd = [p \in Player |-> [online |-> p \in s.online, guild |-> p \in s.online,
                                   open |-> FALSE, waiting |-> FALSE, inv |-> s.inv[p]]]
        /\ db = s.db /\ charDb = s.inv /\ playing = s.online
  BY DEF Init
<1>2. /\ gstor = NotLoaded /\ guild = [exists |-> TRUE, members |-> Player] /\ known = guild
      /\ up = TRUE /\ losses = 0 /\ toChar = << >> /\ toMap = << >> /\ slips = {}
  BY DEF Init
<1>3. s.online \subseteq Player /\ s.inv \in [Player -> Bag] /\ s.db \in Bag
  BY SetupsAssumption DEF Bag
<1>4. NotLoaded \in GStor
  BY DEF NotLoaded, GStor, Empty, Bag
<1>5. Shaped
  <2>1. sd \in [Player -> Sd]
    BY <1>1, <1>3 DEF Sd
  <2>2. toChar \in Seq(ToChar) /\ toMap \in Seq(ToMap) /\ losses \in 0..MaxLosses
    BY <1>2, BoundsAssumption
  <2> QED BY <1>1, <1>2, <1>3, <1>4, <2>1, <2>2 DEF Shaped
<1>6. ASSUME NEW p \in Player PROVE Session(p)
  <2>1. (sd[p].online => p \in playing) /\ ~sd[p].waiting
    BY <1>1
  <2> QED BY <1>2, <2>1 DEF Session, Without
<1>7. Holders
  BY <1>1, <1>2 DEF Holders, NotLoaded
<1>8. Breaking
  BY <1>1, <1>2 DEF Breaking, Without
<1> QED BY <1>5, <1>6, <1>7, <1>8 DEF IInv

LEMMA Steps == IInv /\ [Next]_vars => IInv'
<1> SUFFICES ASSUME IInv, [Next]_vars PROVE IInv'
  OBVIOUS
<1>1. CASE MapNext
  BY <1>1, StepOpen, StepClose, StepAutoSave, StepQuit, StepGuildBreak, StepAdd, StepGet DEF MapNext
<1>2. CASE MapHandles
  BY <1>2, StepLoaded, StepSaved, StepWithdraw, StepUnlock, StepBroken, StepEnter, StepSaveAck
     DEF MapHandles
<1>3. CASE CharHandles
  BY <1>3, StepLoad, StepSave, StepSaveCharacter, StepRetrieve, StepBreak DEF CharHandles
<1>4. CASE \E p \in Player : MapifParseGuildLeave(p) \/ MapAuthOk(p)
  BY <1>4, StepLeave, StepAuth
<1>5. CASE LinkLost \/ ChrifOnReady
  BY <1>5, StepLinkLost, StepReady
<1>6. CASE UNCHANGED vars
  BY <1>6 DEF vars, IInv, Shaped, Session, Holders, Breaking, Without, Once, Bag, GStor, Sd,
              ToChar, ToMap, Enters, Leaves, Left, Joins, Breaks
<1> QED BY <1>1, <1>2, <1>3, <1>4, <1>5, <1>6 DEF Next

LEMMA Always == Spec => []IInv
BY Starts, Steps, PTL DEF Spec

\* Whatever members do and whatever becomes of messages and of the link, the fields
\* hold what the handlers of storage.c and int_storage.c may leave there.
THEOREM GuildStorageTypeOK == Spec => []TypeOK
<1>1. IInv => TypeOK
  BY DEF IInv, Shaped, TypeOK, GStor, Sd
<1> QED BY <1>1, Always, PTL

\* One member at a time has the storage open, and while it counts as open that member
\* is on the map and in the guild: the check in gstorage->open is enough, though the
\* field it reads is changed by closings, quits, answers and other members' leaving.
THEOREM GuildStorageOneAtATime == Spec => []OneAtATime
<1>1. ASSUME IInv PROVE OneAtATime
  <2> DEFINE openers == {p \in Player : sd[p].open}
  <2>1. gstor.status => \E p \in openers : sd[p].online /\ sd[p].guild
    BY <1>1 DEF IInv, Holders
  <2>2. ASSUME "shut" \notin slips PROVE Cardinality(openers) <= 1 /\ (openers # {} => gstor.status)
    <3>1. openers = {} \/ \E p \in Player : openers = {p}
      BY <1>1, <2>2 DEF IInv, Holders
    <3>2. Cardinality(openers) \in {0, 1}
      BY <3>1, FS_EmptySet, FS_Singleton
    <3> QED BY <1>1, <2>2, <3>2 DEF IInv, Holders
  <2> QED BY <2>1, <2>2 DEF OneAtATime
<1> QED BY <1>1, Always, PTL

\* Once guild_broken was received no member has a storage of that guild, nor comes back
\* to one: not with a reply that was on its way, nor by entering the map.
THEOREM GuildStorageBrokenHasNone == Spec => []BrokenHasNone
<1>1. IInv => BrokenHasNone
  BY DEF IInv, Holders, Breaking, BrokenHasNone
<1> QED BY <1>1, Always, PTL

-----------------------------------------------------------------------------
(* A copy that is not marked dirty.  The answer to a save clears the mark, and so  *)
(* do rows the char-server moved: what they stand for depends on what else is on   *)
(* the link, in which order.                                                       *)

Loads == [type : {"load"}, p : Player]
Stores == [type : {"save"}, items : Bag]
Acks == [type : {"saved"}]
Opens == {m \in ToMap : m.type = "storage" /\ m.opens}
Rows == {m \in ToMap : m.type = "storage" /\ ~m.opens}
Void == {m \in ToMap : m.type = "storage" /\ ~m.exists}

\* What CleanIsSaved supposes: nothing lost, and no answer too early before the link was.
Undisturbed ==
    /\ guild.exists /\ slips \intersect {"unsaved", "overtaken", "lost"} = {}
    /\ "early" \in slips => losses = 0

\* b is in the rows, or will be when the last save of s has come there.
WrittenIn(s, rows, b) ==
    \/ rows = b /\ Without(s, Stores)
    \/ \E i \in DOMAIN s : /\ s[i] \in Stores /\ s[i].items = b
                           /\ \A j \in DOMAIN s : j > i => s[j] \notin Stores

\* In s no message of S comes before one of U; each of S holds b, or one of U comes behind.
NoneBefore(s, S, U) == \A j \in DOMAIN s : s[j] \in U => \A i \in DOMAIN s : i < j => s[i] \notin S
Are(s, S, b, U) ==
    \A j \in DOMAIN s : s[j] \in S => s[j].items = b \/ \E k \in DOMAIN s : k > j /\ s[k] \in U

MarkedIfLoaded == gstor.dirty \/ "early" \in slips => gstor.loaded
UnmarkedSendsNone ==
    ~gstor.dirty /\ "early" \notin slips => Without(toChar, Stores) /\ Without(toMap, Acks)

\* Saves, and the answers to them, come behind what was asked for before it was loaded.
LoadsFirst ==
    /\ NoneBefore(toChar, Stores, Loads) /\ NoneBefore(toMap, Acks, Opens)
    /\ ~Without(toChar, Loads) => "early" \notin slips /\ Without(toMap, Acks)
    /\ ~Without(toMap, Opens) => "early" \notin slips

\* Storages on the way are as the rows are, or are followed by newer ones.
StoragesAre ==
    /\ Without(toMap, Void)
    /\ ~gstor.dirty => Are(toMap, Opens, db, Rows)
    /\ Are(toMap, Rows, db, Rows \union Acks)

\* The copy is written if it is not marked, or if nobody has it open.
CopyIsWritten ==
    gstor.loaded /\ (~gstor.dirty \/ (~gstor.status /\ up)) =>
        WrittenIn(toChar, db, gstor.items) \/ ~Without(toMap, Rows)

Order == MarkedIfLoaded /\ UnmarkedSendsNone /\ LoadsFirst /\ StoragesAre /\ CopyIsWritten
Clean == Undisturbed => Order

LEMMA Kinds ==
    /\ Loads' = Loads /\ Stores' = Stores /\ Acks' = Acks
    /\ Opens' = Opens /\ Rows' = Rows /\ Void' = Void
BY DEF Loads, Stores, Acks, Opens, Rows, Void, ToMap, Bag

LEMMA KindsOf ==
    /\ \A m \in ToChar : (m \in Loads <=> m.type = "load") /\ (m \in Stores <=> m.type = "save")
    /\ \A m \in ToMap : /\ m \in Acks <=> m.type = "saved"
                        /\ m \in Opens \union Rows <=> m.type = "storage"
                        /\ m \in Opens => m \notin Rows
                        /\ m \in Void => m.type = "storage"
BY DEF Loads, Stores, Acks, Opens, Rows, Void, ToMap, ToChar

\* The parts of Order, of the next state.
LEMMA OrderNext ==
    ASSUME gstor'.dirty \/ "early" \in slips' => gstor'.loaded,
           ~gstor'.dirty /\ "early" \notin slips' => Without(toChar', Stores) /\ Without(toMap', Acks),
           NoneBefore(toChar', Stores, Loads), NoneBefore(toMap', Acks, Opens),
           ~Without(toChar', Loads) => "early" \notin slips' /\ Without(toMap', Acks),
           ~Without(toMap', Opens) => "early" \notin slips',
           Without(toMap', Void),
           ~gstor'.dirty => Are(toMap', Opens, db', Rows),
           Are(toMap', Rows, db', Rows \union Acks),
           gstor'.loaded /\ (~gstor'.dirty \/ (~gstor'.status /\ up')) =>
               WrittenIn(toChar', db', gstor'.items) \/ ~Without(toMap', Rows)
    PROVE  Order'
<1>1. MarkedIfLoaded'
  BY DEF MarkedIfLoaded
<1>2. UnmarkedSendsNone'
  BY Kinds DEF UnmarkedSendsNone, Without
<1>3. LoadsFirst'
  BY Kinds DEF LoadsFirst, Without, NoneBefore
<1>4. StoragesAre'
  BY Kinds DEF StoragesAre, Without, Are
<1>5. CopyIsWritten'
  <2>1. WrittenIn(toChar', db', gstor'.items) => WrittenIn(toChar, db, gstor.items)'
    BY Kinds DEF WrittenIn, Without
  <2>2. ~Without(toMap', Rows) => ~Without(toMap, Rows)'
    BY Kinds DEF Without
  <2> QED BY <2>1, <2>2 DEF CopyIsWritten
<1> QED BY <1>1, <1>2, <1>3, <1>4, <1>5 DEF Order

LEMMA TailsMore ==
    ASSUME NEW T, NEW s \in Seq(T), s # << >>, NEW S, NEW U, NEW b
    PROVE  /\ NoneBefore(s, S, U) => NoneBefore(Tail(s), S, U)
           /\ NoneBefore(s, S, U) /\ Head(s) \in S => Without(Tail(s), U)
           /\ Are(s, S, b, U) => Are(Tail(s), S, b, U)
           /\ ~Without(s, S) /\ Head(s) \notin S => ~Without(Tail(s), S)
<1>1. /\ s[1] = Head(s) /\ 1 \in DOMAIN s
      /\ \A i \in DOMAIN s : i = 1 \/ (i - 1 \in DOMAIN Tail(s) /\ s[i] = Tail(s)[i - 1])
      /\ \A i \in DOMAIN Tail(s) : i + 1 \in DOMAIN s /\ Tail(s)[i] = s[i + 1] /\ i \in Nat /\ i + 1 > 1
  BY TailOf
<1>2. NoneBefore(s, S, U) => NoneBefore(Tail(s), S, U)
  BY <1>1 DEF NoneBefore
<1>3. NoneBefore(s, S, U) /\ Head(s) \in S => Without(Tail(s), U)
  BY <1>1 DEF NoneBefore, Without
<1>4. ASSUME Are(s, S, b, U), NEW j \in DOMAIN Tail(s), Tail(s)[j] \in S, Tail(s)[j].items # b
      PROVE  \E k \in DOMAIN Tail(s) : k > j /\ Tail(s)[k] \in U
  <2>1. PICK k \in DOMAIN s : k > j + 1 /\ s[k] \in U
    BY <1>1, <1>4 DEF Are
  <2>2. k \in Nat /\ j \in Nat
    BY <1>1, TailOf
  <2>3. k - 1 \in DOMAIN Tail(s) /\ s[k] = Tail(s)[k - 1]
    BY <1>1, <2>1, <2>2
  <2> QED BY <2>1, <2>2, <2>3
<1>5. ~Without(s, S) /\ Head(s) \notin S => ~Without(Tail(s), S)
  BY <1>1 DEF Without
<1> QED BY <1>2, <1>3, <1>4, <1>5 DEF Are

LEMMA CatsMore ==
    ASSUME NEW T, NEW s \in Seq(T), NEW t \in Seq(T), NEW S, NEW U, NEW b
    PROVE  /\ NoneBefore(s, S, U) /\ NoneBefore(t, S, U) /\ (Without(s, S) \/ Without(t, U)) =>
                  NoneBefore(s \o t, S, U)
           /\ Are(s, S, b, U) /\ Are(t, S, b, U) => Are(s \o t, S, b, U)
           /\ ~Without(t, U) /\ Are(t, S, b, U) => Are(s \o t, S, b, U)
           /\ ~Without(s, S) \/ ~Without(t, S) => ~Without(s \o t, S)
<1>1. /\ DOMAIN s = 1..Len(s) /\ DOMAIN t = 1..Len(t) /\ Len(s) \in Nat /\ Len(t) \in Nat
      /\ DOMAIN (s \o t) = 1..(Len(s) + Len(t))
      /\ \A i \in 1..Len(s) : (s \o t)[i] = s[i]
      /\ \A i \in 1..Len(t) : (s \o t)[Len(s) + i] = t[i]
  OBVIOUS
<1>2. \A i \in DOMAIN (s \o t) : i \in DOMAIN s \/ (i > Len(s) /\ i - Len(s) \in DOMAIN t /\ (s \o t)[i] = t[i - Len(s)])
  BY CatOf
<1>3. ASSUME NoneBefore(s, S, U), NoneBefore(t, S, U), Without(s, S) \/ Without(t, U),
             NEW j \in DOMAIN (s \o t), (s \o t)[j] \in U, NEW i \in DOMAIN (s \o t), i < j, (s \o t)[i] \in S
      PROVE  FALSE
  <2>1. CASE j \in DOMAIN s
    BY <1>1, <1>3, <2>1 DEF NoneBefore
  <2>2. CASE j \notin DOMAIN s /\ i \in DOMAIN s
    BY <1>1, <1>2, <1>3, <2>2 DEF Without
  <2>3. CASE j \notin DOMAIN s /\ i \notin DOMAIN s
    <3>1. j - Len(s) \in DOMAIN t /\ i - Len(s) \in DOMAIN t /\ i - Len(s) < j - Len(s)
      BY <1>1, <1>2, <1>3, <2>3
    <3> QED BY <1>2, <1>3, <2>3, <3>1 DEF NoneBefore
  <2> QED BY <2>1, <2>2, <2>3
<1>4. ASSUME Are(t, S, b, U), Are(s, S, b, U) \/ ~Without(t, U), NEW j \in DOMAIN (s \o t),
             (s \o t)[j] \in S, (s \o t)[j].items # b
      PROVE  \E k \in DOMAIN (s \o t) : k > j /\ (s \o t)[k] \in U
  <2>1. ASSUME NEW k \in DOMAIN t, t[k] \in U, j < Len(s) + k
        PROVE  Len(s) + k \in DOMAIN (s \o t) /\ Len(s) + k > j /\ (s \o t)[Len(s) + k] \in U
    BY <1>1, <2>1
  <2>2. CASE j \in DOMAIN s /\ Are(s, S, b, U)
    BY <1>1, <1>4, <2>2 DEF Are
  <2>3. CASE j \in DOMAIN s /\ ~Without(t, U)
    <3>1. PICK k \in DOMAIN t : t[k] \in U
      BY <2>3 DEF Without
    <3>2. j < Len(s) + k
      BY <1>1, <2>3, <3>1
    <3> QED BY <2>1, <3>1, <3>2
  <2>4. CASE j \notin DOMAIN s
    <3>1. j - Len(s) \in DOMAIN t /\ (s \o t)[j] = t[j - Len(s)] /\ j \in Int
      BY <1>1, <1>2, <2>4
    <3>2. PICK k \in DOMAIN t : k > j - Len(s) /\ t[k] \in U
      BY <1>4, <3>1 DEF Are
    <3>3. j < Len(s) + k
      BY <1>1, <3>1, <3>2
    <3> QED BY <2>1, <3>2, <3>3
  <2> QED BY <1>4, <2>2, <2>3, <2>4
<1>5. ~Without(s, S) \/ ~Without(t, S) => ~Without(s \o t, S)
  <2>1. \A i \in DOMAIN t : Len(s) + i \in DOMAIN (s \o t) /\ (s \o t)[Len(s) + i] = t[i]
    BY <1>1
  <2>2. \A i \in DOMAIN s : i \in DOMAIN (s \o t) /\ (s \o t)[i] = s[i]
    BY <1>1
  <2>3. ~Without(s, S) => ~Without(s \o t, S)
    BY <2>2 DEF Without
  <2>4. ~Without(t, S) => ~Without(s \o t, S)
    BY <2>1 DEF Without
  <2> QED BY <2>3, <2>4
<1> QED BY <1>3, <1>4, <1>5 DEF NoneBefore, Are

LEMMA OnesMore ==
    ASSUME NEW m, NEW S, NEW U, NEW b
    PROVE  /\ NoneBefore(<<m>>, S, U) /\ NoneBefore(<< >>, S, U) /\ Are(<< >>, S, b, U)
           /\ m \notin S \/ m.items = b => Are(<<m>>, S, b, U)
           /\ m \in S => ~Without(<<m>>, S)
BY DEF NoneBefore, Are, Without

\* The last save of a sequence to which something is added.
LEMMA WrittenCat ==
    ASSUME NEW s \in Seq(ToChar), NEW t \in Seq(ToChar), NEW rows, NEW b,
           \A i \in DOMAIN t : t[i] \in Stores => t[i].items = b,
           ~Without(t, Stores) \/ WrittenIn(s, rows, b)
    PROVE  WrittenIn(s \o t, rows, b)
<1>1. /\ DOMAIN s = 1..Len(s) /\ DOMAIN t = 1..Len(t) /\ Len(s) \in Nat /\ Len(t) \in Nat
      /\ s \o t \in Seq(ToChar) /\ DOMAIN (s \o t) = 1..(Len(s) + Len(t))
      /\ \A i \in 1..Len(s) : (s \o t)[i] = s[i]
      /\ \A i \in 1..Len(t) : (s \o t)[Len(s) + i] = t[i]
  OBVIOUS
<1>2. CASE ~Without(t, Stores)
  <2> DEFINE L == {i \in 1..Len(t) : t[i] \in Stores}
  <2>1. L # {} /\ L \subseteq Int /\ IsFiniteSet(L)
    <3>1. IsFiniteSet(1..Len(t))
      BY <1>1, FS_Interval
    <3>2. IsFiniteSet(L)
      BY <3>1, FS_Subset
    <3> QED BY <1>1, <1>2, <3>2 DEF Without
  <2>2. PICK k \in L : \A j \in L : k >= j
    BY <2>1, GreatestIs
  <2> DEFINE x == Len(s) + k
  <2>3. x \in DOMAIN (s \o t) /\ (s \o t)[x] = t[k]
    BY <1>1, <2>2
  <2>4. ASSUME NEW j \in DOMAIN (s \o t), j > x, (s \o t)[j] \in Stores
        PROVE  FALSE
    <3>1. j - Len(s) \in 1..Len(t) /\ (s \o t)[Len(s) + (j - Len(s))] = t[j - Len(s)]
          /\ j - Len(s) > k /\ Len(s) + (j - Len(s)) = j
      BY <1>1, <2>2, <2>4
    <3>2. t[j - Len(s)] \in Stores
      BY <2>4, <3>1
    <3> QED BY <2>2, <3>1, <3>2
  <2> QED BY <2>2, <2>3, <2>4, <1>1, SMTT(30) DEF WrittenIn
<1>3. CASE Without(t, Stores) /\ WrittenIn(s, rows, b)
  BY <1>1, <1>3 DEF WrittenIn, Without
<1> QED BY <1>2, <1>3

\* The first message is handled; if it is a save, the rows are as it says.
LEMMA WrittenTail ==
    ASSUME NEW s \in Seq(ToChar), s # << >>, NEW rows, NEW b, WrittenIn(s, rows, b)
    PROVE  WrittenIn(Tail(s), IF Head(s) \in Stores THEN Head(s).items ELSE rows, b)
<1>1. /\ s[1] = Head(s) /\ 1 \in DOMAIN s
      /\ \A i \in DOMAIN s : i = 1 \/ (i - 1 \in DOMAIN Tail(s) /\ s[i] = Tail(s)[i - 1] /\ i \in Nat)
      /\ \A i \in DOMAIN Tail(s) : i + 1 \in DOMAIN s /\ Tail(s)[i] = s[i + 1] /\ i \in Nat /\ i + 1 > 1
  BY TailOf
<1>2. CASE rows = b /\ Without(s, Stores)
  BY <1>1, <1>2 DEF WrittenIn, Without
<1>3. CASE \E i \in DOMAIN s : /\ s[i] \in Stores /\ s[i].items = b
                               /\ \A j \in DOMAIN s : j > i => s[j] \notin Stores
  <2>1. PICK i \in DOMAIN s : /\ s[i] \in Stores /\ s[i].items = b
                              /\ \A j \in DOMAIN s : j > i => s[j] \notin Stores
    BY <1>3
  <2>2. CASE i = 1
    BY <1>1, <2>1, <2>2 DEF WrittenIn, Without
  <2>3. CASE i # 1
    <3>1. i - 1 \in DOMAIN Tail(s) /\ s[i] = Tail(s)[i - 1] /\ i \in Nat
      BY <1>1, <2>3
    <3>2. \A j \in DOMAIN Tail(s) : j > i - 1 => Tail(s)[j] \notin Stores
      <4> SUFFICES ASSUME NEW j \in DOMAIN Tail(s), j > i - 1 PROVE Tail(s)[j] \notin Stores
        OBVIOUS
      <4>1. j + 1 \in DOMAIN s /\ Tail(s)[j] = s[j + 1] /\ j + 1 > i
        BY <1>1, <3>1
      <4> QED BY <2>1, <4>1
    <3> QED BY <2>1, <3>1, <3>2 DEF WrittenIn
  <2> QED BY <2>2, <2>3
<1> QED BY <1>2, <1>3 DEF WrittenIn

-----------------------------------------------------------------------------
(* What the functions of the map-server leave and send: saves of the copy as it *)
(* is, and one at least if it is left with changes and shut (Settled).          *)

Honest(n) ==
    /\ n.gstor \in GStor /\ n.out \in Seq(ToChar) /\ Without(n.out, Loads)
    /\ \A i \in DOMAIN n.out : n.out[i] \in Stores => n.gstor.dirty /\ n.out[i].items = n.gstor.items

Settled(n) ==
    /\ Honest(n) /\ n.gstor.loaded = gstor.loaded
    /\ n.gstor.dirty => n.gstor.loaded
    /\ gstor.dirty => n.gstor.dirty
    /\ n.gstor.loaded /\ (~n.gstor.dirty \/ (~n.gstor.status /\ up)) =>
         \/ ~Without(n.out, Stores)
         \/ n.gstor.items = gstor.items /\ (~gstor.dirty \/ (~gstor.status /\ up))

\* The map-server takes one message, or none, and settles.
LEMMA Settling ==
    ASSUME IInv, Order, NEW n, Settled(n), gstor' = n.gstor, toChar' = toChar \o n.out,
           toMap' = toMap \/ (toMap # << >> /\ toMap' = Tail(toMap) /\ Head(toMap) \notin Rows),
           db' = db, up' = up, "early" \in slips' <=> "early" \in slips
    PROVE  Order'
<1>1. toChar \in Seq(ToChar) /\ toMap \in Seq(ToMap)
  BY DEF IInv, Shaped
<1>2. n.out \in Seq(ToChar) /\ Without(n.out, Loads) /\ n.gstor \in GStor
  BY DEF Settled, Honest
<1>3. \A S : Without(toMap, S) => Without(toMap', S)
  BY <1>1, Tails
<1>4. ~Without(toMap, Rows) => ~Without(toMap', Rows)
  BY <1>1, TailsMore
<1>5. \A S, U, b : /\ NoneBefore(toMap, S, U) => NoneBefore(toMap', S, U)
                   /\ Are(toMap, S, b, U) => Are(toMap', S, b, U)
  <2> TAKE S, U, b
  <2>1. CASE toMap # << >> /\ toMap' = Tail(toMap)
    BY <1>1, <2>1, TailsMore
  <2> QED BY <2>1
<1>6. ASSUME ~gstor'.dirty, "early" \notin slips'
      PROVE  Without(toChar', Stores) /\ Without(toMap', Acks)
  <2>1. ~gstor.dirty /\ Without(n.out, Stores)
    BY <1>6 DEF Settled, Honest, Without
  <2>2. Without(toChar, Stores) /\ Without(toMap, Acks)
    BY <1>6, <2>1 DEF Order, UnmarkedSendsNone
  <2> QED BY <1>1, <1>2, <1>3, <2>1, <2>2, Cats
<1>7. NoneBefore(toChar', Stores, Loads)
  <2>1. NoneBefore(n.out, Stores, Loads)
    BY <1>2 DEF NoneBefore, Without
  <2> QED BY <1>1, <1>2, <2>1, CatsMore DEF Order, LoadsFirst
<1>8. ~Without(toChar', Loads) => ~Without(toChar, Loads)
  BY <1>1, <1>2, Cats
<1>9. gstor'.dirty \/ "early" \in slips' => gstor'.loaded
  BY DEF Settled, Order, MarkedIfLoaded
<1>10. ~Without(toChar', Loads) => "early" \notin slips' /\ Without(toMap', Acks)
  BY <1>3, <1>8 DEF Order, LoadsFirst
<1>11. ~Without(toMap', Opens) => "early" \notin slips'
  BY <1>3 DEF Order, LoadsFirst
<1>12. ~gstor'.dirty => Are(toMap', Opens, db', Rows)
  BY <1>5 DEF Settled, Order, StoragesAre
<1>13. ASSUME gstor'.loaded, ~gstor'.dirty \/ (~gstor'.status /\ up')
       PROVE  WrittenIn(toChar', db', gstor'.items) \/ ~Without(toMap', Rows)
  <2>1. \A i \in DOMAIN n.out : n.out[i] \in Stores => n.out[i].items = gstor'.items
    BY DEF Settled, Honest
  <2>2. ~Without(n.out, Stores) \/ WrittenIn(toChar, db, gstor'.items) \/ ~Without(toMap, Rows)
    BY <1>13 DEF Settled, Order, CopyIsWritten
  <2> QED BY <1>1, <1>2, <1>4, <2>1, <2>2, WrittenCat
<1> QED BY <1>3, <1>5, <1>6, <1>7, <1>9, <1>10, <1>11, <1>12, <1>13, OrderNext
        DEF Order, LoadsFirst, StoragesAre

LEMMA NowSettled ==
    ASSUME IInv, Order
    PROVE  Settled(Now) /\ Honest(Now)
<1>1. gstor \in GStor /\ (gstor.dirty => gstor.loaded) /\ << >> \in Seq(ToChar)
  BY DEF IInv, Shaped, Order, MarkedIfLoaded
<1> QED BY <1>1 DEF Settled, Honest, Now, Without

\* One more message, which is none of these.
LEMMA SentHonest ==
    ASSUME NEW m, Honest(m), m = [gstor |-> m.gstor, sd |-> m.sd, out |-> m.out],
           NEW msg \in ToChar, msg \notin Loads, msg \notin Stores
    PROVE  LET n == Sent(m, msg)
           IN  /\ Honest(n) /\ n.gstor = m.gstor /\ n.sd = m.sd
               /\ n = [gstor |-> n.gstor, sd |-> n.sd, out |-> n.out]
               /\ ~Without(m.out, Stores) => ~Without(n.out, Stores)
<1> DEFINE more == m.out \o <<msg>>
<1>1. m.out \in Seq(ToChar) /\ <<msg>> \in Seq(ToChar)
  BY DEF Honest
<1>2. Append(m.out, msg) = more /\ more \in Seq(ToChar)
  BY <1>1, AppendIsConcat
<1>3. Without(more, Loads) /\ (~Without(m.out, Stores) => ~Without(more, Stores))
  BY <1>1, Ones, Cats, CatsMore DEF Honest
<1>4. \A i \in DOMAIN more : more[i] \in Stores => m.gstor.dirty /\ more[i].items = m.gstor.items
  BY <1>1, CatOf DEF Honest
<1>5. Sent(m, msg) = IF up THEN [gstor |-> m.gstor, sd |-> m.sd, out |-> more] ELSE m
  BY <1>2 DEF Sent
<1> HIDE DEF more
<1> QED BY <1>2, <1>3, <1>4, <1>5 DEF Honest

LEMMA SentSave ==
    ASSUME NEW m, Honest(m), m = [gstor |-> m.gstor, sd |-> m.sd, out |-> m.out], m.gstor.dirty
    PROVE  LET n == Sent(m, [type |-> "save", items |-> m.gstor.items])
           IN  /\ Honest(n) /\ n.gstor = m.gstor /\ n.sd = m.sd
               /\ n = [gstor |-> n.gstor, sd |-> n.sd, out |-> n.out]
               /\ up => ~Without(n.out, Stores)
<1> DEFINE msg == [type |-> "save", items |-> m.gstor.items]
           more == m.out \o <<msg>>
<1>0. msg \in Stores /\ msg \in ToChar /\ msg \notin Loads /\ msg.items = m.gstor.items
  BY DEF Honest, GStor, Stores, Loads, ToChar
<1>1. m.out \in Seq(ToChar) /\ <<msg>> \in Seq(ToChar)
  BY <1>0 DEF Honest
<1> HIDE DEF msg
<1>2. Append(m.out, msg) = more /\ more \in Seq(ToChar)
  BY <1>1, AppendIsConcat
<1>3. Without(more, Loads) /\ ~Without(more, Stores)
  <2>1. Without(<<msg>>, Loads) /\ ~Without(<<msg>>, Stores)
    BY <1>0, Ones, OnesMore
  <2> QED BY <1>1, <2>1, Cats, CatsMore DEF Honest
<1>4. \A i \in DOMAIN more : more[i] \in Stores => m.gstor.dirty /\ more[i].items = m.gstor.items
  BY <1>0, <1>1, CatOf DEF Honest
<1>5. Sent(m, msg) = IF up THEN [gstor |-> m.gstor, sd |-> m.sd, out |-> more] ELSE m
  BY <1>2 DEF Sent
<1> HIDE DEF more
<1>6. LET n == Sent(m, msg)
      IN  /\ Honest(n) /\ n.gstor = m.gstor /\ n.sd = m.sd
          /\ n = [gstor |-> n.gstor, sd |-> n.sd, out |-> n.out]
          /\ up => ~Without(n.out, Stores)
  BY <1>2, <1>3, <1>4, <1>5 DEF Honest
<1> QED BY <1>6 DEF msg

\* ChrifSave of a character that stays, with the storage if it has that open.
LEMMA SaveHonest ==
    ASSUME NEW m \in Side, Honest(m), NEW p \in Player
    PROVE  LET n == ChrifSave(m, p, FALSE)
           IN  /\ Honest(n) /\ n.gstor = m.gstor /\ n.sd = m.sd
               /\ n = [gstor |-> n.gstor, sd |-> n.sd, out |-> n.out]
               /\ up /\ m.sd[p].open /\ m.gstor.loaded /\ m.gstor.dirty => ~Without(n.out, Stores)
<1> DEFINE g == [m.gstor EXCEPT !.status = @ /\ ~FALSE]
           k == [m EXCEPT !.gstor = g]
           msg == [type |-> "char", p |-> p, inv |-> m.sd[p].inv, quits |-> FALSE]
           saved == Sent(m, [type |-> "save", items |-> m.gstor.items])
           stored == IF m.sd[p].open THEN GuildStorageSave(m, FALSE) ELSE m
<1>1. m.gstor \in GStor /\ m = [gstor |-> m.gstor, sd |-> m.sd, out |-> m.out]
  BY DEF Side
<1>2. g = m.gstor
  BY <1>1 DEF GStor
<1>3. k = m
  BY <1>1, <1>2
<1>4. GuildStorageSave(m, FALSE) = IF m.gstor.loaded /\ m.gstor.dirty THEN saved ELSE m
  <2>1. GuildStorageSave(m, FALSE) = IF ~m.gstor.loaded THEN m
              ELSE IF g.dirty THEN Sent(k, [type |-> "save", items |-> g.items]) ELSE k
    BY DEF GuildStorageSave
  <2> HIDE DEF g, k
  <2> QED BY <1>2, <1>3, <2>1
<1>5. m.gstor.dirty => /\ Honest(saved) /\ saved.gstor = m.gstor /\ saved.sd = m.sd
                       /\ saved = [gstor |-> saved.gstor, sd |-> saved.sd, out |-> saved.out]
                       /\ up => ~Without(saved.out, Stores)
  BY <1>1, SentSave
<1> HIDE DEF g, k, saved
<1>6. /\ Honest(stored) /\ stored.gstor = m.gstor /\ stored.sd = m.sd
      /\ stored = [gstor |-> stored.gstor, sd |-> stored.sd, out |-> stored.out]
      /\ up /\ m.sd[p].open /\ m.gstor.loaded /\ m.gstor.dirty => ~Without(stored.out, Stores)
  BY <1>1, <1>4, <1>5
<1>7. msg \in ToChar /\ msg \notin Loads /\ msg \notin Stores
  BY DEF Side, Sd, ToChar, Loads, Stores
<1>8. ChrifSave(m, p, FALSE) = IF ~up THEN m ELSE Sent(stored, msg)
  BY DEF ChrifSave
<1> HIDE DEF stored, msg
<1>9. LET n == Sent(stored, msg)
      IN  /\ Honest(n) /\ n.gstor = stored.gstor /\ n.sd = stored.sd
          /\ n = [gstor |-> n.gstor, sd |-> n.sd, out |-> n.out]
          /\ ~Without(stored.out, Stores) => ~Without(n.out, Stores)
  BY <1>6, <1>7, SentHonest
<1> QED BY <1>1, <1>6, <1>8, <1>9

\* The storage is closed: n is m with the storage shut, and saved if p had it open and it
\* was open.
Closed(n, m, p) ==
    /\ Honest(n) /\ n.gstor.loaded = m.gstor.loaded /\ n.gstor.dirty = m.gstor.dirty
    /\ n.gstor.items = m.gstor.items /\ (n.gstor.status => m.gstor.status)
    /\ up /\ m.sd[p].open /\ m.gstor.loaded /\ m.gstor.dirty /\ m.gstor.status =>
         ~Without(n.out, Stores)

LEMMA ClosedIs ==
    ASSUME NEW m \in Side, Honest(m), NEW p \in Player
    PROVE  /\ Closed(GuildStorageClose(m, p), m, p)
           /\ Closed(GuildStorageQuit(m, p, FALSE), m, p)
<1> DEFINE n == IF m.gstor.status THEN ChrifSave(m, p, FALSE) ELSE m
           g == [n.gstor EXCEPT !.status = FALSE]
           c == GuildStorageClose(m, p)
           q == GuildStorageQuit(m, p, FALSE)
<1>1. m.gstor \in GStor /\ m = [gstor |-> m.gstor, sd |-> m.sd, out |-> m.out]
  BY DEF Side
<1>2. /\ Honest(n) /\ n.gstor = m.gstor /\ n.sd = m.sd
      /\ n = [gstor |-> n.gstor, sd |-> n.sd, out |-> n.out]
      /\ up /\ m.sd[p].open /\ m.gstor.loaded /\ m.gstor.dirty /\ m.gstor.status => ~Without(n.out, Stores)
  BY <1>1, SaveHonest
<1>3. g \in GStor /\ g.loaded = m.gstor.loaded /\ g.dirty = m.gstor.dirty /\ g.items = m.gstor.items /\ ~g.status
  BY <1>1, <1>2 DEF GStor
<1>4. CASE ~m.gstor.loaded
  <2>1. c = m /\ q = m
    BY <1>4 DEF GuildStorageClose, GuildStorageQuit
  <2> HIDE DEF c, q
  <2>2. Closed(m, m, p)
    BY <1>4 DEF Closed
  <2> QED BY <2>1, <2>2 DEF c, q
<1>5. CASE m.gstor.loaded
  <2>1. c.gstor \in {n.gstor, g} /\ (m.gstor.status => c.gstor = g) /\ c.out = n.out
    <3>1. CASE m.gstor.status
      <4>1. c = [[n EXCEPT !.gstor.status = FALSE] EXCEPT !.sd[p].open = FALSE]
        BY <1>5, <3>1 DEF GuildStorageClose
      <4> HIDE DEF n, c
      <4>2. [n EXCEPT !.gstor.status = FALSE] = [n EXCEPT !.gstor = g]
        BY <1>2
      <4> HIDE DEF g
      <4>3. c.gstor = g /\ c.out = n.out
        BY <1>2, <4>1, <4>2
      <4> QED BY <4>3
    <3>2. CASE ~m.gstor.status
      <4>1. c = [n EXCEPT !.sd[p].open = FALSE]
        BY <1>5, <3>2 DEF GuildStorageClose
      <4> HIDE DEF n, c
      <4>2. c.gstor = n.gstor /\ c.out = n.out
        BY <1>2, <4>1
      <4> QED BY <3>2, <4>2
    <3> QED BY <3>1, <3>2
  <2>2. q.gstor = g /\ q.out = n.out
    <3>1. q = [n EXCEPT !.sd[p].open = FALSE, !.gstor.status = FALSE]
      BY <1>5 DEF GuildStorageQuit
    <3> HIDE DEF n, q
    <3> QED BY <1>2, <3>1
  <2> HIDE DEF n, g, c, q
  <2>3. Honest(c) /\ Honest(q)
    BY <1>2, <1>3, <2>1, <2>2 DEF Honest
  <2> QED BY <1>2, <1>3, <2>1, <2>2, <2>3 DEF Closed, c, q
<1> QED BY <1>4, <1>5 DEF c, q

\* What pc_bound_clear moves is saved with the storage, unless that is what "unsaved" means.
LEMMA ClearSettles ==
    ASSUME IInv, Order, NEW p \in Player, "unsaved" \notin ClearingSlips(p)
    PROVE  Settled(PcBoundClear(Now, p))
<1> DEFINE fits(i) == /\ gstor.loaded /\ sd[p].inv[i] > 0
                      /\ gstor.items[i] + sd[p].inv[i] <= MaxAmount
           into == [i \in Item |-> IF i \in Bound /\ fits(i)
                                   THEN gstor.items[i] + sd[p].inv[i] ELSE gstor.items[i]]
           rest == [i \in Item |-> IF i \in Bound THEN 0 ELSE sd[p].inv[i]]
           g == [gstor EXCEPT !.items = into, !.dirty = @ \/ into # gstor.items]
           d == [sd EXCEPT ![p] = [sd[p] EXCEPT !.inv = rest]]
           moved == [Now EXCEPT !.gstor.items = into, !.gstor.dirty = @ \/ into # Now.gstor.items,
                                !.sd[p].inv = [i \in Item |-> IF i \in Bound THEN 0 ELSE @[i]]]
           left == {i \in Bound : sd[p].inv[i] > 0}
<1>1. /\ gstor \in GStor /\ sd \in [Player -> Sd] /\ sd[p] \in Sd /\ up \in BOOLEAN
      /\ gstor.items \in Bag /\ sd[p].inv \in Bag /\ (gstor.dirty => gstor.loaded)
      /\ Now = [gstor |-> gstor, sd |-> sd, out |-> << >>]
      /\ gstor.dirty \in BOOLEAN /\ gstor.loaded \in BOOLEAN /\ gstor.status \in BOOLEAN
  BY DEF IInv, Shaped, GStor, Sd, Now, Order, MarkedIfLoaded
<1>2. into \in Bag /\ rest \in Bag
  BY <1>1 DEF Bag
<1>3. moved = [gstor |-> g, sd |-> d, out |-> << >>]
  <2>1. moved = [[Now EXCEPT !.gstor = g] EXCEPT !.sd = d]
    BY <1>1 DEF GStor
  <2> HIDE DEF moved, g, d
  <2>2. [Now EXCEPT !.gstor = g] = [gstor |-> g, sd |-> sd, out |-> << >>]
    BY <1>1
  <2> QED BY <2>1, <2>2
<1>4. PcBoundClear(Now, p) = GuildStorageClose(moved, p)
  BY DEF PcBoundClear, Now
<1>5. ~gstor.loaded \/ left = {} => into = gstor.items
  <2>1. ASSUME NEW i \in Item, ~gstor.loaded \/ left = {} PROVE into[i] = gstor.items[i]
    BY <1>1, <2>1
  <2> QED BY <1>1, <1>2, <2>1 DEF Bag
<1>6. ~gstor.loaded \/ (gstor.status /\ sd[p].open) \/ (left = {} /\ ~(gstor.status /\ gstor.dirty))
  BY <1>1 DEF ClearingSlips
<1> HIDE DEF into, rest, left
<1>7. /\ g \in GStor /\ g.loaded = gstor.loaded /\ g.status = gstor.status /\ g.items = into
      /\ g.dirty <=> gstor.dirty \/ into # gstor.items
  BY <1>1, <1>2 DEF GStor
<1>8. d \in [Player -> Sd] /\ d[p].open = sd[p].open
  BY <1>1, <1>2 DEF Sd
<1> HIDE DEF g, d, moved
<1>9. moved \in Side /\ Honest(moved) /\ moved.gstor = g /\ moved.sd = d
  <2>1. << >> \in Seq(Plain) /\ << >> \in Seq(ToChar)
    OBVIOUS
  <2> QED BY <1>3, <1>7, <1>8, <2>1 DEF Side, Honest, Without
<1> DEFINE n == GuildStorageClose(moved, p)
<1>10. Closed(n, moved, p)
  BY <1>9, ClosedIs
<1> HIDE DEF n
<1>11. Honest(n) /\ n.gstor.loaded = g.loaded /\ n.gstor.dirty = g.dirty /\ n.gstor.items = g.items
       /\ (n.gstor.status => g.status)
       /\ (up /\ sd[p].open /\ g.loaded /\ g.dirty /\ g.status => ~Without(n.out, Stores))
  BY <1>8, <1>9, <1>10 DEF Closed
<1>12. Settled(n)
  <2>1. n.gstor.loaded = gstor.loaded /\ (n.gstor.dirty => n.gstor.loaded) /\ (gstor.dirty => n.gstor.dirty)
    BY <1>1, <1>5, <1>7, <1>11
  <2>2. ASSUME n.gstor.loaded, ~n.gstor.dirty \/ (~n.gstor.status /\ up)
        PROVE  \/ ~Without(n.out, Stores)
               \/ n.gstor.items = gstor.items /\ (~gstor.dirty \/ (~gstor.status /\ up))
    BY <1>1, <1>5, <1>6, <1>7, <1>11, <2>1, <2>2
  <2> QED BY <1>11, <2>1, <2>2 DEF Settled
<1> QED BY <1>4, <1>12 DEF n

-----------------------------------------------------------------------------
(* The steps of the map-server. *)

LEMMA SettledIs ==
    ASSUME IInv, Order, NEW n, Honest(n), n.gstor.loaded = gstor.loaded,
           n.gstor.dirty = gstor.dirty, n.gstor.items = gstor.items,
           \/ n.gstor.status /\ n.gstor.dirty
           \/ n.gstor.status = gstor.status
           \/ ~gstor.dirty \/ ~gstor.status
           \/ up => ~Without(n.out, Stores)
    PROVE  Settled(n)
<1>1. gstor \in GStor /\ (gstor.dirty => gstor.loaded) /\ n.gstor \in GStor
  BY DEF IInv, Shaped, Order, MarkedIfLoaded, Honest
<1>2. gstor.status \in BOOLEAN /\ n.gstor.status \in BOOLEAN /\ up \in BOOLEAN
      /\ gstor.dirty \in BOOLEAN /\ gstor.loaded \in BOOLEAN
  BY <1>1 DEF GStor, IInv, Shaped
<1> QED BY <1>1, <1>2 DEF Settled

LEMMA ClosedSettles ==
    ASSUME IInv, Order, NEW p \in Player, sd[p].open \/ ~gstor.status
    PROVE  Settled(GuildStorageClose(Now, p)) /\ Settled(GuildStorageQuit(Now, p, FALSE))
<1>1. Now \in Side /\ Honest(Now) /\ Now.gstor = gstor /\ Now.sd = sd
  BY NowIsSide, NowSettled DEF IInv, Now
<1>2. gstor.dirty => gstor.loaded
  BY DEF Order, MarkedIfLoaded
<1>3. ASSUME NEW n, Closed(n, Now, p)
      PROVE  Settled(n)
  BY <1>1, <1>2, <1>3, SettledIs DEF Closed
<1>4. /\ Closed(GuildStorageClose(Now, p), Now, p)
      /\ Closed(GuildStorageQuit(Now, p, FALSE), Now, p)
  BY <1>1, ClosedIs
<1> QED BY <1>3, <1>4

LEMMA SettledDoes ==
    ASSUME IInv, Order, NEW n, Settled(n), Does(n),
           toMap' = toMap \/ (FromChar("withdraw") /\ toMap' = Tail(toMap)),
           UNCHANGED <<CharSide, Fixed>>, "early" \in slips' <=> "early" \in slips
    PROVE  Order'
<1>1. FromChar("withdraw") => toMap # << >> /\ Head(toMap) \notin Rows
  BY DEF FromChar, Rows
<1> QED BY <1>1, Settling DEF Does, CharSide, Fixed

-----------------------------------------------------------------------------
(* What the functions of the map-server send and leave.  Who is saved is on the map. *)

Attend(s) == \A i \in DOMAIN s : s[i].type = "char" => sd[s[i].p].online

There(n, m, q) == n.sd[q].online = m.sd[q].online /\ n.sd[q].waiting = m.sd[q].waiting

\* n is m with messages more, and neither items moved nor anybody online gone.
Same(n, m) ==
    /\ n \in Side /\ Attend(n.out) /\ n.gstor.items = m.gstor.items
    /\ \A q \in Player : n.sd[q].inv = m.sd[q].inv /\ There(n, m, q)

LEMMA SentAttends ==
    ASSUME NEW m \in Side, Attend(m.out), NEW msg \in Plain,
           msg.type = "char" => sd[msg.p].online
    PROVE  Same(Sent(m, msg), m)
<1>1. Sent(m, msg) \in Side /\ Sent(m, msg).gstor = m.gstor /\ Sent(m, msg).sd = m.sd
  BY SentSide
<1>2. CASE up
  <2>1. m.out \in Seq(Plain) /\ Sent(m, msg) = [m EXCEPT !.out = Append(m.out, msg)]
    BY <1>2 DEF Sent, Side
  <2>2. Sent(m, msg).out = Append(m.out, msg)
    BY <2>1 DEF Side
  <2>3. Attend(Append(m.out, msg))
    <3>1. \A i \in DOMAIN Append(m.out, msg) :
             \/ i \in DOMAIN m.out /\ Append(m.out, msg)[i] = m.out[i]
             \/ Append(m.out, msg)[i] = msg
      BY <2>1
    <3> QED BY <3>1 DEF Attend
  <2> QED BY <1>1, <2>2, <2>3 DEF Same, There
<1>3. CASE ~up
  <2>1. Sent(m, msg) = m
    BY <1>3 DEF Sent
  <2> QED BY <2>1 DEF Same, There
<1> QED BY <1>2, <1>3

LEMMA SaveAttends ==
    ASSUME NEW m \in Side, Attend(m.out), NEW p \in Player, sd[p].online
    PROVE  Same(ChrifSave(m, p, FALSE), m)
<1> DEFINE g == [m.gstor EXCEPT !.status = @ /\ ~FALSE]
           k == [m EXCEPT !.gstor = g]
           save == [type |-> "save", items |-> g.items]
           msg == [type |-> "char", p |-> p, inv |-> m.sd[p].inv, quits |-> FALSE]
           stored == IF m.sd[p].open THEN GuildStorageSave(m, FALSE) ELSE m
<1>1. m.gstor \in GStor /\ m = [gstor |-> m.gstor, sd |-> m.sd, out |-> m.out]
  BY DEF Side
<1>2. g = m.gstor
  BY <1>1 DEF GStor
<1>3. k = m
  BY <1>1, <1>2
<1>4. save \in Plain /\ save.type # "char"
  BY <1>1, <1>2 DEF Plain, ToChar, GStor
<1>5. GuildStorageSave(m, FALSE) \in {m, Sent(m, save)}
  <2>1. GuildStorageSave(m, FALSE) = IF ~m.gstor.loaded THEN m
              ELSE IF g.dirty THEN Sent(k, save) ELSE k
    BY DEF GuildStorageSave
  <2> HIDE DEF g, k, save
  <2> QED BY <1>3, <2>1
<1> HIDE DEF save
<1>6. Same(m, m)
  BY DEF Same, There
<1>7. Same(stored, m)
  <2>1. Same(Sent(m, save), m)
    BY <1>4, SentAttends
  <2> QED BY <1>5, <1>6, <2>1
<1>8. msg \in Plain /\ msg.p = p
  BY DEF Side, Sd, Plain, ToChar
<1>9. ChrifSave(m, p, FALSE) = IF ~up THEN m ELSE Sent(stored, msg)
  BY DEF ChrifSave
<1> HIDE DEF stored, msg
<1>10. Same(Sent(stored, msg), stored)
  BY <1>7, <1>8, SentAttends DEF Same, There
<1> QED BY <1>6, <1>7, <1>9, <1>10 DEF Same, There

LEMMA CloseAttends ==
    ASSUME NEW m \in Side, Attend(m.out), NEW p \in Player, sd[p].online
    PROVE  Same(GuildStorageClose(m, p), m) /\ Same(GuildStorageQuit(m, p, FALSE), m)
<1> DEFINE n == IF m.gstor.status THEN ChrifSave(m, p, FALSE) ELSE m
           g == [n.gstor EXCEPT !.status = FALSE]
           d == [n.sd EXCEPT ![p] = [n.sd[p] EXCEPT !.open = FALSE]]
           c == GuildStorageClose(m, p)
           q == GuildStorageQuit(m, p, FALSE)
<1>1. Same(m, m)
  BY DEF Same, There
<1>2. Same(n, m)
  BY <1>1, SaveAttends
<1>3. CASE ~m.gstor.loaded
  BY <1>1, <1>3 DEF GuildStorageClose, GuildStorageQuit
<1>4. CASE m.gstor.loaded
  <2>1. c = [n EXCEPT !.gstor = g, !.sd = d] \/ c = [n EXCEPT !.sd = d]
    <3>1. CASE m.gstor.status
      <4>1. c = [[n EXCEPT !.gstor.status = FALSE] EXCEPT !.sd[p].open = FALSE]
        BY <1>4, <3>1 DEF GuildStorageClose
      <4> HIDE DEF n, c
      <4> QED BY <1>2, <4>1 DEF Same, Side
    <3>2. CASE ~m.gstor.status
      <4>1. c = [n EXCEPT !.sd[p].open = FALSE]
        BY <1>4, <3>2 DEF GuildStorageClose
      <4> HIDE DEF n, c
      <4> QED BY <1>2, <4>1 DEF Same, Side
    <3> QED BY <3>1, <3>2
  <2>2. q = [n EXCEPT !.gstor = g, !.sd = d]
    <3>1. q = [n EXCEPT !.sd[p].open = FALSE, !.gstor.status = FALSE]
      BY <1>4 DEF GuildStorageQuit
    <3> HIDE DEF n, q
    <3> QED BY <1>2, <3>1 DEF Same, Side
  <2> HIDE DEF n, c, q
  <2>3. n \in Side /\ n.gstor \in GStor /\ n.sd \in [Player -> Sd] /\ n.sd[p] \in Sd
    BY <1>2 DEF Same, Side
  <2>4. g \in GStor /\ g.items = n.gstor.items
    BY <2>3 DEF GStor
  <2>5. /\ d \in [Player -> Sd]
        /\ \A r \in Player : /\ d[r].inv = n.sd[r].inv /\ d[r].online = n.sd[r].online
                             /\ d[r].waiting = n.sd[r].waiting
    BY <2>3 DEF Sd
  <2> HIDE DEF g, d
  <2>6. Same([n EXCEPT !.gstor = g, !.sd = d], m)
    <3> DEFINE k == [n EXCEPT !.gstor = g, !.sd = d]
    <3>1. k \in Side /\ k.gstor = g /\ k.sd = d /\ k.out = n.out
      BY <2>3, <2>4, <2>5 DEF Side
    <3> HIDE DEF k
    <3>2. Same(k, m)
      BY <1>2, <2>4, <2>5, <3>1 DEF Same, There
    <3> QED BY <3>2 DEF k
  <2>7. Same([n EXCEPT !.sd = d], m)
    <3> DEFINE k == [n EXCEPT !.sd = d]
    <3>1. k \in Side /\ k.gstor = n.gstor /\ k.sd = d /\ k.out = n.out
      BY <2>3, <2>5 DEF Side
    <3> HIDE DEF k
    <3>2. Same(k, m)
      BY <1>2, <2>5, <3>1 DEF Same, There
    <3> QED BY <3>2 DEF k
  <2> QED BY <2>1, <2>2, <2>6, <2>7 DEF c, q
<1> QED BY <1>3, <1>4

LEMMA NowAttends ==
    ASSUME IInv
    PROVE  Now \in Side /\ Attend(Now.out) /\ Now.gstor = gstor /\ Now.sd = sd
<1>1. Now \in Side
  BY NowIsSide DEF IInv
<1>2. Attend(<< >>)
  BY DEF Attend
<1> QED BY <1>1, <1>2 DEF Now

LEMMA RequestAttends ==
    ASSUME IInv, NEW p \in Player
    PROVE  Same(ItemboundReq(Now, p), Now)
<1> DEFINE openers == {q \in Player : Now.sd[q].online /\ Now.sd[q].guild /\ Now.sd[q].open}
           r == CHOOSE q \in openers : TRUE
           shut == IF Now.gstor.status /\ openers # {} THEN GuildStorageClose(Now, r) ELSE Now
           g == [shut.gstor EXCEPT !.lock = Now.gstor.loaded]
           lock == [shut EXCEPT !.gstor.lock = Now.gstor.loaded]
           msg == [type |-> "retrieve", p |-> p]
           n == ItemboundReq(Now, p)
<1>1. Now \in Side /\ Attend(Now.out) /\ Now.gstor = gstor /\ Now.sd = sd /\ gstor \in GStor
  BY NowAttends DEF IInv, Shaped
<1>2. n = Sent(lock, msg)
  BY DEF ItemboundReq
<1>3. Same(shut, Now)
  <2>1. CASE Now.gstor.status /\ openers # {}
    <3>1. r \in openers
      BY <2>1
    <3>2. r \in Player /\ sd[r].online
      BY <1>1, <3>1
    <3>3. shut = GuildStorageClose(Now, r)
      BY <2>1
    <3> HIDE DEF r, shut
    <3> QED BY <1>1, <3>2, <3>3, CloseAttends
  <2>2. CASE ~(Now.gstor.status /\ openers # {})
    BY <1>1, <2>2 DEF Same, There
  <2> QED BY <2>1, <2>2
<1> HIDE DEF shut, n
<1>4. g \in GStor /\ g.items = shut.gstor.items
  BY <1>1, <1>3 DEF Same, Side, GStor
<1>5. lock = [shut EXCEPT !.gstor = g]
  BY <1>3 DEF Same, Side
<1> HIDE DEF g
<1>6. lock \in Side /\ lock.gstor = g /\ lock.sd = shut.sd /\ lock.out = shut.out
  BY <1>3, <1>4, <1>5 DEF Same, Side
<1> HIDE DEF lock
<1>7. msg \in Plain /\ msg.type # "char"
  BY DEF ToChar, Plain
<1> HIDE DEF msg
<1>8. Same(n, lock)
  BY <1>2, <1>3, <1>6, <1>7, SentAttends DEF Same, There
<1>9. Same(n, Now)
  BY <1>3, <1>4, <1>6, <1>8 DEF Same, There
<1> QED BY <1>9 DEF n

\* What pc_bound_clear does.
LEMMA ClearAttends ==
    ASSUME IInv, NEW p \in Player, sd[p].online
    PROVE  LET n == PcBoundClear(Now, p)
           IN  /\ n \in Side /\ Attend(n.out)
               /\ \A q \in Player \ {p} : n.sd[q].inv = sd[q].inv
               /\ n.sd[p].inv = [i \in Item |-> IF i \in Bound THEN 0 ELSE sd[p].inv[i]]
               /\ n.gstor.items =
                    [i \in Item |-> IF /\ i \in Bound
                                       /\ gstor.loaded /\ sd[p].inv[i] > 0
                                       /\ gstor.items[i] + sd[p].inv[i] <= MaxAmount
                                    THEN gstor.items[i] + sd[p].inv[i] ELSE gstor.items[i]]
               /\ n.gstor.loaded = gstor.loaded /\ \A q \in Player : There(n, Now, q)
<1> DEFINE fits(i) == /\ gstor.loaded /\ sd[p].inv[i] > 0
                      /\ gstor.items[i] + sd[p].inv[i] <= MaxAmount
           into == [i \in Item |-> IF i \in Bound /\ fits(i)
                                   THEN gstor.items[i] + sd[p].inv[i] ELSE gstor.items[i]]
           rest == [i \in Item |-> IF i \in Bound THEN 0 ELSE sd[p].inv[i]]
           g == [gstor EXCEPT !.items = into, !.dirty = @ \/ into # gstor.items]
           d == [sd EXCEPT ![p] = [sd[p] EXCEPT !.inv = rest]]
           moved == [Now EXCEPT !.gstor.items = into, !.gstor.dirty = @ \/ into # Now.gstor.items,
                                !.sd[p].inv = [i \in Item |-> IF i \in Bound THEN 0 ELSE @[i]]]
<1>1. /\ gstor \in GStor /\ sd \in [Player -> Sd] /\ sd[p] \in Sd
      /\ gstor.items \in Bag /\ sd[p].inv \in Bag
      /\ Now = [gstor |-> gstor, sd |-> sd, out |-> << >>]
  BY DEF IInv, Shaped, GStor, Sd, Now
<1>2. into \in Bag /\ rest \in Bag
  BY <1>1 DEF Bag
<1>3. moved = [gstor |-> g, sd |-> d, out |-> << >>]
  <2>1. moved = [[Now EXCEPT !.gstor = g] EXCEPT !.sd = d]
    BY <1>1 DEF GStor
  <2> HIDE DEF moved, g, d
  <2>2. [Now EXCEPT !.gstor = g] = [gstor |-> g, sd |-> sd, out |-> << >>]
    BY <1>1
  <2> QED BY <2>1, <2>2
<1>4. PcBoundClear(Now, p) = GuildStorageClose(moved, p)
  BY DEF PcBoundClear, Now
<1> HIDE DEF into, rest
<1>5. g \in GStor /\ g.loaded = gstor.loaded /\ g.items = into
  BY <1>1, <1>2 DEF GStor
<1>6. /\ d \in [Player -> Sd] /\ d[p].inv = rest /\ \A q \in Player \ {p} : d[q] = sd[q]
      /\ d[p].online = sd[p].online /\ d[p].waiting = sd[p].waiting
  BY <1>1, <1>2 DEF Sd
<1> HIDE DEF g, d, moved
<1>7. moved \in Side /\ Attend(moved.out) /\ moved.gstor = g /\ moved.sd = d
  <2>1. << >> \in Seq(Plain) /\ Attend(<< >>)
    BY DEF Attend
  <2> QED BY <1>3, <1>5, <1>6, <2>1 DEF Side
<1> DEFINE n == GuildStorageClose(moved, p)
<1>8. Same(n, moved) /\ n.gstor.loaded = moved.gstor.loaded
  BY <1>7, CloseAttends, CloseShuts DEF Shut, Calm
<1> HIDE DEF n
<1>9. /\ n \in Side /\ Attend(n.out)
      /\ \A q \in Player \ {p} : n.sd[q].inv = sd[q].inv
      /\ n.sd[p].inv = rest /\ n.gstor.items = into /\ n.gstor.loaded = gstor.loaded
      /\ \A q \in Player : There(n, Now, q)
  BY <1>1, <1>5, <1>6, <1>7, <1>8 DEF Same, There
<1> QED BY <1>4, <1>9 DEF n, rest, into

\* Handlers that leave the copy as it is and send nothing.
LEMMA Idle ==
    ASSUME IInv, Order, gstor' \in GStor, gstor'.loaded = gstor.loaded,
           gstor'.dirty = gstor.dirty, gstor'.status = gstor.status, gstor'.items = gstor.items,
           toMap # << >>, toMap' = Tail(toMap), Head(toMap) \notin Rows,
           toChar' = toChar, db' = db, up' = up, slips' = slips
    PROVE  Order'
<1> DEFINE n == [gstor |-> gstor', sd |-> sd, out |-> << >>]
<1>1. n.gstor = gstor' /\ n.out = << >> /\ n.out \in Seq(ToChar)
  OBVIOUS
<1> HIDE DEF n
<1>2. Honest(n)
  BY <1>1 DEF Honest, Without
<1>3. Settled(n)
  BY <1>1, <1>2, SettledIs
<1>4. toChar' = toChar \o n.out
  BY <1>1 DEF IInv, Shaped
<1> QED BY <1>1, <1>3, <1>4, Settling

LEMMA OrderOpen ==
    ASSUME IInv, Order, NEW p \in Player, GuildStorageOpen(p)
    PROVE  Order'
<1>1. /\ gstor \in GStor /\ sd \in [Player -> Sd] /\ toChar \in Seq(ToChar) /\ up \in BOOLEAN
      /\ Now = [gstor |-> gstor, sd |-> sd, out |-> << >>]
  BY DEF IInv, Shaped, Now
<1>2. CASE ~gstor.loaded
  <2> DEFINE msg == [type |-> "load", p |-> p]
  <2>1. Does(Sent(Now, msg)) /\ UNCHANGED <<CharSide, toMap, Fixed, slips>>
    BY <1>2 DEF GuildStorageOpen
  <2>2. msg \in ToChar /\ msg \in Loads /\ msg \notin Stores
    BY DEF ToChar, Loads, Stores
  <2> HIDE DEF msg
  <2>3. Sent(Now, msg) = [gstor |-> gstor, sd |-> sd, out |-> IF up THEN <<msg>> ELSE << >>]
    BY <1>1 DEF Sent
  <2>4. gstor' = gstor /\ toChar' = toChar \o (IF up THEN <<msg>> ELSE << >>)
    BY <2>1, <2>3 DEF Does
  <2>5. ~gstor.dirty /\ "early" \notin slips
    BY <1>2 DEF Order, MarkedIfLoaded
  <2>6. Without(toChar, Stores) /\ Without(toMap, Acks)
    BY <2>5 DEF Order, UnmarkedSendsNone
  <2>7. Without(toChar', Stores)
    <3> DEFINE more == IF up THEN <<msg>> ELSE << >>
    <3>1. <<msg>> \in Seq(ToChar) /\ Without(<<msg>>, Stores) /\ << >> \in Seq(ToChar) /\ Without(<< >>, Stores)
      BY <2>2, Ones
    <3>2. more \in Seq(ToChar) /\ Without(more, Stores)
      BY <3>1
    <3> HIDE DEF more
    <3>3. Without(toChar \o more, Stores)
      BY <1>1, <2>6, <3>2, Cats
    <3> QED BY <2>4, <3>3 DEF more
  <2>8. NoneBefore(toChar', Stores, Loads)
    BY <2>7 DEF Without, NoneBefore
  <2> QED BY <1>2, <2>1, <2>4, <2>5, <2>6, <2>7, <2>8, OrderNext
          DEF Order, LoadsFirst, StoragesAre, CharSide, Fixed
<1>3. CASE gstor.loaded
  <2> DEFINE k == [Now EXCEPT !.gstor.status = TRUE, !.sd[p].open = TRUE]
             g == [gstor EXCEPT !.status = TRUE]
  <2>1. Does(k) /\ UNCHANGED <<CharSide, toMap, Fixed, slips>>
    BY <1>3 DEF GuildStorageOpen
  <2>2. g \in GStor /\ g.loaded = gstor.loaded /\ g.dirty = gstor.dirty /\ g.items = gstor.items /\ g.status
    BY <1>1 DEF GStor
  <2>3. k.gstor = g /\ k.out = << >>
    BY <1>1
  <2> HIDE DEF k, g
  <2>4. Honest(k)
    <3>1. << >> \in Seq(ToChar)
      OBVIOUS
    <3> QED BY <2>2, <2>3, <3>1 DEF Honest, Without
  <2>5. Settled(k)
    BY <1>1, <2>2, <2>3, <2>4, SettledIs DEF GStor
  <2> QED BY <2>1, <2>5, SettledDoes
<1> QED BY <1>2, <1>3

LEMMA OrderMove ==
    ASSUME IInv, Order, NEW p \in Player, NEW i \in Item, NEW x \in Nat, NEW y \in Nat, Usable(p),
           Does([Now EXCEPT !.gstor.items[i] = x, !.gstor.dirty = TRUE, !.sd[p].inv[i] = y]),
           UNCHANGED <<CharSide, known, toMap, Fixed, slips>>
    PROVE  Order'
<1> DEFINE g == [gstor EXCEPT !.items = [gstor.items EXCEPT ![i] = x], !.dirty = TRUE]
           k == [Now EXCEPT !.gstor.items[i] = x, !.gstor.dirty = TRUE, !.sd[p].inv[i] = y]
<1>1. gstor \in GStor /\ gstor.items \in Bag /\ Now = [gstor |-> gstor, sd |-> sd, out |-> << >>]
  BY DEF IInv, Shaped, Now, GStor
<1>2. [gstor.items EXCEPT ![i] = x] \in Bag
  BY <1>1 DEF Bag
<1>3. g \in GStor /\ g.loaded = gstor.loaded /\ g.status = gstor.status /\ g.dirty
  BY <1>1, <1>2 DEF GStor
<1>4. k.gstor = g /\ k.out = << >>
  BY <1>1 DEF GStor
<1>5. Does(k)
  OBVIOUS
<1> HIDE DEF g, k
<1>6. Honest(k)
  <2>1. << >> \in Seq(ToChar)
    OBVIOUS
  <2> QED BY <1>3, <1>4, <2>1 DEF Honest, Without
<1>7. Settled(k)
  BY <1>3, <1>4, <1>6 DEF Settled, Usable
<1> QED BY <1>5, <1>7, SettledDoes

LEMMA OrderAdd ==
    ASSUME IInv, Order, NEW p \in Player, NEW i \in Item, NEW cart \in BOOLEAN,
           GuildStorageAdd(p, i, cart)
    PROVE  Order'
<1>1. CASE gstor.lock /\ ~cart
  BY <1>1, ClosedSettles, SettledDoes DEF GuildStorageAdd, Usable
<1>2. CASE ~(gstor.lock /\ ~cart)
  <2>1. gstor.items[i] \in Nat /\ sd[p].inv[i] \in Nat /\ sd[p].inv[i] > 0
    BY DEF GuildStorageAdd, IInv, Shaped, GStor, Sd, Bag
  <2>2. Does([Now EXCEPT !.gstor.items[i] = gstor.items[i] + 1, !.gstor.dirty = TRUE,
                         !.sd[p].inv[i] = sd[p].inv[i] - 1])
    BY <1>2 DEF GuildStorageAdd, Now
  <2>3. gstor.items[i] + 1 \in Nat /\ sd[p].inv[i] - 1 \in Nat
    BY <2>1
  <2> QED BY <2>2, <2>3, OrderMove DEF GuildStorageAdd
<1> QED BY <1>1, <1>2

LEMMA OrderGet ==
    ASSUME IInv, Order, NEW p \in Player, NEW i \in Item, NEW cart \in BOOLEAN,
           GuildStorageGet(p, i, cart)
    PROVE  Order'
<1>1. CASE gstor.lock /\ ~cart
  BY <1>1, ClosedSettles, SettledDoes DEF GuildStorageGet, Usable
<1>2. CASE ~(gstor.lock /\ ~cart)
  <2>1. gstor.items[i] \in Nat /\ sd[p].inv[i] \in Nat /\ gstor.items[i] > 0
    BY DEF GuildStorageGet, IInv, Shaped, GStor, Sd, Bag
  <2>2. Does([Now EXCEPT !.gstor.items[i] = gstor.items[i] - 1, !.gstor.dirty = TRUE,
                         !.sd[p].inv[i] = sd[p].inv[i] + 1])
    BY <1>2 DEF GuildStorageGet, Now
  <2>3. gstor.items[i] - 1 \in Nat /\ sd[p].inv[i] + 1 \in Nat
    BY <2>1
  <2> QED BY <2>2, <2>3, OrderMove DEF GuildStorageGet
<1> QED BY <1>1, <1>2

LEMMA OrderClose ==
    ASSUME IInv, Order, NEW p \in Player, CloseStorage(p)
    PROVE  Order'
BY ClosedSettles, SettledDoes DEF CloseStorage

LEMMA OrderAutoSave ==
    ASSUME IInv, Order, NEW p \in Player, AutoSave(p)
    PROVE  Order'
<1>1. Now \in Side /\ Honest(Now) /\ Now.gstor = gstor
  BY NowIsSide, NowSettled DEF IInv, Now
<1>2. Honest(ChrifSave(Now, p, FALSE)) /\ ChrifSave(Now, p, FALSE).gstor = gstor
  BY <1>1, SaveHonest
<1>3. Settled(ChrifSave(Now, p, FALSE))
  BY <1>2, SettledIs
<1> QED BY <1>3, SettledDoes DEF AutoSave

LastSave(p) == [type |-> "char", p |-> p, inv |-> sd[p].inv, quits |-> TRUE]

\* Who quits leaves the storage closed and saved, and is saved then, for the last time.
LEMMA QuitSettles ==
    ASSUME IInv, Order, NEW p \in Player, MapQuit(p)
    PROVE  \E n, more :
              /\ Settled(n) /\ Does(n) /\ n.gstor.items = gstor.items
              /\ \A q \in Player \ {p} : There(n, Now, q) /\ n.sd[q].inv = sd[q].inv
              /\ ~n.sd[p].online /\ n.sd[p].waiting /\ n.sd[p].inv = sd[p].inv
              /\ more \in Seq(Plain) /\ Attend(more) /\ LastSave(p) \in ToChar
              /\ ~up => more = << >>
              /\ n.out = IF up THEN more \o <<LastSave(p)>> ELSE more
<1> DEFINE quit == GuildStorageQuit(Now, p, FALSE)
           shut == [quit EXCEPT !.sd[p].open = FALSE]
           left == IF sd[p].open THEN shut ELSE Now
           saved == ChrifSave(left, p, TRUE)
           msg == [type |-> "char", p |-> p, inv |-> left.sd[p].inv, quits |-> TRUE]
           gone == [saved EXCEPT !.sd[p].online = FALSE]
<1>1. Now \in Side /\ Attend(Now.out) /\ Now.gstor = gstor /\ Now.sd = sd /\ Settled(Now) /\ sd \in [Player -> Sd]
      /\ sd[p].online
  BY NowAttends, NowSettled DEF IInv, Shaped, MapQuit
<1>2. Same(left, Now) /\ ~left.sd[p].open /\ Settled(left) /\ (~up => left.out = << >>)
  <2>1. CASE sd[p].open
    <3> DEFINE d == [quit.sd EXCEPT ![p] = [quit.sd[p] EXCEPT !.open = FALSE]]
    <3>1. Same(quit, Now) /\ (~up => quit.out = << >>)
      <4>1. Same(quit, Now)
        BY <1>1, CloseAttends
      <4>2. Calm(quit, Now)
        BY <1>1, QuitShuts DEF Shut
      <4> HIDE DEF quit
      <4> QED BY <4>1, <4>2 DEF Calm, Now
    <3>2. Settled(quit)
      BY <2>1, ClosedSettles
    <3> HIDE DEF quit
    <3>3. quit.sd \in [Player -> Sd] /\ quit.sd[p] \in Sd
          /\ quit = [gstor |-> quit.gstor, sd |-> quit.sd, out |-> quit.out]
      BY <3>1 DEF Same, Side
    <3>4. /\ d \in [Player -> Sd] /\ ~d[p].open
          /\ \A q \in Player : /\ d[q].inv = quit.sd[q].inv /\ d[q].online = quit.sd[q].online
                               /\ d[q].waiting = quit.sd[q].waiting
      BY <3>3 DEF Sd
    <3>5. shut = [quit EXCEPT !.sd = d]
      BY <3>3
    <3> HIDE DEF d, shut
    <3>6. shut = [gstor |-> quit.gstor, sd |-> d, out |-> quit.out]
      BY <3>3, <3>5
    <3>7. shut \in Side /\ shut.gstor = quit.gstor /\ shut.sd = d /\ shut.out = quit.out
      BY <3>1, <3>4, <3>6 DEF Same, Side
    <3>8. Settled(shut)
      BY <3>2, <3>7 DEF Settled, Honest
    <3>9. Same(shut, Now)
      BY <3>1, <3>4, <3>7 DEF Same, There
    <3> QED BY <2>1, <3>1, <3>4, <3>7, <3>8, <3>9
  <2>2. CASE ~sd[p].open
    BY <1>1, <2>2 DEF Same, There, Now
  <2> QED BY <2>1, <2>2
<1>3. Does(gone)
  BY DEF MapQuit
<1> HIDE DEF left
<1>4. /\ saved.gstor = left.gstor /\ saved.sd \in [Player -> Sd]
      /\ \A q \in Player \ {p} : saved.sd[q] = left.sd[q]
      /\ saved.sd[p].waiting /\ saved.sd[p].inv = left.sd[p].inv
      /\ saved = [gstor |-> saved.gstor, sd |-> saved.sd, out |-> saved.out]
      /\ msg \in ToChar /\ saved.out = IF up THEN Append(left.out, msg) ELSE left.out
  <2>1. left \in Side /\ ~left.sd[p].open
    BY <1>2 DEF Same
  <2> QED BY <2>1, SaveLast
<1>5. msg = LastSave(p)
  BY <1>1, <1>2 DEF Same, LastSave
<1> HIDE DEF saved, msg
<1> DEFINE d == [saved.sd EXCEPT ![p] = [saved.sd[p] EXCEPT !.online = FALSE]]
<1>6. gone = [gstor |-> saved.gstor, sd |-> d, out |-> saved.out]
  <2>1. gone = [saved EXCEPT !.sd = d]
    BY <1>4
  <2> HIDE DEF gone, d
  <2> QED BY <1>4, <2>1
<1>7. /\ ~d[p].online /\ d[p].waiting /\ d[p].inv = saved.sd[p].inv
      /\ \A q \in Player \ {p} : d[q] = saved.sd[q]
  BY <1>4 DEF Sd
<1>8. left.out \in Seq(Plain) /\ left.out \in Seq(ToChar) /\ <<LastSave(p)>> \in Seq(ToChar)
  BY <1>2, <1>4, <1>5 DEF Same, Side, Plain
<1>9. gone.gstor = left.gstor /\ gone.sd = d /\ gone.out = IF up THEN left.out \o <<LastSave(p)>> ELSE left.out
  <2>1. Append(left.out, msg) = left.out \o <<LastSave(p)>>
    BY <1>4, <1>5, <1>8, AppendIsConcat
  <2> HIDE DEF d, gone
  <2> QED BY <1>4, <1>6, <2>1
<1> HIDE DEF gone, d
<1>10. LastSave(p) \notin Loads /\ LastSave(p) \notin Stores
  BY DEF LastSave, Loads, Stores
<1>11. Honest(gone) /\ (~Without(left.out, Stores) => ~Without(gone.out, Stores))
  <2> DEFINE more == left.out \o <<LastSave(p)>>
  <2>1. Honest(left)
    BY <1>2 DEF Settled
  <2>2. /\ more \in Seq(ToChar) /\ Without(more, Loads)
        /\ (~Without(left.out, Stores) => ~Without(more, Stores))
    <3>1. Without(left.out, Loads) /\ Without(<<LastSave(p)>>, Loads)
      BY <1>10, <2>1, Ones DEF Honest
    <3>2. left.out \o <<LastSave(p)>> \in Seq(ToChar)
      BY <1>8, CatOf
    <3>3. Without(left.out \o <<LastSave(p)>>, Loads)
      BY <1>8, <3>1, Cats
    <3>4. ~Without(left.out, Stores) => ~Without(left.out \o <<LastSave(p)>>, Stores)
      BY <1>8, CatsMore
    <3> QED BY <3>2, <3>3, <3>4
  <2>3. \A i \in DOMAIN more : more[i] \in Stores => left.gstor.dirty /\ more[i].items = left.gstor.items
    BY <1>8, <1>10, <2>1, CatOf DEF Honest
  <2> HIDE DEF more
  <2>4. up \in BOOLEAN /\ gone.out \in {left.out, more}
    BY <1>9 DEF IInv, Shaped, more
  <2> QED BY <1>9, <2>1, <2>2, <2>3, <2>4 DEF Honest
<1>12. Settled(gone)
  BY <1>2, <1>9, <1>11 DEF Settled
<1>13. /\ gone.gstor.items = gstor.items
       /\ \A q \in Player \ {p} : There(gone, Now, q) /\ gone.sd[q].inv = sd[q].inv
       /\ ~gone.sd[p].online /\ gone.sd[p].waiting /\ gone.sd[p].inv = sd[p].inv
  BY <1>1, <1>2, <1>4, <1>7, <1>9 DEF Same, There
<1>14. left.out \in Seq(Plain) /\ Attend(left.out) /\ LastSave(p) \in ToChar
  BY <1>2, <1>4, <1>5, <1>8 DEF Same
<1> QED BY <1>2, <1>3, <1>9, <1>12, <1>13, <1>14

LEMMA OrderQuit ==
    ASSUME IInv, Order, NEW p \in Player, MapQuit(p)
    PROVE  Order'
<1>1. PICK n : Settled(n) /\ Does(n)
  BY QuitSettles
<1>2. UNCHANGED <<CharSide, known, toMap, Fixed, slips>>
  BY DEF MapQuit
<1> QED BY <1>1, <1>2, SettledDoes

LEMMA OrderGuildBreak ==
    ASSUME IInv, Order, NEW p \in Player, GuildBreak(p), Undisturbed'
    PROVE  Order'
<1> DEFINE left == PcBoundClear(Now, p)
           k == Sent(left, [type |-> "break"])
<1>1. left \in Side
  <2>1. Shut(left, Now, p)
    BY ClearShuts, NowIsSide DEF IInv
  <2> QED BY <2>1 DEF Shut, Calm
<1>2. Does(k) /\ UNCHANGED <<CharSide, known, toMap, Fixed>>
  BY DEF GuildBreak
<1>3. slips' = slips \union ClearingSlips(p)
  BY DEF GuildBreak, Slipped
<1>4. "unsaved" \notin ClearingSlips(p) /\ ("early" \in slips' <=> "early" \in slips)
  BY <1>3 DEF Undisturbed, ClearingSlips
<1>5. Settled(left)
  BY <1>4, ClearSettles
<1> HIDE DEF left
<1>6. [type |-> "break"] \in ToChar /\ [type |-> "break"] \notin Loads /\ [type |-> "break"] \notin Stores
  BY DEF ToChar, Loads, Stores
<1>7. left = [gstor |-> left.gstor, sd |-> left.sd, out |-> left.out] /\ Honest(left)
  BY <1>1, <1>5 DEF Side, Settled
<1>8. Honest(k) /\ k.gstor = left.gstor /\ (~Without(left.out, Stores) => ~Without(k.out, Stores))
  BY <1>6, <1>7, SentHonest
<1> HIDE DEF k
<1>9. Settled(k)
  BY <1>5, <1>8 DEF Settled
<1> QED BY <1>2, <1>4, <1>9, SettledDoes

LEMMA RequestSettles ==
    ASSUME IInv, Order, NEW p \in Player
    PROVE  Settled(ItemboundReq(Now, p)) /\ ItemboundReq(Now, p) \in Side
<1> DEFINE openers == {q \in Player : Now.sd[q].online /\ Now.sd[q].guild /\ Now.sd[q].open}
           r == CHOOSE q \in openers : TRUE
           shut == IF Now.gstor.status /\ openers # {} THEN GuildStorageClose(Now, r) ELSE Now
           g == [shut.gstor EXCEPT !.lock = gstor.loaded]
           lock == [shut EXCEPT !.gstor.lock = Now.gstor.loaded]
           msg == [type |-> "retrieve", p |-> p]
           n == ItemboundReq(Now, p)
<1>1. /\ Shaped /\ Holders /\ Now \in Side /\ Settled(Now)
      /\ Now.gstor = gstor /\ Now.sd = sd /\ gstor \in GStor
  BY NowIsSide, NowSettled DEF IInv, Now, Shaped
<1>2. n = Sent(lock, msg)
  BY DEF ItemboundReq
<1>3. shut \in Side /\ Settled(shut)
  <2>1. CASE Now.gstor.status /\ openers # {}
    <3>1. r \in openers
      BY <2>1
    <3>2. r \in Player /\ sd[r].open
      BY <1>1, <3>1
    <3>3. shut = GuildStorageClose(Now, r)
      BY <2>1
    <3> HIDE DEF r, shut
    <3>4. Settled(shut)
      BY <3>2, <3>3, ClosedSettles
    <3>5. shut \in Side
      BY <1>1, <3>2, <3>3, CloseShuts DEF Shut, Calm
    <3> QED BY <3>4, <3>5
  <2>2. CASE ~(Now.gstor.status /\ openers # {})
    BY <1>1, <2>2
  <2> QED BY <2>1, <2>2
<1> HIDE DEF shut, n
<1>4. /\ g \in GStor /\ g.loaded = shut.gstor.loaded /\ g.dirty = shut.gstor.dirty
      /\ g.status = shut.gstor.status /\ g.items = shut.gstor.items
  BY <1>1, <1>3 DEF Side, GStor
<1>5. lock = [shut EXCEPT !.gstor = g]
  BY <1>1
<1> HIDE DEF g
<1>6. lock \in Side /\ lock.gstor = g /\ lock.out = shut.out
  BY <1>3, <1>4, <1>5 DEF Side
<1> HIDE DEF lock
<1>7. Settled(lock)
  BY <1>3, <1>4, <1>6 DEF Settled, Honest
<1>8. lock = [gstor |-> lock.gstor, sd |-> lock.sd, out |-> lock.out] /\ Honest(lock)
  BY <1>6, <1>7 DEF Side, Settled
<1>9. msg \in ToChar /\ msg \notin Loads /\ msg \notin Stores /\ msg \in Plain
  BY DEF ToChar, Loads, Stores, Plain
<1> HIDE DEF msg
<1>10. Honest(n) /\ n.gstor = lock.gstor /\ (~Without(lock.out, Stores) => ~Without(n.out, Stores))
  BY <1>2, <1>8, <1>9, SentHonest
<1>11. n \in Side
  BY <1>2, <1>6, <1>9, SentSide
<1>12. Settled(n)
  BY <1>7, <1>10 DEF Settled
<1> QED BY <1>11, <1>12 DEF n

LEMMA OrderWithdraw ==
    ASSUME IInv, IInv', Order, GuildMemberWithdraw, Undisturbed'
    PROVE  Order'
<1> DEFINE p == Head(toMap).p
           left == IF sd[p].online THEN PcBoundClear(Now, p) ELSE ItemboundReq(Now, p)
           k == [left EXCEPT !.sd[p].open = FALSE, !.sd[p].guild = FALSE]
<1>1. toMap # << >> /\ toMap' = Tail(toMap) /\ Head(toMap).type = "withdraw" /\ FromChar("withdraw")
  BY DEF GuildMemberWithdraw, FromChar
<1>2. Head(toMap) \in ToMap /\ Head(toMap) \notin Rows
  BY <1>1, TailOf DEF IInv, Shaped, Rows
<1>3. p \in Player
  BY <1>1, <1>2 DEF ToMap
<1>4. UNCHANGED <<CharSide, Fixed>>
  BY DEF GuildMemberWithdraw
<1>5. CASE UNCHANGED <<gstor, sd, toChar, slips>>
  <2>1. gstor' \in GStor
    BY DEF IInv, Shaped, GStor, Bag
  <2>2. gstor \in GStor
    BY DEF IInv, Shaped
  <2> QED BY <1>1, <1>2, <1>4, <1>5, <2>2, Idle DEF CharSide, Fixed
<1>6. CASE Does(k) /\ slips' = IF sd[p].online THEN slips \union ClearingSlips(p) ELSE slips
  <2>1. /\ sd[p].online => "unsaved" \notin ClearingSlips(p)
        /\ "early" \in slips' <=> "early" \in slips
    <3> HIDE DEF p, k
    <3> QED BY <1>6 DEF Undisturbed, ClearingSlips
  <2>2. Settled(left) /\ left \in Side
    <3>1. CASE sd[p].online
      <4>1. Settled(PcBoundClear(Now, p))
        BY <1>3, <2>1, <3>1, ClearSettles
      <4>2. PcBoundClear(Now, p) \in Side
        BY <1>3, ClearShuts, NowIsSide DEF IInv, Shut, Calm
      <4> QED BY <3>1, <4>1, <4>2
    <3>2. CASE ~sd[p].online
      BY <1>3, <3>2, RequestSettles
    <3> QED BY <3>1, <3>2
  <2> HIDE DEF left
  <2>3. k.gstor = left.gstor /\ k.out = left.out
    <3>1. left = [gstor |-> left.gstor, sd |-> left.sd, out |-> left.out]
      BY <2>2 DEF Side
    <3> HIDE DEF p
    <3> QED BY <3>1
  <2>4. Does(k)
    BY <1>6
  <2> HIDE DEF k, p
  <2>5. Settled(k)
    BY <2>2, <2>3 DEF Settled, Honest
  <2> QED BY <1>1, <1>4, <2>1, <2>4, <2>5, SettledDoes
<1> QED BY <1>5, <1>6 DEF GuildMemberWithdraw, Slipped

LEMMA OrderUnlock ==
    ASSUME IInv, Order, IntifParseItemboundAck
    PROVE  Order'
<1>1. gstor \in GStor /\ gstor' = [gstor EXCEPT !.lock = FALSE]
  BY DEF IInv, Shaped, IntifParseItemboundAck
<1>2. /\ gstor' \in GStor /\ gstor'.loaded = gstor.loaded /\ gstor'.dirty = gstor.dirty
      /\ gstor'.status = gstor.status /\ gstor'.items = gstor.items
  BY <1>1 DEF GStor
<1> QED BY <1>2, Idle DEF IntifParseItemboundAck, FromChar, Rows, CharSide, Fixed

LEMMA OrderEnter ==
    ASSUME IInv, Order, PcAuthOk \/ ChrifSaveAck
    PROVE  Order'
<1>1. gstor \in GStor
  BY DEF IInv, Shaped
<1> QED BY <1>1, Idle DEF PcAuthOk, ChrifSaveAck, FromChar, Rows, CharSide, Fixed

\* The answer to a save: it was the last one, or that is what "early" means.
LEMMA OrderSaved ==
    ASSUME IInv, Order, GuildStorageSaved
    PROVE  Order'
<1>1. /\ gstor \in GStor /\ toChar \in Seq(ToChar) /\ toMap \in Seq(ToMap) /\ up
      /\ toMap # << >> /\ toMap' = Tail(toMap) /\ Head(toMap).type = "saved"
      /\ gstor' = [gstor EXCEPT !.dirty = gstor.dirty /\ gstor.status]
      /\ slips' = IF ~gstor.status /\ gstor.dirty /\ AnotherSave THEN slips \union {"early"} ELSE slips
      /\ UNCHANGED <<db, toChar, up>>
  BY DEF IInv, Shaped, GuildStorageSaved, FromChar, Slipped, CharSide, Fixed
<1>2. Head(toMap) \notin Rows
  BY <1>1 DEF Rows
<1>3. /\ gstor' \in GStor /\ gstor'.loaded = gstor.loaded /\ gstor'.status = gstor.status
      /\ gstor'.items = gstor.items /\ (gstor'.dirty <=> gstor.dirty /\ gstor.status)
      /\ gstor.dirty \in BOOLEAN /\ gstor.status \in BOOLEAN /\ gstor'.dirty \in BOOLEAN
  BY <1>1 DEF GStor
<1>4. CASE ~(gstor.dirty /\ ~gstor.status)
  <2>1. gstor'.dirty = gstor.dirty /\ slips' = slips
    BY <1>1, <1>3, <1>4
  <2> QED BY <1>1, <1>2, <1>3, <2>1, Idle
<1>5. CASE gstor.dirty /\ ~gstor.status
  <2>1. ~gstor'.dirty /\ gstor.loaded /\ gstor'.loaded
    BY <1>3, <1>5 DEF Order, MarkedIfLoaded
  <2>2. Head(toMap) \in Acks
    <3>1. Head(toMap) \in ToMap
      BY <1>1, TailOf
    <3> QED BY <1>1, <3>1, KindsOf
  <2>3. Without(toMap', Opens) /\ ~Without(toMap, Acks)
    <3>1. Without(toMap', Opens)
      BY <1>1, <2>2, TailsMore DEF Order, LoadsFirst
    <3> QED BY <1>1, <2>2, <3>1, TailOf DEF Without
  <2>4. Without(toChar, Loads)
    BY <2>3 DEF Order, LoadsFirst
  <2>5. ASSUME "early" \notin slips' PROVE Without(toChar, Stores) /\ Without(toMap', Acks)
    <3>1. ~AnotherSave
      BY <1>1, <1>5, <2>5
    <3>2. Without(toChar, Stores)
      BY <3>1 DEF AnotherSave, Without, Stores
    <3>3. ASSUME NEW i \in DOMAIN toMap', toMap'[i] \in Acks PROVE FALSE
      <4>1. i + 1 \in 2..Len(toMap) /\ toMap[i + 1] = toMap'[i]
        BY <1>1, <3>3, TailOf
      <4>2. toMap[i + 1].type = "saved"
        BY <3>3, <4>1 DEF Acks
      <4> QED BY <3>1, <4>1, <4>2 DEF AnotherSave
    <3> QED BY <3>2, <3>3 DEF Without
  <2>6. Are(toMap', Opens, db', Rows)
    BY <2>3 DEF Are, Without
  <2>7. Are(toMap', Rows, db', Rows \union Acks) /\ Without(toMap', Void) /\ NoneBefore(toMap', Acks, Opens)
    <3>1. Are(toMap', Rows, db, Rows \union Acks)
      BY <1>1, TailsMore DEF Order, StoragesAre
    <3>2. Without(toMap', Void)
      BY <1>1, Tails DEF Order, StoragesAre
    <3>3. NoneBefore(toMap', Acks, Opens)
      BY <1>1, TailsMore DEF Order, LoadsFirst
    <3> QED BY <1>1, <3>1, <3>2, <3>3
  <2>8. WrittenIn(toChar', db', gstor'.items) \/ ~Without(toMap', Rows)
    <3>1. WrittenIn(toChar, db, gstor.items) \/ ~Without(toMap, Rows)
      BY <1>1, <1>5, <2>1 DEF Order, CopyIsWritten
    <3>2. ~Without(toMap, Rows) => ~Without(toMap', Rows)
      BY <1>1, <1>2, TailsMore
    <3> QED BY <1>1, <1>3, <3>1, <3>2
  <2>9. NoneBefore(toChar', Stores, Loads) /\ Without(toChar', Loads)
    BY <1>1, <2>4 DEF Order, LoadsFirst
  <2> QED BY <1>1, <2>1, <2>3, <2>5, <2>6, <2>7, <2>8, <2>9, OrderNext
<1> QED BY <1>4, <1>5

\* A storage arrives: it is taken as it is, and is as the rows are; or those that follow are.
LEMMA OrderLoaded ==
    ASSUME IInv, Order, Undisturbed, IntifParseLoadGuildStorage, Undisturbed'
    PROVE  Order'
<1> DEFINE msg == Head(toMap)
           opens == msg.opens /\ sd[msg.p].guild /\ ~sd[msg.p].open
<1>1. /\ gstor \in GStor /\ toChar \in Seq(ToChar) /\ toMap \in Seq(ToMap) /\ up
      /\ toMap # << >> /\ toMap' = Tail(toMap) /\ msg.type = "storage"
      /\ slips' = IF ~msg.opens /\ (gstor.status \/ gstor.dirty \/ AnotherSave)
                  THEN slips \union {"overtaken"} ELSE slips
      /\ UNCHANGED <<db, toChar, up>>
  BY DEF IInv, Shaped, IntifParseLoadGuildStorage, FromChar, Slipped, CharSide, Fixed
<1>2. \/ /\ ~msg.exists \/ ~known.exists \/ (msg.opens /\ ~sd[msg.p].online) \/ gstor.status \/ gstor.dirty
         /\ gstor' = gstor
      \/ /\ ~(gstor.status \/ gstor.dirty)
         /\ gstor' = [loaded |-> TRUE, dirty |-> FALSE, status |-> opens,
                      lock |-> FALSE, items |-> msg.items]
  BY DEF IntifParseLoadGuildStorage
<1>3. msg \in ToMap /\ msg = toMap[1] /\ 1 \in DOMAIN toMap
  BY <1>1, TailOf
<1> HIDE DEF msg
<1>4. msg.exists /\ known.exists
  <2>1. msg \notin Void
    BY <1>3 DEF Order, StoragesAre, Without
  <2> QED BY <1>1, <1>3, <2>1 DEF Void, Undisturbed, IInv, Breaking
<1>5. msg.opens \/ ~(gstor.status \/ gstor.dirty \/ AnotherSave)
  BY <1>1 DEF Undisturbed
<1>6. slips' = slips
  BY <1>1, <1>5
<1>7. msg.opens \in BOOLEAN /\ (msg.opens => msg \in Opens /\ msg \notin Rows) /\ (~msg.opens => msg \in Rows)
  BY <1>1, <1>3 DEF ToMap, Opens, Rows
<1>8. CASE msg.opens /\ gstor' = gstor
  BY <1>1, <1>6, <1>7, <1>8, Idle DEF msg
<1>9. CASE /\ ~(gstor.status \/ gstor.dirty)
           /\ gstor' = [loaded |-> TRUE, dirty |-> FALSE, status |-> opens,
                        lock |-> FALSE, items |-> msg.items]
  <2>1. ~gstor.dirty /\ gstor'.loaded /\ ~gstor'.dirty /\ gstor'.items = msg.items
    BY <1>9
  <2>2. WrittenIn(toChar, db, msg.items) \/ ~Without(toMap', Rows)
    <3>1. Without(toChar, Stores)
      <4>1. CASE msg.opens
        <5>1. "early" \notin slips
          BY <1>3, <1>7, <4>1 DEF Order, LoadsFirst, Without
        <5> QED BY <2>1, <5>1 DEF Order, UnmarkedSendsNone
      <4>2. CASE ~msg.opens
        BY <1>5, <4>2 DEF AnotherSave, Without, Stores
      <4> QED BY <1>7, <4>1, <4>2
    <3>2. msg.items = db \/ \E k \in DOMAIN toMap : k > 1 /\ toMap[k] \in Rows
      <4>1. CASE msg.opens
        BY <1>3, <1>7, <2>1, <4>1 DEF Order, StoragesAre, Are
      <4>2. CASE ~msg.opens
        <5>1. msg.items = db \/ \E k \in DOMAIN toMap : k > 1 /\ toMap[k] \in Rows \union Acks
          BY <1>3, <1>7, <4>2 DEF Order, StoragesAre, Are
        <5>2. \A k \in DOMAIN toMap : k > 1 => toMap[k] \notin Acks
          <6>1. \A k \in 2..Len(toMap) : toMap[k].type # "saved"
            BY <1>5, <4>2 DEF AnotherSave
          <6>2. \A k \in DOMAIN toMap : k > 1 => k \in 2..Len(toMap)
            BY <1>1
          <6> QED BY <6>1, <6>2 DEF Acks
        <5> QED BY <5>1, <5>2
      <4> QED BY <1>7, <4>1, <4>2
    <3>3. ASSUME NEW k \in DOMAIN toMap, k > 1, toMap[k] \in Rows PROVE ~Without(toMap', Rows)
      <4>1. k - 1 \in DOMAIN toMap' /\ toMap'[k - 1] = toMap[k]
        BY <1>1, <3>3
      <4> QED BY <3>3, <4>1 DEF Without
    <3> QED BY <3>1, <3>2, <3>3 DEF WrittenIn
  <2>3. /\ Without(toMap', Void) /\ NoneBefore(toMap', Acks, Opens)
        /\ Are(toMap', Opens, db, Rows) /\ Are(toMap', Rows, db, Rows \union Acks)
    <3>1. Without(toMap', Void)
      BY <1>1, Tails DEF Order, StoragesAre
    <3>2. NoneBefore(toMap', Acks, Opens)
      BY <1>1, TailsMore DEF Order, LoadsFirst
    <3>3. Are(toMap', Opens, db, Rows)
      BY <1>1, <2>1, TailsMore DEF Order, StoragesAre
    <3>4. Are(toMap', Rows, db, Rows \union Acks)
      BY <1>1, TailsMore DEF Order, StoragesAre
    <3> QED BY <3>1, <3>2, <3>3, <3>4
  <2>4. \A S : Without(toMap, S) => Without(toMap', S)
    BY <1>1, Tails
  <2>5. "early" \notin slips' => Without(toChar', Stores) /\ Without(toMap', Acks)
    BY <1>1, <1>6, <2>1, <2>4 DEF Order, UnmarkedSendsNone
  <2>6. /\ NoneBefore(toChar', Stores, Loads)
        /\ ~Without(toChar', Loads) => "early" \notin slips' /\ Without(toMap', Acks)
        /\ ~Without(toMap', Opens) => "early" \notin slips'
    BY <1>1, <1>6, <2>4 DEF Order, LoadsFirst
  <2> QED BY <1>1, <2>1, <2>2, <2>3, <2>5, <2>6, OrderNext
<1> QED BY <1>2, <1>4, <1>5, <1>8, <1>9

-----------------------------------------------------------------------------
(* The steps of the char-server, and of the link. *)

\* The char-server takes one message, or none, and sends nothing about the storage.
LEMMA Answering ==
    ASSUME IInv, Order, NEW more \in Seq(ToMap),
           \A i \in DOMAIN more : more[i].type \notin {"storage", "saved"},
           toChar' = toChar \/ (toChar # << >> /\ toChar' = Tail(toChar) /\ Head(toChar) \notin Stores),
           toMap' = toMap \o more, gstor' = gstor, db' = db, up' = up,
           "early" \in slips' <=> "early" \in slips
    PROVE  Order'
<1>1. toChar \in Seq(ToChar) /\ toMap \in Seq(ToMap)
  BY DEF IInv, Shaped
<1>2. Without(more, Acks) /\ Without(more, Opens) /\ Without(more, Rows) /\ Without(more, Void)
  BY DEF Without, Acks, Opens, Rows, Void
<1>3. \A b, U : Are(more, Opens, b, U) /\ Are(more, Rows, b, U)
  BY <1>2 DEF Are, Without
<1>4. NoneBefore(more, Acks, Opens)
  BY <1>2 DEF NoneBefore, Without
<1>5. \A S : Without(toChar, S) => Without(toChar', S)
  BY <1>1, Tails
<1>6. Without(toMap, Acks) => Without(toMap', Acks)
  BY <1>1, <1>2, Cats
<1>7. Without(toMap, Opens) => Without(toMap', Opens)
  BY <1>1, <1>2, Cats
<1>8. Without(toMap', Void)
  BY <1>1, <1>2, Cats DEF Order, StoragesAre
<1>9. NoneBefore(toChar', Stores, Loads)
  <2>1. NoneBefore(toChar, Stores, Loads)
    BY DEF Order, LoadsFirst
  <2>2. CASE toChar # << >> /\ toChar' = Tail(toChar)
    BY <1>1, <2>1, <2>2, TailsMore
  <2> QED BY <2>1, <2>2
<1>10. NoneBefore(toMap', Acks, Opens)
  BY <1>1, <1>2, <1>4, CatsMore DEF Order, LoadsFirst
<1>11. ~gstor'.dirty => Are(toMap', Opens, db', Rows)
  BY <1>1, <1>3, CatsMore DEF Order, StoragesAre
<1>12. Are(toMap', Rows, db', Rows \union Acks)
  BY <1>1, <1>3, CatsMore DEF Order, StoragesAre
<1>13. WrittenIn(toChar, db, gstor.items) => WrittenIn(toChar', db', gstor'.items)
  BY <1>1, WrittenTail
<1>14. ~Without(toMap, Rows) => ~Without(toMap', Rows)
  BY <1>1, CatsMore
<1>15. gstor'.loaded /\ (~gstor'.dirty \/ (~gstor'.status /\ up')) =>
         WrittenIn(toChar', db', gstor'.items) \/ ~Without(toMap', Rows)
  BY <1>13, <1>14 DEF Order, CopyIsWritten
<1>16. ~gstor'.dirty /\ "early" \notin slips' => Without(toChar', Stores) /\ Without(toMap', Acks)
  BY <1>5, <1>6 DEF Order, UnmarkedSendsNone
<1>17. /\ ~Without(toChar', Loads) => "early" \notin slips' /\ Without(toMap', Acks)
       /\ ~Without(toMap', Opens) => "early" \notin slips'
  BY <1>5, <1>6, <1>7 DEF Order, LoadsFirst
<1> QED BY <1>8, <1>9, <1>10, <1>11, <1>12, <1>15, <1>16, <1>17, OrderNext DEF Order, MarkedIfLoaded

LEMMA OrderLoad ==
    ASSUME IInv, Order, Undisturbed, MapifParseLoadGuildStorage
    PROVE  Order'
<1> DEFINE msg == [type |-> "storage", exists |-> guild.exists, opens |-> TRUE,
                   p |-> Head(toChar).p, items |-> db]
<1>1. /\ toChar \in Seq(ToChar) /\ toMap \in Seq(ToMap) /\ up /\ db \in Bag
      /\ toChar # << >> /\ toChar' = Tail(toChar) /\ Head(toChar).type = "load"
      /\ toMap' = toMap \o <<msg>> /\ UNCHANGED <<gstor, db, up, slips>>
  BY DEF IInv, Shaped, MapifParseLoadGuildStorage, Answers, MapSide, CharSide, Fixed
<1>2. Head(toChar) \in ToChar /\ Head(toChar) \in Loads /\ Head(toChar) \notin Stores
  <2>1. Head(toChar) \in ToChar
    BY <1>1, TailOf
  <2> QED BY <1>1, <2>1, KindsOf
<1>3. msg \in ToMap /\ msg \in Opens /\ msg \notin Acks /\ msg \notin Rows /\ msg \notin Void /\ msg.items = db
  <2>1. Head(toChar).p \in Player /\ guild.exists
    BY <1>1, <1>2 DEF ToChar, Undisturbed
  <2> QED BY <1>1, <2>1 DEF ToMap, Opens, Acks, Rows, Void
<1> HIDE DEF msg
<1>4. <<msg>> \in Seq(ToMap)
  BY <1>3
<1>5. "early" \notin slips /\ Without(toMap, Acks)
  <2>1. ~Without(toChar, Loads)
    BY <1>1, <1>2, TailOf DEF Without
  <2> QED BY <2>1 DEF Order, LoadsFirst
<1>6. \A S : Without(toChar, S) => Without(toChar', S)
  BY <1>1, Tails
<1>7. Without(toMap', Acks)
  BY <1>1, <1>3, <1>4, <1>5, Ones, Cats
<1>8. Without(toMap', Void)
  BY <1>1, <1>3, <1>4, Ones, Cats DEF Order, StoragesAre
<1>9. NoneBefore(toChar', Stores, Loads)
  BY <1>1, TailsMore DEF Order, LoadsFirst
<1>10. NoneBefore(toMap', Acks, Opens)
  BY <1>7 DEF NoneBefore, Without
<1>11. Are(<<msg>>, Opens, db, Rows) /\ Are(<<msg>>, Rows, db, Rows \union Acks)
  BY <1>3, OnesMore
<1>12. ~gstor'.dirty => Are(toMap', Opens, db', Rows)
  BY <1>1, <1>4, <1>11, CatsMore DEF Order, StoragesAre
<1>13. Are(toMap', Rows, db', Rows \union Acks)
  BY <1>1, <1>4, <1>11, CatsMore DEF Order, StoragesAre
<1>14. WrittenIn(toChar, db, gstor.items) => WrittenIn(toChar', db', gstor'.items)
  BY <1>1, <1>2, WrittenTail
<1>15. ~Without(toMap, Rows) => ~Without(toMap', Rows)
  BY <1>1, <1>4, CatsMore
<1>16. gstor'.loaded /\ (~gstor'.dirty \/ (~gstor'.status /\ up')) =>
         WrittenIn(toChar', db', gstor'.items) \/ ~Without(toMap', Rows)
  BY <1>1, <1>14, <1>15 DEF Order, CopyIsWritten
<1>17. ~gstor'.dirty /\ "early" \notin slips' => Without(toChar', Stores) /\ Without(toMap', Acks)
  BY <1>1, <1>6, <1>7 DEF Order, UnmarkedSendsNone
<1>18. "early" \notin slips' /\ (gstor'.dirty => gstor'.loaded)
  BY <1>1, <1>5 DEF Order, MarkedIfLoaded
<1> QED BY <1>7, <1>8, <1>9, <1>10, <1>12, <1>13, <1>16, <1>17, <1>18, OrderNext

LEMMA OrderSave ==
    ASSUME IInv, Order, Undisturbed, MapifParseSaveGuildStorage
    PROVE  Order'
<1> DEFINE msg == [type |-> "saved"]
<1>1. /\ toChar \in Seq(ToChar) /\ toMap \in Seq(ToMap) /\ up
      /\ toChar # << >> /\ toChar' = Tail(toChar) /\ Head(toChar).type = "save"
      /\ toMap' = toMap \o <<msg>> /\ db' = Head(toChar).items /\ UNCHANGED <<gstor, up, slips>>
  BY DEF IInv, Shaped, MapifParseSaveGuildStorage, Answers, MapSide, Fixed, Undisturbed
<1>2. Head(toChar) \in Stores
  <2>1. Head(toChar) \in ToChar
    BY <1>1, TailOf
  <2> QED BY <1>1, <2>1, KindsOf
<1>3. msg \in ToMap /\ msg \in Acks /\ msg \notin Opens /\ msg \notin Rows /\ msg \notin Void
  BY DEF ToMap, Opens, Acks, Rows, Void
<1> HIDE DEF msg
<1>4. <<msg>> \in Seq(ToMap)
  BY <1>3
<1>5. ~Without(toChar, Stores)
  BY <1>1, <1>2, TailOf DEF Without
<1>6. gstor.dirty \/ "early" \in slips
  BY <1>5 DEF Order, UnmarkedSendsNone
<1>7. Without(toChar', Loads)
  BY <1>1, <1>2, TailsMore DEF Order, LoadsFirst
<1>8. Without(toMap, Opens) => Without(toMap', Opens)
  BY <1>1, <1>3, <1>4, Ones, Cats
<1>9. Without(toMap', Void)
  BY <1>1, <1>3, <1>4, Ones, Cats DEF Order, StoragesAre
<1>10. NoneBefore(toChar', Stores, Loads)
  BY <1>7 DEF NoneBefore, Without
<1>11. NoneBefore(toMap', Acks, Opens)
  BY <1>1, <1>3, <1>4, Ones, OnesMore, CatsMore DEF Order, LoadsFirst
<1>12. ASSUME ~gstor'.dirty PROVE Are(toMap', Opens, db', Rows)
  <2>1. Without(toMap, Opens)
    BY <1>1, <1>6, <1>12 DEF Order, LoadsFirst
  <2> QED BY <1>8, <2>1 DEF Are, Without
<1>13. Are(toMap', Rows, db', Rows \union Acks)
  <2>1. Are(<<msg>>, Rows, db', Rows \union Acks) /\ ~Without(<<msg>>, Rows \union Acks)
    BY <1>3, OnesMore
  <2> QED BY <1>1, <1>4, <2>1, CatsMore
<1>14. WrittenIn(toChar, db, gstor.items) => WrittenIn(toChar', db', gstor'.items)
  BY <1>1, <1>2, WrittenTail
<1>15. ~Without(toMap, Rows) => ~Without(toMap', Rows)
  BY <1>1, <1>4, CatsMore
<1>16. gstor'.loaded /\ (~gstor'.dirty \/ (~gstor'.status /\ up')) =>
         WrittenIn(toChar', db', gstor'.items) \/ ~Without(toMap', Rows)
  BY <1>1, <1>14, <1>15 DEF Order, CopyIsWritten
<1>17. ~Without(toMap', Opens) => "early" \notin slips'
  BY <1>1, <1>8 DEF Order, LoadsFirst
<1>18. gstor'.dirty \/ "early" \in slips' => gstor'.loaded
  BY <1>1 DEF Order, MarkedIfLoaded
<1> QED BY <1>1, <1>6, <1>7, <1>9, <1>10, <1>11, <1>12, <1>13, <1>16, <1>17, <1>18, OrderNext

LEMMA OrderRetrieve ==
    ASSUME IInv, Order, Undisturbed, MapifParseItemBoundRetrieve
    PROVE  Order'
<1> DEFINE p == Head(toChar).p
           unlock == [type |-> "unlock"]
           some == IF BoundRows(p) = {} THEN << >> ELSE <<Reloaded(p)>>
<1>1. /\ toChar \in Seq(ToChar) /\ toMap \in Seq(ToMap) /\ db \in Bag /\ charDb \in [Player -> Bag]
      /\ toChar # << >> /\ toChar' = Tail(toChar) /\ Head(toChar).type = "retrieve"
      /\ toMap' = toMap \o (some \o <<unlock>>) /\ db' = DbWith(p) /\ UNCHANGED <<gstor, up>>
      /\ "early" \in slips' <=> "early" \in slips
  BY DEF IInv, Shaped, MapifParseItemBoundRetrieve, Answers, MapSide, Fixed, RowsMoved, Slipped
<1>2. Head(toChar) \in ToChar /\ Head(toChar) \notin Stores /\ p \in Player
  <2>1. Head(toChar) \in ToChar
    BY <1>1, TailOf
  <2> QED BY <1>1, <2>1, KindsOf DEF ToChar
<1> HIDE DEF p
<1>3. unlock \in ToMap /\ unlock.type = "unlock"
  BY DEF ToMap
<1> HIDE DEF unlock
<1>4. charDb[p] \in Bag
  BY <1>1, <1>2
<1>5. CASE BoundRows(p) = {}
  <2>1. some = << >>
    BY <1>5
  <2>2. some \o <<unlock>> \in Seq(ToMap)
        /\ \A i \in DOMAIN (some \o <<unlock>>) : (some \o <<unlock>>)[i].type \notin {"storage", "saved"}
    BY <1>3, <2>1
  <2>3. db' = db
    <3>1. ASSUME NEW i \in Item PROVE DbWith(p)[i] = db[i]
      <4>1. i \in Bound => charDb[p][i] = 0
        BY <1>4, <1>5 DEF BoundRows, Bag
      <4> QED BY <1>1, <4>1 DEF DbWith, Bag
    <3>2. DbWith(p) = [i \in Item |-> DbWith(p)[i]] /\ db = [i \in Item |-> db[i]]
      BY <1>1 DEF DbWith, Bag
    <3> QED BY <1>1, <3>1, <3>2
  <2> HIDE DEF some
  <2> QED BY <1>1, <1>2, <2>2, <2>3, Answering
<1>6. CASE BoundRows(p) # {}
  <2> DEFINE msg == Reloaded(p)
             more == <<msg>> \o <<unlock>>
  <2>1. toMap' = toMap \o more
    <3>1. some = <<Reloaded(p)>>
      BY <1>6
    <3> QED BY <1>1, <3>1
  <2>2. DbWith(p) \in Bag
    BY <1>1, <1>4 DEF DbWith, Bag
  <2>3. msg \in ToMap /\ msg \in Rows /\ msg \notin Opens /\ msg \notin Acks /\ msg \notin Void /\ msg.items = db'
    BY <1>1, <1>2, <2>2 DEF Reloaded, ToMap, Rows, Opens, Acks, Void, Undisturbed
  <2>4. unlock \notin Rows /\ unlock \notin Opens /\ unlock \notin Acks /\ unlock \notin Void
    BY <1>3 DEF Rows, Opens, Acks, Void
  <2> HIDE DEF msg
  <2>5. more \in Seq(ToMap) /\ DOMAIN more = {1, 2} /\ more[1] = msg /\ more[2] = unlock
    <3>1. <<msg>> \in Seq(ToMap) /\ <<unlock>> \in Seq(ToMap) /\ Len(<<msg>>) = 1 /\ Len(<<unlock>>) = 1
          /\ <<msg>>[1] = msg /\ <<unlock>>[1] = unlock
      BY <1>3, <2>3
    <3>2. ASSUME NEW s \in Seq(ToMap), NEW t \in Seq(ToMap), Len(s) = 1, Len(t) = 1
          PROVE  s \o t \in Seq(ToMap) /\ DOMAIN (s \o t) = {1, 2}
                 /\ (s \o t)[1] = s[1] /\ (s \o t)[2] = t[1]
      <4>1. s \o t \in Seq(ToMap) /\ Len(s \o t) = 2
        BY <3>2
      <4>2. DOMAIN (s \o t) = 1..2 /\ 1..2 = {1, 2}
        BY <4>1
      <4>3. (s \o t)[1] = s[1]
        BY <3>2
      <4>4. \A i \in 1..Len(t) : (s \o t)[Len(s) + i] = t[i]
        OBVIOUS
      <4> QED BY <3>2, <4>1, <4>2, <4>3, <4>4
    <3> QED BY <3>1, <3>2
  <2> HIDE DEF more
  <2>6. Without(more, Acks) /\ Without(more, Opens) /\ Without(more, Void) /\ ~Without(more, Rows)
        /\ ~Without(more, Rows \union Acks)
    BY <2>3, <2>4, <2>5 DEF Without
  <2>7. Are(more, Opens, db', Rows) /\ Are(more, Rows, db', Rows \union Acks) /\ NoneBefore(more, Acks, Opens)
    BY <2>3, <2>4, <2>5 DEF Are, NoneBefore
  <2>8. Are(toMap', Opens, db', Rows) /\ Are(toMap', Rows, db', Rows \union Acks)
    <3>1. Are(toMap \o more, Opens, db', Rows)
      BY <1>1, <2>5, <2>6, <2>7, CatsMore
    <3>2. Are(toMap \o more, Rows, db', Rows \union Acks)
      BY <1>1, <2>5, <2>6, <2>7, CatsMore
    <3> QED BY <2>1, <3>1, <3>2
  <2>9. NoneBefore(toMap', Acks, Opens)
    <3>1. NoneBefore(toMap \o more, Acks, Opens)
      BY <1>1, <2>5, <2>6, <2>7, CatsMore DEF Order, LoadsFirst
    <3> QED BY <2>1, <3>1
  <2>10. ~Without(toMap', Rows)
    <3>1. ~Without(toMap \o more, Rows)
      BY <1>1, <2>5, <2>6, CatsMore
    <3> QED BY <2>1, <3>1
  <2>11. Without(toMap', Void)
    BY <1>1, <2>1, <2>5, <2>6, Cats DEF Order, StoragesAre
  <2>12. Without(toMap, Acks) => Without(toMap', Acks)
    BY <1>1, <2>1, <2>5, <2>6, Cats
  <2>13. Without(toMap, Opens) => Without(toMap', Opens)
    BY <1>1, <2>1, <2>5, <2>6, Cats
  <2>14. \A S : Without(toChar, S) => Without(toChar', S)
    BY <1>1, Tails
  <2>15. NoneBefore(toChar', Stores, Loads)
    BY <1>1, TailsMore DEF Order, LoadsFirst
  <2>16. ~gstor'.dirty /\ "early" \notin slips' => Without(toChar', Stores) /\ Without(toMap', Acks)
    BY <1>1, <2>12, <2>14 DEF Order, UnmarkedSendsNone
  <2>17. /\ ~Without(toChar', Loads) => "early" \notin slips' /\ Without(toMap', Acks)
         /\ ~Without(toMap', Opens) => "early" \notin slips'
    BY <1>1, <2>12, <2>13, <2>14 DEF Order, LoadsFirst
  <2>18. gstor'.dirty \/ "early" \in slips' => gstor'.loaded
    BY <1>1 DEF Order, MarkedIfLoaded
  <2> QED BY <2>8, <2>9, <2>10, <2>11, <2>15, <2>16, <2>17, <2>18, OrderNext
<1> QED BY <1>5, <1>6

LEMMA OrderSaveCharacter ==
    ASSUME IInv, Order, SaveCharacter
    PROVE  Order'
<1> DEFINE msg == Head(toChar)
           more == IF msg.quits THEN <<[type |-> "charSaved", p |-> msg.p]>> ELSE << >>
<1>1. /\ toChar \in Seq(ToChar) /\ toChar # << >> /\ toChar' = Tail(toChar) /\ msg.type = "char"
      /\ toMap' = toMap \o more /\ UNCHANGED <<gstor, db, up, slips>>
  BY DEF IInv, Shaped, SaveCharacter, Answers, MapSide, Fixed
<1>2. msg \in ToChar /\ msg \notin Stores /\ msg.p \in Player /\ msg.quits \in BOOLEAN
  <2>1. msg \in ToChar
    BY <1>1, TailOf
  <2> HIDE DEF msg
  <2> QED BY <1>1, <2>1, KindsOf DEF ToChar
<1> HIDE DEF msg
<1>3. [type |-> "charSaved", p |-> msg.p] \in ToMap
  BY <1>2 DEF ToMap
<1>4. more \in Seq(ToMap) /\ \A i \in DOMAIN more : more[i].type \notin {"storage", "saved"}
  BY <1>2, <1>3
<1> HIDE DEF more
<1> QED BY <1>1, <1>2, <1>4, Answering DEF msg

\* Who leaves the guild while others stay, and who is let in.
LEMMA OrderLeaveAuth ==
    ASSUME IInv, Order, NEW p \in Player, MapifParseGuildLeave(p) \/ MapAuthOk(p), Undisturbed'
    PROVE  Order'
<1>1. toChar \in Seq(ToChar) /\ toMap \in Seq(ToMap) /\ charDb[p] \in Bag
  BY DEF IInv, Shaped
<1>2. CASE MapifParseGuildLeave(p)
  <2> DEFINE msg == [type |-> "withdraw", p |-> p]
             left == guild.members \ {p}
  <2>1. msg \in ToMap /\ msg.type \notin {"storage", "saved"}
    BY DEF ToMap
  <2>2. left # {}
    BY <1>2 DEF MapifParseGuildLeave, Undisturbed
  <2>3. toMap' = (toMap \o <<msg>>) \o << >> /\ UNCHANGED <<gstor, db, toChar, up, slips>>
    BY <1>2, <2>2 DEF MapifParseGuildLeave, MapSide, Fixed
  <2> HIDE DEF msg
  <2>4. toMap' = toMap \o <<msg>> /\ <<msg>> \in Seq(ToMap)
        /\ \A i \in DOMAIN <<msg>> : <<msg>>[i].type \notin {"storage", "saved"}
    BY <1>1, <2>1, <2>3
  <2> QED BY <2>3, <2>4, Answering
<1>3. CASE MapAuthOk(p)
  <2> DEFINE msg == [type |-> "enter", p |-> p, guild |-> p \in guild.members, inv |-> charDb[p]]
  <2>1. msg \in ToMap /\ msg.type \notin {"storage", "saved"}
    <3>1. (p \in guild.members) \in BOOLEAN
      OBVIOUS
    <3>2. msg \in [type : {"enter"}, p : Player, guild : BOOLEAN, inv : Bag]
      BY <1>1, <3>1
    <3>3. msg.type = "enter"
      OBVIOUS
    <3> HIDE DEF msg
    <3> QED BY <3>2, <3>3 DEF ToMap
  <2>2. toMap' = Append(toMap, msg) /\ UNCHANGED <<gstor, db, toChar, up, slips>>
    BY <1>3 DEF MapAuthOk, MapSide, Fixed
  <2> HIDE DEF msg
  <2>3. toMap' = toMap \o <<msg>> /\ <<msg>> \in Seq(ToMap)
        /\ \A i \in DOMAIN <<msg>> : <<msg>>[i].type \notin {"storage", "saved"}
    BY <1>1, <2>1, <2>2, AppendIsConcat
  <2> QED BY <2>2, <2>3, Answering
<1> QED BY <1>2, <1>3

\* With the link everything on it is lost: not a storage, unless that is what "lost" means,
\* nor a save the copy is no longer marked for.
LEMMA OrderLinkLost ==
    ASSUME IInv, Order, LinkLost, Undisturbed'
    PROVE  Order'
<1>1. /\ toMap \in Seq(ToMap) /\ losses \in Nat /\ ~up' /\ losses' = losses + 1
      /\ toChar' = << >> /\ toMap' = << >> /\ UNCHANGED <<gstor, db>>
      /\ slips' = IF gstor.lock \/ Retrieving THEN slips \union {"lost"} ELSE slips
  BY BoundsAssumption DEF IInv, Shaped, LinkLost, Slipped, MapSide, CharSide
<1>2. ~Retrieving /\ slips' = slips /\ "early" \notin slips
  BY <1>1 DEF Undisturbed
<1>3. Without(toMap, Rows)
  BY <1>2 DEF Retrieving, Without, Rows
<1>4. ASSUME gstor'.loaded, ~gstor'.dirty
      PROVE  WrittenIn(toChar', db', gstor'.items)
  <2>1. Without(toChar, Stores)
    BY <1>1, <1>2, <1>4 DEF Order, UnmarkedSendsNone
  <2>2. WrittenIn(toChar, db, gstor.items)
    BY <1>1, <1>3, <1>4 DEF Order, CopyIsWritten
  <2>3. db = gstor.items
    BY <2>1, <2>2 DEF WrittenIn, Without
  <2> QED BY <1>1, <2>3, Ones DEF WrittenIn
<1>5. \A S : Without(toChar', S) /\ Without(toMap', S)
  BY <1>1, Ones
<1>6. \A S, U, b : /\ NoneBefore(toChar', S, U) /\ NoneBefore(toMap', S, U)
                   /\ Are(toMap', S, b, U)
  BY <1>1, OnesMore
<1>7. gstor'.dirty \/ "early" \in slips' => gstor'.loaded
  BY <1>1, <1>2 DEF Order, MarkedIfLoaded
<1> QED BY <1>1, <1>4, <1>5, <1>6, <1>7, OrderNext

LEMMA OrderReady ==
    ASSUME IInv, Order, ChrifOnReady
    PROVE  Order'
<1> DEFINE P == {p \in Player : sd[p].waiting}
           msg == [type |-> "save", items |-> gstor.items]
           save == IF gstor.dirty /\ ~gstor.status THEN <<msg>> ELSE << >>
<1>1. /\ Shaped /\ gstor \in GStor /\ ~up /\ toChar = << >> /\ toMap = << >>
      /\ UNCHANGED <<gstor, db, toMap, slips>>
  BY DEF IInv, Shaped, ChrifOnReady, MapSide
<1>2. PICK order \in SetToSeqs(P) : toChar' = Saves(order, TRUE) \o save
  BY DEF ChrifOnReady
<1> DEFINE s == Saves(order, TRUE)
<1>3. s \in Seq(ToChar)
  BY <1>1, SavesOf
<1>4. Without(s, Stores) /\ Without(s, Loads)
  BY DEF Saves, Without, Stores, Loads
<1> HIDE DEF s
<1>5. msg \in ToChar /\ msg \in Stores /\ msg \notin Loads /\ msg.items = gstor.items
  BY <1>1 DEF ToChar, Stores, Loads, GStor
<1> HIDE DEF msg
<1>6. save \in Seq(ToChar) /\ Without(save, Loads)
      /\ \A i \in DOMAIN save : save[i] \in Stores => save[i].items = gstor.items
  BY <1>5 DEF Without
<1>7. /\ gstor.dirty /\ ~gstor.status => ~Without(save, Stores)
      /\ ~gstor.dirty => Without(save, Stores)
  BY <1>5 DEF Without
<1> HIDE DEF save
<1>8. toChar' = s \o save
  BY <1>2 DEF s
<1>9. Without(toChar', Loads)
  BY <1>3, <1>4, <1>6, <1>8, Cats
<1>10. ~gstor.dirty => Without(toChar', Stores)
  BY <1>3, <1>4, <1>6, <1>7, <1>8, Cats
<1>11. NoneBefore(toChar', Stores, Loads)
  BY <1>9 DEF NoneBefore, Without
<1>12. ASSUME gstor.loaded, ~gstor.dirty \/ ~gstor.status
       PROVE  WrittenIn(toChar', db, gstor.items)
  <2>1. CASE gstor.dirty
    BY <1>3, <1>6, <1>7, <1>8, <1>12, <2>1, WrittenCat
  <2>2. CASE ~gstor.dirty
    <3>1. WrittenIn(toChar, db, gstor.items)
      BY <1>1, <1>12, <2>2, Ones DEF Order, CopyIsWritten
    <3>2. db = gstor.items
      BY <1>1, <3>1 DEF WrittenIn
    <3> QED BY <1>10, <2>2, <3>2 DEF WrittenIn
  <2> QED BY <2>1, <2>2
<1>13. \A S : Without(toMap', S)
  BY <1>1, Ones
<1>14. \A S, U, b : NoneBefore(toMap', S, U) /\ Are(toMap', S, b, U)
  BY <1>1, OnesMore
<1>15. gstor'.dirty \/ "early" \in slips' => gstor'.loaded
  BY <1>1 DEF Order, MarkedIfLoaded
<1> QED BY <1>1, <1>9, <1>10, <1>11, <1>12, <1>13, <1>14, <1>15, OrderNext

-----------------------------------------------------------------------------

\* Slips are not forgotten, nor that the guild was broken or the link lost.
LEMMA NothingForgotten ==
    ASSUME IInv, [Next]_vars
    PROVE  slips \subseteq slips' /\ (guild'.exists => guild.exists)
           /\ (losses' = losses \/ losses' = losses + 1)
<1> DEFINE Grows == slips \subseteq slips' /\ (guild'.exists => guild.exists) /\ losses' = losses
<1>1. CASE MapNext
  <2>1. ASSUME NEW p \in Player, GuildStorageOpen(p) \/ CloseStorage(p) \/ AutoSave(p) \/ MapQuit(p)
        PROVE  Grows
    BY <2>1 DEF GuildStorageOpen, CloseStorage, AutoSave, MapQuit, CharSide, Fixed
  <2>2. ASSUME NEW p \in Player, GuildBreak(p) PROVE Grows
    BY <2>2 DEF GuildBreak, CharSide, Fixed, Slipped
  <2>3. ASSUME NEW p \in Player, NEW i \in Item, NEW cart \in BOOLEAN,
               GuildStorageAdd(p, i, cart) \/ GuildStorageGet(p, i, cart)
        PROVE  Grows
    BY <2>3 DEF GuildStorageAdd, GuildStorageGet, CharSide, Fixed
  <2> HIDE DEF Grows
  <2>4. Grows
    BY <1>1, <2>1, <2>2, <2>3 DEF MapNext
  <2> QED BY <2>4 DEF Grows
<1>2. CASE MapHandles
  <2>1. CASE IntifParseLoadGuildStorage \/ GuildStorageSaved
    BY <2>1 DEF IntifParseLoadGuildStorage, GuildStorageSaved, CharSide, Fixed, Slipped
  <2>2. CASE GuildMemberWithdraw
    BY <2>2 DEF GuildMemberWithdraw, CharSide, Fixed, Slipped
  <2>3. CASE IntifParseItemboundAck \/ GuildBroken \/ PcAuthOk \/ ChrifSaveAck
    BY <2>3 DEF IntifParseItemboundAck, GuildBroken, PcAuthOk, ChrifSaveAck, CharSide, Fixed
  <2> QED BY <1>2, <2>1, <2>2, <2>3 DEF MapHandles
<1>3. CASE CharHandles
  <2>1. CASE MapifParseLoadGuildStorage \/ MapifParseSaveGuildStorage \/ SaveCharacter
    BY <2>1 DEF MapifParseLoadGuildStorage, MapifParseSaveGuildStorage, SaveCharacter,
           CharSide, Fixed
  <2>2. CASE MapifParseItemBoundRetrieve \/ MapifParseBreakGuild
    BY <2>2 DEF MapifParseItemBoundRetrieve, MapifParseBreakGuild, RowsMoved, Fixed, Slipped
  <2> QED BY <1>3, <2>1, <2>2 DEF CharHandles
<1>4. ASSUME NEW p \in Player, MapifParseGuildLeave(p) \/ MapAuthOk(p)
      PROVE  slips \subseteq slips' /\ (guild'.exists => guild.exists) /\ losses' = losses
  <2>1. p \in guild.members => guild.exists
    BY DEF IInv, Breaking
  <2> QED BY <1>4, <2>1 DEF MapifParseGuildLeave, MapAuthOk, Fixed
<1>5. CASE LinkLost \/ ChrifOnReady
  BY <1>5 DEF LinkLost, ChrifOnReady, CharSide, Slipped
<1>6. CASE UNCHANGED vars
  BY <1>6 DEF vars
<1> QED BY <1>1, <1>2, <1>3, <1>4, <1>5, <1>6 DEF Next

LEMMA StaysDisturbed ==
    ASSUME IInv, [Next]_vars, Undisturbed'
    PROVE  Undisturbed
<1>1. losses \in Nat
  BY BoundsAssumption DEF IInv, Shaped
<1> QED BY <1>1, NothingForgotten DEF Undisturbed

LEMMA OrderStarts == Init => Order
<1> SUFFICES ASSUME Init PROVE Order
  OBVIOUS
<1>1. gstor = NotLoaded /\ toChar = << >> /\ toMap = << >> /\ slips = {}
  BY DEF Init
<1>2. ~gstor.loaded /\ ~gstor.dirty
  BY <1>1 DEF NotLoaded
<1> QED BY <1>1, <1>2 DEF Order, MarkedIfLoaded, UnmarkedSendsNone, LoadsFirst, StoragesAre,
                          CopyIsWritten, Without, NoneBefore, Are

LEMMA OrderSteps == IInv /\ IInv' /\ Clean /\ [Next]_vars => Clean'
<1> SUFFICES ASSUME IInv, IInv', Clean, [Next]_vars, Undisturbed' PROVE Order'
  BY DEF Clean
<1>1. Undisturbed /\ Order
  BY StaysDisturbed DEF Clean
<1>2. CASE MapNext
  BY <1>1, <1>2, OrderOpen, OrderClose, OrderAutoSave, OrderQuit, OrderGuildBreak, OrderAdd, OrderGet
     DEF MapNext
<1>3. CASE MapHandles
  <2>1. CASE GuildBroken
    <3>1. Head(toMap) \in Breaks
      <4>1. toMap # << >> /\ Head(toMap).type = "broken"
        BY <2>1 DEF GuildBroken, FromChar
      <4> QED BY <4>1, TailOf DEF IInv, Shaped, Breaks
    <3>2. ~Without(toMap, Breaks)
      BY <2>1, <3>1, TailOf DEF GuildBroken, FromChar, IInv, Shaped, Without
    <3> QED BY <1>1, <3>2 DEF IInv, Breaking, Undisturbed
  <2> QED BY <1>1, <1>3, <2>1, OrderLoaded, OrderSaved, OrderWithdraw, OrderUnlock, OrderEnter
          DEF MapHandles
<1>4. CASE CharHandles
  <2>1. CASE MapifParseBreakGuild
    BY <2>1 DEF MapifParseBreakGuild, Undisturbed
  <2> QED BY <1>1, <1>4, <2>1, OrderLoad, OrderSave, OrderSaveCharacter, OrderRetrieve DEF CharHandles
<1>5. CASE \E p \in Player : MapifParseGuildLeave(p) \/ MapAuthOk(p)
  BY <1>1, <1>5, OrderLeaveAuth
<1>6. CASE LinkLost \/ ChrifOnReady
  BY <1>1, <1>6, OrderLinkLost, OrderReady
<1>7. CASE UNCHANGED vars
  BY <1>1, <1>7 DEF vars, Order, MarkedIfLoaded, UnmarkedSendsNone, LoadsFirst, StoragesAre,
                    CopyIsWritten, Without, NoneBefore, Are, WrittenIn,
                    Loads, Stores, Acks, Opens, Rows, Void, ToMap, Bag
<1> QED BY <1>2, <1>3, <1>4, <1>5, <1>6, <1>7 DEF Next

LEMMA AlwaysClean == Spec => []Clean
<1>1. Init => Clean
  BY OrderStarts DEF Clean
<1> QED BY <1>1, OrderSteps, Always, PTL DEF Spec

\* A copy of the storage that gstorage->dirty does not mark, and that is therefore not
\* saved when the member closes it or leaves, is what the char-server's rows are, or will
\* be when the last save arrives, or is about to be replaced by newer rows: whatever
\* loads, saves, answers to them, withdrawals and losses of the link cross.
THEOREM GuildStorageCleanIsSaved == Spec => []CleanIsSaved
<1>1. ASSUME IInv, Clean PROVE CleanIsSaved
  <2> SUFFICES ASSUME gstor.loaded, ~gstor.dirty, Undisturbed
               PROVE  gstor.items = db \/ SaveUnderway \/ RowsUnderway
    BY DEF CleanIsSaved, Undisturbed
  <2>1. WrittenIn(toChar, db, gstor.items) \/ ~Without(toMap, Rows)
    BY <1>1 DEF Clean, Order, CopyIsWritten
  <2>2. ~Without(toMap, Rows) => RowsUnderway
    BY DEF Without, Rows, RowsUnderway
  <2>3. WrittenIn(toChar, db, gstor.items) => gstor.items = db \/ SaveUnderway
    BY DEF WrittenIn, SaveUnderway, Stores
  <2> QED BY <2>1, <2>2, <2>3
<1> QED BY <1>1, Always, AlwaysClean, PTL

-----------------------------------------------------------------------------
(* That no unit is lost or doubled.  Of what a member has, the session data tells  *)
(* until its last save came in, the rows from then on; of what is in the storage,  *)
(* the copy once it is loaded, but the rows while they are to replace it.          *)

Stays(p) == {m \in ToChar : m.type = "char" /\ ~m.quits /\ m.p = p}

\* What EveryUnitKept supposes.
Keeping == Undisturbed /\ slips \intersect {"destroyed", "twice"} = {}

\* In s each message of S is followed by one of U; those of S have inv as it is.
Followed(s, S, U) == \A i \in DOMAIN s : s[i] \in S => \E j \in DOMAIN s : j > i /\ s[j] \in U
Carry(s, S, inv) == Without(s, {m \in S : m.inv # inv})

\* The last save of who left is the last, says what it had, and is answered; who enters
\* has what the rows say.
Sheet(p) ==
    /\ sd[p].online \/ Followed(toChar, Stays(p), Leaves(p))
    /\ Carry(toChar, Leaves(p), sd[p].inv) /\ (~Without(toChar, Leaves(p)) => p \in playing)
    /\ Carry(toMap, Enters(p), charDb[p])
    /\ charDb[p] = sd[p].inv \/ Followed(toMap, Left(p), Rows)
    /\ up /\ sd[p].waiting => ~Without(toChar, Leaves(p)) \/ ~Without(toMap, Left(p))

\* The rows on the way, if there are any, will replace the copy: nothing was changed there
\* that is not saved, and no save of it writes over the rows.
Merging ==
    ~Without(toMap, Rows) =>
        /\ Without(toChar, Stores) /\ NoneBefore(toMap, Rows, Acks)
        /\ gstor.dirty => ~gstor.status /\ ~Without(toMap, Acks)

Stock == IF gstor.loaded /\ Without(toMap, Rows) THEN gstor.items ELSE db
Owned(p) == IF sd[p].online \/ ~Without(toChar, Leaves(p)) \/ (~up /\ sd[p].waiting)
            THEN sd[p].inv ELSE charDb[p]
Held(i) == Stock[i] + SumOver([p \in Player |-> Owned(p)[i]], Player)

Conserved == Merging => \A i \in Item : Held(i) = AtFirst(i)
Accounted == (\A p \in Player : Sheet(p)) /\ Conserved
Kept == Keeping => Accounted

LEMMA KindsOfPlayer ==
    ASSUME NEW p \in Player
    PROVE  /\ Stays(p)' = Stays(p) /\ Leaves(p)' = Leaves(p)
           /\ Left(p)' = Left(p) /\ Enters(p)' = Enters(p)
BY DEF Stays, Leaves, Left, Enters, ToChar, ToMap, Bag

\* The parts, of the next state.
LEMMA SheetNext ==
    ASSUME NEW p \in Player,
           sd'[p].online \/ Followed(toChar', Stays(p), Leaves(p)),
           Carry(toChar', Leaves(p), sd'[p].inv),
           ~Without(toChar', Leaves(p)) => p \in playing',
           Carry(toMap', Enters(p), charDb'[p]),
           charDb'[p] = sd'[p].inv \/ Followed(toMap', Left(p), Rows),
           up' /\ sd'[p].waiting => ~Without(toChar', Leaves(p)) \/ ~Without(toMap', Left(p))
    PROVE  Sheet(p)'
<1>1. (sd[p].online \/ Followed(toChar, Stays(p), Leaves(p)))'
  BY KindsOfPlayer DEF Followed
<1>2. (Carry(toChar, Leaves(p), sd[p].inv) /\ (~Without(toChar, Leaves(p)) => p \in playing))'
  BY KindsOfPlayer DEF Carry, Without
<1>3. Carry(toMap, Enters(p), charDb[p])'
  BY KindsOfPlayer DEF Carry, Without
<1>4. (charDb[p] = sd[p].inv \/ Followed(toMap, Left(p), Rows))'
  BY KindsOfPlayer, Kinds DEF Followed
<1>5. (up /\ sd[p].waiting => ~Without(toChar, Leaves(p)) \/ ~Without(toMap, Left(p)))'
  BY KindsOfPlayer DEF Without
<1> QED BY <1>1, <1>2, <1>3, <1>4, <1>5 DEF Sheet

LEMMA MergingNext ==
    /\ Merging' <=>
         (~Without(toMap', Rows) =>
             /\ Without(toChar', Stores) /\ NoneBefore(toMap', Rows, Acks)
             /\ gstor'.dirty => ~gstor'.status /\ ~Without(toMap', Acks))
    /\ Stock' = IF gstor'.loaded /\ Without(toMap', Rows) THEN gstor'.items ELSE db'
<1>1. \A s : Without(s, Rows)' <=> Without(s, Rows)'
  OBVIOUS
<1>2. Without(toMap, Rows)' <=> Without(toMap', Rows)
  BY Kinds DEF Without
<1>3. Without(toChar, Stores)' <=> Without(toChar', Stores)
  BY Kinds DEF Without
<1>4. Without(toMap, Acks)' <=> Without(toMap', Acks)
  BY Kinds DEF Without
<1>5. NoneBefore(toMap, Rows, Acks)' <=> NoneBefore(toMap', Rows, Acks)
  BY Kinds DEF NoneBefore
<1>6. Merging' <=>
         (~Without(toMap', Rows) =>
             /\ Without(toChar', Stores) /\ NoneBefore(toMap', Rows, Acks)
             /\ gstor'.dirty => ~gstor'.status /\ ~Without(toMap', Acks))
  BY <1>2, <1>3, <1>4, <1>5 DEF Merging
<1>7. Stock' = IF gstor'.loaded /\ Without(toMap', Rows) THEN gstor'.items ELSE db'
  BY <1>2 DEF Stock
<1> QED BY <1>6, <1>7

LEMMA OwnedNext ==
    ASSUME NEW p \in Player
    PROVE  Owned(p)' = IF sd'[p].online \/ ~Without(toChar', Leaves(p)) \/ (~up' /\ sd'[p].waiting)
                       THEN sd'[p].inv ELSE charDb'[p]
<1>1. Without(toChar, Leaves(p))' <=> Without(toChar', Leaves(p))
  BY KindsOfPlayer DEF Without
<1> QED BY <1>1 DEF Owned

LEMMA FirstStays ==
    ASSUME setup' = setup, NEW i \in Item
    PROVE  AtFirst(i)' = AtFirst(i)
BY DEF AtFirst, MapThenSumSet, MapThenFoldSet

\* Nothing changes, or units move between the storage and one member.
LEMMA Balanced ==
    ASSUME Shaped, Shaped', Conserved, setup' = setup, NEW p \in Player,
           \A q \in Player : q # p => Owned(q)' = Owned(q),
           Merging' => /\ Merging
                       /\ \A i \in Item : Stock'[i] + Owned(p)'[i] = Stock[i] + Owned(p)[i]
    PROVE  Conserved'
<1> SUFFICES ASSUME Merging', NEW i \in Item PROVE Held(i)' = AtFirst(i)'
  BY DEF Conserved
<1> DEFINE F == [q \in Player |-> Owned(q)[i]]
           G == [q \in Player |-> Owned(q)'[i]]
<1>1. \A q \in Player : F[q] \in Int /\ G[q] \in Int
  BY DEF Shaped, Owned, Sd, Bag
<1>2. SumOver(G, Player) = SumOver(F, Player) - F[p] + G[p]
  <2>1. \A q \in Player : F[q] \in Int /\ G[q] \in Int /\ (q # p => G[q] = F[q])
    BY <1>1
  <2> HIDE DEF F, G
  <2> QED BY <2>1, SumChange, PlayerAssumption
<1>3. Stock[i] \in Int /\ Stock'[i] \in Int
  BY DEF Shaped, Stock, GStor, Bag
<1>4. SumOver(F, Player) \in Int
  <2> HIDE DEF F
  <2> QED BY <1>1, SumInt, PlayerAssumption
<1>5. Held(i) = Stock[i] + SumOver(F, Player) /\ Held(i)' = Stock'[i] + SumOver(G, Player)
  BY DEF Held
<1>6. F[p] = Owned(p)[i] /\ G[p] = Owned(p)'[i]
  OBVIOUS
<1>7. Held(i) = AtFirst(i) /\ Stock'[i] + G[p] = Stock[i] + F[p]
  BY <1>6 DEF Conserved
<1>8. AtFirst(i)' = AtFirst(i)
  BY FirstStays
<1> HIDE DEF F, G
<1> QED BY <1>1, <1>2, <1>3, <1>4, <1>5, <1>7, <1>8

LEMMA Untouched ==
    ASSUME Shaped, Conserved, setup' = setup,
           \A q \in Player : Owned(q)' = Owned(q), Merging' => Merging /\ Stock' = Stock
    PROVE  Conserved'
<1> SUFFICES ASSUME Merging', NEW i \in Item PROVE Held(i)' = AtFirst(i)'
  BY DEF Conserved
<1> DEFINE F == [q \in Player |-> Owned(q)[i]]
           G == [q \in Player |-> Owned(q)'[i]]
<1>1. F = G
  OBVIOUS
<1>2. Held(i) = Stock[i] + SumOver(F, Player) /\ Held(i)' = Stock'[i] + SumOver(G, Player)
  BY DEF Held
<1>3. AtFirst(i)' = AtFirst(i) /\ Held(i) = AtFirst(i)
  BY FirstStays DEF Conserved
<1> HIDE DEF F, G
<1> QED BY <1>1, <1>2, <1>3

-----------------------------------------------------------------------------
(* Sequences of messages, once more. *)

LEMMA Follows ==
    ASSUME NEW T, NEW s \in Seq(T), NEW t \in Seq(T), NEW S, NEW U
    PROVE  /\ Without(s, S) => Followed(s, S, U)
           /\ s # << >> /\ Followed(s, S, U) => Followed(Tail(s), S, U)
           /\ Followed(s, S, U) /\ Followed(t, S, U) => Followed(s \o t, S, U)
           /\ ~Without(t, U) /\ Followed(t, S, U) => Followed(s \o t, S, U)
<1>1. /\ DOMAIN s = 1..Len(s) /\ DOMAIN t = 1..Len(t) /\ Len(s) \in Nat /\ Len(t) \in Nat
      /\ DOMAIN (s \o t) = 1..(Len(s) + Len(t))
      /\ \A i \in 1..Len(s) : (s \o t)[i] = s[i]
      /\ \A i \in 1..Len(t) : (s \o t)[Len(s) + i] = t[i]
  OBVIOUS
<1>2. \A i \in DOMAIN (s \o t) : i \in DOMAIN s \/ (i > Len(s) /\ i - Len(s) \in DOMAIN t /\ (s \o t)[i] = t[i - Len(s)])
  BY CatOf
<1>3. ASSUME s # << >>, Followed(s, S, U), NEW j \in DOMAIN Tail(s), Tail(s)[j] \in S
      PROVE  \E k \in DOMAIN Tail(s) : k > j /\ Tail(s)[k] \in U
  <2>1. /\ j + 1 \in DOMAIN s /\ s[j + 1] = Tail(s)[j] /\ j \in Nat /\ s[1] = Head(s)
        /\ \A i \in DOMAIN s : i = 1 \/ (i - 1 \in DOMAIN Tail(s) /\ s[i] = Tail(s)[i - 1])
    BY <1>3, TailOf
  <2>2. PICK k \in DOMAIN s : k > j + 1 /\ s[k] \in U
    BY <1>3, <2>1 DEF Followed
  <2>3. k - 1 \in DOMAIN Tail(s) /\ s[k] = Tail(s)[k - 1] /\ k - 1 > j
    BY <1>1, <2>1, <2>2
  <2> QED BY <2>2, <2>3
<1>4. ASSUME Followed(t, S, U), Followed(s, S, U) \/ ~Without(t, U), NEW j \in DOMAIN (s \o t),
             (s \o t)[j] \in S
      PROVE  \E k \in DOMAIN (s \o t) : k > j /\ (s \o t)[k] \in U
  <2>1. ASSUME NEW k \in DOMAIN t, t[k] \in U, j < Len(s) + k
        PROVE  Len(s) + k \in DOMAIN (s \o t) /\ Len(s) + k > j /\ (s \o t)[Len(s) + k] \in U
    BY <1>1, <2>1
  <2>2. CASE j \in DOMAIN s /\ Followed(s, S, U)
    BY <1>1, <1>4, <2>2 DEF Followed
  <2>3. CASE j \in DOMAIN s /\ ~Without(t, U)
    <3>1. PICK k \in DOMAIN t : t[k] \in U
      BY <2>3 DEF Without
    <3>2. j < Len(s) + k
      BY <1>1, <2>3, <3>1
    <3> QED BY <2>1, <3>1, <3>2
  <2>4. CASE j \notin DOMAIN s
    <3>1. j - Len(s) \in DOMAIN t /\ (s \o t)[j] = t[j - Len(s)] /\ j \in Int
      BY <1>1, <1>2, <2>4
    <3>2. PICK k \in DOMAIN t : k > j - Len(s) /\ t[k] \in U
      BY <1>4, <3>1 DEF Followed
    <3>3. j < Len(s) + k
      BY <1>1, <3>1, <3>2
    <3> QED BY <2>1, <3>2, <3>3
  <2> QED BY <1>4, <2>2, <2>3, <2>4
<1>5. Without(s, S) => Followed(s, S, U)
  BY DEF Without, Followed
<1> QED BY <1>3, <1>4, <1>5 DEF Followed

\* What a sequence is without, or has in an order, its beginning is and has; and so a
\* sequence, if its first message does not matter.
LEMMA Parts ==
    ASSUME NEW T, NEW s \in Seq(T), NEW t \in Seq(T), NEW S, NEW U
    PROVE  /\ Without(s \o t, S) => Without(s, S) /\ Without(t, S)
           /\ NoneBefore(s \o t, S, U) => NoneBefore(s, S, U) /\ (~Without(s, S) => Without(t, U))
           /\ s # << >> /\ NoneBefore(Tail(s), S, U) /\ Head(s) \notin S => NoneBefore(s, S, U)
<1>1. /\ DOMAIN s = 1..Len(s) /\ DOMAIN t = 1..Len(t) /\ Len(s) \in Nat /\ Len(t) \in Nat
      /\ DOMAIN (s \o t) = 1..(Len(s) + Len(t))
      /\ \A i \in 1..Len(s) : (s \o t)[i] = s[i]
      /\ \A i \in 1..Len(t) : (s \o t)[Len(s) + i] = t[i]
  OBVIOUS
<1>2. /\ \A i \in DOMAIN s : i \in DOMAIN (s \o t) /\ (s \o t)[i] = s[i]
      /\ \A i \in DOMAIN t : Len(s) + i \in DOMAIN (s \o t) /\ (s \o t)[Len(s) + i] = t[i]
  BY <1>1
<1>3. Without(s \o t, S) => Without(s, S) /\ Without(t, S)
  BY <1>2 DEF Without
<1>4. NoneBefore(s \o t, S, U) => NoneBefore(s, S, U)
  BY <1>2 DEF NoneBefore
<1>5. ASSUME NoneBefore(s \o t, S, U), NEW i \in DOMAIN s, s[i] \in S, NEW j \in DOMAIN t, t[j] \in U
      PROVE  FALSE
  <2>1. i < Len(s) + j
    BY <1>1
  <2> QED BY <1>2, <1>5, <2>1 DEF NoneBefore
<1>6. ASSUME s # << >>, NoneBefore(Tail(s), S, U), Head(s) \notin S,
             NEW j \in DOMAIN s, s[j] \in U, NEW i \in DOMAIN s, i < j, s[i] \in S
      PROVE  FALSE
  <2>1. s[1] = Head(s) /\ DOMAIN Tail(s) = 1..(Len(s) - 1) /\ \A k \in DOMAIN Tail(s) : Tail(s)[k] = s[k + 1]
    BY <1>6, TailOf
  <2>2. i # 1 /\ i - 1 \in DOMAIN Tail(s) /\ j - 1 \in DOMAIN Tail(s) /\ i - 1 < j - 1
    BY <1>1, <1>6, <2>1
  <2>3. Tail(s)[i - 1] = s[i] /\ Tail(s)[j - 1] = s[j]
    <3>1. Tail(s)[i - 1] = s[(i - 1) + 1] /\ Tail(s)[j - 1] = s[(j - 1) + 1]
      BY <2>1, <2>2
    <3>2. (i - 1) + 1 = i /\ (j - 1) + 1 = j
      BY <1>1
    <3> QED BY <3>1, <3>2
  <2> QED BY <1>6, <2>2, <2>3 DEF NoneBefore
<1>7. ~Without(s, S) /\ NoneBefore(s \o t, S, U) => Without(t, U)
  BY <1>5 DEF Without
<1>8. s # << >> /\ NoneBefore(Tail(s), S, U) /\ Head(s) \notin S => NoneBefore(s, S, U)
  BY <1>6 DEF NoneBefore
<1> QED BY <1>3, <1>4, <1>7, <1>8

-----------------------------------------------------------------------------
(* What a step keeps of them. *)

\* The map-server takes one message, or none, and saves p only while it is there.
LEMMA SheetKept ==
    ASSUME IInv, NEW p \in Player, Sheet(p), NEW more \in Seq(ToChar), toChar' = toChar \o more,
           Without(more, Leaves(p)), sd[p].online \/ Without(more, Stays(p)),
           toMap' = toMap \/ (toMap # << >> /\ toMap' = Tail(toMap)
                              /\ (Head(toMap) \in Left(p) => ~sd'[p].waiting)),
           playing' = playing, charDb' = charDb, up' = up,
           sd'[p].online = sd[p].online, sd'[p].waiting => sd[p].waiting,
           sd'[p].inv = sd[p].inv \/ sd[p].online
    PROVE  Sheet(p)'
<1>1. toChar \in Seq(ToChar) /\ toMap \in Seq(ToMap) /\ Session(p) /\ << >> \in Seq(ToChar)
  BY DEF IInv, Shaped
<1>2. sd'[p].online \/ Followed(toChar', Stays(p), Leaves(p))
  <2>1. CASE ~sd[p].online
    <3>1. Followed(more, Stays(p), Leaves(p)) /\ Followed(toChar, Stays(p), Leaves(p))
      BY <1>1, <2>1, Follows DEF Sheet
    <3> QED BY <1>1, <3>1, Follows
  <2> QED BY <2>1
<1>3. sd[p].online => Without(toChar, Leaves(p)) /\ Without(toMap, Left(p))
  BY <1>1 DEF Session
<1>4. /\ Without(toChar, Leaves(p)) => Without(toChar', Leaves(p))
      /\ ~Without(toChar, Leaves(p)) => ~Without(toChar', Leaves(p))
  BY <1>1, Cats, CatsMore
<1>5. Carry(toChar', Leaves(p), sd'[p].inv)
  <2>1. CASE sd[p].online
    BY <1>3, <1>4, <2>1 DEF Carry, Without
  <2>2. CASE sd'[p].inv = sd[p].inv
    <3> DEFINE S == {m \in Leaves(p) : m.inv # sd[p].inv}
    <3>1. Without(toChar, S) /\ Without(more, S)
      BY DEF Sheet, Carry, Without
    <3>2. Without(toChar', S)
      <4> HIDE DEF S
      <4> QED BY <1>1, <3>1, Cats
    <3> QED BY <2>2, <3>2 DEF Carry
  <2> QED BY <2>1, <2>2
<1>6. ~Without(toChar', Leaves(p)) => p \in playing'
  BY <1>4 DEF Sheet
<1>7. \A S : Without(toMap, S) => Without(toMap', S)
  BY <1>1, Tails
<1>8. Carry(toMap', Enters(p), charDb'[p])
  BY <1>7 DEF Sheet, Carry
<1>9. charDb'[p] = sd'[p].inv \/ Followed(toMap', Left(p), Rows)
  <2>1. CASE sd[p].online
    <3>1. toMap' \in Seq(ToMap) /\ Without(toMap', Left(p))
      BY <1>1, <1>3, <1>7, <2>1, TailOf
    <3> QED BY <3>1, Follows
  <2>2. CASE sd'[p].inv = sd[p].inv
    <3>1. Followed(toMap, Left(p), Rows) => Followed(toMap', Left(p), Rows)
      BY <1>1, Follows
    <3> QED BY <2>2, <3>1 DEF Sheet
  <2> QED BY <2>1, <2>2
<1>10. ASSUME up', sd'[p].waiting
       PROVE  ~Without(toChar', Leaves(p)) \/ ~Without(toMap', Left(p))
  <2>1. ~Without(toMap, Left(p)) => ~Without(toMap', Left(p))
    BY <1>1, <1>10, TailsMore
  <2> QED BY <1>4, <1>10, <2>1 DEF Sheet
<1> QED BY <1>2, <1>5, <1>6, <1>8, <1>9, <1>10, SheetNext

\* The char-server takes one message, or none, that is not the last save of p.
LEMMA SheetAnswered ==
    ASSUME IInv, NEW p \in Player, Sheet(p), NEW more \in Seq(ToMap), toMap' = toMap \o more,
           Carry(more, Enters(p), charDb'[p]), Without(more, Left(p)),
           toChar' = toChar \/ (toChar # << >> /\ toChar' = Tail(toChar) /\ Head(toChar) \notin Leaves(p)),
           p \in playing => p \in playing', up' = up, sd' = sd,
           \/ charDb'[p] = charDb[p]
           \/ Without(toMap, Enters(p)) /\ (Without(toMap, Left(p)) \/ ~Without(more, Rows))
    PROVE  Sheet(p)'
<1>1. toChar \in Seq(ToChar) /\ toMap \in Seq(ToMap)
  BY DEF IInv, Shaped
<1>2. Followed(toChar, Stays(p), Leaves(p)) => Followed(toChar', Stays(p), Leaves(p))
  BY <1>1, Follows
<1>3. \A S : Without(toChar, S) => Without(toChar', S)
  BY <1>1, Tails
<1>4. ~Without(toChar, Leaves(p)) <=> ~Without(toChar', Leaves(p))
  <2>1. toChar # << >> /\ ~Without(toChar, Leaves(p)) /\ Head(toChar) \notin Leaves(p)
        => ~Without(Tail(toChar), Leaves(p))
    BY <1>1, TailsMore
  <2> QED BY <1>3, <2>1
<1>5. Carry(toMap', Enters(p), charDb'[p])
  <2> DEFINE S == {m \in Enters(p) : m.inv # charDb'[p]}
  <2>1. Without(more, S)
    BY DEF Carry
  <2>2. Without(toMap, S)
    BY DEF Sheet, Carry, Without
  <2>3. Without(toMap', S)
    <3> HIDE DEF S
    <3> QED BY <1>1, <2>1, <2>2, Cats
  <2> QED BY <2>3 DEF Carry
<1>6. Followed(more, Left(p), Rows)
  BY Follows
<1>7. charDb'[p] = sd'[p].inv \/ Followed(toMap', Left(p), Rows)
  <2>1. CASE charDb'[p] = charDb[p]
    <3>1. Followed(toMap, Left(p), Rows) => Followed(toMap', Left(p), Rows)
      BY <1>1, <1>6, Follows
    <3> QED BY <2>1, <3>1 DEF Sheet
  <2>2. CASE Without(toMap, Left(p))
    <3>1. Followed(toMap, Left(p), Rows)
      BY <1>1, <2>2, Follows
    <3> QED BY <1>1, <1>6, <3>1, Follows
  <2>3. CASE ~Without(more, Rows)
    BY <1>1, <1>6, <2>3, Follows
  <2> QED BY <2>1, <2>2, <2>3
<1>8. ~Without(toMap, Left(p)) => ~Without(toMap', Left(p))
  BY <1>1, CatsMore
<1> QED BY <1>2, <1>3, <1>4, <1>5, <1>7, <1>8, SheetNext DEF Sheet, Carry

LEMMA OwnedKept ==
    ASSUME IInv, NEW p \in Player,
           \/ \E more \in Seq(ToChar) : toChar' = toChar \o more /\ Without(more, Leaves(p))
           \/ toChar # << >> /\ toChar' = Tail(toChar) /\ Head(toChar) \notin Leaves(p),
           up' = up, charDb'[p] = charDb[p],
           sd'[p].inv = sd[p].inv, sd'[p].online = sd[p].online, up \/ sd'[p].waiting = sd[p].waiting
    PROVE  Owned(p)' = Owned(p)
<1>1. toChar \in Seq(ToChar)
  BY DEF IInv, Shaped
<1>2. Without(toChar', Leaves(p)) <=> Without(toChar, Leaves(p))
  <2>1. CASE \E more \in Seq(ToChar) : toChar' = toChar \o more /\ Without(more, Leaves(p))
    BY <1>1, <2>1, Cats, CatsMore
  <2>2. CASE toChar # << >> /\ toChar' = Tail(toChar) /\ Head(toChar) \notin Leaves(p)
    BY <1>1, <2>2, Tails, TailsMore
  <2> QED BY <2>1, <2>2
<1>3. Without(toChar, Leaves(p)) \in BOOLEAN
  BY DEF Without
<1> QED BY <1>2, <1>3, OwnedNext DEF Owned

\* The storage is left as it is, and settled; or it is changed, which is no good for rows
\* on the way.
LEMMA StockKept ==
    ASSUME IInv, Order, NEW n, Settled(n), gstor' = n.gstor, toChar' = toChar \o n.out,
           toMap' = toMap \/ (toMap # << >> /\ toMap' = Tail(toMap) /\ Head(toMap) \notin Rows),
           db' = db, up' = up, Merging'
    PROVE  /\ n.gstor.items = gstor.items => Merging /\ Stock' = Stock
           /\ (n.gstor.dirty /\ n.gstor.status) \/ ~Without(n.out, Stores) =>
                Merging /\ Without(toMap, Rows) /\ Without(toMap', Rows)
<1>1. toChar \in Seq(ToChar) /\ toMap \in Seq(ToMap) /\ gstor \in GStor /\ up \in BOOLEAN
  BY DEF IInv, Shaped
<1>2. n.out \in Seq(ToChar) /\ n.gstor \in GStor
  BY DEF Settled, Honest
<1>3. Without(toMap', Rows) <=> Without(toMap, Rows)
  BY <1>1, Tails, TailsMore
<1>4. /\ Merging' => (~Without(toMap', Rows) =>
                        /\ Without(toChar', Stores) /\ NoneBefore(toMap', Rows, Acks)
                        /\ gstor'.dirty => ~gstor'.status /\ ~Without(toMap', Acks))
      /\ Stock' = IF gstor'.loaded /\ Without(toMap', Rows) THEN gstor'.items ELSE db'
  BY MergingNext
<1>5. ASSUME ~Without(toMap, Rows)
      PROVE  /\ Without(toChar, Stores) /\ Without(n.out, Stores)
             /\ NoneBefore(toMap, Rows, Acks)
             /\ n.gstor.dirty => ~n.gstor.status /\ ~Without(toMap, Acks)
  <2>1. Without(toChar', Stores) /\ NoneBefore(toMap', Rows, Acks)
        /\ (n.gstor.dirty => ~n.gstor.status /\ ~Without(toMap', Acks))
    BY <1>3, <1>4, <1>5
  <2>2. Without(toChar, Stores) /\ Without(n.out, Stores)
    BY <1>1, <1>2, <2>1, Parts
  <2>3. NoneBefore(toMap, Rows, Acks)
    BY <1>1, <2>1, Parts
  <2>4. ~Without(toMap', Acks) => ~Without(toMap, Acks)
    BY <1>1, Tails
  <2> QED BY <2>1, <2>2, <2>3, <2>4
<1>6. ASSUME ~Without(toMap, Rows), gstor.dirty, n.gstor.items = gstor.items PROVE ~gstor.status
  <2>1. n.gstor.dirty /\ n.gstor.loaded
    BY <1>6 DEF Settled
  <2>2. ~n.gstor.status /\ Without(n.out, Stores) /\ up
    <3>1. up
      BY <1>6 DEF IInv, Shaped, Without
    <3> QED BY <1>5, <1>6, <2>1, <3>1
  <2> QED BY <1>1, <1>6, <2>1, <2>2 DEF Settled
<1>7. n.gstor.items = gstor.items => Merging
  BY <1>5, <1>6 DEF Merging, Settled
<1>8. n.gstor.items = gstor.items => Stock' = Stock
  <2>1. gstor'.loaded = gstor.loaded
    BY DEF Settled
  <2> QED BY <1>3, <1>4, <2>1 DEF Stock
<1>9. (n.gstor.dirty /\ n.gstor.status) \/ ~Without(n.out, Stores) => Without(toMap, Rows)
  BY <1>5
<1> QED BY <1>3, <1>7, <1>8, <1>9 DEF Merging

\* The copy is left alone; so are the rows on the way.
LEMMA MergingSent ==
    ASSUME IInv, NEW more \in Seq(ToChar), toChar' = toChar \o more,
           toMap' = toMap \/ (toMap # << >> /\ toMap' = Tail(toMap) /\ Head(toMap) \notin Rows),
           gstor'.items = gstor.items, gstor'.loaded = gstor.loaded,
           gstor'.dirty = gstor.dirty, gstor'.status = gstor.status, db' = db, Merging'
    PROVE  Merging /\ Stock' = Stock
<1>1. toChar \in Seq(ToChar) /\ toMap \in Seq(ToMap)
  BY DEF IInv, Shaped
<1>2. Without(toMap', Rows) <=> Without(toMap, Rows)
  <2>1. toMap # << >> => (Without(toMap, Rows) => Without(Tail(toMap), Rows))
    BY <1>1, Tails
  <2>2. toMap # << >> /\ ~Without(toMap, Rows) /\ Head(toMap) \notin Rows => ~Without(Tail(toMap), Rows)
    BY <1>1, TailsMore
  <2> QED BY <2>1, <2>2
<1>3. /\ Merging' <=> (~Without(toMap', Rows) =>
                        /\ Without(toChar', Stores) /\ NoneBefore(toMap', Rows, Acks)
                        /\ gstor'.dirty => ~gstor'.status /\ ~Without(toMap', Acks))
      /\ Stock' = IF gstor'.loaded /\ Without(toMap', Rows) THEN gstor'.items ELSE db'
  BY MergingNext
<1>4. ASSUME ~Without(toMap, Rows)
      PROVE  /\ Without(toChar, Stores) /\ NoneBefore(toMap, Rows, Acks)
             /\ gstor.dirty => ~gstor.status /\ ~Without(toMap, Acks)
  <2>1. /\ Without(toChar', Stores) /\ NoneBefore(toMap', Rows, Acks)
        /\ gstor.dirty => ~gstor.status /\ ~Without(toMap', Acks)
    BY <1>2, <1>3, <1>4
  <2>2. Without(toChar, Stores)
    BY <1>1, <2>1, Parts
  <2>3. toMap # << >> /\ Head(toMap) \notin Rows /\ NoneBefore(Tail(toMap), Rows, Acks)
        => NoneBefore(toMap, Rows, Acks)
    BY <1>1, Parts
  <2>4. ~Without(toMap', Acks) => ~Without(toMap, Acks)
    BY <1>1, Tails
  <2> QED BY <2>1, <2>2, <2>3, <2>4
<1> QED BY <1>2, <1>3, <1>4 DEF Merging, Stock

\* The char-server answers, but not with rows.
LEMMA MergingAnswered ==
    ASSUME IInv, NEW more \in Seq(ToMap), toMap' = toMap \o more, Without(more, Rows),
           \/ toChar' = toChar
           \/ toChar # << >> /\ toChar' = Tail(toChar)
              /\ (Head(toChar) \notin Stores \/ ~Without(more, Acks)),
           gstor' = gstor, Merging'
    PROVE  /\ Merging /\ Stock' = IF gstor.loaded /\ Without(toMap, Rows) THEN gstor.items ELSE db'
           /\ ~Without(toMap, Rows) => Without(more, Acks)
<1>1. toChar \in Seq(ToChar) /\ toMap \in Seq(ToMap)
  BY DEF IInv, Shaped
<1>2. Without(toMap', Rows) <=> Without(toMap, Rows)
  BY <1>1, Cats, CatsMore
<1>3. /\ Merging' <=> (~Without(toMap', Rows) =>
                        /\ Without(toChar', Stores) /\ NoneBefore(toMap', Rows, Acks)
                        /\ gstor'.dirty => ~gstor'.status /\ ~Without(toMap', Acks))
      /\ Stock' = IF gstor'.loaded /\ Without(toMap', Rows) THEN gstor'.items ELSE db'
  BY MergingNext
<1>4. ASSUME ~Without(toMap, Rows)
      PROVE  /\ Without(toChar, Stores) /\ NoneBefore(toMap, Rows, Acks) /\ Without(more, Acks)
             /\ gstor.dirty => ~gstor.status /\ ~Without(toMap, Acks)
  <2>1. /\ Without(toChar', Stores) /\ NoneBefore(toMap', Rows, Acks)
        /\ gstor.dirty => ~gstor.status /\ ~Without(toMap', Acks)
    BY <1>2, <1>3, <1>4
  <2>2. NoneBefore(toMap, Rows, Acks) /\ Without(more, Acks)
    BY <1>1, <1>4, <2>1, Parts
  <2>3. Without(toMap, Acks) => Without(toMap', Acks)
    BY <1>1, <2>2, Cats
  <2>4. Without(toChar, Stores)
    BY <1>1, <2>1, <2>2, TailsMore
  <2> QED BY <2>1, <2>2, <2>3, <2>4
<1> QED BY <1>2, <1>3, <1>4 DEF Merging

\* The map-server saves some of those there, and moves nothing.
LEMMA AccountedStill ==
    ASSUME IInv, Accounted, NEW more \in Seq(Plain), Attend(more), toChar' = toChar \o more,
           toMap' = toMap \/ (toMap # << >> /\ toMap' = Tail(toMap)
                              /\ \A q \in Player : Head(toMap) \in Left(q) => ~sd'[q].waiting),
           \A q \in Player : /\ sd'[q].online = sd[q].online /\ sd'[q].inv = sd[q].inv
                             /\ sd'[q].waiting => sd[q].waiting
                             /\ up \/ sd'[q].waiting = sd[q].waiting,
           UNCHANGED <<CharSide, Fixed>>,
           Merging' => Merging /\ Stock' = Stock
    PROVE  Accounted'
<1>1. more \in Seq(ToChar) /\ playing' = playing /\ charDb' = charDb /\ up' = up /\ setup' = setup
  BY DEF Plain, CharSide, Fixed
<1>2. ASSUME NEW q \in Player
      PROVE  Without(more, Leaves(q)) /\ (sd[q].online \/ Without(more, Stays(q)))
  <2>1. \A i \in DOMAIN more : more[i] \in Plain
    OBVIOUS
  <2>2. Without(more, Leaves(q))
    BY <2>1 DEF Without, Leaves, Plain
  <2>3. sd[q].online \/ Without(more, Stays(q))
    BY DEF Attend, Without, Stays
  <2> QED BY <2>2, <2>3
<1>3. ASSUME NEW q \in Player
      PROVE  Sheet(q)' /\ Owned(q)' = Owned(q)
  <2>1. Sheet(q)
    BY DEF Accounted
  <2>2. Without(more, Leaves(q)) /\ (sd[q].online \/ Without(more, Stays(q)))
    BY <1>2
  <2>3. Sheet(q)'
    BY <1>1, <2>1, <2>2, SheetKept
  <2>4. Owned(q)' = Owned(q)
    BY <1>1, <2>2, OwnedKept
  <2> QED BY <2>3, <2>4
<1>4. Conserved'
  BY <1>1, <1>3, Untouched DEF IInv, Accounted
<1> QED BY <1>3, <1>4 DEF Accounted

LEMMA NoneSent == << >> \in Seq(Plain) /\ Attend(<< >>) /\ (IInv => toChar = toChar \o << >>)
BY DEF Attend, IInv, Shaped

\* So it is when the map-server settles with the items where they were.
LEMMA AccountedSame ==
    ASSUME IInv, Order, Accounted, NEW n, Settled(n), Same(n, Now), Does(n),
           toMap' = toMap \/ (FromChar("withdraw") /\ toMap' = Tail(toMap)),
           UNCHANGED <<CharSide, Fixed>>
    PROVE  Accounted'
<1>1. FromChar("withdraw") => /\ toMap # << >> /\ Head(toMap) \notin Rows
                              /\ \A q \in Player : Head(toMap) \notin Left(q)
  BY DEF FromChar, Rows, Left
<1>2. gstor' = n.gstor /\ sd' = n.sd /\ toChar' = toChar \o n.out /\ db' = db /\ up' = up
  BY DEF Does, CharSide, Fixed
<1>3. n.out \in Seq(Plain) /\ Attend(n.out) /\ n.gstor.items = gstor.items
      /\ \A q \in Player : /\ n.sd[q].inv = sd[q].inv /\ n.sd[q].online = sd[q].online
                           /\ n.sd[q].waiting = sd[q].waiting
  BY DEF Same, There, Side, Now
<1>4. Merging' => Merging /\ Stock' = Stock
  BY <1>1, <1>2, <1>3, StockKept
<1> QED BY <1>1, <1>2, <1>3, <1>4, AccountedStill

LEMMA AccountedClose ==
    ASSUME IInv, Order, Accounted, NEW p \in Player, sd[p].online, sd[p].open \/ ~gstor.status,
           Does(GuildStorageClose(Now, p)),
           UNCHANGED <<CharSide, known, toMap, Fixed, slips>>
    PROVE  Accounted'
<1> DEFINE n == GuildStorageClose(Now, p)
<1>1. Now \in Side /\ Attend(Now.out) /\ Now.sd = sd
  BY NowAttends
<1>2. Settled(n)
  BY ClosedSettles
<1>3. Same(n, Now)
  BY <1>1, CloseAttends
<1>4. Does(n)
  OBVIOUS
<1> HIDE DEF n
<1> QED BY <1>2, <1>3, <1>4, AccountedSame

LEMMA AccountedOpen ==
    ASSUME IInv, Order, Accounted, NEW p \in Player, GuildStorageOpen(p)
    PROVE  Accounted'
<1>1. Now \in Side /\ Attend(Now.out) /\ Now.gstor = gstor /\ Now.sd = sd
  BY NowAttends
<1>2. CASE ~gstor.loaded
  <2> DEFINE msg == [type |-> "load", p |-> p]
             n == Sent(Now, msg)
  <2>1. msg \in Plain /\ msg.type # "char"
    BY DEF Plain, ToChar
  <2> HIDE DEF msg
  <2>2. Same(n, Now) /\ n.gstor = gstor /\ n.sd = sd
    BY <1>1, <2>1, SentAttends, SentSide
  <2>3. Does(n) /\ UNCHANGED <<CharSide, toMap, Fixed>>
    BY <1>2 DEF GuildStorageOpen, msg
  <2> HIDE DEF n
  <2>4. n.out \in Seq(Plain) /\ n.out \in Seq(ToChar) /\ Attend(n.out)
    BY <2>2 DEF Same, Side, Plain
  <2>5. gstor' = gstor /\ sd' = sd /\ toChar' = toChar \o n.out /\ toMap' = toMap /\ db' = db
    BY <2>2, <2>3 DEF Does, CharSide
  <2>6. Merging' => Merging /\ Stock' = Stock
    BY <2>4, <2>5, MergingSent
  <2> QED BY <2>3, <2>4, <2>5, <2>6, AccountedStill
<1>3. CASE gstor.loaded
  <2> DEFINE n == [Now EXCEPT !.gstor.status = TRUE, !.sd[p].open = TRUE]
             g == [gstor EXCEPT !.status = TRUE]
             d == [sd EXCEPT ![p] = [sd[p] EXCEPT !.open = TRUE]]
  <2>1. /\ gstor \in GStor /\ sd \in [Player -> Sd] /\ sd[p] \in Sd
        /\ Now = [gstor |-> gstor, sd |-> sd, out |-> << >>]
    BY DEF IInv, Shaped, Now
  <2>2. n = [gstor |-> g, sd |-> d, out |-> << >>]
    <3>1. n = [[Now EXCEPT !.gstor = g] EXCEPT !.sd = d]
      BY <2>1 DEF GStor
    <3> HIDE DEF n, g, d
    <3>2. [Now EXCEPT !.gstor = g] = [gstor |-> g, sd |-> sd, out |-> << >>]
      BY <2>1
    <3> QED BY <3>1, <3>2
  <2>3. /\ g \in GStor /\ g.loaded = gstor.loaded /\ g.dirty = gstor.dirty
        /\ g.items = gstor.items /\ g.status
    BY <2>1 DEF GStor
  <2>4. /\ d \in [Player -> Sd]
        /\ \A q \in Player : d[q].online = sd[q].online /\ d[q].waiting = sd[q].waiting
                             /\ d[q].inv = sd[q].inv
    BY <2>1 DEF Sd
  <2>5. Does(n) /\ UNCHANGED <<CharSide, toMap, Fixed>>
    BY <1>3 DEF GuildStorageOpen
  <2>6. ~gstor.status
    BY <1>3 DEF GuildStorageOpen
  <2> HIDE DEF n, g, d
  <2>7. Settled(n)
    <3>1. Honest(n)
      <4>1. << >> \in Seq(ToChar)
        OBVIOUS
      <4> QED BY <2>2, <2>3, <4>1 DEF Honest, Without
    <3>2. n.gstor.loaded = gstor.loaded /\ n.gstor.dirty = gstor.dirty /\ n.gstor.items = gstor.items
          /\ n.gstor.status
      BY <2>2, <2>3
    <3>3. gstor.dirty \in BOOLEAN
      BY <2>1 DEF GStor
    <3> QED BY <3>1, <3>2, <3>3, SettledIs
  <2>8. Same(n, Now)
    BY <1>1, <2>2, <2>3, <2>4, NoneSent DEF Same, There, Side
  <2> QED BY <2>5, <2>7, <2>8, AccountedSame
<1> QED BY <1>2, <1>3

LEMMA AccountedAutoSave ==
    ASSUME IInv, Order, Accounted, NEW p \in Player, AutoSave(p)
    PROVE  Accounted'
<1> DEFINE n == ChrifSave(Now, p, FALSE)
<1>1. Now \in Side /\ Attend(Now.out) /\ Now.gstor = gstor /\ Now.sd = sd /\ Honest(Now)
  BY NowAttends, NowSettled
<1>2. Honest(n) /\ n.gstor = gstor /\ n.sd = sd
  BY <1>1, SaveHonest
<1>3. Settled(n)
  BY <1>2, SettledIs
<1>4. Same(n, Now)
  BY <1>1, SaveAttends DEF AutoSave
<1>5. Does(n) /\ UNCHANGED <<CharSide, known, toMap, Fixed, slips>>
  BY DEF AutoSave
<1> HIDE DEF n
<1> QED BY <1>3, <1>4, <1>5, AccountedSame

\* Handlers that send nothing and leave the copy and the items as they are.
LEMMA AccountedIdle ==
    ASSUME IInv, Accounted, toMap # << >>, toMap' = Tail(toMap), Head(toMap) \notin Rows,
           \A q \in Player : Head(toMap) \in Left(q) => ~sd'[q].waiting,
           gstor'.items = gstor.items, gstor'.loaded = gstor.loaded,
           gstor'.dirty = gstor.dirty, gstor'.status = gstor.status,
           toChar' = toChar, UNCHANGED <<CharSide, Fixed>>,
           \A q \in Player : /\ sd'[q].online = sd[q].online /\ sd'[q].inv = sd[q].inv
                             /\ sd'[q].waiting => sd[q].waiting
    PROVE  Accounted'
<1>1. << >> \in Seq(Plain) /\ << >> \in Seq(ToChar) /\ Attend(<< >>) /\ toChar' = toChar \o << >>
  BY NoneSent
<1>2. Merging' => Merging /\ Stock' = Stock
  BY <1>1, MergingSent DEF CharSide
<1>3. up
  BY DEF IInv, Shaped
<1> QED BY <1>1, <1>2, <1>3, AccountedStill

LEMMA AccountedUnlock ==
    ASSUME IInv, Accounted, IntifParseItemboundAck
    PROVE  Accounted'
<1>1. gstor \in GStor /\ gstor' = [gstor EXCEPT !.lock = FALSE] /\ sd' = sd
  BY DEF IInv, Shaped, IntifParseItemboundAck, CharSide
<1>2. /\ gstor'.loaded = gstor.loaded /\ gstor'.dirty = gstor.dirty
      /\ gstor'.status = gstor.status /\ gstor'.items = gstor.items
  BY <1>1 DEF GStor
<1> QED BY <1>1, <1>2, AccountedIdle DEF IntifParseItemboundAck, FromChar, Rows, Left

LEMMA AccountedSaveAck ==
    ASSUME IInv, Accounted, ChrifSaveAck
    PROVE  Accounted'
<1> DEFINE p == Head(toMap).p
<1>1. /\ toMap # << >> /\ toMap' = Tail(toMap) /\ Head(toMap).type = "charSaved"
      /\ gstor' = gstor /\ toChar' = toChar /\ UNCHANGED <<CharSide, Fixed>>
      /\ sd' = [sd EXCEPT ![p].waiting = FALSE]
  BY DEF ChrifSaveAck, FromChar
<1>2. sd \in [Player -> Sd] /\ Head(toMap) \notin Rows
  BY <1>1 DEF IInv, Shaped, Rows
<1>3. \A q \in Player : /\ sd'[q].online = sd[q].online /\ sd'[q].inv = sd[q].inv
                        /\ sd'[q].waiting => sd[q].waiting
                        /\ q = p => ~sd'[q].waiting
  BY <1>1, <1>2 DEF Sd
<1>4. \A q \in Player : Head(toMap) \in Left(q) => ~sd'[q].waiting
  BY <1>3 DEF Left
<1> QED BY <1>1, <1>2, <1>3, <1>4, AccountedIdle

\* Of who is on the map the session data tells.
LEMMA OwnedOnline ==
    ASSUME NEW p \in Player, sd[p].online, sd'[p].online
    PROVE  Owned(p) = sd[p].inv /\ Owned(p)' = sd'[p].inv
BY OwnedNext DEF Owned

LEMMA AccountedMove ==
    ASSUME IInv, Accounted, NEW p \in Player, NEW i \in Item, NEW x \in Nat, NEW y \in Nat, Usable(p),
           x + y = gstor.items[i] + sd[p].inv[i],
           Does([Now EXCEPT !.gstor.items[i] = x, !.gstor.dirty = TRUE, !.sd[p].inv[i] = y]),
           UNCHANGED <<CharSide, known, toMap, Fixed, slips>>
    PROVE  Accounted'
<1> DEFINE g == [gstor EXCEPT !.items = [gstor.items EXCEPT ![i] = x], !.dirty = TRUE]
           d == [sd EXCEPT ![p] = [sd[p] EXCEPT !.inv = [sd[p].inv EXCEPT ![i] = y]]]
           k == [Now EXCEPT !.gstor.items[i] = x, !.gstor.dirty = TRUE, !.sd[p].inv[i] = y]
<1>1. /\ gstor \in GStor /\ gstor.items \in Bag /\ Now = [gstor |-> gstor, sd |-> sd, out |-> << >>]
      /\ sd \in [Player -> Sd] /\ sd[p] \in Sd /\ sd[p].inv \in Bag /\ toChar \in Seq(ToChar)
      /\ << >> \in Seq(ToChar)
  BY DEF IInv, Shaped, Now, GStor, Sd
<1>2. [gstor.items EXCEPT ![i] = x] \in Bag /\ [sd[p].inv EXCEPT ![i] = y] \in Bag
  BY <1>1 DEF Bag
<1>3. /\ g.loaded = gstor.loaded /\ g.status = gstor.status /\ g.dirty
      /\ g.items[i] = x /\ \A j \in Item \ {i} : g.items[j] = gstor.items[j]
  BY <1>1, <1>2 DEF GStor, Bag
<1>4. /\ d[p].online = sd[p].online /\ d[p].waiting = sd[p].waiting /\ d[p].inv[i] = y
      /\ \A j \in Item \ {i} : d[p].inv[j] = sd[p].inv[j]
      /\ \A q \in Player \ {p} : d[q] = sd[q]
  BY <1>1, <1>2 DEF Sd, Bag
<1>5. k.gstor = g /\ k.sd = d /\ k.out = << >>
  <2>1. k = [[Now EXCEPT !.gstor = g] EXCEPT !.sd = d]
    BY <1>1 DEF GStor
  <2> HIDE DEF k, g, d
  <2>2. [Now EXCEPT !.gstor = g] = [gstor |-> g, sd |-> sd, out |-> << >>]
    BY <1>1
  <2> QED BY <2>1, <2>2
<1>6. Does(k)
  OBVIOUS
<1> HIDE DEF g, d, k
<1>7. gstor' = g /\ sd' = d /\ toChar' = toChar /\ toChar' = toChar \o << >>
  <2>1. gstor' = g /\ sd' = d /\ toChar' = toChar \o << >>
    BY <1>5, <1>6 DEF Does
  <2> QED BY <2>1, NoneSent
<1>8. sd[p].online /\ gstor.status /\ gstor.loaded /\ sd'[p].online
  BY <1>4, <1>7 DEF Usable
<1>9. \A q \in Player : /\ sd'[q].online = sd[q].online /\ sd'[q].waiting = sd[q].waiting
                        /\ q # p => sd'[q] = sd[q]
  BY <1>4, <1>7
<1>10. \A q \in Player : Without(<< >>, Leaves(q)) /\ Without(<< >>, Stays(q))
  BY DEF Without
<1>11. ASSUME NEW q \in Player
       PROVE  Sheet(q)' /\ (q # p => Owned(q)' = Owned(q))
  <2>1. Sheet(q)
    BY DEF Accounted
  <2>2. sd'[q].online = sd[q].online /\ sd'[q].waiting = sd[q].waiting
        /\ (sd'[q].inv = sd[q].inv \/ sd[q].online)
    BY <1>8, <1>9
  <2>3. Sheet(q)'
    BY <1>1, <1>7, <1>10, <2>1, <2>2, SheetKept DEF CharSide, Fixed
  <2>4. ASSUME q # p PROVE Owned(q)' = Owned(q)
    <3>1. sd'[q].inv = sd[q].inv
      BY <1>9, <2>4
    <3>2. toChar' = toChar \o << >> /\ Without(<< >>, Leaves(q))
      BY <1>7, <1>10
    <3> QED BY <1>1, <2>2, <3>1, <3>2, OwnedKept DEF CharSide, Fixed
  <2> QED BY <2>3, <2>4
<1>12. ASSUME Merging'
       PROVE  Merging /\ \A j \in Item : Stock'[j] + Owned(p)'[j] = Stock[j] + Owned(p)[j]
  <2>1. toMap' = toMap
    OBVIOUS
  <2>2. Without(toMap, Rows)
    BY <1>3, <1>7, <1>8, <1>12, <2>1, MergingNext
  <2>3. Stock = gstor.items /\ Stock' = g.items
    BY <1>3, <1>7, <1>8, <2>1, <2>2, MergingNext DEF Stock
  <2>4. Owned(p) = sd[p].inv /\ Owned(p)' = d[p].inv
    BY <1>7, <1>8, OwnedOnline
  <2>5. ASSUME NEW j \in Item PROVE g.items[j] + d[p].inv[j] = gstor.items[j] + sd[p].inv[j]
    BY <1>3, <1>4
  <2> QED BY <2>2, <2>3, <2>4, <2>5 DEF Merging
<1>13. gstor' \in GStor /\ sd' \in [Player -> Sd]
  BY <1>1, <1>2, <1>7 DEF g, d, GStor, Sd
<1>14. Shaped'
  BY <1>7, <1>13 DEF IInv, Shaped, CharSide, Fixed, ToChar, ToMap, GStor, Sd, Bag
<1>15. Conserved'
  BY <1>11, <1>12, <1>14, Balanced DEF IInv, Accounted, Fixed
<1> QED BY <1>11, <1>15 DEF Accounted

LEMMA AccountedAdd ==
    ASSUME IInv, Order, Accounted, NEW p \in Player, NEW i \in Item, NEW cart \in BOOLEAN,
           GuildStorageAdd(p, i, cart)
    PROVE  Accounted'
<1>1. CASE gstor.lock /\ ~cart
  BY <1>1, AccountedClose DEF GuildStorageAdd, Usable
<1>2. CASE ~(gstor.lock /\ ~cart)
  <2>1. gstor.items[i] \in Nat /\ sd[p].inv[i] \in Nat /\ sd[p].inv[i] > 0 /\ Usable(p)
    BY DEF GuildStorageAdd, IInv, Shaped, GStor, Sd, Bag
  <2>2. Does([Now EXCEPT !.gstor.items[i] = gstor.items[i] + 1, !.gstor.dirty = TRUE,
                         !.sd[p].inv[i] = sd[p].inv[i] - 1])
        /\ UNCHANGED <<CharSide, known, toMap, Fixed, slips>>
    BY <1>2 DEF GuildStorageAdd, Now
  <2>3. gstor.items[i] + 1 \in Nat /\ sd[p].inv[i] - 1 \in Nat
        /\ (gstor.items[i] + 1) + (sd[p].inv[i] - 1) = gstor.items[i] + sd[p].inv[i]
    BY <2>1
  <2> QED BY <2>1, <2>2, <2>3, AccountedMove
<1> QED BY <1>1, <1>2

LEMMA AccountedGet ==
    ASSUME IInv, Order, Accounted, NEW p \in Player, NEW i \in Item, NEW cart \in BOOLEAN,
           GuildStorageGet(p, i, cart)
    PROVE  Accounted'
<1>1. CASE gstor.lock /\ ~cart
  BY <1>1, AccountedClose DEF GuildStorageGet, Usable
<1>2. CASE ~(gstor.lock /\ ~cart)
  <2>1. gstor.items[i] \in Nat /\ sd[p].inv[i] \in Nat /\ gstor.items[i] > 0 /\ Usable(p)
    BY DEF GuildStorageGet, IInv, Shaped, GStor, Sd, Bag
  <2>2. Does([Now EXCEPT !.gstor.items[i] = gstor.items[i] - 1, !.gstor.dirty = TRUE,
                         !.sd[p].inv[i] = sd[p].inv[i] + 1])
        /\ UNCHANGED <<CharSide, known, toMap, Fixed, slips>>
    BY <1>2 DEF GuildStorageGet, Now
  <2>3. gstor.items[i] - 1 \in Nat /\ sd[p].inv[i] + 1 \in Nat
        /\ (gstor.items[i] - 1) + (sd[p].inv[i] + 1) = gstor.items[i] + sd[p].inv[i]
    BY <2>1
  <2> QED BY <2>1, <2>2, <2>3, AccountedMove
<1> QED BY <1>1, <1>2

\* What a member leaves with goes to the storage, all of it.
LEMMA AccountedClear ==
    ASSUME IInv, IInv', Order, Accounted, up, NEW p \in Player, sd[p].online,
           ClearingSlips(p) \intersect {"destroyed", "unsaved"} = {},
           NEW n, Settled(n), n.out \in Seq(Plain), Attend(n.out), Does(n),
           \A q \in Player : There(n, Now, q), \A q \in Player \ {p} : n.sd[q].inv = sd[q].inv,
           n.sd[p].inv = [i \in Item |-> IF i \in Bound THEN 0 ELSE sd[p].inv[i]],
           n.gstor.items = [i \in Item |-> IF /\ i \in Bound
                                              /\ gstor.loaded /\ sd[p].inv[i] > 0
                                              /\ gstor.items[i] + sd[p].inv[i] <= MaxAmount
                                           THEN gstor.items[i] + sd[p].inv[i] ELSE gstor.items[i]],
           toMap' = toMap \/ (FromChar("withdraw") /\ toMap' = Tail(toMap)),
           UNCHANGED <<CharSide, Fixed>>
    PROVE  Accounted'
<1> DEFINE into == [i \in Item |-> IF /\ i \in Bound
                                      /\ gstor.loaded /\ sd[p].inv[i] > 0
                                      /\ gstor.items[i] + sd[p].inv[i] <= MaxAmount
                                   THEN gstor.items[i] + sd[p].inv[i] ELSE gstor.items[i]]
           rest == [i \in Item |-> IF i \in Bound THEN 0 ELSE sd[p].inv[i]]
           left == {i \in Bound : sd[p].inv[i] > 0}
<1>1. /\ gstor \in GStor /\ gstor.items \in Bag /\ sd[p].inv \in Bag
      /\ gstor.loaded \in BOOLEAN /\ gstor.status \in BOOLEAN /\ Bound \subseteq Item
  BY BoundAssumption DEF IInv, Shaped, GStor, Sd
<1>2. \A i \in left : gstor.loaded /\ gstor.items[i] + sd[p].inv[i] <= MaxAmount
  <2>1. "destroyed" \notin ClearingSlips(p)
    OBVIOUS
  <2>2. ~\E i \in left : ~gstor.loaded \/ gstor.items[i] + sd[p].inv[i] > MaxAmount
    BY <2>1 DEF ClearingSlips
  <2>3. \A i \in left : gstor.items[i] \in Nat /\ sd[p].inv[i] \in Nat
    BY <1>1 DEF Bag
  <2> QED BY <2>2, <2>3, BoundsAssumption
<1>3. \A i \in Item : into[i] + rest[i] = gstor.items[i] + sd[p].inv[i]
  <2> TAKE i \in Item
  <2>1. gstor.items[i] \in Nat /\ sd[p].inv[i] \in Nat
    BY <1>1 DEF Bag
  <2>2. CASE i \in left
    BY <1>2, <2>1, <2>2
  <2>3. CASE i \notin left
    BY <2>1, <2>3
  <2> QED BY <2>2, <2>3
<1>4. into # gstor.items => gstor.loaded /\ left # {}
  <2>1. ASSUME ~gstor.loaded \/ left = {}, NEW i \in Item PROVE into[i] = gstor.items[i]
    BY <1>1, <2>1
  <2>2. into \in Bag
    BY <1>1 DEF Bag
  <2> QED BY <1>1, <2>1, <2>2 DEF Bag
<1>5. n.gstor.items = into /\ n.sd[p].inv = rest
  OBVIOUS
<1>6. /\ gstor' = n.gstor /\ sd' = n.sd /\ toChar' = toChar \o n.out
      /\ db' = db /\ charDb' = charDb /\ playing' = playing /\ up' = up /\ setup' = setup
  BY DEF Does, CharSide, Fixed
<1> HIDE DEF into, rest, left
<1>7. FromChar("withdraw") => /\ toMap # << >> /\ Head(toMap) \notin Rows
                              /\ \A q \in Player : Head(toMap) \notin Left(q)
  BY DEF FromChar, Rows, Left
<1>8. toMap' = toMap \/ (toMap # << >> /\ toMap' = Tail(toMap) /\ Head(toMap) \notin Rows)
  BY <1>7
<1>9. n.out \in Seq(ToChar) /\ \A i \in DOMAIN n.out : n.out[i] \in Plain
  BY DEF Plain
<1>10. ASSUME NEW q \in Player
       PROVE  Sheet(q)' /\ (q # p => Owned(q)' = Owned(q))
  <2>1. Sheet(q)
    BY DEF Accounted
  <2>2. sd'[q].online = sd[q].online /\ sd'[q].waiting = sd[q].waiting
        /\ (sd'[q].inv = sd[q].inv \/ sd[q].online)
    BY <1>6 DEF There, Now
  <2>3. Without(n.out, Leaves(q)) /\ (sd[q].online \/ Without(n.out, Stays(q)))
    BY <1>9 DEF Attend, Without, Stays, Leaves, Plain
  <2>4. toMap' = toMap \/ (toMap # << >> /\ toMap' = Tail(toMap) /\ (Head(toMap) \in Left(q) => ~sd'[q].waiting))
    BY <1>7
  <2>5. Sheet(q)'
    BY <1>6, <1>9, <2>1, <2>2, <2>3, <2>4, SheetKept
  <2>6. ASSUME q # p PROVE Owned(q)' = Owned(q)
    <3>1. sd'[q].inv = sd[q].inv
      BY <1>6, <2>6
    <3> QED BY <1>6, <1>9, <2>2, <2>3, <3>1, OwnedKept
  <2> QED BY <2>5, <2>6
<1>11. ASSUME Merging'
       PROVE  Merging /\ \A j \in Item : Stock'[j] + Owned(p)'[j] = Stock[j] + Owned(p)[j]
  <2>1. Owned(p) = sd[p].inv /\ Owned(p)' = rest
    BY <1>5, <1>6, OwnedOnline DEF There, Now
  <2>2. /\ n.gstor.items = gstor.items => Merging /\ Stock' = Stock
        /\ (n.gstor.dirty /\ n.gstor.status) \/ ~Without(n.out, Stores) =>
              Merging /\ Without(toMap, Rows) /\ Without(toMap', Rows)
    BY <1>6, <1>8, <1>11, StockKept
  <2>3. CASE into = gstor.items
    <3>1. Merging /\ Stock' = Stock
      BY <1>5, <2>2, <2>3
    <3>2. \A j \in Item : rest[j] = sd[p].inv[j]
      <4> TAKE j \in Item
      <4>1. gstor.items[j] \in Nat /\ sd[p].inv[j] \in Nat /\ rest[j] \in Nat
        BY <1>1 DEF Bag, rest
      <4> QED BY <1>3, <2>3, <4>1
    <3> QED BY <2>1, <3>1, <3>2
  <2>4. CASE into # gstor.items
    <3>1. gstor.loaded /\ n.gstor.loaded
      BY <1>4, <2>4 DEF Settled
    <3>2. (n.gstor.dirty /\ n.gstor.status) \/ ~Without(n.out, Stores)
      BY <1>5, <2>4, <3>1 DEF Settled
    <3>3. Merging /\ Stock = gstor.items /\ Stock' = into
      BY <1>5, <1>6, <2>2, <3>1, <3>2, MergingNext DEF Stock
    <3> QED BY <1>3, <2>1, <3>3
  <2> QED BY <2>3, <2>4
<1>12. Conserved'
  BY <1>6, <1>10, <1>11, Balanced DEF IInv, Accounted
<1> QED BY <1>10, <1>12 DEF Accounted

LEMMA AccountedGuildBreak ==
    ASSUME IInv, IInv', Order, Accounted, NEW p \in Player, GuildBreak(p), Keeping'
    PROVE  Accounted'
<1> DEFINE left == PcBoundClear(Now, p)
           k == Sent(left, [type |-> "break"])
<1>1. /\ sd[p].online /\ up
      /\ Does(k) /\ UNCHANGED <<CharSide, known, toMap, Fixed>>
      /\ slips' = slips \union ClearingSlips(p)
  BY DEF GuildBreak, Slipped
<1>2. ClearingSlips(p) \intersect {"destroyed", "unsaved"} = {}
  BY <1>1 DEF Keeping, Undisturbed
<1>3. Settled(left)
  BY <1>2, ClearSettles
<1>4. /\ left \in Side /\ Attend(left.out)
      /\ \A q \in Player \ {p} : left.sd[q].inv = sd[q].inv
      /\ left.sd[p].inv = [i \in Item |-> IF i \in Bound THEN 0 ELSE sd[p].inv[i]]
      /\ left.gstor.items =
           [i \in Item |-> IF /\ i \in Bound
                              /\ gstor.loaded /\ sd[p].inv[i] > 0
                              /\ gstor.items[i] + sd[p].inv[i] <= MaxAmount
                           THEN gstor.items[i] + sd[p].inv[i] ELSE gstor.items[i]]
      /\ \A q \in Player : There(left, Now, q)
  BY <1>1, ClearAttends
<1> HIDE DEF left
<1>6. /\ [type |-> "break"] \in ToChar /\ [type |-> "break"] \notin Loads
      /\ [type |-> "break"] \notin Stores /\ [type |-> "break"] \in Plain
  BY DEF ToChar, Loads, Stores, Plain
<1>7. left = [gstor |-> left.gstor, sd |-> left.sd, out |-> left.out] /\ Honest(left)
  BY <1>3, <1>4 DEF Side, Settled
<1>8. Honest(k) /\ k.gstor = left.gstor /\ (~Without(left.out, Stores) => ~Without(k.out, Stores))
  BY <1>6, <1>7, SentHonest
<1>9. k.sd = left.sd
  BY <1>4, <1>6, SentSide
<1>10. k.out \in Seq(Plain) /\ Attend(k.out)
  BY <1>4, <1>6, SentAttends DEF Same, Side
<1> HIDE DEF k
<1>11. Settled(k)
  BY <1>3, <1>8 DEF Settled
<1>12. \A q \in Player : There(k, Now, q)
  BY <1>4, <1>9 DEF There
<1> QED BY <1>1, <1>2, <1>4, <1>8, <1>9, <1>10, <1>11, <1>12, AccountedClear

LEMMA AccountedWithdraw ==
    ASSUME IInv, IInv', Order, Accounted, GuildMemberWithdraw, Keeping'
    PROVE  Accounted'
<1> DEFINE p == Head(toMap).p
           left == IF sd[p].online THEN PcBoundClear(Now, p) ELSE ItemboundReq(Now, p)
           k == [left EXCEPT !.sd[p].open = FALSE, !.sd[p].guild = FALSE]
           d == [left.sd EXCEPT ![p] = [[left.sd[p] EXCEPT !.open = FALSE] EXCEPT !.guild = FALSE]]
<1>1. toMap # << >> /\ toMap' = Tail(toMap) /\ Head(toMap).type = "withdraw" /\ FromChar("withdraw")
  BY DEF GuildMemberWithdraw, FromChar
<1>2. Head(toMap) \in ToMap /\ Head(toMap) \notin Rows /\ \A q \in Player : Head(toMap) \notin Left(q)
  BY <1>1, TailOf DEF IInv, Shaped, Rows, Left
<1>3. p \in Player /\ up
  BY <1>1, <1>2 DEF ToMap, IInv, Shaped
<1>4. UNCHANGED <<CharSide, Fixed>>
  BY DEF GuildMemberWithdraw
<1>5. CASE UNCHANGED <<gstor, sd, toChar, slips>>
  BY <1>1, <1>2, <1>4, <1>5, AccountedIdle
<1>6. CASE Does(k) /\ slips' = IF sd[p].online THEN slips \union ClearingSlips(p) ELSE slips
  <2>1. sd[p].online => ClearingSlips(p) \intersect {"destroyed", "unsaved"} = {}
    <3> HIDE DEF p, k
    <3> QED BY <1>6 DEF Keeping, Undisturbed
  <2>2. Does(k)
    BY <1>6
  <2>3. ASSUME left \in Side
        PROVE  /\ k.gstor = left.gstor /\ k.out = left.out /\ k \in Side
               /\ \A q \in Player : There(k, left, q) /\ k.sd[q].inv = left.sd[q].inv
    <3> HIDE DEF p, left
    <3>1. left = [gstor |-> left.gstor, sd |-> left.sd, out |-> left.out]
          /\ left.sd \in [Player -> Sd] /\ left.sd[p] \in Sd
      BY <1>3, <2>3 DEF Side
    <3>2. /\ d \in [Player -> Sd]
          /\ \A q \in Player : /\ d[q].online = left.sd[q].online
                               /\ d[q].waiting = left.sd[q].waiting
                               /\ d[q].inv = left.sd[q].inv
      BY <3>1 DEF Sd
    <3>3. k = [left EXCEPT !.sd = d]
      BY <3>1
    <3> HIDE DEF k, d
    <3>4. k = [gstor |-> left.gstor, sd |-> d, out |-> left.out]
      BY <3>1, <3>3
    <3>5. k \in Side
      BY <2>3, <3>2, <3>4 DEF Side
    <3> QED BY <3>2, <3>4, <3>5 DEF There
  <2>4. CASE sd[p].online
    <3> DEFINE n == PcBoundClear(Now, p)
    <3>1. left = n
      BY <2>4
    <3>2. Settled(n)
      BY <1>3, <2>1, <2>4, ClearSettles
    <3>3. /\ n \in Side /\ Attend(n.out)
          /\ \A q \in Player \ {p} : n.sd[q].inv = sd[q].inv
          /\ n.sd[p].inv = [i \in Item |-> IF i \in Bound THEN 0 ELSE sd[p].inv[i]]
          /\ n.gstor.items =
               [i \in Item |-> IF /\ i \in Bound
                                  /\ gstor.loaded /\ sd[p].inv[i] > 0
                                  /\ gstor.items[i] + sd[p].inv[i] <= MaxAmount
                               THEN gstor.items[i] + sd[p].inv[i] ELSE gstor.items[i]]
          /\ \A q \in Player : There(n, Now, q)
      <4> HIDE DEF p
      <4> QED BY <1>3, <2>4, ClearAttends
    <3> HIDE DEF n, left
    <3>5. /\ k.gstor = n.gstor /\ k.out = n.out
          /\ \A q \in Player : There(k, n, q) /\ k.sd[q].inv = n.sd[q].inv
      BY <2>3, <3>1, <3>3
    <3> HIDE DEF k, p
    <3>6. Settled(k)
      BY <3>2, <3>5 DEF Settled, Honest
    <3>7. k.out \in Seq(Plain) /\ Attend(k.out)
      BY <3>3, <3>5 DEF Side
    <3>8. \A q \in Player : There(k, Now, q)
      BY <3>3, <3>5 DEF There
    <3> QED BY <1>1, <1>3, <1>4, <2>1, <2>2, <2>4, <3>3, <3>5, <3>6, <3>7, <3>8, AccountedClear
  <2>5. CASE ~sd[p].online
    <3> DEFINE n == ItemboundReq(Now, p)
    <3>1. left = n
      BY <2>5
    <3>2. Settled(n) /\ n \in Side
      BY <1>3, RequestSettles
    <3>3. Same(n, Now)
      <4> HIDE DEF p
      <4> QED BY <1>3, RequestAttends
    <3> HIDE DEF n, left
    <3>5. /\ k.gstor = n.gstor /\ k.out = n.out /\ k \in Side
          /\ \A q \in Player : There(k, n, q) /\ k.sd[q].inv = n.sd[q].inv
      BY <2>3, <3>1, <3>2
    <3> HIDE DEF k, p
    <3>6. Settled(k)
      BY <3>2, <3>5 DEF Settled, Honest
    <3>7. Same(k, Now)
      BY <3>3, <3>5 DEF Same, There
    <3> QED BY <1>1, <1>4, <2>2, <3>6, <3>7, AccountedSame
  <2> QED BY <2>4, <2>5
<1> QED BY <1>5, <1>6 DEF GuildMemberWithdraw, Slipped

LEMMA AccountedQuit ==
    ASSUME IInv, Order, Accounted, NEW p \in Player, MapQuit(p)
    PROVE  Accounted'
<1>1. PICK n, more :
              /\ Settled(n) /\ Does(n) /\ n.gstor.items = gstor.items
              /\ \A q \in Player \ {p} : There(n, Now, q) /\ n.sd[q].inv = sd[q].inv
              /\ ~n.sd[p].online /\ n.sd[p].waiting /\ n.sd[p].inv = sd[p].inv
              /\ more \in Seq(Plain) /\ Attend(more) /\ LastSave(p) \in ToChar
              /\ ~up => more = << >>
              /\ n.out = IF up THEN more \o <<LastSave(p)>> ELSE more
  BY QuitSettles
<1>2. /\ gstor' = n.gstor /\ sd' = n.sd /\ toChar' = toChar \o n.out /\ toMap' = toMap
      /\ db' = db /\ charDb' = charDb /\ playing' = playing /\ up' = up /\ setup' = setup
      /\ sd[p].online
  BY <1>1 DEF Does, MapQuit, CharSide, Fixed
<1>3. /\ toChar \in Seq(ToChar) /\ toMap \in Seq(ToMap) /\ up \in BOOLEAN /\ Session(p) /\ Sheet(p)
      /\ (~up => toChar = << >> /\ toMap = << >>)
  BY DEF IInv, Shaped, Accounted
<1>4. /\ more \in Seq(ToChar) /\ <<LastSave(p)>> \in Seq(ToChar) /\ n.out \in Seq(ToChar)
      /\ << >> \in Seq(ToChar)
  BY <1>1 DEF Plain, Settled, Honest
<1>5. \A q \in Player : Without(more, Leaves(q)) /\ (q # p => Without(more, Stays(q)) \/ sd[q].online)
  <2>1. \A i \in DOMAIN more : more[i] \in Plain
    BY <1>1
  <2> QED BY <1>1, <2>1 DEF Without, Leaves, Stays, Plain, Attend
<1>6. /\ LastSave(p) \in Leaves(p) /\ LastSave(p).inv = sd[p].inv
      /\ \A q \in Player : /\ LastSave(p) \notin Stays(q)
                           /\ q # p => LastSave(p) \notin Leaves(q)
  BY <1>1 DEF LastSave, Leaves, Stays
<1>7. ASSUME NEW q \in Player, q # p
      PROVE  Sheet(q)' /\ Owned(q)' = Owned(q)
  <2>1. Without(n.out, Leaves(q)) /\ (sd[q].online \/ Without(n.out, Stays(q)))
    <3>1. CASE up
      <4>1. Without(<<LastSave(p)>>, Leaves(q)) /\ Without(<<LastSave(p)>>, Stays(q))
        BY <1>6, <1>7, Ones
      <4> QED BY <1>1, <1>4, <1>5, <1>7, <3>1, <4>1, Cats
    <3>2. CASE ~up
      BY <1>1, <1>5, <1>7, <3>2
    <3> QED BY <3>1, <3>2
  <2>2. sd'[q].online = sd[q].online /\ sd'[q].waiting = sd[q].waiting /\ sd'[q].inv = sd[q].inv
    BY <1>1, <1>2, <1>7 DEF There, Now
  <2>3. Sheet(q)
    BY DEF Accounted
  <2>4. Sheet(q)'
    BY <1>2, <1>4, <2>1, <2>2, <2>3, SheetKept
  <2>5. Owned(q)' = Owned(q)
    BY <1>2, <1>4, <2>1, <2>2, OwnedKept
  <2> QED BY <2>4, <2>5
<1>8. Without(toChar, Leaves(p)) /\ Without(toMap, Left(p)) /\ (up => p \in playing)
  BY <1>2, <1>3 DEF Session
<1>9. up => ~Without(toChar', Leaves(p))
  <2>1. ~Without(<<LastSave(p)>>, Leaves(p))
    BY <1>6, OnesMore
  <2> QED BY <1>1, <1>2, <1>3, <1>4, <2>1, CatsMore
<1>10. ~up => toChar' = << >>
  BY <1>1, <1>2, <1>3
<1>11. Sheet(p)'
  <2>1. Followed(toChar', Stays(p), Leaves(p))
    <3>1. CASE up
      <4>1. Followed(<<LastSave(p)>>, Stays(p), Leaves(p)) /\ ~Without(<<LastSave(p)>>, Leaves(p))
        BY <1>4, <1>6, Ones, OnesMore, Follows
      <4>2. Followed(n.out, Stays(p), Leaves(p)) /\ ~Without(n.out, Leaves(p))
        BY <1>1, <1>4, <3>1, <4>1, Follows, CatsMore
      <4> QED BY <1>2, <1>3, <1>4, <4>2, Follows
    <3>2. CASE ~up
      BY <1>10, <3>2 DEF Followed
    <3> QED BY <3>1, <3>2
  <2>2. Carry(toChar', Leaves(p), sd'[p].inv)
    <3> DEFINE S == {m \in Leaves(p) : m.inv # sd[p].inv}
    <3>1. Without(toChar, S) /\ Without(more, S) /\ Without(<<LastSave(p)>>, S)
      BY <1>5, <1>6, <1>8, Ones DEF Without
    <3> HIDE DEF S
    <3>2. Without(n.out, S)
      BY <1>1, <1>4, <3>1, Cats
    <3>3. Without(toChar', S)
      BY <1>2, <1>3, <1>4, <3>1, <3>2, Cats
    <3> QED BY <1>1, <1>2, <3>3 DEF S, Carry
  <2>3. ~Without(toChar', Leaves(p)) => p \in playing'
    BY <1>2, <1>8, <1>10, Ones
  <2>4. Carry(toMap', Enters(p), charDb'[p])
    BY <1>2, <1>3 DEF Sheet
  <2>5. Followed(toMap', Left(p), Rows)
    BY <1>2, <1>3, <1>8, Follows
  <2> QED BY <1>2, <1>9, <2>1, <2>2, <2>3, <2>4, <2>5, SheetNext
<1>12. Owned(p)' = Owned(p)
  <2>1. Owned(p) = sd[p].inv
    BY <1>2 DEF Owned
  <2>2. Owned(p)' = sd'[p].inv
    <3>1. ~Without(toChar', Leaves(p)) \/ (~up' /\ sd'[p].waiting)
      BY <1>1, <1>2, <1>9
    <3> QED BY <3>1, OwnedNext
  <2> QED BY <1>1, <1>2, <2>1, <2>2
<1>13. Merging' => Merging /\ Stock' = Stock
  BY <1>1, <1>2, StockKept
<1>14. Conserved'
  BY <1>2, <1>7, <1>12, <1>13, Untouched DEF IInv, Accounted
<1> QED BY <1>7, <1>11, <1>14 DEF Accounted

LEMMA AccountedSaved ==
    ASSUME IInv, Accounted, GuildStorageSaved
    PROVE  Accounted'
<1>1. /\ toMap # << >> /\ toMap' = Tail(toMap) /\ Head(toMap).type = "saved"
      /\ gstor' = [gstor EXCEPT !.dirty = gstor.dirty /\ gstor.status]
      /\ sd' = sd /\ toChar' = toChar /\ UNCHANGED <<CharSide, Fixed>>
  BY DEF GuildStorageSaved, FromChar
<1>2. /\ toChar \in Seq(ToChar) /\ toMap \in Seq(ToMap) /\ gstor \in GStor /\ Head(toMap) \in ToMap
  BY <1>1, TailOf DEF IInv, Shaped
<1>3. Head(toMap) \in Acks /\ Head(toMap) \notin Rows /\ \A q \in Player : Head(toMap) \notin Left(q)
  BY <1>1, <1>2, KindsOf DEF Rows, Left
<1>4. /\ gstor'.loaded = gstor.loaded /\ gstor'.items = gstor.items /\ gstor'.status = gstor.status
      /\ gstor'.dirty <=> gstor.dirty /\ gstor.status
  BY <1>1, <1>2 DEF GStor
<1>5. ASSUME Merging' PROVE Merging /\ Stock' = Stock
  <2>1. Without(toMap', Rows) <=> Without(toMap, Rows)
    BY <1>1, <1>2, <1>3, Tails, TailsMore
  <2>2. ASSUME ~Without(toMap, Rows)
        PROVE  /\ Without(toChar, Stores) /\ NoneBefore(toMap, Rows, Acks)
               /\ gstor.dirty => ~gstor.status /\ ~Without(toMap, Acks)
    <3>1. /\ Without(toChar, Stores) /\ NoneBefore(toMap', Rows, Acks)
          /\ gstor'.dirty => ~gstor'.status
      BY <1>1, <1>5, <2>1, <2>2, MergingNext
    <3>2. NoneBefore(toMap, Rows, Acks)
      BY <1>1, <1>2, <1>3, <3>1, Parts
    <3>3. ~Without(toMap, Acks)
      BY <1>1, <1>2, <1>3, TailOf DEF Without
    <3> QED BY <1>4, <3>1, <3>2, <3>3
  <2>3. Stock' = Stock
    BY <1>1, <1>4, <2>1, MergingNext DEF Stock, CharSide
  <2> QED BY <2>2, <2>3 DEF Merging
<1>6. << >> \in Seq(Plain) /\ Attend(<< >>) /\ toChar' = toChar \o << >>
  BY <1>1, NoneSent
<1> QED BY <1>1, <1>3, <1>5, <1>6, AccountedStill

\* A storage arrives: the copy becomes what the rows are.
LEMMA AccountedLoaded ==
    ASSUME IInv, Order, Undisturbed, Accounted, IntifParseLoadGuildStorage, Keeping'
    PROVE  Accounted'
<1> DEFINE msg == Head(toMap)
           opens == msg.opens /\ sd[msg.p].guild /\ ~sd[msg.p].open
           kept == \/ ~msg.exists \/ ~known.exists \/ (msg.opens /\ ~sd[msg.p].online)
                   \/ gstor.status \/ gstor.dirty
           late == ~msg.opens /\ (gstor.status \/ gstor.dirty \/ AnotherSave)
<1>1. /\ toMap # << >> /\ toMap' = Tail(toMap) /\ msg.type = "storage"
      /\ IF kept THEN UNCHANGED <<gstor, sd>>
         ELSE /\ gstor' = [loaded |-> TRUE, dirty |-> FALSE, status |-> opens,
                           lock |-> FALSE, items |-> msg.items]
              /\ sd' = IF opens THEN [sd EXCEPT ![msg.p].open = TRUE] ELSE sd
      /\ slips' = IF late THEN slips \union {"overtaken"} ELSE slips
      /\ toChar' = toChar /\ UNCHANGED <<CharSide, Fixed>>
  BY DEF IntifParseLoadGuildStorage, FromChar, Slipped
<1>2. /\ toChar \in Seq(ToChar) /\ toMap \in Seq(ToMap) /\ gstor \in GStor /\ msg \in ToMap
      /\ sd \in [Player -> Sd]
      /\ DOMAIN toMap = 1..Len(toMap) /\ Len(toMap) \in Nat \ {0} /\ toMap[1] = msg
  BY <1>1, TailOf DEF IInv, Shaped
<1>3. msg \in Opens \union Rows /\ (msg \in Opens <=> msg.opens) /\ (msg \in Rows <=> ~msg.opens)
  BY <1>1, <1>2 DEF Opens, Rows, ToMap
<1>4. msg.exists /\ known.exists
  <2>1. msg \notin Void
    BY <1>2 DEF Order, StoragesAre, Without
  <2>2. guild.exists
    BY DEF Undisturbed
  <2> QED BY <1>1, <1>2, <2>1, <2>2 DEF Void, IInv, Breaking
<1>5. ~late
  <2> HIDE DEF late
  <2> QED BY <1>1 DEF Keeping, Undisturbed
<1>6. \A q \in Player : /\ sd'[q].online = sd[q].online /\ sd'[q].inv = sd[q].inv
                        /\ sd'[q].waiting = sd[q].waiting
  <2>1. CASE sd' = sd
    BY <2>1
  <2>2. CASE sd' = [sd EXCEPT ![msg.p].open = TRUE]
    <3>1. \A q \in Player : sd'[q] \in {sd[q], [sd[q] EXCEPT !.open = TRUE]}
      BY <1>2, <2>2
    <3>2. \A q \in Player : LET e == [sd[q] EXCEPT !.open = TRUE]
                            IN  e.online = sd[q].online /\ e.inv = sd[q].inv /\ e.waiting = sd[q].waiting
      BY <1>2 DEF Sd
    <3> QED BY <3>1, <3>2
  <2> QED BY <1>1, <2>1, <2>2
<1>7. \A q \in Player : msg \notin Left(q)
  BY <1>1 DEF Left
<1>8. << >> \in Seq(Plain) /\ Attend(<< >>) /\ toChar' = toChar \o << >>
  BY <1>1, NoneSent
<1>9. CASE kept
  <2>1. msg.opens
    BY <1>4, <1>5, <1>9
  <2>2. gstor' = gstor /\ sd' = sd
    BY <1>1, <1>9
  <2> QED BY <1>1, <1>3, <1>7, <2>1, <2>2, AccountedIdle
<1>10. CASE ~kept
  <2>1. ~gstor.dirty /\ ~gstor.status /\ gstor'.loaded /\ gstor'.items = msg.items
    BY <1>1, <1>10
  <2>2. \A S : Without(toMap, S) => Without(toMap', S)
    BY <1>1, <1>2, Tails
  <2>3. db' = db
    BY <1>1 DEF CharSide
  <2>4. ASSUME Merging' PROVE Merging /\ Stock' = Stock
    <3>1. /\ Merging' <=> (~Without(toMap', Rows) =>
                            /\ Without(toChar', Stores) /\ NoneBefore(toMap', Rows, Acks)
                            /\ gstor'.dirty => ~gstor'.status /\ ~Without(toMap', Acks))
          /\ Stock' = IF gstor'.loaded /\ Without(toMap', Rows) THEN gstor'.items ELSE db'
      BY MergingNext
    <3>2. CASE msg.opens
      <4>1. msg \in Opens /\ msg \notin Rows
        BY <1>3, <3>2
      <4>2. Without(toMap', Rows) <=> Without(toMap, Rows)
        BY <1>1, <1>2, <2>2, <4>1, TailsMore
      <4>3. ~Without(toMap, Rows) => Without(toChar, Stores) /\ NoneBefore(toMap, Rows, Acks)
        BY <1>1, <1>2, <2>4, <3>1, <4>1, <4>2, Parts
      <4>4. Merging
        BY <2>1, <4>3 DEF Merging
      <4>5. ASSUME Without(toMap, Rows) PROVE msg.items = db /\ (gstor.loaded => gstor.items = db)
        <5>1. msg.items = db
          BY <1>2, <2>1, <4>1, <4>5 DEF Order, StoragesAre, Are, Without
        <5>2. "early" \notin slips
          BY <1>2, <4>1 DEF Order, LoadsFirst, Without
        <5>3. Without(toChar, Stores)
          BY <2>1, <5>2 DEF Order, UnmarkedSendsNone
        <5>4. gstor.loaded => WrittenIn(toChar, db, gstor.items)
          BY <2>1, <4>5 DEF Order, CopyIsWritten
        <5> QED BY <5>1, <5>3, <5>4 DEF WrittenIn, Without
      <4> QED BY <2>1, <2>3, <3>1, <4>2, <4>4, <4>5 DEF Stock
    <3>3. CASE ~msg.opens
      <4>1. msg \in Rows /\ msg \notin Acks
        BY <1>1, <1>3, <3>3 DEF Acks
      <4>2. ~AnotherSave
        BY <1>5, <3>3
      <4>3. Without(toChar, Stores)
        BY <4>2 DEF AnotherSave, Without, Stores
      <4>4. Without(toMap, Acks)
        <5>1. \A i \in DOMAIN toMap : i = 1 \/ i \in 2..Len(toMap)
          BY <1>2
        <5> QED BY <1>2, <4>1, <4>2, <5>1 DEF AnotherSave, Without, Acks
      <4>5. ~Without(toMap, Rows)
        BY <1>2, <4>1 DEF Without
      <4>6. Merging
        BY <2>1, <4>3, <4>4 DEF Merging, NoneBefore, Without
      <4>7. Stock = db
        BY <4>5 DEF Stock
      <4>8. Without(toMap', Rows) => msg.items = db
        <5>1. Without(toMap', Rows) => \A k \in DOMAIN toMap : k > 1 => toMap[k] \notin Rows
          <6>1. /\ \A k \in DOMAIN Tail(toMap) : Tail(toMap)[k] = toMap[k + 1]
                /\ DOMAIN Tail(toMap) = 1..(Len(toMap) - 1)
            BY <1>1, <1>2, TailOf
          <6>2. ASSUME NEW k \in DOMAIN toMap, k > 1
                PROVE  k - 1 \in DOMAIN Tail(toMap) /\ Tail(toMap)[k - 1] = toMap[k]
            <7>1. k - 1 \in DOMAIN Tail(toMap) /\ (k - 1) + 1 = k
              BY <1>2, <6>1, <6>2
            <7>2. Tail(toMap)[k - 1] = toMap[(k - 1) + 1]
              BY <6>1, <7>1
            <7> QED BY <7>1, <7>2
          <6> QED BY <1>1, <6>2 DEF Without
        <5>2. msg.items = db \/ \E k \in DOMAIN toMap : k > 1 /\ toMap[k] \in Rows \union Acks
          BY <1>2, <4>1 DEF Order, StoragesAre, Are
        <5> QED BY <4>4, <5>1, <5>2 DEF Without
      <4> QED BY <2>1, <2>3, <3>1, <4>6, <4>7, <4>8
    <3> QED BY <3>2, <3>3
  <2> HIDE DEF msg
  <2> QED BY <1>1, <1>6, <1>7, <1>8, <2>4, AccountedStill DEF msg
<1> QED BY <1>9, <1>10

\* Who enters comes with what the rows say, which is what it had there.
LEMMA AccountedEnter ==
    ASSUME IInv, Accounted, PcAuthOk
    PROVE  Accounted'
<1> DEFINE msg == Head(toMap)
<1>1. /\ toMap # << >> /\ toMap' = Tail(toMap) /\ msg.type = "enter"
      /\ sd' = [sd EXCEPT ![msg.p] = [online |-> TRUE, guild |-> msg.guild, open |-> FALSE,
                                      waiting |-> FALSE, inv |-> msg.inv]]
      /\ gstor' = gstor /\ toChar' = toChar /\ db' = db /\ charDb' = charDb /\ playing' = playing
      /\ up' = up /\ setup' = setup
  BY DEF PcAuthOk, FromChar, CharSide, Fixed
<1>2. /\ toChar \in Seq(ToChar) /\ toMap \in Seq(ToMap) /\ msg \in ToMap /\ sd \in [Player -> Sd]
      /\ up /\ DOMAIN toMap = 1..Len(toMap) /\ Len(toMap) \in Nat \ {0} /\ toMap[1] = msg
      /\ << >> \in Seq(ToChar) /\ toChar' = toChar \o << >>
  BY <1>1, TailOf, NoneSent DEF IInv, Shaped
<1>0. PICK p \in Player : p = msg.p
  BY <1>1, <1>2 DEF ToMap
<1>3. msg \in Enters(p) /\ msg \notin Rows /\ \A q \in Player : msg \notin Left(q)
  BY <1>0, <1>1, <1>2 DEF ToMap, Enters, Rows, Left
<1>4. ~sd[p].online /\ ~sd[p].waiting /\ Without(toChar, Leaves(p)) /\ Without(toMap, Left(p))
  <2>1. ~Without(toMap, Enters(p)) /\ Session(p)
    BY <1>2, <1>3 DEF Without, IInv
  <2> QED BY <2>1 DEF Session
<1>5. msg.inv = charDb[p]
  <2>1. Carry(toMap, Enters(p), charDb[p])
    BY <1>3 DEF Accounted, Sheet
  <2> QED BY <1>2, <1>3, <2>1 DEF Carry, Without
<1>6. /\ sd'[p].online /\ ~sd'[p].waiting /\ sd'[p].inv = charDb[p]
      /\ \A q \in Player \ {p} : sd'[q] = sd[q]
  BY <1>0, <1>1, <1>2, <1>5
<1>7. \A q \in Player : Without(<< >>, Leaves(q)) /\ Without(<< >>, Stays(q))
  BY DEF Without
<1>8. ASSUME NEW q \in Player, q # p
      PROVE  Sheet(q)' /\ Owned(q)' = Owned(q)
  <2>1. sd'[q] = sd[q] /\ Sheet(q)
    BY <1>6, <1>8 DEF Accounted
  <2>2. Sheet(q)'
    BY <1>1, <1>2, <1>3, <1>7, <2>1, SheetKept
  <2>3. Owned(q)' = Owned(q)
    <3>1. toChar' = toChar \o << >> /\ Without(<< >>, Leaves(q))
      BY <1>2, <1>7
    <3> QED BY <1>1, <1>2, <2>1, <3>1, OwnedKept
  <2> QED BY <2>2, <2>3
<1>9. Sheet(p)'
  <2>1. Sheet(p) /\ \A S : Without(toMap, S) => Without(toMap', S)
    BY <1>1, <1>2, <1>3, Tails DEF Accounted
  <2>2. Carry(toMap', Enters(p), charDb'[p])
    BY <1>1, <2>1 DEF Sheet, Carry
  <2>3. Without(toChar', Leaves(p)) /\ Carry(toChar', Leaves(p), sd'[p].inv)
    BY <1>1, <1>4 DEF Carry, Without
  <2> QED BY <1>1, <1>3, <1>6, <2>2, <2>3, SheetNext
<1>10. Owned(p)' = Owned(p)
  <2>1. Owned(p) = charDb[p]
    BY <1>4 DEF Owned
  <2>2. Owned(p)' = sd'[p].inv
    BY <1>3, <1>6, OwnedNext
  <2> QED BY <1>6, <2>1, <2>2
<1>11. Merging' => Merging /\ Stock' = Stock
  BY <1>1, <1>2, <1>3, MergingSent
<1>12. Conserved'
  BY <1>1, <1>8, <1>10, <1>11, Untouched DEF IInv, Accounted
<1> QED BY <1>3, <1>8, <1>9, <1>12 DEF Accounted

\* The char-server answers, moves nothing, and lets nobody go.
LEMMA AnsweredStill ==
    ASSUME IInv, Accounted, NEW more \in Seq(ToMap), toMap' = toMap \o more,
           \A q \in Player : Carry(more, Enters(q), charDb[q]) /\ Without(more, Left(q)),
           \/ toChar' = toChar
           \/ toChar # << >> /\ toChar' = Tail(toChar) /\ Head(toChar).type # "char",
           charDb' = charDb, playing \subseteq playing', sd' = sd, UNCHANGED Fixed,
           Merging' => Merging /\ Stock' = Stock
    PROVE  Accounted'
<1>1. up' = up /\ setup' = setup
  BY DEF Fixed
<1>2. \A q \in Player : Head(toChar).type # "char" => Head(toChar) \notin Leaves(q)
  BY DEF Leaves
<1>3. << >> \in Seq(ToChar) /\ toChar = toChar \o << >> /\ \A q \in Player : Without(<< >>, Leaves(q))
  BY DEF IInv, Shaped, Without
<1>4. ASSUME NEW q \in Player
      PROVE  Sheet(q)' /\ Owned(q)' = Owned(q)
  <2>1. Sheet(q)
    BY DEF Accounted
  <2>2. Carry(more, Enters(q), charDb'[q])
    OBVIOUS
  <2>3. Sheet(q)'
    BY <1>1, <1>2, <2>1, <2>2, SheetAnswered
  <2>4. \/ \E t \in Seq(ToChar) : toChar' = toChar \o t /\ Without(t, Leaves(q))
        \/ toChar # << >> /\ toChar' = Tail(toChar) /\ Head(toChar) \notin Leaves(q)
    BY <1>2, <1>3
  <2>5. Owned(q)' = Owned(q)
    BY <1>1, <2>4, OwnedKept
  <2> QED BY <2>3, <2>5
<1>5. Conserved'
  BY <1>1, <1>4, Untouched DEF IInv, Accounted
<1> QED BY <1>4, <1>5 DEF Accounted

LEMMA OneSent ==
    ASSUME NEW m \in ToMap, NEW q \in Player
    PROVE  /\ <<m>> \in Seq(ToMap)
           /\ m.type # "charSaved" => Without(<<m>>, Left(q))
           /\ m.type # "enter" \/ (m.type = "enter" /\ m.p # q) => Without(<<m>>, Enters(q))
           /\ m.type # "storage" => Without(<<m>>, Rows)
           /\ m.type # "saved" => Without(<<m>>, Acks)
BY DEF Without, Left, Enters, Rows, Acks

LEMMA AccountedLoad ==
    ASSUME IInv, Accounted, MapifParseLoadGuildStorage
    PROVE  Accounted'
<1> DEFINE msg == [type |-> "storage", exists |-> guild.exists, opens |-> TRUE,
                   p |-> Head(toChar).p, items |-> db]
<1>1. /\ toChar # << >> /\ Head(toChar).type = "load" /\ toChar' = Tail(toChar)
      /\ toMap' = toMap \o <<msg>> /\ UNCHANGED <<MapSide, CharSide, Fixed>>
  BY DEF MapifParseLoadGuildStorage, Answers
<1>2. Head(toChar) \in ToChar /\ db \in Bag /\ guild.exists \in BOOLEAN
  BY <1>1, TailOf DEF IInv, Shaped
<1>3. Head(toChar).p \in Player /\ Head(toChar) \notin Stores
  BY <1>1, <1>2 DEF ToChar, Stores
<1>4. msg \in ToMap /\ msg.type = "storage" /\ msg \notin Rows
  BY <1>2, <1>3 DEF ToMap, Rows
<1> HIDE DEF msg
<1>5. <<msg>> \in Seq(ToMap) /\ Without(<<msg>>, Rows)
      /\ \A q \in Player : Carry(<<msg>>, Enters(q), charDb[q]) /\ Without(<<msg>>, Left(q))
  BY <1>4, OneSent, Ones DEF Carry, Without
<1>6. Merging' => Merging /\ Stock' = Stock
  BY <1>1, <1>3, <1>5, MergingAnswered DEF Stock, MapSide, CharSide
<1> QED BY <1>1, <1>5, <1>6, AnsweredStill DEF MapSide, CharSide

\* The rows are written; they are not what counts, for the copy is loaded.
LEMMA AccountedSave ==
    ASSUME IInv, Order, Accounted, MapifParseSaveGuildStorage
    PROVE  Accounted'
<1> DEFINE msg == [type |-> "saved"]
<1>1. /\ toChar # << >> /\ Head(toChar).type = "save" /\ toChar' = Tail(toChar)
      /\ toMap' = toMap \o <<msg>> /\ UNCHANGED <<MapSide, Fixed>>
      /\ charDb' = charDb /\ playing' = playing
  BY DEF MapifParseSaveGuildStorage, Answers
<1>2. Head(toChar) \in ToChar /\ toChar[1] = Head(toChar) /\ 1 \in DOMAIN toChar
  BY <1>1, TailOf DEF IInv, Shaped
<1>3. ~Without(toChar, Stores)
  BY <1>1, <1>2, KindsOf DEF Without
<1>4. gstor.loaded
  BY <1>3 DEF Order, UnmarkedSendsNone, MarkedIfLoaded
<1>5. msg \in ToMap /\ msg.type = "saved" /\ msg \in Acks
  BY DEF ToMap, Acks
<1> HIDE DEF msg
<1>6. <<msg>> \in Seq(ToMap) /\ Without(<<msg>>, Rows) /\ ~Without(<<msg>>, Acks)
      /\ \A q \in Player : Carry(<<msg>>, Enters(q), charDb[q]) /\ Without(<<msg>>, Left(q))
  <2>1. <<msg>> \in Seq(ToMap) /\ Without(<<msg>>, Rows) /\ ~Without(<<msg>>, Acks)
    <3>1. msg \notin Rows
      BY <1>5 DEF Rows
    <3> QED BY <1>5, <3>1, Ones, OnesMore
  <2>2. \A q \in Player : Without(<<msg>>, Enters(q)) /\ Without(<<msg>>, Left(q))
    BY <1>5, OneSent
  <2> QED BY <2>1, <2>2 DEF Carry, Without
<1>7. ASSUME Merging' PROVE Merging /\ Stock' = Stock
  <2>1. /\ Merging /\ Stock' = IF gstor.loaded /\ Without(toMap, Rows) THEN gstor.items ELSE db'
        /\ ~Without(toMap, Rows) => Without(<<msg>>, Acks)
    BY <1>1, <1>6, <1>7, MergingAnswered DEF MapSide
  <2> QED BY <1>4, <1>6, <2>1 DEF Stock
<1> QED BY <1>1, <1>6, <1>7, AnsweredStill DEF MapSide

LEMMA AccountedLeave ==
    ASSUME IInv, Accounted, NEW p \in Player, MapifParseGuildLeave(p), guild'.exists
    PROVE  Accounted'
<1> DEFINE msg == [type |-> "withdraw", p |-> p]
<1>1. /\ toMap' = toMap \o <<msg>> /\ toChar' = toChar /\ db' = db /\ UNCHANGED <<MapSide, Fixed>>
      /\ charDb' = charDb /\ playing' = playing
  <2>1. guild.members \ {p} # {}
    BY DEF MapifParseGuildLeave
  <2>2. toMap' = (toMap \o <<msg>>) \o << >>
    BY <2>1 DEF MapifParseGuildLeave
  <2>3. toMap \o <<msg>> \in Seq(ToMap)
    BY DEF IInv, Shaped, ToMap
  <2> QED BY <2>1, <2>2, <2>3 DEF MapifParseGuildLeave
<1>2. msg \in ToMap /\ msg.type = "withdraw"
  BY DEF ToMap
<1> HIDE DEF msg
<1>3. <<msg>> \in Seq(ToMap) /\ Without(<<msg>>, Rows)
      /\ \A q \in Player : Carry(<<msg>>, Enters(q), charDb[q]) /\ Without(<<msg>>, Left(q))
  BY <1>2, OneSent DEF Carry, Without
<1>4. Merging' => Merging /\ Stock' = Stock
  BY <1>1, <1>3, MergingAnswered DEF Stock, MapSide
<1> QED BY <1>1, <1>3, <1>4, AnsweredStill DEF MapSide

LEMMA AccountedAuth ==
    ASSUME IInv, Accounted, NEW p \in Player, MapAuthOk(p)
    PROVE  Accounted'
<1> DEFINE msg == [type |-> "enter", p |-> p, guild |-> p \in guild.members, inv |-> charDb[p]]
<1>1. /\ toMap' = toMap \o <<msg>> /\ toChar' = toChar /\ db' = db /\ UNCHANGED <<MapSide, Fixed>>
      /\ charDb' = charDb /\ playing' = playing \union {p}
  <2>1. Append(toMap, msg) = toMap \o <<msg>>
    BY AppendIsConcat DEF IInv, Shaped
  <2> QED BY <2>1 DEF MapAuthOk
<1>2. msg \in ToMap /\ msg.type = "enter" /\ msg.p = p /\ msg.inv = charDb[p]
  BY DEF ToMap, IInv, Shaped
<1> HIDE DEF msg
<1>3. <<msg>> \in Seq(ToMap) /\ Without(<<msg>>, Rows) /\ \A q \in Player : Without(<<msg>>, Left(q))
  BY <1>2, OneSent
<1>4. ASSUME NEW q \in Player
      PROVE  Carry(<<msg>>, Enters(q), charDb[q])
  <2>1. msg \notin {m \in Enters(q) : m.inv # charDb[q]}
    BY <1>2 DEF Enters
  <2> QED BY <2>1, Ones DEF Carry
<1>5. Merging' => Merging /\ Stock' = Stock
  BY <1>1, <1>3, MergingAnswered DEF Stock, MapSide
<1> QED BY <1>1, <1>3, <1>4, <1>5, AnsweredStill DEF MapSide

\* A save comes in: it says what the session data says, or is not the last.
LEMMA AccountedSaveCharacter ==
    ASSUME IInv, Accounted, SaveCharacter
    PROVE  Accounted'
<1> DEFINE msg == Head(toChar)
           answer == [type |-> "charSaved", p |-> msg.p]
           more == IF msg.quits THEN <<answer>> ELSE << >>
<1>1. /\ toChar # << >> /\ msg.type = "char" /\ toChar' = Tail(toChar) /\ toMap' = toMap \o more
      /\ charDb' = [charDb EXCEPT ![msg.p] = msg.inv]
      /\ playing' = IF msg.quits THEN playing \ {msg.p} ELSE playing
      /\ gstor' = gstor /\ sd' = sd /\ db' = db /\ up' = up /\ setup' = setup
  BY DEF SaveCharacter, Answers, MapSide, Fixed
<1>2. /\ toChar \in Seq(ToChar) /\ toMap \in Seq(ToMap) /\ msg \in ToChar /\ charDb \in [Player -> Bag]
      /\ toChar[1] = msg /\ DOMAIN toChar = 1..Len(toChar) /\ Len(toChar) \in Nat \ {0} /\ up
  BY <1>1, TailOf DEF IInv, Shaped
<1>3. msg.p \in Player /\ msg.inv \in Bag /\ msg.quits \in BOOLEAN /\ msg \notin Stores
  BY <1>1, <1>2 DEF ToChar, Stores
<1>4. PICK p \in Player : p = msg.p
  BY <1>3
<1>5. answer \in ToMap /\ answer.type = "charSaved" /\ answer.p = p
  BY <1>3, <1>4 DEF ToMap
<1>6. (msg \in Leaves(p) <=> msg.quits) /\ (msg \in Stays(p) <=> ~msg.quits)
      /\ \A q \in Player : q # p => msg \notin Leaves(q)
  BY <1>1, <1>2, <1>3, <1>4 DEF Leaves, Stays
<1>7. Session(p) /\ Sheet(p)
  BY DEF IInv, Accounted
<1>8. charDb'[p] = msg.inv /\ \A q \in Player \ {p} : charDb'[q] = charDb[q]
  BY <1>1, <1>2, <1>4
<1>9. /\ more \in Seq(ToMap) /\ Without(more, Rows) /\ Without(more, Acks)
      /\ \A q \in Player : Without(more, Enters(q)) /\ (q # p => Without(more, Left(q)))
      /\ msg.quits => more = <<answer>> /\ ~Without(more, Left(p))
      /\ ~msg.quits => more = << >> /\ Without(more, Left(p))
  <2>1. CASE msg.quits
    <3>1. more = <<answer>>
      BY <2>1
    <3>2. answer \in Left(p) /\ \A q \in Player : q # p => answer \notin Left(q)
      BY <1>5 DEF Left
    <3> HIDE DEF answer, more
    <3> QED BY <1>5, <2>1, <3>1, <3>2, OneSent, Ones, OnesMore
  <2>2. CASE ~msg.quits
    BY <2>2 DEF Without
  <2> QED BY <2>1, <2>2
<1>10. Merging' => Merging /\ Stock' = Stock
  BY <1>1, <1>3, <1>9, MergingAnswered DEF Stock
<1> HIDE DEF answer, more
<1>11. ASSUME NEW q \in Player, q # p
       PROVE  Sheet(q)' /\ Owned(q)' = Owned(q)
  <2>1. Sheet(q) /\ charDb'[q] = charDb[q] /\ Carry(more, Enters(q), charDb'[q])
    BY <1>8, <1>9, <1>11 DEF Accounted, Carry, Without
  <2>2. q \in playing => q \in playing'
    BY <1>1, <1>4, <1>11
  <2>3. Sheet(q)'
    BY <1>1, <1>6, <1>9, <1>11, <2>1, <2>2, SheetAnswered
  <2>4. Owned(q)' = Owned(q)
    BY <1>1, <1>6, <1>11, <2>1, OwnedKept
  <2> QED BY <2>3, <2>4
<1>12. CASE msg.quits
  <2>1. /\ Once(toChar, Leaves(p)) /\ sd[p].waiting /\ Without(toMap, Left(p))
        /\ ~sd[p].online /\ Without(toMap, Enters(p)) /\ ~Without(toChar, Leaves(p))
    <3>1. ~Without(toChar, Leaves(p))
      BY <1>2, <1>6, <1>12 DEF Without
    <3> QED BY <1>7, <3>1 DEF Session
  <2>2. Without(toChar', Leaves(p))
    BY <1>1, <1>2, <1>6, <1>12, <2>1, Tails
  <2>3. msg.inv = sd[p].inv
    BY <1>2, <1>6, <1>7, <1>12 DEF Sheet, Carry, Without
  <2>4. Sheet(p)'
    <3>1. Followed(toChar', Stays(p), Leaves(p))
      BY <1>1, <1>2, <1>7, <2>1, Follows DEF Sheet
    <3>2. Carry(toChar', Leaves(p), sd'[p].inv)
      BY <2>2 DEF Carry, Without
    <3>3. Without(toMap', Enters(p))
      BY <1>1, <1>2, <1>9, <2>1, Cats
    <3>4. Carry(toMap', Enters(p), charDb'[p])
      BY <3>3 DEF Carry, Without
    <3>5. ~Without(toMap', Left(p))
      BY <1>1, <1>2, <1>9, <1>12, CatsMore
    <3> QED BY <1>1, <1>8, <2>2, <2>3, <3>1, <3>2, <3>4, <3>5, SheetNext
  <2>5. Owned(p)' = Owned(p)
    BY <1>1, <1>2, <1>8, <2>1, <2>2, <2>3, OwnedNext DEF Owned
  <2>6. Conserved'
    BY <1>1, <1>10, <1>11, <2>5, Untouched DEF IInv, Accounted
  <2> QED BY <1>11, <2>4, <2>6 DEF Accounted
<1>13. CASE ~msg.quits
  <2>1. ~Without(toChar, Leaves(p)) <=> ~Without(toChar', Leaves(p))
    BY <1>1, <1>2, <1>6, <1>13, Tails, TailsMore
  <2>2. sd[p].online \/ ~Without(toChar, Leaves(p))
    BY <1>2, <1>6, <1>7, <1>13 DEF Sheet, Followed, Without
  <2>3. Without(toMap, Enters(p)) /\ Without(toMap, Left(p))
    BY <1>7, <2>2 DEF Session
  <2>4. Carry(more, Enters(p), charDb'[p]) /\ Without(more, Left(p))
    BY <1>9, <1>13 DEF Carry, Without
  <2>5. playing' = playing
    BY <1>1, <1>13
  <2>6. Sheet(p)'
    BY <1>1, <1>6, <1>7, <1>9, <1>13, <2>3, <2>4, <2>5, SheetAnswered
  <2>7. Owned(p) = sd[p].inv
    BY <2>2 DEF Owned
  <2>8. Owned(p)' = sd[p].inv
    BY <1>1, <2>1, <2>2, OwnedNext
  <2>9. Conserved'
    BY <1>1, <1>10, <1>11, <2>7, <2>8, Untouched DEF IInv, Accounted
  <2> QED BY <1>11, <2>6, <2>9 DEF Accounted
<1> QED BY <1>3, <1>12, <1>13

\* Rows move to the storage; they are whose they are, for that character is not there, and
\* what the copy has are the rows as they were.
LEMMA AccountedRetrieve ==
    ASSUME IInv, Order, Accounted, MapifParseItemBoundRetrieve, Keeping'
    PROVE  Accounted'
<1> DEFINE ack == [type |-> "unlock"]
           rows == Reloaded(Head(toChar).p)
           more == (IF BoundRows(Head(toChar).p) = {} THEN << >> ELSE <<rows>>) \o <<ack>>
<1>1. /\ toChar # << >> /\ Head(toChar).type = "retrieve" /\ toChar' = Tail(toChar)
      /\ toMap' = toMap \o more /\ gstor' = gstor /\ sd' = sd /\ UNCHANGED Fixed
      /\ up' = up /\ setup' = setup /\ playing' = playing
      /\ RowsMoved(Head(toChar).p)
  BY DEF MapifParseItemBoundRetrieve, Answers, MapSide, Fixed
<1>2. /\ toChar \in Seq(ToChar) /\ toMap \in Seq(ToMap) /\ Head(toChar) \in ToChar
      /\ db \in Bag /\ charDb \in [Player -> Bag] /\ up /\ guild.exists \in BOOLEAN
      /\ gstor.loaded \in BOOLEAN /\ gstor.status \in BOOLEAN /\ gstor.dirty \in BOOLEAN
  BY <1>1, TailOf DEF IInv, Shaped, GStor
<1>3. PICK p \in Player : p = Head(toChar).p
  BY <1>1, <1>2 DEF ToChar
<1>4. Head(toChar) \notin Stores /\ \A q \in Player : Head(toChar) \notin Leaves(q)
  BY <1>1 DEF Stores, Leaves
<1>5. /\ db' = DbWith(p) /\ (BoundRows(p) # {} => p \notin playing)
      /\ charDb' = [charDb EXCEPT ![p] = [i \in Item |-> IF i \in Bound THEN 0 ELSE charDb[p][i]]]
  <2>1. RowsMoved(p)
    BY <1>1, <1>3
  <2>2. "twice" \notin slips'
    BY DEF Keeping
  <2> QED BY <2>1, <2>2 DEF RowsMoved, Slipped
<1>6. charDb[p] \in Bag /\ \A i \in Bound : i \in Item /\ charDb[p][i] \in Nat
  BY <1>2, BoundAssumption DEF Bag
<1>7. \A i \in Item : DbWith(p)[i] + charDb'[p][i] = db[i] + charDb[p][i]
  <2> TAKE i \in Item
  <2>1. db[i] \in Nat /\ charDb[p][i] \in Nat
    BY <1>2, <1>6 DEF Bag
  <2>2. charDb'[p][i] = IF i \in Bound THEN 0 ELSE charDb[p][i]
    BY <1>2, <1>5
  <2>3. DbWith(p)[i] = IF i \in Bound THEN db[i] + charDb[p][i] ELSE db[i]
    BY DEF DbWith
  <2> QED BY <2>1, <2>2, <2>3
<1>8. \A q \in Player \ {p} : charDb'[q] = charDb[q]
  BY <1>2, <1>5
<1>9. DbWith(p) \in Bag
  BY <1>2, <1>6 DEF DbWith, Bag
<1>10. /\ ack \in ToMap /\ <<ack>> \in Seq(ToMap) /\ ack \notin Rows /\ ack \notin Acks
       /\ \A q \in Player : ack \notin Left(q) /\ ack \notin Enters(q)
  BY DEF ToMap, Rows, Acks, Left, Enters
<1>11. /\ rows \in ToMap /\ <<rows>> \in Seq(ToMap) /\ rows \in Rows /\ rows \notin Acks
       /\ \A q \in Player : rows \notin Left(q) /\ rows \notin Enters(q)
  BY <1>2, <1>3, <1>9 DEF Reloaded, ToMap, Rows, Acks, Left, Enters
<1> HIDE DEF ack, rows
<1>12. CASE BoundRows(p) = {}
  <2>1. \A i \in Bound : charDb[p][i] = 0
    BY <1>6, <1>12 DEF BoundRows
  <2>2. db' = db
    <3>1. \A i \in Item : DbWith(p)[i] = db[i]
      BY <1>2, <2>1 DEF DbWith, Bag
    <3> QED BY <1>2, <1>5, <1>9, <3>1 DEF Bag
  <2>3. charDb' = charDb
    <3>1. \A i \in Item : charDb[p][i] = IF i \in Bound THEN 0 ELSE charDb[p][i]
      BY <2>1
    <3>2. charDb[p] = [i \in Item |-> IF i \in Bound THEN 0 ELSE charDb[p][i]]
      BY <1>6, <3>1 DEF Bag
    <3> QED BY <1>2, <1>5, <3>2
  <2>4. more = <<ack>>
    <3>1. more = << >> \o <<ack>>
      BY <1>3, <1>12
    <3> QED BY <3>1
  <2>5. Without(<<ack>>, Rows) /\ \A q \in Player : Without(<<ack>>, Left(q)) /\ Without(<<ack>>, Enters(q))
    BY <1>10, Ones
  <2>6. \A q \in Player : Carry(<<ack>>, Enters(q), charDb[q]) /\ Without(<<ack>>, Left(q))
    BY <2>5 DEF Carry, Without
  <2>7. toMap' = toMap \o <<ack>>
    BY <1>1, <2>4
  <2>8. Merging' => Merging /\ Stock' = Stock
    BY <1>1, <1>4, <1>10, <2>2, <2>5, <2>7, MergingAnswered DEF Stock
  <2> QED BY <1>1, <1>10, <2>3, <2>6, <2>7, <2>8, AnsweredStill
<1>13. CASE BoundRows(p) # {}
  <2>1. more = <<rows>> \o <<ack>>
    BY <1>3, <1>13
  <2>2. more \in Seq(ToMap)
    BY <1>10, <1>11, <2>1, CatOf
  <2>3. ~Without(more, Rows)
    <3>1. ~Without(<<rows>>, Rows)
      BY <1>11, OnesMore
    <3> QED BY <1>10, <1>11, <2>1, <3>1, CatsMore
  <2>4. ASSUME NEW S, rows \notin S, ack \notin S PROVE Without(more, S)
    <3>1. Without(<<rows>>, S) /\ Without(<<ack>>, S)
      BY <2>4, Ones
    <3> QED BY <1>10, <1>11, <2>1, <3>1, Cats
  <2>5. Without(more, Acks) /\ \A q \in Player : Without(more, Left(q)) /\ Without(more, Enters(q))
    BY <1>10, <1>11, <2>4
  <2> HIDE DEF more
  <2>6. /\ p \notin playing /\ ~sd[p].online /\ Without(toChar, Leaves(p))
        /\ Without(toMap, Enters(p))
    <3>1. Sheet(p) /\ Session(p) /\ p \notin playing
      BY <1>5, <1>13 DEF IInv, Accounted
    <3> QED BY <1>2, <3>1 DEF Sheet, Session
  <2>7. \A q \in Player : Carry(more, Enters(q), charDb'[q])
    BY <2>5 DEF Carry, Without
  <2>8. ASSUME NEW q \in Player
        PROVE  Sheet(q)'
    <3>1. Sheet(q)
      BY DEF Accounted
    <3>2. charDb'[q] = charDb[q] \/ (Without(toMap, Enters(q)) /\ ~Without(more, Rows))
      BY <1>8, <2>3, <2>6
    <3>3. toChar' = toChar \/ (toChar # << >> /\ toChar' = Tail(toChar) /\ Head(toChar) \notin Leaves(q))
      BY <1>1, <1>4
    <3>4. toMap' = toMap \o more /\ Without(more, Left(q)) /\ Carry(more, Enters(q), charDb'[q])
      BY <1>1, <2>5, <2>7
    <3> QED BY <1>1, <2>2, <3>1, <3>2, <3>3, <3>4, SheetAnswered
  <2>9. ASSUME NEW q \in Player, q # p
        PROVE  Owned(q)' = Owned(q)
    <3>1. toChar # << >> /\ toChar' = Tail(toChar) /\ Head(toChar) \notin Leaves(q)
      BY <1>1, <1>4
    <3> QED BY <1>1, <1>8, <2>9, <3>1, OwnedKept
  <2>10. Owned(p) = charDb[p] /\ Owned(p)' = charDb'[p]
    <3>1. Without(toChar', Leaves(p))
      BY <1>1, <1>2, <2>6, Tails
    <3> QED BY <1>1, <1>2, <2>6, <3>1, OwnedNext DEF Owned
  <2>11. ASSUME Merging'
         PROVE  Merging /\ \A i \in Item : Stock'[i] + Owned(p)'[i] = Stock[i] + Owned(p)[i]
    <3>1. ~Without(toMap', Rows)
      BY <1>1, <1>2, <2>2, <2>3, CatsMore
    <3>2. /\ Without(toChar', Stores) /\ NoneBefore(toMap', Rows, Acks)
          /\ gstor.dirty => ~gstor.status /\ ~Without(toMap', Acks)
      BY <1>1, <2>11, <3>1, MergingNext
    <3>3. Without(toChar, Stores)
      BY <1>1, <1>2, <1>4, <3>2, TailsMore
    <3>4. NoneBefore(toMap, Rows, Acks)
      BY <1>1, <1>2, <2>2, <3>2, Parts
    <3>5. ~Without(toMap', Acks) => ~Without(toMap, Acks)
      BY <1>1, <1>2, <2>2, <2>5, Cats
    <3>6. Merging
      BY <3>2, <3>3, <3>4, <3>5 DEF Merging
    <3>7. Stock = db
      <4>1. CASE gstor.loaded /\ Without(toMap, Rows)
        <5>1. WrittenIn(toChar, db, gstor.items)
          BY <1>2, <3>2, <4>1 DEF Order, CopyIsWritten
        <5>2. gstor.items = db
          BY <3>3, <5>1 DEF WrittenIn, Without
        <5> QED BY <5>2 DEF Stock
      <4> QED BY <4>1 DEF Stock
    <3>8. Stock' = DbWith(p)
      BY <1>5, <3>1, MergingNext
    <3> QED BY <1>7, <2>10, <3>6, <3>7, <3>8
  <2>12. Shaped'
    <3>1. charDb' \in [Player -> Bag]
      <4>1. [i \in Item |-> IF i \in Bound THEN 0 ELSE charDb[p][i]] \in Bag
        BY <1>6 DEF Bag
      <4> QED BY <1>2, <1>5, <4>1
    <3>2. toMap' \in Seq(ToMap) /\ toChar' \in Seq(ToChar)
      BY <1>1, <1>2, <2>2, CatOf, TailOf
    <3>3. slips' \subseteq Slip
      BY <1>1 DEF RowsMoved, Slipped, Slip, IInv, Shaped
    <3>4. UNCHANGED <<MapSide, guild, playing, Fixed>>
      BY DEF MapifParseItemBoundRetrieve
    <3> QED BY <1>2, <1>5, <1>9, <3>1, <3>2, <3>3, <3>4
            DEF IInv, Shaped, MapSide, Fixed, ToChar, ToMap, GStor, Sd, Bag
  <2>13. Conserved'
    BY <1>1, <2>9, <2>11, <2>12, Balanced DEF IInv, Accounted
  <2> QED BY <2>8, <2>13 DEF Accounted
<1> QED BY <1>12, <1>13

\* The link is lost: who had left, and whose answer is lost, is as the rows say or as the
\* session data says, which is the same.
LEMMA AccountedLinkLost ==
    ASSUME IInv, Accounted, LinkLost, Keeping'
    PROVE  Accounted'
<1>1. /\ up /\ ~up' /\ toChar' = << >> /\ toMap' = << >> /\ gstor' = gstor /\ sd' = sd /\ db' = db
      /\ charDb' = charDb /\ playing' = playing /\ setup' = setup
      /\ slips' = IF gstor.lock \/ Retrieving THEN slips \union {"lost"} ELSE slips
  BY DEF LinkLost, MapSide, CharSide, Slipped
<1>2. Without(toMap, Rows)
  <2>1. ~Retrieving
    BY <1>1 DEF Keeping, Undisturbed
  <2> QED BY <2>1 DEF Retrieving, Rows, Without
<1>3. \A S, U : Without(<< >>, S) /\ Followed(<< >>, S, U)
  BY DEF Without, Followed
<1>4. ASSUME NEW q \in Player
      PROVE  Sheet(q)' /\ Owned(q)' = Owned(q)
  <2>1. Sheet(q) /\ Session(q)
    BY DEF IInv, Accounted
  <2>2. Sheet(q)'
    BY <1>1, <1>3, SheetNext DEF Carry
  <2>3. Owned(q)' = IF sd[q].online \/ sd[q].waiting THEN sd[q].inv ELSE charDb[q]
    BY <1>1, <1>3, OwnedNext
  <2>7. Owned(q) = IF sd[q].online \/ ~Without(toChar, Leaves(q)) THEN sd[q].inv ELSE charDb[q]
    BY <1>1 DEF Owned
  <2>4. CASE sd[q].online
    BY <2>2, <2>3, <2>4, <2>7
  <2>5. CASE ~sd[q].online /\ sd[q].waiting
    <3>1. CASE ~Without(toChar, Leaves(q))
      BY <2>2, <2>3, <2>5, <2>7, <3>1
    <3>2. CASE Without(toChar, Leaves(q))
      <4>1. ~Without(toMap, Left(q))
        BY <1>1, <2>1, <2>5, <3>2 DEF Sheet
      <4>2. charDb[q] = sd[q].inv
        BY <1>2, <2>1, <4>1 DEF Sheet, Followed, Without
      <4> QED BY <2>2, <2>3, <2>5, <2>7, <4>2
    <3> QED BY <3>1, <3>2
  <2>6. CASE ~sd[q].online /\ ~sd[q].waiting
    <3>1. Without(toChar, Leaves(q))
      BY <2>1, <2>6 DEF Session
    <3> QED BY <2>2, <2>3, <2>6, <2>7, <3>1
  <2> QED BY <2>2, <2>4, <2>5, <2>6
<1>5. Merging' => Merging /\ Stock' = Stock
  BY <1>1, <1>2, <1>3, MergingNext DEF Merging, Stock
<1>6. Conserved'
  BY <1>1, <1>4, <1>5, Untouched DEF IInv, Accounted
<1> QED BY <1>4, <1>6 DEF Accounted

\* An injection of 1..n into a finite set of n elements reaches every element.
LEMMA Onto ==
    ASSUME NEW P, IsFiniteSet(P), NEW f \in [1..Cardinality(P) -> P],
           \A i, j \in 1..Cardinality(P) : i # j => f[i] # f[j]
    PROVE  \A p \in P : \E i \in 1..Cardinality(P) : f[i] = p
<1>1. f \in Injection(1..Cardinality(P), P)
  BY DEF Injection, IsInjective
<1>2. Cardinality(P) \in Nat
  BY FS_CardinalityType
<1>3. Cardinality(1..Cardinality(P)) = Cardinality(P)
  <2>1. Cardinality(1..Cardinality(P)) = IF 1 > Cardinality(P) THEN 0 ELSE Cardinality(P) - 1 + 1
    BY <1>2, FS_Interval
  <2> QED BY <1>2, <2>1
<1>4. f \in Surjection(1..Cardinality(P), P)
  BY <1>1, <1>3, FS_Injection
<1> QED BY <1>4 DEF Surjection

\* Who is saved with Saves, and with what.
LEMMA SavesAll ==
    ASSUME Shaped, NEW P \in SUBSET Player, NEW order \in SetToSeqs(P)
    PROVE  \A p \in Player : /\ Without(Saves(order, TRUE), Stays(p))
                             /\ Carry(Saves(order, TRUE), Leaves(p), sd[p].inv)
                             /\ p \in P => ~Without(Saves(order, TRUE), Leaves(p))
<1>1. Cardinality(P) \in Nat /\ IsFiniteSet(P)
  BY PlayerAssumption, FS_Subset, FS_CardinalityType
<1>2. /\ order \in [1..Cardinality(P) -> P]
      /\ \A i, j \in 1..Cardinality(P) : i # j => order[i] # order[j]
  BY DEF SetToSeqs
<1> DEFINE s == Saves(order, TRUE)
<1>3. s = [i \in 1..Cardinality(P) |->
             [type |-> "char", p |-> order[i], inv |-> sd[order[i]].inv, quits |-> TRUE]]
  BY <1>2 DEF Saves
<1>4. s \in Seq(ToChar)
  BY SavesOf
<1> HIDE DEF s
<1>5. ASSUME NEW i \in DOMAIN s
      PROVE  /\ i \in 1..Cardinality(P) /\ s[i] \in ToChar
             /\ s[i] = [type |-> "char", p |-> order[i], inv |-> sd[order[i]].inv, quits |-> TRUE]
  <2>1. s[i] \in ToChar
    BY <1>4
  <2>2. i \in 1..Cardinality(P)
    BY <1>3
  <2>3. s[i] = [type |-> "char", p |-> order[i], inv |-> sd[order[i]].inv, quits |-> TRUE]
    BY <1>3, <2>2
  <2> QED BY <2>1, <2>2, <2>3
<1>6. ASSUME NEW p \in Player PROVE Without(s, Stays(p)) /\ Carry(s, Leaves(p), sd[p].inv)
  BY <1>5 DEF Without, Carry, Stays, Leaves
<1>7. ASSUME NEW p \in P PROVE ~Without(s, Leaves(p))
  <2>1. \E i \in 1..Cardinality(P) : order[i] = p
    BY <1>1, <1>2, Onto
  <2>2. PICK i \in 1..Cardinality(P) : order[i] = p
    BY <2>1
  <2>3. i \in DOMAIN s
    BY <1>3
  <2>4. s[i] \in Leaves(p)
    BY <1>5, <2>2, <2>3 DEF Leaves
  <2> QED BY <2>3, <2>4 DEF Without
<1> QED BY <1>6, <1>7 DEF s

\* The link is back: everyone whose save was not confirmed is saved again.
LEMMA AccountedReady ==
    ASSUME IInv, Accounted, ChrifOnReady
    PROVE  Accounted'
<1> DEFINE gone == {p \in Player : sd[p].waiting}
           save == IF gstor.dirty /\ ~gstor.status
                   THEN <<[type |-> "save", items |-> gstor.items]>> ELSE << >>
<1>1. PICK order \in SetToSeqs(gone) : toChar' = Saves(order, TRUE) \o save
  BY DEF ChrifOnReady
<1>2. /\ ~up /\ up' /\ toChar = << >> /\ toMap = << >> /\ toMap' = << >> /\ gstor' = gstor /\ sd' = sd
      /\ db' = db /\ charDb' = charDb /\ setup' = setup
      /\ playing' = {p \in Player : sd[p].online \/ sd[p].waiting}
  BY DEF ChrifOnReady, MapSide, IInv, Shaped
<1>3. gone \in SUBSET Player /\ Shaped
  BY DEF IInv
<1>4. /\ Saves(order, TRUE) \in Seq(ToChar)
      /\ \A p \in Player : p \notin gone => Without(Saves(order, TRUE), Leaves(p))
  <2> HIDE DEF gone
  <2> QED BY <1>3, SavesOf
<1>5. \A p \in Player : /\ Without(Saves(order, TRUE), Stays(p))
                        /\ Carry(Saves(order, TRUE), Leaves(p), sd[p].inv)
                        /\ p \in gone => ~Without(Saves(order, TRUE), Leaves(p))
  <2> HIDE DEF gone
  <2> QED BY <1>3, SavesAll
<1>6. save \in Seq(ToChar) /\ \A p \in Player : Without(save, Stays(p)) /\ Without(save, Leaves(p))
  <2>1. [type |-> "save", items |-> gstor.items] \in ToChar
    BY DEF ToChar, IInv, Shaped, GStor
  <2>2. \A p \in Player : /\ [type |-> "save", items |-> gstor.items] \notin Stays(p)
                          /\ [type |-> "save", items |-> gstor.items] \notin Leaves(p)
    BY DEF Stays, Leaves
  <2>3. << >> \in Seq(ToChar) /\ \A S : Without(<< >>, S)
    BY DEF Without
  <2> QED BY <2>1, <2>2, <2>3, Ones
<1> HIDE DEF gone, save
<1>7. \A S, U : Without(<< >>, S) /\ Followed(<< >>, S, U)
  BY DEF Without, Followed
<1>8. ASSUME NEW q \in Player
      PROVE  Sheet(q)' /\ Owned(q)' = Owned(q)
  <2>1. Session(q) /\ (q \in gone <=> sd[q].waiting)
    BY DEF IInv, gone
  <2>2. Without(toChar', Stays(q)) /\ toChar' \in Seq(ToChar)
    BY <1>1, <1>4, <1>5, <1>6, Cats, CatOf
  <2>3. ~Without(toChar', Leaves(q)) <=> sd[q].waiting
    <3>1. q \in gone => ~Without(toChar', Leaves(q))
      BY <1>1, <1>4, <1>5, <1>6, CatsMore
    <3>2. q \notin gone => Without(toChar', Leaves(q))
      BY <1>1, <1>4, <1>6, Cats
    <3> QED BY <2>1, <3>1, <3>2
  <2>4. Carry(toChar', Leaves(q), sd[q].inv)
    <3> DEFINE S == {m \in Leaves(q) : m.inv # sd[q].inv}
    <3>1. Without(Saves(order, TRUE), S) /\ Without(save, S)
      BY <1>5, <1>6 DEF Carry, Without
    <3> HIDE DEF S
    <3>2. Without(toChar', S)
      BY <1>1, <1>4, <1>6, <3>1, Cats
    <3> QED BY <3>2 DEF S, Carry
  <2>5. Followed(toChar', Stays(q), Leaves(q))
    BY <2>2, Follows
  <2>6. ~Without(toChar', Leaves(q)) => q \in playing'
    BY <1>2, <2>3
  <2>7. Sheet(q)'
    BY <1>2, <1>7, <2>3, <2>4, <2>5, <2>6, SheetNext DEF Carry
  <2>8. Owned(q)' = IF sd[q].online \/ sd[q].waiting THEN sd[q].inv ELSE charDb[q]
    BY <1>2, <2>3, OwnedNext
  <2>9. Owned(q) = IF sd[q].online \/ sd[q].waiting THEN sd[q].inv ELSE charDb[q]
    BY <1>2, <1>7 DEF Owned
  <2> QED BY <2>7, <2>8, <2>9
<1>9. Merging' => Merging /\ Stock' = Stock
  BY <1>2, <1>7, MergingNext DEF Merging, Stock
<1>10. Conserved'
  BY <1>2, <1>8, <1>9, Untouched DEF IInv, Accounted
<1> QED BY <1>8, <1>10 DEF Accounted

-----------------------------------------------------------------------------
(* What the databases hold, as a sum over a function. *)

Units(bags, i) == MapThenSumSet(LAMBDA p : bags[p][i], Player)

LEMMA UnitsAre ==
    ASSUME NEW bags \in [Player -> Bag], NEW i \in Item
    PROVE  Units(bags, i) = SumOver([p \in Player |-> bags[p][i]], Player)
<1> DEFINE F == [p \in Player |-> bags[p][i]]
           Runs(run) == run = [s \in SUBSET Player |->
                                 IF s = {} THEN 0 ELSE bags[One(s)][i] + run[s \ {One(s)}]]
           run == CHOOSE run : Runs(run)
<1>1. \A p \in Player : F[p] \in Int
  BY DEF Bag
<1>2. \A r : IsSumRun(r, F, Player) <=> Runs(r)
  <2> SUFFICES ASSUME NEW r
               PROVE  [s \in SUBSET Player |-> IF s = {} THEN 0 ELSE F[One(s)] + r[s \ {One(s)}]]
                      = [s \in SUBSET Player |-> IF s = {} THEN 0 ELSE bags[One(s)][i] + r[s \ {One(s)}]]
    BY DEF IsSumRun
  <2>1. \A s \in SUBSET Player : s # {} => One(s) \in Player
    BY DEF One
  <2> QED BY <2>1
<1>3. \E r : Runs(r)
  <2>1. \E r : IsSumRun(r, F, Player)
    <3> HIDE DEF F, Runs, run
    <3> QED BY <1>1, PlayerAssumption, SumRunExists
  <2> HIDE DEF F, Runs, run
  <2> QED BY <1>2, <2>1
<1>4. Runs(run)
  <2> HIDE DEF Runs
  <2> QED BY <1>3
<1>5. Units(bags, i) = run[Player]
  BY Zenon DEF Units, MapThenSumSet, MapThenFoldSet, One
<1>6. IsSumRun(run, F, Player)
  <2> HIDE DEF Runs, run, F
  <2> QED BY <1>2, <1>4
<1>7. run[Player] = SumOver(F, Player)
  <2> HIDE DEF Runs, run, F
  <2> QED BY <1>1, <1>6, SumOfPart, PlayerAssumption
<1> QED BY <1>5, <1>7

LEMMA RecordedIs ==
    ASSUME NEW i \in Item
    PROVE  Recorded(i) = db[i] + Units(charDb, i) /\ AtFirst(i) = setup.db[i] + Units(setup.inv, i)
BY DEF Recorded, AtFirst, Units, MapThenSumSet, MapThenFoldSet

-----------------------------------------------------------------------------
(* All of them. *)

\* What EveryUnitKept excludes is not undone.
LEMMA StaysKeeping ==
    ASSUME IInv, [Next]_vars, Keeping'
    PROVE  Keeping
<1>1. losses \in Nat
  BY BoundsAssumption DEF IInv, Shaped
<1> QED BY <1>1, NothingForgotten DEF Keeping, Undisturbed

LEMMA AccountedStarts == Init => Accounted
<1> SUFFICES ASSUME Init PROVE Accounted
  OBVIOUS
<1>1. /\ setup \in Setups /\ gstor = NotLoaded /\ toChar = << >> /\ toMap = << >>
      /\ sd = [p \in Player |-> [online |-> p \in setup.online, guild |-> p \in setup.online,
                                 open |-> FALSE, waiting |-> FALSE, inv |-> setup.inv[p]]]
      /\ db = setup.db /\ charDb = setup.inv
  BY DEF Init
<1>2. setup.inv \in [Player -> Bag]
  BY <1>1, SetupsAssumption DEF Bag
<1>3. \A S, U : Without(<< >>, S) /\ Followed(<< >>, S, U)
  BY DEF Without, Followed
<1>4. ASSUME NEW p \in Player
      PROVE  /\ sd[p].inv = charDb[p] /\ ~sd[p].waiting /\ Owned(p) = charDb[p]
  BY <1>1, <1>3 DEF Owned
<1>5. \A p \in Player : Sheet(p)
  BY <1>1, <1>3, <1>4 DEF Sheet, Carry
<1>6. Stock = db
  BY <1>1 DEF Stock, NotLoaded
<1>7. ASSUME NEW i \in Item PROVE Held(i) = AtFirst(i)
  <2>1. [p \in Player |-> Owned(p)[i]] = [p \in Player |-> charDb[p][i]]
    BY <1>4
  <2>2. Held(i) = db[i] + SumOver([p \in Player |-> charDb[p][i]], Player)
    BY <1>6, <2>1 DEF Held
  <2>3. Units(setup.inv, i) = SumOver([p \in Player |-> charDb[p][i]], Player)
    BY <1>1, <1>2, UnitsAre
  <2> QED BY <1>1, <2>2, <2>3, RecordedIs
<1> QED BY <1>5, <1>7 DEF Accounted, Conserved

LEMMA KeptSteps == IInv /\ IInv' /\ Clean /\ Kept /\ [Next]_vars => Kept'
<1> SUFFICES ASSUME IInv, IInv', Clean, Kept, [Next]_vars, Keeping' PROVE Accounted'
  BY DEF Kept
<1>1. Keeping /\ Undisturbed /\ Order /\ Accounted
  BY StaysKeeping DEF Kept, Clean, Keeping
<1>0. guild'.exists
  BY DEF Keeping, Undisturbed
<1>2. CASE MapNext
  <2>1. ASSUME NEW p \in Player, CloseStorage(p) PROVE Accounted'
    BY <1>1, <2>1, AccountedClose DEF CloseStorage
  <2> QED BY <1>1, <1>2, <2>1, AccountedOpen, AccountedAutoSave, AccountedQuit,
             AccountedGuildBreak, AccountedAdd, AccountedGet DEF MapNext
<1>3. CASE MapHandles
  <2>1. CASE GuildBroken
    <3>1. toMap # << >> /\ Head(toMap).type = "broken"
      BY <2>1 DEF GuildBroken, FromChar
    <3>2. ~Without(toMap, Breaks)
      BY <3>1, TailOf DEF IInv, Shaped, Without, Breaks
    <3> QED BY <1>1, <3>2 DEF IInv, Breaking, Undisturbed
  <2> QED BY <1>1, <1>3, <2>1, AccountedLoaded, AccountedSaved, AccountedWithdraw, AccountedUnlock,
             AccountedEnter, AccountedSaveAck DEF MapHandles
<1>4. CASE CharHandles
  <2>1. CASE MapifParseBreakGuild
    BY <1>0, <2>1 DEF MapifParseBreakGuild
  <2> QED BY <1>1, <1>4, <2>1, AccountedLoad, AccountedSave, AccountedSaveCharacter,
             AccountedRetrieve DEF CharHandles
<1>5. CASE \E p \in Player : MapifParseGuildLeave(p) \/ MapAuthOk(p)
  BY <1>0, <1>1, <1>5, AccountedLeave, AccountedAuth
<1>6. CASE LinkLost \/ ChrifOnReady
  BY <1>1, <1>6, AccountedLinkLost, AccountedReady
<1>7. CASE UNCHANGED vars
  <2>1. /\ gstor' = gstor /\ sd' = sd /\ db' = db /\ charDb' = charDb /\ playing' = playing /\ up' = up
        /\ toChar' = toChar /\ toMap' = toMap /\ setup' = setup
    BY <1>7 DEF vars
  <2>2. \A p \in Player : Sheet(p)'
    <3> TAKE p \in Player
    <3>1. Sheet(p)
      BY <1>1 DEF Accounted
    <3> QED BY <2>1, <3>1, SheetNext DEF Sheet
  <2>3. \A p \in Player : Owned(p)' = Owned(p)
    BY <2>1, OwnedNext DEF Owned
  <2>4. Merging' => Merging /\ Stock' = Stock
    BY <2>1, MergingNext DEF Merging, Stock
  <2>5. Conserved'
    BY <1>1, <2>1, <2>3, <2>4, Untouched DEF IInv, Accounted
  <2> QED BY <2>2, <2>5 DEF Accounted
<1> QED BY <1>2, <1>3, <1>4, <1>5, <1>6, <1>7 DEF Next

LEMMA AlwaysKept == Spec => []Kept
<1>1. Init => Kept
  BY AccountedStarts DEF Kept
<1> QED BY <1>1, KeptSteps, Always, AlwaysClean, PTL DEF Spec

\* Once everyone has left the game and nothing is on the link, guild_storage, inventory and
\* cart rows hold every unit there was, once: whatever openings, moves, saves, withdrawals,
\* rows moved for who is not there, and losses of the link crossed on the way, unless one of
\* the things slips names happened.
THEOREM GuildStorageEveryUnitKept == Spec => []EveryUnitKept
<1>1. ASSUME IInv, Clean, Kept PROVE EveryUnitKept
  <2> SUFFICES ASSUME up, toChar = << >>, toMap = << >>, guild.exists, playing = {},
                      \A p \in Player : ~sd[p].online /\ ~sd[p].waiting,
                      slips \subseteq {"shut"} \/ (slips \subseteq {"shut", "early"} /\ losses = 0),
                      NEW i \in Item
               PROVE  Recorded(i) = AtFirst(i)
    BY DEF EveryUnitKept
  <2>1. Keeping /\ Accounted /\ Order
    BY <1>1 DEF Kept, Clean, Keeping, Undisturbed
  <2>2. \A S : Without(<< >>, S)
    BY DEF Without
  <2>3. ~gstor.status
    BY <1>1 DEF IInv, Holders
  <2>4. Stock = db
    <3>1. gstor.loaded => gstor.items = db
      BY <2>1, <2>2, <2>3 DEF Order, CopyIsWritten, WrittenIn
    <3> QED BY <2>2, <3>1 DEF Stock
  <2>5. \A p \in Player : Owned(p) = charDb[p]
    BY <2>2 DEF Owned
  <2>6. Held(i) = AtFirst(i)
    BY <2>1, <2>2 DEF Accounted, Conserved, Merging
  <2>7. [p \in Player |-> Owned(p)[i]] = [p \in Player |-> charDb[p][i]]
    BY <2>5
  <2>8. Units(charDb, i) = SumOver([p \in Player |-> charDb[p][i]], Player)
    BY <1>1, UnitsAre DEF IInv, Shaped
  <2> QED BY <2>4, <2>6, <2>7, <2>8, RecordedIs DEF Held
<1> QED BY <1>1, Always, AlwaysClean, AlwaysKept, PTL

=============================================================================
