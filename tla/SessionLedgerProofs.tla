------------------------ MODULE SessionLedgerProofs ------------------------
(***************************************************************************)
(* The data of a character is never set back and never lost: NoRollback,   *)
(* NothingLost, and the refinement of CharacterLedger, in every behaviour   *)
(* in which the registries are prompt.                                     *)
(*                                                                         *)
(* The two links between the char-server and the map-server are one line:  *)
(* what the map-server sends waits in fromMap, and its answer takes its     *)
(* place, at the end of toMap.  The invariant speaks of the order of two    *)
(* kinds of packets in this line: those that open the account's way into    *)
(* the game (the request to enter, and the data of the character) and those *)
(* that close it (the final save, and its acknowledgement).                 *)
(***************************************************************************)
EXTENDS SessionSystemProofs

(* Queues: what is on them, and what is behind what.                       *)

Free(q, X) == \A i \in 1..Len(q) : q[i] \notin X

NoneBehind(q, X, Y) ==
    \A i, j \in 1..Len(q) : i < j /\ q[i] \in X => q[j] \notin Y

\* r has what q has, or some of it, in the order of q, and packets of P.
Thins(q, r, P) ==
    \A X, Y : (X \cap P = {} /\ Y \cap P = {}) =>
        /\ Free(q, X) => Free(r, X)
        /\ NoneBehind(q, X, Y) => NoneBehind(r, X, Y)

LEMMA ThinsSame == ASSUME NEW q, NEW P PROVE Thins(q, q, P)
BY DEF Thins

LEMMA TailItems ==
    ASSUME NEW S, NEW q \in Seq(S), q # << >>
    PROVE  /\ Len(q) \in Nat \ {0} /\ Len(Tail(q)) = Len(q) - 1 /\ Head(q) = q[1]
           /\ \A i \in 1..Len(Tail(q)) : i + 1 \in 1..Len(q) /\ Tail(q)[i] = q[i + 1]
           /\ \A i \in 1..Len(q) : i # 1 => i - 1 \in 1..Len(Tail(q))
                                            /\ q[i] = Tail(q)[i - 1]
OBVIOUS

LEMMA JoinItems ==
    ASSUME NEW S, NEW q \in Seq(S), NEW ms \in Seq(S)
    PROVE  /\ Len(q) \in Nat /\ Len(ms) \in Nat /\ Len(q \o ms) = Len(q) + Len(ms)
           /\ \A i \in 1..Len(q \o ms) :
                 \/ i \in 1..Len(q) /\ (q \o ms)[i] = q[i]
                 \/ /\ i - Len(q) \in 1..Len(ms) /\ i \notin 1..Len(q)
                    /\ (q \o ms)[i] = ms[i - Len(q)]
OBVIOUS

LEMMA TailQueue ==
    ASSUME NEW S, NEW q \in Seq(S), q # << >>, NEW X, NEW Y
    PROVE  /\ Free(q, X) <=> Head(q) \notin X /\ Free(Tail(q), X)
           /\ NoneBehind(q, X, Y) => NoneBehind(Tail(q), X, Y)
           /\ NoneBehind(q, X, Y) /\ Head(q) \in X => Free(Tail(q), Y)
<1> DEFINE n == Len(q)
           r == Tail(q)
           k == Len(r)
<1>1. /\ n \in Nat \ {0} /\ k = n - 1 /\ Head(q) = q[1]
      /\ \A i \in 1..k : i + 1 \in 1..n /\ r[i] = q[i + 1]
      /\ \A i \in 1..n : i # 1 => i - 1 \in 1..k /\ q[i] = r[i - 1]
  BY TailItems
<1> HIDE DEF r
<1>2. Free(q, X) => Head(q) \notin X /\ Free(r, X)
  BY <1>1 DEF Free
<1>3. Head(q) \notin X /\ Free(r, X) => Free(q, X)
  BY <1>1 DEF Free
<1>4. NoneBehind(q, X, Y) => NoneBehind(r, X, Y)
  BY <1>1 DEF NoneBehind
<1>5. NoneBehind(q, X, Y) /\ Head(q) \in X => Free(r, Y)
  BY <1>1 DEF NoneBehind, Free
<1> QED BY <1>2, <1>3, <1>4, <1>5 DEF r

LEMMA JoinQueue ==
    ASSUME NEW S, NEW q \in Seq(S), NEW ms \in Seq(S), NEW X, NEW Y
    PROVE  /\ Free(q, X) /\ Free(ms, X) => Free(q \o ms, X)
           /\ NoneBehind(q, X, Y) /\ NoneBehind(ms, X, Y) /\ (Free(q, X) \/ Free(ms, Y))
                 => NoneBehind(q \o ms, X, Y)
<1> DEFINE r == q \o ms
           n == Len(q)
<1>1. /\ n \in Nat /\ Len(ms) \in Nat
      /\ \A i \in 1..Len(r) : \/ i \in 1..n /\ r[i] = q[i]
                              \/ i - n \in 1..Len(ms) /\ i \notin 1..n /\ r[i] = ms[i - n]
      /\ Len(r) \in Nat
  BY JoinItems
<1> HIDE DEF r, n
<1>2. Free(q, X) /\ Free(ms, X) => Free(r, X)
  BY <1>1 DEF Free, n
<1>3. ASSUME NoneBehind(q, X, Y), NoneBehind(ms, X, Y), Free(q, X) \/ Free(ms, Y)
      PROVE  NoneBehind(r, X, Y)
  <2> SUFFICES ASSUME NEW i \in 1..Len(r), NEW j \in 1..Len(r), i < j, r[i] \in X,
                      r[j] \in Y
               PROVE  FALSE
    BY DEF NoneBehind
  <2>1. CASE i \in 1..n /\ j \in 1..n
    BY <1>1, <1>3, <2>1 DEF NoneBehind, n
  <2>2. CASE i \notin 1..n /\ j \notin 1..n
    <3>1. /\ i - n \in 1..Len(ms) /\ r[i] = ms[i - n]
          /\ j - n \in 1..Len(ms) /\ r[j] = ms[j - n] /\ i - n < j - n
      BY <1>1, <2>2
    <3> QED BY <1>3, <3>1 DEF NoneBehind
  <2>3. CASE i \in 1..n /\ j \notin 1..n
    <3>1. r[i] = q[i] /\ j - n \in 1..Len(ms) /\ r[j] = ms[j - n]
      BY <1>1, <2>3
    <3> QED BY <1>3, <2>3, <3>1 DEF Free, n
  <2>4. ~(i \notin 1..n /\ j \in 1..n)
    BY <1>1
  <2> QED BY <2>1, <2>2, <2>3, <2>4
<1> QED BY <1>2, <1>3 DEF r

LEMMA PlainQueue ==
    ASSUME NEW P, NEW ms \in Seq(P), NEW X, NEW Y, X \cap P = {}
    PROVE  Free(ms, X) /\ NoneBehind(ms, X, Y)
<1>1. \A i \in 1..Len(ms) : ms[i] \in P
  OBVIOUS
<1> QED BY <1>1 DEF Free, NoneBehind

LEMMA OneQueue ==
    ASSUME NEW m, NEW X, NEW Y
    PROVE  (m \notin X => Free(<<m>>, X)) /\ NoneBehind(<<m>>, X, Y)
<1>1. Len(<<m>>) = 1 /\ <<m>>[1] = m
  OBVIOUS
<1>2. \A i, j \in 1..1 : ~(i < j)
  OBVIOUS
<1> QED BY <1>1, <1>2 DEF Free, NoneBehind

LEMMA OneMore ==
    ASSUME NEW S, NEW q \in Seq(S), NEW x \in S, NEW X, Free(q, X), x \notin X
    PROVE  Free(q \o <<x>>, X)
<1>1. <<x>> \in Seq(S) /\ Free(<<x>>, X)
  BY OneQueue
<1> QED BY <1>1, JoinQueue

LEMMA EmptyQueue ==
    ASSUME NEW X, NEW Y
    PROVE  Free(<< >>, X) /\ NoneBehind(<< >>, X, Y)
BY DEF Free, NoneBehind

LEMMA ThinsTail ==
    ASSUME NEW S, NEW q \in Seq(S), q # << >>, NEW P
    PROVE  Thins(q, Tail(q), P)
<1> SUFFICES ASSUME NEW X, NEW Y
             PROVE  /\ Free(q, X) => Free(Tail(q), X)
                    /\ NoneBehind(q, X, Y) => NoneBehind(Tail(q), X, Y)
  BY DEF Thins
<1> QED BY TailQueue

LEMMA ThinsJoin ==
    ASSUME NEW S, NEW q \in Seq(S), NEW P, NEW ms \in Seq(P), P \subseteq S
    PROVE  Thins(q, q \o ms, P)
<1> SUFFICES ASSUME NEW X, NEW Y, X \cap P = {}, Y \cap P = {}
             PROVE  /\ Free(q, X) => Free(q \o ms, X)
                    /\ NoneBehind(q, X, Y) => NoneBehind(q \o ms, X, Y)
  BY DEF Thins
<1>1. ms \in Seq(S)
  OBVIOUS
<1>2. Free(ms, X) /\ Free(ms, Y) /\ NoneBehind(ms, X, Y)
  BY PlainQueue
<1> QED BY <1>1, <1>2, JoinQueue

LEMMA ThinsOnly ==
    ASSUME NEW q, NEW P, NEW ms \in Seq(P)
    PROVE  Thins(q, ms, P)
BY PlainQueue DEF Thins

-----------------------------------------------------------------------------
(* The invariant.                                                          *)

\* Packets by what they mean for an account.
Opening(a) == {m \in ToMapMsg : m.type = "authOk" /\ m.acc = a}
              \cup {m \in FromMapMsg : m.type = "auth" /\ m.acc = a}
Closing(a) == {m \in ToMapMsg : m.type = "saveAck" /\ m.acc = a}
              \cup {m \in FromMapMsg : m.type = "save" /\ m.final /\ m.acc = a}
ToRegs(a)   == {m \in ToMapMsg : m.type = "regs" /\ m.acc = a}
FromRegs(a) == {m \in FromMapMsg : m.type = "regReq" /\ m.acc = a}
ToLoginRegs(a)   == {m \in L!FromCharMsg : m.type = "reg2" /\ m.acc = a}
FromLoginRegs(a) == {m \in L!ToCharMsg : m.type = "reg2" /\ m.acc = a}

\* In the line of both links.
InOrder(X, Y) == /\ NoneBehind(toMap, X, Y) /\ NoneBehind(fromMap, X, Y)
                 /\ Free(toMap, X) \/ Free(fromMap, Y)
None(X) == Free(toMap, X) /\ Free(fromMap, X)

\* Nothing that was sent for the registries of a is still on its way.
Quiet(a) == /\ Free(toMap, ToRegs(a)) /\ Free(fromMap, FromRegs(a))
            /\ Free(toChar[Self], FromLoginRegs(a))
            /\ Free(fromChar[Self], ToLoginRegs(a))

\* The game has data of the account that the tables need not have.
Busy(a) == a \in DOMAIN pc \/ M!LoggingOut(a)

\* Characters are used by their account only.
OwnedData ==
    /\ \A a \in DOMAIN pc : Owner[pc[a].char] = a
    /\ \A a \in DOMAIN mapAuth : Owner[mapAuth[a].char] = a
OwnedClients ==
    /\ \A t \in Token :
          client[t].at \in {"toMap", "map"} => Owner[client[t].char] = client[t].acc
    /\ \A t \in DOMAIN charSess :
          charSess[t].acc = client[t].acc /\ client[t].at # "none"

\* What is in the game, or left it, is the latest; the tables have it too, unless
\* it is there.
Current ==
    /\ NoRollback
    /\ \A a \in DOMAIN mapAuth :
          M!LoggingOut(a) => mapAuth[a].ver = latest[mapAuth[a].char]
Settled == \A c \in Char : /\ sql[c] <= latest[c]
                           /\ sql[c] = latest[c] \/ InPlay(c) \/ Left(c)

\* The account is not in play again, and if it left, it left with c.
Closed(a, c) == /\ a \notin DOMAIN pc
                /\ M!LoggingOut(a) => c = mapAuth[a].char

GoodSave(m) == /\ Owner[m.char] = m.acc
               /\ sql[m.char] <= m.ver /\ m.ver <= latest[m.char]
               /\ m.final => m.ver = latest[m.char] /\ Closed(m.acc, m.char)
GoodAck(m)  == /\ Owner[m.char] = m.acc
               /\ sql[m.char] = latest[m.char] /\ Closed(m.acc, m.char)
GoodData(m) == /\ Owner[m.char] = m.acc
               /\ Busy(m.acc) \/ m.ver = latest[m.char]

GoodFromMap(m) == /\ m.type = "save" => GoodSave(m)
                  /\ m.type = "auth" => Owner[m.char] = m.acc
GoodToMap(m)   == /\ m.type = "saveAck" => GoodAck(m)
                  /\ m.type = "authOk" => GoodData(m)
BadFromMap == {m \in FromMapMsg : ~GoodFromMap(m)}
BadToMap   == {m \in ToMapMsg : ~GoodToMap(m)}
Packets == Free(fromMap, BadFromMap) /\ Free(toMap, BadToMap)

\* The saves of a character are in the order in which they were made.
Newer(c, v)   == {m \in FromMapMsg : m.type = "save" /\ m.char = c /\ m.ver > v}
UpTo(c, v) == {m \in FromMapMsg : m.type = "save" /\ m.char = c /\ m.ver <= v}
Rising == \A c \in Char, v \in Nat : NoneBehind(fromMap, Newer(c, v), UpTo(c, v))

\* An account that left the game opens nothing until what closes it came back;
\* any other closes nothing behind what opens it.
CloseFirst(a) == InOrder(Opening(a), Closing(a))
OpenFirst(a)  == InOrder(Closing(a), Opening(a))
Order == \A a \in Account : /\ M!LoggingOut(a) => OpenFirst(a)
                            /\ ~M!LoggingOut(a) => CloseFirst(a)

\* A node that logs in has the latest data, and nothing will make it old, or
\* none of the registries it waits for was asked for yet.
FreshNode(a) == mapAuth[a].ver = latest[mapAuth[a].char] /\ None(Closing(a))
Nodes == \A a \in DOMAIN mapAuth :
            M!LoggingIn(a) => FreshNode(a) \/ (Quiet(a) /\ mapAuth[a].regs = {})

Kept == /\ OwnedData /\ OwnedClients /\ Current /\ Settled
        /\ Packets /\ Rising /\ Order /\ Nodes

LEMMA KeptImplies == Typed /\ Kept => NoRollback /\ NothingLost
<1> SUFFICES ASSUME Typed, Kept PROVE NothingLost
  BY DEF Kept, Current
<1>1. ASSUME NEW c \in Char, InPlay(c)
      PROVE  \E a \in DOMAIN pc : pc[a].char = c /\ pc[a].ver = latest[c]
  BY <1>1 DEF Kept, Current, NoRollback, InPlay
<1>2. ASSUME NEW c \in Char, Left(c)
      PROVE  \E a \in DOMAIN mapAuth : /\ mapAuth[a].state = "logout"
                                       /\ mapAuth[a].char = c
                                       /\ mapAuth[a].ver = latest[c]
  BY <1>2 DEF Kept, Current, Left, M!LoggingOut
<1> QED BY <1>1, <1>2 DEF Kept, Settled, NothingLost

-----------------------------------------------------------------------------
(* Steps that leave the data alone.                                        *)

\* Packets that neither open nor close, nor are about registries.
PlainTo   == {m \in ToMapMsg : m.type \notin {"saveAck", "authOk", "regs"}}
PlainFrom == {m \in FromMapMsg : m.type \notin {"save", "auth", "regReq"}}
PlainToLogin   == {m \in L!FromCharMsg : m.type # "reg2"}
PlainFromLogin == {m \in L!ToCharMsg : m.type # "reg2"}

ThinToMap   == Thins(toMap, toMap', PlainTo)
ThinFromMap == Thins(fromMap, fromMap', PlainFrom)
ThinToChar   == Thins(toChar[Self], toChar'[Self], PlainFromLogin)
ThinFromChar == Thins(fromChar[Self], fromChar'[Self], PlainToLogin)

\* Who plays what, who left with what, and the versions, stay.
SamePlayers == /\ DOMAIN pc' = DOMAIN pc
               /\ \A a \in DOMAIN pc : pc'[a].char = pc[a].char /\ pc'[a].ver = pc[a].ver
SameLeft == /\ \A a : M!LoggingOut(a)' = M!LoggingOut(a)
            /\ \A a : M!LoggingOut(a) => mapAuth'[a].char = mapAuth[a].char
                                         /\ mapAuth'[a].ver = mapAuth[a].ver
SameData == SamePlayers /\ SameLeft /\ UNCHANGED <<sql, latest>>

\* Nodes that log in stay as they are, or go.
FewerNodes == \A a \in DOMAIN mapAuth' : a \in DOMAIN mapAuth /\ mapAuth'[a] = mapAuth[a]

\* What was true of the links stays true.
OrderKept == /\ Packets' /\ Rising'
             /\ \A a \in Account : /\ CloseFirst(a) => CloseFirst(a)'
                                   /\ OpenFirst(a) => OpenFirst(a)'
                                   /\ None(Closing(a)) => None(Closing(a))'
QuietKept == \A a \in Account : Quiet(a) => Quiet(a)'

LEMMA SameGood ==
    ASSUME SameData
    PROVE  /\ \A m \in FromMapMsg : GoodFromMap(m) => GoodFromMap(m)'
           /\ \A m \in ToMapMsg : GoodToMap(m) => GoodToMap(m)'
<1>1. \A a, c : Closed(a, c) => Closed(a, c)'
  BY DEF SameData, SamePlayers, SameLeft, Closed
<1>2. \A a : Busy(a) <=> Busy(a)'
  BY DEF SameData, SamePlayers, SameLeft, Busy
<1> QED BY <1>1, <1>2
        DEF SameData, GoodFromMap, GoodToMap, GoodSave, GoodAck, GoodData

LEMMA ThinsMore ==
    ASSUME NEW q, NEW r, NEW P, Thins(q, r, P), NEW Q, P \subseteq Q
    PROVE  Thins(q, r, Q)
BY DEF Thins

\* Packets that neither open nor close.
CalmTo   == {m \in ToMapMsg : m.type \notin {"saveAck", "authOk"}}
CalmFrom == {m \in FromMapMsg : m.type \notin {"save", "auth"}}

LEMMA NotCalm ==
    ASSUME NEW a
    PROVE  /\ Opening(a) \cap CalmTo = {} /\ Opening(a) \cap CalmFrom = {}
           /\ Closing(a) \cap CalmTo = {} /\ Closing(a) \cap CalmFrom = {}
<1>1. ToMapMsg \cap FromMapMsg = {}
  BY DEF ToMapMsg, FromMapMsg
<1> QED BY <1>1 DEF Opening, Closing, CalmTo, CalmFrom

LEMMA CalmOrder ==
    ASSUME Kept, SameData,
           Thins(toMap, toMap', CalmTo), Thins(fromMap, fromMap', CalmFrom)
    PROVE  OrderKept
<1>1. Packets'
  <2>1. BadFromMap' \subseteq BadFromMap /\ BadToMap' \subseteq BadToMap
    BY SameGood DEF BadFromMap, BadToMap
  <2>2. BadFromMap' \cap CalmFrom = {} /\ BadToMap' \cap CalmTo = {}
    BY DEF BadFromMap, BadToMap, CalmFrom, CalmTo, GoodFromMap, GoodToMap
  <2>3. Free(fromMap, BadFromMap') /\ Free(toMap, BadToMap')
    BY <2>1 DEF Kept, Packets, Free
  <2> QED BY <2>2, <2>3 DEF Packets, Thins
<1>2. Rising'
  <2>1. \A c, v : Newer(c, v) \cap CalmFrom = {} /\ UpTo(c, v) \cap CalmFrom = {}
    BY DEF Newer, UpTo, CalmFrom
  <2> QED BY <2>1 DEF Kept, Rising, Thins
<1>3. ASSUME NEW a \in Account
      PROVE  /\ CloseFirst(a) => CloseFirst(a)'
             /\ OpenFirst(a) => OpenFirst(a)'
             /\ None(Closing(a)) => None(Closing(a))'
  BY NotCalm DEF CloseFirst, OpenFirst, InOrder, None, Thins
<1> QED BY <1>1, <1>2, <1>3 DEF OrderKept

\* Only packets about the registries of a come up.
LEMMA RegsQuiet ==
    ASSUME NEW a,
           Thins(toMap, toMap', PlainTo \cup ToRegs(a)),
           Thins(fromMap, fromMap', PlainFrom \cup FromRegs(a)),
           Thins(toChar[Self], toChar'[Self], PlainFromLogin \cup FromLoginRegs(a)),
           Thins(fromChar[Self], fromChar'[Self], PlainToLogin \cup ToLoginRegs(a))
    PROVE  \A b : b # a /\ Quiet(b) => Quiet(b)'
<1> SUFFICES ASSUME NEW b, b # a, Quiet(b) PROVE Quiet(b)'
  OBVIOUS
<1>1. /\ ToRegs(b) \cap (PlainTo \cup ToRegs(a)) = {}
      /\ FromRegs(b) \cap (PlainFrom \cup FromRegs(a)) = {}
      /\ ToLoginRegs(b) \cap (PlainToLogin \cup ToLoginRegs(a)) = {}
      /\ FromLoginRegs(b) \cap (PlainFromLogin \cup FromLoginRegs(a)) = {}
  BY DEF ToRegs, FromRegs, ToLoginRegs, FromLoginRegs, PlainTo, PlainFrom, PlainToLogin,
         PlainFromLogin
<1> QED BY <1>1 DEF Quiet, Thins

LEMMA ThinQuiet ==
    ASSUME ThinToMap, ThinFromMap, ThinToChar, ThinFromChar
    PROVE  QuietKept
<1> SUFFICES ASSUME NEW a, Quiet(a) PROVE Quiet(a)'
  BY DEF QuietKept
<1>1. /\ ToRegs(a) \cap PlainTo = {} /\ FromRegs(a) \cap PlainFrom = {}
      /\ ToLoginRegs(a) \cap PlainToLogin = {} /\ FromLoginRegs(a) \cap PlainFromLogin = {}
  BY DEF ToRegs, FromRegs, ToLoginRegs, FromLoginRegs, PlainTo, PlainFrom, PlainToLogin,
         PlainFromLogin
<1> QED BY <1>1 DEF Quiet, ThinToMap, ThinFromMap, ThinToChar, ThinFromChar, Thins

LEMMA PlainIsCalm ==
    /\ PlainTo \subseteq CalmTo /\ PlainFrom \subseteq CalmFrom
    /\ \A a : ToRegs(a) \subseteq CalmTo /\ FromRegs(a) \subseteq CalmFrom
BY DEF PlainTo, CalmTo, PlainFrom, CalmFrom, ToRegs, FromRegs

LEMMA ThinOrder ==
    ASSUME Kept, SameData, ThinToMap, ThinFromMap
    PROVE  OrderKept
<1>1. Thins(toMap, toMap', CalmTo) /\ Thins(fromMap, fromMap', CalmFrom)
  BY PlainIsCalm, ThinsMore DEF ThinToMap, ThinFromMap
<1> QED BY <1>1, CalmOrder

\* The links and the nodes are for the lemmas below to say.
LEMMA SameDataKept ==
    ASSUME Kept, SameData, Packets', Rising', Order', OwnedClients', Nodes',
           \A a \in DOMAIN mapAuth' : Owner[mapAuth'[a].char] = a
    PROVE  Kept'
<1>1. OwnedData'
  BY DEF Kept, OwnedData, SameData, SamePlayers
<1>2. Current'
  BY DEF Kept, Current, NoRollback, SameData, SamePlayers, SameLeft, M!LoggingOut
<1>3. Settled'
  <2>1. \A c \in Char : (InPlay(c) <=> InPlay(c)') /\ (Left(c) <=> Left(c)')
    BY DEF SameData, SamePlayers, SameLeft, InPlay, Left, M!LoggingOut
  <2> QED BY <2>1 DEF Kept, Settled, SameData
<1> QED BY <1>1, <1>2, <1>3 DEF Kept

LEMMA DataKept ==
    ASSUME Kept, SameData, OrderKept, OwnedClients', Nodes',
           \A a \in DOMAIN mapAuth' : Owner[mapAuth'[a].char] = a
    PROVE  Kept'
<1>1. Order'
  BY DEF Kept, Order, OrderKept, SameData, SameLeft
<1> QED BY <1>1, SameDataKept DEF OrderKept

LEMMA NodesFewer ==
    ASSUME Typed, Kept, SameData, OrderKept, QuietKept, FewerNodes
    PROVE  Nodes' /\ \A a \in DOMAIN mapAuth' : Owner[mapAuth'[a].char] = a
<1>1. \A a \in DOMAIN mapAuth' : a \in DOMAIN mapAuth /\ mapAuth'[a] = mapAuth[a]
                                 /\ a \in Account
  BY DEF FewerNodes, Typed, MapData, IsIdb
<1>2. \A a \in DOMAIN mapAuth' : Owner[mapAuth'[a].char] = a
  BY <1>1 DEF Kept, OwnedData
<1>3. ASSUME NEW a \in DOMAIN mapAuth', M!LoggingIn(a)'
      PROVE  FreshNode(a)' \/ (Quiet(a) /\ mapAuth[a].regs = {})'
  BY <1>1, <1>3 DEF Kept, Nodes, OrderKept, QuietKept, FreshNode, SameData, M!LoggingIn
<1> QED BY <1>2, <1>3 DEF Nodes

LEMMA CalmKept ==
    ASSUME Typed, Kept, SameData, FewerNodes, OwnedClients',
           ThinToMap, ThinFromMap, ThinToChar, ThinFromChar
    PROVE  Kept'
BY ThinOrder, ThinQuiet, NodesFewer, DataKept

-----------------------------------------------------------------------------
(* The abstract ledger.                                                    *)

Where(c) == IF InPlay(c) THEN "inPlay" ELSE IF Left(c) THEN "left" ELSE "away"
Held(c) == IF InPlay(c) THEN pc[Owner[c]].ver
           ELSE IF Left(c) THEN mapAuth[Owner[c]].ver ELSE sql[c]
where == [c \in Char |-> Where(c)]
held  == [c \in Char |-> Held(c)]

LedgerStep == Ledger!LedgerNext \/ UNCHANGED <<sql, where, held>>

LEMMA SameLedger == ASSUME SameData PROVE LedgerStep
<1>1. \A c \in Char : Where(c)' = Where(c) /\ Held(c)' = Held(c)
  BY DEF Where, Held, InPlay, Left, SameData, SamePlayers, SameLeft, M!LoggingOut
<1> QED BY <1>1 DEF LedgerStep, where, held, SameData

LEMMA LedgerStepIs == LedgerStep => [Ledger!LedgerNext]_Ledger!ledger
BY DEF LedgerStep, Ledger!ledger, where, held, Where, Held


-----------------------------------------------------------------------------
(* The char-server.                                                        *)

Follows == Kept' /\ LedgerStep

\* What the servers put on their links in most steps.
LEMMA LinkTypes ==
    ASSUME Typed
    PROVE  /\ toMap \in Seq(ToMapMsg) /\ fromMap \in Seq(FromMapMsg)
           /\ toChar[Self] \in Seq(L!ToCharMsg) /\ fromChar[Self] \in Seq(L!FromCharMsg)
           /\ Self \in DOMAIN toChar /\ Self \in DOMAIN fromChar
           /\ PlainTo \subseteq ToMapMsg /\ PlainFrom \subseteq FromMapMsg
           /\ PlainToLogin \subseteq L!FromCharMsg /\ PlainFromLogin \subseteq L!ToCharMsg
BY SelfAssumption
   DEF SelfAssumption, Typed, ToCharLink, FromCharLink, MapLink, PlainTo, PlainFrom,
       PlainToLogin, PlainFromLogin

LEMMA ThinStill ==
    /\ UNCHANGED toChar => ThinToChar
    /\ UNCHANGED fromChar => ThinFromChar
    /\ UNCHANGED toMap => ThinToMap
    /\ UNCHANGED fromMap => ThinFromMap
BY ThinsSame DEF ThinToChar, ThinFromChar, ThinToMap, ThinFromMap

LEMMA ThinToLogin ==
    ASSUME Typed, NEW ms \in Seq(PlainToLogin), C!ToLogin(ms)
    PROVE  ThinFromChar
<1>1. fromChar' = fromChar \/ fromChar'[Self] = fromChar[Self] \o ms
  BY LinkTypes DEF C!ToLogin
<1> QED BY <1>1, LinkTypes, ThinsJoin, ThinsSame DEF ThinFromChar

LEMMA ThinToMapServer ==
    ASSUME Typed, NEW ms \in Seq(PlainTo), C!ToMapServer(ms)
    PROVE  ThinToMap
BY LinkTypes, ThinsJoin, ThinsSame DEF C!ToMapServer, ThinToMap

LEMMA ThinSend ==
    ASSUME Typed, NEW ms \in Seq(PlainFrom), M!Send(ms)
    PROVE  ThinFromMap
BY LinkTypes, ThinsJoin, ThinsSame DEF M!Send, ThinFromMap

LEMMA ThinTaken ==
    ASSUME Typed
    PROVE  /\ \A type : C!FromLogin(type) => ThinToChar
           /\ \A type : C!FromMap(type) => ThinFromMap
           /\ \A type : M!FromCharServer(type) => ThinToMap
<1>1. ASSUME NEW type, C!FromLogin(type) PROVE ThinToChar
  <2>1. toChar'[Self] = Tail(toChar[Self]) /\ toChar[Self] # << >>
    BY <1>1, LinkTypes DEF C!FromLogin
  <2> QED BY <2>1, LinkTypes, ThinsTail DEF ThinToChar
<1>2. ASSUME NEW type, C!FromMap(type) PROVE ThinFromMap
  BY <1>2, LinkTypes, ThinsTail DEF ThinFromMap, C!FromMap
<1>3. ASSUME NEW type, M!FromCharServer(type) PROVE ThinToMap
  BY <1>3, LinkTypes, ThinsTail DEF ThinToMap, M!FromCharServer
<1> QED BY <1>1, <1>2, <1>3

LEMMA ThinSent ==
    ASSUME NEW a \in Account
    PROVE  /\ << >> \in Seq(PlainToLogin) /\ << >> \in Seq(PlainTo)
           /\ << >> \in Seq(PlainFrom)
           /\ <<C!OnlineMsg(a)>> \in Seq(PlainToLogin)
           /\ <<C!OfflineMsg(a)>> \in Seq(PlainToLogin)
           /\ <<C!DisconnectMsg(a)>> \in Seq(PlainTo)
           /\ \A db, c : C!OfflineNotice(db, c, a) \in Seq(PlainToLogin)
           /\ \A db, s : C!OnlineConflict(db, s, a) \in Seq(PlainTo)
<1>1. C!OnlineMsg(a) \in PlainToLogin /\ C!OfflineMsg(a) \in PlainToLogin
  BY DEF C!OnlineMsg, C!OfflineMsg, L!FromCharMsg, PlainToLogin
<1>2. C!DisconnectMsg(a) \in PlainTo
  BY DEF C!DisconnectMsg, ToMapMsg, PlainTo
<1> QED BY <1>1, <1>2 DEF C!OfflineNotice, C!OnlineConflict

LEMMA ThinAccounts ==
    ASSUME Typed
    PROVE  <<C!AccountsMsg>> \in Seq(PlainToLogin)
<1> DEFINE S == {a \in DOMAIN onlineChar : onlineChar[a].server = C!MapServerId}
<1>1. S \in SUBSET Account
  BY DEF Typed, CharData, IsIdb
<1>2. C!SetToSeq(S) \in AccountList
  BY <1>1, AccountListAssumption DEF AccountListAssumption
<1>3. C!AccountsMsg = [type |-> "accounts", ids |-> C!SetToSeq(S)]
  BY DEF C!AccountsMsg
<1> HIDE DEF S
<1>4. C!AccountsMsg \in PlainToLogin
  BY <1>2, <1>3 DEF L!FromCharMsg, PlainToLogin
<1> QED BY <1>4

\* The sessions are those of before, or fewer.
SessionsStay == \A t \in DOMAIN charSess' : t \in DOMAIN charSess
                                            /\ charSess'[t].acc = charSess[t].acc

LEMMA ClientsStay ==
    ASSUME Typed, Kept, SessionsStay, UNCHANGED client
    PROVE  OwnedClients'
BY DEF Kept, OwnedClients, SessionsStay

LEMMA SessionsFewer ==
    /\ UNCHANGED charSess => SessionsStay
    /\ \A t : charSess' = [charSess EXCEPT ![t].eof = TRUE] => SessionsStay
    /\ \A t : charSess' = C!IdbRemove(charSess, t) => SessionsStay
<1>1. ASSUME NEW t, charSess' = [charSess EXCEPT ![t].eof = TRUE] PROVE SessionsStay
  <2> DEFINE e == [charSess[t] EXCEPT !.eof = TRUE]
  <2>1. \A u \in DOMAIN charSess' :
           u \in DOMAIN charSess /\ charSess'[u] = IF u = t THEN e ELSE charSess[u]
    BY <1>1
  <2>2. e.acc = charSess[t].acc
    OBVIOUS
  <2> HIDE DEF e
  <2> QED BY <2>1, <2>2 DEF SessionsStay
<1> QED BY <1>1 DEF SessionsStay, C!IdbRemove

LEMMA CharFollows ==
    ASSUME Typed, Kept, CharStep, UNCHANGED sql, OwnedClients',
           ThinToMap, ThinFromMap, ThinToChar, ThinFromChar
    PROVE  Follows
<1>1. SameData /\ FewerNodes
  BY DEF CharStep, mapVars, SameData, SamePlayers, SameLeft, FewerNodes, M!LoggingOut
<1> QED BY <1>1, CalmKept, SameLedger DEF Follows

LEMMA AuthOkThin ==
    ASSUME Typed, NEW t, NEW a \in Account, NEW sess, C!AuthOk(t, a, sess)
    PROVE  /\ ThinFromChar /\ ThinToMap
           /\ charSess' = sess \/ charSess' = [sess EXCEPT ![t].auth = TRUE]
<1>1. /\ charSess' = sess \/ charSess' = [sess EXCEPT ![t].auth = TRUE]
      /\ C!ToLogin(<< >>) \/ C!ToLogin(<<C!OnlineMsg(a)>>)
      /\ C!ToMapServer(<< >>) \/ C!ToMapServer(<<C!DisconnectMsg(a)>>)
  BY DEF C!AuthOk
<1> QED BY <1>1, ThinSent, ThinToLogin, ThinToMapServer

LEMMA SessionAuthed ==
    ASSUME NEW sess, NEW t,
           charSess' = sess \/ charSess' = [sess EXCEPT ![t].auth = TRUE]
    PROVE  \A u \in DOMAIN charSess' : u \in DOMAIN sess /\ charSess'[u].acc = sess[u].acc
<1> DEFINE e == [sess[t] EXCEPT !.auth = TRUE]
<1>1. \A u \in DOMAIN charSess' :
         u \in DOMAIN sess /\ charSess'[u] \in {sess[u], IF u = t THEN e ELSE sess[u]}
  OBVIOUS
<1>2. e.acc = sess[t].acc
  OBVIOUS
<1> HIDE DEF e
<1> QED BY <1>1, <1>2

\* 0x65.
LEMMA ConnectCharFollows ==
    ASSUME Typed, Kept, NEW t \in Token, ConnectChar(t)
    PROVE  Follows
<1> DEFINE a == client[t].acc
           new  == [acc |-> a, auth |-> FALSE, eof |-> FALSE]
           sess == C!IdbPut(charSess, t, new)
           ask  == [type |-> "auth", acc |-> a, tok |-> t, req |-> t]
<1>1. /\ a \in Account /\ MovesTo(t, "char") /\ CharStep
      /\ client \in [Token -> Client] /\ UNCHANGED <<sql, toChar, fromMap>>
  BY DEF ConnectChar, Typed, Clients, Client, C!CharConnect
<1>2. /\ ThinFromChar /\ ThinToMap
      /\ charSess' = sess \/ charSess' = [sess EXCEPT ![t].auth = TRUE]
  <2>1. CASE C!AuthOk(t, a, sess)
    <3> HIDE DEF sess, a
    <3> QED BY <1>1, <2>1, AuthOkThin
  <2>2. CASE charSess' = sess /\ C!ToLogin(<<ask>>) /\ UNCHANGED toMap
    <3>1. ask \in PlainToLogin
      BY <1>1 DEF PlainToLogin, L!FromCharMsg
    <3> HIDE DEF ask
    <3>2. <<ask>> \in Seq(PlainToLogin)
      BY <3>1
    <3> QED BY <2>2, <3>2, ThinToLogin, ThinStill
  <2> QED BY <2>1, <2>2 DEF ConnectChar, C!CharConnect
<1>3. \A u \in DOMAIN sess : \/ u = t /\ sess[u].acc = a
                             \/ u \in DOMAIN charSess /\ sess[u] = charSess[u]
  BY DEF C!IdbPut
<1>4. OwnedClients'
  <2> HIDE DEF sess
  <2>1. \A u \in DOMAIN charSess' : u \in DOMAIN sess /\ charSess'[u].acc = sess[u].acc
    BY <1>2, SessionAuthed
  <2>2. \A u \in Token : client'[u].acc = client[u].acc /\ client'[u].char = client[u].char
                         /\ client'[u].at = IF u = t THEN "char" ELSE client[u].at
    BY <1>1 DEF MovesTo, Client
  <2>3. DOMAIN charSess \subseteq Token
    BY DEF Typed, CharData, IsIdb
  <2> QED BY <1>3, <2>1, <2>2, <2>3 DEF Kept, OwnedClients
<1> QED BY <1>1, <1>2, <1>4, ThinStill, CharFollows

\* 0x66.
LEMMA SelectCharFollows ==
    ASSUME Typed, Kept, NEW t \in Token, SelectChar(t)
    PROVE  Follows
<1>1. PICK c \in Char :
         C!CharSelect(t, c) /\ client' = [client EXCEPT ![t].at = "toMap", ![t].char = c]
  BY DEF SelectChar
<1> DEFINE a == charSess[t].acc
<1>2. /\ t \in DOMAIN charSess /\ Owner[c] = a /\ CharStep
      /\ C!ToMapServer(C!OnlineConflict(onlineChar, C!UnknownMapServer, a))
      /\ C!ToLogin(<<C!OnlineMsg(a)>>)
      /\ UNCHANGED <<sql, charSess, toChar, fromMap>>
  BY <1>1 DEF C!CharSelect, SelectChar
<1>3. a \in Account /\ client \in [Token -> Client]
  <2>1. charSess[t] \in CharSession
    BY <1>2, EntryTyped DEF Typed, CharData
  <2> QED BY <2>1 DEF CharSession, Typed, Clients
<1>4. OwnedClients'
  <2>1. \A u \in Token : /\ client'[u].acc = client[u].acc
                         /\ client'[u].char = IF u = t THEN c ELSE client[u].char
                         /\ client'[u].at = IF u = t THEN "toMap" ELSE client[u].at
    BY <1>1, <1>3 DEF Client
  <2>2. DOMAIN charSess \subseteq Token
    BY DEF Typed, CharData, IsIdb
  <2> QED BY <1>2, <2>1, <2>2 DEF Kept, OwnedClients
<1> HIDE DEF a
<1>5. ThinFromChar /\ ThinToMap
  BY <1>2, <1>3, ThinSent, ThinToLogin, ThinToMapServer
<1> QED BY <1>2, <1>4, <1>5, ThinStill, CharFollows

LEMMA CharEofFollows ==
    ASSUME Typed, Kept, NEW t \in Token, CharStep, UNCHANGED client,
           C!CharClientEof(t) \/ C!CharParseEof(t)
    PROVE  Follows
<1>1. CASE C!CharClientEof(t)
  BY <1>1, SessionsFewer, ClientsStay, ThinStill, CharFollows DEF C!CharClientEof
<1>2. CASE C!CharParseEof(t)
  <2>1. /\ charSess' = C!IdbRemove(charSess, t)
        /\ t \in DOMAIN charSess
        /\ C!ToLogin(<< >>) \/ C!ToLogin(<<C!OfflineMsg(charSess[t].acc)>>)
        /\ UNCHANGED <<sql, toChar, toMap, fromMap>>
    BY <1>2 DEF C!CharParseEof
  <2>2. charSess[t].acc \in Account
    <3>1. charSess[t] \in CharSession
      BY <2>1, EntryTyped DEF Typed, CharData
    <3> QED BY <3>1 DEF CharSession
  <2>3. ThinFromChar
    BY <2>1, <2>2, ThinSent, ThinToLogin
  <2> QED BY <2>1, <2>3, SessionsFewer, ClientsStay, ThinStill, CharFollows
<1> QED BY <1>1, <1>2


\* A link-step that may bring packets about the registries of an account that was
\* not quiet.
LEMMA RegsFollow ==
    ASSUME Typed, Kept, UNCHANGED <<mapVars, sql, charSess, client>>, NEW a, ~Quiet(a),
           Thins(toMap, toMap', PlainTo \cup ToRegs(a)),
           Thins(fromMap, fromMap', PlainFrom \cup FromRegs(a)),
           Thins(toChar[Self], toChar'[Self], PlainFromLogin \cup FromLoginRegs(a)),
           Thins(fromChar[Self], fromChar'[Self], PlainToLogin \cup ToLoginRegs(a))
    PROVE  Follows
<1>1. SameData /\ FewerNodes
  BY DEF mapVars, SameData, SamePlayers, SameLeft, FewerNodes, M!LoggingOut
<1>2. OrderKept
  <2>1. Thins(toMap, toMap', CalmTo) /\ Thins(fromMap, fromMap', CalmFrom)
    <3>1. PlainTo \cup ToRegs(a) \subseteq CalmTo /\ PlainFrom \cup FromRegs(a) \subseteq CalmFrom
      BY PlainIsCalm
    <3> HIDE DEF Thins
    <3> QED BY <3>1, ThinsMore
  <2> QED BY <1>1, <2>1, CalmOrder
<1>3. QuietKept
  BY RegsQuiet DEF QuietKept
<1>4. OwnedClients'
  BY SessionsFewer, ClientsStay
<1> QED BY <1>1, <1>2, <1>3, <1>4, NodesFewer, DataKept, SameLedger DEF Follows

LEMMA AuthStateFollows ==
    ASSUME Typed, Kept, CharStep, UNCHANGED client, C!FromLoginAuthState
    PROVE  Follows
<1> DEFINE m == Head(toChar[Self])
<1>1. ThinToChar /\ UNCHANGED <<sql, fromMap>>
  BY ThinTaken DEF C!FromLoginAuthState
<1>2. CASE C!AuthOk(m.req, m.acc, charSess)
  <2>1. m \in L!ToCharMsg /\ m.type = "authAck"
    BY FromLoginTyped DEF C!FromLoginAuthState
  <2> HIDE DEF m
  <2>2. m.acc \in Account
    BY <2>1 DEF L!ToCharMsg
  <2>3. /\ ThinFromChar /\ ThinToMap
        /\ charSess' = charSess \/ charSess' = [charSess EXCEPT ![m.req].auth = TRUE]
    BY <1>2, <2>2, AuthOkThin
  <2>4. SessionsStay
    BY <2>3, SessionAuthed DEF SessionsStay
  <2> QED BY <1>1, <2>3, <2>4, ClientsStay, ThinStill, CharFollows
<1>3. CASE UNCHANGED <<charSess, onlineChar, fromChar, toMap>>
  BY <1>1, <1>3, SessionsFewer, ClientsStay, ThinStill, CharFollows
<1> QED BY <1>2, <1>3 DEF C!FromLoginAuthState

LEMMA KickFollows ==
    ASSUME Typed, Kept, CharStep, UNCHANGED client, C!FromLoginKick
    PROVE  Follows
<1> DEFINE m == Head(toChar[Self])
           a == m.acc
<1>1. ThinToChar /\ UNCHANGED <<sql, fromMap>>
  BY ThinTaken DEF C!FromLoginKick
<1>2. a \in Account
  <2>1. m \in L!ToCharMsg /\ m.type = "kick"
    BY FromLoginTyped DEF C!FromLoginKick
  <2> HIDE DEF m
  <2> QED BY <2>1 DEF L!ToCharMsg
<1>3. /\ \/ charSess' = charSess
         \/ \E t \in DOMAIN charSess : charSess' = [charSess EXCEPT ![t].eof = TRUE]
      /\ fromChar' = fromChar \/ C!ToLogin(<<C!OfflineMsg(a)>>)
      /\ toMap' = toMap \/ C!ToMapServer(<<C!DisconnectMsg(a)>>)
  BY DEF C!FromLoginKick
<1> HIDE DEF a
<1>4. SessionsStay
  BY <1>3, SessionsFewer
<1>5. ThinFromChar /\ ThinToMap
  BY <1>2, <1>3, ThinSent, ThinStill, ThinToLogin, ThinToMapServer
<1> QED BY <1>1, <1>4, <1>5, ClientsStay, ThinStill, CharFollows

\* 0x2729.
LEMMA AccountReg2Follows ==
    ASSUME Typed, Kept, CharStep, UNCHANGED client, C!FromLoginAccountReg2
    PROVE  Follows
<1> DEFINE m == Head(toChar[Self])
           a == m.acc
           x == [type |-> "regs", part |-> "acc2", acc |-> m.acc, char |-> m.char]
<1>1. /\ C!ToMapServer(<<x>>) /\ ThinToChar
      /\ UNCHANGED <<sql, charSess, fromChar, fromMap>>
  BY ThinTaken DEF C!FromLoginAccountReg2, C!charVars, C!charData
<1>2. toChar[Self] # << >> /\ m.type = "reg2" /\ m \in L!ToCharMsg
  BY FromLoginTyped DEF C!FromLoginAccountReg2, C!FromLogin
<1>3. ~Quiet(a)
  <2>1. m \in FromLoginRegs(a)
    BY <1>2 DEF FromLoginRegs
  <2>2. ~Free(toChar[Self], FromLoginRegs(a))
    BY <1>2, <2>1, LinkTypes, TailQueue
  <2> QED BY <2>2 DEF Quiet
<1>4. <<x>> \in Seq(PlainTo \cup ToRegs(a))
  <2>1. m.acc \in Account /\ m.char \in Char
    <3> HIDE DEF m
    <3> QED BY <1>2 DEF L!ToCharMsg
  <2> HIDE DEF m
  <2>2. x \in ToMapMsg /\ x.type = "regs" /\ x.acc = a
    BY <2>1 DEF ToMapMsg, M!RegPart
  <2> HIDE DEF x
  <2>3. x \in ToRegs(a)
    BY <2>2 DEF ToRegs
  <2> QED BY <2>3
<1> HIDE DEF x, a
<1>5. Thins(toMap, toMap', PlainTo \cup ToRegs(a))
  <2>1. PlainTo \cup ToRegs(a) \subseteq ToMapMsg
    BY DEF PlainTo, ToRegs
  <2> QED BY <1>1, <1>4, <2>1, LinkTypes, ThinsJoin, ThinsSame DEF C!ToMapServer
<1>6. /\ Thins(fromMap, fromMap', PlainFrom \cup FromRegs(a))
      /\ Thins(toChar[Self], toChar'[Self], PlainFromLogin \cup FromLoginRegs(a))
      /\ Thins(fromChar[Self], fromChar'[Self], PlainToLogin \cup ToLoginRegs(a))
  <2>1. Thins(toChar[Self], toChar'[Self], PlainFromLogin)
    BY <1>1 DEF ThinToChar
  <2>2. PlainFromLogin \subseteq PlainFromLogin \cup FromLoginRegs(a)
    OBVIOUS
  <2> QED BY <1>1, <2>1, <2>2, ThinsSame, ThinsMore
<1> QED BY <1>1, <1>3, <1>5, <1>6, RegsFollow DEF CharStep

LEMMA CharHandlesLoginFollows ==
    ASSUME Typed, Kept, CharStep, UNCHANGED client, CharHandlesLogin
    PROVE  Follows
<1>1. CASE C!FromLoginConnected
  <2>1. /\ UNCHANGED <<sql, charSess, toMap, fromMap>>
        /\ C!ToLogin(<<C!AccountsMsg>>)
        /\ ThinToChar
    BY <1>1, ThinTaken DEF C!FromLoginConnected, C!charVars, C!charData
  <2>2. ThinFromChar
    BY <2>1, ThinAccounts, ThinToLogin
  <2> QED BY <2>1, <2>2, SessionsFewer, ClientsStay, ThinStill, CharFollows
<1> QED BY <1>1, AuthStateFollows, KickFollows, AccountReg2Follows DEF CharHandlesLogin


LEMMA FromMapPlainFollows ==
    ASSUME Typed, Kept, CharStep, UNCHANGED client,
           \/ C!FromMapMapNames \/ C!FromMapSetUsers \/ C!FromMapCharSelectReq
           \/ C!FromMapSetCharOffline
    PROVE  Follows
<1> DEFINE m == Head(fromMap)
<1>1. ThinFromMap /\ UNCHANGED <<sql, charSess, toChar>>
  BY ThinTaken
     DEF C!FromMapMapNames, C!FromMapSetUsers, C!FromMapCharSelectReq,
         C!FromMapSetCharOffline, C!charData
<1>2. OwnedClients'
  BY <1>1, SessionsFewer, ClientsStay
<1>3. CASE C!FromMapMapNames
  <2>1. <<[type |-> "mapsAck"]>> \in Seq(PlainTo)
    BY DEF ToMapMsg, PlainTo
  <2>2. ThinToMap /\ ThinFromChar
    BY <1>3, <2>1, ThinToMapServer, ThinStill DEF C!FromMapMapNames
  <2> QED BY <1>1, <1>2, <2>2, ThinStill, CharFollows
<1>4. CASE C!FromMapSetUsers
  BY <1>1, <1>2, <1>4, ThinStill, CharFollows DEF C!FromMapSetUsers
<1>5. CASE C!FromMapCharSelectReq
  <2> DEFINE x == [type |-> "selectAck", acc |-> m.acc]
  <2>1. m.acc \in Account
    BY <1>5, FromMapTyped, FromMapFields DEF C!FromMapCharSelectReq
  <2>2. C!ToLogin(<<C!OnlineMsg(m.acc)>>) /\ C!ToMapServer(<<x>>)
    BY <1>5 DEF C!FromMapCharSelectReq
  <2> HIDE DEF m
  <2>3. x \in PlainTo
    BY <2>1 DEF ToMapMsg, PlainTo
  <2> HIDE DEF x
  <2>4. <<x>> \in Seq(PlainTo)
    BY <2>3
  <2>5. ThinToMap /\ ThinFromChar
    BY <2>1, <2>2, <2>4, ThinSent, ThinToMapServer, ThinToLogin
  <2> QED BY <1>1, <1>2, <2>5, ThinStill, CharFollows
<1>6. CASE C!FromMapSetCharOffline
  <2>1. m.acc \in Account
    BY <1>6, FromMapTyped, FromMapFields DEF C!FromMapSetCharOffline
  <2>2. C!ToLogin(C!OfflineNotice(onlineChar, m.char, m.acc)) /\ UNCHANGED toMap
    BY <1>6 DEF C!FromMapSetCharOffline
  <2> HIDE DEF m
  <2>3. ThinFromChar
    BY <2>1, <2>2, ThinSent, ThinToLogin
  <2> QED BY <1>1, <1>2, <2>2, <2>3, ThinStill, CharFollows
<1> QED BY <1>3, <1>4, <1>5, <1>6

\* 0x3005.
LEMMA RegistryRequestFollows ==
    ASSUME Typed, Kept, CharStep, UNCHANGED client, C!FromMapRegistryRequest
    PROVE  Follows
<1> DEFINE m == Head(fromMap)
           a == m.acc
           x == [type |-> "regs", part |-> "local", acc |-> m.acc, char |-> m.char]
           y == [type |-> "reg2", acc |-> m.acc, char |-> m.char]
<1>1. /\ C!ToMapServer(<<x>>) /\ C!ToLogin(<<y>>) /\ ThinFromMap
      /\ UNCHANGED <<sql, charSess, toChar>>
  BY ThinTaken DEF C!FromMapRegistryRequest, C!charVars, C!charData
<1>2. fromMap # << >> /\ m.type = "regReq" /\ m \in FromMapMsg
  BY FromMapTyped DEF C!FromMapRegistryRequest, C!FromMap
<1>3. ~Quiet(a)
  <2>1. m \in FromRegs(a)
    BY <1>2 DEF FromRegs
  <2>2. ~Free(fromMap, FromRegs(a))
    BY <1>2, <2>1, LinkTypes, TailQueue
  <2> QED BY <2>2 DEF Quiet
<1>4. m.acc \in Account /\ m.char \in Char
  BY <1>2, FromMapFields
<1>5. x \in ToRegs(a) /\ y \in ToLoginRegs(a)
  <2> HIDE DEF m
  <2>1. x \in ToMapMsg /\ x.type = "regs" /\ x.acc = a
    BY <1>4 DEF ToMapMsg, M!RegPart
  <2>2. y \in L!FromCharMsg /\ y.type = "reg2" /\ y.acc = a
    BY <1>4 DEF L!FromCharMsg
  <2> HIDE DEF x, y
  <2> QED BY <2>1, <2>2 DEF ToRegs, ToLoginRegs
<1> HIDE DEF x, y, a
<1>6. <<x>> \in Seq(PlainTo \cup ToRegs(a)) /\ <<y>> \in Seq(PlainToLogin \cup ToLoginRegs(a))
  BY <1>5
<1>7. Thins(toMap, toMap', PlainTo \cup ToRegs(a))
  <2>1. PlainTo \cup ToRegs(a) \subseteq ToMapMsg
    BY DEF PlainTo, ToRegs
  <2> QED BY <1>1, <1>6, <2>1, LinkTypes, ThinsJoin, ThinsSame DEF C!ToMapServer
<1>8. Thins(fromChar[Self], fromChar'[Self], PlainToLogin \cup ToLoginRegs(a))
  <2>1. PlainToLogin \cup ToLoginRegs(a) \subseteq L!FromCharMsg
    BY DEF PlainToLogin, ToLoginRegs
  <2>2. fromChar' = fromChar \/ fromChar'[Self] = fromChar[Self] \o <<y>>
    BY <1>1, LinkTypes DEF C!ToLogin
  <2> QED BY <1>6, <2>1, <2>2, LinkTypes, ThinsJoin, ThinsSame
<1>9. /\ Thins(fromMap, fromMap', PlainFrom \cup FromRegs(a))
      /\ Thins(toChar[Self], toChar'[Self], PlainFromLogin \cup FromLoginRegs(a))
  <2>1. Thins(fromMap, fromMap', PlainFrom)
    BY <1>1 DEF ThinFromMap
  <2>2. PlainFrom \subseteq PlainFrom \cup FromRegs(a)
    OBVIOUS
  <2> QED BY <1>1, <2>1, <2>2, ThinsSame, ThinsMore
<1> QED BY <1>1, <1>3, <1>7, <1>8, <1>9, RegsFollow DEF CharStep

\* The answer takes the place of the request in the line.
LEMMA AnswerOrder ==
    ASSUME Typed, fromMap # << >>, fromMap' = Tail(fromMap),
           NEW x \in ToMapMsg, toMap' = toMap \o <<x>>, NEW X, NEW Y,
           x \in X => Head(fromMap) \in X, x \in Y => Head(fromMap) \in Y
    PROVE  /\ InOrder(X, Y) => InOrder(X, Y)'
           /\ None(X) => None(X)'
<1>1. toMap \in Seq(ToMapMsg) /\ fromMap \in Seq(FromMapMsg) /\ <<x>> \in Seq(ToMapMsg)
  BY LinkTypes
<1>2. NoneBehind(<<x>>, X, Y) /\ (x \notin X => Free(<<x>>, X)) /\ (x \notin Y => Free(<<x>>, Y))
  BY OneQueue
<1>3. /\ Free(toMap, X) /\ Free(<<x>>, X) => Free(toMap', X)
      /\ NoneBehind(toMap, X, Y) /\ (Free(toMap, X) \/ Free(<<x>>, Y))
            => NoneBehind(toMap', X, Y)
  BY <1>1, <1>2, JoinQueue
<1>4. /\ \A Z : Free(fromMap, Z) => Head(fromMap) \notin Z /\ Free(fromMap', Z)
      /\ NoneBehind(fromMap, X, Y) => NoneBehind(fromMap', X, Y)
      /\ NoneBehind(fromMap, X, Y) /\ Head(fromMap) \in X => Free(fromMap', Y)
  BY <1>1, TailQueue
<1>5. ASSUME InOrder(X, Y) PROVE InOrder(X, Y)'
  BY <1>2, <1>3, <1>4, <1>5 DEF InOrder
<1>6. ASSUME None(X) PROVE None(X)'
  BY <1>2, <1>3, <1>4, <1>6 DEF None
<1> QED BY <1>5, <1>6

\* Nothing about registries comes up.
NotRegsTo   == {m \in ToMapMsg : m.type # "regs"}
NotRegsFrom == {m \in FromMapMsg : m.type # "regReq"}

LEMMA NotRegsQuiet ==
    ASSUME Thins(toMap, toMap', NotRegsTo), Thins(fromMap, fromMap', NotRegsFrom),
           ThinToChar, ThinFromChar
    PROVE  QuietKept
<1> SUFFICES ASSUME NEW a, Quiet(a) PROVE Quiet(a)'
  BY DEF QuietKept
<1>1. /\ ToRegs(a) \cap NotRegsTo = {} /\ FromRegs(a) \cap NotRegsFrom = {}
      /\ ToLoginRegs(a) \cap PlainToLogin = {} /\ FromLoginRegs(a) \cap PlainFromLogin = {}
  BY DEF ToRegs, FromRegs, ToLoginRegs, FromLoginRegs, NotRegsTo, NotRegsFrom,
         PlainToLogin, PlainFromLogin
<1> QED BY <1>1 DEF Quiet, ThinToChar, ThinFromChar, Thins

LEMMA PlainIsNotRegs == PlainTo \subseteq NotRegsTo /\ PlainFrom \subseteq NotRegsFrom
BY DEF PlainTo, PlainFrom, NotRegsTo, NotRegsFrom

\* A packet of the line is good.
LEMMA HeadGood ==
    ASSUME Typed, Kept
    PROVE  /\ fromMap # << >> => Head(fromMap) \in FromMapMsg /\ GoodFromMap(Head(fromMap))
           /\ toMap # << >> => Head(toMap) \in ToMapMsg /\ GoodToMap(Head(toMap))
<1>1. ASSUME fromMap # << >>
      PROVE  Head(fromMap) \in FromMapMsg /\ Head(fromMap) \notin BadFromMap
  BY <1>1, LinkTypes, TailQueue, TailTyped DEF Kept, Packets
<1>2. ASSUME toMap # << >>
      PROVE  Head(toMap) \in ToMapMsg /\ Head(toMap) \notin BadToMap
  BY <1>2, LinkTypes, TailQueue, TailTyped DEF Kept, Packets
<1> QED BY <1>1, <1>2 DEF BadFromMap, BadToMap


\* 0x2b26: what is loaded from the tables is the latest, unless the account is busy.
LEMMA AuthRequestFollows ==
    ASSUME Typed, Kept, CharStep, UNCHANGED client, C!FromMapAuthRequest
    PROVE  Follows
<1> DEFINE m == Head(fromMap)
           a == m.acc
           yes == [type |-> "authOk", acc |-> m.acc, char |-> m.char, tok |-> m.tok,
                   ver |-> sql[m.char]]
           no  == [type |-> "authFail", acc |-> m.acc, char |-> m.char, tok |-> m.tok]
<1>1. /\ UNCHANGED <<sql, charSess, toChar>> /\ OwnedClients' /\ ThinFromMap
      /\ fromMap # << >> /\ fromMap' = Tail(fromMap) /\ mapFd # "none"
  BY ThinTaken, SessionsFewer, ClientsStay DEF C!FromMapAuthRequest, C!FromMap
<1>2. /\ m \in FromMapMsg /\ m.type = "auth" /\ GoodFromMap(m)
      /\ m.acc \in Account /\ m.char \in Char /\ m.tok \in Token /\ Owner[m.char] = m.acc
  <2>1. m \in FromMapMsg /\ m.type = "auth" /\ GoodFromMap(m)
    BY <1>1, FromMapTyped, HeadGood DEF C!FromMapAuthRequest
  <2> HIDE DEF m
  <2> QED BY <2>1, FromMapFields DEF GoodFromMap
<1>3. ASSUME NEW x, x = yes, toMap' = toMap \o <<x>>, C!ToLogin(<<C!OnlineMsg(m.acc)>>)
      PROVE  Follows
  <2>1. /\ x \in ToMapMsg /\ x.type = "authOk" /\ x.acc = a /\ x.char = m.char
        /\ x.ver = sql[m.char]
    <3>1. sql[m.char] \in Nat
      BY <1>2 DEF Typed, CharData
    <3> HIDE DEF m
    <3> QED BY <1>2, <1>3, <3>1 DEF ToMapMsg
  <2> HIDE DEF yes, m
  <2>2. ThinFromChar
    BY <1>2, <1>3, ThinSent, ThinToLogin
  <2>3. SameData /\ FewerNodes
    BY <1>1 DEF CharStep, mapVars, SameData, SamePlayers, SameLeft, FewerNodes, M!LoggingOut
  <2>4. GoodToMap(x)'
    <3>1. sql[m.char] = latest[m.char] \/ InPlay(m.char) \/ Left(m.char)
      BY <1>2 DEF Kept, Settled
    <3>2. GoodToMap(x)
      BY <1>2, <2>1, <3>1
         DEF GoodToMap, GoodData, Busy, InPlay, Left
    <3> QED BY <2>1, <2>3, <3>2, SameGood
  <2>5. Packets' /\ Rising'
    <3>1. BadFromMap' \subseteq BadFromMap /\ BadToMap' \subseteq BadToMap
      BY <2>3, SameGood DEF BadFromMap, BadToMap
    <3>2. Free(fromMap, BadFromMap') /\ Free(toMap, BadToMap')
      BY <3>1 DEF Kept, Packets, Free
    <3>3. x \notin BadToMap'
      BY <2>4 DEF BadToMap
    <3>4. Free(toMap', BadToMap')
      BY <1>3, <2>1, <3>2, <3>3, LinkTypes, OneMore
    <3>5. Free(fromMap', BadFromMap')
      BY <1>1, <3>2, LinkTypes, TailQueue
    <3>6. Rising'
      BY <1>1, LinkTypes, TailQueue DEF Kept, Rising
    <3> QED BY <3>4, <3>5, <3>6 DEF Packets
  <2>6. ASSUME NEW b \in Account
        PROVE  /\ CloseFirst(b) => CloseFirst(b)'
               /\ OpenFirst(b) => OpenFirst(b)'
               /\ None(Closing(b)) => None(Closing(b))'
    <3>1. /\ x \in Opening(b) => Head(fromMap) \in Opening(b)
          /\ x \notin Closing(b)
      <4>1. x \notin FromMapMsg
        BY <2>1 DEF FromMapMsg
      <4> QED BY <1>2, <2>1, <4>1 DEF Opening, Closing, m
    <3> QED BY <1>1, <1>3, <2>1, <3>1, AnswerOrder DEF CloseFirst, OpenFirst
  <2>7. OrderKept
    BY <2>5, <2>6 DEF OrderKept
  <2>8. QuietKept
    <3>1. Thins(fromMap, fromMap', NotRegsFrom)
      BY <1>1, PlainIsNotRegs, ThinsMore DEF ThinFromMap
    <3>2. <<x>> \in Seq(NotRegsTo) /\ NotRegsTo \subseteq ToMapMsg
      BY <2>1 DEF NotRegsTo
    <3>3. Thins(toMap, toMap', NotRegsTo)
      BY <1>3, <3>2, LinkTypes, ThinsJoin
    <3> QED BY <1>1, <2>2, <3>1, <3>3, ThinStill, NotRegsQuiet
  <2> QED BY <1>1, <2>3, <2>7, <2>8, NodesFewer, DataKept, SameLedger DEF Follows
<1>4. CASE C!ToMapServer(<<no>>) /\ UNCHANGED fromChar
  <2> HIDE DEF m
  <2>1. no \in PlainTo
    BY <1>2 DEF ToMapMsg, PlainTo
  <2> HIDE DEF no
  <2>2. <<no>> \in Seq(PlainTo)
    BY <2>1
  <2>3. ThinToMap
    BY <1>4, <2>2, ThinToMapServer
  <2> QED BY <1>1, <1>4, <2>3, ThinStill, CharFollows
<1>5. C!ToMapServer(<<yes>>) /\ C!ToLogin(<<C!OnlineMsg(m.acc)>>) => Follows
  <2> HIDE DEF yes
  <2> QED BY <1>1, <1>3 DEF C!ToMapServer
<1> QED BY <1>4, <1>5 DEF C!FromMapAuthRequest

\* What is left to show of a step that changes the tables only.
LEMMA SavedKept ==
    ASSUME Kept, SamePlayers, SameLeft, FewerNodes, UNCHANGED <<latest, mapAuth>>, OrderKept,
           QuietKept, Typed, Current', OwnedData', Settled', OwnedClients'
    PROVE  Kept'
<1>1. Order'
  BY DEF Kept, Order, OrderKept, SameLeft
<1>2. Nodes'
  <2>1. DOMAIN mapAuth \subseteq Account
    BY DEF Typed, MapData, IsIdb
  <2> QED BY <2>1 DEF Kept, Nodes, OrderKept, QuietKept, FreshNode, M!LoggingIn
<1> QED BY <1>1, <1>2 DEF Kept, OrderKept

\* 0x2b01: a save brings the tables forward, at most to the latest.
LEMMA SavedFollows ==
    ASSUME Typed, Kept, CharStep, UNCHANGED client,
           fromMap # << >>, fromMap' = Tail(fromMap), Head(fromMap).type = "save",
           sql' = [sql EXCEPT ![Head(fromMap).char] = Head(fromMap).ver],
           SessionsStay, ThinToChar, ThinFromChar,
           \/ toMap' = toMap /\ ~Head(fromMap).final
           \/ /\ Head(fromMap).final
              /\ toMap' = toMap \o <<[type |-> "saveAck", acc |-> Head(fromMap).acc,
                                      char |-> Head(fromMap).char]>>
    PROVE  Follows
<1> DEFINE m == Head(fromMap)
           c == m.char
           v == m.ver
           ack == [type |-> "saveAck", acc |-> m.acc, char |-> m.char]
<1>1. /\ m \in FromMapMsg /\ c \in Char /\ v \in Nat /\ m.acc \in Account
      /\ m.final \in BOOLEAN /\ GoodSave(m)
  <2>1. m \in FromMapMsg /\ GoodFromMap(m)
    BY HeadGood
  <2> HIDE DEF m
  <2> QED BY <2>1, FromMapFields DEF GoodFromMap, m
<1>2. /\ sql \in [Char -> Nat] /\ latest \in [Char -> Nat]
      /\ sql[c] <= v /\ v <= latest[c]
      /\ UNCHANGED latest /\ \A d \in Char : sql'[d] = IF d = c THEN v ELSE sql[d]
  BY <1>1 DEF Typed, CharData, MapData, GoodSave, CharStep, mapVars
<1>3. /\ SamePlayers /\ SameLeft /\ FewerNodes /\ UNCHANGED <<pc, mapAuth>>
      /\ \A a : M!LoggingOut(a)' <=> M!LoggingOut(a)
      /\ \A a : M!LoggingIn(a)' <=> M!LoggingIn(a)
      /\ \A a, d : Closed(a, d)' <=> Closed(a, d)
  BY DEF CharStep, mapVars, SamePlayers, SameLeft, FewerNodes, M!LoggingOut, M!LoggingIn,
         Closed
<1>4. \A d \in Char : sql'[d] <= latest[d] /\ (sql[d] = latest[d] => sql'[d] = latest[d])
  <2> SUFFICES ASSUME NEW d \in Char
               PROVE  sql'[d] <= latest[d] /\ (sql[d] = latest[d] => sql'[d] = latest[d])
    OBVIOUS
  <2>1. sql[d] \in Nat /\ latest[d] \in Nat /\ sql[d] <= latest[d]
    BY <1>2 DEF Kept, Settled
  <2>2. CASE d = c
    BY <1>1, <1>2, <2>1, <2>2
  <2>3. CASE d # c
    BY <1>2, <2>1, <2>3
  <2> QED BY <2>2, <2>3
<1>5. /\ toMap \in Seq(ToMapMsg) /\ fromMap \in Seq(FromMapMsg)
      /\ Tail(fromMap) \in Seq(FromMapMsg)
  BY LinkTypes
<1>6. Free(fromMap', BadFromMap')
  <2> SUFFICES ASSUME NEW i \in 1..Len(fromMap'), NEW x, x = fromMap'[i]
               PROVE  x \notin BadFromMap'
    BY DEF Free
  <2>1. x \in FromMapMsg
    BY <1>5
  <2>2. GoodFromMap(x)
    <3>1. Free(fromMap', BadFromMap)
      BY <1>5, TailQueue DEF Kept, Packets
    <3> QED BY <2>1, <3>1 DEF Free, BadFromMap
  <2>3. ASSUME x.type = "save", x.char = c PROVE v <= x.ver
    <3>1. x.ver \in Nat
      BY <2>1, <2>3, FromMapFields
    <3>2. NoneBehind(fromMap, Newer(c, x.ver), UpTo(c, x.ver))
      BY <1>1, <3>1 DEF Kept, Rising
    <3>3. x \in UpTo(c, x.ver)
      BY <2>1, <2>3, <3>1 DEF UpTo
    <3>4. m \notin Newer(c, x.ver)
      <4> SUFFICES ASSUME m \in Newer(c, x.ver) PROVE FALSE
        OBVIOUS
      <4>1. Free(fromMap', UpTo(c, x.ver))
        BY <1>5, <3>2, TailQueue
      <4> QED BY <3>3, <4>1 DEF Free
    <3> QED BY <1>1, <3>1, <3>4 DEF Newer
  <2>4. GoodFromMap(x)'
    <3>1. x.type = "save" => x.char \in Char
      BY <2>1, FromMapFields
    <3>2. ASSUME x.type = "save", x.char = c PROVE sql'[x.char] <= x.ver
      BY <1>1, <1>2, <2>3, <3>2
    <3>3. ASSUME x.type = "save", x.char # c PROVE sql'[x.char] <= x.ver
      BY <1>2, <2>2, <3>1, <3>3 DEF GoodFromMap, GoodSave
    <3> QED BY <1>2, <1>3, <2>2, <3>2, <3>3 DEF GoodFromMap, GoodSave
  <2> QED BY <2>4 DEF BadFromMap
<1>7. Rising'
  BY <1>5, TailQueue DEF Kept, Rising
<1>8. Free(toMap, BadToMap')
  <2> SUFFICES ASSUME NEW x \in ToMapMsg, GoodToMap(x) PROVE GoodToMap(x)'
    BY DEF Kept, Packets, Free, BadToMap
  <2>1. x.type \in {"saveAck", "authOk"} => x.char \in Char
    BY ToMapFields
  <2>2. \A a : Busy(a)' <=> Busy(a)
    BY <1>3 DEF Busy
  <2> QED BY <1>2, <1>3, <1>4, <2>1, <2>2 DEF GoodToMap, GoodAck, GoodData
<1>9. /\ Current' /\ OwnedData' /\ Settled' /\ OwnedClients'
      /\ \A d : (InPlay(d) <=> InPlay(d)') /\ (Left(d) <=> Left(d)')
  <2>1. \A d : (InPlay(d) <=> InPlay(d)') /\ (Left(d) <=> Left(d)')
    BY <1>3 DEF InPlay, Left
  <2>2. Current' /\ OwnedData'
    BY <1>2, <1>3 DEF Kept, Current, NoRollback, OwnedData
  <2>3. Settled'
    BY <1>2, <1>4, <2>1 DEF Kept, Settled
  <2> QED BY <2>1, <2>2, <2>3, ClientsStay
<1>10. LedgerStep
  <2>1. CASE InPlay(c) \/ Left(c)
    <3>1. Held(c) = latest[c] /\ Where(c) # "away"
      BY <1>1, <2>1
       DEF Kept, Current, NoRollback, Held, Where, InPlay, Left, M!LoggingOut
    <3>2. \A d \in Char : /\ Where(d)' = Where(d)
                          /\ Held(d)' = Held(d)
      <4> SUFFICES ASSUME NEW d \in Char PROVE Where(d)' = Where(d) /\ Held(d)' = Held(d)
        OBVIOUS
      <4>1. InPlay(d) \/ Left(d) \/ d # c
        BY <2>1
      <4> QED BY <1>2, <1>3, <1>9, <4>1 DEF Where, Held
    <3>3. UNCHANGED <<where, held>> /\ held[c] = latest[c] /\ where[c] # "away"
      BY <1>1, <3>1, <3>2 DEF where, held
    <3>4. v \in sql[c]..held[c]
      BY <1>1, <1>2, <3>3
    <3>5. Ledger!Save(c)
      BY <1>1, <3>3, <3>4 DEF Ledger!Save, where, held, Where, Held
    <3> QED BY <1>1, <3>5 DEF LedgerStep, Ledger!LedgerNext
  <2>2. CASE ~InPlay(c) /\ ~Left(c)
    <3>1. sql[c] = latest[c]
      BY <1>1, <2>2 DEF Kept, Settled
    <3>2. v = sql[c]
      BY <1>1, <1>2, <3>1
    <3>3. sql' = sql
      BY <1>2, <3>2
    <3> QED BY <1>2, <1>3, <3>3, SameLedger DEF SameData
  <2> QED BY <2>1, <2>2
<1>11. CASE toMap' = toMap /\ ~m.final
  <2>1. Packets'
    BY <1>6, <1>8, <1>11 DEF Packets
  <2>2. ThinFromMap /\ ThinToMap
    BY <1>5, <1>11, ThinsTail, ThinStill DEF ThinFromMap
  <2>3. ASSUME NEW X, NEW Y
        PROVE  (InOrder(X, Y) => InOrder(X, Y)') /\ (None(X) => None(X)')
    BY <1>5, <1>11, TailQueue DEF InOrder, None
  <2>4. OrderKept
    BY <1>7, <2>1, <2>3 DEF OrderKept, CloseFirst, OpenFirst
  <2>5. QuietKept
    BY <2>2, ThinQuiet
  <2> QED BY <1>2, <1>3, <1>9, <1>10, <2>4, <2>5, SavedKept DEF Follows
<1>12. ASSUME NEW x, x = ack, m.final, toMap' = toMap \o <<x>> PROVE Follows
  <2>1. /\ x \in ToMapMsg /\ x.type = "saveAck" /\ x.acc = m.acc /\ x.char = m.char
    <3> HIDE DEF m
    <3> QED BY <1>1, <1>12 DEF ToMapMsg
  <2>2. GoodToMap(x)'
    <3>1. v = latest[c] /\ Owner[c] = m.acc /\ Closed(m.acc, c)
      BY <1>1, <1>12 DEF GoodSave
    <3> HIDE DEF m
    <3> QED BY <1>1, <1>2, <1>3, <2>1, <3>1 DEF GoodToMap, GoodAck
  <2> HIDE DEF ack
  <2>3. Packets'
    <3>1. x \notin BadToMap'
      BY <2>2 DEF BadToMap
    <3>2. Free(toMap', BadToMap')
      BY <1>5, <1>8, <1>12, <2>1, <3>1, OneMore
    <3> QED BY <1>6, <3>2 DEF Packets
  <2>4. ASSUME NEW b \in Account
        PROVE  /\ CloseFirst(b) => CloseFirst(b)'
               /\ OpenFirst(b) => OpenFirst(b)'
               /\ None(Closing(b)) => None(Closing(b))'
    <3>1. /\ x \in Closing(b) => Head(fromMap) \in Closing(b)
          /\ x \notin Opening(b)
      <4>1. x \notin FromMapMsg
        BY <2>1 DEF FromMapMsg
      <4> QED BY <1>1, <1>12, <2>1, <4>1 DEF Opening, Closing, m
    <3> QED BY <1>12, <2>1, <3>1, AnswerOrder DEF CloseFirst, OpenFirst
  <2>5. QuietKept
    <3>1. Thins(fromMap, fromMap', NotRegsFrom)
      BY <1>5, ThinsTail
    <3>2. <<x>> \in Seq(NotRegsTo) /\ NotRegsTo \subseteq ToMapMsg
      BY <2>1 DEF NotRegsTo
    <3>3. Thins(toMap, toMap', NotRegsTo)
      BY <1>5, <1>12, <3>2, ThinsJoin
    <3> QED BY <3>1, <3>3, NotRegsQuiet
  <2>6. OrderKept
    BY <1>7, <2>3, <2>4 DEF OrderKept
  <2> QED BY <1>2, <1>3, <1>9, <1>10, <2>5, <2>6, SavedKept DEF Follows
<1>13. m.final /\ toMap' = toMap \o <<ack>> => Follows
  <2> HIDE DEF ack, m
  <2> QED BY <1>12
<1> QED BY <1>11, <1>13

LEMMA SaveCharacterFollows ==
    ASSUME Typed, Kept, CharStep, UNCHANGED client, C!FromMapSaveCharacter
    PROVE  Follows
<1> DEFINE m == Head(fromMap)
           ack == [type |-> "saveAck", acc |-> m.acc, char |-> m.char]
<1>1. /\ ThinFromMap /\ SessionsStay /\ UNCHANGED toChar /\ ThinToChar
      /\ fromMap # << >> /\ fromMap' = Tail(fromMap) /\ m.type = "save" /\ mapFd # "none"
  BY ThinTaken, ThinStill, SessionsFewer DEF C!FromMapSaveCharacter, C!FromMap
<1>2. m.acc \in Account
  <2>1. m \in FromMapMsg
    BY <1>1, HeadGood
  <2> HIDE DEF m
  <2> QED BY <1>1, <2>1, FromMapFields
<1>3. CASE /\ m.final /\ sql' = [sql EXCEPT ![m.char] = m.ver]
           /\ C!ToLogin(C!OfflineNotice(onlineChar, m.char, m.acc))
           /\ C!ToMapServer(<<ack>>)
  <2>1. ThinFromChar
    <3> HIDE DEF m
    <3> QED BY <1>2, <1>3, ThinSent, ThinToLogin
  <2>2. toMap' = toMap \o <<ack>>
    BY <1>1, <1>3 DEF C!ToMapServer
  <2> QED BY <1>1, <1>3, <2>1, <2>2, SavedFollows
<1>4. CASE ~m.final /\ sql' = [sql EXCEPT ![m.char] = m.ver] /\ UNCHANGED <<fromChar, toMap>>
  BY <1>1, <1>4, ThinStill, SavedFollows
<1>5. CASE C!ToLogin(<<C!OnlineMsg(m.acc)>>) /\ UNCHANGED <<sql, toMap>>
  <2>1. ThinFromChar
    <3> HIDE DEF m
    <3> QED BY <1>2, <1>5, ThinSent, ThinToLogin
  <2> QED BY <1>1, <1>5, <2>1, ClientsStay, ThinStill, CharFollows
<1> QED BY <1>3, <1>4, <1>5 DEF C!FromMapSaveCharacter


LEMMA CharHandlesMapFollows ==
    ASSUME Typed, Kept, CharStep, UNCHANGED client, CharHandlesMap
    PROVE  Follows
BY FromMapPlainFollows, SaveCharacterFollows, AuthRequestFollows, RegistryRequestFollows
   DEF CharHandlesMap

LEMMA CharTimersFollows ==
    ASSUME Typed, Kept, CharStep, UNCHANGED client, CharTimers
    PROVE  Follows
<1>1. UNCHANGED <<sql, charSess, toChar, toMap, fromMap>>
  BY DEF CharTimers, C!CharWaitingDisconnect, C!CharOnlineDataCleanup, C!CharSendAccounts,
         C!CheckConnectFails, C!charVars, C!charData
<1>2. ThinFromChar
  <2>1. ASSUME NEW a \in Account, C!CharWaitingDisconnect(a) PROVE ThinFromChar
    BY <2>1, ThinSent, ThinToLogin DEF C!CharWaitingDisconnect
  <2>2. CASE C!CharOnlineDataCleanup
    <3> DEFINE idle == {a \in DOMAIN onlineChar : onlineChar[a].fd = NoToken}
               lost == {a \in idle : onlineChar[a].server = C!UnknownMapServer}
               order == C!SetToSeq(lost)
               ms == [i \in DOMAIN order |-> C!OfflineMsg(order[i])]
    <3>1. C!ToLogin(ms)
      BY <2>2 DEF C!CharOnlineDataCleanup
    <3>2. lost \in SUBSET Account
      BY DEF Typed, CharData, IsIdb
    <3>3. order \in Seq(Account)
      BY <3>2, AccountListAssumption DEF AccountListAssumption
    <3> HIDE DEF order
    <3>4. ms \in Seq(PlainToLogin)
      <4>1. \A i \in DOMAIN order : C!OfflineMsg(order[i]) \in PlainToLogin
        BY <3>3 DEF C!OfflineMsg, L!FromCharMsg, PlainToLogin
      <4>2. DOMAIN order = 1..Len(order) /\ Len(order) \in Nat
        BY <3>3
      <4> QED BY <4>1, <4>2
    <3> HIDE DEF ms
    <3> QED BY <3>1, <3>4, ThinToLogin
  <2>3. CASE C!CharSendAccounts
    BY <2>3, ThinAccounts, ThinToLogin DEF C!CharSendAccounts
  <2>4. CASE C!CheckConnectFails
    BY <2>4, ThinStill DEF C!CheckConnectFails
  <2> QED BY <2>1, <2>2, <2>3, <2>4 DEF CharTimers
<1> QED BY <1>1, <1>2, SessionsFewer, ClientsStay, ThinStill, CharFollows

-----------------------------------------------------------------------------
(* The map-server.                                                         *)

\* A step of the map-server leaves what the others know alone.
LEMMA MapStepStays ==
    ASSUME Typed, Kept, MapStep
    PROVE  /\ UNCHANGED <<sql, charSess>> /\ ThinToChar /\ ThinFromChar
           /\ UNCHANGED client => OwnedClients'
BY ThinStill, SessionsFewer, ClientsStay DEF MapStep, charVars

\* A step that changes no data, and of the nodes lets go only some that log in.
LEMMA MapFollows ==
    ASSUME Typed, Kept, MapStep, OwnedClients', SameData, FewerNodes, ThinToMap, ThinFromMap
    PROVE  Follows
BY MapStepStays, CalmKept, SameLedger DEF Follows

\* The same of the databases: what happens to them in most steps.
LEMMA NodesStay ==
    ASSUME Typed, UNCHANGED <<sql, latest>>
    PROVE  /\ UNCHANGED <<mapAuth, pc>> => SameData /\ FewerNodes
           /\ \A a : M!LoggingIn(a) /\ mapAuth' = M!IdbRemove(mapAuth, a) /\ UNCHANGED pc
                  => SameData /\ FewerNodes
           /\ \A a : pc' = [pc EXCEPT ![a].fd = NoToken] /\ UNCHANGED mapAuth
                  => SameData /\ FewerNodes
<1>1. UNCHANGED <<mapAuth, pc>> => SameData /\ FewerNodes
  BY DEF SameData, SamePlayers, SameLeft, FewerNodes, M!LoggingOut
<1>2. ASSUME NEW a, M!LoggingIn(a), mapAuth' = M!IdbRemove(mapAuth, a), UNCHANGED pc
      PROVE  SameData /\ FewerNodes
  <2>1. \A b : /\ b \in DOMAIN mapAuth' <=> b \in DOMAIN mapAuth /\ b # a
               /\ b \in DOMAIN mapAuth' => mapAuth'[b] = mapAuth[b]
    BY <1>2 DEF M!IdbRemove
  <2>2. ~M!LoggingOut(a)
    BY <1>2 DEF M!LoggingIn, M!LoggingOut
  <2> QED BY <1>2, <2>1, <2>2
          DEF SameData, SamePlayers, SameLeft, FewerNodes, M!LoggingOut
<1>3. ASSUME NEW a, pc' = [pc EXCEPT ![a].fd = NoToken], UNCHANGED mapAuth
      PROVE  SameData /\ FewerNodes
  <2> DEFINE e == [pc[a] EXCEPT !.fd = NoToken]
  <2>1. DOMAIN pc' = DOMAIN pc
        /\ \A b \in DOMAIN pc : pc'[b] = IF b = a THEN e ELSE pc[b]
    BY <1>3
  <2>2. e.char = pc[a].char /\ e.ver = pc[a].ver
    OBVIOUS
  <2> HIDE DEF e
  <2> QED BY <1>3, <2>1, <2>2
          DEF SameData, SamePlayers, SameLeft, FewerNodes, M!LoggingOut
<1> QED BY <1>1, <1>2, <1>3

LEMMA ThinFromMapServer ==
    ASSUME NEW a \in Account, NEW c \in Char
    PROVE  <<M!CharOfflineMsg(a, c)>> \in Seq(PlainFrom)
<1>1. M!CharOfflineMsg(a, c) \in PlainFrom
  BY DEF M!CharOfflineMsg, FromMapMsg, PlainFrom
<1> QED BY <1>1

LEMMA MapEofFollows ==
    ASSUME Typed, Kept, MapStep, UNCHANGED client, NEW t,
           M!MapClientEof(t) \/ M!ClifParseEofDelayed(t) \/ M!ClifParseEofInactive(t)
    PROVE  Follows
<1>1. /\ UNCHANGED <<latest, toMap, fromMap>>
      /\ \/ UNCHANGED <<mapAuth, pc>>
         \/ \E a : M!LoggingIn(a) /\ mapAuth' = M!IdbRemove(mapAuth, a) /\ UNCHANGED pc
         \/ \E a : pc' = [pc EXCEPT ![a].fd = NoToken] /\ UNCHANGED mapAuth
  BY DEF M!MapClientEof, M!ClifParseEofDelayed, M!ClifParseEofInactive, M!AuthCheck,
         M!LoggingIn
<1> QED BY <1>1, MapStepStays, NodesStay, ThinStill, MapFollows

LEMMA RestartFollows ==
    ASSUME Typed, Kept, NEW t \in Token, RequestCharSelect(t)
    PROVE  Follows
<1> DEFINE a == client[t].acc
           x == [type |-> "charSelect", acc |-> a, tok |-> t]
<1>1. /\ MapStep /\ M!Send(<<x>>) /\ a \in DOMAIN pc
      /\ UNCHANGED <<client, latest, mapAuth, pc, toMap>>
  BY DEF RequestCharSelect, M!ClifParseRestart, M!mapData, M!Plays
<1>2. x \in PlainFrom
  <2>1. a \in Account
    BY <1>1 DEF Typed, MapData, IsIdb
  <2> QED BY <2>1 DEF FromMapMsg, PlainFrom
<1> HIDE DEF x
<1>3. <<x>> \in Seq(PlainFrom)
  BY <1>2
<1> QED BY <1>1, <1>3, MapStepStays, NodesStay, ThinSend, ThinStill, MapFollows

\* A client that is told to go back goes to the character list.
LEMMA SelectAckFollows ==
    ASSUME Typed, Kept, CharSelectAck
    PROVE  Follows
<1>1. /\ MapStep /\ UNCHANGED <<latest, mapAuth, pc, fromMap>> /\ ThinToMap
  BY ThinTaken DEF CharSelectAck, M!ChrifCharSelectAck, M!mapData
<1>2. OwnedClients'
  <2>1. \A t \in Token : client'[t].acc = client[t].acc /\ client'[t].char = client[t].char
                         /\ client'[t].at \in {client[t].at, "toChar"}
    <3>1. \A t \in Token : client'[t] \in {client[t], [client[t] EXCEPT !.at = "toChar"]}
      BY DEF CharSelectAck
    <3>2. client \in [Token -> Client]
      BY DEF Typed, Clients
    <3> QED BY <3>1, <3>2 DEF Client
  <2>2. UNCHANGED charSess /\ DOMAIN charSess \subseteq Token
    BY <1>1 DEF MapStep, charVars, Typed, CharData, IsIdb
  <2> QED BY <2>1, <2>2 DEF Kept, OwnedClients
<1> QED BY <1>1, <1>2, MapStepStays, NodesStay, ThinStill, MapFollows

\* 0x2b27, 0x2b1f and 0x2af9.
LEMMA MapHandlesCalmFollows ==
    ASSUME Typed, Kept, MapStep, UNCHANGED client,
           M!ChrifConnectAck \/ M!ChrifAuthFail \/ M!ChrifDisconnectPlayer
    PROVE  Follows
<1>1. ThinToMap /\ UNCHANGED <<latest, pc>>
  BY ThinTaken DEF M!ChrifConnectAck, M!ChrifAuthFail, M!ChrifDisconnectPlayer, M!mapData
<1>2. \/ UNCHANGED mapAuth
      \/ \E a : M!LoggingIn(a) /\ mapAuth' = M!IdbRemove(mapAuth, a)
  BY DEF M!ChrifConnectAck, M!ChrifAuthFail, M!ChrifDisconnectPlayer, M!mapData,
         M!AuthCheck, M!LoggingIn, M!AuthDelete
<1>3. ThinFromMap
  <2>1. CASE M!ChrifConnectAck
    <3>1. <<[type |-> "maps"]>> \in Seq(PlainFrom)
      BY DEF FromMapMsg, PlainFrom
    <3>2. fromMap' = fromMap \o <<[type |-> "maps"]>>
      BY <2>1, LinkTypes DEF M!ChrifConnectAck
    <3> QED BY <3>1, <3>2, LinkTypes, ThinsJoin DEF ThinFromMap
  <2>2. CASE UNCHANGED fromMap
    BY <2>2, ThinStill
  <2> QED BY <2>1, <2>2 DEF M!ChrifAuthFail, M!ChrifDisconnectPlayer
<1> QED BY <1>1, <1>2, <1>3, MapStepStays, NodesStay, MapFollows


\* The map-server reads toMap and writes to fromMap.
Reads == toMap' = toMap \/ (toMap # << >> /\ toMap' = Tail(toMap))
Writes(ms) == fromMap' = fromMap \/ fromMap' = fromMap \o ms

LEMMA ReadsQueue ==
    ASSUME Typed, Reads, NEW X, NEW Y
    PROVE  /\ Free(toMap, X) => Free(toMap', X)
           /\ NoneBehind(toMap, X, Y) => NoneBehind(toMap', X, Y)
<1>1. CASE toMap' = toMap
  BY <1>1
<1>2. CASE toMap # << >> /\ toMap' = Tail(toMap)
  <2>1. toMap \in Seq(ToMapMsg)
    BY LinkTypes
  <2> QED BY <1>2, <2>1, TailQueue
<1> QED BY <1>1, <1>2 DEF Reads

LEMMA FreeOrder ==
    ASSUME NEW q, NEW X, NEW Y, Free(q, X) \/ Free(q, Y)
    PROVE  NoneBehind(q, X, Y)
BY DEF Free, NoneBehind

\* What is written goes to the end of the line.
LEMMA WriteOrder ==
    ASSUME Typed, Reads, NEW ms \in Seq(FromMapMsg), Writes(ms), NEW X, NEW Y, Free(ms, Y)
    PROVE  /\ InOrder(X, Y) => InOrder(X, Y)'
           /\ None(Y) => None(Y)'
<1>1. NoneBehind(ms, X, Y)
  BY FreeOrder
<1>2. /\ NoneBehind(fromMap, X, Y) => NoneBehind(fromMap', X, Y)
      /\ Free(fromMap, Y) => Free(fromMap', Y)
  BY <1>1, LinkTypes, JoinQueue DEF Writes
<1>3. /\ NoneBehind(toMap, X, Y) => NoneBehind(toMap', X, Y)
      /\ Free(toMap, X) => Free(toMap', X)
      /\ Free(toMap, Y) => Free(toMap', Y)
  BY ReadsQueue
<1>4. ASSUME InOrder(X, Y) PROVE InOrder(X, Y)'
  BY <1>2, <1>3, <1>4 DEF InOrder
<1>5. ASSUME None(Y) PROVE None(Y)'
  BY <1>2, <1>3, <1>5 DEF None
<1> QED BY <1>4, <1>5

\* A save of the latest data, or a plain packet.
Fresh == PlainFrom \cup {m \in FromMapMsg : m.type = "save" /\ m.ver = latest[m.char]}

\* Saves of the latest data are sent, and only what left is saved for good.
LEMMA SavesSent ==
    ASSUME Typed, Kept, MapStep, UNCHANGED latest, Reads,
           NEW ms \in Seq(Fresh), Writes(ms),
           \A m \in FromMapMsg : GoodFromMap(m) => GoodFromMap(m)',
           \A m \in ToMapMsg : GoodToMap(m) => GoodToMap(m)',
           \A i \in 1..Len(ms) : \A m \in Fresh : m = ms[i] /\ m.type = "save" =>
               GoodFromMap(m)' /\ (m.final => M!LoggingOut(m.acc)')
    PROVE  /\ Packets' /\ Rising' /\ QuietKept
           /\ \A a : /\ OpenFirst(a) => OpenFirst(a)'
                     /\ CloseFirst(a) /\ ~M!LoggingOut(a)' => CloseFirst(a)'
                     /\ None(Closing(a)) /\ ~M!LoggingOut(a)' => None(Closing(a))'
<1>1. /\ \A i \in 1..Len(ms) : ms[i] \in Fresh
      /\ Fresh \subseteq FromMapMsg /\ Fresh \subseteq NotRegsFrom
      /\ ms \in Seq(FromMapMsg)
  BY DEF Fresh, PlainFrom, NotRegsFrom
<1>2. Packets'
  <2>1. BadFromMap' \subseteq BadFromMap /\ BadToMap' \subseteq BadToMap
    BY DEF BadFromMap, BadToMap
  <2>2. Free(fromMap, BadFromMap') /\ Free(toMap, BadToMap')
    BY <2>1 DEF Kept, Packets, Free
  <2>3. ASSUME NEW i \in 1..Len(ms), NEW m, m = ms[i] PROVE m \notin BadFromMap'
    <3>1. CASE m.type = "save"
      BY <1>1, <2>3, <3>1 DEF BadFromMap
    <3>2. CASE m.type # "save"
      <4>1. m.type # "auth"
        BY <1>1, <2>3, <3>2 DEF Fresh, PlainFrom
      <4> QED BY <3>2, <4>1 DEF BadFromMap, GoodFromMap
    <3> QED BY <3>1, <3>2
  <2>4. Free(ms, BadFromMap')
    BY <2>3 DEF Free
  <2>5. ASSUME NEW B, B = BadFromMap' PROVE Free(fromMap', B)
    BY <1>1, <2>2, <2>4, <2>5, LinkTypes, JoinQueue DEF Writes
  <2>6. ASSUME NEW B, B = BadToMap' PROVE Free(toMap', B)
    BY <2>2, <2>6, ReadsQueue
  <2> QED BY <2>5, <2>6 DEF Packets
<1>3. Rising'
  <2> SUFFICES ASSUME NEW c \in Char, NEW v \in Nat
               PROVE  NoneBehind(fromMap', Newer(c, v), UpTo(c, v))
    BY DEF Rising
  <2>1. NoneBehind(fromMap, Newer(c, v), UpTo(c, v))
    BY DEF Kept, Rising
  <2>2. latest[c] \in Nat
    BY DEF Typed, MapData
  <2>3. CASE latest[c] > v
    <3>1. Free(ms, UpTo(c, v))
      BY <1>1, <2>2, <2>3 DEF Free, UpTo, Fresh, PlainFrom
    <3> QED BY <1>1, <2>1, <3>1, FreeOrder, LinkTypes, JoinQueue DEF Writes
  <2>4. CASE latest[c] <= v
    <3>1. Free(ms, Newer(c, v))
      BY <1>1, <2>2, <2>4 DEF Free, Newer, Fresh, PlainFrom
    <3>2. Newer(c, v) \subseteq BadFromMap
      <4> SUFFICES ASSUME NEW m \in Newer(c, v) PROVE ~GoodFromMap(m)
        BY DEF Newer, BadFromMap
      <4>1. m \in FromMapMsg /\ m.type = "save" /\ m.char = c /\ m.ver > v
        BY DEF Newer
      <4>2. m.ver \in Nat
        BY <4>1, FromMapFields
      <4> QED BY <2>2, <2>4, <4>1, <4>2 DEF GoodFromMap, GoodSave
    <3>3. Free(fromMap, Newer(c, v))
      BY <3>2 DEF Kept, Packets, Free
    <3> QED BY <1>1, <2>1, <3>1, <3>3, FreeOrder, LinkTypes, JoinQueue DEF Writes
  <2> QED BY <2>2, <2>3, <2>4
<1>4. QuietKept
  <2>1. Thins(fromMap, fromMap', NotRegsFrom)
    <3>1. ms \in Seq(NotRegsFrom) /\ NotRegsFrom \subseteq FromMapMsg
      BY <1>1 DEF NotRegsFrom
    <3> QED BY <3>1, LinkTypes, ThinsJoin, ThinsSame DEF Writes
  <2>2. Thins(toMap, toMap', NotRegsTo)
    BY LinkTypes, ThinsTail, ThinsSame DEF Reads
  <2> QED BY <2>1, <2>2, MapStepStays, NotRegsQuiet
<1>5. ASSUME NEW a
      PROVE  /\ OpenFirst(a) => OpenFirst(a)'
             /\ CloseFirst(a) /\ ~M!LoggingOut(a)' => CloseFirst(a)'
             /\ None(Closing(a)) /\ ~M!LoggingOut(a)' => None(Closing(a))'
  <2>0. ToMapMsg \cap FromMapMsg = {}
    BY DEF ToMapMsg, FromMapMsg
  <2>1. Free(ms, Opening(a))
    BY <1>1, <2>0 DEF Free, Opening, Fresh, PlainFrom
  <2>2. ~M!LoggingOut(a)' => Free(ms, Closing(a))
    BY <1>1, <2>0 DEF Free, Closing, Fresh
  <2> QED BY <1>1, <2>1, <2>2, WriteOrder DEF OpenFirst, CloseFirst
<1> QED BY <1>2, <1>3, <1>4, <1>5


\* The map-server saves what did not change.
LEMMA SavesFollow ==
    ASSUME Typed, Kept, MapStep, UNCHANGED client, SameData, FewerNodes, Reads,
           NEW ms \in Seq(Fresh), Writes(ms),
           \A i \in 1..Len(ms) : \A m \in Fresh : m = ms[i] /\ m.type = "save" =>
               GoodFromMap(m)' /\ (m.final => M!LoggingOut(m.acc)')
    PROVE  Follows
<1>1. /\ Packets' /\ Rising' /\ QuietKept
      /\ \A a : /\ OpenFirst(a) => OpenFirst(a)'
                /\ CloseFirst(a) /\ ~M!LoggingOut(a)' => CloseFirst(a)'
                /\ None(Closing(a)) /\ ~M!LoggingOut(a)' => None(Closing(a))'
  BY SavesSent, SameGood DEF SameData
<1>2. Order'
  BY <1>1 DEF Kept, Order, SameData, SameLeft
<1>3. \A a \in DOMAIN mapAuth' : a \in DOMAIN mapAuth /\ mapAuth'[a] = mapAuth[a]
                                 /\ a \in Account
  BY DEF FewerNodes, Typed, MapData, IsIdb
<1>4. Nodes'
  <2> SUFFICES ASSUME NEW a \in DOMAIN mapAuth', M!LoggingIn(a)'
               PROVE  FreshNode(a)' \/ (Quiet(a) /\ mapAuth[a].regs = {})'
    BY DEF Nodes
  <2>1. M!LoggingIn(a) /\ ~M!LoggingOut(a)'
    BY <1>3 DEF M!LoggingIn, M!LoggingOut
  <2> QED BY <1>1, <1>3, <2>1 DEF Kept, Nodes, QuietKept, FreshNode, SameData
<1>5. \A a \in DOMAIN mapAuth' : Owner[mapAuth'[a].char] = a
  BY <1>3 DEF Kept, OwnedData
<1> QED BY <1>1, <1>2, <1>4, <1>5, MapStepStays, SameDataKept, SameLedger DEF Follows

LEMMA SendWrites == ASSUME NEW ms, M!Send(ms) PROVE Writes(ms)
BY DEF M!Send, Writes

\* A save of the latest data.
SavesLatest(x, a, c) ==
    /\ x \in FromMapMsg /\ x.type = "save" /\ x.acc = a /\ x.char = c /\ x.ver = latest[c]
    /\ <<x>> \in Seq(Fresh)
    /\ \A i \in 1..Len(<<x>>) : \A m : m = <<x>>[i] => m = x

LEMMA SaveMsgFields ==
    ASSUME NEW a \in Account, NEW c \in Char, NEW v \in Nat, v = latest[c], NEW x,
           x = M!SaveMsg(a, c, v, TRUE) \/ x = M!SaveMsg(a, c, v, FALSE)
    PROVE  /\ SavesLatest(x, a, c)
           /\ x = M!SaveMsg(a, c, v, FALSE) => ~x.final
           /\ x = M!SaveMsg(a, c, v, TRUE) => x.final
<1>1. /\ x \in FromMapMsg /\ x.type = "save" /\ x.acc = a /\ x.char = c /\ x.ver = v
      /\ x = M!SaveMsg(a, c, v, FALSE) => ~x.final
      /\ x = M!SaveMsg(a, c, v, TRUE) => x.final
  <2>1. CASE x = M!SaveMsg(a, c, v, TRUE)
    BY <2>1 DEF M!SaveMsg, FromMapMsg
  <2>2. CASE x = M!SaveMsg(a, c, v, FALSE)
    BY <2>2 DEF M!SaveMsg, FromMapMsg
  <2> QED BY <2>1, <2>2
<1>2. x \in Fresh
  BY <1>1 DEF Fresh
<1>3. <<x>> \in Seq(Fresh)
  BY <1>2
<1>4. \A i \in 1..Len(<<x>>) : <<x>>[i] = x
  OBVIOUS
<1> QED BY <1>1, <1>3, <1>4 DEF SavesLatest

LEMMA PlayerData ==
    ASSUME Typed, Kept, NEW a \in DOMAIN pc
    PROVE  /\ a \in Account /\ pc[a].char \in Char /\ Owner[pc[a].char] = a
           /\ pc[a].ver = latest[pc[a].char] /\ pc[a].ver \in Nat
           /\ sql[pc[a].char] <= pc[a].ver
<1>1. pc[a] \in Player /\ a \in Account
  BY EntryTyped DEF Typed, MapData, IsIdb
<1> QED BY <1>1 DEF Player, Kept, Current, NoRollback, OwnedData, Settled

LEMMA NodeData ==
    ASSUME Typed, Kept, NEW a \in DOMAIN mapAuth
    PROVE  /\ a \in Account /\ mapAuth[a].char \in Char /\ Owner[mapAuth[a].char] = a
           /\ mapAuth[a].ver \in Nat
           /\ M!LoggingOut(a) => /\ mapAuth[a].ver = latest[mapAuth[a].char]
                                 /\ sql[mapAuth[a].char] <= mapAuth[a].ver
           /\ M!LoggingIn(a) \/ M!LoggingOut(a)
<1>1. mapAuth[a] \in M!AuthNode /\ a \in Account
  BY EntryTyped DEF Typed, MapData, IsIdb
<1> QED BY <1>1 DEF M!AuthNode, Kept, Current, OwnedData, Settled, M!LoggingIn, M!LoggingOut

LEMMA AutoSaveFollows ==
    ASSUME Typed, Kept, MapStep, UNCHANGED client, NEW a \in Account, M!AutoSave(a)
    PROVE  Follows
<1>1. /\ a \in DOMAIN pc /\ Reads /\ UNCHANGED <<mapAuth, pc, latest, sql>>
  BY MapStepStays DEF M!AutoSave, M!mapData, Reads
<1>2. PICK x : x = M!SaveMsg(a, pc[a].char, pc[a].ver, FALSE)
  OBVIOUS
<1>3. Writes(<<x>>)
  BY <1>2, SendWrites DEF M!AutoSave
<1>4. SavesLatest(x, a, pc[a].char) /\ ~x.final
  BY <1>1, <1>2, PlayerData, SaveMsgFields
<1>5. GoodFromMap(x)'
  BY <1>1, <1>4, PlayerData DEF GoodFromMap, GoodSave, SavesLatest
<1>6. SameData /\ FewerNodes
  BY <1>1, NodesStay
<1> QED BY <1>1, <1>3, <1>4, <1>5, <1>6, SavesFollow DEF SavesLatest

\* The minute of a node is over.
LEMMA AuthDbCleanupFollows ==
    ASSUME Typed, Kept, Ownership, MapStep, UNCHANGED client, NEW a, M!AuthDbCleanup(a)
    PROVE  Follows
<1>1. a \in DOMAIN mapAuth /\ UNCHANGED <<pc, latest, toMap, sql>> /\ Reads
  BY MapStepStays DEF M!AuthDbCleanup, Reads
<1>2. /\ a \in Account /\ mapAuth[a].char \in Char /\ Owner[mapAuth[a].char] = a
      /\ mapAuth[a].ver \in Nat
      /\ M!LoggingOut(a) => /\ mapAuth[a].ver = latest[mapAuth[a].char]
                            /\ sql[mapAuth[a].char] <= mapAuth[a].ver
  BY <1>1, NodeData
<1>3. ASSUME M!LoggingOut(a), UNCHANGED mapAuth, NEW x,
             x = M!SaveMsg(a, mapAuth[a].char, mapAuth[a].ver, TRUE), M!Send(<<x>>)
      PROVE  Follows
  <2>1. SavesLatest(x, a, mapAuth[a].char) /\ x.final
    BY <1>2, <1>3, SaveMsgFields
  <2>2. M!LoggingOut(a)'
    BY <1>3 DEF M!LoggingOut
  <2>3. GoodFromMap(x)'
    <3>1. a \notin DOMAIN pc' /\ mapAuth' = mapAuth
      BY <1>1, <1>3 DEF Ownership, PlayingOrInAuthDb
    <3>2. /\ x.type = "save" /\ x.acc = a /\ x.char = mapAuth[a].char
          /\ Owner[x.char] = a /\ sql'[x.char] <= x.ver
      BY <1>1, <1>2, <1>3, <2>1 DEF SavesLatest
    <3>3. x.ver = latest'[x.char] /\ x.ver <= latest'[x.char]
      <4>1. x.ver = latest'[x.char] /\ x.ver = mapAuth[a].ver
        BY <1>1, <1>2, <1>3, <2>1 DEF SavesLatest
      <4> QED BY <1>2, <4>1
    <3>4. Closed(x.acc, x.char)'
      BY <3>1, <3>2 DEF Closed
    <3> QED BY <3>2, <3>3, <3>4 DEF GoodFromMap, GoodSave
  <2>4. SameData /\ FewerNodes
    BY <1>1, <1>3, NodesStay
  <2> QED BY <1>1, <1>3, <2>1, <2>2, <2>3, <2>4, SendWrites, SavesFollow
          DEF SavesLatest
<1>4. ASSUME M!LoggingIn(a), M!Send(<<M!CharOfflineMsg(a, mapAuth[a].char)>>),
             M!AuthDelete(a)
      PROVE  Follows
  <2>1. SameData /\ FewerNodes
    BY <1>1, <1>4, NodesStay DEF M!AuthDelete
  <2>2. ThinFromMap
    BY <1>2, <1>4, ThinFromMapServer, ThinSend
  <2> QED BY <1>1, <2>1, <2>2, MapStepStays, ThinStill, MapFollows
<1> QED BY <1>3, <1>4 DEF M!AuthDbCleanup


LEMMA JoinJoin ==
    ASSUME NEW S, NEW q \in Seq(S), NEW x \in S, NEW s \in Seq(S)
    PROVE  Append(q, x) \o s = q \o (<<x>> \o s)
<1> DEFINE l == Append(q, x) \o s
           r == q \o (<<x>> \o s)
           n == Len(q)
           k == Len(s)
<1>1. l \in Seq(S) /\ r \in Seq(S) /\ n \in Nat /\ k \in Nat
  OBVIOUS
<1>2. Len(l) = n + 1 + k /\ Len(r) = n + 1 + k
  OBVIOUS
<1>3. ASSUME NEW i \in 1..(n + 1 + k) PROVE l[i] = r[i]
  <2>1. CASE i <= n
    BY <2>1
  <2>2. CASE i = n + 1
    BY <2>2
  <2>3. CASE i > n + 1
    BY <2>3
  <2> QED BY <2>1, <2>2, <2>3
<1> HIDE DEF l, r
<1>4. l = r
  BY <1>1, <1>2, <1>3
<1> QED BY <1>4 DEF l, r

\* 0x2afb.
LEMMA OnReadyFollows ==
    ASSUME Typed, Kept, Ownership, MapStep, UNCHANGED client, M!ChrifOnReady
    PROVE  Follows
<1> DEFINE users == {[acc |-> a, char |-> pc[a].char] : a \in DOMAIN pc}
           ins   == {a \in DOMAIN mapAuth : M!LoggingIn(a)}
           MsgOf(a) == IF a \in ins THEN M!CharOfflineMsg(a, mapAuth[a].char)
                       ELSE M!SaveMsg(a, mapAuth[a].char, mapAuth[a].ver, TRUE)
           first == [type |-> "users", users |-> users]
           Sent(m) == m.type = "save" => GoodFromMap(m)' /\ (m.final => M!LoggingOut(m.acc)')
<1>1. PICK order \in [1..M!Cardinality(DOMAIN mapAuth) -> DOMAIN mapAuth] :
         fromMap' = Append(fromMap, first) \o [i \in DOMAIN order |-> MsgOf(order[i])]
  BY DEF M!ChrifOnReady
<1>2. /\ mapAuth' = [a \in DOMAIN mapAuth \ ins |-> mapAuth[a]]
      /\ UNCHANGED <<pc, latest, sql>> /\ Reads
  BY MapStepStays DEF M!ChrifOnReady, M!FromCharServer, Reads
<1>3. SameData /\ FewerNodes
  <2>1. \A a : /\ a \in DOMAIN mapAuth' <=> a \in DOMAIN mapAuth /\ ~M!LoggingIn(a)
               /\ a \in DOMAIN mapAuth' => mapAuth'[a] = mapAuth[a]
    BY <1>2
  <2> QED BY <1>2, <2>1
          DEF SameData, SamePlayers, SameLeft, FewerNodes, M!LoggingOut, M!LoggingIn
<1>4. first \in Fresh /\ Sent(first)
  <2>1. users \in SUBSET [acc : Account, char : Char]
    BY PlayerTyped
  <2> HIDE DEF users
  <2>2. first \in PlainFrom
    BY <2>1 DEF FromMapMsg, PlainFrom
  <2> QED BY <2>2 DEF Fresh
<1>5. ASSUME NEW a \in DOMAIN mapAuth PROVE MsgOf(a) \in Fresh /\ Sent(MsgOf(a))
  <2> DEFINE c == mapAuth[a].char
  <2>1. /\ a \in Account /\ c \in Char /\ Owner[c] = a /\ mapAuth[a].ver \in Nat
        /\ M!LoggingOut(a) => mapAuth[a].ver = latest[c] /\ sql[c] <= mapAuth[a].ver
        /\ M!LoggingIn(a) \/ M!LoggingOut(a)
    BY NodeData
  <2>2. CASE a \in ins
    <3>1. M!CharOfflineMsg(a, c) \in PlainFrom /\ M!CharOfflineMsg(a, c).type # "save"
      BY <2>1 DEF M!CharOfflineMsg, FromMapMsg, PlainFrom
    <3> QED BY <2>2, <3>1 DEF Fresh
  <2>3. ASSUME a \notin ins, NEW x, x = M!SaveMsg(a, c, mapAuth[a].ver, TRUE)
        PROVE  x \in Fresh /\ Sent(x)
    <3>1. M!LoggingOut(a) /\ M!LoggingOut(a)'
      BY <1>3, <2>1, <2>3 DEF SameData, SameLeft
    <3>2. SavesLatest(x, a, c) /\ x.final
      BY <2>1, <2>3, <3>1, SaveMsgFields
    <3>3. x \in Fresh
      BY <3>2 DEF Fresh, SavesLatest
    <3>4. Closed(x.acc, x.char)'
      <4>1. a \notin DOMAIN pc' /\ mapAuth'[a].char = c
        BY <1>2, <1>3, <3>1 DEF Ownership, PlayingOrInAuthDb, SameData, SameLeft
      <4> QED BY <3>2, <4>1 DEF Closed, SavesLatest
    <3>5. x.ver = mapAuth[a].ver /\ x.ver = latest'[x.char] /\ Owner[x.char] = x.acc
      BY <1>2, <2>1, <3>1, <3>2 DEF SavesLatest
    <3>6. sql'[x.char] <= x.ver /\ x.ver <= latest'[x.char]
      <4>1. sql'[x.char] <= x.ver
        BY <1>2, <2>1, <3>1, <3>2, <3>5 DEF SavesLatest
      <4> QED BY <2>1, <3>5, <4>1
    <3>7. GoodFromMap(x)'
      BY <3>2, <3>4, <3>5, <3>6 DEF GoodFromMap, GoodSave, SavesLatest
    <3> QED BY <3>1, <3>2, <3>3, <3>7 DEF SavesLatest
  <2> HIDE DEF Sent
  <2> QED BY <2>2, <2>3
<1>6. PICK S : S = {m \in Fresh : Sent(m)}
  OBVIOUS
<1>7. Cardinality(DOMAIN mapAuth) \in Nat
  <2>1. DOMAIN mapAuth \subseteq Account
    BY DEF Typed, MapData, IsIdb
  <2>2. IsFiniteSet(DOMAIN mapAuth)
    BY <2>1, AccountAssumption, FS_Subset DEF AccountAssumption
  <2> QED BY <2>2, FS_CardinalityType
<1> HIDE DEF MsgOf, first, ins, Sent
<1>8. [i \in DOMAIN order |-> MsgOf(order[i])] \in Seq(S)
  <2>1. DOMAIN order = 1..Cardinality(DOMAIN mapAuth)
    BY DEF M!Cardinality, Cardinality
  <2>2. \A i \in DOMAIN order : MsgOf(order[i]) \in S
    BY <1>5, <1>6
  <2> QED BY <1>7, <2>1, <2>2
<1>9. PICK s \in Seq(S) : fromMap' = Append(fromMap, first) \o s
  BY <1>1, <1>8
<1>10. /\ <<first>> \o s \in Seq(S)
       /\ fromMap' = fromMap \o (<<first>> \o s)
  <2>1. first \in S
    BY <1>4, <1>6
  <2>2. S \subseteq FromMapMsg
    BY <1>6 DEF Fresh, PlainFrom
  <2>3. s \in Seq(FromMapMsg) /\ first \in FromMapMsg
    BY <2>1, <2>2
  <2>4. fromMap' = fromMap \o (<<first>> \o s)
    BY <1>9, <2>3, LinkTypes, JoinJoin
  <2> QED BY <1>9, <2>1, <2>4
<1>11. PICK ms \in Seq(S) : fromMap' = fromMap \o ms
  BY <1>10
<1>12. ms \in Seq(Fresh)
  BY <1>6
<1>13. ASSUME NEW i \in 1..Len(ms), NEW m \in Fresh, m = ms[i], m.type = "save"
       PROVE  GoodFromMap(m)' /\ (m.final => M!LoggingOut(m.acc)')
  <2>1. Sent(m)
    BY <1>6, <1>13
  <2> QED BY <1>13, <2>1 DEF Sent
<1>14. Writes(ms)
  BY <1>11 DEF Writes
<1> QED BY <1>2, <1>3, <1>12, <1>13, <1>14, SavesFollow


\* Nothing that would close an account in play is on its way.
LEMMA PlayerClosed ==
    ASSUME Typed, Kept, NEW a \in DOMAIN pc
    PROVE  None(Closing(a))
<1>1. ASSUME NEW m \in Closing(a), m \in FromMapMsg PROVE m \in BadFromMap
  BY <1>1 DEF Closing, ToMapMsg, FromMapMsg, BadFromMap, GoodFromMap, GoodSave, Closed
<1>2. ASSUME NEW m \in Closing(a), m \in ToMapMsg PROVE m \in BadToMap
  BY <1>2 DEF Closing, ToMapMsg, FromMapMsg, BadToMap, GoodToMap, GoodAck, Closed
<1>3. /\ \A i \in 1..Len(fromMap) : fromMap[i] \in FromMapMsg
      /\ \A i \in 1..Len(toMap) : toMap[i] \in ToMapMsg
  BY LinkTypes
<1> QED BY <1>1, <1>2, <1>3 DEF Kept, Packets, None, Free

\* The character of a quits: its data is kept by its node, and saved for good.
LEMMA MapQuitFollows ==
    ASSUME Typed, Kept, Ownership, MapStep, UNCHANGED <<client, latest, toMap>>,
           NEW a \in DOMAIN pc, M!MapQuit(a)
    PROVE  Follows
<1>0. PICK c : c = pc[a].char
  OBVIOUS
<1> DEFINE node == [state |-> "logout", char |-> pc[a].char, tok |-> pc[a].tok,
                    fd |-> NoToken, ver |-> pc[a].ver, regs |-> {}]
<1>1. /\ a \in Account /\ c \in Char /\ Owner[c] = a /\ pc[a].ver = latest[c]
      /\ pc[a].ver \in Nat /\ sql[c] <= pc[a].ver /\ a \notin DOMAIN mapAuth
  BY <1>0, PlayerData DEF Ownership, PlayingOrInAuthDb
<1>2. /\ DOMAIN pc' = DOMAIN pc \ {a} /\ \A b \in DOMAIN pc' : pc'[b] = pc[b]
      /\ DOMAIN mapAuth' = DOMAIN mapAuth \cup {a}
      /\ mapAuth'[a].state = "logout" /\ mapAuth'[a].char = c
      /\ mapAuth'[a].ver = pc[a].ver
      /\ \A b \in DOMAIN mapAuth : mapAuth'[b] = mapAuth[b]
      /\ Reads /\ UNCHANGED <<sql, latest>>
  <2>1. /\ DOMAIN mapAuth' = DOMAIN mapAuth \cup {a} /\ mapAuth'[a] = node
        /\ \A b \in DOMAIN mapAuth \ {a} : mapAuth'[b] = mapAuth[b]
    BY DEF M!MapQuit, M!IdbPut
  <2>2. DOMAIN pc' = DOMAIN pc \ {a} /\ \A b \in DOMAIN pc' : pc'[b] = pc[b]
    BY IdbRemoveFacts DEF M!MapQuit
  <2> QED BY <1>0, <1>1, <2>1, <2>2, MapStepStays DEF Reads
<1>3. /\ \A b : M!LoggingOut(b)' <=> b = a \/ M!LoggingOut(b)
      /\ \A b : M!LoggingIn(b)' <=> M!LoggingIn(b)
      /\ ~M!LoggingOut(a) /\ ~M!LoggingIn(a)
  BY <1>1, <1>2 DEF M!LoggingOut, M!LoggingIn
<1>4. PICK x : x = M!SaveMsg(a, c, pc[a].ver, TRUE)
  OBVIOUS
<1>5. Writes(<<x>>)
  BY <1>0, <1>4, SendWrites DEF M!MapQuit
<1>6. SavesLatest(x, a, c) /\ x.final
  BY <1>1, <1>4, SaveMsgFields
<1> HIDE DEF node
<1>7. GoodFromMap(x)'
  <2>1. Closed(x.acc, x.char)'
    BY <1>2, <1>6 DEF Closed, SavesLatest
  <2>2. x.ver = latest'[x.char] /\ x.ver = pc[a].ver /\ Owner[x.char] = x.acc /\ x.char = c
    BY <1>1, <1>2, <1>6 DEF SavesLatest
  <2>3. sql'[x.char] <= x.ver /\ x.ver <= latest'[x.char]
    <3>1. sql'[x.char] <= x.ver
      BY <1>1, <1>2, <2>2
    <3> QED BY <1>1, <2>2, <3>1
  <2> QED BY <1>6, <2>1, <2>2, <2>3 DEF GoodFromMap, GoodSave, SavesLatest
<1>8. /\ \A m \in FromMapMsg : GoodFromMap(m) => GoodFromMap(m)'
      /\ \A m \in ToMapMsg : GoodToMap(m) => GoodToMap(m)'
  <2>1. \A b, d : Closed(b, d) => Closed(b, d)'
    BY <1>2, <1>3 DEF Closed, M!LoggingOut
  <2>2. \A b : Busy(b)' <=> Busy(b)
    BY <1>2, <1>3 DEF Busy
  <2> QED BY <1>2, <2>1, <2>2 DEF GoodFromMap, GoodToMap, GoodSave, GoodAck, GoodData
<1>9. /\ Packets' /\ Rising' /\ QuietKept
      /\ \A b : /\ OpenFirst(b) => OpenFirst(b)'
                /\ CloseFirst(b) /\ ~M!LoggingOut(b)' => CloseFirst(b)'
                /\ None(Closing(b)) /\ ~M!LoggingOut(b)' => None(Closing(b))'
  <2>1. \A i \in 1..Len(<<x>>) : \A m \in Fresh : m = <<x>>[i] /\ m.type = "save" =>
            GoodFromMap(m)' /\ (m.final => M!LoggingOut(m.acc)')
    BY <1>3, <1>6, <1>7 DEF SavesLatest
  <2>2. <<x>> \in Seq(Fresh)
    BY <1>6 DEF SavesLatest
  <2> QED BY <1>2, <1>5, <1>8, <2>1, <2>2, SavesSent
<1>10. Order'
  <2>1. OpenFirst(a)
    <3>1. None(Closing(a))
      BY PlayerClosed
    <3> QED BY <3>1, FreeOrder DEF OpenFirst, InOrder, None
  <2> QED BY <1>3, <1>9, <2>1 DEF Kept, Order
<1>11. Nodes'
  <2> SUFFICES ASSUME NEW b \in DOMAIN mapAuth', M!LoggingIn(b)'
               PROVE  FreshNode(b)' \/ (Quiet(b) /\ mapAuth[b].regs = {})'
    BY DEF Nodes
  <2>1. /\ M!LoggingIn(b) /\ b \in DOMAIN mapAuth /\ mapAuth'[b] = mapAuth[b]
        /\ b # a /\ ~M!LoggingOut(b)' /\ b \in Account
    <3>1. M!LoggingIn(b) /\ b # a /\ b \in DOMAIN mapAuth
      BY <1>3 DEF M!LoggingIn
    <3> QED BY <1>2, <1>3, <3>1 DEF M!LoggingIn, M!LoggingOut, Typed, MapData, IsIdb
  <2> QED BY <1>2, <1>9, <2>1 DEF Kept, Nodes, QuietKept, FreshNode
<1>12. Current' /\ OwnedData' /\ OwnedClients'
  <2>1. Current'
    BY <1>1, <1>2, <1>3 DEF Kept, Current, NoRollback, M!LoggingOut
  <2>2. OwnedData'
    BY <1>1, <1>2 DEF Kept, OwnedData
  <2> QED BY <2>1, <2>2, MapStepStays
<1>13. /\ InPlay(c) /\ ~InPlay(c)' /\ Left(c)' /\ Held(c)' = Held(c)
       /\ \A d \in Char : d # c =>
             (InPlay(d)' <=> InPlay(d)) /\ (Left(d)' <=> Left(d)) /\ Held(d)' = Held(d)
  <2>1. InPlay(c) /\ ~InPlay(c)' /\ Left(c)'
    BY <1>0, <1>1, <1>2, <1>3 DEF InPlay, Left, M!LoggingOut
  <2>2. ASSUME NEW d \in Char, d # c
        PROVE  (InPlay(d)' <=> InPlay(d)) /\ (Left(d)' <=> Left(d))
    BY <1>0, <1>1, <1>2, <1>3, <2>2 DEF InPlay, Left, M!LoggingOut
  <2>3. Held(c)' = Held(c)
    BY <1>0, <1>1, <1>2, <2>1 DEF Held
  <2>4. ASSUME NEW d \in Char, d # c PROVE Held(d)' = Held(d)
    <3>1. /\ InPlay(d) => Owner[d] \in DOMAIN pc' /\ pc'[Owner[d]] = pc[Owner[d]]
          /\ Left(d) => mapAuth'[Owner[d]] = mapAuth[Owner[d]]
      BY <1>0, <1>1, <1>2, <2>2, <2>4 DEF InPlay, Left, M!LoggingOut
    <3> QED BY <1>2, <2>2, <2>4, <3>1 DEF Held
  <2> QED BY <2>1, <2>2, <2>3, <2>4
<1>14. Settled'
  <2>1. \A d \in Char : (InPlay(d) \/ Left(d)) => (InPlay(d) \/ Left(d))'
    BY <1>13
  <2> QED BY <1>2, <2>1 DEF Kept, Settled
<1>15. LedgerStep
  <2>1. Ledger!Quit(c)
    BY <1>1, <1>2, <1>13 DEF Ledger!Quit, Held
  <2> QED BY <1>1, <2>1 DEF LedgerStep, Ledger!LedgerNext
<1> QED BY <1>9, <1>10, <1>11, <1>12, <1>14, <1>15 DEF Follows, Kept

LEMMA QuitsFollow ==
    ASSUME Typed, Kept, Ownership, MapStep, UNCHANGED client,
           (\E t : M!ClifParseEofQuit(t)) \/ (\E a : M!ClifDelayQuit(a))
    PROVE  Follows
<1>1. PICK a \in DOMAIN pc : M!MapQuit(a) /\ UNCHANGED <<latest, toMap>>
  BY DEF M!ClifParseEofQuit, M!ClifDelayQuit, M!Plays
<1> QED BY <1>1, MapQuitFollows


\* Nothing about the registries of a is on its way.
LEMMA ArrivedQuiet ==
    ASSUME Typed, NEW a, RegistriesArrived(a)
    PROVE  Quiet(a)
<1>1. /\ \A i \in DOMAIN fromMap : ~(fromMap[i].type = "regReq" /\ fromMap[i].acc = a)
      /\ \A i \in DOMAIN toMap : ~(toMap[i].type = "regs" /\ toMap[i].acc = a)
      /\ \A i \in DOMAIN fromChar[Self] :
            ~(fromChar[Self][i].type = "reg2" /\ fromChar[Self][i].acc = a)
      /\ \A i \in DOMAIN toChar[Self] :
            ~(toChar[Self][i].type = "reg2" /\ toChar[Self][i].acc = a)
  BY DEF RegistriesArrived
<1>2. /\ DOMAIN fromMap = 1..Len(fromMap) /\ DOMAIN toMap = 1..Len(toMap)
      /\ DOMAIN fromChar[Self] = 1..Len(fromChar[Self])
      /\ DOMAIN toChar[Self] = 1..Len(toChar[Self])
  BY LinkTypes
<1> QED BY <1>1, <1>2
        DEF Quiet, Free, ToRegs, FromRegs, ToLoginRegs, FromLoginRegs

\* The node of a client that comes in: the data is asked for behind everything
\* that is on its way, and nothing about its registries is.
LEMMA NodeAddedFollows ==
    ASSUME Typed, Kept, MapStep, OwnedClients', UNCHANGED <<pc, latest, toMap>>,
           NEW a \in Account, NEW c \in Char, NEW t \in Token, Owner[c] = a, Quiet(a),
           a \notin DOMAIN mapAuth, NEW node,
           node.state = "login", node.char = c, node.regs = {},
           mapAuth' = M!IdbPut(mapAuth, a, node),
           NEW x, x = [type |-> "auth", acc |-> a, char |-> c, tok |-> t],
           fromMap' = fromMap \o <<x>>
    PROVE  Follows
<1>1. /\ DOMAIN mapAuth' = DOMAIN mapAuth \cup {a} /\ mapAuth'[a] = node
      /\ \A b \in DOMAIN mapAuth : mapAuth'[b] = mapAuth[b]
      /\ Reads /\ UNCHANGED sql
  BY MapStepStays DEF M!IdbPut, Reads
<1>2. SameData
  BY <1>1 DEF SameData, SamePlayers, SameLeft, M!LoggingOut
<1>3. x \in FromMapMsg /\ x.type = "auth" /\ x.acc = a /\ x.char = c
  BY DEF FromMapMsg
<1>4. /\ <<x>> \in Seq(FromMapMsg) /\ Writes(<<x>>)
      /\ \A X : x \notin X => Free(<<x>>, X)
  BY <1>3, OneQueue DEF Writes
<1>5. ASSUME NEW b
      PROVE  /\ CloseFirst(b) => CloseFirst(b)'
             /\ None(Closing(b)) => None(Closing(b))'
             /\ b # a /\ OpenFirst(b) => OpenFirst(b)'
  <2>1. x \notin Closing(b) /\ (b # a => x \notin Opening(b))
    BY <1>3 DEF Closing, Opening, ToMapMsg
  <2> QED BY <1>1, <1>4, <2>1, WriteOrder DEF CloseFirst, OpenFirst
<1>6. Order'
  <2>1. \A b : M!LoggingOut(b)' <=> M!LoggingOut(b)
    BY <1>2 DEF SameData, SameLeft
  <2>2. ~M!LoggingOut(a)
    BY DEF M!LoggingOut
  <2> QED BY <1>5, <2>1, <2>2 DEF Kept, Order
<1>7. Packets'
  <2>1. BadFromMap' \subseteq BadFromMap /\ BadToMap' \subseteq BadToMap
    BY <1>2, SameGood DEF BadFromMap, BadToMap
  <2>2. Free(fromMap, BadFromMap') /\ Free(toMap, BadToMap')
    BY <2>1 DEF Kept, Packets, Free
  <2>3. x \notin BadFromMap'
    BY <1>3 DEF BadFromMap, GoodFromMap
  <2> QED BY <1>3, <2>2, <2>3, LinkTypes, OneMore DEF Packets
<1>8. Rising'
  <2> SUFFICES ASSUME NEW d \in Char, NEW v \in Nat
               PROVE  NoneBehind(fromMap', Newer(d, v), UpTo(d, v))
    BY DEF Rising
  <2>1. x \notin Newer(d, v) /\ x \notin UpTo(d, v)
    BY <1>3 DEF Newer, UpTo
  <2> QED BY <1>4, <2>1, LinkTypes, OneQueue, JoinQueue DEF Kept, Rising
<1>9. QuietKept
  <2>1. <<x>> \in Seq(NotRegsFrom) /\ NotRegsFrom \subseteq FromMapMsg
    BY <1>3 DEF NotRegsFrom
  <2>2. Thins(fromMap, fromMap', NotRegsFrom) /\ Thins(toMap, toMap', NotRegsTo)
    BY <2>1, LinkTypes, ThinsJoin, ThinsSame
  <2> QED BY <2>2, MapStepStays, NotRegsQuiet
<1>10. Nodes'
  <2> SUFFICES ASSUME NEW b \in DOMAIN mapAuth', M!LoggingIn(b)'
               PROVE  FreshNode(b)' \/ (Quiet(b) /\ mapAuth[b].regs = {})'
    BY DEF Nodes
  <2>1. CASE b = a
    BY <1>1, <1>9, <2>1 DEF QuietKept
  <2>2. CASE b # a
    <3>1. /\ b \in DOMAIN mapAuth /\ mapAuth'[b] = mapAuth[b] /\ M!LoggingIn(b)
          /\ b \in Account
      BY <1>1, <2>2 DEF M!LoggingIn, Typed, MapData, IsIdb
    <3> QED BY <1>1, <1>5, <1>9, <3>1 DEF Kept, Nodes, QuietKept, FreshNode
  <2> QED BY <2>1, <2>2
<1>11. \A b \in DOMAIN mapAuth' : Owner[mapAuth'[b].char] = b
  BY <1>1 DEF Kept, OwnedData
<1> QED BY <1>2, <1>6, <1>7, <1>8, <1>10, <1>11, SameDataKept, SameLedger DEF Follows

\* CZ_ENTER, from a client whose registries arrived.
LEMMA ConnectMapFollows ==
    ASSUME PromptRegistries, Typed, Kept, NEW t \in Token, ConnectMap(t)
    PROVE  Follows
<1>1. PICK a, c : a = client[t].acc /\ c = client[t].char
  OBVIOUS
<1>2. /\ MapStep /\ MovesTo(t, "map") /\ Quiet(a) /\ M!WantToConnection(t, a, c)
      /\ a \in Account /\ client \in [Token -> Client]
      /\ Owner[c] = a /\ UNCHANGED <<pc, latest, toMap>>
  <2>1. client \in [Token -> Client] /\ client[t] \in Client
    BY DEF Typed, Clients
  <2> QED BY <1>1, <2>1, ArrivedQuiet
          DEF ConnectMap, M!WantToConnection, Client, Kept, OwnedClients
<1>3. OwnedClients'
  <2>1. \A u \in Token : client'[u].acc = client[u].acc /\ client'[u].char = client[u].char
                         /\ client'[u].at = IF u = t THEN "map" ELSE client[u].at
    BY <1>2 DEF MovesTo, Client
  <2>2. UNCHANGED charSess /\ DOMAIN charSess \subseteq Token
    BY <1>2 DEF MapStep, charVars, Typed, CharData, IsIdb
  <2> QED BY <1>1, <1>2, <2>1, <2>2 DEF Kept, OwnedClients
<1>4. CASE a \notin DOMAIN mapAuth /\ chrif = "ready"
  <2>1. PICK node : node = [state |-> "login", char |-> c, tok |-> t, fd |-> t,
                            ver |-> M!Blank, regs |-> {}]
    OBVIOUS
  <2>2. node.state = "login" /\ node.char = c /\ node.regs = {}
    BY <2>1
  <2>3. /\ mapAuth' = M!IdbPut(mapAuth, a, node)
        /\ fromMap' = fromMap \o <<[type |-> "auth", acc |-> a, char |-> c, tok |-> t]>>
    BY <1>2, <1>4, <2>1 DEF M!WantToConnection, M!Send
  <2>4. c \in Char
    <3>1. client[t].char \in Char \cup {NoChar} /\ client[t].at \in {"toMap", "map"}
      BY <1>2 DEF ConnectMap, Client
    <3> QED BY <1>1, <3>1 DEF Typed, Clients
  <2> QED BY <1>2, <1>3, <1>4, <2>2, <2>3, <2>4, NodeAddedFollows
<1>5. CASE ~(a \notin DOMAIN mapAuth /\ chrif = "ready")
  <2>1. UNCHANGED mapAuth /\ M!Send(<< >>)
    BY <1>2, <1>5 DEF M!WantToConnection
  <2>2. ThinFromMap /\ ThinToMap
    <3>1. << >> \in Seq(PlainFrom)
      OBVIOUS
    <3> QED BY <1>2, <2>1, <3>1, ThinSend, ThinStill
  <2>3. SameData /\ FewerNodes
    BY <1>2, <2>1, MapStepStays, NodesStay
  <2> QED BY <1>2, <1>3, <2>2, <2>3, MapFollows
<1> QED BY <1>4, <1>5


\* A character in play changes.
LEMMA PlayFollows ==
    ASSUME Typed, Kept, Ownership, MapStep, UNCHANGED client, NEW a, M!Play(a)
    PROVE  Follows
<1>1. PICK c, v : c = pc[a].char /\ v = pc[a].ver
  OBVIOUS
<1>2. /\ a \in DOMAIN pc /\ a \in Account /\ c \in Char /\ Owner[c] = a /\ v = latest[c]
      /\ v \in Nat /\ sql[c] <= v /\ a \notin DOMAIN mapAuth
      /\ UNCHANGED <<mapAuth, mapSess, toMap, fromMap, sql>>
  BY <1>1, PlayerData, MapStepStays DEF M!Play, Ownership, PlayingOrInAuthDb
<1>3. /\ DOMAIN pc' = DOMAIN pc
      /\ pc'[a].char = c /\ pc'[a].ver = v + 1
      /\ \A b \in DOMAIN pc \ {a} : pc'[b] = pc[b]
      /\ latest' \in [Char -> Nat] /\ latest'[c] = v + 1
      /\ \A d \in Char : d # c => latest'[d] = latest[d]
  <2>1. latest \in [Char -> Nat] /\ latest' = [latest EXCEPT ![c] = v + 1]
    BY <1>1 DEF M!Play, Typed, MapData
  <2>2. pc[a] \in Player /\ pc' = [pc EXCEPT ![a].ver = @ + 1]
    BY <1>2, EntryTyped DEF M!Play, Typed, MapData
  <2>3. DOMAIN pc' = DOMAIN pc /\ \A b \in DOMAIN pc \ {a} : pc'[b] = pc[b]
    BY <2>2
  <2>4. pc'[a] = [pc[a] EXCEPT !.ver = @ + 1]
    BY <1>2, <2>2
  <2>5. pc'[a].char = c /\ pc'[a].ver = v + 1
    BY <1>1, <2>2, <2>4 DEF Player
  <2>6. /\ latest' \in [Char -> Nat] /\ latest'[c] = v + 1
        /\ \A d \in Char : d # c => latest'[d] = latest[d]
    BY <1>2, <2>1
  <2> QED BY <2>3, <2>5, <2>6
<1>4. /\ \A b \in DOMAIN pc : pc'[b].char = pc[b].char
      /\ \A b : M!LoggingOut(b)' <=> M!LoggingOut(b)
      /\ \A b : M!LoggingIn(b)' <=> M!LoggingIn(b)
      /\ \A b : Busy(b)' <=> Busy(b)
      /\ \A b, d : Closed(b, d)' <=> Closed(b, d)
      /\ \A b \in DOMAIN mapAuth : mapAuth[b].char \in Char /\ mapAuth[b].char # c
      /\ \A b \in DOMAIN pc \ {a} : pc[b].char \in Char /\ pc[b].char # c
  <2>1. /\ \A b : M!LoggingOut(b)' <=> M!LoggingOut(b)
        /\ \A b : M!LoggingIn(b)' <=> M!LoggingIn(b)
    BY <1>2 DEF M!LoggingOut, M!LoggingIn
  <2>2. /\ \A b \in DOMAIN mapAuth : mapAuth[b].char \in Char /\ mapAuth[b].char # c
        /\ \A b \in DOMAIN pc \ {a} : pc[b].char \in Char /\ pc[b].char # c
    BY <1>2, NodeData, PlayerData
  <2>3. \A b \in DOMAIN pc : pc'[b].char = pc[b].char
    BY <1>1, <1>3
  <2>4. \A b : Busy(b)' <=> Busy(b)
    BY <1>3, <2>1 DEF Busy
  <2>5. \A b, d : Closed(b, d)' <=> Closed(b, d)
    BY <1>2, <1>3, <2>1 DEF Closed
  <2> QED BY <2>1, <2>2, <2>3, <2>4, <2>5
<1>5. \A b : ~Closed(a, b) /\ Busy(a)
  BY <1>2 DEF Closed, Busy
<1>6. ASSUME NEW m \in FromMapMsg, GoodFromMap(m) PROVE GoodFromMap(m)'
  <2>1. CASE m.type = "save"
    <3>1. GoodSave(m) /\ m.char \in Char /\ m.ver \in Nat
      BY <1>6, <2>1, FromMapFields DEF GoodFromMap
    <3>2. GoodSave(m)'
      <4>1. CASE m.char = c
        <5>1. m.acc = a /\ ~m.final
          BY <1>2, <1>5, <3>1, <4>1 DEF GoodSave
        <5>2. m.ver <= v + 1
          BY <1>2, <3>1, <4>1 DEF GoodSave
        <5> QED BY <1>2, <1>3, <3>1, <4>1, <5>1, <5>2 DEF GoodSave
      <4>2. CASE m.char # c
        BY <1>2, <1>3, <1>4, <3>1, <4>2 DEF GoodSave
      <4> QED BY <4>1, <4>2
    <3> QED BY <2>1, <3>2 DEF GoodFromMap
  <2>2. CASE m.type # "save"
    BY <1>6, <2>2 DEF GoodFromMap
  <2> QED BY <2>1, <2>2
<1>7. ASSUME NEW m \in ToMapMsg, GoodToMap(m) PROVE GoodToMap(m)'
  <2>1. m.type \in {"saveAck", "authOk"} => m.char \in Char
    BY ToMapFields
  <2>2. m.type = "saveAck" => GoodAck(m)'
    <3> SUFFICES ASSUME m.type = "saveAck" PROVE GoodAck(m)'
      OBVIOUS
    <3>1. GoodAck(m) /\ m.char # c
      BY <1>2, <1>5, <1>7 DEF GoodToMap, GoodAck
    <3> QED BY <1>2, <1>3, <1>4, <2>1, <3>1 DEF GoodAck
  <2>3. m.type = "authOk" => GoodData(m)'
    <3> SUFFICES ASSUME m.type = "authOk" PROVE GoodData(m)'
      OBVIOUS
    <3>1. GoodData(m) /\ (m.char = c => m.acc = a)
      BY <1>2, <1>7 DEF GoodToMap, GoodData
    <3> QED BY <1>3, <1>4, <1>5, <2>1, <3>1 DEF GoodData
  <2> QED BY <2>2, <2>3 DEF GoodToMap
<1>8. Packets'
  <2>1. BadFromMap' \subseteq BadFromMap /\ BadToMap' \subseteq BadToMap
    BY <1>6, <1>7 DEF BadFromMap, BadToMap
  <2> QED BY <1>2, <2>1 DEF Kept, Packets, Free
<1>9. Rising' /\ Order'
  BY <1>2, <1>4 DEF Kept, Rising, Order, OpenFirst, CloseFirst, InOrder
<1>10. Nodes'
  <2>1. \A b : Quiet(b)' <=> Quiet(b)
    BY <1>2 DEF Quiet, MapStep
  <2>2. \A b \in DOMAIN mapAuth : FreshNode(b)' <=> FreshNode(b)
    BY <1>2, <1>3, <1>4 DEF FreshNode, None
  <2> QED BY <1>2, <1>4, <2>1, <2>2 DEF Kept, Nodes
<1>11. Current' /\ OwnedData' /\ OwnedClients'
  <2>1. NoRollback'
    BY <1>3, <1>4 DEF Kept, Current, NoRollback
  <2>2. Current'
    BY <1>2, <1>3, <1>4, <2>1 DEF Kept, Current
  <2>3. OwnedData'
    BY <1>2, <1>3, <1>4 DEF Kept, OwnedData
  <2> QED BY <2>2, <2>3, MapStepStays
<1>12. /\ InPlay(c) /\ \A d \in Char : InPlay(d)' <=> InPlay(d)
       /\ \A d \in Char : Left(d)' <=> Left(d)
       /\ Held(c) = v /\ Held(c)' = v + 1
       /\ \A d \in Char : d # c => Held(d)' = Held(d)
  <2>1. /\ InPlay(c) /\ \A d \in Char : InPlay(d)' <=> InPlay(d)
        /\ \A d \in Char : Left(d)' <=> Left(d)
    BY <1>1, <1>2, <1>3, <1>4 DEF InPlay, Left
  <2>2. InPlay(c)'
    BY <1>2, <2>1
  <2>3. Held(c) = v
    BY <1>1, <1>2, <2>1 DEF Held
  <2>4. Held(c)' = v + 1
    BY <1>2, <1>3, <2>2 DEF Held
  <2>5. ASSUME NEW d \in Char, d # c PROVE Held(d)' = Held(d)
    <3>1. InPlay(d) => Owner[d] \in DOMAIN pc \ {a}
      BY <1>1, <2>5 DEF InPlay
    <3>2. InPlay(d) => pc'[Owner[d]] = pc[Owner[d]]
      BY <1>3, <3>1
    <3> QED BY <1>2, <2>1, <3>2, <2>5 DEF Held
  <2> QED BY <2>1, <2>3, <2>4, <2>5
<1>13. Settled'
  <2> SUFFICES ASSUME NEW d \in Char
               PROVE  /\ sql'[d] <= latest'[d]
                      /\ sql'[d] = latest'[d] \/ InPlay(d)' \/ Left(d)'
    BY DEF Settled
  <2>1. CASE d = c
    <3>1. sql[c] \in Nat /\ sql[c] <= v + 1
      BY <1>2 DEF Typed, CharData
    <3> QED BY <1>2, <1>3, <1>12, <2>1, <3>1
  <2>2. CASE d # c
    BY <1>2, <1>3, <1>12, <2>2 DEF Kept, Settled
  <2> QED BY <2>1, <2>2
<1>14. LedgerStep
  <2>1. where' = where /\ where[c] = "inPlay" /\ held[c] = v
    BY <1>2, <1>12 DEF where, held, Where
  <2>2. held' = [held EXCEPT ![c] = v + 1]
    BY <1>2, <1>12 DEF held
  <2>3. Ledger!Change(c)
    BY <1>2, <2>1, <2>2 DEF Ledger!Change, where, held, Where, Held
  <2> QED BY <1>2, <2>3 DEF LedgerStep, Ledger!LedgerNext
<1> QED BY <1>8, <1>9, <1>10, <1>11, <1>13, <1>14 DEF Follows, Kept


\* 0x2afd: the data came.  Nothing that would make it old is behind it.
LEMMA DataTakenFollows ==
    ASSUME Typed, Kept, MapStep, UNCHANGED <<client, latest, pc>>,
           M!FromCharServer("authOk"), NEW m, m = Head(toMap), NEW a, a = m.acc,
           a \notin DOMAIN pc, M!LoggingIn(a), mapAuth[a].char = m.char,
           mapAuth' = [mapAuth EXCEPT ![a].ver = m.ver],
           NEW x, x = [type |-> "regReq", acc |-> a, char |-> m.char], M!Send(<<x>>)
    PROVE  Follows
<1>1. /\ toMap # << >> /\ toMap' = Tail(toMap) /\ m.type = "authOk" /\ ThinToMap
      /\ UNCHANGED sql /\ Reads
  BY MapStepStays, ThinTaken DEF M!FromCharServer, Reads
<1>2. /\ m \in ToMapMsg /\ GoodData(m) /\ m.char \in Char /\ a \in Account
      /\ a \in DOMAIN mapAuth /\ ~M!LoggingOut(a)
  <2>1. m \in ToMapMsg /\ GoodToMap(m)
    BY <1>1, HeadGood
  <2> QED BY <1>1, <2>1, ToMapFields DEF GoodToMap, M!LoggingIn, M!LoggingOut
<1>3. /\ DOMAIN mapAuth' = DOMAIN mapAuth
      /\ \A b \in DOMAIN mapAuth \ {a} : mapAuth'[b] = mapAuth[b]
      /\ \A b \in DOMAIN mapAuth : mapAuth'[b].char = mapAuth[b].char
                                   /\ mapAuth'[b].state = mapAuth[b].state
      /\ mapAuth'[a].ver = m.ver
  <2>1. mapAuth[a] \in M!AuthNode
    BY <1>2, EntryTyped DEF Typed, MapData
  <2>2. mapAuth'[a] = [mapAuth[a] EXCEPT !.ver = m.ver]
    BY <1>2
  <2> QED BY <2>1, <2>2 DEF M!AuthNode
<1>4. SameData
  BY <1>1, <1>2, <1>3 DEF SameData, SamePlayers, SameLeft, M!LoggingOut
<1>5. x \in FromMapMsg /\ x.type = "regReq" /\ x.acc = a
  BY <1>2 DEF FromMapMsg
<1>6. /\ <<x>> \in Seq(CalmFrom) /\ CalmFrom \subseteq FromMapMsg
      /\ <<x>> \in Seq(PlainFrom \cup FromRegs(a))
      /\ PlainFrom \cup FromRegs(a) \subseteq FromMapMsg
  BY <1>5 DEF CalmFrom, PlainFrom, FromRegs
<1>7. /\ Thins(fromMap, fromMap', CalmFrom)
      /\ Thins(fromMap, fromMap', PlainFrom \cup FromRegs(a))
  BY <1>6, LinkTypes, ThinsJoin, ThinsSame DEF M!Send
<1>8. OrderKept
  <2>1. Thins(toMap, toMap', CalmTo)
    BY <1>1, PlainIsCalm, ThinsMore DEF ThinToMap
  <2> QED BY <1>4, <1>7, <2>1, CalmOrder
<1>9. \A b : b # a /\ Quiet(b) => Quiet(b)'
  <2>1. /\ Thins(toMap, toMap', PlainTo \cup ToRegs(a))
        /\ Thins(toChar[Self], toChar'[Self], PlainFromLogin \cup FromLoginRegs(a))
        /\ Thins(fromChar[Self], fromChar'[Self], PlainToLogin \cup ToLoginRegs(a))
    BY <1>1, MapStepStays, ThinsMore DEF ThinToMap, ThinToChar, ThinFromChar
  <2> QED BY <1>7, <2>1, RegsQuiet
<1>10. None(Closing(a))'
  <2>1. m \in Opening(a)
    BY <1>1, <1>2 DEF Opening
  <2>2. CloseFirst(a)
    BY <1>2 DEF Kept, Order
  <2>3. Free(toMap', Closing(a)) /\ Free(fromMap, Closing(a))
    <3>1. ~Free(toMap, Opening(a))
      BY <1>1, <2>1, LinkTypes, TailQueue
    <3> QED BY <1>1, <2>1, <2>2, <3>1, LinkTypes, TailQueue DEF CloseFirst, InOrder
  <2>4. Closing(a) \cap CalmFrom = {}
    BY NotCalm
  <2> QED BY <1>7, <2>3, <2>4 DEF None, Thins
<1>11. Nodes'
  <2> SUFFICES ASSUME NEW b \in DOMAIN mapAuth', M!LoggingIn(b)'
               PROVE  FreshNode(b)' \/ (Quiet(b) /\ mapAuth[b].regs = {})'
    BY DEF Nodes
  <2>1. CASE b = a
    <3>1. m.ver = latest[m.char]
      BY <1>2 DEF GoodData, Busy
    <3> QED BY <1>1, <1>2, <1>3, <1>10, <2>1, <3>1 DEF FreshNode
  <2>2. CASE b # a
    <3>1. /\ b \in DOMAIN mapAuth /\ mapAuth'[b] = mapAuth[b] /\ M!LoggingIn(b)
          /\ b \in Account
      BY <1>3, <2>2 DEF M!LoggingIn, Typed, MapData, IsIdb
    <3> QED BY <1>1, <1>8, <1>9, <2>2, <3>1 DEF Kept, Nodes, OrderKept, FreshNode
  <2> QED BY <2>1, <2>2
<1>12. \A b \in DOMAIN mapAuth' : Owner[mapAuth'[b].char] = b
  BY <1>3 DEF Kept, OwnedData
<1> QED BY <1>4, <1>8, <1>11, <1>12, MapStepStays, DataKept, SameLedger DEF Follows

LEMMA AuthOkFollows ==
    ASSUME Typed, Kept, MapStep, UNCHANGED client, M!ChrifAuthOk
    PROVE  Follows
<1>1. PICK m, a : m = Head(toMap) /\ a = m.acc
  OBVIOUS
<1>2. /\ M!FromCharServer("authOk") /\ ThinToMap /\ UNCHANGED <<latest, pc, sql>>
  BY ThinTaken, MapStepStays DEF M!ChrifAuthOk
<1>3. CASE UNCHANGED <<mapAuth, fromMap>>
  BY <1>2, <1>3, MapStepStays, NodesStay, ThinStill, MapFollows
<1>4. CASE /\ a \notin DOMAIN pc /\ M!LoggingIn(a) /\ mapAuth[a].char = m.char
           /\ mapAuth' = [mapAuth EXCEPT ![a].ver = m.ver]
           /\ M!Send(<<[type |-> "regReq", acc |-> a, char |-> m.char]>>)
  BY <1>1, <1>2, <1>4, DataTakenFollows
<1>5. CASE /\ M!LoggingIn(a) /\ M!Send(<<M!CharOfflineMsg(a, mapAuth[a].char)>>)
           /\ mapAuth' = M!IdbRemove(mapAuth, a) \/ UNCHANGED mapAuth
  <2>1. a \in DOMAIN mapAuth
    BY <1>5 DEF M!LoggingIn
  <2>2. ThinFromMap
    BY <1>5, <2>1, NodeData, ThinFromMapServer, ThinSend
  <2>3. SameData /\ FewerNodes
    BY <1>2, <1>5, NodesStay
  <2> QED BY <1>2, <2>2, <2>3, MapStepStays, MapFollows
<1> QED BY <1>1, <1>3, <1>4, <1>5 DEF M!ChrifAuthOk, M!AuthDelete

\* 0x2b21, for a character that left: the tables have its last data.
LEMMA SettledFollows ==
    ASSUME Typed, Kept, MapStep, UNCHANGED <<client, latest, pc, fromMap>>,
           M!FromCharServer("saveAck"), NEW m, m = Head(toMap), NEW a, a = m.acc,
           NEW c, c = m.char, M!LoggingOut(a), mapAuth[a].char = c,
           mapAuth' = M!IdbRemove(mapAuth, a)
    PROVE  Follows
<1>1. /\ toMap # << >> /\ toMap' = Tail(toMap) /\ m.type = "saveAck"
      /\ ThinToMap /\ ThinFromMap /\ UNCHANGED sql
  BY MapStepStays, ThinTaken, ThinStill DEF M!FromCharServer
<1>2. /\ m \in ToMapMsg /\ c \in Char /\ a \in Account /\ Owner[c] = a
      /\ sql[c] = latest[c] /\ a \notin DOMAIN pc /\ mapAuth[a].ver = latest[c]
  <2>1. m \in ToMapMsg /\ GoodToMap(m)
    BY <1>1, HeadGood
  <2> QED BY <1>1, <2>1, ToMapFields DEF GoodToMap, GoodAck, Closed, Kept, Current, M!LoggingOut
<1>3. /\ DOMAIN mapAuth' = DOMAIN mapAuth \ {a}
      /\ \A b \in DOMAIN mapAuth' : mapAuth'[b] = mapAuth[b]
      /\ \A b : M!LoggingOut(b)' <=> M!LoggingOut(b) /\ b # a
      /\ \A b : M!LoggingIn(b)' => M!LoggingIn(b) /\ b # a
  <2>1. /\ DOMAIN mapAuth' = DOMAIN mapAuth \ {a}
        /\ \A b \in DOMAIN mapAuth' : mapAuth'[b] = mapAuth[b]
    BY DEF M!IdbRemove
  <2> QED BY <2>1 DEF M!LoggingOut, M!LoggingIn
<1>4. Free(toMap', Opening(a)) /\ Free(fromMap, Opening(a))
  <2>1. OpenFirst(a)
    BY <1>2 DEF Kept, Order
  <2>2. m \in Closing(a)
    BY <1>1, <1>2 DEF Closing
  <2>3. ~Free(toMap, Closing(a))
    BY <1>1, <2>2, LinkTypes, TailQueue
  <2> QED BY <1>1, <2>1, <2>2, <2>3, LinkTypes, TailQueue DEF OpenFirst, InOrder
<1>5. ASSUME NEW b, NEW X, NEW Y
      PROVE  /\ InOrder(X, Y) => InOrder(X, Y)'
             /\ None(X) => None(X)'
  BY <1>1, LinkTypes, TailQueue DEF InOrder, None
<1>6. Order'
  <2>1. CloseFirst(a)'
    BY <1>4, FreeOrder DEF CloseFirst, InOrder
  <2> QED BY <1>3, <1>5, <2>1 DEF Kept, Order, CloseFirst, OpenFirst
<1>7. Packets'
  <2>1. \A b, d : Closed(b, d) => Closed(b, d)'
    BY <1>3 DEF Closed, M!LoggingOut
  <2>2. \A b : Busy(b) => Busy(b)' \/ b = a
    BY <1>3 DEF Busy
  <2>3. BadFromMap' \subseteq BadFromMap
    BY <1>1, <2>1 DEF BadFromMap, GoodFromMap, GoodSave
  <2>4. BadToMap' \subseteq BadToMap \cup Opening(a)
    BY <1>1, <2>1, <2>2 DEF BadToMap, GoodToMap, GoodAck, GoodData, Opening
  <2>5. Free(toMap', BadToMap) /\ Free(fromMap', BadFromMap)
    BY <1>1, LinkTypes, TailQueue DEF Kept, Packets
  <2> QED BY <1>4, <2>3, <2>4, <2>5 DEF Packets, Free
<1>8. Rising'
  BY DEF Kept, Rising
<1>9. Nodes'
  <2> SUFFICES ASSUME NEW b \in DOMAIN mapAuth', M!LoggingIn(b)'
               PROVE  FreshNode(b)' \/ (Quiet(b) /\ mapAuth[b].regs = {})'
    BY DEF Nodes
  <2>1. /\ b \in DOMAIN mapAuth /\ mapAuth'[b] = mapAuth[b] /\ M!LoggingIn(b) /\ b \in Account
    BY <1>3 DEF Typed, MapData, IsIdb
  <2>2. QuietKept
    BY <1>1, MapStepStays, ThinQuiet
  <2> QED BY <1>5, <2>1, <2>2 DEF Kept, Nodes, QuietKept, FreshNode
<1>10. Current' /\ OwnedData' /\ OwnedClients'
  <2>1. Current'
    BY <1>3 DEF Kept, Current, NoRollback
  <2>2. OwnedData'
    BY <1>3 DEF Kept, OwnedData
  <2> QED BY <2>1, <2>2, MapStepStays
<1>11. /\ ~InPlay(c) /\ Left(c) /\ ~Left(c)' /\ ~InPlay(c)'
       /\ Held(c) = sql[c] /\ Held(c)' = sql[c]
       /\ \A d \in Char : /\ InPlay(d)' <=> InPlay(d)
                          /\ d # c => (Left(d)' <=> Left(d)) /\ Held(d)' = Held(d)
  <2>1. /\ ~InPlay(c) /\ Left(c) /\ ~Left(c)' /\ ~InPlay(c)'
        /\ \A d \in Char : InPlay(d)' <=> InPlay(d)
    BY <1>2, <1>3 DEF InPlay, Left
  <2>2. ASSUME NEW d \in Char, d # c PROVE Left(d)' <=> Left(d)
    BY <1>3, <2>2 DEF Left, M!LoggingOut
  <2>3. Held(c) = sql[c] /\ Held(c)' = sql[c]
    BY <1>1, <1>2, <2>1 DEF Held
  <2>4. ASSUME NEW d \in Char, d # c PROVE Held(d)' = Held(d)
    <3>1. Left(d) => mapAuth'[Owner[d]] = mapAuth[Owner[d]]
      BY <1>3, <2>2, <2>4 DEF Left, M!LoggingOut
    <3> QED BY <1>1, <2>1, <2>2, <2>4, <3>1 DEF Held
  <2> QED BY <2>1, <2>2, <2>3, <2>4
<1>12. Settled'
  BY <1>1, <1>2, <1>11 DEF Kept, Settled
<1>13. LedgerStep
  <2>1. where[c] = "left" /\ held' = held /\ held[c] = sql[c]
    BY <1>2, <1>11 DEF where, held, Where
  <2>2. where' = [where EXCEPT ![c] = "away"]
    BY <1>2, <1>11 DEF where, Where
  <2>3. Ledger!Settle(c)
    BY <1>1, <2>1, <2>2 DEF Ledger!Settle, where, held, Where, Held
  <2> QED BY <1>2, <2>3 DEF LedgerStep, Ledger!LedgerNext
<1> QED BY <1>6, <1>7, <1>8, <1>9, <1>10, <1>12, <1>13 DEF Follows, Kept

LEMMA SaveAckFollows ==
    ASSUME Typed, Kept, MapStep, UNCHANGED client, M!ChrifSaveAck
    PROVE  Follows
<1>1. PICK m, a, c : m = Head(toMap) /\ a = m.acc /\ c = m.char
  OBVIOUS
<1>2. /\ M!FromCharServer("saveAck") /\ ThinToMap /\ UNCHANGED <<latest, pc, sql, fromMap>>
  BY ThinTaken, MapStepStays DEF M!ChrifSaveAck
<1>3. CASE UNCHANGED mapAuth
  BY <1>2, <1>3, MapStepStays, NodesStay, ThinStill, MapFollows
<1>4. CASE M!AuthCheck(a, c, "logout") /\ mapAuth' = M!IdbRemove(mapAuth, a)
  BY <1>1, <1>2, <1>4, SettledFollows DEF M!AuthCheck, M!LoggingOut
<1> QED BY <1>1, <1>3, <1>4 DEF M!ChrifSaveAck


\* 0x3804, the last of the registries: the character is in play, with the data the
\* tables have.
LEMMA EnteredFollows ==
    ASSUME Typed, Kept, Ownership, MapStep, UNCHANGED <<client, latest, fromMap>>,
           M!FromCharServer("regs"), NEW m, m = Head(toMap), NEW a, a = m.acc,
           NEW c, c = mapAuth[a].char, M!LoggingIn(a),
           mapAuth' = M!IdbRemove(mapAuth, a),
           NEW player, pc' = M!IdbPut(pc, a, player),
           player.char = c, player.ver = mapAuth[a].ver
    PROVE  Follows
<1>1. /\ toMap # << >> /\ toMap' = Tail(toMap) /\ m.type = "regs"
      /\ ThinToMap /\ ThinFromMap /\ UNCHANGED sql
  BY MapStepStays, ThinTaken, ThinStill DEF M!FromCharServer
<1>2. m \in ToMapMsg
  BY <1>1, HeadGood
<1>3. /\ a \in DOMAIN mapAuth /\ a \in Account /\ c \in Char /\ Owner[c] = a
      /\ ~M!LoggingOut(a) /\ a \notin DOMAIN pc
  BY NodeData DEF M!LoggingIn, M!LoggingOut, Ownership, PlayingOrInAuthDb
<1>4. ~InPlay(c) /\ ~Left(c) /\ sql[c] = latest[c]
  BY <1>3 DEF InPlay, Left, Kept, Settled
<1>5. FreshNode(a)
  <2>1. m \in ToRegs(a)
    BY <1>1, <1>2 DEF ToRegs
  <2>2. ~Free(toMap, ToRegs(a))
    BY <1>1, <2>1, LinkTypes, TailQueue
  <2> QED BY <1>3, <2>2 DEF Kept, Nodes, Quiet
<1>6. player.ver = latest[c] /\ None(Closing(a))
  BY <1>5 DEF FreshNode
<1>7. /\ DOMAIN mapAuth' = DOMAIN mapAuth \ {a}
      /\ \A b \in DOMAIN mapAuth' : mapAuth'[b] = mapAuth[b]
      /\ DOMAIN pc' = DOMAIN pc \cup {a} /\ pc'[a] = player
      /\ \A b \in DOMAIN pc : pc'[b] = pc[b]
  BY <1>3 DEF M!IdbRemove, M!IdbPut
<1>8. /\ \A b : M!LoggingOut(b)' <=> M!LoggingOut(b)
      /\ \A b : M!LoggingIn(b)' => M!LoggingIn(b) /\ b # a
  BY <1>3, <1>7 DEF M!LoggingOut, M!LoggingIn
<1>9. ASSUME NEW X, NEW Y
      PROVE  (InOrder(X, Y) => InOrder(X, Y)') /\ (None(X) => None(X)')
  BY <1>1, LinkTypes, TailQueue DEF InOrder, None
<1>10. Order' /\ Rising'
  BY <1>8, <1>9 DEF Kept, Order, Rising, CloseFirst, OpenFirst
<1>11. Packets'
  <2>1. \A b, d : Closed(b, d) /\ b # a => Closed(b, d)'
    BY <1>7, <1>8 DEF Closed, M!LoggingOut
  <2>2. \A b : Busy(b) => Busy(b)'
    BY <1>7, <1>8 DEF Busy
  <2>3. BadFromMap' \subseteq BadFromMap \cup Closing(a)
    BY <1>1, <2>1 DEF BadFromMap, GoodFromMap, GoodSave, Closing
  <2>4. BadToMap' \subseteq BadToMap \cup Closing(a)
    BY <1>1, <2>1, <2>2 DEF BadToMap, GoodToMap, GoodAck, GoodData, Closing
  <2>5. /\ Free(toMap', BadToMap) /\ Free(fromMap', BadFromMap)
        /\ Free(toMap', Closing(a)) /\ Free(fromMap', Closing(a))
    BY <1>1, <1>6, LinkTypes, TailQueue DEF Kept, Packets, None
  <2> QED BY <2>3, <2>4, <2>5 DEF Packets, Free
<1>12. Nodes'
  <2> SUFFICES ASSUME NEW b \in DOMAIN mapAuth', M!LoggingIn(b)'
               PROVE  FreshNode(b)' \/ (Quiet(b) /\ mapAuth[b].regs = {})'
    BY DEF Nodes
  <2>1. /\ b \in DOMAIN mapAuth /\ mapAuth'[b] = mapAuth[b] /\ M!LoggingIn(b) /\ b \in Account
    BY <1>7, <1>8 DEF Typed, MapData, IsIdb
  <2>2. QuietKept
    BY <1>1, MapStepStays, ThinQuiet
  <2> QED BY <1>9, <2>1, <2>2 DEF Kept, Nodes, QuietKept, FreshNode
<1>13. Current' /\ OwnedData' /\ OwnedClients'
  <2>1. Current'
    BY <1>6, <1>7, <1>8 DEF Kept, Current, NoRollback, M!LoggingOut
  <2>2. OwnedData'
    BY <1>3, <1>7 DEF Kept, OwnedData
  <2> QED BY <2>1, <2>2, MapStepStays
<1>14. /\ InPlay(c)' /\ Held(c) = sql[c] /\ Held(c)' = sql[c]
       /\ \A d \in Char : /\ Left(d)' <=> Left(d)
                          /\ d # c => (InPlay(d)' <=> InPlay(d)) /\ Held(d)' = Held(d)
  <2>1. InPlay(c)' /\ Held(c) = sql[c]
    BY <1>3, <1>4, <1>7 DEF InPlay, Held
  <2>2. ASSUME NEW d \in Char PROVE Left(d)' <=> Left(d)
    BY <1>3, <1>7, <1>8 DEF Left, M!LoggingOut
  <2>3. Held(c)' = sql[c]
    BY <1>3, <1>4, <1>6, <1>7, <2>1 DEF Held
  <2>4. ASSUME NEW d \in Char, d # c
        PROVE  (InPlay(d)' <=> InPlay(d)) /\ Held(d)' = Held(d)
    <3>1. InPlay(d)' <=> InPlay(d)
      BY <1>3, <1>7, <2>4 DEF InPlay
    <3>2. InPlay(d) => pc'[Owner[d]] = pc[Owner[d]]
      BY <1>7 DEF InPlay
    <3>3. Left(d) => mapAuth'[Owner[d]] = mapAuth[Owner[d]]
      BY <1>3, <1>7, <1>8 DEF Left, M!LoggingOut
    <3> QED BY <1>1, <2>2, <3>1, <3>2, <3>3 DEF Held
  <2> QED BY <2>1, <2>2, <2>3, <2>4
<1>15. Settled'
  BY <1>1, <1>4, <1>14 DEF Kept, Settled
<1>16. LedgerStep
  <2>1. where[c] = "away" /\ held' = [held EXCEPT ![c] = sql[c]]
    BY <1>3, <1>4, <1>14 DEF where, held, Where
  <2>2. where' = [where EXCEPT ![c] = "inPlay"]
    BY <1>3, <1>14 DEF where, Where
  <2>3. Ledger!Enter(c)
    BY <1>1, <2>1, <2>2 DEF Ledger!Enter, where, held, Where, Held
  <2> QED BY <1>3, <2>3 DEF LedgerStep, Ledger!LedgerNext
<1> QED BY <1>10, <1>11, <1>12, <1>13, <1>15, <1>16 DEF Follows, Kept

\* 0x3804, one of the registries: its account is not quiet, so its node is fresh.
LEMMA RegistryFollows ==
    ASSUME Typed, Kept, MapStep, UNCHANGED <<client, latest, fromMap, pc>>,
           M!FromCharServer("regs"), NEW a, a = Head(toMap).acc, M!LoggingIn(a), NEW all,
           mapAuth' = [mapAuth EXCEPT ![a].regs = all]
    PROVE  Follows
<1>1. /\ toMap # << >> /\ toMap' = Tail(toMap) /\ Head(toMap).type = "regs"
      /\ ThinToMap /\ ThinFromMap /\ UNCHANGED sql
  BY MapStepStays, ThinTaken, ThinStill DEF M!FromCharServer
<1>2. FreshNode(a)
  <2>1. Head(toMap) \in ToMapMsg
    BY <1>1, HeadGood
  <2>2. Head(toMap) \in ToRegs(a)
    BY <1>1, <2>1 DEF ToRegs
  <2>3. ~Free(toMap, ToRegs(a))
    BY <1>1, <2>2, LinkTypes, TailQueue
  <2> QED BY <2>3 DEF Kept, Nodes, Quiet, M!LoggingIn
<1>3. /\ DOMAIN mapAuth' = DOMAIN mapAuth
      /\ \A b \in DOMAIN mapAuth \ {a} : mapAuth'[b] = mapAuth[b]
      /\ \A b \in DOMAIN mapAuth : /\ mapAuth'[b].char = mapAuth[b].char
                                   /\ mapAuth'[b].state = mapAuth[b].state
                                   /\ mapAuth'[b].ver = mapAuth[b].ver
  <2>1. mapAuth[a] \in M!AuthNode /\ a \in DOMAIN mapAuth
    BY EntryTyped DEF Typed, MapData, M!LoggingIn
  <2>2. mapAuth'[a] = [mapAuth[a] EXCEPT !.regs = all]
    BY <2>1
  <2> QED BY <2>1, <2>2 DEF M!AuthNode
<1>4. SameData
  BY <1>1, <1>3 DEF SameData, SamePlayers, SameLeft, M!LoggingOut
<1>5. OrderKept /\ QuietKept
  BY <1>1, <1>4, MapStepStays, ThinOrder, ThinQuiet
<1>6. \A b \in DOMAIN mapAuth' : Owner[mapAuth'[b].char] = b
  BY <1>3 DEF Kept, OwnedData
<1>7. Nodes'
  <2> SUFFICES ASSUME NEW b \in DOMAIN mapAuth', M!LoggingIn(b)'
               PROVE  FreshNode(b)' \/ (Quiet(b) /\ mapAuth[b].regs = {})'
    BY DEF Nodes
  <2>1. b \in DOMAIN mapAuth /\ M!LoggingIn(b) /\ b \in Account
    BY <1>3 DEF M!LoggingIn, Typed, MapData, IsIdb
  <2>2. FreshNode(b) => FreshNode(b)'
    BY <1>3, <1>5, <2>1 DEF FreshNode, OrderKept
  <2>3. CASE b = a
    BY <1>2, <2>2, <2>3
  <2>4. CASE b # a
    BY <1>3, <1>5, <2>1, <2>2, <2>4 DEF Kept, Nodes, QuietKept
  <2> QED BY <2>3, <2>4
<1> QED BY <1>4, <1>5, <1>6, <1>7, MapStepStays, DataKept, SameLedger DEF Follows

LEMMA ParseRegistersFollows ==
    ASSUME Typed, Kept, Ownership, MapStep, UNCHANGED client, M!IntifParseRegisters
    PROVE  Follows
<1>1. PICK m, a : m = Head(toMap) /\ a = m.acc
  OBVIOUS
<1>2. /\ M!FromCharServer("regs") /\ ThinToMap /\ UNCHANGED <<latest, fromMap, sql>>
  BY ThinTaken, MapStepStays DEF M!IntifParseRegisters
<1>3. CASE UNCHANGED <<mapAuth, pc>>
  BY <1>2, <1>3, MapStepStays, NodesStay, ThinStill, MapFollows
<1>4. CASE /\ M!AuthCheck(a, m.char, "login") /\ UNCHANGED pc
           /\ mapAuth' = [mapAuth EXCEPT ![a].regs = mapAuth[a].regs \cup {m.part}]
  <2>1. M!LoggingIn(a)
    BY <1>4 DEF M!AuthCheck, M!LoggingIn
  <2> QED BY <1>1, <1>2, <1>4, <2>1, RegistryFollows
<1>5. CASE /\ M!AuthCheck(a, m.char, "login") /\ mapAuth' = M!IdbRemove(mapAuth, a)
           /\ pc' = M!IdbPut(pc, a, [char |-> mapAuth[a].char, tok |-> mapAuth[a].tok,
                                     fd |-> mapAuth[a].fd, ver |-> mapAuth[a].ver])
  <2>1. M!LoggingIn(a)
    BY <1>5 DEF M!AuthCheck, M!LoggingIn
  <2>2. PICK player : player = [char |-> mapAuth[a].char, tok |-> mapAuth[a].tok,
                                fd |-> mapAuth[a].fd, ver |-> mapAuth[a].ver]
    OBVIOUS
  <2>3. player.char = mapAuth[a].char /\ player.ver = mapAuth[a].ver
    BY <2>2
  <2> QED BY <1>1, <1>2, <1>5, <2>1, <2>2, <2>3, EnteredFollows
<1> QED BY <1>1, <1>3, <1>4, <1>5 DEF M!IntifParseRegisters

LEMMA MapHandlesFollows ==
    ASSUME Typed, Kept, Ownership, MapHandles
    PROVE  Follows
BY MapHandlesCalmFollows, OnReadyFollows, AuthOkFollows, SaveAckFollows,
   ParseRegistersFollows DEF MapHandles

LEMMA MapTimersFollow ==
    ASSUME Typed, Kept, Ownership, MapTimers
    PROVE  Follows
BY QuitsFollow, AuthDbCleanupFollows DEF MapTimers

LEMMA MapPlaysFollows ==
    ASSUME Typed, Kept, Ownership, MapPlays
    PROVE  Follows
BY PlayFollows, AutoSaveFollows DEF MapPlays


-----------------------------------------------------------------------------
(* Clients, links and processes.                                           *)

\* Whoever takes the step, it leaves the data alone.
LEMMA CalmFollows ==
    ASSUME Typed, Kept, OwnedClients', UNCHANGED <<mapAuth, pc, latest, sql>>,
           ThinToMap, ThinFromMap, ThinToChar, ThinFromChar
    PROVE  Follows
BY NodesStay, CalmKept, SameLedger DEF Follows

LEMMA LeaveFollows ==
    ASSUME Typed, Kept, NEW t \in Token, Leave(t)
    PROVE  Follows
<1>1. OwnedClients'
  <2>1. /\ client \in [Token -> Client] /\ client[t].at # "none"
        /\ UNCHANGED charSess /\ DOMAIN charSess \subseteq Token
    BY DEF Leave, charVars, Typed, Clients, CharData, IsIdb
  <2>2. \A u \in Token : client'[u].acc = client[u].acc /\ client'[u].char = client[u].char
                         /\ client'[u].at = IF u = t THEN "gone" ELSE client[u].at
    BY <2>1 DEF Leave, MovesTo, Client
  <2> QED BY <2>1, <2>2 DEF Kept, OwnedClients
<1> QED BY <1>1, ThinStill, CalmFollows DEF Leave, charVars, mapVars

LEMMA ClientFollows ==
    ASSUME PromptRegistries, Typed, Kept, Ownership, NEW t \in Token,
           \/ ConnectChar(t) \/ SelectChar(t) \/ ConnectMap(t) \/ RequestCharSelect(t)
           \/ Leave(t) \/ ClosesConnection(t) \/ ServerCloses(t)
    PROVE  Follows
<1>1. CASE ConnectChar(t) \/ SelectChar(t) \/ ConnectMap(t) \/ RequestCharSelect(t) \/ Leave(t)
  BY <1>1, ConnectCharFollows, SelectCharFollows, ConnectMapFollows, RestartFollows,
     LeaveFollows
<1>2. CASE ClosesConnection(t)
  BY <1>2, CharEofFollows, MapEofFollows DEF ClosesConnection
<1>3. CASE ServerCloses(t)
  BY <1>3, CharEofFollows, QuitsFollow, MapEofFollows DEF ServerCloses
<1> QED BY <1>1, <1>2, <1>3

LEMMA ThinCut ==
    ASSUME NEW P
    PROVE  \A q : Thins(q, << >>, P)
<1>1. << >> \in Seq(P)
  OBVIOUS
<1> QED BY <1>1, ThinsOnly

LEMMA MapLinkFollows ==
    ASSUME Typed, Kept, MapLinkUp \/ MapLinkBreaks
    PROVE  Follows
<1>1. /\ UNCHANGED <<mapAuth, pc, latest, sql, charSess, client, toChar, fromChar>>
      /\ toMap' \in {toMap, << >>, <<[type |-> "connectAck"]>>}
      /\ fromMap' \in {fromMap, << >>}
  BY DEF MapLinkUp, MapLinkBreaks, M!ChrifConnect, M!ChrifLost, M!mapData,
         C!LoginMapServer, C!MapifOnDisconnect, C!charData, charVars, mapVars
<1>2. OwnedClients'
  BY <1>1, SessionsFewer, ClientsStay
<1>3. ThinToMap /\ ThinFromMap
  <2>1. <<[type |-> "connectAck"]>> \in Seq(PlainTo)
    BY DEF ToMapMsg, PlainTo
  <2> QED BY <1>1, <2>1, ThinsOnly, ThinsSame, ThinCut DEF ThinToMap, ThinFromMap
<1> QED BY <1>1, <1>2, <1>3, ThinStill, CalmFollows

LEMMA CharCrashFollows ==
    ASSUME Typed, Kept, CharCrash
    PROVE  Follows
<1>1. /\ UNCHANGED <<mapAuth, pc, latest, sql, client, toChar, fromChar, toMap>>
      /\ DOMAIN charSess' = {} /\ fromMap' = << >>
  BY DEF CharCrash, C!CharRestart, C!NoEntries, mapVars
<1>2. OwnedClients'
  BY <1>1, ClientsStay DEF SessionsStay
<1> QED BY <1>1, <1>2, ThinCut, ThinStill, CalmFollows DEF ThinFromMap

\* The map-server forgets all it knew.
LEMMA MapCrashFollows ==
    ASSUME Typed, Kept, MapCrash
    PROVE  Follows
<1>1. /\ UNCHANGED <<sql, charSess, client, toChar, fromChar>>
      /\ DOMAIN mapAuth' = {} /\ DOMAIN pc' = {} /\ latest' = sql
      /\ toMap' = << >> /\ fromMap' = << >>
  BY DEF MapCrash, M!MapRestart, M!NoEntries, charVars
<1>2. OwnedClients'
  BY <1>1, SessionsFewer, ClientsStay
<1>3. \A a : ~M!LoggingOut(a)' /\ ~M!LoggingIn(a)'
  BY <1>1 DEF M!LoggingOut, M!LoggingIn
<1>4. \A c \in Char : ~InPlay(c)' /\ ~Left(c)'
  BY <1>1, <1>3 DEF InPlay, Left
<1>5. sql \in [Char -> Nat]
  BY DEF Typed, CharData
<1>6. OwnedData' /\ Current' /\ Settled' /\ Nodes'
  BY <1>1, <1>3, <1>5 DEF OwnedData, Current, NoRollback, Settled, Nodes
<1>7. Packets' /\ Rising' /\ Order'
  BY <1>1, EmptyQueue
     DEF Packets, Rising, Order, OpenFirst, CloseFirst, InOrder
<1>8. LedgerStep
  <2>1. Ledger!Forget
    BY <1>1, <1>4, <1>5 DEF Ledger!Forget
  <2> QED BY <2>1 DEF LedgerStep, Ledger!LedgerNext
<1> QED BY <1>2, <1>6, <1>7, <1>8 DEF Follows, Kept

LEMMA ServersFollow ==
    ASSUME PromptRegistries, Typed, Kept, Ownership,
           \/ CharHandles \/ CharTimers \/ MapHandles \/ CharSelectAck
           \/ MapTimers \/ MapPlays \/ MapLinkUp \/ MapLinkBreaks \/ CharCrash \/ MapCrash
    PROVE  Follows
<1>1. CASE CharHandles
  BY <1>1, CharHandlesLoginFollows, CharHandlesMapFollows
     DEF CharHandles, CharHandlesLogin, CharHandlesMap
<1>2. CASE CharTimers
  BY <1>2, CharTimersFollows DEF CharTimers
<1> QED BY <1>1, <1>2, MapHandlesFollows, SelectAckFollows, MapTimersFollow, MapPlaysFollows,
           MapLinkFollows, CharCrashFollows, MapCrashFollows

LEMMA KeptStutters ==
    ASSUME Typed, Kept, UNCHANGED vars
    PROVE  Follows
BY SessionsFewer, ClientsStay, ThinStill, CalmFollows
   DEF vars, charVars, mapVars, loginVars


-----------------------------------------------------------------------------
(* The login-server, or whoever is in its place.                           *)

\* What is asked about the registries of a is answered.
LEMMA RegsAnswered ==
    ASSUME Typed, Kept, UNCHANGED <<mapVars, sql, charSess, client, toMap, fromMap>>,
           NEW m, fromChar[Self] # << >>, m = Head(fromChar[Self]), m.type = "reg2",
           fromChar'[Self] = Tail(fromChar[Self]), toChar'[Self] = toChar[Self] \o <<m>>
    PROVE  Follows
<1>1. PICK a : a = m.acc
  OBVIOUS
<1>2. m \in L!FromCharMsg
  BY LinkTypes
<1>3. m \in L!ToCharMsg /\ m \in ToLoginRegs(a) /\ m \in FromLoginRegs(a)
  BY <1>1, <1>2 DEF L!FromCharMsg, L!ToCharMsg, ToLoginRegs, FromLoginRegs
<1>4. ~Quiet(a)
  <2>1. ~Free(fromChar[Self], ToLoginRegs(a))
    BY <1>3, LinkTypes, TailQueue
  <2> QED BY <2>1 DEF Quiet
<1>5. Thins(fromChar[Self], fromChar'[Self], PlainToLogin \cup ToLoginRegs(a))
  BY LinkTypes, ThinsTail
<1>6. Thins(toChar[Self], toChar'[Self], PlainFromLogin \cup FromLoginRegs(a))
  <2>1. /\ <<m>> \in Seq(PlainFromLogin \cup FromLoginRegs(a))
        /\ PlainFromLogin \cup FromLoginRegs(a) \subseteq L!ToCharMsg
    BY <1>3 DEF PlainFromLogin, FromLoginRegs
  <2> QED BY <2>1, LinkTypes, ThinsJoin
<1> QED BY <1>4, <1>5, <1>6, ThinsSame, RegsFollow

LEMMA AnyLoginAnswersFollows ==
    ASSUME Typed, Kept, AnyLoginAnswers
    PROVE  Follows
<1>1. PICK m : m = Head(fromChar[Self])
  OBVIOUS
<1>2. /\ CharStep /\ UNCHANGED <<sql, charSess, client, toMap, fromMap, mapAuth, pc, latest>>
      /\ fromChar[Self] # << >> /\ fromChar'[Self] = Tail(fromChar[Self])
      /\ toChar'[Self] = toChar[Self] \o Answer(m)
  BY <1>1, LinkTypes
     DEF AnyLoginAnswers, Answered, CharStep, charVars, mapVars
<1>3. m \in L!FromCharMsg
  BY <1>1, <1>2, LinkTypes
<1>4. CASE m.type = "reg2"
  <2>1. Answer(m) = <<m>>
    BY <1>4 DEF Answer
  <2> QED BY <1>1, <1>2, <1>4, <2>1, RegsAnswered DEF CharStep
<1>5. CASE m.type # "reg2"
  <2>1. Answer(m) \in Seq(PlainFromLogin)
    <3> DEFINE x == [type |-> "authAck", acc |-> m.acc, tok |-> m.tok, req |-> m.req,
                     ok |-> TRUE]
    <3>1. CASE m.type = "auth"
      <4>1. x \in PlainFromLogin
        BY <1>3, <3>1 DEF L!FromCharMsg, L!ToCharMsg, PlainFromLogin
      <4>2. Answer(m) = <<x>>
        BY <3>1 DEF Answer
      <4> HIDE DEF x
      <4> QED BY <4>1, <4>2
    <3>2. CASE m.type # "auth"
      <4>1. Answer(m) = << >>
        BY <1>5, <3>2 DEF Answer
      <4> QED BY <4>1
    <3> QED BY <3>1, <3>2
  <2>2. ThinToChar
    BY <1>2, <2>1, LinkTypes, ThinsJoin DEF ThinToChar
  <2>3. ThinFromChar
    BY <1>2, LinkTypes, ThinsTail DEF ThinFromChar
  <2>4. OwnedClients'
    BY <1>2, SessionsFewer, ClientsStay
  <2> QED BY <1>2, <2>2, <2>3, <2>4, ThinStill, CalmFollows
<1> QED BY <1>4, <1>5

\* A client that was admitted had no session before.
LEMMA AdmittedFollows ==
    ASSUME Typed, Kept, NEW a \in Account, NEW t \in Token, client[t].at = "none",
           client' = [client EXCEPT ![t] = [at |-> "login", acc |-> a, char |-> NoChar]],
           UNCHANGED <<charVars, mapVars, toChar, fromChar, toMap, fromMap>>
    PROVE  Follows
<1>1. OwnedClients'
  <2>1. /\ client'[t].at = "login"
        /\ \A u \in Token : u # t => client'[u] = client[u]
    BY DEF Typed, Clients
  <2>2. UNCHANGED charSess /\ DOMAIN charSess \subseteq Token
    BY DEF charVars, Typed, CharData, IsIdb
  <2> QED BY <2>1, <2>2 DEF Kept, OwnedClients
<1> QED BY <1>1, ThinStill, CalmFollows DEF charVars, mapVars

\* The links to the login-server are cut, or bring a packet that says nothing of
\* registries.
LEMMA LoginLinksFollow ==
    ASSUME Typed, Kept, UNCHANGED <<sql, charSess, client, toMap, fromMap, mapVars>>,
           ThinToChar, ThinFromChar
    PROVE  Follows
BY SessionsFewer, ClientsStay, ThinStill, CalmFollows DEF mapVars

LEMMA AnyLoginActsFollow ==
    ASSUME Typed, Kept,
           AnyLoginAdmits \/ AnyLoginKicks \/ AnyLoginLinkUp \/ AnyLoginLinkBreaks
    PROVE  Follows
<1>1. CASE AnyLoginAdmits
  BY <1>1, AdmittedFollows DEF AnyLoginAdmits
<1>2. CASE AnyLoginKicks
  <2>1. PICK a \in Account :
           toChar' = [toChar EXCEPT ![Self] = <<[type |-> "kick", acc |-> a]>>]
    BY <1>2 DEF AnyLoginKicks
  <2>2. <<[type |-> "kick", acc |-> a]>> \in Seq(PlainFromLogin)
    BY DEF L!ToCharMsg, PlainFromLogin
  <2>3. ThinToChar
    BY <2>1, <2>2, LinkTypes, ThinsOnly DEF ThinToChar
  <2> QED BY <1>2, <2>3, ThinStill, LoginLinksFollow DEF AnyLoginKicks, charVars
<1>3. CASE AnyLoginLinkUp \/ AnyLoginLinkBreaks
  <2>1. /\ toChar'[Self] = << >> /\ fromChar'[Self] = << >>
        /\ UNCHANGED <<sql, charSess, client, toMap, fromMap, mapVars>>
    BY <1>3, LinkTypes
       DEF AnyLoginLinkUp, AnyLoginLinkBreaks, C!CharConnectsLogin, C!CharLoginLost,
           C!charData
  <2> QED BY <2>1, ThinCut, LoginLinksFollow DEF ThinToChar, ThinFromChar
<1> QED BY <1>1, <1>2, <1>3

-----------------------------------------------------------------------------
(* The login-server of the source.                                         *)

\* Who is logged in holds a session key, so no other client is given it.
Admitted == \A t \in Token : client[t].at # "none" => t \in issued

LEMMA InitAdmitted == Init => Admitted
BY DEF Init, Admitted

LEMMA ClientAdmitted ==
    ASSUME Typed, Admitted, UNCHANGED issued, NEW t \in Token, client[t].at # "none",
           \A u \in Token : u # t => client'[u].at = client[u].at
    PROVE  Admitted'
BY DEF Admitted

LEMMA NextAdmitted ==
    ASSUME Typed, Admitted, [Next]_vars
    PROVE  Admitted'
<1>0. client \in [Token -> Client]
  BY DEF Typed, Clients
<1>1. CASE UNCHANGED <<client, issued>>
  BY <1>1 DEF Admitted
<1>2. CASE \E a \in Account : LogIn(a)
  <2>1. PICK a \in Account : LogIn(a)
    BY <1>2
  <2>2. CASE (L!LoginRefused(a) \/ L!LoginNoCharServer(a)) /\ UNCHANGED client
    BY <1>1, <2>2 DEF L!LoginRefused, L!LoginNoCharServer, L!loginHistory
  <2>3. CASE \E t \in Token : L!LoginAccepted(a, t)
                 /\ client' = [client EXCEPT ![t] = [at |-> "login", acc |-> a,
                                                    char |-> NoChar]]
    BY <1>0, <2>3 DEF L!LoginAccepted, Admitted
  <2> QED BY <2>1, <2>2, <2>3 DEF LogIn
<1>3. CASE LoginHandles \/ LoginTimers
  BY <1>1, <1>3
     DEF LoginHandles, LoginTimers, L!FromChar, L!FromCharParseAuth,
         L!FromCharParseAccountOnline, L!FromCharParseAccountOffline,
         L!FromCharParseWrongPincode, L!FromCharParseOnlineAccounts,
         L!FromCharParseAllOffline, L!FromCharParseRequestAccountReg2,
         L!WaitingDisconnect, L!LoginOnlineDataCleanup, L!loginHistory
<1>4. CASE \E t \in Token : \/ ConnectChar(t) \/ SelectChar(t) \/ ConnectMap(t)
                            \/ RequestCharSelect(t) \/ Leave(t)
                            \/ ClosesConnection(t) \/ ServerCloses(t)
  <2>1. PICK t \in Token : \/ ConnectChar(t) \/ SelectChar(t) \/ ConnectMap(t)
                            \/ RequestCharSelect(t) \/ Leave(t)
                            \/ ClosesConnection(t) \/ ServerCloses(t)
    BY <1>4
  <2>2. UNCHANGED issued
    BY <2>1 DEF ConnectChar, SelectChar, ConnectMap, RequestCharSelect, Leave,
                ClosesConnection, ServerCloses, CharStep, MapStep, loginVars
  <2>3. CASE UNCHANGED client
    BY <1>1, <2>2, <2>3
  <2>4. CASE ConnectChar(t) \/ SelectChar(t) \/ ConnectMap(t) \/ Leave(t)
    <3>1. client[t].at # "none"
      BY <2>4 DEF ConnectChar, SelectChar, ConnectMap, Leave
    <3>2. \A u \in Token : u # t => client'[u].at = client[u].at
      BY <1>0, <2>4 DEF ConnectChar, SelectChar, ConnectMap, Leave, MovesTo
    <3> QED BY <2>2, <3>1, <3>2, ClientAdmitted
  <2> QED BY <2>1, <2>3, <2>4 DEF RequestCharSelect, ClosesConnection, ServerCloses
<1>5. CASE CharSelectAck
  <2>1. UNCHANGED issued
    BY <1>5 DEF CharSelectAck, MapStep, loginVars
  <2>2. \A u \in Token : client'[u].at # "none" => client[u].at # "none"
    BY <1>0, <1>5 DEF CharSelectAck
  <2> QED BY <2>1, <2>2 DEF Admitted
<1>6. CASE CharHandles \/ CharTimers
  BY <1>1, <1>6
     DEF CharHandles, CharHandlesLogin, CharHandlesMap, CharTimers, CharStep, loginVars
<1>7. CASE MapHandles \/ MapTimers \/ MapPlays
  BY <1>1, <1>7 DEF MapHandles, MapTimers, MapPlays, MapStep, loginVars
<1>8. CASE \/ LoginLinkUp \/ LoginLinkBreaks \/ MapLinkUp \/ MapLinkBreaks
          \/ CharCrash \/ MapCrash
  BY <1>1, <1>8
     DEF LoginLinkUp, LoginLinkBreaks, MapLinkUp, MapLinkBreaks, CharCrash, MapCrash,
         L!ParseRequestConnection, L!ChrifOnDisconnect, L!loginHistory, loginVars
<1>9. CASE UNCHANGED vars
  BY <1>1, <1>9 DEF vars, loginVars
<1> QED BY <1>2, <1>3, <1>4, <1>5, <1>6, <1>7, <1>8, <1>9 DEF Next, Handlers, Others

LEMMA LoginHandlesFollows ==
    ASSUME Typed, Kept, LoginHandles
    PROVE  Follows
<1>1. PICK m : m = Head(fromChar[Self])
  OBVIOUS
<1>2. /\ UNCHANGED <<sql, charSess, client, toMap, fromMap, mapVars>>
      /\ fromChar[Self] # << >> /\ fromChar'[Self] = Tail(fromChar[Self])
  BY LinkTypes
     DEF LoginHandles, LoginStep, charVars, L!FromChar, L!Receives, L!Skip,
         L!FromCharParseAuth, L!FromCharParseAccountOnline,
         L!FromCharParseAccountOffline, L!FromCharParseWrongPincode,
         L!FromCharParseOnlineAccounts, L!FromCharParseAllOffline,
         L!FromCharParseRequestAccountReg2
<1>3. m \in L!FromCharMsg
  BY <1>1, <1>2, LinkTypes
<1>4. ThinFromChar
  BY <1>2, LinkTypes, ThinsTail DEF ThinFromChar
<1>5. CASE L!FromCharParseRequestAccountReg2(Self)
  <2>1. m.type = "reg2" /\ toChar'[Self] = Append(toChar[Self], m)
    BY <1>1, <1>5, LinkTypes DEF L!FromCharParseRequestAccountReg2, L!Receives, L!Reply
  <2>2. toChar'[Self] = toChar[Self] \o <<m>>
    BY <1>3, <2>1, LinkTypes
  <2> QED BY <1>1, <1>2, <2>1, <2>2, RegsAnswered
<1>6. CASE L!FromCharParseAuth(Self)
  <2>1. m.type = "auth"
    BY <1>1, <1>6 DEF L!FromCharParseAuth, L!Receives
  <2>2. PICK ok \in BOOLEAN :
           toChar' = [toChar EXCEPT ![Self] =
              Append(@, [type |-> "authAck", acc |-> m.acc, tok |-> m.tok, req |-> m.req,
                         ok |-> ok])]
    BY <1>1, <1>6 DEF L!FromCharParseAuth, L!Reply
  <2> DEFINE x == [type |-> "authAck", acc |-> m.acc, tok |-> m.tok, req |-> m.req,
                   ok |-> ok]
  <2>3. x \in PlainFromLogin
    BY <1>3, <2>1 DEF L!FromCharMsg, L!ToCharMsg, PlainFromLogin
  <2>4. toChar'[Self] = Append(toChar[Self], x)
    BY <2>2, LinkTypes
  <2> HIDE DEF x
  <2>5. toChar'[Self] = toChar[Self] \o <<x>> /\ <<x>> \in Seq(PlainFromLogin)
    BY <2>3, <2>4, LinkTypes
  <2>6. ThinToChar
    BY <2>5, LinkTypes, ThinsJoin DEF ThinToChar
  <2> QED BY <1>2, <1>4, <2>6, LoginLinksFollow
<1>7. CASE UNCHANGED toChar
  BY <1>2, <1>4, <1>7, ThinStill, LoginLinksFollow
<1> QED BY <1>5, <1>6, <1>7
        DEF LoginHandles, L!FromChar, L!FromCharParseAccountOnline,
            L!FromCharParseAccountOffline, L!FromCharParseWrongPincode,
            L!FromCharParseOnlineAccounts, L!FromCharParseAllOffline

\* A refused client gets the one who plays the account kicked.
LEMMA LogInFollows ==
    ASSUME Typed, Kept, Admitted, NEW a \in Account, LogIn(a)
    PROVE  Follows
<1>1. UNCHANGED <<charVars, mapVars, toMap, fromMap>>
  BY DEF LogIn, LoginStep
<1>2. CASE L!LoginRefused(a) /\ UNCHANGED client
  <2> DEFINE x == [type |-> "kick", acc |-> a]
  <2>1. x \in PlainFromLogin
    BY DEF L!ToCharMsg, PlainFromLogin
  <2>2. toChar'[Self] = toChar[Self] \/ toChar'[Self] = Append(toChar[Self], x)
    BY <1>2, SelfAssumption DEF SelfAssumption, L!LoginRefused, L!SendAll
  <2> HIDE DEF x
  <2>3. /\ <<x>> \in Seq(PlainFromLogin)
        /\ toChar'[Self] = toChar[Self] \/ toChar'[Self] = toChar[Self] \o <<x>>
    BY <2>1, <2>2, LinkTypes
  <2>4. ThinToChar
    BY <2>3, LinkTypes, ThinsJoin, ThinsSame DEF ThinToChar
  <2>5. ThinFromChar
    BY <1>2, ThinStill DEF L!LoginRefused
  <2> QED BY <1>1, <1>2, <2>4, <2>5, LoginLinksFollow DEF charVars
<1>3. CASE L!LoginNoCharServer(a) /\ UNCHANGED client
  BY <1>1, <1>3, ThinStill, LoginLinksFollow DEF L!LoginNoCharServer, charVars
<1>4. CASE \E t \in Token : L!LoginAccepted(a, t)
               /\ client' = [client EXCEPT ![t] = [at |-> "login", acc |-> a,
                                                  char |-> NoChar]]
  <2>1. PICK t \in Token : L!LoginAccepted(a, t)
               /\ client' = [client EXCEPT ![t] = [at |-> "login", acc |-> a,
                                                  char |-> NoChar]]
    BY <1>4
  <2>2. client[t].at = "none" /\ UNCHANGED <<toChar, fromChar>>
    BY <2>1 DEF L!LoginAccepted, Admitted
  <2> QED BY <1>1, <2>1, <2>2, AdmittedFollows
<1> QED BY <1>2, <1>3, <1>4 DEF LogIn

LEMMA LoginLinkFollows ==
    ASSUME Typed, Kept, LoginTimers \/ LoginLinkUp \/ LoginLinkBreaks
    PROVE  Follows
<1>1. UNCHANGED <<sql, charSess, client, toMap, fromMap, mapVars>>
  BY DEF LoginTimers, LoginLinkUp, LoginLinkBreaks, LoginStep, charVars,
         C!CharConnectsLogin, C!CharLoginLost, C!charData
<1>2. /\ toChar'[Self] \in {toChar[Self], << >>, <<[type |-> "connected"]>>}
      /\ fromChar'[Self] \in {fromChar[Self], << >>}
  BY LinkTypes
     DEF LoginTimers, LoginLinkUp, LoginLinkBreaks, L!WaitingDisconnect,
         L!LoginOnlineDataCleanup, L!ParseRequestConnection, L!ChrifOnDisconnect
<1>3. <<[type |-> "connected"]>> \in Seq(PlainFromLogin)
  BY DEF L!ToCharMsg, PlainFromLogin
<1>4. ThinToChar
  BY <1>2, <1>3, LinkTypes, ThinsOnly, ThinCut, ThinsSame DEF ThinToChar
<1>5. ThinFromChar
  BY <1>2, ThinCut, ThinsSame DEF ThinFromChar
<1> QED BY <1>1, <1>4, <1>5, LoginLinksFollow

LEMMA NextFollows ==
    ASSUME PromptRegistries, Typed, Ownership, Admitted, Kept, [Next]_vars
    PROVE  Follows
<1>1. CASE UNCHANGED vars
  BY <1>1, KeptStutters
<1>2. CASE Handlers
  BY <1>2, LoginHandlesFollows, LoginLinkFollows, ServersFollow DEF Handlers
<1>3. CASE Others
  BY <1>3, LogInFollows, LoginLinkFollows, ClientFollows, ServersFollow DEF Others
<1> QED BY <1>1, <1>2, <1>3 DEF Next


-----------------------------------------------------------------------------
(* The theorems.                                                           *)

LEMMA InitKept == Init => Kept /\ Ledger!LedgerInit
<1> SUFFICES ASSUME Init PROVE Kept /\ Ledger!LedgerInit
  OBVIOUS
<1>1. /\ DOMAIN charSess = {} /\ DOMAIN pc = {} /\ DOMAIN mapAuth = {}
      /\ toMap = << >> /\ fromMap = << >>
      /\ \A c \in Char : sql[c] = 1 /\ latest[c] = 1
      /\ \A t \in Token : client[t].at = "none"
  BY SameNone DEF Init, C!CharInit, M!MapInit, NoEntries
<1>2. \A c \in Char : ~InPlay(c) /\ ~Left(c)
  BY <1>1 DEF InPlay, Left, M!LoggingOut
<1>3. OwnedData /\ OwnedClients /\ Current /\ Settled /\ Nodes
  BY <1>1 DEF OwnedData, OwnedClients, Current, NoRollback, Settled, Nodes
<1>4. Packets /\ Rising /\ Order
  BY <1>1, EmptyQueue DEF Packets, Rising, Order, OpenFirst, CloseFirst, InOrder
<1>5. Ledger!LedgerInit
  BY <1>1, <1>2 DEF Ledger!LedgerInit, Init
<1> QED BY <1>3, <1>4, <1>5 DEF Kept

LEMMA AnyLoginFollows ==
    ASSUME PromptRegistries, Typed, Ownership, Kept, [AnyLoginNext]_vars
    PROVE  Follows
<1>1. CASE UNCHANGED vars
  BY <1>1, KeptStutters
<1> QED BY <1>1, AnyLoginAnswersFollows, AnyLoginActsFollow, ClientFollows, ServersFollow
        DEF AnyLoginNext

LEMMA AlwaysKept == PromptRegistries => (AnyLoginSpec => [](Typed /\ Kept))
<1> SUFFICES ASSUME PromptRegistries PROVE AnyLoginSpec => [](Typed /\ Kept)
  OBVIOUS
<1>1. Init => Typed /\ Ownership /\ Kept
  BY InitTyped, InitOwnership, InitKept
<1>2. (Typed /\ Ownership /\ Kept) /\ [AnyLoginNext]_vars => (Typed /\ Ownership /\ Kept)'
  BY AnyLoginNextTyped, AnyLoginNextOwnership, AnyLoginFollows DEF Follows
<1> QED BY <1>1, <1>2, PTL DEF AnyLoginSpec

\* No character in play ever has older data than was made before: whichever links
\* break, whenever the servers die and whatever the login-server does, a save is never
\* overtaken by an older one, nor a login by a save of the session before it, as long as
\* a client comes to the map-server only after the registries its account asked for
\* earlier arrived (chrif_save, chrif_authok, char_parse_frommap_save_character).
THEOREM DataIsNotSetBack == PromptRegistries => (AnyLoginSpec => []NoRollback)
<1> SUFFICES ASSUME PromptRegistries PROVE AnyLoginSpec => []NoRollback
  OBVIOUS
<1>1. Typed /\ Kept => NoRollback
  BY KeptImplies
<1> QED BY <1>1, AlwaysKept, PTL

\* What was made of a character is in play, or kept by the map-server until the tables
\* have it, under the same conditions (chrif_save, chrif_save_ack, auth_db_cleanup).
THEOREM DataIsNotLost == PromptRegistries => (AnyLoginSpec => []NothingLost)
<1> SUFFICES ASSUME PromptRegistries PROVE AnyLoginSpec => []NothingLost
  OBVIOUS
<1>1. Typed /\ Kept => NothingLost
  BY KeptImplies
<1> QED BY <1>1, AlwaysKept, PTL

\* The char-server and the map-server keep the promise of CharacterLedger: every step
\* of theirs enters, changes, saves, quits, settles or forgets a character, or is none
\* of the ledger's.
THEOREM LedgerIsKept == PromptRegistries => (AnyLoginSpec => KeepsLedger)
<1> SUFFICES ASSUME PromptRegistries PROVE AnyLoginSpec => KeepsLedger
  OBVIOUS
<1>1. Init => Typed /\ Ownership /\ Kept /\ Ledger!LedgerInit
  BY InitTyped, InitOwnership, InitKept
<1>2. (Typed /\ Ownership /\ Kept) /\ [AnyLoginNext]_vars
         => (Typed /\ Ownership /\ Kept)' /\ [Ledger!LedgerNext]_Ledger!ledger
  BY AnyLoginNextTyped, AnyLoginNextOwnership, AnyLoginFollows, LedgerStepIs DEF Follows
<1> QED BY <1>1, <1>2, PTL DEF AnyLoginSpec, KeepsLedger, Ledger!LedgerSpec

\* The same in the system of the three servers, where the login-server is that of the
\* source (login_auth_ok, login_parse_fromchar).
THEOREM ThreeServersKeepTheLedger ==
    PromptRegistries => (Spec => [](NoRollback /\ NothingLost) /\ KeepsLedger)
<1> SUFFICES ASSUME PromptRegistries
             PROVE  Spec => [](NoRollback /\ NothingLost) /\ KeepsLedger
  OBVIOUS
<1>1. Init => (Typed /\ Ownership /\ Admitted /\ Kept) /\ Ledger!LedgerInit
  BY InitTyped, InitOwnership, InitAdmitted, InitKept
<1>2. (Typed /\ Ownership /\ Admitted /\ Kept) /\ [Next]_vars
         => (Typed /\ Ownership /\ Admitted /\ Kept)' /\ [Ledger!LedgerNext]_Ledger!ledger
  BY NextTyped, NextOwnership, NextAdmitted, NextFollows, LedgerStepIs DEF Follows
<1>3. Typed /\ Ownership /\ Admitted /\ Kept => NoRollback /\ NothingLost
  BY KeptImplies
<1> QED BY <1>1, <1>2, <1>3, PTL DEF Spec, KeepsLedger, Ledger!LedgerSpec

=============================================================================
