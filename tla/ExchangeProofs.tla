--------------------------- MODULE ExchangeProofs ---------------------------
(***************************************************************************)
(* Theorems about who trades with whom, for every set of players, items    *)
(* and slots, every limit and every setup: partners agree that they trade, *)
(* and nobody has two exchanges open at a time; first among the exchanges  *)
(* alone, then beside the mail, then beside the auctions as well.  About   *)
(* what the map-server knows of letters: the copy of an inbox is in sync   *)
(* with the char-server's table, with and without auctions.  And type      *)
(* correctness of the exchanges: that no handler takes more than there is, *)
(* or gives more than fits, rests on what it tests before it moves         *)
(* anything, and on what stays true until it does: a player's slots are    *)
(* tidy, and the wants of a buying store have distinct names.              *)
(***************************************************************************)
EXTENDS Auction, FoldTheorems

\* What of a player's session data these theorems are about.
IsSd(r) == {"partner", "trading", "locked", "vending", "buying", "storage"} \subseteq DOMAIN r

Flags(r) ==
    /\ r.partner \in Player \union {NoPlayer}
    /\ r.trading \in BOOLEAN /\ r.vending \in BOOLEAN
    /\ r.buying \in BOOLEAN /\ r.storage \in BOOLEAN

Shaped(st) ==
    /\ DOMAIN st = Player
    /\ \A p \in Player : IsSd(st[p]) /\ Flags(st[p])

\* PartnersAgree and OneExchangeAtATime, of the session data st.
Agree(st) ==
    \A p \in Player :
        /\ st[p].trading => st[p].partner # NoPlayer
        /\ st[p].locked # 0 => st[p].trading
        /\ st[p].partner # NoPlayer =>
             /\ st[st[p].partner].partner = p
             /\ st[st[p].partner].trading = st[p].trading

OneOpen(r) == (r.trading => FreeToTrade(r)) /\ ~(r.vending /\ r.buying)

\* The inductive invariant.
Honest ==
    /\ Shaped(sd)
    /\ strayed = {} => Agree(sd)
    /\ \A p \in Player : OneOpen(sd[p])

\* What a handler that makes new of st has to show.
Keeps(new, st) ==
    /\ Shaped(new)
    /\ Agree(st) => Agree(new)
    /\ \A p \in Player : OneOpen(new[p])

LEMMA HandlerKeeps ==
    ASSUME Honest, Keeps(sd', sd), strayed' = strayed
    PROVE  Honest'
BY DEF Honest, Keeps

LEMMA KeepsTwice ==
    ASSUME NEW st, NEW mid, NEW new, Keeps(mid, st), Keeps(new, mid)
    PROVE  Keeps(new, st)
BY DEF Keeps

-----------------------------------------------------------------------------
(* What the handlers are made of. *)

\* r is old but for what these theorems are not about; the lock of a trade
\* that is on may change.
SameTrade(r, old) ==
    /\ IsSd(r)
    /\ r.partner = old.partner /\ r.trading = old.trading
    /\ r.locked = old.locked \/ r.trading

SameOpen(r, old) ==
    r.vending = old.vending /\ r.buying = old.buying /\ r.storage = old.storage

SameSession(r, old) == SameTrade(r, old) /\ SameOpen(r, old)

\* A trade ends: nothing of it is left.
LEMMA Ended ==
    ASSUME NEW r, IsSd(r)
    PROVE  LET e == TradeEnd(r)
           IN  /\ IsSd(e) /\ SameOpen(e, r)
               /\ e.partner = NoPlayer /\ e.trading = FALSE /\ e.locked = 0
BY DEF TradeEnd, IsSd, SameOpen

\* No player's trade changes.
LEMMA TradesStay ==
    ASSUME NEW st, Shaped(st), NEW new, DOMAIN new = Player,
           \A x \in Player : SameTrade(new[x], st[x]) /\ Flags(new[x]) /\ OneOpen(new[x])
    PROVE  Keeps(new, st)
<1>1. ASSUME Agree(st) PROVE Agree(new)
  <2> SUFFICES ASSUME NEW x \in Player
               PROVE  /\ new[x].trading => new[x].partner # NoPlayer
                      /\ new[x].locked # 0 => new[x].trading
                      /\ new[x].partner # NoPlayer =>
                           /\ new[new[x].partner].partner = x
                           /\ new[new[x].partner].trading = new[x].trading
    BY DEF Agree
  <2>1. st[x].partner # NoPlayer => st[x].partner \in Player
    BY DEF Shaped, Flags
  <2> QED BY <1>1, <2>1 DEF Agree, SameTrade
<1> QED BY <1>1 DEF Keeps, Shaped, SameTrade

\* One player's session data change, not its trade.
LEMMA OneChanges ==
    ASSUME NEW st, Shaped(st), \A x \in Player : OneOpen(st[x]),
           NEW p \in Player, NEW r, SameTrade(r, st[p]), Flags(r), OneOpen(r)
    PROVE  Keeps([st EXCEPT ![p] = r], st)
<1> DEFINE new == [st EXCEPT ![p] = r]
<1>1. /\ DOMAIN new = Player
      /\ new[p] = r
      /\ \A x \in Player \ {p} : new[x] = st[x]
  BY DEF Shaped
<1> HIDE DEF new
<1>2. ASSUME NEW x \in Player
      PROVE  SameTrade(new[x], st[x]) /\ Flags(new[x]) /\ OneOpen(new[x])
  <2>1. CASE x = p
    BY <1>1, <2>1
  <2>2. CASE x # p
    BY <1>1, <2>2 DEF Shaped, SameTrade
  <2> QED BY <2>1, <2>2
<1>3. Keeps(new, st)
  BY <1>1, <1>2, TradesStay
<1> QED BY <1>3 DEF new

LEMMA SameFlags ==
    ASSUME NEW old, NEW r, SameSession(r, old), Flags(old), OneOpen(old)
    PROVE  Flags(r) /\ OneOpen(r)
BY DEF SameSession, SameTrade, SameOpen, Flags, OneOpen, FreeToTrade

LEMMA AllSame ==
    ASSUME NEW st, Shaped(st), \A x \in Player : OneOpen(st[x]), NEW new, DOMAIN new = Player,
           \A x \in Player : SameSession(new[x], st[x])
    PROVE  Keeps(new, st)
BY SameFlags, TradesStay DEF Shaped, SameSession

\* Two players that trade with each other, or with nobody, end it.
LEMMA PairEnds ==
    ASSUME NEW st, Shaped(st), \A x \in Player : OneOpen(st[x]),
           NEW p \in Player, NEW t \in Player, st[p].partner = t,
           NEW new, DOMAIN new = Player,
           \A x \in Player \ {p, t} : new[x] = st[x],
           \A x \in {p, t} : /\ IsSd(new[x]) /\ SameOpen(new[x], st[x])
                             /\ new[x].partner = NoPlayer
                             /\ new[x].trading = FALSE /\ new[x].locked = 0
    PROVE  Keeps(new, st)
<1>1. ASSUME NEW x \in Player
      PROVE  IsSd(new[x]) /\ Flags(new[x]) /\ OneOpen(new[x])
  <2>1. CASE x \in {p, t}
    BY <2>1 DEF Flags, OneOpen, FreeToTrade, SameOpen, Shaped
  <2>2. CASE x \notin {p, t}
    BY <2>2 DEF Shaped
  <2> QED BY <2>1, <2>2
<1>2. ASSUME Agree(st) PROVE Agree(new)
  <2> SUFFICES ASSUME NEW x \in Player
               PROVE  /\ new[x].trading => new[x].partner # NoPlayer
                      /\ new[x].locked # 0 => new[x].trading
                      /\ new[x].partner # NoPlayer =>
                           /\ new[new[x].partner].partner = x
                           /\ new[new[x].partner].trading = new[x].trading
    BY DEF Agree
  <2>1. CASE x \in {p, t}
    BY <2>1
  <2>2. CASE x \notin {p, t}
    <3>1. st[x].partner # NoPlayer => st[x].partner \in Player \ {p, t}
      BY <1>2, <2>2, NoPlayerAssumption DEF Agree, Shaped, Flags
    <3> QED BY <1>2, <2>2, <3>1 DEF Agree
  <2> QED BY <2>1, <2>2
<1> QED BY <1>1, <1>2 DEF Keeps, Shaped

\* A trade is cancelled: for both sides, whatever its stage.
LEMMA Cancelled ==
    ASSUME NEW st, Shaped(st), \A x \in Player : OneOpen(st[x]), NEW p \in Player
    PROVE  /\ Keeps(TradeCancelled(st, p), st)
           /\ TradeCancelled(st, p)[p].partner = NoPlayer
           /\ ~TradeCancelled(st, p)[p].trading
           /\ Agree(st) => TradeCancelled(st, p)[p].locked = 0
           /\ \A x \in Player : SameOpen(TradeCancelled(st, p)[x], st[x])
<1> DEFINE new == TradeCancelled(st, p)
           pair == {p, st[p].partner}
<1>1. DOMAIN new = Player /\ \A x \in Player \ pair : new[x] = st[x]
  BY DEF TradeCancelled
<1>2. ASSUME NEW x \in Player, x \in pair
      PROVE  /\ IsSd(new[x])
             /\ new[x].partner = NoPlayer
             /\ new[x].trading = (IF st[p].trading THEN FALSE ELSE st[x].trading)
             /\ new[x].locked = (IF st[p].trading THEN 0 ELSE st[x].locked)
             /\ SameOpen(new[x], st[x])
  <2>1. IsSd(st[x]) /\ Flags(st[p])
    BY DEF Shaped
  <2>2. CASE st[p].trading
    <3>1. new[x] = TradeEnd(st[x])
      BY <1>2, <2>2 DEF TradeCancelled
    <3> HIDE DEF new
    <3> QED BY <2>1, <2>2, <3>1, Ended
  <2>3. CASE ~st[p].trading
    <3>1. new[x] = [st[x] EXCEPT !.partner = NoPlayer]
      BY <1>2, <2>3 DEF TradeCancelled
    <3> HIDE DEF new
    <3> QED BY <2>1, <2>3, <3>1 DEF IsSd, SameOpen
  <2> QED BY <2>2, <2>3
<1> HIDE DEF new
<1>3. ASSUME NEW x \in Player
      PROVE  IsSd(new[x]) /\ SameOpen(new[x], st[x]) /\ Flags(new[x]) /\ OneOpen(new[x])
  <2>1. CASE x \in pair
    BY <1>2, <2>1 DEF Flags, OneOpen, FreeToTrade, SameOpen, Shaped
  <2>2. CASE x \notin pair
    BY <1>1, <2>2 DEF Flags, OneOpen, FreeToTrade, SameOpen, Shaped
  <2> QED BY <2>1, <2>2
<1>4. ASSUME Agree(st) PROVE Agree(new)
  <2> SUFFICES ASSUME NEW x \in Player
               PROVE  /\ new[x].trading => new[x].partner # NoPlayer
                      /\ new[x].locked # 0 => new[x].trading
                      /\ new[x].partner # NoPlayer =>
                           /\ new[new[x].partner].partner = x
                           /\ new[new[x].partner].trading = new[x].trading
    BY DEF Agree
  <2>1. /\ st[x].partner \in Player \union {NoPlayer} /\ st[x].trading \in BOOLEAN
        /\ st[p].partner \in Player \union {NoPlayer} /\ st[p].trading \in BOOLEAN
    BY DEF Shaped, Flags
  <2>2. CASE x \in pair
    <3>1. st[x].trading = st[p].trading
      BY <1>4, <2>1, <2>2, NoPlayerAssumption DEF Agree
    <3> QED BY <1>2, <1>4, <2>1, <2>2, <3>1 DEF Agree
  <2>3. CASE x \notin pair
    <3>1. st[x].partner # NoPlayer => st[x].partner \in Player \ pair
      BY <1>4, <2>1, <2>3, NoPlayerAssumption DEF Agree
    <3> QED BY <1>1, <1>4, <2>1, <2>3, <3>1 DEF Agree
  <2> QED BY <2>2, <2>3
<1>5. Keeps(new, st)
  BY <1>1, <1>3, <1>4 DEF Keeps, Shaped
<1>6. /\ new[p].partner = NoPlayer /\ ~new[p].trading
      /\ Agree(st) => new[p].locked = 0
  BY <1>2 DEF Agree
<1> QED BY <1>3, <1>5, <1>6 DEF new

\* A player leaves the map: no trade is left.
LEMMA MapLeft ==
    ASSUME NEW st, Shaped(st), \A x \in Player : OneOpen(st[x]), NEW p \in Player
    PROVE  /\ Keeps(LeftMap(st, p), st)
           /\ LeftMap(st, p)[p].partner = NoPlayer
           /\ Agree(st) => ~LeftMap(st, p)[p].trading /\ LeftMap(st, p)[p].locked = 0
<1> DEFINE rest == IF st[p].partner # NoPlayer THEN TradeCancelled(st, p) ELSE st
           r == [rest[p] EXCEPT !.chat = FALSE, !.storage = FALSE,
                                !.buying = FALSE, !.limit = 0, !.wants = << >>,
                                !.slots = IF rest[p].buying THEN FALSE ELSE @]
<1>1. LeftMap(st, p) = [rest EXCEPT ![p] = r]
  BY DEF LeftMap
<1>2. /\ Keeps(rest, st) /\ rest[p].partner = NoPlayer
      /\ Agree(st) => ~rest[p].trading /\ rest[p].locked = 0
  <2>1. CASE st[p].partner # NoPlayer
    BY <2>1, Cancelled
  <2>2. CASE st[p].partner = NoPlayer
    BY <2>2 DEF Keeps, Agree
  <2> QED BY <2>1, <2>2
<1> HIDE DEF rest
<1>3. IsSd(rest[p]) /\ Flags(rest[p]) /\ OneOpen(rest[p]) /\ p \in DOMAIN rest
  BY <1>2 DEF Keeps, Shaped
<1>4. /\ SameTrade(r, rest[p]) /\ r.vending = rest[p].vending
      /\ r.storage = FALSE /\ r.buying = FALSE
  BY <1>3 DEF IsSd, SameTrade
<1> HIDE DEF r
<1>5. Flags(r) /\ OneOpen(r)
  BY <1>3, <1>4 DEF SameTrade, Flags, OneOpen, FreeToTrade
<1>6. Keeps([rest EXCEPT ![p] = r], rest)
  BY <1>2, <1>4, <1>5, OneChanges DEF Keeps
<1>7. Keeps(LeftMap(st, p), st)
  BY <1>1, <1>2, <1>6, KeepsTwice
<1>8. LeftMap(st, p)[p] = r
  BY <1>1, <1>3
<1> QED BY <1>2, <1>4, <1>7, <1>8 DEF SameTrade, Keeps

\* A player leaves the game.
LEMMA HasQuit ==
    ASSUME NEW st, Shaped(st), \A x \in Player : OneOpen(st[x]), NEW p \in Player
    PROVE  Keeps(Quit(st, p), st)
<1> DEFINE left == LeftMap(st, p)
           r == FreshSd(left[p].inv, left[p].cart, left[p].store, left[p].zeny)
           new == [left EXCEPT ![p] = r]
<1>1. Quit(st, p) = new
  BY DEF Quit
<1>2. /\ Keeps(left, st) /\ left[p].partner = NoPlayer
      /\ Agree(st) => ~left[p].trading /\ left[p].locked = 0
  BY MapLeft
<1>3. /\ IsSd(r) /\ Flags(r) /\ OneOpen(r)
      /\ r.partner = NoPlayer /\ r.trading = FALSE /\ r.locked = 0
  <2> HIDE DEF left
  <2> QED BY DEF FreshSd, IsSd, Flags, OneOpen, FreeToTrade
<1> HIDE DEF left, r
<1>4. DOMAIN new = Player /\ new[p] = r /\ \A x \in Player \ {p} : new[x] = left[x]
  BY <1>2 DEF Keeps, Shaped
<1> HIDE DEF new
<1>5. ASSUME NEW x \in Player PROVE IsSd(new[x]) /\ Flags(new[x]) /\ OneOpen(new[x])
  <2>1. CASE x = p
    BY <1>3, <1>4, <2>1
  <2>2. CASE x # p
    BY <1>2, <1>4, <2>2 DEF Keeps, Shaped
  <2> QED BY <2>1, <2>2
<1>6. ASSUME Agree(st) PROVE Agree(new)
  <2>1. \A x \in Player : /\ new[x].partner = left[x].partner
                          /\ new[x].trading = left[x].trading
                          /\ new[x].locked = left[x].locked
    <3>1. left[p].trading = FALSE
      BY <1>2, <1>6 DEF Keeps, Shaped, Flags
    <3> QED BY <1>2, <1>3, <1>4, <1>6, <3>1
  <2>2. Agree(left) /\ \A x \in Player : left[x].partner \in Player \union {NoPlayer}
    BY <1>2, <1>6 DEF Keeps, Shaped, Flags
  <2> QED BY <2>1, <2>2, NoPlayerAssumption DEF Agree
<1> QED BY <1>1, <1>4, <1>5, <1>6 DEF Keeps, Shaped

-----------------------------------------------------------------------------
(* The handlers. *)

LEMMA HonestAtInit == Init => Honest
<1> SUFFICES ASSUME Init PROVE Honest
  OBVIOUS
<1>1. PICK s \in Setups :
        sd = [p \in Player |-> FreshSd(s.inv[p], s.cart[p], [i \in Item |-> 0], s.zeny[p])]
  BY DEF Init, InitWith
<1>2. DOMAIN sd = Player
  BY <1>1
<1>3. ASSUME NEW p \in Player
      PROVE  /\ IsSd(sd[p]) /\ Flags(sd[p]) /\ OneOpen(sd[p])
             /\ sd[p].partner = NoPlayer /\ sd[p].trading = FALSE /\ sd[p].locked = 0
  <2>1. sd[p] = FreshSd(s.inv[p], s.cart[p], [i \in Item |-> 0], s.zeny[p])
    BY <1>1
  <2> QED BY <2>1 DEF FreshSd, IsSd, Flags, OneOpen, FreeToTrade
<1> QED BY <1>2, <1>3 DEF Honest, Shaped, Agree

\* One player's session data change, not its trade.
LEMMA FlagsChange ==
    ASSUME Honest, NEW p \in Player, NEW r, SameTrade(r, sd[p]), Flags(r), OneOpen(r),
           Changes(p, r), strayed' = strayed
    PROVE  Honest'
<1>1. Keeps([sd EXCEPT ![p] = r], sd)
  BY OneChanges DEF Honest
<1> QED BY <1>1, HandlerKeeps DEF Changes

\* Nor what else it has open.
LEMMA DataChange ==
    ASSUME Honest, NEW p \in Player, NEW r, SameSession(r, sd[p]),
           Changes(p, r), strayed' = strayed
    PROVE  Honest'
<1>1. Flags(r) /\ OneOpen(r)
  BY SameFlags DEF Honest, Shaped
<1> QED BY <1>1, FlagsChange DEF SameSession

LEMMA TradeRequestHonest ==
    ASSUME Honest, NEW p \in Player, NEW t \in Player, NEW near, TradeRequest(p, t, near)
    PROVE  Honest'
<1> DEFINE q == sd[p].partner
           left == [x \in Player |-> IF x \in {p, q}
                                     THEN [sd[x] EXCEPT !.partner = NoPlayer] ELSE sd[x]]
           pairs == left[t].partner = NoPlayer /\ near
           joined == [left EXCEPT ![p].partner = t, ![t].partner = p]
<1>1. sd' = IF pairs THEN joined ELSE left
  BY DEF TradeRequest
<1>2. p # t /\ strayed' = IF sd[p].trading THEN strayed \union {p} ELSE strayed
  BY DEF TradeRequest
<1>3. ASSUME NEW x \in Player
      PROVE  /\ IsSd(left[x]) /\ SameOpen(left[x], sd[x])
             /\ left[x].partner = (IF x \in {p, q} THEN NoPlayer ELSE sd[x].partner)
             /\ left[x].trading = sd[x].trading /\ left[x].locked = sd[x].locked
  <2>1. IsSd(sd[x])
    BY DEF Honest, Shaped
  <2>2. left[x] = IF x \in {p, q} THEN [sd[x] EXCEPT !.partner = NoPlayer] ELSE sd[x]
    OBVIOUS
  <2> HIDE DEF left
  <2> QED BY <2>1, <2>2 DEF IsSd, SameOpen
<1>4. DOMAIN left = Player
  OBVIOUS
<1> HIDE DEF left, q
<1>5. ASSUME NEW x \in Player
      PROVE  /\ IsSd(sd'[x]) /\ SameOpen(sd'[x], sd[x])
             /\ sd'[x].partner = (IF pairs /\ x = p THEN t ELSE IF pairs /\ x = t THEN p
                                  ELSE left[x].partner)
             /\ sd'[x].trading = sd[x].trading /\ sd'[x].locked = sd[x].locked
  <2>1. CASE pairs
    <3>1. joined[x] = IF x = t THEN [left[t] EXCEPT !.partner = p]
                      ELSE IF x = p THEN [left[p] EXCEPT !.partner = t] ELSE left[x]
      BY <1>2, <1>4
    <3> QED BY <1>1, <1>2, <1>3, <2>1, <3>1 DEF IsSd, SameOpen
  <2>2. CASE ~pairs
    BY <1>1, <1>3, <2>2
  <2> QED BY <2>1, <2>2
<1>6. DOMAIN sd' = Player
  BY <1>1, <1>4
<1> HIDE DEF pairs, joined
<1>7. ASSUME NEW x \in Player PROVE Flags(sd'[x]) /\ OneOpen(sd'[x])
  BY <1>3, <1>5 DEF Honest, Shaped, Flags, OneOpen, FreeToTrade, SameOpen
<1>8. ASSUME strayed' = {} PROVE Agree(sd')
  <2>1. Agree(sd) /\ ~sd[p].trading
    BY <1>2, <1>8 DEF Honest
  <2>2. \A x \in Player : sd[x].partner \in Player \union {NoPlayer} /\ sd[x].trading \in BOOLEAN
    BY DEF Honest, Shaped, Flags
  <2>3. Agree(left)
    <3> SUFFICES ASSUME NEW x \in Player
                 PROVE  /\ left[x].trading => left[x].partner # NoPlayer
                        /\ left[x].locked # 0 => left[x].trading
                        /\ left[x].partner # NoPlayer =>
                             /\ left[left[x].partner].partner = x
                             /\ left[left[x].partner].trading = left[x].trading
      BY DEF Agree
    <3>1. CASE x \in {p, q}
      <4>1. sd[x].trading = FALSE /\ sd[x].locked = 0
        BY <2>1, <2>2, <3>1, NoPlayerAssumption DEF Agree, q
      <4> QED BY <1>3, <3>1, <4>1
    <3>2. CASE x \notin {p, q}
      <4>1. sd[x].partner # NoPlayer => sd[x].partner \in Player \ {p, q}
        BY <2>1, <2>2, <3>2, NoPlayerAssumption DEF Agree, q
      <4> QED BY <1>3, <2>1, <3>2, <4>1 DEF Agree
    <3> QED BY <3>1, <3>2
  <2>4. CASE pairs
    <3>1. left[p].partner = NoPlayer /\ left[t].partner = NoPlayer
      BY <1>3, <2>4 DEF pairs
    <3>2. left[p].trading = FALSE /\ left[t].trading = FALSE
      BY <1>3, <2>2, <2>3, <3>1 DEF Agree
    <3> SUFFICES ASSUME NEW x \in Player
                 PROVE  /\ sd'[x].trading => sd'[x].partner # NoPlayer
                        /\ sd'[x].locked # 0 => sd'[x].trading
                        /\ sd'[x].partner # NoPlayer =>
                             /\ sd'[sd'[x].partner].partner = x
                             /\ sd'[sd'[x].partner].trading = sd'[x].trading
      BY DEF Agree
    <3>3. CASE x \in {p, t}
      <4>1. left[p].locked = 0 /\ left[t].locked = 0
        BY <2>3, <3>2 DEF Agree
      <4>2. /\ sd'[p].partner = t /\ sd'[p].trading = FALSE /\ sd'[p].locked = 0
            /\ sd'[t].partner = p /\ sd'[t].trading = FALSE /\ sd'[t].locked = 0
        BY <1>2, <1>3, <1>5, <2>4, <3>2, <4>1
      <4> QED BY <3>3, <4>2
    <3>4. CASE x \notin {p, t}
      <4>1. left[x].partner # NoPlayer => left[x].partner \in Player \ {p, t}
        BY <1>3, <2>2, <2>3, <3>1, <3>4, NoPlayerAssumption DEF Agree
      <4> QED BY <1>3, <1>5, <2>3, <3>4, <4>1 DEF Agree
    <3> QED BY <3>3, <3>4
  <2>5. CASE ~pairs
    <3>1. \A x \in Player : left[x].partner # NoPlayer => left[x].partner \in Player
      BY <1>3, <2>2
    <3> QED BY <1>3, <1>5, <2>3, <2>5, <3>1 DEF Agree
  <2> QED BY <2>4, <2>5
<1> QED BY <1>5, <1>6, <1>7, <1>8 DEF Honest, Shaped

LEMMA TradeAckHonest ==
    ASSUME Honest, NEW p \in Player, NEW accept, NEW near, TradeAck(p, accept, near)
    PROVE  Honest'
<1> DEFINE t == sd[p].partner
           free == near /\ FreeToTrade(sd[p]) /\ FreeToTrade(sd[t])
<1>1. /\ t \in Player /\ ~sd[p].trading /\ strayed' = strayed
      /\ TradeAnswered(p, t, accept, Waiting(p, t), free)
  BY DEF TradeAck, Asked, Honest, Shaped, Flags
<1>2. Shaped(sd) /\ \A x \in Player : OneOpen(sd[x])
  BY DEF Honest
<1>3. sd[p].partner = t
  OBVIOUS
<1> HIDE DEF t
<1>4. CASE ~Waiting(p, t)
  <2>1. sd' = [sd EXCEPT ![p].partner = NoPlayer]
    BY <1>1, <1>4 DEF TradeAnswered
  <2>2. ~Agree(sd)
    BY <1>1, <1>3, <1>4, NoPlayerAssumption DEF Agree, Waiting
  <2>3. /\ DOMAIN sd' = Player
        /\ sd'[p] = [sd[p] EXCEPT !.partner = NoPlayer]
        /\ \A x \in Player \ {p} : sd'[x] = sd[x]
    BY <1>2, <2>1 DEF Shaped
  <2>4. IsSd(sd'[p]) /\ Flags(sd'[p]) /\ OneOpen(sd'[p])
    BY <1>1, <1>2, <2>3 DEF Shaped, IsSd, Flags, OneOpen, FreeToTrade
  <2> QED BY <1>1, <1>2, <2>2, <2>3, <2>4 DEF Honest, Shaped
<1>5. CASE Waiting(p, t) /\ ~(accept /\ free)
  <2>1. sd' = Unpaired(sd, {p, t})
    BY <1>1, <1>5 DEF TradeAnswered
  <2>2. DOMAIN sd' = Player /\ \A x \in Player \ {p, t} : sd'[x] = sd[x]
    BY <2>1 DEF Unpaired
  <2>3. ASSUME NEW x \in {p, t}
        PROVE  /\ IsSd(sd'[x]) /\ SameOpen(sd'[x], sd[x])
               /\ sd'[x].partner = NoPlayer
               /\ sd'[x].trading = FALSE /\ sd'[x].locked = 0
    <3>1. sd'[x] = [sd[x] EXCEPT !.partner = NoPlayer, !.locked = 0]
      BY <1>1, <2>1 DEF Unpaired
    <3>2. IsSd(sd[x]) /\ sd[x].trading = FALSE
      BY <1>1, <1>2, <1>5 DEF Waiting, Shaped, Flags
    <3> QED BY <3>1, <3>2 DEF IsSd, SameOpen
  <2>4. Keeps(sd', sd)
    BY <1>1, <1>2, <1>3, <2>2, <2>3, PairEnds
  <2> QED BY <1>1, <2>4, HandlerKeeps
<1>6. CASE Waiting(p, t) /\ accept /\ free
  <2>1. sd' = [x \in Player |-> IF x \in {p, t}
                 THEN [sd[x] EXCEPT !.trading = TRUE, !.deal = << >>, !.dealZeny = 0]
                 ELSE sd[x]]
    BY <1>1, <1>6 DEF TradeAnswered
  <2>2. DOMAIN sd' = Player /\ \A x \in Player \ {p, t} : sd'[x] = sd[x]
    BY <2>1
  <2>3. ASSUME NEW x \in {p, t}
        PROVE  /\ IsSd(sd'[x]) /\ Flags(sd'[x]) /\ OneOpen(sd'[x])
               /\ sd'[x].partner = sd[x].partner
               /\ sd'[x].trading = TRUE /\ sd'[x].locked = sd[x].locked
    <3>1. sd'[x] = [sd[x] EXCEPT !.trading = TRUE, !.deal = << >>, !.dealZeny = 0]
      BY <1>1, <2>1
    <3>2. IsSd(sd[x]) /\ Flags(sd[x]) /\ FreeToTrade(sd[x])
      BY <1>1, <1>2, <1>6 DEF Shaped
    <3>3. /\ IsSd(sd'[x]) /\ SameOpen(sd'[x], sd[x])
          /\ sd'[x].partner = sd[x].partner
          /\ sd'[x].trading = TRUE /\ sd'[x].locked = sd[x].locked
      BY <3>1, <3>2 DEF IsSd, SameOpen
    <3> QED BY <3>2, <3>3 DEF SameOpen, Flags, OneOpen, FreeToTrade
  <2>4. ASSUME Agree(sd) PROVE Agree(sd')
    <3>1. sd[p].partner = t /\ sd[t].partner = p
      BY <1>3, <1>6 DEF Waiting
    <3> SUFFICES ASSUME NEW x \in Player
                 PROVE  /\ sd'[x].trading => sd'[x].partner # NoPlayer
                        /\ sd'[x].locked # 0 => sd'[x].trading
                        /\ sd'[x].partner # NoPlayer =>
                             /\ sd'[sd'[x].partner].partner = x
                             /\ sd'[sd'[x].partner].trading = sd'[x].trading
      BY DEF Agree
    <3>2. CASE x \in {p, t}
      BY <1>1, <2>3, <3>1, <3>2, NoPlayerAssumption
    <3>3. CASE x \notin {p, t}
      <4>1. sd[x].partner # NoPlayer => sd[x].partner \in Player \ {p, t}
        BY <1>2, <2>4, <3>1, <3>3, NoPlayerAssumption DEF Agree, Shaped, Flags
      <4> QED BY <2>2, <2>4, <3>3, <4>1 DEF Agree
    <3> QED BY <3>2, <3>3
  <2> QED BY <1>1, <1>2, <2>2, <2>3, <2>4 DEF Honest, Shaped
<1> QED BY <1>4, <1>5, <1>6

LEMMA TradeCancelledHonest ==
    ASSUME Honest, NEW p \in Player, sd' = TradeCancelled(sd, p), strayed' = strayed
    PROVE  Honest'
BY Cancelled, HandlerKeeps DEF Honest

LEMMA TradeAddItemHonest ==
    ASSUME Honest, NEW p \in Player, NEW s, NEW n, TradeAddItem(p, s, n)
    PROVE  Honest'
<1>1. strayed' = strayed
  BY DEF TradeAddItem
<1>2. CASE sd[p].partner = NoPlayer
  BY <1>1, <1>2, TradeCancelledHonest DEF TradeAddItem
<1>3. CASE sd[p].partner # NoPlayer
  <2>1. Changes(p, WithEntry(sd[p], s, n))
    BY <1>3 DEF TradeAddItem
  <2>2. IsSd(sd[p])
    BY DEF Honest, Shaped
  <2>3. SameSession(WithEntry(sd[p], s, n), sd[p])
    BY <2>2 DEF WithEntry, SameSession, SameTrade, SameOpen, IsSd
  <2> QED BY <1>1, <2>1, <2>3, DataChange
<1> QED BY <1>2, <1>3

LEMMA TradeAddZenyHonest ==
    ASSUME Honest, NEW p \in Player, NEW n, TradeAddZeny(p, n)
    PROVE  Honest'
<1> DEFINE r == [sd[p] EXCEPT !.dealZeny = n]
<1>1. strayed' = strayed /\ (sd' = TradeCancelled(sd, p) \/ Changes(p, r))
  BY DEF TradeAddZeny, Changes, Rest
<1>2. IsSd(sd[p])
  BY DEF Honest, Shaped
<1>3. SameSession(r, sd[p])
  BY <1>2 DEF SameSession, SameTrade, SameOpen, IsSd
<1> HIDE DEF r
<1> QED BY <1>1, <1>3, DataChange, TradeCancelledHonest

LEMMA TradeOkHonest ==
    ASSUME Honest, NEW p \in Player, TradeOk(p)
    PROVE  Honest'
<1> DEFINE r == [sd[p] EXCEPT !.locked = 1]
<1>1. strayed' = strayed /\ (sd' = TradeCancelled(sd, p) \/ Changes(p, r)) /\ sd[p].trading
  BY DEF TradeOk, Changes, Rest
<1>2. IsSd(sd[p])
  BY DEF Honest, Shaped
<1>3. SameSession(r, sd[p])
  BY <1>1, <1>2 DEF SameSession, SameTrade, SameOpen, IsSd
<1> HIDE DEF r
<1> QED BY <1>1, <1>3, DataChange, TradeCancelledHonest

\* A trade goes through: it ends for both sides, whatever they get.
LEMMA Committed ==
    ASSUME NEW st, Shaped(st), \A x \in Player : OneOpen(st[x]),
           NEW p \in Player, NEW t \in Player, st[p].partner = t
    PROVE  Keeps(TradeCommitted(st, p, t), st)
<1> DEFINE new == TradeCommitted(st, p, t)
<1>1. DOMAIN new = Player
  BY DEF TradeCommitted, Shaped
<1>2. \A x \in Player \ {p, t} : new[x] = st[x]
  BY DEF TradeCommitted, Shaped
<1>3. ASSUME NEW x \in {p, t}
      PROVE  /\ IsSd(new[x]) /\ SameOpen(new[x], st[x])
             /\ new[x].partner = NoPlayer
             /\ new[x].trading = FALSE /\ new[x].locked = 0
  <2>1. PICK inv, zeny : \/ new[x] = TradeEnd([st[x] EXCEPT !.inv = inv, !.zeny = zeny])
                         \/ new[x] = TradeEnd([TradeEnd(st[x]) EXCEPT !.inv = inv, !.zeny = zeny])
    BY DEF TradeCommitted, Shaped
  <2> HIDE DEF new
  <2>2. IsSd(st[x]) /\ IsSd(TradeEnd(st[x])) /\ SameOpen(TradeEnd(st[x]), st[x])
    BY Ended DEF Shaped
  <2>3. CASE new[x] = TradeEnd([st[x] EXCEPT !.inv = inv, !.zeny = zeny])
    <3> DEFINE r == [st[x] EXCEPT !.inv = inv, !.zeny = zeny]
    <3>1. IsSd(r) /\ SameOpen(r, st[x])
      BY <2>2 DEF IsSd, SameOpen
    <3> HIDE DEF r
    <3> QED BY <2>3, <3>1, Ended DEF SameOpen, r
  <2>4. CASE new[x] = TradeEnd([TradeEnd(st[x]) EXCEPT !.inv = inv, !.zeny = zeny])
    <3> DEFINE r == [TradeEnd(st[x]) EXCEPT !.inv = inv, !.zeny = zeny]
    <3>1. IsSd(r) /\ SameOpen(r, st[x])
      BY <2>2 DEF IsSd, SameOpen
    <3> HIDE DEF r
    <3> QED BY <2>4, <3>1, Ended DEF SameOpen, r
  <2> QED BY <2>1, <2>3, <2>4
<1> HIDE DEF new
<1>4. Keeps(new, st)
  BY <1>1, <1>2, <1>3, PairEnds
<1> QED BY <1>4 DEF new

LEMMA TradeCommitHonest ==
    ASSUME Honest, NEW p \in Player, TradeCommit(p)
    PROVE  Honest'
<1> DEFINE t == sd[p].partner
           r == [sd[p] EXCEPT !.locked = 2]
           st == [sd EXCEPT ![p] = r]
<1>1. /\ strayed' = strayed /\ sd[p].trading /\ Shaped(sd) /\ \A x \in Player : OneOpen(sd[x])
  BY DEF TradeCommit, Rest, Honest
<1>2. \/ sd' = TradeCancelled(sd, p)
      \/ /\ t # NoPlayer
         /\ \/ sd' = st
            \/ sd' = TradeCancelled(st, p) \/ sd' = TradeCancelled(st, t)
            \/ sd' = TradeCommitted(st, p, t)
  BY DEF TradeCommit
<1>3. t \in Player \union {NoPlayer}
  BY <1>1 DEF Shaped, Flags
<1>4. IsSd(sd[p]) /\ Flags(sd[p]) /\ OneOpen(sd[p])
  BY <1>1 DEF Shaped
<1>5. SameSession(r, sd[p])
  BY <1>1, <1>4 DEF SameSession, SameTrade, SameOpen, IsSd
<1>6. st[p].partner = t
  BY <1>1, <1>5 DEF SameSession, SameTrade, Shaped
<1> HIDE DEF r, t
<1>7. Keeps(st, sd)
  BY <1>1, <1>4, <1>5, SameFlags, OneChanges DEF SameSession
<1> HIDE DEF st
<1>8. CASE sd' = TradeCancelled(sd, p)
  BY <1>1, <1>8, TradeCancelledHonest
<1>9. CASE t # NoPlayer /\ sd' = st
  BY <1>1, <1>7, <1>9, HandlerKeeps
<1>10. CASE t # NoPlayer /\ (sd' = TradeCancelled(st, p) \/ sd' = TradeCancelled(st, t))
  <2>1. Keeps(sd', st)
    BY <1>3, <1>7, <1>10, Cancelled DEF Keeps
  <2> QED BY <1>1, <1>7, <2>1, KeepsTwice, HandlerKeeps
<1>11. CASE t # NoPlayer /\ sd' = TradeCommitted(st, p, t)
  <2>1. Keeps(sd', st)
    BY <1>3, <1>6, <1>7, <1>11, Committed DEF Keeps
  <2> QED BY <1>1, <1>7, <2>1, KeepsTwice, HandlerKeeps
<1> QED BY <1>2, <1>8, <1>9, <1>10, <1>11

-----------------------------------------------------------------------------
(* Handlers of the chat room, the shops and the buying stores. *)

LEMMA KnownSd ==
    ASSUME Honest, NEW p \in Player
    PROVE  IsSd(sd[p]) /\ Flags(sd[p]) /\ OneOpen(sd[p])
BY DEF Honest, Shaped

LEMMA ChatRoomHonest ==
    ASSUME Honest, NEW p \in Player, ChatRoom(p)
    PROVE  Honest'
<1> DEFINE r == [sd[p] EXCEPT !.chat = ~@]
<1>1. SameSession(r, sd[p])
  BY KnownSd DEF SameSession, SameTrade, SameOpen, IsSd
<1>2. Changes(p, r) /\ strayed' = strayed
  BY DEF ChatRoom, Rest
<1> HIDE DEF r
<1> QED BY <1>1, <1>2, DataChange

\* Handlers of a vendor.
LEMMA VendHonest ==
    ASSUME Honest, NEW p \in Player,
           \/ SkillVending(p) \/ ClifOpenVendingCancel(p) \/ CloseVending(p)
           \/ \E list \in GoodsLists : OpenVending(p, list)
    PROVE  Honest'
<1>1. ASSUME NEW b, Changes(p, [sd[p] EXCEPT !.prevend = b]), strayed' = strayed
      PROVE  Honest'
  <2>1. SameSession([sd[p] EXCEPT !.prevend = b], sd[p])
    BY KnownSd DEF SameSession, SameTrade, SameOpen, IsSd
  <2> QED BY <1>1, <2>1, DataChange
<1>2. CASE SkillVending(p)
  BY <1>1, <1>2 DEF SkillVending, Rest
<1>3. CASE ClifOpenVendingCancel(p)
  BY <1>1, <1>3 DEF ClifOpenVendingCancel, Rest
<1>4. CASE CloseVending(p)
  <2> DEFINE r == [sd[p] EXCEPT !.vending = FALSE]
  <2>1. SameTrade(r, sd[p]) /\ Flags(r) /\ OneOpen(r)
    BY KnownSd DEF SameTrade, IsSd, Flags, OneOpen, FreeToTrade
  <2>2. Changes(p, r) /\ strayed' = strayed
    BY <1>4 DEF CloseVending, Rest
  <2> HIDE DEF r
  <2> QED BY <2>1, <2>2, FlagsChange
<1>5. ASSUME NEW list, OpenVending(p, list) PROVE Honest'
  <2> DEFINE r == [sd[p] EXCEPT !.prevend = FALSE, !.vending = TRUE,
                                !.venderId = nextId.shop, !.goods = Backed(sd[p], list)]
  <2>1. ~sd[p].trading /\ ~sd[p].buying /\ Changes(p, r) /\ strayed' = strayed
    BY <1>5 DEF OpenVending, IsTrading
  <2>2. SameTrade(r, sd[p]) /\ Flags(r) /\ OneOpen(r)
    BY <2>1, KnownSd DEF SameTrade, IsSd, Flags, OneOpen, FreeToTrade
  <2> HIDE DEF r
  <2> QED BY <2>1, <2>2, FlagsChange
<1> QED BY <1>2, <1>3, <1>4, <1>5

\* What a customer buys changes hands.
LEMMA PurchasedKeeps ==
    ASSUME NEW st, Shaped(st), \A x \in Player : OneOpen(st[x]),
           NEW c \in Player, NEW v \in Player, c # v, NEW req
    PROVE  Keeps(Purchased(st, c, v, req), st)
<1> DEFINE new == Purchased(st, c, v, req)
<1>1. DOMAIN new = Player /\ \A x \in Player \ {c, v} : new[x] = st[x]
  BY DEF Purchased, Shaped
<1>2. IsSd(st[c]) /\ IsSd(st[v]) /\ DOMAIN st = Player
  BY DEF Shaped
<1>3. SameSession(new[c], st[c])
  BY <1>2 DEF Purchased, SameSession, SameTrade, SameOpen, IsSd
<1>4. SameSession(new[v], st[v])
  BY <1>2 DEF Purchased, SameSession, SameTrade, SameOpen, IsSd
<1> HIDE DEF new
<1>5. \A x \in Player : SameSession(new[x], st[x])
  BY <1>1, <1>3, <1>4 DEF SameSession, SameTrade, SameOpen, Shaped
<1>6. Keeps(new, st)
  BY <1>1, <1>5, AllSame
<1> QED BY <1>6 DEF new

LEMMA AfterPurchaseKeeps ==
    ASSUME NEW st, Shaped(st), \A x \in Player : OneOpen(st[x]),
           NEW c \in Player, NEW v \in Player, c # v, NEW req
    PROVE  Keeps(AfterPurchase(st, c, v, req), st)
<1> DEFINE sale == Purchased(st, c, v, req)
           shut == [sale[v] EXCEPT !.vending = FALSE]
           left == IF sale[v].autotrade /\ sale[v].goods = << >>
                   THEN Quit([sale EXCEPT ![v] = shut], v) ELSE sale
           r == [left[c] EXCEPT !.vendedId = 0]
<1>1. AfterPurchase(st, c, v, req) = [left EXCEPT ![c] = r]
  BY DEF AfterPurchase
<1>2. Keeps(sale, st)
  BY PurchasedKeeps
<1> HIDE DEF sale
<1>3. Keeps([sale EXCEPT ![v] = shut], sale)
  <2>1. IsSd(sale[v]) /\ Flags(sale[v]) /\ OneOpen(sale[v])
    BY <1>2 DEF Keeps, Shaped
  <2>2. SameTrade(shut, sale[v]) /\ Flags(shut) /\ OneOpen(shut)
    BY <2>1 DEF SameTrade, IsSd, Flags, OneOpen, FreeToTrade
  <2> HIDE DEF shut
  <2> QED BY <1>2, <2>2, OneChanges DEF Keeps
<1> HIDE DEF shut
<1>4. Keeps(left, st)
  <2>1. Keeps(Quit([sale EXCEPT ![v] = shut], v), [sale EXCEPT ![v] = shut])
    BY <1>3, HasQuit DEF Keeps
  <2> QED BY <1>2, <1>3, <2>1, KeepsTwice
<1> HIDE DEF left
<1>5. Keeps([left EXCEPT ![c] = r], left)
  <2>1. IsSd(left[c]) /\ Flags(left[c]) /\ OneOpen(left[c])
    BY <1>4 DEF Keeps, Shaped
  <2>2. SameSession(r, left[c])
    BY <2>1 DEF SameSession, SameTrade, SameOpen, IsSd
  <2> HIDE DEF r
  <2> QED BY <1>4, <2>1, <2>2, SameFlags, OneChanges DEF Keeps, SameSession
<1> QED BY <1>1, <1>4, <1>5, KeepsTwice

\* Handlers of a customer.
LEMMA ShopHonest ==
    ASSUME Honest, NEW c \in Player,
           \/ \E v \in Player : VendingListReq(c, v)
           \/ \E v \in Player, req \in CartRequests : PurchaseReq(c, v, req)
           \/ PurchaseRefused(c)
    PROVE  Honest'
<1>1. ASSUME NEW id, Changes(c, [sd[c] EXCEPT !.vendedId = id]), strayed' = strayed
      PROVE  Honest'
  <2>1. SameSession([sd[c] EXCEPT !.vendedId = id], sd[c])
    BY KnownSd DEF SameSession, SameTrade, SameOpen, IsSd
  <2> QED BY <1>1, <2>1, DataChange
<1>2. ASSUME NEW v \in Player, VendingListReq(c, v) PROVE Honest'
  <2>1. Changes(c, [sd[c] EXCEPT !.vendedId = sd[v].venderId]) /\ strayed' = strayed
    <3>1. VendingListReq(c, v)
      BY <1>2
    <3> QED BY <3>1, Zenon DEF VendingListReq
  <2> QED BY <1>1, <2>1
<1>3. ASSUME NEW v \in Player, NEW req, PurchaseReq(c, v, req) PROVE Honest'
  <2>1. c # v /\ sd' = AfterPurchase(sd, c, v, req) /\ strayed' = strayed
    BY <1>3, Zenon DEF PurchaseReq, CanPurchase, CanPurchaseFromAnyShop, Rest
  <2> QED BY <2>1, AfterPurchaseKeeps, HandlerKeeps DEF Honest
<1>4. CASE PurchaseRefused(c)
  BY <1>1, <1>4 DEF PurchaseRefused, Rest
<1> QED BY <1>2, <1>3, <1>4

LEMMA LimitedKeeps ==
    ASSUME Honest, NEW b \in Player
    PROVE  Keeps(Limited(sd, b), sd)
<1> DEFINE r == [sd[b] EXCEPT !.limit = sd[b].zeny]
<1>1. IsSd(sd[b]) /\ Flags(sd[b]) /\ OneOpen(sd[b])
  BY KnownSd
<1>2. SameSession(r, sd[b])
  BY <1>1 DEF SameSession, SameTrade, SameOpen, IsSd
<1>3. Limited(sd, b) = [sd EXCEPT ![b] = r] \/ Limited(sd, b) = sd
  BY DEF Limited
<1> HIDE DEF r
<1>4. Keeps([sd EXCEPT ![b] = r], sd)
  BY <1>1, <1>2, SameFlags, OneChanges DEF SameSession, Honest
<1>5. Keeps(sd, sd)
  BY DEF Keeps, Honest
<1> QED BY <1>3, <1>4, <1>5

\* What a seller offers changes hands.
LEMMA AfterSellingKeeps ==
    ASSUME NEW st, Shaped(st), \A x \in Player : OneOpen(st[x]),
           NEW s \in Player, NEW b \in Player, s # b, NEW asked
    PROVE  Keeps(AfterSelling(st, s, b, asked), st)
<1> DEFINE new == SoldTo(st, s, b, asked)
           shut == [new EXCEPT ![b] = Closed(@)]
<1>1. DOMAIN new = Player /\ \A x \in Player \ {s, b} : new[x] = st[x]
  BY DEF SoldTo, Shaped
<1>2. IsSd(st[s]) /\ IsSd(st[b]) /\ DOMAIN st = Player
  BY DEF Shaped
<1>3. SameSession(new[s], st[s])
  BY <1>2 DEF SoldTo, SameSession, SameTrade, SameOpen, IsSd
<1>4. SameSession(new[b], st[b])
  BY <1>2 DEF SoldTo, SameSession, SameTrade, SameOpen, IsSd
<1>5. AfterSelling(st, s, b, asked) = new \/ AfterSelling(st, s, b, asked) = Quit(shut, b)
  BY Zenon DEF AfterSelling
<1> HIDE DEF new
<1>6. \A x \in Player : SameSession(new[x], st[x])
  BY <1>1, <1>3, <1>4 DEF SameSession, SameTrade, SameOpen, Shaped
<1>7. Keeps(new, st)
  BY <1>1, <1>6, AllSame
<1>8. Keeps(shut, new)
  <2>1. IsSd(new[b]) /\ Flags(new[b]) /\ OneOpen(new[b])
    BY <1>7 DEF Keeps, Shaped
  <2>2. SameTrade(Closed(new[b]), new[b]) /\ Flags(Closed(new[b])) /\ OneOpen(Closed(new[b]))
    BY <2>1 DEF Closed, SameTrade, IsSd, Flags, OneOpen, FreeToTrade
  <2>3. shut = [new EXCEPT ![b] = Closed(new[b])]
    OBVIOUS
  <2> QED BY <1>7, <2>2, <2>3, OneChanges DEF Keeps
<1> HIDE DEF shut
<1>9. Keeps(Quit(shut, b), st)
  BY <1>7, <1>8, HasQuit, KeepsTwice DEF Keeps
<1> QED BY <1>5, <1>7, <1>9

\* Handlers of a buying store's owner.
LEMMA BuyHonest ==
    ASSUME Honest, NEW p \in Player,
           \/ BuyingStoreSetup(p) \/ BuyingStoreCreateFailed(p) \/ BuyingStoreClose(p)
           \/ \E limit \in 1..MaxZeny, list \in WantsLists : BuyingStoreCreate(p, limit, list)
    PROVE  Honest'
<1>1. ASSUME NEW b, Changes(p, [sd[p] EXCEPT !.slots = b]), strayed' = strayed
      PROVE  Honest'
  <2>1. SameSession([sd[p] EXCEPT !.slots = b], sd[p])
    BY KnownSd DEF SameSession, SameTrade, SameOpen, IsSd
  <2> QED BY <1>1, <2>1, DataChange
<1>2. CASE BuyingStoreSetup(p)
  BY <1>1, <1>2 DEF BuyingStoreSetup, Rest
<1>3. CASE BuyingStoreCreateFailed(p)
  BY <1>1, <1>3 DEF BuyingStoreCreateFailed, Rest
<1>4. CASE BuyingStoreClose(p)
  <2>1. SameTrade(Closed(sd[p]), sd[p]) /\ Flags(Closed(sd[p])) /\ OneOpen(Closed(sd[p]))
    BY KnownSd DEF Closed, SameTrade, IsSd, Flags, OneOpen, FreeToTrade
  <2> QED BY <1>4, <2>1, FlagsChange DEF BuyingStoreClose, Rest
<1>5. ASSUME NEW limit, NEW list, BuyingStoreCreate(p, limit, list) PROVE Honest'
  <2> DEFINE r == [sd[p] EXCEPT !.autotrade = TRUE, !.buying = TRUE,
                                !.buyerId = nextId.store, !.limit = limit, !.wants = list]
  <2>1. ~sd[p].trading /\ ~sd[p].vending /\ Changes(p, r) /\ strayed' = strayed
    BY <1>5 DEF BuyingStoreCreate, CanCreate, IsTrading
  <2>2. SameTrade(r, sd[p]) /\ Flags(r) /\ OneOpen(r)
    BY <2>1, KnownSd DEF SameTrade, IsSd, Flags, OneOpen, FreeToTrade
  <2> HIDE DEF r
  <2> QED BY <2>1, <2>2, FlagsChange
<1> QED BY <1>2, <1>3, <1>4, <1>5

\* Handlers of a seller.
LEMMA SellHonest ==
    ASSUME Honest, NEW s \in Player, NEW b \in Player,
           \/ BuyingStoreOpen(s, b) \/ BuyingStoreTradeRefused(s, b)
           \/ \E asked \in SlotRequests : BuyingStoreTrade(s, b, asked)
    PROVE  Honest'
<1>1. CASE BuyingStoreOpen(s, b)
  <2>1. sd' = sd /\ strayed' = strayed
    BY <1>1, Zenon DEF BuyingStoreOpen
  <2>2. Keeps(sd, sd)
    BY DEF Keeps, Honest
  <2> QED BY <2>1, <2>2, HandlerKeeps
<1>2. CASE BuyingStoreTradeRefused(s, b)
  <2>1. sd' = Limited(sd, b) /\ strayed' = strayed
    BY <1>2 DEF BuyingStoreTradeRefused, Rest
  <2> QED BY <2>1, LimitedKeeps, HandlerKeeps
<1>3. ASSUME NEW asked, BuyingStoreTrade(s, b, asked) PROVE Honest'
  <2> DEFINE st == Limited(sd, b)
  <2>1. /\ sd' = AfterSelling(st, s, b, asked) /\ strayed' = strayed
        /\ ~IsTrading(st[s]) /\ st[b].buying
    BY <1>3, Zenon DEF BuyingStoreTrade, CanSell, Rest
  <2>2. s # b /\ Keeps(st, sd)
    BY <2>1, LimitedKeeps DEF IsTrading
  <2> HIDE DEF st
  <2>3. Keeps(sd', st)
    BY <2>1, <2>2, AfterSellingKeeps DEF Keeps
  <2> QED BY <2>1, <2>2, <2>3, KeepsTwice, HandlerKeeps
<1> QED BY <1>1, <1>2, <1>3

-----------------------------------------------------------------------------
(* Handlers of the cart, the storage and the floor, and of leaving. *)

LEMMA CartHonest ==
    ASSUME Honest, NEW p \in Player,
           \/ \E s \in Slot, n \in Amounts : PutItemToCart(p, s, n)
           \/ \E s \in CartSlot, n \in Amounts : GetItemFromCart(p, s, n)
    PROVE  Honest'
<1>1. ASSUME NEW s, NEW n, PutItemToCart(p, s, n) PROVE Honest'
  <2> DEFINE to == PcCartAddItem(sd[p].cart, sd[p].inv[s].item, n)
             r == [sd[p] EXCEPT !.cart = to, !.inv = PcDelItem(@, s, n)]
  <2>1. Changes(p, r) /\ strayed' = strayed
    BY <1>1 DEF PutItemToCart, Rest
  <2>2. SameSession(r, sd[p])
    BY KnownSd DEF SameSession, SameTrade, SameOpen, IsSd
  <2> HIDE DEF r
  <2> QED BY <2>1, <2>2, DataChange
<1>2. ASSUME NEW s, NEW n, GetItemFromCart(p, s, n) PROVE Honest'
  <2> DEFINE to == PcAddItem(sd[p].inv, sd[p].cart[s].item, n)
             r == [sd[p] EXCEPT !.inv = to, !.cart = PcDelItem(@, s, n)]
  <2>1. Changes(p, r) /\ strayed' = strayed
    BY <1>2 DEF GetItemFromCart, Rest
  <2>2. SameSession(r, sd[p])
    BY KnownSd DEF SameSession, SameTrade, SameOpen, IsSd
  <2> HIDE DEF r
  <2> QED BY <2>1, <2>2, DataChange
<1> QED BY <1>1, <1>2

LEMMA StorageOpenHonest ==
    ASSUME Honest, NEW p \in Player, StorageOpen(p) \/ StorageClose(p)
    PROVE  Honest'
<1>1. CASE StorageOpen(p)
  <2> DEFINE r == [sd[p] EXCEPT !.storage = TRUE]
  <2>1. ~sd[p].trading /\ Changes(p, r) /\ strayed' = strayed
    BY <1>1 DEF StorageOpen, Rest, IsTrading
  <2>2. SameTrade(r, sd[p]) /\ Flags(r) /\ OneOpen(r)
    BY <2>1, KnownSd DEF SameTrade, IsSd, Flags, OneOpen
  <2> HIDE DEF r
  <2> QED BY <2>1, <2>2, FlagsChange
<1>2. CASE StorageClose(p)
  <2> DEFINE r == [sd[p] EXCEPT !.storage = FALSE]
  <2>1. Changes(p, r) /\ strayed' = strayed
    BY <1>2 DEF StorageClose, Rest
  <2>2. SameTrade(r, sd[p]) /\ Flags(r) /\ OneOpen(r)
    BY KnownSd DEF SameTrade, IsSd, Flags, OneOpen, FreeToTrade
  <2> HIDE DEF r
  <2> QED BY <2>1, <2>2, FlagsChange
<1> QED BY <1>1, <1>2

LEMMA StorageHonest ==
    ASSUME Honest, NEW p \in Player,
           \/ \E s \in Slot, n \in Amounts : StorageAdd(p, s, n)
           \/ \E s \in CartSlot, n \in Amounts : StorageAddFromCart(p, s, n)
           \/ \E item \in Item, n \in Amounts : StorageGet(p, item, n) \/ StorageGetToCart(p, item, n)
    PROVE  Honest'
<1>1. ASSUME NEW s, NEW n, StorageAdd(p, s, n) PROVE Honest'
  <2> DEFINE to == StorageAddItem(sd[p].store, sd[p].inv[s].item, n)
             r == [sd[p] EXCEPT !.store = to, !.inv = PcDelItem(@, s, n)]
  <2>1. Changes(p, r) /\ strayed' = strayed
    BY <1>1 DEF StorageAdd, Rest
  <2>2. SameSession(r, sd[p])
    BY KnownSd DEF SameSession, SameTrade, SameOpen, IsSd
  <2> HIDE DEF r
  <2> QED BY <2>1, <2>2, DataChange
<1>2. ASSUME NEW s, NEW n, StorageAddFromCart(p, s, n) PROVE Honest'
  <2> DEFINE to == StorageAddItem(sd[p].store, sd[p].cart[s].item, n)
             r == [sd[p] EXCEPT !.store = to, !.cart = PcDelItem(@, s, n)]
  <2>1. Changes(p, r) /\ strayed' = strayed
    BY <1>2 DEF StorageAddFromCart, Rest
  <2>2. SameSession(r, sd[p])
    BY KnownSd DEF SameSession, SameTrade, SameOpen, IsSd
  <2> HIDE DEF r
  <2> QED BY <2>1, <2>2, DataChange
<1>3. ASSUME NEW item, NEW n, StorageGet(p, item, n) PROVE Honest'
  <2> DEFINE to == PcAddItem(sd[p].inv, item, n)
             r == [sd[p] EXCEPT !.inv = to, !.store[item] = @ - n]
  <2>1. Changes(p, r) /\ strayed' = strayed
    BY <1>3 DEF StorageGet, Rest
  <2>2. SameSession(r, sd[p])
    BY KnownSd DEF SameSession, SameTrade, SameOpen, IsSd
  <2> HIDE DEF r
  <2> QED BY <2>1, <2>2, DataChange
<1>4. ASSUME NEW item, NEW n, StorageGetToCart(p, item, n) PROVE Honest'
  <2> DEFINE to == PcCartAddItem(sd[p].cart, item, n)
             r == [sd[p] EXCEPT !.cart = to, !.store[item] = @ - n]
  <2>1. Changes(p, r) /\ strayed' = strayed
    BY <1>4 DEF StorageGetToCart, Rest
  <2>2. SameSession(r, sd[p])
    BY KnownSd DEF SameSession, SameTrade, SameOpen, IsSd
  <2> HIDE DEF r
  <2> QED BY <2>1, <2>2, DataChange
<1> QED BY <1>1, <1>2, <1>3, <1>4

LEMMA FloorHonest ==
    ASSUME Honest, NEW p \in Player,
           \/ \E s \in Slot, n \in Amounts : DropItem(p, s, n)
           \/ \E to \in Player, item \in Item : TakeItem(p, to, item)
           \/ \E s \in Slot : UseUp(p, s)
    PROVE  Honest'
<1>1. ASSUME NEW q \in Player, NEW inv, Changes(q, [sd[q] EXCEPT !.inv = inv]), strayed' = strayed
      PROVE  Honest'
  <2>1. SameSession([sd[q] EXCEPT !.inv = inv], sd[q])
    BY KnownSd DEF SameSession, SameTrade, SameOpen, IsSd
  <2> QED BY <1>1, <2>1, DataChange
<1>2. ASSUME NEW s, NEW n, DropItem(p, s, n) PROVE Honest'
  <2>1. Changes(p, [sd[p] EXCEPT !.inv = PcDelItem(@, s, n)]) /\ strayed' = strayed
    BY <1>2, Zenon DEF DropItem, Rest
  <2> QED BY <1>1, <2>1
<1>3. ASSUME NEW to \in Player, NEW item, TakeItem(p, to, item) PROVE Honest'
  <2>1. /\ Changes(to, [sd[to] EXCEPT !.inv = PcAddItem(sd[to].inv, item, 1)])
        /\ strayed' = strayed
    BY <1>3, Zenon DEF TakeItem, Rest
  <2> QED BY <1>1, <2>1
<1>4. ASSUME NEW s, UseUp(p, s) PROVE Honest'
  <2>1. Changes(p, [sd[p] EXCEPT !.inv = PcDelItem(@, s, 1)]) /\ strayed' = strayed
    BY <1>4, Zenon DEF UseUp
  <2> QED BY <1>1, <2>1
<1> QED BY <1>2, <1>3, <1>4

LEMMA PurseHonest ==
    ASSUME Honest, NEW p \in Player, WorldTakesZeny(p) \/ WorldGivesZeny(p)
    PROVE  Honest'
<1>1. ASSUME NEW zeny, Changes(p, [sd[p] EXCEPT !.zeny = zeny]), strayed' = strayed
      PROVE  Honest'
  <2>1. SameSession([sd[p] EXCEPT !.zeny = zeny], sd[p])
    BY KnownSd DEF SameSession, SameTrade, SameOpen, IsSd
  <2> QED BY <1>1, <2>1, DataChange
<1>2. CASE WorldTakesZeny(p)
  <2>1. Changes(p, [sd[p] EXCEPT !.zeny = PcPayZeny(@, 1)]) /\ strayed' = strayed
    BY <1>2, Zenon DEF WorldTakesZeny, Rest
  <2> QED BY <1>1, <2>1
<1>3. CASE WorldGivesZeny(p)
  <2>1. Changes(p, [sd[p] EXCEPT !.zeny = PcGetZeny(@, 1)]) /\ strayed' = strayed
    BY <1>3, Zenon DEF WorldGivesZeny, Rest
  <2> QED BY <1>1, <2>1
<1> QED BY <1>2, <1>3

LEMMA LeaveHonest ==
    ASSUME Honest, NEW p \in Player, Warp(p) \/ MapQuit(p)
    PROVE  Honest'
<1>1. (sd' = LeftMap(sd, p) \/ sd' = Quit(sd, p)) /\ strayed' = strayed
  BY DEF Warp, MapQuit, Rest
<1>2. Keeps(LeftMap(sd, p), sd) /\ Keeps(Quit(sd, p), sd)
  BY MapLeft, HasQuit DEF Honest
<1> QED BY <1>1, <1>2, HandlerKeeps

-----------------------------------------------------------------------------
(* Every handler keeps it. *)

LEMMA HonestStep == Honest /\ [Next]_vars => Honest'
<1> SUFFICES ASSUME Honest, [Next]_vars PROVE Honest'
  OBVIOUS
<1>1. \A a : Doing(a) \subseteq Player
  BY DEF Doing
<1>2. CASE TradeNext
  <2>1. \/ \E p \in Player :
           \/ \E t \in Player, near \in BOOLEAN : TradeRequest(p, t, near)
           \/ \E accept, near \in BOOLEAN : TradeAck(p, accept, near)
           \/ \E s \in Slot, n \in Amounts : TradeAddItem(p, s, n)
           \/ \E n \in 0..MaxZeny : TradeAddZeny(p, n)
           \/ TradeOk(p) \/ TradeCancel(p) \/ TradeCommit(p)
        \/ \E p \in Player : ChatRoom(p)
    BY <1>1, <1>2, Zenon DEF TradeNext
  <2>2. ASSUME NEW p \in Player, TradeCancel(p) PROVE Honest'
    BY <2>2, TradeCancelledHonest DEF TradeCancel, Rest
  <2> QED BY <2>1, <2>2, TradeRequestHonest, TradeAckHonest, TradeAddItemHonest,
             TradeAddZenyHonest, TradeOkHonest, TradeCommitHonest, ChatRoomHonest
<1>3. CASE ShopNext
  BY <1>1, <1>3, VendHonest, ShopHonest DEF ShopNext
<1>4. CASE StoreNext
  BY <1>1, <1>4, BuyHonest, SellHonest DEF StoreNext
<1>5. CASE KeepNext
  BY <1>1, <1>5, CartHonest, StorageOpenHonest, StorageHonest, FloorHonest, PurseHonest,
     LeaveHonest DEF KeepNext
<1>6. CASE UNCHANGED vars
  BY <1>6 DEF vars, Honest, Shaped, Agree
<1> QED BY <1>2, <1>3, <1>4, <1>5, <1>6 DEF Next

\* The inductive invariant holds: the flags of each player's session data, the
\* pairs of partners, and what may be open beside a trade.
THEOREM ExchangeHonest == Spec => []Honest
BY HonestAtInit, HonestStep, PTL DEF Spec

\* Whatever requests, answers, cancellations, warps and departures cross, two
\* players trade with each other or not at all: partners name each other and
\* both or neither of them is trading, until somebody asks for a trade out of a
\* chat room while in one (trade.c).
THEOREM ExchangePartnersAgree == Spec => []PartnersAgree
<1>1. Honest => PartnersAgree
  BY DEF Honest, PartnersAgree, Agree
<1> QED BY <1>1, ExchangeHonest, PTL

\* Nobody who trades has a shop, a buying store or the storage open, and nobody
\* has both kinds of shop, for any number of players and any order of handlers:
\* what one exchange counts on is never taken by another.
THEOREM ExchangeOneAtATime == Spec => []OneExchangeAtATime
<1>1. Honest => OneExchangeAtATime
  BY DEF Honest, OneExchangeAtATime, OneOpen
<1> QED BY <1>1, ExchangeHonest, PTL


-----------------------------------------------------------------------------
(* Beside the mail: what a letter takes from its writer, what arrives for  *)
(* its reader at any moment, and the departures in between.                *)

LEMMA HonestAtMailInit == MailInit => Honest
<1>1. MailInit => Init
  BY DEF MailInit, MailInitWith, Init
<1> QED BY <1>1, HonestAtInit

\* A handler that leaves sd alone.
LEMMA SdStays ==
    ASSUME Honest, UNCHANGED <<sd, strayed>>
    PROVE  Honest'
BY DEF Honest, Shaped, Agree

\* What p carries and its zeny change; p may be a name nobody has.
LEMMA CarriedChanges ==
    ASSUME Honest, NEW p, NEW inv, NEW zeny,
           sd' = [sd EXCEPT ![p] = [sd[p] EXCEPT !.inv = inv, !.zeny = zeny]],
           strayed' = strayed
    PROVE  Honest'
<1>1. CASE p \in Player
  <2> DEFINE r == [sd[p] EXCEPT !.inv = inv, !.zeny = zeny]
  <2>1. SameSession(r, sd[p])
    BY <1>1, KnownSd DEF SameSession, SameTrade, SameOpen, IsSd
  <2> QED BY <1>1, <2>1, DataChange DEF Changes
<1>2. CASE p \notin Player
  <2>1. DOMAIN sd = Player
    BY DEF Honest, Shaped
  <2>2. DOMAIN sd' = Player /\ \A x \in Player : sd'[x] = sd[x]
    BY <1>2, <2>1
  <2> HIDE DEF Honest
  <2>3. Keeps(sd', sd)
    BY <2>2 DEF Keeps, Shaped, Agree, Honest
  <2> QED BY <2>3, HandlerKeeps
<1> QED BY <1>1, <1>2

LEMMA GivenHonest ==
    ASSUME Honest, NEW p, NEW with, Given(p, with), strayed' = strayed
    PROVE  Honest'
BY CarriedChanges DEF Given, Changes

-----------------------------------------------------------------------------
(* The handlers that change sd. *)

LEMMA MailSendHonest ==
    ASSUME Honest, NEW p \in Player, NEW to, NEW titled, MailSend(p, to, titled)
    PROVE  Honest'
<1>1. strayed' = strayed
  BY DEF MailSend, Others, Rest
<1>2. CASE ~MailSetAttachment(p)
  <2>1. sd' = sd
    BY <1>2 DEF MailSend
  <2> QED BY <1>1, <2>1, SdStays
<1>3. CASE MailSetAttachment(p)
  <2>1. sd' = [sd EXCEPT ![p] =
                 [sd[p] EXCEPT !.inv = PcDelItem(@, letter[p].slot, letter[p].amount),
                               !.zeny = PcPayZeny(@, letter[p].zeny)]]
    BY <1>3 DEF MailSend, Changes
  <2> QED BY <1>1, <2>1, CarriedChanges
<1> QED BY <1>2, <1>3

LEMMA MailQuitHonest ==
    ASSUME Honest, NEW p \in Player, MailQuit(p)
    PROVE  Honest'
<1>1. sd' = Quit(sd, p) /\ strayed' = strayed
  BY DEF MailQuit, Others, Rest
<1>2. Keeps(Quit(sd, p), sd)
  BY HasQuit DEF Honest
<1> QED BY <1>1, <1>2, HandlerKeeps

LEMMA WritingHonest ==
    ASSUME Honest, NEW p \in Player,
           \/ \E s \in Slot, n \in Amounts : MailSetItem(p, s, n)
           \/ \E n \in 1..MaxZeny : MailSetZeny(p, n)
           \/ \E item, zeny \in BOOLEAN : MailWinopen(p, item, zeny)
           \/ \E to, titled : MailSend(p, to, titled)
    PROVE  Honest'
<1>1. ASSUME NEW s, NEW n, MailSetItem(p, s, n) \/ MailSetZeny(p, n) PROVE Honest'
  BY <1>1, SdStays DEF MailSetItem, MailSetZeny, Others, Rest
<1>2. ASSUME NEW item, NEW zeny, MailWinopen(p, item, zeny) PROVE Honest'
  BY <1>2, SdStays DEF MailWinopen, Others, Rest
<1> QED BY <1>1, <1>2, MailSendHonest

LEMMA ReadingHonest ==
    ASSUME Honest, NEW p \in Player,
           \/ MailRefreshInbox(p)
           \/ \E id : \/ MailRead(p, id) \/ MailGetAttach(p, id)
                      \/ MailDelete(p, id) \/ MailReturn(p, id)
    PROVE  Honest'
<1>1. CASE MailRefreshInbox(p)
  BY <1>1, SdStays DEF MailRefreshInbox, Others, Rest
<1>2. ASSUME NEW id, MailRead(p, id) \/ MailGetAttach(p, id) \/ MailDelete(p, id) \/ MailReturn(p, id)
      PROVE  Honest'
  BY <1>2, SdStays DEF MailRead, MailGetAttach, MailDelete, MailReturn, Others, Rest
<1> QED BY <1>1, <1>2

LEMMA CharParsesHonest == Honest /\ CharParses => Honest'
BY SdStays DEF CharParses, MapifParseMailRequestinbox, MapifParseMailRead, MapifMailGetattach,
               MapifParseMailDelete, MapifParseMailReturn, MapifParseMailSend, Others, Rest

LEMMA MapParsesHonest == Honest /\ MapParses => Honest'
<1> SUFFICES ASSUME Honest, MapParses PROVE Honest'
  OBVIOUS
<1>1. CASE IntifParseMailInboxReceived \/ IntifParseMailDelete \/ IntifParseMailReturn
           \/ IntifParseMailNew
  BY <1>1, SdStays DEF IntifParseMailInboxReceived, IntifParseMailDelete, IntifParseMailReturn,
                       IntifParseMailNew, Others, Rest
<1>2. CASE IntifParseMailGetAttach \/ IntifParseMailSend
  <2>1. strayed' = strayed
    BY <1>2 DEF IntifParseMailGetAttach, IntifParseMailSend, Others, Rest
  <2>2. sd' = sd \/ Given(Head(toMap).p, Head(toMap).with)
    BY <1>2 DEF IntifParseMailGetAttach, IntifParseMailSend
  <2> QED BY <2>1, <2>2, SdStays, GivenHonest
<1> QED BY <1>1, <1>2 DEF MapParses

LEMMA HonestMailStep == Honest /\ [AllNext]_<<vars, mailVars>> => Honest'
<1> SUFFICES ASSUME Honest, [AllNext]_<<vars, mailVars>> PROVE Honest'
  OBVIOUS
<1>1. CASE Exchanging
  BY <1>1, HonestStep DEF Exchanging
<1>2. CASE MailNext
  <2>1. \A a : Doing(a) \subseteq Player
    BY DEF Doing
  <2>2. ASSUME NEW p \in Player, MailBack(p) PROVE Honest'
    BY <2>2, SdStays DEF MailBack, Others, Rest
  <2> QED BY <1>2, <2>1, <2>2, WritingHonest, ReadingHonest, MailQuitHonest DEF MailNext
<1>3. CASE LinkLost \/ LinkBack
  BY <1>3, SdStays DEF LinkLost, LinkBack, Others, Rest
<1>4. CASE UNCHANGED <<vars, mailVars>>
  BY <1>4, SdStays DEF vars
<1> QED BY <1>1, <1>2, <1>3, <1>4, CharParsesHonest, MapParsesHonest DEF AllNext

\* Partners agree that they trade, and nobody has two exchanges open, in every
\* order of exchanges, letters and answers from the char-server.
THEOREM MailKeepsExchanges == MailSpec => [](PartnersAgree /\ OneExchangeAtATime)
<1>1. Honest => PartnersAgree /\ OneExchangeAtATime
  BY DEF Honest, PartnersAgree, Agree, OneExchangeAtATime, OneOpen
<1> QED BY <1>1, HonestAtMailInit, HonestMailStep, PTL DEF MailSpec


-----------------------------------------------------------------------------
(* Beside auctions as well: an item or a fee taken from a seller, a bid    *)
(* from a bidder, and what is refused and comes back at any moment.        *)

LEMMA HonestAtAuctionInit == AuctionInit => Honest
<1>1. AuctionInit => MailInit
  BY DEF AuctionInit, MailInit
<1> QED BY <1>1, HonestAtMailInit

LEMMA RegisterHonest ==
    ASSUME Honest, NEW p \in Player, NEW price, NEW buynow, AuctionRegister(p, price, buynow)
    PROVE  Honest'
<1>1. strayed' = strayed
  BY DEF AuctionRegister
<1>2. \E s \in offer[p] :
        sd' = [sd EXCEPT ![p] = [sd[p] EXCEPT !.inv = PcDelItem(@, s, 1),
                                              !.zeny = PcPayZeny(@, AuctionFee)]]
  BY DEF AuctionRegister, Changes
<1> QED BY <1>1, <1>2, CarriedChanges

LEMMA BidHonest ==
    ASSUME Honest, NEW p \in Player, NEW id, NEW bid, AuctionBid(p, id, bid)
    PROVE  Honest'
<1>1. strayed' = strayed
  BY DEF AuctionBid, Others, Rest
<1>2. sd' = [sd EXCEPT ![p] = [sd[p] EXCEPT !.inv = @, !.zeny = PcPayZeny(@, bid)]]
  BY DEF AuctionBid, Changes
<1> QED BY <1>1, <1>2, CarriedChanges

LEMMA AuctionNextHonest == Honest /\ AuctionNext => Honest'
<1> SUFFICES ASSUME Honest, AuctionNext PROVE Honest'
  OBVIOUS
<1>1. \A a : Doing(a) \subseteq Player
  BY DEF Doing
<1>2. ASSUME NEW p, AuctionCancelreg(p) \/ \E s \in Slot : AuctionSetitem(p, s) PROVE Honest'
  BY <1>2, SdStays DEF AuctionCancelreg, AuctionSetitem, Others, Rest
<1>3. ASSUME NEW p, NEW id, AuctionCancel(p, id) \/ AuctionClose(p, id) PROVE Honest'
  BY <1>3, SdStays DEF AuctionCancel, AuctionClose, Others, Rest
<1> QED BY <1>1, <1>2, <1>3, RegisterHonest, BidHonest DEF AuctionNext

-----------------------------------------------------------------------------
(* The char-server's handlers change nothing at the map-server. *)

LEMMA CharSideHonest ==
    ASSUME Honest,
           \/ MapifParseAuctionRegister \/ MapifParseAuctionBid \/ MapifParseAuctionCancel
           \/ MapifParseAuctionClose \/ \E id : AuctionEndTimer(id)
    PROVE  Honest'
<1>1. CharKeeps
  BY DEF MapifParseAuctionRegister, MapifParseAuctionBid, MapifParseAuctionCancel,
         MapifParseAuctionClose, AuctionEndTimer
<1> QED BY <1>1, SdStays DEF CharKeeps, Others, Rest

LEMMA AnswersHonest ==
    ASSUME Honest, IntifParseAuctionRegister \/ IntifParseAuctionBid \/ IntifParseAuctionClose
    PROVE  Honest'
<1>1. strayed' = strayed
  BY DEF IntifParseAuctionRegister, IntifParseAuctionBid, IntifParseAuctionClose, Others, Rest
<1>2. sd' = sd \/ Given(Head(toMap).p, Head(toMap).with)
  BY DEF IntifParseAuctionRegister, IntifParseAuctionBid, IntifParseAuctionClose
<1> QED BY <1>1, <1>2, SdStays, GivenHonest

LEMMA HonestPostStep == Honest /\ [PostNext]_<<vars, mailVars, auctionVars>> => Honest'
<1> SUFFICES ASSUME Honest, [PostNext]_<<vars, mailVars, auctionVars>> PROVE Honest'
  OBVIOUS
<1>1. CASE Elsewhere
  BY <1>1, HonestMailStep DEF Elsewhere
<1>2. CASE AuctionParses \/ \E id \in 1..MaxAuctions : AuctionEndTimer(id)
  BY <1>2, CharSideHonest, AnswersHonest DEF AuctionParses
<1>3. CASE UNCHANGED <<vars, mailVars, auctionVars>>
  BY <1>3, SdStays DEF vars
<1> QED BY <1>1, <1>2, <1>3, AuctionNextHonest DEF PostNext

\* Partners agree that they trade, and nobody has two exchanges open, in every
\* order of exchanges, letters, auctions and answers from the char-server.
THEOREM PostKeepsExchanges == PostSpec => [](PartnersAgree /\ OneExchangeAtATime)
<1>1. Honest => PartnersAgree /\ OneExchangeAtATime
  BY DEF Honest, PartnersAgree, Agree, OneExchangeAtATime, OneOpen
<1> QED BY <1>1, HonestAtAuctionInit, HonestPostStep, PTL DEF PostSpec

-----------------------------------------------------------------------------
(* The copies of inboxes.  The inductive invariant says what the messages  *)
(* that are on the way will make of each copy; it speaks of behaviours     *)
(* that have not lost the link.                                            *)

IsSeq(s) == \E S : s \in Seq(S)

\* i is a letter of p's, or a letter that is gone; ids are not used twice.
OwnId(p, i) == i \in Nat /\ i < nextMail /\ (i \in DOMAIN rows => rows[i].to = p)

\* What a copy b of p's inbox is made of.
IsLetter(l) == {"to", "status", "with"} \subseteq DOMAIN l
IsBox(p, b) ==
    /\ {"mails", "full", "changed"} \subseteq DOMAIN b
    /\ b.full \in BOOLEAN /\ b.changed \in BOOLEAN
    /\ \A i \in DOMAIN b.mails :
         /\ OwnId(p, i) /\ IsLetter(b.mails[i])
         /\ b.mails[i].status \in {"unread", "read"}

\* Requests that are on the way to the char-server.
Asking(p) == \E j \in DOMAIN toChar : toChar[j].type = "inbox" /\ toChar[j].p = p
Reading(i, n) == \E j \in DOMAIN toChar : j < n /\ toChar[j].type = "read" /\ toChar[j].id = i
Emptying(p, i) == \E j \in DOMAIN toChar : /\ toChar[j].type \in {"getattach", "return"}
                                           /\ toChar[j].p = p /\ toChar[j].id = i

\* A copy that is on the way is no further than the table ...
SentBox(b) ==
    \A i \in DOMAIN b.mails \intersect DOMAIN rows :
        /\ b.mails[i].with = rows[i].with \/ rows[i].with = NoEnclosure
        /\ b.mails[i].status = "read" => rows[i].status = "read"

\* ... and one that has arrived only by what was asked for since.
HeldBox(p, b) ==
    \A i \in DOMAIN b.mails \intersect DOMAIN rows :
        /\ \/ b.mails[i].with = rows[i].with \/ rows[i].with = NoEnclosure
           \/ b.mails[i].with = NoEnclosure /\ Emptying(p, i)
        /\ b.mails[i].status = "read" =>
             rows[i].status = "read" \/ Reading(i, Len(toChar) + 1)

AboutLetter == {"read", "getattach", "delete", "return"}
AsksRight ==
    \A n \in DOMAIN toChar :
        /\ toChar[n].type \in AboutLetter => OwnId(toChar[n].p, toChar[n].id)
        /\ toChar[n].type = "getattach" /\ toChar[n].id \in DOMAIN rows =>
             rows[toChar[n].id].status = "read" \/ Reading(toChar[n].id, n)

\* What the messages to the map-server do to p's copy: the k-th is a new one, or
\* none is new after the one it has; what comes later announces and takes out letters.
IsNewBox(p, m) == m.type = "inbox" /\ m.p = p
Announces(p, m) == m.type = "new" /\ m.p = p
TakesSome(p, m) == m.p = p /\ (m.type = "deleted" \/ (m.type = "returned" /\ ~m.fail))
TakesOut(p, m, i) == TakesSome(p, m) /\ m.id = i

After(k) == {j \in DOMAIN toMap : j > k}
BoxAt(p, k) == IF k = 0 THEN inbox[p] ELSE toMap[k].box
IsLast(p, k) ==
    /\ k = 0 \/ (k \in DOMAIN toMap /\ IsNewBox(p, toMap[k]))
    /\ \A j \in After(k) : ~IsNewBox(p, toMap[j])
Quiet(p, k) == ~BoxAt(p, k).changed /\ \A j \in After(k) : ~Announces(p, toMap[j])
Left(p, k) == {i \in DOMAIN BoxAt(p, k).mails : \A j \in After(k) : ~TakesOut(p, toMap[j], i)}

Agrees(p, k) ==
    IF BoxAt(p, k).full
    THEN \/ \E j \in After(k) : TakesSome(p, toMap[j])
         \/ DOMAIN BoxAt(p, k).mails = Listed(p)
    ELSE Left(p, k) = LettersTo(p) /\ Listed(p) = LettersTo(p)

WillAgree(p) == \A k \in Nat : IsLast(p, k) /\ Quiet(p, k) => Agrees(p, k)

Rows == /\ nextMail \in Nat
        /\ \A i \in DOMAIN rows : /\ i \in Nat /\ i < nextMail /\ IsLetter(rows[i])
                                 /\ rows[i].status \in {"new", "unread", "read"}

\* The inductive invariant.
Synced ==
    /\ IsSeq(toChar) /\ IsSeq(toMap) /\ up
    /\ Rows
    /\ DOMAIN inbox = Player
    /\ \A p \in Player : IsBox(p, inbox[p]) /\ HeldBox(p, inbox[p])
    /\ \A k \in DOMAIN toMap : toMap[k].type = "inbox" =>
                                  IsBox(toMap[k].p, toMap[k].box) /\ SentBox(toMap[k].box)
    /\ AsksRight
    /\ \A p \in Player \ away : Asking(p) \/ WillAgree(p)

InSync == losses \in Nat /\ (losses = 0 => Synced)

-----------------------------------------------------------------------------
LEMMA Joined ==
    ASSUME NEW s, NEW t, IsSeq(s), IsSeq(t)
    PROVE  /\ IsSeq(s \o t)
           /\ Len(s) \in Nat /\ Len(t) \in Nat
           /\ DOMAIN s = 1..Len(s) /\ DOMAIN t = 1..Len(t)
           /\ DOMAIN (s \o t) = 1..(Len(s) + Len(t))
           /\ \A j \in 1..Len(s) : (s \o t)[j] = s[j]
           /\ \A j \in 1..Len(t) : (s \o t)[Len(s) + j] = t[j]
           /\ Len(s \o t) = Len(s) + Len(t)
<1>1. PICK S : s \in Seq(S)
  BY DEF IsSeq
<1>2. PICK T : t \in Seq(T)
  BY DEF IsSeq
<1>3. s \in Seq(S \union T) /\ t \in Seq(S \union T)
  BY <1>1, <1>2
<1> QED BY <1>3 DEF IsSeq

LEMMA Tailed ==
    ASSUME NEW s, IsSeq(s), s # << >>
    PROVE  /\ IsSeq(Tail(s))
           /\ Len(s) \in Nat \ {0} /\ Len(Tail(s)) = Len(s) - 1
           /\ DOMAIN s = 1..Len(s) /\ DOMAIN Tail(s) = 1..(Len(s) - 1)
           /\ \A j \in 1..(Len(s) - 1) : Tail(s)[j] = s[j + 1]
           /\ Head(s) = s[1]
<1>1. PICK S : s \in Seq(S)
  BY DEF IsSeq
<1>2. Tail(s) \in Seq(S)
  BY <1>1
<1> QED BY <1>1, <1>2 DEF IsSeq

LEMMA Short == ASSUME NEW m PROVE IsSeq(<< >>) /\ IsSeq(<<m>>)
<1>1. << >> \in Seq({m}) /\ <<m>> \in Seq({m})
  OBVIOUS
<1> QED BY <1>1 DEF IsSeq

\* Every inbox that can list all letters lists them when there are fewer.
LEMMA FewerListed ==
    ASSUME NEW p, Rows, Rows', LettersTo(p)' \subseteq LettersTo(p), Listed(p) = LettersTo(p)
    PROVE  Listed(p)' = LettersTo(p)'
<1> SUFFICES ASSUME NEW i \in LettersTo(p)'
             PROVE  i \in Listed(p)'
  BY DEF Listed
<1> DEFINE old == {j \in LettersTo(p) : j <= i}
           new == {j \in LettersTo(p)' : j <= i}
<1>1. IsFiniteSet(old)
  <2>1. old \subseteq 0..nextMail /\ nextMail \in Int
    BY DEF Rows, LettersTo
  <2>2. IsFiniteSet(0..nextMail)
    BY <2>1, FS_Interval
  <2> QED BY <2>1, <2>2, FS_Subset
<1>2. new \subseteq old
  OBVIOUS
<1>3. IsFiniteSet(new) /\ Cardinality(new) <= Cardinality(old)
  BY <1>1, <1>2, FS_Subset
<1>4. Cardinality(new) \in Nat /\ Cardinality(old) \in Nat
  BY <1>1, <1>3, FS_CardinalityType
<1>5. Cardinality(old) <= MaxInbox
  BY DEF Listed
<1>6. Cardinality(new) <= MaxInbox
  BY <1>3, <1>4, <1>5, LettersAssumption
<1> QED BY <1>6 DEF Listed

LEMMA SameListed ==
    ASSUME NEW p, LettersTo(p)' = LettersTo(p)
    PROVE  Listed(p)' = Listed(p)
BY DEF Listed

-----------------------------------------------------------------------------
(* What the map-server is told. *)

\* The messages t tell p what happens to its letters.
Tells(p, t) ==
    \/ \E j \in DOMAIN t : Announces(p, t[j])
    \/ LettersTo(p)' = LettersTo(p) /\ \A j \in DOMAIN t : ~TakesSome(p, t[j])
    \/ /\ \E j \in DOMAIN t : TakesSome(p, t[j])
       /\ LettersTo(p)' = {i \in LettersTo(p) : \A j \in DOMAIN t : ~TakesOut(p, t[j], i)}

LEMMA AppendAgrees ==
    ASSUME NEW p, IsSeq(toMap), NEW t, IsSeq(t), toMap' = toMap \o t, inbox' = inbox,
           Rows, Rows', WillAgree(p),
           \A j \in DOMAIN t : ~IsNewBox(p, t[j]), Tells(p, t)
    PROVE  WillAgree(p)'
<1> SUFFICES ASSUME NEW k \in Nat, IsLast(p, k)', Quiet(p, k)'
             PROVE  Agrees(p, k)'
  BY DEF WillAgree
<1> DEFINE L == Len(toMap)
<1>1. /\ L \in Nat /\ Len(t) \in Nat
      /\ DOMAIN toMap = 1..L /\ DOMAIN t = 1..Len(t)
      /\ DOMAIN toMap' = 1..(L + Len(t))
      /\ \A j \in 1..L : toMap'[j] = toMap[j]
      /\ \A j \in 1..Len(t) : toMap'[L + j] = t[j]
  BY Joined
<1>2. \A j \in DOMAIN toMap' : j > L => j - L \in DOMAIN t /\ toMap'[j] = t[j - L]
  <2> SUFFICES ASSUME NEW j \in DOMAIN toMap', j > L
               PROVE  j - L \in DOMAIN t /\ toMap'[j] = t[j - L]
    OBVIOUS
  <2>1. j - L \in 1..Len(t) /\ L + (j - L) = j
    BY <1>1
  <2> QED BY <1>1, <2>1
<1> HIDE DEF L
<1>3. k \in 0..L
  BY <1>1, <1>2 DEF IsLast, IsNewBox
<1>4. /\ After(k) \subseteq After(k)'
      /\ \A j \in After(k) : toMap'[j] = toMap[j]
      /\ \A j \in DOMAIN t : L + j \in After(k)' /\ toMap'[L + j] = t[j]
      /\ \A j \in After(k)' : j \in After(k) \/ (j - L \in DOMAIN t /\ toMap'[j] = t[j - L])
  BY <1>1, <1>2, <1>3 DEF After
<1>5. BoxAt(p, k)' = BoxAt(p, k)
  BY <1>1, <1>3 DEF BoxAt
<1>6. IsLast(p, k) /\ Quiet(p, k)
  <2>1. \A j \in After(k) : ~IsNewBox(p, toMap[j]) /\ ~Announces(p, toMap[j])
    BY <1>4 DEF IsLast, Quiet, IsNewBox, Announces
  <2>2. k = 0 \/ (k \in DOMAIN toMap /\ IsNewBox(p, toMap[k]))
    BY <1>1, <1>3 DEF IsLast, IsNewBox
  <2> QED BY <1>5, <2>1, <2>2 DEF IsLast, Quiet
<1>7. Agrees(p, k)
  BY <1>6 DEF WillAgree
<1>8. \A j \in DOMAIN t : ~Announces(p, t[j])
  BY <1>4 DEF Quiet
<1>9. CASE BoxAt(p, k).full /\ \E j \in After(k) : TakesSome(p, toMap[j])
  BY <1>4, <1>5, <1>9 DEF Agrees
<1>10. CASE BoxAt(p, k).full /\ DOMAIN BoxAt(p, k).mails = Listed(p)
  <2>1. CASE \E j \in DOMAIN t : TakesSome(p, t[j])
    BY <1>4, <1>5, <1>10, <2>1 DEF Agrees
  <2>2. CASE \A j \in DOMAIN t : ~TakesSome(p, t[j])
    BY <1>5, <1>8, <1>10, <2>2, SameListed DEF Agrees, Tells
  <2> QED BY <2>1, <2>2
<1>11. CASE ~BoxAt(p, k).full
  <2>1. Left(p, k) = LettersTo(p) /\ Listed(p) = LettersTo(p)
    BY <1>7, <1>11 DEF Agrees
  <2>2. LettersTo(p)' = {i \in LettersTo(p) : \A j \in DOMAIN t : ~TakesOut(p, t[j], i)}
    BY <1>8 DEF TakesOut, Tells
  <2>3. \A i : (\A j \in After(k)' : ~TakesOut(p, toMap'[j], i))
                 <=> /\ \A j \in After(k) : ~TakesOut(p, toMap[j], i)
                     /\ \A j \in DOMAIN t : ~TakesOut(p, t[j], i)
    BY <1>4
  <2>4. Left(p, k)' = {i \in Left(p, k) : \A j \in DOMAIN t : ~TakesOut(p, t[j], i)}
    BY <1>5, <2>3 DEF Left
  <2>5. Left(p, k)' = LettersTo(p)'
    BY <2>1, <2>2, <2>4
  <2>6. Listed(p)' = LettersTo(p)'
    BY <2>1, <2>2, FewerListed
  <2> QED BY <1>5, <1>11, <2>5, <2>6 DEF Agrees
<1> QED BY <1>7, <1>9, <1>10, <1>11 DEF Agrees

\* A new copy is as the table is.
LEMMA NewBoxAgrees ==
    ASSUME NEW p, IsSeq(toMap), NEW m, IsNewBox(p, m), m.box = InboxOf(p),
           toMap' = toMap \o <<m>>, LettersTo(p)' = LettersTo(p)
    PROVE  WillAgree(p)'
<1> SUFFICES ASSUME NEW k \in Nat, IsLast(p, k)', Quiet(p, k)'
             PROVE  Agrees(p, k)'
  BY DEF WillAgree
<1> DEFINE L == Len(toMap)
<1>1. /\ L \in Nat /\ Len(<<m>>) = 1 /\ <<m>>[1] = m
      /\ DOMAIN toMap' = 1..(L + 1)
      /\ toMap'[L + 1] = m
  BY Joined, Short
<1> HIDE DEF L
<1>2. k = L + 1
  <2>1. k \in 0..(L + 1)
    BY <1>1 DEF IsLast
  <2>2. ~(L + 1 > k)
    BY <1>1 DEF IsLast, After
  <2> QED BY <1>1, <2>1, <2>2
<1>3. After(k)' = {} /\ BoxAt(p, k)' = InboxOf(p)
  BY <1>1, <1>2 DEF After, BoxAt
<1>4. Listed(p)' = Listed(p) /\ Listed(p) \subseteq LettersTo(p)
  BY SameListed DEF Listed
<1>5. DOMAIN InboxOf(p).mails = Listed(p) /\ InboxOf(p).full = (Listed(p) # LettersTo(p))
  BY DEF InboxOf
<1>6. Left(p, k)' = Listed(p)
  BY <1>3, <1>5 DEF Left
<1> QED BY <1>3, <1>4, <1>5, <1>6 DEF Agrees

\* The map-server has handled a message.
LEMMA TailAgrees ==
    ASSUME NEW p, IsSeq(toMap), toMap # << >>, toMap' = Tail(toMap), WillAgree(p),
           UNCHANGED <<rows, nextMail>>,
           IsNewBox(p, Head(toMap)) => inbox'[p] = Head(toMap).box,
           Announces(p, Head(toMap)) => inbox'[p].changed,
           ~IsNewBox(p, Head(toMap)) /\ ~Announces(p, Head(toMap)) =>
             /\ inbox'[p].full = inbox[p].full /\ inbox'[p].changed = inbox[p].changed
             /\ ~(inbox[p].full /\ TakesSome(p, Head(toMap)))
             /\ DOMAIN inbox'[p].mails = {i \in DOMAIN inbox[p].mails : ~TakesOut(p, Head(toMap), i)}
    PROVE  WillAgree(p)'
<1> SUFFICES ASSUME NEW k \in Nat, IsLast(p, k)', Quiet(p, k)'
             PROVE  Agrees(p, k)'
  BY DEF WillAgree
<1> DEFINE L == Len(toMap)
           h == Head(toMap)
<1>1. /\ L \in Nat \ {0} /\ DOMAIN toMap = 1..L /\ DOMAIN toMap' = 1..(L - 1)
      /\ \A j \in 1..(L - 1) : toMap'[j] = toMap[j + 1]
      /\ h = toMap[1]
  BY Tailed
<1>2. \A j \in DOMAIN toMap : j > 1 => j - 1 \in DOMAIN toMap' /\ toMap'[j - 1] = toMap[j]
  <2> SUFFICES ASSUME NEW j \in DOMAIN toMap, j > 1
               PROVE  j - 1 \in DOMAIN toMap' /\ toMap'[j - 1] = toMap[j]
    OBVIOUS
  <2>1. j - 1 \in 1..(L - 1) /\ (j - 1) + 1 = j
    BY <1>1
  <2> QED BY <1>1, <2>1
<1>3. LettersTo(p)' = LettersTo(p) /\ Listed(p)' = Listed(p)
  BY SameListed DEF LettersTo
<1> HIDE DEF L, h
<1>4. /\ \A j \in After(k)' : j + 1 \in After(k + 1) /\ toMap'[j] = toMap[j + 1]
      /\ \A j \in After(k + 1) : j - 1 \in After(k)' /\ toMap'[j - 1] = toMap[j]
  BY <1>1, <1>2 DEF After
\* The k-th message was the one after.
<1>5. ASSUME BoxAt(p, k)' = BoxAt(p, k + 1), IsLast(p, k + 1) PROVE Agrees(p, k)'
  <2>1. Quiet(p, k + 1)
    BY <1>4, <1>5 DEF Quiet
  <2>2. Agrees(p, k + 1)
    BY <1>5, <2>1 DEF WillAgree
  <2>3. \A i : (\A j \in After(k)' : ~TakesOut(p, toMap'[j], i))
                 <=> (\A j \in After(k + 1) : ~TakesOut(p, toMap[j], i))
    BY <1>4
  <2>4. Left(p, k)' = Left(p, k + 1)
    BY <1>5, <2>3 DEF Left
  <2>5. (\E j \in After(k + 1) : TakesSome(p, toMap[j])) => \E j \in After(k)' : TakesSome(p, toMap'[j])
    BY <1>4
  <2> QED BY <1>3, <1>5, <2>2, <2>4, <2>5 DEF Agrees
<1>6. CASE k # 0
  <2>1. k \in DOMAIN toMap' /\ toMap'[k] = toMap[k + 1] /\ k + 1 \in DOMAIN toMap
    BY <1>1, <1>6 DEF IsLast
  <2>2. BoxAt(p, k)' = BoxAt(p, k + 1)
    BY <1>6, <2>1 DEF BoxAt
  <2>3. IsLast(p, k + 1)
    BY <1>4, <1>6, <2>1 DEF IsLast
  <2> QED BY <1>5, <2>2, <2>3
<1>7. CASE k = 0 /\ IsNewBox(p, h)
  <2>1. BoxAt(p, k)' = BoxAt(p, k + 1)
    BY <1>1, <1>7 DEF BoxAt, h
  <2>2. IsNewBox(p, toMap[k + 1]) /\ k + 1 \in DOMAIN toMap
    BY <1>1, <1>7 DEF h
  <2>3. \A j \in After(k + 1) : ~IsNewBox(p, toMap[j])
    BY <1>4 DEF IsLast, IsNewBox
  <2>4. IsLast(p, k + 1)
    BY <2>2, <2>3 DEF IsLast
  <2> QED BY <1>5, <2>1, <2>4
<1>8. CASE k = 0 /\ ~IsNewBox(p, h)
  <2>1. ~Announces(p, h)
    BY <1>8 DEF Quiet, BoxAt, h
  <2>2. /\ inbox'[p].full = inbox[p].full /\ inbox'[p].changed = inbox[p].changed
        /\ ~(inbox[p].full /\ TakesSome(p, h))
        /\ DOMAIN inbox'[p].mails = {i \in DOMAIN inbox[p].mails : ~TakesOut(p, h, i)}
    BY <1>8, <2>1 DEF h
  <2>3. /\ 1 \in After(0)
        /\ \A j \in After(0) : j = 1 \/ j \in After(1)
        /\ \A j \in After(1) : j \in After(0)
    BY <1>1 DEF After
  <2>4. /\ \A j \in After(0)' : j + 1 \in After(0) /\ toMap'[j] = toMap[j + 1]
        /\ \A j \in After(0) : (j = 1 /\ toMap[j] = h)
                                 \/ (j - 1 \in After(0)' /\ toMap'[j - 1] = toMap[j])
    <3>1. k = 0 /\ k + 1 = 1
      BY <1>8
    <3>2. \A j \in After(0)' : j + 1 \in After(1) /\ toMap'[j] = toMap[j + 1]
      BY <1>4, <3>1
    <3>3. \A j \in After(1) : j - 1 \in After(0)' /\ toMap'[j - 1] = toMap[j]
      BY <1>4, <3>1
    <3>4. \A j \in After(0)' : j + 1 \in After(0)
      BY <2>3, <3>2
    <3> QED BY <1>1, <2>3, <3>2, <3>3, <3>4
  <2>5. IsLast(p, 0)
    BY <1>8, <2>4 DEF IsLast
  <2>6. Quiet(p, 0)
    BY <1>8, <2>1, <2>2, <2>4 DEF Quiet, BoxAt
  <2>7. Agrees(p, 0)
    BY <2>5, <2>6 DEF WillAgree
  <2>8. CASE inbox[p].full
    <3>1. DOMAIN inbox'[p].mails = DOMAIN inbox[p].mails
      BY <2>2, <2>8 DEF TakesOut
    <3> QED BY <1>3, <1>8, <2>2, <2>4, <2>7, <2>8, <3>1 DEF Agrees, BoxAt
  <2>9. CASE ~inbox[p].full
    <3>1. Left(p, 0) = LettersTo(p) /\ Listed(p) = LettersTo(p)
      BY <2>7, <2>9 DEF Agrees, BoxAt
    <3>2. \A i : (\A j \in After(0) : ~TakesOut(p, toMap[j], i))
                   <=> /\ ~TakesOut(p, h, i)
                       /\ \A j \in After(0)' : ~TakesOut(p, toMap'[j], i)
      BY <1>1, <2>3, <2>4
    <3>3. Left(p, 0)' = Left(p, 0)
      BY <2>2, <3>2 DEF Left, BoxAt
    <3> QED BY <1>3, <1>8, <2>2, <2>9, <3>1, <3>3 DEF Agrees, BoxAt
  <2> QED BY <2>8, <2>9
<1> QED BY <1>6, <1>7, <1>8

\* The map-server does something else to p's copy.
LEMMA SameAgrees ==
    ASSUME NEW p, WillAgree(p), UNCHANGED <<toMap, rows, nextMail>>,
           DOMAIN inbox'[p].mails = DOMAIN inbox[p].mails,
           inbox'[p].full = inbox[p].full, inbox'[p].changed = inbox[p].changed
    PROVE  WillAgree(p)'
<1> SUFFICES ASSUME NEW k \in Nat, IsLast(p, k)', Quiet(p, k)'
             PROVE  Agrees(p, k)'
  BY DEF WillAgree
<1>1. LettersTo(p)' = LettersTo(p) /\ Listed(p)' = Listed(p)
  BY SameListed DEF LettersTo
<1>2. After(k)' = After(k)
  BY DEF After
<1>3. /\ DOMAIN BoxAt(p, k)'.mails = DOMAIN BoxAt(p, k).mails
      /\ BoxAt(p, k)'.full = BoxAt(p, k).full /\ BoxAt(p, k)'.changed = BoxAt(p, k).changed
  BY DEF BoxAt
<1>4. IsLast(p, k) /\ Quiet(p, k)
  BY <1>2, <1>3 DEF IsLast, Quiet
<1>5. Agrees(p, k)
  BY <1>4 DEF WillAgree
<1>6. Left(p, k)' = Left(p, k)
  BY <1>2, <1>3 DEF Left
<1> QED BY <1>1, <1>2, <1>3, <1>5, <1>6 DEF Agrees

-----------------------------------------------------------------------------
(* What the char-server is asked. *)

LEMMA MoreAsked ==
    ASSUME IsSeq(toChar), NEW msgs, IsSeq(msgs), toChar' = toChar \o msgs
    PROVE  /\ \A p : Asking(p) => Asking(p)'
           /\ \A p : (\E j \in DOMAIN msgs : msgs[j].type = "inbox" /\ msgs[j].p = p) => Asking(p)'
           /\ \A p, i : Emptying(p, i) => Emptying(p, i)'
           /\ \A p, i : (\E j \in DOMAIN msgs : /\ msgs[j].type \in {"getattach", "return"}
                                                /\ msgs[j].p = p /\ msgs[j].id = i)
                          => Emptying(p, i)'
           /\ \A i, n : Reading(i, n) => Reading(i, n)'
           /\ \A i : Reading(i, Len(toChar) + 1) => Reading(i, Len(toChar) + 1)'
           /\ \A i : (\E j \in DOMAIN msgs : msgs[j].type = "read" /\ msgs[j].id = i)
                       => Reading(i, Len(toChar) + 1)'
           /\ \A i, at : \A n \in DOMAIN msgs :
                /\ at = Len(toChar) + n
                /\ \E j \in DOMAIN msgs : j < n /\ msgs[j].type = "read" /\ msgs[j].id = i
                => Reading(i, at)'
<1> DEFINE L == Len(toChar)
<1>1. /\ L \in Nat /\ Len(msgs) \in Nat
      /\ DOMAIN toChar = 1..L /\ DOMAIN msgs = 1..Len(msgs)
      /\ DOMAIN toChar' = 1..(L + Len(msgs)) /\ Len(toChar') = L + Len(msgs)
      /\ \A j \in 1..L : toChar'[j] = toChar[j]
      /\ \A j \in 1..Len(msgs) : toChar'[L + j] = msgs[j]
  BY Joined
<1>2. Len(toChar)' = L + Len(msgs)
  BY <1>1
<1> HIDE DEF L
<1>3. /\ \A j \in DOMAIN toChar : j \in DOMAIN toChar' /\ toChar'[j] = toChar[j] /\ j < L + 1
      /\ \A j \in DOMAIN msgs : /\ L + j \in DOMAIN toChar' /\ toChar'[L + j] = msgs[j]
                                /\ L + j < L + Len(msgs) + 1
  BY <1>1
<1>4. \A j \in DOMAIN toChar : j < L + Len(msgs) + 1
  BY <1>1
<1>5. \A j, n \in DOMAIN msgs : j < n => L + j < L + n
  BY <1>1
<1>6. \A p : Asking(p) => Asking(p)'
  BY <1>3 DEF Asking
<1>7. \A p : (\E j \in DOMAIN msgs : msgs[j].type = "inbox" /\ msgs[j].p = p) => Asking(p)'
  BY <1>3 DEF Asking
<1>8. \A p, i : Emptying(p, i) => Emptying(p, i)'
  BY <1>3 DEF Emptying
<1>9. \A p, i : (\E j \in DOMAIN msgs : /\ msgs[j].type \in {"getattach", "return"}
                                        /\ msgs[j].p = p /\ msgs[j].id = i)
                  => Emptying(p, i)'
  BY <1>3 DEF Emptying
<1>10. \A i, n : Reading(i, n) => Reading(i, n)'
  BY <1>3 DEF Reading
<1>11. \A i : Reading(i, L + 1) => Reading(i, Len(toChar) + 1)'
  BY <1>2, <1>3, <1>4 DEF Reading
<1>12. \A i : (\E j \in DOMAIN msgs : msgs[j].type = "read" /\ msgs[j].id = i)
                => Reading(i, Len(toChar) + 1)'
  BY <1>2, <1>3 DEF Reading
<1>13. \A i, at : \A n \in DOMAIN msgs :
         /\ at = L + n
         /\ \E j \in DOMAIN msgs : j < n /\ msgs[j].type = "read" /\ msgs[j].id = i
         => Reading(i, at)'
  <2> SUFFICES ASSUME NEW i, NEW at, NEW n \in DOMAIN msgs, at = L + n, NEW j \in DOMAIN msgs,
                      j < n, msgs[j].type = "read", msgs[j].id = i
               PROVE  Reading(i, at)'
    OBVIOUS
  <2>1. L + j \in DOMAIN toChar' /\ toChar'[L + j] = msgs[j] /\ L + j < at
    BY <1>3, <1>5
  <2> QED BY <2>1 DEF Reading
<1> QED BY <1>6, <1>7, <1>8, <1>9, <1>10, <1>11, <1>12, <1>13 DEF L

LEMMA HeadGone ==
    ASSUME IsSeq(toChar), toChar # << >>, toChar' = Tail(toChar)
    PROVE  LET m == Head(toChar)
           IN  /\ \A p : Asking(p) => Asking(p)' \/ (m.type = "inbox" /\ m.p = p)
               /\ \A p, i : Emptying(p, i) =>
                    \/ Emptying(p, i)'
                    \/ m.type \in {"getattach", "return"} /\ m.p = p /\ m.id = i
               /\ \A i : Reading(i, Len(toChar) + 1) =>
                    Reading(i, Len(toChar) + 1)' \/ (m.type = "read" /\ m.id = i)
               /\ \A n \in DOMAIN toChar' :
                    /\ n + 1 \in DOMAIN toChar /\ toChar'[n] = toChar[n + 1]
                    /\ \A i : Reading(i, n + 1) => Reading(i, n)' \/ (m.type = "read" /\ m.id = i)
<1> DEFINE L == Len(toChar)
           m == Head(toChar)
<1>1. /\ L \in Nat \ {0} /\ Len(toChar') = L - 1
      /\ DOMAIN toChar = 1..L /\ DOMAIN toChar' = 1..(L - 1)
      /\ \A j \in 1..(L - 1) : toChar'[j] = toChar[j + 1]
      /\ m = toChar[1]
  BY Tailed
<1>2. Len(toChar)' = L - 1
  BY <1>1
<1> HIDE DEF L, m
<1>3. \A j \in DOMAIN toChar : \/ toChar[j] = m
                               \/ j - 1 \in DOMAIN toChar' /\ toChar'[j - 1] = toChar[j]
  <2> SUFFICES ASSUME NEW j \in DOMAIN toChar, j # 1
               PROVE  j - 1 \in DOMAIN toChar' /\ toChar'[j - 1] = toChar[j]
    BY <1>1
  <2>1. j - 1 \in 1..(L - 1) /\ (j - 1) + 1 = j
    BY <1>1
  <2> QED BY <1>1, <2>1
<1>4. \A j \in DOMAIN toChar : j - 1 < (L - 1) + 1
  BY <1>1
<1>5. \A p : Asking(p) => Asking(p)' \/ (m.type = "inbox" /\ m.p = p)
  BY <1>3 DEF Asking
<1>6. \A p, i : Emptying(p, i) =>
         \/ Emptying(p, i)'
         \/ m.type \in {"getattach", "return"} /\ m.p = p /\ m.id = i
  BY <1>3 DEF Emptying
<1>7. \A i : Reading(i, L + 1) => Reading(i, Len(toChar) + 1)' \/ (m.type = "read" /\ m.id = i)
  BY <1>2, <1>3, <1>4 DEF Reading
<1>8. \A n \in DOMAIN toChar' :
        /\ n + 1 \in DOMAIN toChar /\ toChar'[n] = toChar[n + 1]
        /\ \A j \in DOMAIN toChar : j < n + 1 => j - 1 < n
  BY <1>1
<1>9. \A n \in DOMAIN toChar' : \A i : Reading(i, n + 1) => Reading(i, n)' \/ (m.type = "read" /\ m.id = i)
  BY <1>3, <1>8 DEF Reading
<1> QED BY <1>5, <1>6, <1>7, <1>8, <1>9 DEF L, m

-----------------------------------------------------------------------------
(* How the table changes. *)

\* Letters come with new ids; what is there stays who it is for, is emptied or
\* read, or goes.
Ages ==
    /\ Rows' /\ nextMail' >= nextMail
    /\ \A i \in DOMAIN rows' : i < nextMail =>
         /\ i \in DOMAIN rows /\ rows'[i].to = rows[i].to
         /\ rows'[i].with = rows[i].with \/ rows'[i].with = NoEnclosure
         /\ rows[i].status = "read" => rows'[i].status = "read"

LEMMA OwnStays ==
    ASSUME Rows, Ages
    PROVE  \A p, i : OwnId(p, i) => OwnId(p, i)'
BY DEF Rows, Ages, OwnId

LEMMA BoxesStay ==
    ASSUME Rows, Ages
    PROVE  \A p, b : IsBox(p, b) => /\ IsBox(p, b)'
                                    /\ SentBox(b) => SentBox(b)'
<1> TAKE p, b
<1> SUFFICES ASSUME IsBox(p, b) PROVE IsBox(p, b)' /\ (SentBox(b) => SentBox(b)')
  OBVIOUS
<1>1. IsBox(p, b)'
  BY OwnStays DEF IsBox
<1>2. ASSUME SentBox(b) PROVE SentBox(b)'
  BY <1>2 DEF SentBox, IsBox, OwnId, Ages
<1> QED BY <1>1, <1>2

LEMMA NothingAges == ASSUME Rows, UNCHANGED <<rows, nextMail>> PROVE Ages
BY DEF Rows, Ages

-----------------------------------------------------------------------------
(* The steps of both servers. *)

\* The char-server has handled m, what it was about to do to a letter is done.
Handled(m) ==
    m.id \in DOMAIN rows' =>
      /\ m.type = "read" => rows'[m.id].status = "read"
      /\ m.type \in {"getattach", "return"} => rows'[m.id].with = NoEnclosure

\* The parts of the invariant, of a copy that is named otherwise then.
LEMMA BoxThen ==
    ASSUME NEW p, NEW b, IsBox(p, b)'
    PROVE  /\ b = inbox'[p] => IsBox(p, inbox[p])'
           /\ \A k : p = toMap'[k].p /\ b = toMap'[k].box =>
                /\ IsBox(toMap[k].p, toMap[k].box)'
                /\ SentBox(b)' => SentBox(toMap[k].box)'
BY DEF IsBox, OwnId, SentBox

LEMMA HeldThen ==
    ASSUME NEW p, NEW b, b = inbox'[p],
           \A i \in DOMAIN b.mails : i \in DOMAIN rows' =>
             /\ \/ b.mails[i].with = rows'[i].with \/ rows'[i].with = NoEnclosure
                \/ b.mails[i].with = NoEnclosure /\ Emptying(p, i)'
             /\ b.mails[i].status = "read" =>
                  rows'[i].status = "read" \/ Reading(i, Len(toChar) + 1)'
    PROVE  HeldBox(p, inbox[p])'
BY DEF HeldBox

LEMMA CharSync ==
    ASSUME Synced, Ages, UNCHANGED <<inbox, away, up>>,
           NEW t, IsSeq(t), toMap' = toMap \o t,
           \A j \in DOMAIN t : t[j].type = "inbox" =>
                IsBox(t[j].p, t[j].box)' /\ SentBox(t[j].box)',
           \/ toChar' = toChar
           \/ toChar # << >> /\ toChar' = Tail(toChar) /\ Handled(Head(toChar)),
           \A p \in Player \ away : Asking(p)' \/ WillAgree(p)'
    PROVE  Synced'
<1>1. /\ IsSeq(toChar) /\ IsSeq(toMap) /\ up /\ Rows /\ DOMAIN inbox = Player
      /\ \A p \in Player : IsBox(p, inbox[p]) /\ HeldBox(p, inbox[p])
      /\ \A k \in DOMAIN toMap : toMap[k].type = "inbox" =>
                                    IsBox(toMap[k].p, toMap[k].box) /\ SentBox(toMap[k].box)
      /\ AsksRight
  BY DEF Synced
<1>2. Rows' /\ IsSeq(toMap')
  BY <1>1, Joined DEF Ages
<1>3. IsSeq(toChar')
  BY <1>1, Tailed
<1>4. \A k \in DOMAIN toMap' :
         \/ k \in DOMAIN toMap /\ toMap'[k] = toMap[k]
         \/ \E j \in DOMAIN t : toMap'[k] = t[j]
  <2>1. /\ Len(toMap) \in Nat /\ Len(t) \in Nat /\ DOMAIN toMap = 1..Len(toMap)
        /\ DOMAIN t = 1..Len(t)
        /\ DOMAIN toMap' = 1..(Len(toMap) + Len(t))
        /\ \A j \in 1..Len(toMap) : toMap'[j] = toMap[j]
        /\ \A j \in 1..Len(t) : toMap'[Len(toMap) + j] = t[j]
    BY <1>1, Joined
  <2> TAKE k \in DOMAIN toMap'
  <2>2. CASE k > Len(toMap)
    <3>1. k - Len(toMap) \in 1..Len(t) /\ Len(toMap) + (k - Len(toMap)) = k
      BY <2>1, <2>2
    <3> QED BY <2>1, <3>1
  <2> QED BY <2>1, <2>2
<1>5. ASSUME NEW k \in DOMAIN toMap', toMap'[k].type = "inbox"
      PROVE  IsBox(toMap[k].p, toMap[k].box)' /\ SentBox(toMap[k].box)'
  <2>1. PICK p, b : p = toMap'[k].p /\ b = toMap'[k].box
    OBVIOUS
  <2>2. CASE k \in DOMAIN toMap /\ toMap'[k] = toMap[k]
    <3>1. IsBox(p, b) /\ SentBox(b)
      BY <1>1, <1>5, <2>1, <2>2
    <3> QED BY <1>1, <2>1, <3>1, BoxesStay, BoxThen
  <2>3. CASE \E j \in DOMAIN t : toMap'[k] = t[j]
    BY <1>5, <2>1, <2>3, BoxThen
  <2> QED BY <1>4, <2>2, <2>3
<1>6. ASSUME NEW p \in Player
      PROVE  IsBox(p, inbox[p])' /\ HeldBox(p, inbox[p])'
  <2>1. PICK b : b = inbox[p]
    OBVIOUS
  <2>2. IsBox(p, b) /\ HeldBox(p, b) /\ b = inbox'[p]
    BY <1>1, <2>1
  <2>3. IsBox(p, b)'
    BY <1>1, <2>2, BoxesStay
  <2>4. ASSUME NEW i \in DOMAIN b.mails, i \in DOMAIN rows'
        PROVE  /\ \/ b.mails[i].with = rows'[i].with \/ rows'[i].with = NoEnclosure
                  \/ b.mails[i].with = NoEnclosure /\ Emptying(p, i)'
               /\ b.mails[i].status = "read" =>
                    rows'[i].status = "read" \/ Reading(i, Len(toChar) + 1)'
    <3>1. i \in DOMAIN rows /\ i < nextMail
      BY <2>2, <2>4 DEF IsBox, OwnId, Ages
    <3>2. /\ rows'[i].with = rows[i].with \/ rows'[i].with = NoEnclosure
          /\ rows[i].status = "read" => rows'[i].status = "read"
      BY <2>4, <3>1 DEF Ages
    <3>3. /\ \/ b.mails[i].with = rows[i].with \/ rows[i].with = NoEnclosure
             \/ b.mails[i].with = NoEnclosure /\ Emptying(p, i)
          /\ b.mails[i].status = "read" =>
               rows[i].status = "read" \/ Reading(i, Len(toChar) + 1)
      BY <2>2, <3>1 DEF HeldBox
    <3>4. Emptying(p, i) => Emptying(p, i)' \/ rows'[i].with = NoEnclosure
      <4>1. CASE toChar' = toChar
        BY <4>1 DEF Emptying
      <4>2. CASE toChar # << >> /\ toChar' = Tail(toChar) /\ Handled(Head(toChar))
        BY <1>1, <2>4, <4>2, HeadGone DEF Handled
      <4> QED BY <4>1, <4>2
    <3>5. Reading(i, Len(toChar) + 1) => Reading(i, Len(toChar) + 1)' \/ rows'[i].status = "read"
      <4>1. CASE toChar' = toChar
        BY <4>1 DEF Reading
      <4>2. CASE toChar # << >> /\ toChar' = Tail(toChar) /\ Handled(Head(toChar))
        BY <1>1, <2>4, <4>2, HeadGone DEF Handled
      <4> QED BY <4>1, <4>2
    <3> QED BY <3>2, <3>3, <3>4, <3>5
  <2> QED BY <2>2, <2>3, <2>4, HeldThen, BoxThen
<1>7. AsksRight'
  <2>1. ASSUME NEW n \in DOMAIN toChar',
               NEW N \in DOMAIN toChar, toChar'[n] = toChar[N],
               \A i \in DOMAIN rows' :
                  Reading(i, N) => Reading(i, n)' \/ rows'[i].status = "read"
        PROVE  /\ toChar'[n].type \in AboutLetter => OwnId(toChar[n].p, toChar[n].id)'
               /\ toChar'[n].type = "getattach" /\ toChar'[n].id \in DOMAIN rows' =>
                    rows'[toChar'[n].id].status = "read" \/ Reading(toChar[n].id, n)'
    <3>1. PICK p, i : p = toChar[N].p /\ i = toChar[N].id
      OBVIOUS
    <3>2. ASSUME toChar'[n].type \in AboutLetter
          PROVE  OwnId(p, i) /\ OwnId(p, i)' /\ OwnId(toChar[n].p, toChar[n].id)'
      <4>1. OwnId(p, i)
        BY <1>1, <2>1, <3>1, <3>2 DEF AsksRight
      <4>2. OwnId(p, i)'
        BY <1>1, <4>1, OwnStays
      <4> QED BY <2>1, <3>1, <4>1, <4>2 DEF OwnId
    <3>3. ASSUME toChar'[n].type = "getattach", i \in DOMAIN rows'
          PROVE  rows'[i].status = "read" \/ Reading(i, n)'
      <4>1. OwnId(p, i)
        BY <3>2, <3>3 DEF AboutLetter
      <4>2. i \in DOMAIN rows /\ (rows[i].status = "read" => rows'[i].status = "read")
        BY <3>3, <4>1 DEF OwnId, Ages
      <4>3. rows[i].status = "read" \/ Reading(i, N)
        BY <1>1, <2>1, <3>1, <3>3, <4>2 DEF AsksRight
      <4> QED BY <2>1, <3>3, <4>2, <4>3
    <3>4. Reading(i, n)' => Reading(toChar[n].id, n)'
      BY <2>1, <3>1 DEF Reading
    <3> QED BY <2>1, <3>1, <3>2, <3>3, <3>4
  <2>2. CASE toChar' = toChar
    <3>1. \A n \in DOMAIN toChar : \A i : Reading(i, n) => Reading(i, n)'
      BY <2>2 DEF Reading
    <3> QED BY <2>1, <2>2, <3>1 DEF AsksRight
  <2>3. CASE toChar # << >> /\ toChar' = Tail(toChar) /\ Handled(Head(toChar))
    <3>1. \A n \in DOMAIN toChar' :
            /\ n + 1 \in DOMAIN toChar /\ toChar'[n] = toChar[n + 1]
            /\ \A i \in DOMAIN rows' : Reading(i, n + 1) => Reading(i, n)' \/ rows'[i].status = "read"
      BY <1>1, <2>3, HeadGone DEF Handled
    <3> QED BY <2>1, <3>1 DEF AsksRight
  <2> QED BY <2>2, <2>3
<1> QED BY <1>1, <1>2, <1>3, <1>5, <1>6, <1>7 DEF Synced

\* What the map-server asks of the char-server is about letters that are p's, and
\* it asks for what is in one only after the char-server has heard it was read.
AsksWell(msgs) ==
    \A n \in DOMAIN msgs :
        /\ msgs[n].type \in AboutLetter => OwnId(msgs[n].p, msgs[n].id)
        /\ msgs[n].type = "getattach" /\ msgs[n].id \in DOMAIN rows =>
             \/ rows[msgs[n].id].status = "read" \/ Reading(msgs[n].id, Len(toChar) + 1)
             \/ \E j \in DOMAIN msgs : j < n /\ msgs[j].type = "read" /\ msgs[j].id = msgs[n].id

LEMMA AsksMore ==
    ASSUME IsSeq(toChar), Rows, AsksRight, UNCHANGED <<rows, nextMail>>,
           NEW msgs, IsSeq(msgs), AsksWell(msgs), toChar' = toChar \o msgs
    PROVE  AsksRight'
<1> DEFINE L == Len(toChar)
<1>1. /\ L \in Nat /\ Len(msgs) \in Nat
      /\ DOMAIN toChar = 1..L /\ DOMAIN msgs = 1..Len(msgs)
      /\ DOMAIN toChar' = 1..(L + Len(msgs))
      /\ \A j \in 1..L : toChar'[j] = toChar[j]
      /\ \A j \in 1..Len(msgs) : toChar'[L + j] = msgs[j]
  BY Joined
<1>2. \A p, i : OwnId(p, i) => OwnId(p, i)'
  BY DEF OwnId
<1>3. \A i, n : Reading(i, n) => Reading(i, n)'
  BY MoreAsked
<1>4. ASSUME NEW n \in DOMAIN toChar', NEW p, NEW i, p = toChar'[n].p, i = toChar'[n].id,
             toChar'[n].type \in AboutLetter => OwnId(p, i),
             toChar'[n].type = "getattach" /\ i \in DOMAIN rows =>
               rows[i].status = "read" \/ Reading(i, n)'
      PROVE  /\ toChar'[n].type \in AboutLetter => OwnId(toChar[n].p, toChar[n].id)'
             /\ toChar'[n].type = "getattach" /\ toChar'[n].id \in DOMAIN rows' =>
                  rows'[toChar'[n].id].status = "read" \/ Reading(toChar[n].id, n)'
  <2>1. OwnId(p, i)' => OwnId(toChar[n].p, toChar[n].id)'
    BY <1>4 DEF OwnId
  <2>2. Reading(i, n)' => Reading(toChar[n].id, n)'
    BY <1>4 DEF Reading
  <2> QED BY <1>2, <1>4, <2>1, <2>2
<1>5. ASSUME NEW n \in DOMAIN toChar', NEW p, NEW i, p = toChar'[n].p, i = toChar'[n].id
      PROVE  /\ toChar'[n].type \in AboutLetter => OwnId(p, i)
             /\ toChar'[n].type = "getattach" /\ i \in DOMAIN rows =>
                  rows[i].status = "read" \/ Reading(i, n)'
  <2>1. CASE n \in 1..L
    BY <1>1, <1>3, <1>5, <2>1 DEF AsksRight
  <2>2. CASE n \notin 1..L
    <3>1. PICK m : m = n - L
      OBVIOUS
    <3>2. m \in DOMAIN msgs /\ L + m = n
      BY <1>1, <2>2, <3>1
    <3>3. toChar'[n] = msgs[m]
      BY <1>1, <3>2
    <3>4. Reading(i, L + 1) => Reading(i, n)'
      <4>1. \A j \in DOMAIN toChar : j < L + 1 => j < n /\ j \in DOMAIN toChar' /\ toChar'[j] = toChar[j]
        BY <1>1, <2>2
      <4> QED BY <4>1 DEF Reading
    <3>5. (\E j \in DOMAIN msgs : j < m /\ msgs[j].type = "read" /\ msgs[j].id = i) => Reading(i, n)'
      BY <3>2, MoreAsked
    <3> QED BY <1>5, <3>2, <3>3, <3>4, <3>5 DEF AsksWell
  <2> QED BY <2>1, <2>2
<1>6. ASSUME NEW n \in DOMAIN toChar'
      PROVE  /\ toChar'[n].type \in AboutLetter => OwnId(toChar[n].p, toChar[n].id)'
             /\ toChar'[n].type = "getattach" /\ toChar'[n].id \in DOMAIN rows' =>
                  rows'[toChar'[n].id].status = "read" \/ Reading(toChar[n].id, n)'
  <2>1. PICK p, i : p = toChar'[n].p /\ i = toChar'[n].id
    OBVIOUS
  <2> QED BY <1>4, <1>5, <2>1
<1> QED BY <1>6 DEF AsksRight

LEMMA MapSync ==
    ASSUME Synced, UNCHANGED <<rows, nextMail, up>>,
           toMap' = toMap \/ (toMap # << >> /\ toMap' = Tail(toMap)),
           NEW msgs, IsSeq(msgs), AsksWell(msgs), toChar' = toChar \o msgs,
           DOMAIN inbox' = Player,
           \A p \in Player : IsBox(p, inbox[p])' /\ HeldBox(p, inbox[p])',
           \A p \in Player \ away' : Asking(p)' \/ WillAgree(p)'
    PROVE  Synced'
<1>1. /\ IsSeq(toChar) /\ IsSeq(toMap) /\ up /\ Rows
      /\ \A k \in DOMAIN toMap : toMap[k].type = "inbox" =>
                                    IsBox(toMap[k].p, toMap[k].box) /\ SentBox(toMap[k].box)
      /\ AsksRight
  BY DEF Synced
<1>2. Rows' /\ Ages
  BY <1>1, NothingAges DEF Ages
<1>3. IsSeq(toChar') /\ IsSeq(toMap')
  BY <1>1, Joined, Tailed
<1>4. AsksRight'
  BY <1>1, AsksMore
<1>5. \A k \in DOMAIN toMap' : \E n \in DOMAIN toMap : toMap'[k] = toMap[n]
  <2>1. CASE toMap' = toMap
    BY <2>1
  <2>2. CASE toMap # << >> /\ toMap' = Tail(toMap)
    <3>1. /\ Len(toMap) \in Nat \ {0}
          /\ DOMAIN toMap = 1..Len(toMap) /\ DOMAIN toMap' = 1..(Len(toMap) - 1)
          /\ \A j \in 1..(Len(toMap) - 1) : toMap'[j] = toMap[j + 1]
      BY <1>1, <2>2, Tailed
    <3>2. \A k \in DOMAIN toMap' : k + 1 \in DOMAIN toMap
      BY <3>1
    <3> QED BY <3>1, <3>2
  <2> QED BY <2>1, <2>2
<1>6. ASSUME NEW k \in DOMAIN toMap', toMap'[k].type = "inbox"
      PROVE  IsBox(toMap[k].p, toMap[k].box)' /\ SentBox(toMap[k].box)'
  <2>1. PICK p, b : p = toMap'[k].p /\ b = toMap'[k].box
    OBVIOUS
  <2>2. IsBox(p, b) /\ SentBox(b)
    BY <1>1, <1>5, <1>6, <2>1
  <2> QED BY <1>1, <1>2, <2>1, <2>2, BoxesStay, BoxThen
<1> QED BY <1>1, <1>2, <1>3, <1>4, <1>6 DEF Synced

\* A copy that does not change keeps what it owes.
LEMMA CopyStays ==
    ASSUME IsSeq(toChar), Rows, UNCHANGED <<rows, nextMail>>,
           NEW msgs, IsSeq(msgs), toChar' = toChar \o msgs,
           NEW p, inbox'[p] = inbox[p], IsBox(p, inbox[p]), HeldBox(p, inbox[p])
    PROVE  IsBox(p, inbox[p])' /\ HeldBox(p, inbox[p])'
<1>1. PICK b : b = inbox[p]
  OBVIOUS
<1>2. IsBox(p, b) /\ HeldBox(p, b)
  BY <1>1
<1>3. IsBox(p, b)'
  BY <1>2, BoxesStay, NothingAges
<1>4. \A i \in DOMAIN b.mails : i \in DOMAIN rows' =>
             /\ \/ b.mails[i].with = rows'[i].with \/ rows'[i].with = NoEnclosure
                \/ b.mails[i].with = NoEnclosure /\ Emptying(p, i)'
             /\ b.mails[i].status = "read" =>
                  rows'[i].status = "read" \/ Reading(i, Len(toChar) + 1)'
  BY <1>2, MoreAsked DEF HeldBox
<1> QED BY <1>1, <1>3, <1>4, HeldThen, BoxThen

-----------------------------------------------------------------------------
(* What a player does. *)

LEMMA NothingJoined == ASSUME NEW s, IsSeq(s) PROVE s \o << >> = s
BY DEF IsSeq

LEMMA AskedOfUp ==
    ASSUME Synced, NEW msgs, Asks(msgs)
    PROVE  toChar' = toChar \o msgs
BY DEF Synced, Asks

LEMMA ClientSync ==
    ASSUME Synced, UNCHANGED <<inbox, rows, nextMail, away, up, toMap>>,
           NEW msgs, IsSeq(msgs), AsksWell(msgs), toChar' = toChar \o msgs
    PROVE  Synced'
<1>1. /\ IsSeq(toChar) /\ Rows /\ DOMAIN inbox = Player
      /\ \A p \in Player : IsBox(p, inbox[p]) /\ HeldBox(p, inbox[p])
      /\ \A p \in Player \ away : Asking(p) \/ WillAgree(p)
  BY DEF Synced
<1>2. \A p \in Player : IsBox(p, inbox[p])' /\ HeldBox(p, inbox[p])'
  BY <1>1, CopyStays
<1>3. \A p \in Player \ away' : Asking(p)' \/ WillAgree(p)'
  BY <1>1, MoreAsked, SameAgrees
<1> QED BY <1>1, <1>2, <1>3, MapSync

LEMMA NothingAsked == IsSeq(<< >>) /\ AsksWell(<< >>)
<1>1. IsSeq(<< >>)
  BY Short
<1> QED BY <1>1 DEF AsksWell

LEMMA StillSync ==
    ASSUME Synced, UNCHANGED <<inbox, rows, nextMail, away, up, toChar, toMap>>
    PROVE  Synced'
<1>1. toChar' = toChar \o << >>
  BY NothingJoined DEF Synced
<1> QED BY <1>1, NothingAsked, ClientSync

LEMMA OneAsked ==
    ASSUME NEW m, m.type \notin AboutLetter \/ (m.type \in {"delete", "return"} /\ OwnId(m.p, m.id))
    PROVE  IsSeq(<<m>>) /\ AsksWell(<<m>>)
<1>1. IsSeq(<<m>>)
  BY Short
<1>2. DOMAIN <<m>> = {1} /\ <<m>>[1] = m
  OBVIOUS
<1> QED BY <1>1, <1>2 DEF AsksWell, AboutLetter

LEMMA InboxAsked ==
    ASSUME NEW p
    PROVE  /\ IsSeq(InboxRequest(p)) /\ AsksWell(InboxRequest(p))
           /\ \A j \in DOMAIN InboxRequest(p) : InboxRequest(p)[j].type = "inbox"
<1>1. CASE InboxRequest(p) = << >>
  BY <1>1, NothingAsked
<1>2. CASE InboxRequest(p) = <<[type |-> "inbox", p |-> p]>>
  <2>1. PICK m : m = [type |-> "inbox", p |-> p]
    OBVIOUS
  <2> QED BY <1>2, <2>1, OneAsked DEF AboutLetter
<1> QED BY <1>1, <1>2 DEF InboxRequest

LEMMA ReadAsked ==
    ASSUME NEW p \in Player, NEW id, id \in DOMAIN inbox[p].mails, IsBox(p, inbox[p])
    PROVE  LET msgs == ReadRequests(p, id)
           IN  /\ IsSeq(msgs) /\ AsksWell(msgs)
               /\ \A j \in DOMAIN msgs : msgs[j].type \in {"read", "inbox"}
               /\ \/ inbox[p].mails[id].status = "read"
                  \/ \E j \in DOMAIN msgs : msgs[j].type = "read" /\ msgs[j].id = id
<1>1. OwnId(p, id) /\ inbox[p].mails[id].status \in {"unread", "read"}
  BY DEF IsBox
<1>2. CASE inbox[p].mails[id].status # "unread"
  BY <1>1, <1>2, NothingAsked DEF ReadRequests
<1>3. CASE inbox[p].mails[id].status = "unread"
  <2>1. PICK m : m = [type |-> "read", p |-> p, id |-> id]
    OBVIOUS
  <2>2. PICK r : r = InboxRequest(p)
    OBVIOUS
  <2>3. ReadRequests(p, id) = <<m>> \o r
    BY <1>3, <2>1, <2>2 DEF ReadRequests
  <2>4. IsSeq(<<m>>) /\ Len(<<m>>) = 1 /\ <<m>>[1] = m
    BY Short
  <2>5. IsSeq(r) /\ \A j \in DOMAIN r : r[j].type = "inbox"
    BY <2>2, InboxAsked
  <2>6. /\ IsSeq(<<m>> \o r) /\ Len(r) \in Nat /\ DOMAIN r = 1..Len(r)
        /\ DOMAIN (<<m>> \o r) = 1..(1 + Len(r)) /\ (<<m>> \o r)[1] = m
        /\ \A j \in 1..Len(r) : (<<m>> \o r)[1 + j] = r[j]
    BY <2>4, <2>5, Joined
  <2>7. \A j \in DOMAIN (<<m>> \o r) : (<<m>> \o r)[j] = m \/ (<<m>> \o r)[j].type = "inbox"
    <3> SUFFICES ASSUME NEW j \in 1..(1 + Len(r)), j # 1
                 PROVE  (<<m>> \o r)[j].type = "inbox"
      BY <2>6
    <3>1. j - 1 \in 1..Len(r) /\ 1 + (j - 1) = j
      BY <2>6
    <3> QED BY <2>5, <2>6, <3>1
  <2>8. AsksWell(<<m>> \o r)
    BY <1>1, <2>1, <2>7 DEF AsksWell, AboutLetter
  <2> QED BY <2>1, <2>3, <2>6, <2>7, <2>8
<1> QED BY <1>2, <1>3

\* One letter of the copy of p's inbox changes, and is l then.
LetterChanges(p, id, l) ==
    /\ DOMAIN inbox' = Player /\ \A q \in Player \ {p} : inbox'[q] = inbox[q]
    /\ {"mails", "full", "changed"} \subseteq DOMAIN inbox'[p]
    /\ inbox'[p].full = inbox[p].full /\ inbox'[p].changed = inbox[p].changed
    /\ DOMAIN inbox'[p].mails = DOMAIN inbox[p].mails
    /\ \A i \in DOMAIN inbox[p].mails \ {id} : inbox'[p].mails[i] = inbox[p].mails[i]
    /\ l = inbox'[p].mails[id] /\ IsLetter(l) /\ l.status \in {"unread", "read"}

\* What of it changes, the char-server is asked for.
LetterWas(p, id, l, msgs) ==
    /\ \/ l.with = inbox[p].mails[id].with
       \/ /\ l.with = NoEnclosure
          /\ \E j \in DOMAIN msgs : /\ msgs[j].type \in {"getattach", "return"}
                                    /\ msgs[j].p = p /\ msgs[j].id = id
    /\ \/ l.status = inbox[p].mails[id].status
       \/ inbox[p].mails[id].status = "read"
       \/ \E j \in DOMAIN msgs : msgs[j].type = "read" /\ msgs[j].id = id

LEMMA LetterSync ==
    ASSUME Synced, UNCHANGED <<rows, nextMail, away, up, toMap>>,
           NEW msgs, IsSeq(msgs), AsksWell(msgs), toChar' = toChar \o msgs,
           NEW p \in Player, NEW id, id \in DOMAIN inbox[p].mails,
           NEW l, LetterChanges(p, id, l), LetterWas(p, id, l, msgs)
    PROVE  Synced'
<1>1. /\ IsSeq(toChar) /\ Rows /\ DOMAIN inbox = Player
      /\ \A q \in Player : IsBox(q, inbox[q]) /\ HeldBox(q, inbox[q])
      /\ \A q \in Player \ away : Asking(q) \/ WillAgree(q)
  BY DEF Synced
<1>2. \A q \in Player \ {p} : IsBox(q, inbox[q])' /\ HeldBox(q, inbox[q])'
  BY <1>1, CopyStays DEF LetterChanges
<1>3. IsBox(p, inbox[p])' /\ HeldBox(p, inbox[p])'
  <2>1. PICK b : b = inbox'[p]
    OBVIOUS
  <2>2. IsBox(p, b)
    BY <1>1, <2>1 DEF IsBox, LetterChanges
  <2>3. IsBox(p, b)'
    BY <1>1, <2>2, BoxesStay, NothingAges
  <2>4. ASSUME NEW i \in DOMAIN b.mails, i \in DOMAIN rows'
        PROVE  /\ \/ b.mails[i].with = rows'[i].with \/ rows'[i].with = NoEnclosure
                  \/ b.mails[i].with = NoEnclosure /\ Emptying(p, i)'
               /\ b.mails[i].status = "read" =>
                    rows'[i].status = "read" \/ Reading(i, Len(toChar) + 1)'
    <3>1. i \in DOMAIN inbox[p].mails \intersect DOMAIN rows
      BY <2>1, <2>4 DEF LetterChanges
    <3>2. /\ \/ inbox[p].mails[i].with = rows[i].with \/ rows[i].with = NoEnclosure
             \/ inbox[p].mails[i].with = NoEnclosure /\ Emptying(p, i)'
          /\ inbox[p].mails[i].status = "read" =>
               rows[i].status = "read" \/ Reading(i, Len(toChar) + 1)'
      BY <1>1, <3>1, MoreAsked DEF HeldBox
    <3>3. CASE i # id
      BY <2>1, <3>1, <3>2, <3>3 DEF LetterChanges
    <3>4. CASE i = id
      <4>1. b.mails[i] = l
        BY <2>1, <3>4 DEF LetterChanges
      <4>2. \/ l.with = inbox[p].mails[i].with
            \/ l.with = NoEnclosure /\ Emptying(p, i)'
        BY <1>1, <3>4, MoreAsked DEF LetterWas
      <4>3. \/ l.status = inbox[p].mails[i].status \/ inbox[p].mails[i].status = "read"
            \/ Reading(i, Len(toChar) + 1)'
        BY <1>1, <3>4, MoreAsked DEF LetterWas
      <4> QED BY <3>2, <4>1, <4>2, <4>3
    <3> QED BY <3>3, <3>4
  <2> QED BY <2>1, <2>3, <2>4, HeldThen, BoxThen
<1>4. \A q \in Player \ away' : Asking(q)' \/ WillAgree(q)'
  <2> TAKE q \in Player \ away'
  <2>1. CASE q = p
    BY <1>1, <2>1, MoreAsked, SameAgrees DEF LetterChanges
  <2>2. CASE q # p
    BY <1>1, <2>2, MoreAsked, SameAgrees DEF LetterChanges
  <2> QED BY <2>1, <2>2
<1>5. \A q \in Player : IsBox(q, inbox[q])' /\ HeldBox(q, inbox[q])'
  BY <1>2, <1>3
<1> QED BY <1>4, <1>5, MapSync DEF LetterChanges

LEMMA ReadMakes ==
    ASSUME Synced, NEW p \in Player, NEW id, id \in DOMAIN inbox[p].mails
    PROVE  LET new == Read(p, id)
           IN  /\ DOMAIN new = Player
               /\ \A q \in Player \ {p} : new[q] = inbox[q]
               /\ DOMAIN new[p] = DOMAIN inbox[p]
               /\ new[p].full = inbox[p].full /\ new[p].changed = inbox[p].changed
               /\ DOMAIN new[p].mails = DOMAIN inbox[p].mails
               /\ \A i \in DOMAIN inbox[p].mails \ {id} : new[p].mails[i] = inbox[p].mails[i]
               /\ IsLetter(new[p].mails[id]) /\ new[p].mails[id].status = "read"
               /\ new[p].mails[id].with = inbox[p].mails[id].with
BY DEF Synced, Read, IsBox, IsLetter

LEMMA MailReadSync ==
    ASSUME Synced, NEW p \in Player, NEW id, MailRead(p, id)
    PROVE  Synced'
<1>1. PICK msgs : msgs = ReadRequests(p, id)
  OBVIOUS
<1>2. /\ id \in DOMAIN inbox[p].mails /\ inbox' = Read(p, id)
      /\ UNCHANGED <<rows, nextMail, away, up, toMap>> /\ Asks(ReadRequests(p, id))
  BY DEF MailRead, CharRows, Link
<1>3. toChar' = toChar \o msgs
  BY <1>1, <1>2, AskedOfUp
<1>4. IsBox(p, inbox[p])
  BY DEF Synced
<1>5. /\ IsSeq(msgs) /\ AsksWell(msgs)
      /\ \/ inbox[p].mails[id].status = "read"
         \/ \E j \in DOMAIN msgs : msgs[j].type = "read" /\ msgs[j].id = id
  BY <1>1, <1>2, <1>4, ReadAsked
<1>6. PICK l : l = inbox'[p].mails[id]
  OBVIOUS
<1>7. {"mails", "full", "changed"} \subseteq DOMAIN inbox'[p]
  BY <1>2, <1>4, ReadMakes DEF IsBox
<1>8. LetterChanges(p, id, l) /\ LetterWas(p, id, l, msgs)
  BY <1>2, <1>5, <1>6, <1>7, ReadMakes DEF LetterChanges, LetterWas
<1> QED BY <1>2, <1>3, <1>5, <1>8, LetterSync

LEMMA MailGetAttachSync ==
    ASSUME Synced, NEW p \in Player, NEW id, MailGetAttach(p, id)
    PROVE  Synced'
<1>1. PICK r, m : r = ReadRequests(p, id) /\ m = [type |-> "getattach", p |-> p, id |-> id]
  OBVIOUS
<1>2. PICK msgs : msgs = r \o <<m>>
  OBVIOUS
<1>3. /\ id \in DOMAIN inbox[p].mails
      /\ inbox' = [Read(p, id) EXCEPT ![p].mails[id].with = NoEnclosure]
      /\ UNCHANGED <<rows, nextMail, away, up, toMap>> /\ Asks(ReadRequests(p, id) \o <<m>>)
  BY <1>1 DEF MailGetAttach, CharRows, Link
<1>4. toChar' = toChar \o msgs
  BY <1>1, <1>2, <1>3, AskedOfUp
<1>5. IsBox(p, inbox[p]) /\ HeldBox(p, inbox[p]) /\ Rows
  BY DEF Synced
<1>6. /\ IsSeq(r) /\ AsksWell(r) /\ \A j \in DOMAIN r : r[j].type \in {"read", "inbox"}
      /\ \/ inbox[p].mails[id].status = "read"
         \/ \E j \in DOMAIN r : r[j].type = "read" /\ r[j].id = id
  BY <1>1, <1>3, <1>5, ReadAsked
<1>7. /\ IsSeq(<<m>>) /\ Len(<<m>>) = 1 /\ <<m>>[1] = m
  BY Short
<1>8. /\ IsSeq(msgs) /\ Len(r) \in Nat /\ DOMAIN r = 1..Len(r)
      /\ DOMAIN msgs = 1..(Len(r) + 1)
      /\ \A j \in 1..Len(r) : msgs[j] = r[j]
      /\ msgs[Len(r) + 1] = m
  BY <1>2, <1>6, <1>7, Joined
<1>9. \A j \in DOMAIN msgs : \/ j \in DOMAIN r /\ msgs[j] = r[j]
                             \/ j = Len(r) + 1 /\ msgs[j] = m
  BY <1>8
<1>10. \A j \in DOMAIN r : j < Len(r) + 1 /\ j \in DOMAIN msgs /\ msgs[j] = r[j]
  BY <1>8
<1>11. \/ inbox[p].mails[id].status = "read"
       \/ \E j \in DOMAIN msgs : j < Len(r) + 1 /\ msgs[j].type = "read" /\ msgs[j].id = id
  BY <1>6, <1>10
<1>12. AsksWell(msgs)
  <2> SUFFICES ASSUME NEW n \in DOMAIN msgs
               PROVE  /\ msgs[n].type \in AboutLetter => OwnId(msgs[n].p, msgs[n].id)
                      /\ msgs[n].type = "getattach" /\ msgs[n].id \in DOMAIN rows =>
                           \/ rows[msgs[n].id].status = "read" \/ Reading(msgs[n].id, Len(toChar) + 1)
                           \/ \E j \in DOMAIN msgs : j < n /\ msgs[j].type = "read" /\ msgs[j].id = msgs[n].id
    BY DEF AsksWell
  <2>1. CASE n \in DOMAIN r /\ msgs[n] = r[n]
    BY <1>6, <2>1 DEF AsksWell
  <2>2. CASE n = Len(r) + 1 /\ msgs[n] = m
    <3>1. OwnId(p, id)
      BY <1>3, <1>5 DEF IsBox
    <3>2. ASSUME id \in DOMAIN rows
          PROVE  \/ rows[id].status = "read" \/ Reading(id, Len(toChar) + 1)
                 \/ \E j \in DOMAIN msgs : j < n /\ msgs[j].type = "read" /\ msgs[j].id = id
      BY <1>3, <1>5, <1>11, <2>2, <3>2 DEF HeldBox
    <3> QED BY <1>1, <2>2, <3>1, <3>2
  <2> QED BY <1>9, <2>1, <2>2
<1>13. PICK l : l = inbox'[p].mails[id]
  OBVIOUS
<1>14. /\ DOMAIN inbox' = Player /\ \A q \in Player \ {p} : inbox'[q] = inbox[q]
       /\ {"mails", "full", "changed"} \subseteq DOMAIN inbox'[p]
       /\ inbox'[p].full = inbox[p].full /\ inbox'[p].changed = inbox[p].changed
       /\ DOMAIN inbox'[p].mails = DOMAIN inbox[p].mails
       /\ \A i \in DOMAIN inbox[p].mails \ {id} : inbox'[p].mails[i] = inbox[p].mails[i]
       /\ IsLetter(l) /\ l.status = "read" /\ l.with = NoEnclosure
  <2>1. PICK new : new = Read(p, id)
    OBVIOUS
  <2>2. /\ DOMAIN new = Player /\ \A q \in Player \ {p} : new[q] = inbox[q]
        /\ {"mails", "full", "changed"} \subseteq DOMAIN new[p]
        /\ new[p].full = inbox[p].full /\ new[p].changed = inbox[p].changed
        /\ DOMAIN new[p].mails = DOMAIN inbox[p].mails
        /\ \A i \in DOMAIN inbox[p].mails \ {id} : new[p].mails[i] = inbox[p].mails[i]
        /\ IsLetter(new[p].mails[id]) /\ new[p].mails[id].status = "read"
    BY <1>3, <1>5, <2>1, ReadMakes DEF IsBox
  <2>3. inbox' = [new EXCEPT ![p].mails[id].with = NoEnclosure]
    BY <1>3, <2>1
  <2> QED BY <1>3, <1>13, <2>2, <2>3 DEF IsLetter
<1>15. \E j \in DOMAIN msgs : msgs[j].type = "getattach" /\ msgs[j].p = p /\ msgs[j].id = id
  BY <1>1, <1>8
<1>16. inbox[p].mails[id].status = "read" \/ \E j \in DOMAIN msgs : msgs[j].type = "read" /\ msgs[j].id = id
  BY <1>11
<1>17. LetterChanges(p, id, l) /\ LetterWas(p, id, l, msgs)
  BY <1>13, <1>14, <1>15, <1>16 DEF LetterChanges, LetterWas
<1> QED BY <1>3, <1>4, <1>8, <1>12, <1>17, LetterSync

LEMMA MailReturnSync ==
    ASSUME Synced, NEW p \in Player, NEW id, MailReturn(p, id)
    PROVE  Synced'
<1>1. PICK m : m = [type |-> "return", p |-> p, id |-> id]
  OBVIOUS
<1>2. /\ id \in DOMAIN inbox[p].mails
      /\ inbox' = [inbox EXCEPT ![p].mails[id].with = NoEnclosure]
      /\ UNCHANGED <<rows, nextMail, away, up, toMap>> /\ Asks(<<m>>)
  BY <1>1 DEF MailReturn, CharRows, Link
<1>3. IsBox(p, inbox[p]) /\ DOMAIN inbox = Player
  BY DEF Synced
<1>4. OwnId(p, id)
  BY <1>2, <1>3 DEF IsBox
<1>5. IsSeq(<<m>>) /\ AsksWell(<<m>>)
  BY <1>1, <1>4, OneAsked
<1>6. PICK msgs : msgs = <<m>>
  OBVIOUS
<1>7. toChar' = toChar \o msgs
  BY <1>2, <1>6, AskedOfUp
<1>8. PICK l : l = inbox'[p].mails[id]
  OBVIOUS
<1>9. /\ DOMAIN inbox' = Player /\ \A q \in Player \ {p} : inbox'[q] = inbox[q]
      /\ {"mails", "full", "changed"} \subseteq DOMAIN inbox'[p]
      /\ inbox'[p].full = inbox[p].full /\ inbox'[p].changed = inbox[p].changed
      /\ DOMAIN inbox'[p].mails = DOMAIN inbox[p].mails
      /\ \A i \in DOMAIN inbox[p].mails \ {id} : inbox'[p].mails[i] = inbox[p].mails[i]
      /\ IsLetter(l) /\ l.status \in {"unread", "read"}
      /\ l.status = inbox[p].mails[id].status /\ l.with = NoEnclosure
  BY <1>2, <1>3, <1>8 DEF IsBox, IsLetter
<1>10. \E j \in DOMAIN msgs : msgs[j].type = "return" /\ msgs[j].p = p /\ msgs[j].id = id
  BY <1>1, <1>6
<1>11. LetterChanges(p, id, l) /\ LetterWas(p, id, l, msgs)
  BY <1>8, <1>9, <1>10 DEF LetterChanges, LetterWas
<1> QED BY <1>2, <1>5, <1>6, <1>7, <1>11, LetterSync

\* Who quits has no copy, and asks for one when it is back.
LEMMA MailQuitSync ==
    ASSUME Synced, NEW p \in Player, MailQuit(p)
    PROVE  Synced'
<1>1. /\ away' = away \union {p} /\ inbox' = [inbox EXCEPT ![p] = NoInbox]
      /\ UNCHANGED <<rows, nextMail, up, toChar, toMap>>
  BY DEF MailQuit, CharRows, Link
<1>2. /\ IsSeq(toChar) /\ Rows /\ DOMAIN inbox = Player
      /\ \A q \in Player : IsBox(q, inbox[q]) /\ HeldBox(q, inbox[q])
      /\ \A q \in Player \ away : Asking(q) \/ WillAgree(q)
  BY DEF Synced
<1>3. toChar' = toChar \o << >>
  BY <1>1, <1>2, NothingJoined
<1>4. DOMAIN inbox' = Player /\ inbox'[p] = NoInbox /\ \A q \in Player \ {p} : inbox'[q] = inbox[q]
  BY <1>1, <1>2
<1>5. \A q \in Player \ {p} : IsBox(q, inbox[q])' /\ HeldBox(q, inbox[q])'
  BY <1>1, <1>2, <1>3, <1>4, NothingAsked, CopyStays
<1>6. IsBox(p, inbox[p])' /\ HeldBox(p, inbox[p])'
  BY <1>4 DEF IsBox, HeldBox, NoInbox
<1>7. ASSUME NEW q \in Player \ away' PROVE Asking(q)' \/ WillAgree(q)'
  <2>1. q # p /\ q \in Player \ away /\ inbox'[q] = inbox[q]
    BY <1>1, <1>4
  <2>2. Asking(q) \/ WillAgree(q)
    BY <1>2, <2>1
  <2>3. Asking(q) => Asking(q)'
    BY <1>1 DEF Asking
  <2> QED BY <1>1, <2>1, <2>2, <2>3, SameAgrees
<1>8. \A q \in Player : IsBox(q, inbox[q])' /\ HeldBox(q, inbox[q])'
  BY <1>5, <1>6
<1> QED BY <1>1, <1>3, <1>4, <1>7, <1>8, NothingAsked, MapSync

LEMMA MailBackSync ==
    ASSUME Synced, NEW p \in Player, MailBack(p)
    PROVE  Synced'
<1>1. PICK m : m = [type |-> "inbox", p |-> p]
  OBVIOUS
<1>2. /\ away' = away \ {p} /\ Asks(<<m>>)
      /\ UNCHANGED <<inbox, rows, nextMail, up, toMap>>
  BY <1>1 DEF MailBack, CharRows, Link
<1>3. /\ IsSeq(toChar) /\ Rows /\ DOMAIN inbox = Player
      /\ \A q \in Player : IsBox(q, inbox[q]) /\ HeldBox(q, inbox[q])
      /\ \A q \in Player \ away : Asking(q) \/ WillAgree(q)
  BY DEF Synced
<1>4. PICK msgs : msgs = <<m>>
  OBVIOUS
<1>5. IsSeq(msgs) /\ AsksWell(msgs)
  BY <1>1, <1>4, OneAsked DEF AboutLetter
<1>6. toChar' = toChar \o msgs
  BY <1>2, <1>4, AskedOfUp
<1>7. \A q \in Player : IsBox(q, inbox[q])' /\ HeldBox(q, inbox[q])'
  BY <1>2, <1>3, <1>5, <1>6, CopyStays
<1>8. ASSUME NEW q \in Player \ away' PROVE Asking(q)' \/ WillAgree(q)'
  <2>1. CASE q = p
    <3>1. \E j \in DOMAIN msgs : msgs[j].type = "inbox" /\ msgs[j].p = p
      BY <1>1, <1>4
    <3> QED BY <1>3, <1>5, <1>6, <2>1, <3>1, MoreAsked
  <2>2. CASE q # p
    BY <1>2, <1>3, <1>5, <1>6, <2>2, MoreAsked, SameAgrees
  <2> QED BY <2>1, <2>2
<1> QED BY <1>2, <1>3, <1>5, <1>6, <1>7, <1>8, MapSync

LEMMA MailNextSync == Synced /\ MailNext => Synced'
<1> SUFFICES ASSUME Synced, MailNext PROVE Synced'
  OBVIOUS
<1>1. \A a : Doing(a) \subseteq Player
  BY DEF Doing
<1>2. ASSUME NEW p \in Player, NEW s, NEW n, MailSetItem(p, s, n) \/ MailSetZeny(p, n) PROVE Synced'
  BY <1>2, StillSync DEF MailSetItem, MailSetZeny, CharRows, Link
<1>3. ASSUME NEW p \in Player, NEW item, NEW zeny, MailWinopen(p, item, zeny) PROVE Synced'
  BY <1>3, StillSync DEF MailWinopen, CharRows, Link
<1>4. ASSUME NEW p \in Player, NEW to, NEW titled, MailSend(p, to, titled) PROVE Synced'
  <2>1. UNCHANGED <<inbox, rows, nextMail, away, up, toMap>>
    BY <1>4 DEF MailSend, CharRows, Link
  <2>2. PICK m : m = [type |-> "send", p |-> p, to |-> to, with |-> Enclosed(p)]
    OBVIOUS
  <2>3. UNCHANGED toChar \/ Asks(<<m>>) \/ Asks(<< >>)
    BY <1>4, <2>2 DEF MailSend
  <2>4. CASE UNCHANGED toChar
    BY <2>1, <2>4, StillSync
  <2>5. CASE Asks(<<m>>)
    <3>1. IsSeq(<<m>>) /\ AsksWell(<<m>>)
      BY <2>2, OneAsked DEF AboutLetter
    <3>2. toChar' = toChar \o <<m>>
      BY <2>5, AskedOfUp
    <3> QED BY <2>1, <3>1, <3>2, ClientSync
  <2>6. CASE Asks(<< >>)
    BY <2>1, <2>6, AskedOfUp, NothingAsked, ClientSync
  <2> QED BY <2>3, <2>4, <2>5, <2>6
<1>5. ASSUME NEW p \in Player, MailRefreshInbox(p) PROVE Synced'
  <2>1. PICK msgs : msgs = InboxRequest(p)
    OBVIOUS
  <2>2. UNCHANGED <<inbox, rows, nextMail, away, up, toMap>> /\ toChar' = toChar \o msgs
    BY <1>5, <2>1, AskedOfUp DEF MailRefreshInbox, CharRows, Link
  <2> QED BY <2>1, <2>2, InboxAsked, ClientSync
<1>6. ASSUME NEW p \in Player, NEW id, MailDelete(p, id) PROVE Synced'
  <2>1. PICK m : m = [type |-> "delete", p |-> p, id |-> id]
    OBVIOUS
  <2>2. UNCHANGED <<inbox, rows, nextMail, away, up, toMap>> /\ Asks(<<m>>) /\ id \in DOMAIN inbox[p].mails
    BY <1>6, <2>1 DEF MailDelete, CharRows, Link
  <2>3. OwnId(p, id)
    BY <2>2 DEF Synced, IsBox
  <2>4. IsSeq(<<m>>) /\ AsksWell(<<m>>)
    BY <2>1, <2>3, OneAsked
  <2>5. toChar' = toChar \o <<m>>
    BY <2>2, AskedOfUp
  <2> QED BY <2>2, <2>4, <2>5, ClientSync
<1> QED BY <1>1, <1>2, <1>3, <1>4, <1>5, <1>6, MailReadSync, MailGetAttachSync, MailReturnSync,
           MailQuitSync, MailBackSync DEF MailNext

-----------------------------------------------------------------------------
(* What the char-server does. *)

LEMMA CharTells ==
    ASSUME Synced, Ages, UNCHANGED <<inbox, away, up>>,
           NEW t, IsSeq(t), toMap' = toMap \o t, \A j \in DOMAIN t : t[j].type # "inbox",
           \/ toChar' = toChar
           \/ /\ toChar # << >> /\ toChar' = Tail(toChar)
              /\ Handled(Head(toChar)) /\ Head(toChar).type # "inbox",
           \A q \in Player : Tells(q, t)
    PROVE  Synced'
<1>1. /\ IsSeq(toChar) /\ IsSeq(toMap) /\ Rows
      /\ \A q \in Player \ away : Asking(q) \/ WillAgree(q)
  BY DEF Synced
<1>2. Rows'
  BY DEF Ages
<1>3. \A q \in Player : WillAgree(q) => WillAgree(q)'
  BY <1>1, <1>2, AppendAgrees DEF IsNewBox
<1>4. \A q : Asking(q) => Asking(q)'
  <2>1. CASE toChar' = toChar
    BY <2>1 DEF Asking
  <2>2. CASE toChar # << >> /\ toChar' = Tail(toChar) /\ Head(toChar).type # "inbox"
    BY <1>1, <2>2, HeadGone
  <2> QED BY <2>1, <2>2
<1>5. \A q \in Player \ away : Asking(q)' \/ WillAgree(q)'
  BY <1>1, <1>3, <1>4
<1> QED BY <1>5, CharSync

\* What a request about a letter finds: it is of who asks, or gone; one for what is
\* in it comes when it was read.
LEMMA HeadAsksRight ==
    ASSUME Synced, toChar # << >>, NEW m, m = Head(toChar), m.type \in AboutLetter
    PROVE  /\ OwnId(m.p, m.id)
           /\ m.type = "getattach" /\ m.id \in DOMAIN rows => rows[m.id].status = "read"
<1>1. IsSeq(toChar) /\ AsksRight
  BY DEF Synced
<1>2. m = toChar[1] /\ 1 \in DOMAIN toChar /\ \A j \in DOMAIN toChar : ~(j < 1)
  BY <1>1, Tailed
<1>3. ~Reading(m.id, 1)
  BY <1>2 DEF Reading
<1> QED BY <1>1, <1>2, <1>3 DEF AsksRight

LEMMA OneTold == ASSUME NEW m PROVE IsSeq(<<m>>) /\ DOMAIN <<m>> = {1} /\ <<m>>[1] = m
BY Short

LEMMA RequestinboxSync ==
    ASSUME Synced, MapifParseMailRequestinbox
    PROVE  Synced'
<1>1. PICK p, b : p = Head(toChar).p /\ b = InboxOf(p)
  OBVIOUS
<1>2. PICK m : m = [type |-> "inbox", p |-> p, box |-> b]
  OBVIOUS
<1>3. /\ toChar # << >> /\ Head(toChar).type = "inbox" /\ toChar' = Tail(toChar)
      /\ toMap' = toMap \o <<m>>
      /\ rows' = [i \in DOMAIN rows |-> IF i \in Listed(p) THEN b.mails[i] ELSE rows[i]]
      /\ UNCHANGED <<inbox, nextMail, away, up>>
  BY <1>1, <1>2 DEF MapifParseMailRequestinbox, FromMap, Answer, Link
<1>4. /\ IsSeq(toChar) /\ IsSeq(toMap) /\ Rows
      /\ \A q \in Player \ away : Asking(q) \/ WillAgree(q)
  BY DEF Synced
<1>5. /\ Listed(p) \subseteq LettersTo(p) /\ LettersTo(p) \subseteq DOMAIN rows
      /\ \A i \in Listed(p) : b.mails[i] = [rows[i] EXCEPT !.status = Seen(rows[i].status)]
      /\ DOMAIN b.mails = Listed(p) /\ b.full \in BOOLEAN /\ b.changed = FALSE
      /\ {"mails", "full", "changed"} \subseteq DOMAIN b
  BY <1>1 DEF Listed, LettersTo, InboxOf
<1>6. ASSUME NEW i \in Listed(p)
      PROVE  /\ IsLetter(b.mails[i]) /\ b.mails[i].status \in {"unread", "read"}
             /\ b.mails[i].to = rows[i].to /\ b.mails[i].with = rows[i].with
             /\ rows[i].status = "read" => b.mails[i].status = "read"
  <2>3. i \in DOMAIN rows
    BY <1>5, <1>6
  <2>4. IsLetter(rows[i]) /\ rows[i].status \in {"new", "unread", "read"}
    BY <1>4, <2>3 DEF Rows
  <2>1. /\ i \in DOMAIN rows /\ IsLetter(rows[i]) /\ rows[i].status \in {"new", "unread", "read"}
        /\ b.mails[i] = [rows[i] EXCEPT !.status = Seen(rows[i].status)]
    BY <1>5, <2>3, <2>4
  <2>2. /\ Seen(rows[i].status) \in {"unread", "read"}
        /\ rows[i].status = "read" => Seen(rows[i].status) = "read"
    BY <2>1 DEF Seen
  <2> QED BY <2>1, <2>2 DEF IsLetter
<1>7. /\ DOMAIN rows' = DOMAIN rows
      /\ \A i \in DOMAIN rows : /\ rows'[i] = IF i \in Listed(p) THEN b.mails[i] ELSE rows[i]
                                /\ rows'[i].to = rows[i].to /\ rows'[i].with = rows[i].with
  BY <1>3, <1>6
<1>8. Rows' /\ Ages
  BY <1>3, <1>4, <1>6, <1>7 DEF Rows, Ages
<1>9. \A q : LettersTo(q)' = LettersTo(q)
  BY <1>7 DEF LettersTo
<1>10. IsBox(p, b) /\ IsBox(p, b)'
  <2>1. \A i \in Listed(p) : OwnId(p, i)
    BY <1>4, <1>5 DEF OwnId, Rows, LettersTo
  <2>2. IsBox(p, b)
    BY <1>5, <1>6, <2>1 DEF IsBox
  <2> QED BY <1>4, <1>8, <2>2, BoxesStay
<1>11. SentBox(b)'
  BY <1>5, <1>7 DEF SentBox
<1>12. ASSUME NEW q \in Player \ away PROVE Asking(q)' \/ WillAgree(q)'
  <2>1. CASE q = p
    <3>1. WillAgree(p)'
      BY <1>1, <1>2, <1>3, <1>4, <1>9, NewBoxAgrees DEF IsNewBox
    <3> QED BY <2>1, <3>1
  <2>2. CASE q # p
    <3>1. \A j \in DOMAIN <<m>> : ~IsNewBox(q, <<m>>[j]) /\ ~TakesSome(q, <<m>>[j])
      BY <1>2, <2>2, OneTold DEF IsNewBox, TakesSome
    <3>2. Tells(q, <<m>>)
      BY <1>9, <3>1 DEF Tells
    <3>3. WillAgree(q) => WillAgree(q)'
      BY <1>3, <1>4, <1>8, <3>1, <3>2, OneTold, AppendAgrees
    <3>4. Asking(q) => Asking(q)'
      BY <1>1, <1>3, <1>4, <2>2, HeadGone
    <3> QED BY <1>4, <3>3, <3>4
  <2> QED BY <2>1, <2>2
<1>13. \A j \in DOMAIN <<m>> : IsBox(<<m>>[j].p, <<m>>[j].box)' /\ SentBox(<<m>>[j].box)'
  BY <1>2, <1>10, <1>11, OneTold
<1>14. PICK t : t = <<m>>
  OBVIOUS
<1>15. \A j \in DOMAIN t : t[j].type = "inbox" => IsBox(t[j].p, t[j].box)' /\ SentBox(t[j].box)'
  BY <1>2, <1>10, <1>11, <1>14, OneTold
<1>16. IsSeq(t) /\ toMap' = toMap \o t
  BY <1>3, <1>14, OneTold
<1>17. Handled(Head(toChar))
  BY <1>3 DEF Handled
<1> QED BY <1>3, <1>8, <1>12, <1>15, <1>16, <1>17, CharSync

\* Nothing happens to letters but what nobody is told.
LEMMA QuietHandler ==
    ASSUME Synced, Rows', UNCHANGED <<inbox, nextMail, away, up>>,
           DOMAIN rows' = DOMAIN rows,
           \A i \in DOMAIN rows : /\ rows'[i].to = rows[i].to
                                  /\ rows'[i].with = rows[i].with \/ rows'[i].with = NoEnclosure
                                  /\ rows[i].status = "read" => rows'[i].status = "read",
           toChar # << >>, toChar' = Tail(toChar), Handled(Head(toChar)), Head(toChar).type # "inbox",
           NEW t, IsSeq(t), toMap' = toMap \o t,
           \A j \in DOMAIN t : t[j].type \notin {"inbox", "deleted", "returned"}
    PROVE  Synced'
<1>1. Rows
  BY DEF Synced
<1>2. Ages
  BY <1>1 DEF Ages, Rows
<1>3. ASSUME NEW q \in Player PROVE Tells(q, t)
  <2>1. LettersTo(q)' = LettersTo(q)
    BY DEF LettersTo
  <2> QED BY <2>1 DEF Tells, TakesSome
<1> QED BY <1>2, <1>3, CharTells

LEMMA ParseReadSync ==
    ASSUME Synced, MapifParseMailRead
    PROVE  Synced'
<1>1. PICK m : m = Head(toChar)
  OBVIOUS
<1>2. /\ toChar # << >> /\ m.type = "read" /\ toChar' = Tail(toChar)
      /\ rows' = IF m.id \in DOMAIN rows THEN [rows EXCEPT ![m.id].status = "read"] ELSE rows
      /\ UNCHANGED <<inbox, nextMail, away, up, toMap>>
  BY <1>1 DEF MapifParseMailRead, FromMap, Link
<1>3. IsSeq(toMap) /\ Rows
  BY DEF Synced
<1>4. /\ DOMAIN rows' = DOMAIN rows
      /\ \A i \in DOMAIN rows : /\ rows'[i].to = rows[i].to /\ rows'[i].with = rows[i].with
                                /\ IsLetter(rows'[i])
                                /\ rows'[i].status = IF i = m.id THEN "read" ELSE rows[i].status
  BY <1>2, <1>3 DEF Rows, IsLetter
<1>5. Rows' /\ Handled(Head(toChar))
  BY <1>1, <1>2, <1>3, <1>4 DEF Rows, Handled
<1>6. toMap' = toMap \o << >>
  BY <1>2, <1>3, NothingJoined
<1>7. PICK t : t = << >>
  OBVIOUS
<1>8. IsSeq(t) /\ toMap' = toMap \o t /\ DOMAIN t = {}
  BY <1>6, <1>7, NothingAsked
<1> QED BY <1>1, <1>2, <1>4, <1>5, <1>8, QuietHandler

LEMMA GetattachSync ==
    ASSUME Synced, MapifMailGetattach
    PROVE  Synced'
<1>1. PICK m, id, p : m = Head(toChar) /\ id = m.id /\ p = m.p
  OBVIOUS
<1>2. /\ toChar # << >> /\ m.type = "getattach" /\ toChar' = Tail(toChar)
      /\ UNCHANGED <<inbox, nextMail, away, up>>
  BY <1>1 DEF MapifMailGetattach, FromMap, Link
<1>3. IsSeq(toMap) /\ Rows
  BY DEF Synced
<1>4. id \in DOMAIN rows => rows[id].to = p /\ rows[id].status = "read"
  BY <1>1, <1>2, HeadAsksRight DEF AboutLetter, OwnId
<1>5. CASE id \in DOMAIN rows /\ rows[id].with # NoEnclosure
  <2>1. PICK a : a = [type |-> "attach", p |-> p, with |-> rows[id].with]
    OBVIOUS
  <2>2. rows' = [rows EXCEPT ![id].with = NoEnclosure] /\ toMap' = toMap \o <<a>>
    BY <1>1, <1>4, <1>5, <2>1 DEF MapifMailGetattach, Answer, LettersTo
  <2>3. /\ DOMAIN rows' = DOMAIN rows
        /\ \A i \in DOMAIN rows : /\ rows'[i].to = rows[i].to /\ rows'[i].status = rows[i].status
                                  /\ IsLetter(rows'[i])
                                  /\ rows'[i].with = IF i = id THEN NoEnclosure ELSE rows[i].with
    BY <1>3, <2>2 DEF Rows, IsLetter
  <2>4. Rows' /\ Handled(Head(toChar))
    BY <1>1, <1>2, <1>3, <2>3 DEF Rows, Handled
  <2>5. \A j \in DOMAIN <<a>> : <<a>>[j].type \notin {"inbox", "deleted", "returned"}
    BY <2>1, OneTold
  <2>6. Head(toChar).type # "inbox"
    BY <1>1, <1>2
  <2>7. \A i \in DOMAIN rows : /\ rows'[i].to = rows[i].to
                               /\ rows'[i].with = rows[i].with \/ rows'[i].with = NoEnclosure
                               /\ rows[i].status = "read" => rows'[i].status = "read"
    BY <2>3
  <2> QED BY <1>2, <2>2, <2>3, <2>4, <2>5, <2>6, <2>7, OneTold, QuietHandler
<1>6. CASE ~(id \in DOMAIN rows /\ rows[id].with # NoEnclosure)
  <2>1. UNCHANGED <<rows, toMap>>
    BY <1>1, <1>6 DEF MapifMailGetattach, LettersTo
  <2>2. Rows' /\ Handled(Head(toChar)) /\ Head(toChar).type # "inbox"
    BY <1>1, <1>2, <1>3, <1>6, <2>1 DEF Rows, Handled
  <2>3. toMap' = toMap \o << >>
    BY <1>3, <2>1, NothingJoined
  <2>4. PICK t : t = << >>
    OBVIOUS
  <2>5. IsSeq(t) /\ toMap' = toMap \o t /\ DOMAIN t = {}
    BY <2>3, <2>4, NothingAsked
  <2> QED BY <1>2, <2>1, <2>2, <2>5, QuietHandler
<1> QED BY <1>5, <1>6

LEMMA TwoTold ==
    ASSUME NEW m, NEW n
    PROVE  DOMAIN <<m, n>> = {1, 2} /\ <<m, n>>[1] = m /\ <<m, n>>[2] = n /\ IsSeq(<<m, n>>)
<1>1. <<m, n>> \in Seq({m, n})
  OBVIOUS
<1>2. IsSeq(<<m, n>>)
  BY <1>1 DEF IsSeq
<1>3. DOMAIN <<m, n>> = {1, 2}
  <2>1. DOMAIN <<m, n>> = 1..Len(<<m, n>>) /\ Len(<<m, n>>) = 2
    BY <1>1
  <2> QED BY <2>1
<1>4. <<m, n>>[1] = m /\ <<m, n>>[2] = n
  OBVIOUS
<1> QED BY <1>2, <1>3, <1>4

\* A request about p's letter removes it: p is told so.
LEMMA TakenOutTells ==
    ASSUME Rows, NEW p, NEW id, OwnId(p, id), NEW t,
           \E j \in DOMAIN t : TakesSome(p, t[j]) /\ t[j].id = id,
           \A j \in DOMAIN t : TakesSome(t[j].p, t[j]) => t[j].p = p /\ t[j].id = id,
           \A i \in DOMAIN rows' : i < nextMail => i \in DOMAIN rows \ {id} /\ rows'[i].to = rows[i].to,
           \A i \in DOMAIN rows \ {id} : i \in DOMAIN rows',
           \A i \in DOMAIN rows' : i < nextMail \/ (\E j \in DOMAIN t : Announces(rows'[i].to, t[j]))
    PROVE  \A q \in Player : Tells(q, t)
<1> TAKE q \in Player
<1>1. \A i \in DOMAIN rows : i < nextMail
  BY DEF Rows
<1>2. CASE \E j \in DOMAIN t : Announces(q, t[j])
  BY <1>2 DEF Tells
<1>3. CASE \A j \in DOMAIN t : ~Announces(q, t[j])
  <2>1. LettersTo(q)' = LettersTo(q) \ {id}
    BY <1>1, <1>3 DEF LettersTo
  <2>2. CASE q = p
    <3>1. \A i : (\E j \in DOMAIN t : TakesOut(p, t[j], i)) <=> i = id
      BY DEF TakesOut, TakesSome
    <3>2. LettersTo(q)' = {i \in LettersTo(q) : \A j \in DOMAIN t : ~TakesOut(q, t[j], i)}
      BY <2>1, <2>2, <3>1
    <3> QED BY <2>2, <3>2 DEF Tells
  <2>3. CASE q # p
    <3>1. id \notin LettersTo(q)
      BY <2>3 DEF OwnId, LettersTo
    <3>2. \A j \in DOMAIN t : ~TakesSome(q, t[j])
      BY <2>3 DEF TakesSome
    <3> QED BY <2>1, <3>1, <3>2 DEF Tells
  <2> QED BY <2>2, <2>3
<1> QED BY <1>2, <1>3

LEMMA ParseDeleteSync ==
    ASSUME Synced, MapifParseMailDelete
    PROVE  Synced'
<1>1. PICK m, p, id : m = Head(toChar) /\ id = m.id /\ p = m.p
  OBVIOUS
<1>2. PICK a, t : a = [type |-> "deleted", p |-> p, id |-> id] /\ t = <<a>>
  OBVIOUS
<1>3. /\ toChar # << >> /\ m.type = "delete" /\ toChar' = Tail(toChar)
      /\ rows' = [i \in DOMAIN rows \ {id} |-> rows[i]]
      /\ toMap' = toMap \o t
      /\ UNCHANGED <<inbox, nextMail, away, up>>
  BY <1>1, <1>2 DEF MapifParseMailDelete, FromMap, Link, Without, Answer
<1>4. IsSeq(toMap) /\ Rows
  BY DEF Synced
<1>5. OwnId(p, id)
  BY <1>1, <1>3, HeadAsksRight DEF AboutLetter
<1>6. IsSeq(t) /\ DOMAIN t = {1} /\ t[1] = a
  BY <1>2, OneTold
<1>7. Rows' /\ Ages
  BY <1>3, <1>4 DEF Rows, Ages
<1>8. \A i \in DOMAIN rows' : i \in DOMAIN rows \ {id} /\ i < nextMail /\ rows'[i].to = rows[i].to
  BY <1>3, <1>4 DEF Rows
<1>9. \A i \in DOMAIN rows \ {id} : i \in DOMAIN rows'
  BY <1>3
<1>10. \E j \in DOMAIN t : TakesSome(p, t[j]) /\ t[j].id = id
  BY <1>2, <1>6 DEF TakesSome
<1>11. \A j \in DOMAIN t : t[j].p = p /\ t[j].id = id /\ t[j].type # "inbox"
  BY <1>2, <1>6
<1>12. \A q \in Player : Tells(q, t)
  BY <1>4, <1>5, <1>8, <1>9, <1>10, <1>11, TakenOutTells
<1>13. Handled(Head(toChar)) /\ Head(toChar).type # "inbox"
  BY <1>1, <1>3 DEF Handled
<1> QED BY <1>3, <1>6, <1>7, <1>11, <1>12, <1>13, CharTells

\* Letters with new ids.
LEMMA NewRows ==
    ASSUME Rows, nextMail' \in Nat, nextMail' >= nextMail,
           \A i \in DOMAIN rows' :
             \/ i \in DOMAIN rows /\ rows'[i] = rows[i]
             \/ /\ i \in Nat /\ i >= nextMail /\ i < nextMail'
                /\ IsLetter(rows'[i]) /\ rows'[i].status \in {"new", "unread", "read"}
    PROVE  Rows' /\ Ages
<1>1. Rows'
  BY DEF Rows
<1>2. \A i \in DOMAIN rows' : i < nextMail => i \in DOMAIN rows /\ rows'[i] = rows[i]
  BY DEF Rows
<1> QED BY <1>1, <1>2 DEF Ages

LEMMA ParseReturnSync ==
    ASSUME Synced, MapifParseMailReturn
    PROVE  Synced'
<1>1. PICK m, p, id : m = Head(toChar) /\ id = m.id /\ p = m.p
  OBVIOUS
<1>2. PICK no, yes : /\ no = [type |-> "returned", p |-> p, id |-> id, fail |-> TRUE]
                     /\ yes = [type |-> "returned", p |-> p, id |-> id, fail |-> FALSE]
  OBVIOUS
<1>3. /\ toChar # << >> /\ m.type = "return" /\ toChar' = Tail(toChar)
      /\ UNCHANGED <<inbox, away, up>>
  BY <1>1 DEF MapifParseMailReturn, FromMap, Link
<1>4. IsSeq(toMap) /\ Rows
  BY DEF Synced
<1>5. OwnId(p, id)
  BY <1>1, <1>3, HeadAsksRight DEF AboutLetter
<1>6. Head(toChar).type # "inbox"
  BY <1>1, <1>3
<1>7. CASE id \notin DOMAIN rows
  <2>1. toMap' = toMap \o <<no>> /\ UNCHANGED <<rows, nextMail>>
    BY <1>1, <1>2, <1>7 DEF MapifParseMailReturn, Answer, CharRows
  <2>2. PICK t : t = <<no>>
    OBVIOUS
  <2>3. IsSeq(t) /\ DOMAIN t = {1} /\ t[1] = no
    BY <2>2, OneTold
  <2>4. Ages
    BY <1>4, <2>1, NothingAges
  <2>5. \A q \in Player : Tells(q, t)
    <3> TAKE q \in Player
    <3>1. LettersTo(q)' = LettersTo(q)
      BY <2>1 DEF LettersTo
    <3>2. \A j \in DOMAIN t : ~TakesSome(q, t[j])
      BY <1>2, <2>3 DEF TakesSome
    <3> QED BY <3>1, <3>2 DEF Tells
  <2>6. Handled(Head(toChar))
    BY <1>1, <1>7, <2>1 DEF Handled
  <2>7. \A j \in DOMAIN t : t[j].type # "inbox"
    BY <1>2, <2>3
  <2>8. toMap' = toMap \o t
    BY <2>1, <2>2
  <2> QED BY <1>3, <1>6, <2>3, <2>4, <2>5, <2>6, <2>7, <2>8, CharTells
<1>8. CASE id \in DOMAIN rows
  <2>1. PICK back : back = [rows[id] EXCEPT !.from = p, !.to = rows[id].from, !.status = "new"]
    OBVIOUS
  <2>2. PICK f : f = [i \in (DOMAIN rows \ {id}) \union {nextMail} |-> IF i = nextMail THEN back ELSE rows[i]]
    OBVIOUS
  <2>3. rows[id].to = p
    BY <1>5, <1>8 DEF OwnId
  <2>4. /\ rows' = f /\ nextMail' = nextMail + 1
        /\ toMap' = toMap \o <<[type |-> "new", p |-> rows'[nextMail].to], yes>>
    BY <1>1, <1>2, <1>8, <2>1, <2>2, <2>3 DEF MapifParseMailReturn, Answer, News
  <2>5. PICK n, t : n = [type |-> "new", p |-> f[nextMail].to] /\ t = <<n, yes>>
    OBVIOUS
  <2>6. toMap' = toMap \o t
    BY <2>4, <2>5
  <2>7. DOMAIN t = {1, 2} /\ t[1] = n /\ t[2] = yes /\ IsSeq(t)
    BY <2>5, TwoTold
  <2>8. IsLetter(back) /\ back.status = "new"
    BY <1>4, <1>8, <2>1 DEF Rows, IsLetter
  <2>9. /\ DOMAIN f = (DOMAIN rows \ {id}) \union {nextMail}
        /\ f[nextMail] = back
        /\ \A i \in DOMAIN rows \ {id} : i # nextMail /\ f[i] = rows[i]
    BY <1>4, <2>2 DEF Rows
  <2>10. nextMail \in Nat /\ \A i \in DOMAIN rows : i \in Nat /\ i < nextMail
    BY <1>4 DEF Rows
  <2>11. Rows' /\ Ages
    <3>1. \A i \in DOMAIN rows' :
             \/ i \in DOMAIN rows /\ rows'[i] = rows[i]
             \/ /\ i \in Nat /\ i >= nextMail /\ i < nextMail'
                /\ IsLetter(rows'[i]) /\ rows'[i].status \in {"new", "unread", "read"}
      BY <2>4, <2>8, <2>9, <2>10
    <3>2. nextMail' \in Nat /\ nextMail' >= nextMail
      BY <2>4, <2>10
    <3> QED BY <1>4, <3>1, <3>2, NewRows
  <2>12. \A q \in Player : Tells(q, t)
    <3>1. \E j \in DOMAIN t : TakesSome(p, t[j]) /\ t[j].id = id
      BY <1>2, <2>7 DEF TakesSome
    <3>2. \A j \in DOMAIN t : TakesSome(t[j].p, t[j]) => t[j].p = p /\ t[j].id = id
      BY <1>2, <2>5, <2>7 DEF TakesSome
    <3>3. \A i \in DOMAIN rows' : i < nextMail => i \in DOMAIN rows \ {id} /\ rows'[i].to = rows[i].to
      BY <2>4, <2>9, <2>10
    <3>4. \A i \in DOMAIN rows \ {id} : i \in DOMAIN rows'
      BY <2>4, <2>9
    <3>5. Announces(rows'[nextMail].to, t[1]) /\ 1 \in DOMAIN t
      BY <2>4, <2>5, <2>7 DEF Announces
    <3>6. \A i \in DOMAIN rows' : i < nextMail \/ (\E j \in DOMAIN t : Announces(rows'[i].to, t[j]))
      BY <2>4, <2>9, <2>10, <3>5
    <3> QED BY <1>4, <1>5, <3>1, <3>2, <3>3, <3>4, <3>6, TakenOutTells
  <2>13. Handled(Head(toChar))
    BY <1>1, <2>4, <2>9, <2>10, <1>8 DEF Handled
  <2>14. \A j \in DOMAIN t : t[j].type # "inbox"
    BY <1>2, <2>5, <2>7
  <2> QED BY <1>3, <1>6, <2>6, <2>7, <2>11, <2>12, <2>13, <2>14, CharTells
<1> QED BY <1>7, <1>8

\* Letters are added, and announced to who they are for.
LEMMA LettersAdded ==
    ASSUME Synced, Rows', Ages, UNCHANGED <<inbox, away, up>>,
           NEW t, IsSeq(t), toMap' = toMap \o t,
           \A j \in DOMAIN t : t[j].type \notin {"inbox", "deleted", "returned"},
           \/ toChar' = toChar
           \/ /\ toChar # << >> /\ toChar' = Tail(toChar)
              /\ Head(toChar).type \notin AboutLetter \union {"inbox"},
           DOMAIN rows \subseteq DOMAIN rows',
           \A i \in DOMAIN rows' :
             \/ i \in DOMAIN rows /\ rows'[i] = rows[i]
             \/ i \notin DOMAIN rows /\ \E j \in DOMAIN t : Announces(rows'[i].to, t[j])
    PROVE  Synced'
<1>1. Handled(Head(toChar)) \/ toChar' = toChar
  BY DEF Handled, AboutLetter
<1>2. ASSUME NEW q \in Player PROVE Tells(q, t)
  <2>1. CASE \E j \in DOMAIN t : Announces(q, t[j])
    BY <2>1 DEF Tells
  <2>2. CASE \A j \in DOMAIN t : ~Announces(q, t[j])
    <3>1. LettersTo(q)' = LettersTo(q)
      BY <2>2 DEF LettersTo
    <3> QED BY <3>1 DEF Tells, TakesSome
  <2> QED BY <2>1, <2>2
<1> QED BY <1>1, <1>2, CharTells

LEMMA ParseSendSync ==
    ASSUME Synced, MapifParseMailSend
    PROVE  Synced'
<1>1. PICK m : m = Head(toChar)
  OBVIOUS
<1>2. /\ toChar # << >> /\ m.type = "send" /\ toChar' = Tail(toChar)
      /\ UNCHANGED <<inbox, away, up>>
  BY <1>1 DEF MapifParseMailSend, FromMap, Link
<1>3. IsSeq(toMap) /\ Rows
  BY DEF Synced
<1>4. Head(toChar).type \notin AboutLetter \union {"inbox"}
  BY <1>1, <1>2 DEF AboutLetter
<1>5. CASE m.to \in {NoPlayer, m.p}
  <2>1. PICK a, t : a = [type |-> "sent", p |-> m.p, fail |-> TRUE, with |-> m.with] /\ t = <<a>>
    OBVIOUS
  <2>2. toMap' = toMap \o t /\ UNCHANGED <<rows, nextMail>>
    BY <1>1, <1>5, <2>1 DEF MapifParseMailSend, Answer, CharRows
  <2>3. IsSeq(t) /\ \A j \in DOMAIN t : t[j].type = "sent"
    BY <2>1, OneTold
  <2>4. Ages /\ Rows'
    BY <1>3, <2>2, NothingAges DEF Ages
  <2> QED BY <1>2, <1>4, <2>2, <2>3, <2>4, LettersAdded
<1>6. CASE m.to \notin {NoPlayer, m.p}
  <2>1. PICK mail : mail = [from |-> m.p, to |-> m.to, status |-> "new", with |-> m.with]
    OBVIOUS
  <2>2. PICK f : f = [i \in DOMAIN rows \union {nextMail} |-> IF i = nextMail THEN mail ELSE rows[i]]
    OBVIOUS
  <2>3. PICK a : a = [type |-> "sent", p |-> m.p, fail |-> FALSE, with |-> NoEnclosure]
    OBVIOUS
  <2>4. /\ rows' = f /\ nextMail' = nextMail + 1
        /\ toMap' = toMap \o <<a, [type |-> "new", p |-> rows'[nextMail].to]>>
    BY <1>1, <1>6, <2>1, <2>2, <2>3 DEF MapifParseMailSend, Answer, News
  <2>5. PICK n, t : n = [type |-> "new", p |-> f[nextMail].to] /\ t = <<a, n>>
    OBVIOUS
  <2>6. toMap' = toMap \o t
    BY <2>4, <2>5
  <2>7. DOMAIN t = {1, 2} /\ t[1] = a /\ t[2] = n /\ IsSeq(t)
    BY <2>5, TwoTold
  <2>8. nextMail \in Nat /\ \A i \in DOMAIN rows : i \in Nat /\ i < nextMail
    BY <1>3 DEF Rows
  <2>9. /\ DOMAIN f = DOMAIN rows \union {nextMail} /\ nextMail \notin DOMAIN rows
        /\ f[nextMail] = mail /\ \A i \in DOMAIN rows : f[i] = rows[i]
        /\ IsLetter(mail) /\ mail.status = "new"
    BY <2>1, <2>2, <2>8 DEF IsLetter
  <2>10. Rows' /\ Ages
    <3>1. \A i \in DOMAIN rows' :
             \/ i \in DOMAIN rows /\ rows'[i] = rows[i]
             \/ /\ i \in Nat /\ i >= nextMail /\ i < nextMail'
                /\ IsLetter(rows'[i]) /\ rows'[i].status \in {"new", "unread", "read"}
      BY <2>4, <2>8, <2>9
    <3>2. nextMail' \in Nat /\ nextMail' >= nextMail
      BY <2>4, <2>8
    <3> QED BY <1>3, <3>1, <3>2, NewRows
  <2>11. 2 \in DOMAIN t /\ Announces(rows'[nextMail].to, t[2])
    BY <2>4, <2>5, <2>7 DEF Announces
  <2>12. \A i \in DOMAIN rows' :
             \/ i \in DOMAIN rows /\ rows'[i] = rows[i]
             \/ i \notin DOMAIN rows /\ \E j \in DOMAIN t : Announces(rows'[i].to, t[j])
    BY <2>4, <2>9, <2>11
  <2>13. \A j \in DOMAIN t : t[j].type \notin {"inbox", "deleted", "returned"}
    BY <2>3, <2>5, <2>7
  <2>14. DOMAIN rows \subseteq DOMAIN rows'
    BY <2>4, <2>9
  <2> QED BY <1>2, <1>4, <2>6, <2>7, <2>10, <2>12, <2>13, <2>14, LettersAdded
<1> QED BY <1>5, <1>6

LEMMA CharParsesSync == Synced /\ CharParses => Synced'
BY RequestinboxSync, ParseReadSync, GetattachSync, ParseDeleteSync, ParseReturnSync, ParseSendSync
   DEF CharParses

-----------------------------------------------------------------------------
(* What the map-server does on what it is told. *)

\* A message that does nothing to any copy.
LEMMA PassedOver ==
    ASSUME Synced, toMap # << >>, toMap' = Tail(toMap),
           UNCHANGED <<rows, nextMail, away, up, toChar>>,
           DOMAIN inbox' = Player, \A p \in Player : inbox'[p] = inbox[p],
           \A p \in Player \ away : ~IsNewBox(p, Head(toMap)) /\ ~Announces(p, Head(toMap))
                                      /\ ~TakesSome(p, Head(toMap))
    PROVE  Synced'
<1>1. /\ IsSeq(toChar) /\ IsSeq(toMap) /\ Rows /\ DOMAIN inbox = Player
      /\ \A p \in Player : IsBox(p, inbox[p]) /\ HeldBox(p, inbox[p])
      /\ \A p \in Player \ away : Asking(p) \/ WillAgree(p)
  BY DEF Synced
<1>2. toChar' = toChar \o << >>
  BY <1>1, NothingJoined
<1>3. \A p \in Player : IsBox(p, inbox[p])' /\ HeldBox(p, inbox[p])'
  BY <1>1, <1>2, NothingAsked, CopyStays
<1>4. ASSUME NEW p \in Player \ away PROVE Asking(p)' \/ WillAgree(p)'
  <2>1. Asking(p) => Asking(p)'
    BY DEF Asking
  <2>2. DOMAIN inbox'[p].mails = {i \in DOMAIN inbox[p].mails : ~TakesOut(p, Head(toMap), i)}
    BY <1>4 DEF TakesOut
  <2>3. WillAgree(p) => WillAgree(p)'
    BY <1>1, <1>4, <2>2, TailAgrees
  <2> QED BY <1>1, <2>1, <2>3
<1>5. \A p \in Player \ away' : Asking(p)' \/ WillAgree(p)'
  BY <1>4
<1> QED BY <1>1, <1>2, <1>3, <1>5, NothingAsked, MapSync

\* The message h makes b of p's copy; msgs are asked for then.
CopyTold(h, p, b, msgs) ==
    \/ h.type = "inbox" /\ b = h.box
    \/ h.type = "new" /\ b.changed
    \/ \E j \in DOMAIN msgs : msgs[j].type = "inbox" /\ msgs[j].p = p
    \/ /\ h.type \notin {"inbox", "new"} /\ ~inbox[p].full
       /\ b.full = inbox[p].full /\ b.changed = inbox[p].changed
       /\ DOMAIN b.mails = {i \in DOMAIN inbox[p].mails : ~TakesOut(p, h, i)}

\* A message that changes the copy of one player, who is there.
LEMMA OneCopyChanges ==
    ASSUME Synced, toMap # << >>, toMap' = Tail(toMap), UNCHANGED <<rows, nextMail, away, up>>,
           NEW msgs, IsSeq(msgs), AsksWell(msgs), toChar' = toChar \o msgs,
           NEW h, h = Head(toMap), NEW p \in Player, p = h.p,
           DOMAIN inbox' = Player, \A q \in Player \ {p} : inbox'[q] = inbox[q],
           NEW b, b = inbox'[p], IsBox(p, b), HeldBox(p, b),
           CopyTold(h, p, b, msgs)
    PROVE  Synced'
<1>1. /\ IsSeq(toChar) /\ IsSeq(toMap) /\ Rows /\ DOMAIN inbox = Player
      /\ \A q \in Player : IsBox(q, inbox[q]) /\ HeldBox(q, inbox[q])
      /\ \A q \in Player \ away : Asking(q) \/ WillAgree(q)
  BY DEF Synced
<1>2. \A q \in Player \ {p} : IsBox(q, inbox[q])' /\ HeldBox(q, inbox[q])'
  BY <1>1, CopyStays
<1>3. IsBox(p, inbox[p])' /\ HeldBox(p, inbox[p])'
  <2>1. IsBox(p, b)'
    BY <1>1, BoxesStay, NothingAges
  <2>2. \A i \in DOMAIN b.mails : i \in DOMAIN rows' =>
             /\ \/ b.mails[i].with = rows'[i].with \/ rows'[i].with = NoEnclosure
                \/ b.mails[i].with = NoEnclosure /\ Emptying(p, i)'
             /\ b.mails[i].status = "read" =>
                  rows'[i].status = "read" \/ Reading(i, Len(toChar) + 1)'
    BY <1>1, MoreAsked DEF HeldBox
  <2> QED BY <2>1, <2>2, HeldThen, BoxThen
<1>4. \A q \in Player : IsBox(q, inbox[q])' /\ HeldBox(q, inbox[q])'
  BY <1>2, <1>3
<1>5. ASSUME NEW q \in Player \ away' PROVE Asking(q)' \/ WillAgree(q)'
  <2>1. Asking(q) => Asking(q)'
    BY <1>1, MoreAsked
  <2>2. CASE q # p
    <3>1. ~IsNewBox(q, h) /\ ~Announces(q, h) /\ ~TakesSome(q, h)
      BY <2>2 DEF IsNewBox, Announces, TakesSome
    <3>2. DOMAIN inbox'[q].mails = {i \in DOMAIN inbox[q].mails : ~TakesOut(q, h, i)}
      BY <2>2, <3>1 DEF TakesOut
    <3>3. WillAgree(q) => WillAgree(q)'
      BY <1>1, <2>2, <3>1, <3>2, TailAgrees
    <3> QED BY <1>1, <2>1, <3>3
  <2>3. CASE q = p /\ h.type = "inbox" /\ b = h.box
    <3>1. WillAgree(q) => WillAgree(q)'
      BY <1>1, <2>3, TailAgrees DEF IsNewBox, Announces
    <3> QED BY <1>1, <2>1, <3>1
  <2>4. CASE q = p /\ h.type = "new" /\ b.changed
    <3>1. WillAgree(q) => WillAgree(q)'
      BY <1>1, <2>4, TailAgrees DEF IsNewBox, Announces
    <3> QED BY <1>1, <2>1, <3>1
  <2>5. CASE q = p /\ \E j \in DOMAIN msgs : msgs[j].type = "inbox" /\ msgs[j].p = p
    BY <1>1, <2>5, MoreAsked
  <2>6. CASE /\ q = p /\ h.type \notin {"inbox", "new"} /\ ~inbox[p].full
             /\ b.full = inbox[p].full /\ b.changed = inbox[p].changed
             /\ DOMAIN b.mails = {i \in DOMAIN inbox[p].mails : ~TakesOut(p, h, i)}
    <3>1. ~IsNewBox(q, h) /\ ~Announces(q, h)
      BY <2>6 DEF IsNewBox, Announces
    <3>2. WillAgree(q) => WillAgree(q)'
      BY <1>1, <2>6, <3>1, TailAgrees
    <3> QED BY <1>1, <2>1, <3>2
  <2> QED BY <2>2, <2>3, <2>4, <2>5, <2>6 DEF CopyTold
<1> QED BY <1>1, <1>4, <1>5, MapSync

LEMMA InboxReceivedSync ==
    ASSUME Synced, IntifParseMailInboxReceived
    PROVE  Synced'
<1>1. PICK h, p : h = Head(toMap) /\ p = h.p
  OBVIOUS
<1>2. /\ toMap # << >> /\ h.type = "inbox" /\ toMap' = Tail(toMap)
      /\ inbox' = IF p \notin away THEN [inbox EXCEPT ![p] = h.box] ELSE inbox
      /\ UNCHANGED <<rows, nextMail, away, up, toChar>>
  BY <1>1 DEF IntifParseMailInboxReceived, FromChar, Present, CharRows, Link
<1>3. /\ IsSeq(toChar) /\ IsSeq(toMap) /\ DOMAIN inbox = Player
      /\ \A k \in DOMAIN toMap : toMap[k].type = "inbox" =>
                                    IsBox(toMap[k].p, toMap[k].box) /\ SentBox(toMap[k].box)
  BY DEF Synced
<1>4. h = toMap[1] /\ 1 \in DOMAIN toMap
  BY <1>1, <1>2, <1>3, Tailed
<1>5. CASE p \in Player \ away
  <2>1. PICK b : b = h.box
    OBVIOUS
  <2>2. IsBox(p, b) /\ SentBox(b)
    BY <1>1, <1>2, <1>3, <1>4, <2>1
  <2>3. HeldBox(p, b)
    BY <2>2 DEF SentBox, HeldBox
  <2>4. DOMAIN inbox' = Player /\ inbox'[p] = b /\ \A q \in Player \ {p} : inbox'[q] = inbox[q]
    BY <1>2, <1>3, <1>5, <2>1
  <2>5. PICK msgs : msgs = << >>
    OBVIOUS
  <2>6. IsSeq(msgs) /\ AsksWell(msgs) /\ toChar' = toChar \o msgs
    BY <1>2, <1>3, <2>5, NothingAsked, NothingJoined
  <2>7. CopyTold(h, p, b, msgs)
    BY <1>2, <2>1 DEF CopyTold
  <2> QED BY <1>1, <1>2, <1>5, <2>2, <2>3, <2>4, <2>6, <2>7, OneCopyChanges
<1>6. CASE p \notin Player \ away
  <2>1. DOMAIN inbox' = Player /\ \A q \in Player : inbox'[q] = inbox[q]
    BY <1>2, <1>3, <1>6
  <2>2. \A q \in Player \ away : q # p
    BY <1>6
  <2>3. \A q \in Player \ away : ~IsNewBox(q, Head(toMap)) /\ ~Announces(q, Head(toMap))
                                   /\ ~TakesSome(q, Head(toMap))
    BY <1>1, <2>2 DEF IsNewBox, Announces, TakesSome
  <2> QED BY <1>2, <2>1, <2>3, PassedOver
<1> QED BY <1>5, <1>6

LEMMA NewSync ==
    ASSUME Synced, IntifParseMailNew
    PROVE  Synced'
<1>1. PICK h, p : h = Head(toMap) /\ p = h.p
  OBVIOUS
<1>2. /\ toMap # << >> /\ h.type = "new" /\ toMap' = Tail(toMap)
      /\ inbox' = IF p \notin away THEN [inbox EXCEPT ![p].changed = TRUE] ELSE inbox
      /\ UNCHANGED <<rows, nextMail, away, up, toChar>>
  BY <1>1 DEF IntifParseMailNew, FromChar, Present, CharRows, Link
<1>3. /\ IsSeq(toChar) /\ DOMAIN inbox = Player
      /\ \A q \in Player : IsBox(q, inbox[q]) /\ HeldBox(q, inbox[q])
  BY DEF Synced
<1>4. CASE p \in Player \ away
  <2>1. PICK b : b = inbox'[p]
    OBVIOUS
  <2>2. /\ DOMAIN inbox' = Player /\ \A q \in Player \ {p} : inbox'[q] = inbox[q]
        /\ b.changed = TRUE /\ b.full = inbox[p].full /\ b.mails = inbox[p].mails
        /\ DOMAIN b = DOMAIN inbox[p]
    BY <1>2, <1>3, <1>4, <2>1 DEF IsBox
  <2>3. IsBox(p, b) /\ HeldBox(p, b)
    BY <1>3, <1>4, <2>2 DEF IsBox, HeldBox
  <2>4. PICK msgs : msgs = << >>
    OBVIOUS
  <2>5. IsSeq(msgs) /\ AsksWell(msgs) /\ toChar' = toChar \o msgs
    BY <1>2, <1>3, <2>4, NothingAsked, NothingJoined
  <2>6. CopyTold(h, p, b, msgs)
    BY <1>2, <2>2 DEF CopyTold
  <2> QED BY <1>1, <1>2, <1>4, <2>1, <2>2, <2>3, <2>5, <2>6, OneCopyChanges
<1>5. CASE p \notin Player \ away
  <2>1. DOMAIN inbox' = Player /\ \A q \in Player : inbox'[q] = inbox[q]
    BY <1>2, <1>3, <1>5
  <2>2. \A q \in Player \ away : q # p
    BY <1>5
  <2>3. \A q \in Player \ away : ~IsNewBox(q, Head(toMap)) /\ ~Announces(q, Head(toMap))
                                   /\ ~TakesSome(q, Head(toMap))
    BY <1>1, <2>2 DEF IsNewBox, Announces, TakesSome
  <2> QED BY <1>2, <2>1, <2>3, PassedOver
<1> QED BY <1>4, <1>5

\* A letter is out of the table, and goes out of the copy.
LEMMA TakenOutSync ==
    ASSUME Synced, toMap # << >>, toMap' = Tail(toMap), UNCHANGED <<rows, nextMail, away, up>>,
           NEW h, h = Head(toMap), TakesSome(h.p, h), h.p \notin away, TakenOut(h.p, h.id)
    PROVE  Synced'
<1>1. PICK p, id : p = h.p /\ id = h.id
  OBVIOUS
<1>2. PICK m : m = [type |-> "inbox", p |-> p]
  OBVIOUS
<1>3. PICK msgs : msgs = IF inbox[p].full THEN <<m>> ELSE << >>
  OBVIOUS
<1>4. /\ IsSeq(toChar) /\ IsSeq(toMap) /\ Rows /\ DOMAIN inbox = Player
      /\ \A q \in Player : IsBox(q, inbox[q]) /\ HeldBox(q, inbox[q])
  BY DEF Synced
<1>5. /\ inbox' = [inbox EXCEPT ![p].mails = Without(@, id)]
      /\ Asks(msgs)
  BY <1>1, <1>2, <1>3 DEF TakenOut
<1>6. toChar' = toChar \o msgs
  BY <1>5, AskedOfUp
<1>7. IsSeq(msgs) /\ AsksWell(msgs)
  <2>1. CASE inbox[p].full
    BY <1>2, <1>3, <2>1, OneAsked DEF AboutLetter
  <2>2. CASE ~inbox[p].full
    BY <1>3, <2>2, NothingAsked
  <2> QED BY <2>1, <2>2
<1>8. h.type \in {"deleted", "returned"}
  BY DEF TakesSome
<1>9. CASE p \in Player
  <2>1. PICK b : b = inbox'[p]
    OBVIOUS
  <2>2. inbox' = [inbox EXCEPT ![p] = [inbox[p] EXCEPT !.mails = [i \in DOMAIN inbox[p].mails \ {id} |-> inbox[p].mails[i]]]]
    BY <1>5 DEF Without
  <2>3. /\ DOMAIN inbox' = Player /\ \A q \in Player \ {p} : inbox'[q] = inbox[q]
        /\ b.changed = inbox[p].changed /\ b.full = inbox[p].full
        /\ b.mails = [i \in DOMAIN inbox[p].mails \ {id} |-> inbox[p].mails[i]]
        /\ DOMAIN b = DOMAIN inbox[p]
    BY <1>4, <1>9, <2>1, <2>2 DEF IsBox
  <2>4. IsBox(p, b) /\ HeldBox(p, b)
    BY <1>4, <1>9, <2>3 DEF IsBox, HeldBox
  <2>5. DOMAIN b.mails = {i \in DOMAIN inbox[p].mails : ~TakesOut(p, h, i)}
    BY <1>1, <2>3 DEF TakesOut
  <2>6. inbox[p].full => \E j \in DOMAIN msgs : msgs[j].type = "inbox" /\ msgs[j].p = p
    BY <1>2, <1>3
  <2>7. h.type \notin {"inbox", "new"}
    BY <1>8
  <2>8. CopyTold(h, p, b, msgs)
    BY <1>4, <1>9, <2>3, <2>5, <2>6, <2>7 DEF CopyTold, IsBox
  <2>9. /\ DOMAIN inbox' = Player /\ \A q \in Player \ {p} : inbox'[q] = inbox[q]
        /\ b = inbox'[p] /\ IsBox(p, b) /\ HeldBox(p, b)
    BY <2>1, <2>3, <2>4
  <2> QED BY <1>1, <1>6, <1>7, <1>9, <2>8, <2>9, OneCopyChanges
<1>10. CASE p \notin Player
  <2>1. DOMAIN inbox' = Player /\ \A q \in Player : inbox'[q] = inbox[q]
    BY <1>4, <1>5, <1>10
  <2>2. \A q \in Player : IsBox(q, inbox[q])' /\ HeldBox(q, inbox[q])'
    BY <1>4, <1>6, <1>7, <2>1, CopyStays
  <2>3. ASSUME NEW q \in Player \ away' PROVE Asking(q)' \/ WillAgree(q)'
    <3>1. ~IsNewBox(q, h) /\ ~Announces(q, h) /\ ~TakesSome(q, h)
      BY <1>1, <1>10 DEF IsNewBox, Announces, TakesSome
    <3>2. DOMAIN inbox'[q].mails = {i \in DOMAIN inbox[q].mails : ~TakesOut(q, h, i)}
      BY <2>1, <3>1 DEF TakesOut
    <3>3. WillAgree(q) => WillAgree(q)'
      BY <1>4, <2>1, <3>1, <3>2, TailAgrees
    <3>4. Asking(q) => Asking(q)'
      BY <1>4, <1>6, <1>7, MoreAsked
    <3> QED BY <3>3, <3>4 DEF Synced
  <2> QED BY <1>4, <1>6, <1>7, <2>1, <2>2, <2>3, MapSync
<1> QED BY <1>9, <1>10

LEMMA MapParsesSync == Synced /\ MapParses => Synced'
<1> SUFFICES ASSUME Synced, MapParses PROVE Synced'
  OBVIOUS
<1>1. ASSUME IntifParseMailGetAttach \/ IntifParseMailSend PROVE Synced'
  <2>1. /\ toMap # << >> /\ Head(toMap).type \in {"attach", "sent"} /\ toMap' = Tail(toMap)
        /\ UNCHANGED <<inbox, rows, nextMail, away, up, toChar>>
    BY <1>1 DEF IntifParseMailGetAttach, IntifParseMailSend, FromChar, CharRows, Link
  <2>2. DOMAIN inbox' = Player /\ \A q \in Player : inbox'[q] = inbox[q]
    BY <2>1 DEF Synced
  <2> QED BY <2>1, <2>2, PassedOver DEF IsNewBox, Announces, TakesSome
<1>2. ASSUME IntifParseMailDelete \/ IntifParseMailReturn PROVE Synced'
  <2>1. PICK h : h = Head(toMap)
    OBVIOUS
  <2>2. /\ toMap # << >> /\ toMap' = Tail(toMap) /\ UNCHANGED <<rows, nextMail, away, up>>
        /\ \/ TakesSome(h.p, h) /\ h.p \notin away /\ TakenOut(h.p, h.id)
           \/ UNCHANGED <<inbox, toChar>> /\ (h.p \in away \/ ~TakesSome(h.p, h))
        /\ h.type \in {"deleted", "returned"}
    BY <1>2, <2>1 DEF IntifParseMailDelete, IntifParseMailReturn, FromChar, Present, CharRows, Link, TakesSome
  <2>3. CASE TakesSome(h.p, h) /\ h.p \notin away /\ TakenOut(h.p, h.id)
    BY <2>1, <2>2, <2>3, TakenOutSync
  <2>4. CASE UNCHANGED <<inbox, toChar>> /\ (h.p \in away \/ ~TakesSome(h.p, h))
    <3>1. \A p \in Player \ away : ~IsNewBox(p, h) /\ ~Announces(p, h) /\ ~TakesSome(p, h)
      BY <2>2, <2>4 DEF IsNewBox, Announces, TakesSome
    <3>2. DOMAIN inbox' = Player /\ \A q \in Player : inbox'[q] = inbox[q]
      BY <2>4 DEF Synced
    <3> QED BY <2>1, <2>2, <2>4, <3>1, <3>2, PassedOver
  <2> QED BY <2>2, <2>3, <2>4
<1> QED BY <1>1, <1>2, InboxReceivedSync, NewSync DEF MapParses

-----------------------------------------------------------------------------
(* The specification of the mail. *)

LEMMA SyncAtInit ==
    ASSUME NEW s \in Setups, MailInitWith(s)
    PROVE  InSync
<1>1. /\ rows = s.post.rows /\ nextMail = s.post.nextMail
      /\ inbox = [p \in Player |-> InboxOf(p)]
      /\ up = TRUE /\ losses = 0 /\ toChar = << >> /\ toMap = << >>
  BY DEF MailInitWith
<1>2. /\ nextMail \in Nat \ {0}
      /\ \A i \in DOMAIN rows : i \in 1..(nextMail - 1) /\ rows[i] \in Letters
  BY <1>1, LettersAssumption
<1>3. Rows
  BY <1>2 DEF Rows, Letters, IsLetter
<1>4. ASSUME NEW p \in Player
      PROVE  IsBox(p, inbox[p]) /\ HeldBox(p, inbox[p]) /\ WillAgree(p)
  <2>1. PICK b : b = inbox[p]
    OBVIOUS
  <2>2. b = InboxOf(p)
    BY <1>1, <2>1
  <2>3. /\ Listed(p) \subseteq LettersTo(p) /\ LettersTo(p) \subseteq DOMAIN rows
        /\ \A i \in Listed(p) : b.mails[i] = [rows[i] EXCEPT !.status = Seen(rows[i].status)]
        /\ DOMAIN b.mails = Listed(p) /\ b.changed = FALSE
        /\ b.full = (Listed(p) # LettersTo(p))
        /\ {"mails", "full", "changed"} \subseteq DOMAIN b
    BY <2>2 DEF Listed, LettersTo, InboxOf
  <2>4. ASSUME NEW i \in Listed(p)
        PROVE  /\ OwnId(p, i) /\ IsLetter(b.mails[i]) /\ b.mails[i].status \in {"unread", "read"}
               /\ b.mails[i].with = rows[i].with
               /\ b.mails[i].status = "read" => rows[i].status = "read"
    <3>1. i \in LettersTo(p) /\ i \in DOMAIN rows
      BY <2>3, <2>4
    <3>2. OwnId(p, i)
      BY <1>3, <3>1 DEF OwnId, Rows, LettersTo
    <3>3. IsLetter(rows[i]) /\ rows[i].status \in {"new", "unread", "read"}
      BY <1>3, <3>1 DEF Rows
    <3>4. b.mails[i] = [rows[i] EXCEPT !.status = Seen(rows[i].status)]
      BY <2>3, <2>4
    <3>5. /\ Seen(rows[i].status) \in {"unread", "read"}
          /\ Seen(rows[i].status) = "read" => rows[i].status = "read"
      BY <3>3 DEF Seen
    <3> QED BY <3>2, <3>3, <3>4, <3>5 DEF IsLetter
  <2>5. IsBox(p, b) /\ HeldBox(p, b)
    BY <2>3, <2>4 DEF IsBox, HeldBox
  <2>6. DOMAIN toMap = {} /\ \A k : After(k) = {}
    BY <1>1 DEF After
  <2>7. WillAgree(p)
    <3> SUFFICES ASSUME NEW k \in Nat, IsLast(p, k), Quiet(p, k) PROVE Agrees(p, k)
      BY DEF WillAgree
    <3>1. k = 0
      BY <2>6 DEF IsLast
    <3>2. BoxAt(p, k) = b
      BY <2>1, <3>1 DEF BoxAt
    <3>3. Left(p, k) = Listed(p)
      BY <2>3, <2>6, <3>2 DEF Left
    <3> QED BY <2>3, <3>2, <3>3 DEF Agrees
  <2> QED BY <2>1, <2>5, <2>7
<1>5. AsksRight /\ DOMAIN toMap = {} /\ DOMAIN inbox = Player
  BY <1>1 DEF AsksRight
<1>6. Synced
  BY <1>1, <1>3, <1>4, <1>5, NothingAsked DEF Synced
<1> QED BY <1>1, <1>6 DEF InSync

LEMMA SyncMailStep == InSync /\ [AllNext]_<<vars, mailVars>> => InSync'
<1> SUFFICES ASSUME InSync, [AllNext]_<<vars, mailVars>> PROVE InSync'
  OBVIOUS
<1>1. losses \in Nat /\ (losses = 0 => Synced)
  BY DEF InSync
<1>2. CASE LinkLost
  BY <1>1, <1>2 DEF LinkLost, InSync
<1>3. CASE LinkBack
  BY <1>1, <1>3 DEF LinkBack, InSync, Synced
<1>4. CASE Exchanging \/ UNCHANGED <<vars, mailVars>>
  BY <1>1, <1>4, StillSync DEF Exchanging, mailVars, InSync
<1>5. CASE MailNext \/ CharParses \/ MapParses
  <2>1. losses' = losses
    BY <1>5 DEF MailNext, MailSetItem, MailSetZeny, MailWinopen, MailSend, MailRefreshInbox, MailRead,
                MailGetAttach, MailDelete, MailReturn, MailQuit, MailBack, CharParses, MapParses,
                MapifParseMailRequestinbox, MapifParseMailRead, MapifMailGetattach,
                MapifParseMailDelete, MapifParseMailReturn, MapifParseMailSend,
                IntifParseMailInboxReceived, IntifParseMailGetAttach, IntifParseMailSend,
                IntifParseMailDelete, IntifParseMailReturn, IntifParseMailNew, Link
  <2> QED BY <1>1, <1>5, <2>1, MailNextSync, CharParsesSync, MapParsesSync DEF InSync
<1> QED BY <1>2, <1>3, <1>4, <1>5 DEF AllNext

LEMMA SyncedIsInSync == InSync => InboxInSync
<1> SUFFICES ASSUME InSync, losses = 0, NEW p \in Player \ away,
                    ~inbox[p].changed, ~OnTheWay(p)
             PROVE  /\ DOMAIN inbox[p].mails = Listed(p)
                    /\ \A id \in Listed(p) :
                          \/ inbox[p].mails[id].with \in {rows[id].with}
                          \/ rows[id].with = NoEnclosure
  BY DEF InboxInSync
<1>1. /\ HeldBox(p, inbox[p]) /\ (Asking(p) \/ WillAgree(p))
  BY DEF InSync, Synced
<1>2. /\ \A j \in DOMAIN toChar : toChar[j].p # p
      /\ \A j \in DOMAIN toMap : toMap[j].p # p
  BY DEF OnTheWay
<1>3. ~Asking(p) /\ \A i : ~Emptying(p, i)
  BY <1>2 DEF Asking, Emptying
<1>4. IsLast(p, 0) /\ Quiet(p, 0)
  BY <1>2 DEF IsLast, Quiet, BoxAt, After, IsNewBox, Announces
<1>5. Agrees(p, 0)
  BY <1>1, <1>3, <1>4 DEF WillAgree
<1>6. Left(p, 0) = DOMAIN inbox[p].mails /\ ~\E j \in After(0) : TakesSome(p, toMap[j])
  BY <1>2 DEF Left, BoxAt, TakesOut, TakesSome, After
<1>7. DOMAIN inbox[p].mails = Listed(p)
  BY <1>5, <1>6 DEF Agrees, BoxAt
<1>8. Listed(p) \subseteq DOMAIN rows
  BY DEF Listed, LettersTo
<1> QED BY <1>1, <1>3, <1>7, <1>8 DEF HeldBox

\* The copy of an inbox lists what the table holds, and shows nothing as empty that
\* is not, once the answers are in and until new mail is announced, in every order
\* of requests, deletions, returns, departures and new letters.
THEOREM MailInboxInSync == MailSpec => []InboxInSync
<1>1. MailInit => InSync
  BY SyncAtInit DEF MailInit
<1> QED BY <1>1, SyncMailStep, SyncedIsInSync, PTL DEF MailSpec

-----------------------------------------------------------------------------
(* The auctions. *)

\* What the seller or a bidder asks for is about no letter.
LEMMA AuctionNextSync == Synced /\ AuctionNext => Synced'
<1> SUFFICES ASSUME Synced, AuctionNext PROVE Synced'
  OBVIOUS
<1>1. CASE UNCHANGED <<inbox, rows, nextMail, away, up, toChar, toMap>>
  BY <1>1, StillSync
<1>2. ASSUME NEW m, m.type \notin AboutLetter, Asks(<<m>>),
             UNCHANGED <<inbox, rows, nextMail, away, up, toMap>>
      PROVE  Synced'
  <2>1. PICK msgs : msgs = <<m>>
    OBVIOUS
  <2>2. IsSeq(msgs) /\ AsksWell(msgs)
    BY <1>2, <2>1, OneAsked
  <2>3. toChar' = toChar \o msgs
    BY <1>2, <2>1, AskedOfUp
  <2> QED BY <1>2, <2>2, <2>3, ClientSync
<1>3. ASSUME NEW p, NEW s, AuctionCancelreg(p) \/ AuctionSetitem(p, s) PROVE Synced'
  BY <1>1, <1>3 DEF AuctionCancelreg, AuctionSetitem, CharRows, Link
<1>4. ASSUME NEW p, NEW price, NEW buynow, AuctionRegister(p, price, buynow) PROVE Synced'
  <2>1. PICK s \in offer[p] :
           Asks(<<[type |-> "register", p |-> p,
                   price |-> Capped(price, buynow).price, buynow |-> Capped(price, buynow).buynow,
                   with |-> [Ware(sd[p].inv[s].item) EXCEPT !.zeny = AuctionFee]]>>)
    BY <1>4 DEF AuctionRegister
  <2>2. UNCHANGED <<inbox, rows, nextMail, away, up, toMap>>
    BY <1>4 DEF AuctionRegister, CharRows, Link
  <2> QED BY <1>2, <2>1, <2>2 DEF AboutLetter
<1>5. ASSUME NEW p, NEW id, NEW bid, AuctionBid(p, id, bid) PROVE Synced'
  <2>1. /\ Asks(<<[type |-> "bid", p |-> p, id |-> id, with |-> Zeny(bid)]>>)
        /\ UNCHANGED <<inbox, rows, nextMail, away, up, toMap>>
    BY <1>5 DEF AuctionBid, CharRows, Link
  <2> QED BY <1>2, <2>1 DEF AboutLetter
<1>6. ASSUME NEW p, NEW id, AuctionCancel(p, id) \/ AuctionClose(p, id) PROVE Synced'
  <2>1. /\ \/ Asks(<<[type |-> "cancel", p |-> p, id |-> id]>>)
           \/ Asks(<<[type |-> "close", p |-> p, id |-> id]>>)
        /\ UNCHANGED <<inbox, rows, nextMail, away, up, toMap>>
    BY <1>6 DEF AuctionCancel, AuctionClose, CharRows, Link
  <2> QED BY <1>2, <2>1 DEF AboutLetter
<1> QED BY <1>3, <1>4, <1>5, <1>6 DEF AuctionNext

\* Who is sent a letter is told by t, which tells nothing else of letters.
Announced(mails, t) == \A n \in DOMAIN mails : \E j \in DOMAIN t : Announces(mails[n].to, t[j])
OnlyNews(t) == \A j \in DOMAIN t : t[j].type \notin {"inbox", "deleted", "returned"}

LEMMA NewsAre ==
    ASSUME NEW mails, IsSeq(mails)
    PROVE  IsSeq(NewsOf(mails)) /\ Announced(mails, NewsOf(mails)) /\ OnlyNews(NewsOf(mails))
<1>1. Len(mails) \in Nat /\ DOMAIN mails = 1..Len(mails)
  BY DEF IsSeq
<1>2. PICK S : S = {[type |-> "new", p |-> mails[i].to] : i \in DOMAIN mails}
  OBVIOUS
<1>3. NewsOf(mails) \in [1..Len(mails) -> S]
  BY <1>1, <1>2 DEF NewsOf
<1>4. IsSeq(NewsOf(mails))
  BY <1>1, <1>3 DEF IsSeq
<1> QED BY <1>4 DEF NewsOf, Announced, OnlyNews, Announces

LEMMA NewsJoined ==
    ASSUME NEW s, NEW t, IsSeq(s), IsSeq(t), OnlyNews(s), OnlyNews(t)
    PROVE  /\ IsSeq(s \o t) /\ OnlyNews(s \o t)
           /\ \A mails : Announced(mails, s) \/ Announced(mails, t) => Announced(mails, s \o t)
<1>1. PICK st : st = s \o t
  OBVIOUS
<1>2. /\ IsSeq(st)
      /\ Len(s) \in Nat /\ Len(t) \in Nat
      /\ DOMAIN s = 1..Len(s) /\ DOMAIN t = 1..Len(t)
      /\ DOMAIN st = 1..(Len(s) + Len(t))
      /\ \A j \in 1..Len(s) : st[j] = s[j]
      /\ \A j \in 1..Len(t) : st[Len(s) + j] = t[j]
  BY <1>1, Joined
<1>3. \A j \in DOMAIN s : j \in DOMAIN st /\ st[j] = s[j]
  BY <1>2
<1>4. \A j \in DOMAIN t : Len(s) + j \in DOMAIN st /\ st[Len(s) + j] = t[j]
  BY <1>2
<1>5. ASSUME NEW j \in DOMAIN st
      PROVE  (\E k \in DOMAIN s : st[j] = s[k]) \/ (\E k \in DOMAIN t : st[j] = t[k])
  <2>1. CASE j <= Len(s)
    BY <1>2, <2>1
  <2>2. CASE j > Len(s)
    <3>1. PICK k : k = j - Len(s)
      OBVIOUS
    <3>2. k \in 1..Len(t) /\ j = Len(s) + k
      BY <1>2, <2>2, <3>1
    <3> QED BY <1>2, <3>2
  <2> QED BY <1>2, <2>1, <2>2
<1>6. OnlyNews(st)
  BY <1>5 DEF OnlyNews
<1>7. ASSUME NEW mails, Announced(mails, s) \/ Announced(mails, t) PROVE Announced(mails, st)
  BY <1>3, <1>4, <1>7 DEF Announced
<1> QED BY <1>1, <1>2, <1>6, <1>7

LEMMA MailsJoined ==
    ASSUME NEW m, NEW n, IsSeq(m), IsSeq(n), NEW t, Announced(m, t), Announced(n, t)
    PROVE  IsSeq(m \o n) /\ Announced(m \o n, t)
<1>1. PICK mn : mn = m \o n
  OBVIOUS
<1>2. /\ IsSeq(mn)
      /\ Len(m) \in Nat /\ Len(n) \in Nat
      /\ DOMAIN m = 1..Len(m) /\ DOMAIN n = 1..Len(n)
      /\ DOMAIN mn = 1..(Len(m) + Len(n))
      /\ \A j \in 1..Len(m) : mn[j] = m[j]
      /\ \A j \in 1..Len(n) : mn[Len(m) + j] = n[j]
  BY <1>1, Joined
<1>3. ASSUME NEW j \in DOMAIN mn
      PROVE  (\E k \in DOMAIN m : mn[j] = m[k]) \/ (\E k \in DOMAIN n : mn[j] = n[k])
  <2>1. CASE j <= Len(m)
    BY <1>2, <2>1
  <2>2. CASE j > Len(m)
    <3>1. PICK k : k = j - Len(m)
      OBVIOUS
    <3>2. k \in 1..Len(n) /\ j = Len(m) + k
      BY <1>2, <2>2, <3>1
    <3> QED BY <1>2, <3>2
  <2> QED BY <1>2, <2>1, <2>2
<1> QED BY <1>1, <1>2, <1>3 DEF Announced

LEMMA MailsSent ==
    ASSUME Synced, NEW mails, IsSeq(mails), SendMails(mails), UNCHANGED <<inbox, away, up>>,
           NEW t, IsSeq(t), OnlyNews(t), Announced(mails, t), toMap' = toMap \o t,
           \/ toChar' = toChar
           \/ /\ toChar # << >> /\ toChar' = Tail(toChar)
              /\ Head(toChar).type \notin AboutLetter \union {"inbox"}
    PROVE  Synced'
<1>1. Len(mails) \in Nat /\ DOMAIN mails = 1..Len(mails)
  BY DEF IsSeq
<1>2. Rows /\ nextMail \in Nat /\ \A i \in DOMAIN rows : i \in Nat /\ i < nextMail
  BY DEF Synced, Rows
<1>3. PICK f : f = [i \in DOMAIN rows \union (nextMail .. nextMail + Len(mails) - 1) |->
                      IF i < nextMail THEN rows[i]
                      ELSE [from |-> NoPlayer, to |-> mails[i - nextMail + 1].to, status |-> "new",
                            with |-> mails[i - nextMail + 1].with]]
  OBVIOUS
<1>4. rows' = f /\ nextMail' = nextMail + Len(mails)
  BY <1>3 DEF SendMails
<1>5. DOMAIN f = DOMAIN rows \union (nextMail .. nextMail + Len(mails) - 1)
  BY <1>3
<1>6. ASSUME NEW i \in DOMAIN rows PROVE f[i] = rows[i]
  BY <1>2, <1>3, <1>6
<1>7. ASSUME NEW i \in nextMail .. nextMail + Len(mails) - 1
      PROVE  /\ i \in Nat /\ i >= nextMail /\ i < nextMail + Len(mails) /\ i \notin DOMAIN rows
             /\ IsLetter(f[i]) /\ f[i].status = "new"
             /\ \E n \in DOMAIN mails : f[i].to = mails[n].to
  <2>1. PICK n : n = i - nextMail + 1
    OBVIOUS
  <2>2. n \in DOMAIN mails
    BY <1>1, <1>2, <2>1
  <2>3. i \in Nat /\ i >= nextMail /\ i < nextMail + Len(mails) /\ i \notin DOMAIN rows
    BY <1>1, <1>2
  <2>4. f[i] = [from |-> NoPlayer, to |-> mails[n].to, status |-> "new", with |-> mails[n].with]
    BY <1>2, <1>3, <2>1, <2>3
  <2> QED BY <2>2, <2>3, <2>4 DEF IsLetter
<1>8. Rows' /\ Ages
  <2>1. \A i \in DOMAIN rows' :
           \/ i \in DOMAIN rows /\ rows'[i] = rows[i]
           \/ /\ i \in Nat /\ i >= nextMail /\ i < nextMail'
              /\ IsLetter(rows'[i]) /\ rows'[i].status \in {"new", "unread", "read"}
    BY <1>4, <1>5, <1>6, <1>7
  <2>2. nextMail' \in Nat /\ nextMail' >= nextMail
    BY <1>1, <1>2, <1>4
  <2> QED BY <1>2, <2>1, <2>2, NewRows
<1>9. \A i \in DOMAIN rows' :
         \/ i \in DOMAIN rows /\ rows'[i] = rows[i]
         \/ i \notin DOMAIN rows /\ \E j \in DOMAIN t : Announces(rows'[i].to, t[j])
  BY <1>4, <1>5, <1>6, <1>7 DEF Announced
<1>10. DOMAIN rows \subseteq DOMAIN rows'
  BY <1>4, <1>5
<1>11. \A j \in DOMAIN t : t[j].type \notin {"inbox", "deleted", "returned"}
  BY DEF OnlyNews
<1> QED BY <1>8, <1>9, <1>10, <1>11, LettersAdded

\* An answer that goes with no letter.
LEMMA NothingSent ==
    ASSUME Synced, UNCHANGED <<rows, nextMail, inbox, away, up>>,
           NEW t, IsSeq(t), OnlyNews(t), toMap' = toMap \o t,
           \/ toChar' = toChar
           \/ /\ toChar # << >> /\ toChar' = Tail(toChar)
              /\ Head(toChar).type \notin AboutLetter \union {"inbox"}
    PROVE  Synced'
<1>1. Rows' /\ Ages
  BY NothingAges DEF Synced, Ages
<1> QED BY <1>1, LettersAdded DEF OnlyNews

\* One reply that is no letter's.
LEMMA OneReply ==
    ASSUME NEW m, m.type \notin {"inbox", "deleted", "returned"}
    PROVE  IsSeq(<<m>>) /\ OnlyNews(<<m>>)
BY OneTold DEF OnlyNews

\* The letters that an auction, a bid and a purchase lead to.
LEMMA AuctionMails ==
    /\ \A a : IsSeq(Outbid(a)) /\ IsSeq(EndMails(a))
    /\ \A m, n : IsSeq(<<m, n>>)
BY Short, TwoTold DEF Outbid, EndMails

\* What each handler of the char-server is given, and leaves.
LEMMA AuctionHandled ==
    ASSUME MapifParseAuctionRegister \/ MapifParseAuctionBid
             \/ MapifParseAuctionCancel \/ MapifParseAuctionClose
    PROVE  /\ toChar # << >> /\ toChar' = Tail(toChar)
           /\ Head(toChar).type \notin AboutLetter \union {"inbox"}
           /\ UNCHANGED <<inbox, away, up, losses>>
BY DEF MapifParseAuctionRegister, MapifParseAuctionBid, MapifParseAuctionCancel,
       MapifParseAuctionClose, FromMap, CharKeeps, Link, AboutLetter

LEMMA AuctionRegisterSync == Synced /\ MapifParseAuctionRegister => Synced'
<1> SUFFICES ASSUME Synced, MapifParseAuctionRegister PROVE Synced'
  OBVIOUS
<1>1. PICK m : /\ m.type = "registered"
               /\ toMap' = toMap \o <<m>> /\ UNCHANGED <<rows, nextMail>>
  BY DEF MapifParseAuctionRegister, Answer, CharRows
<1>2. PICK t : t = <<m>>
  OBVIOUS
<1>3. IsSeq(t) /\ OnlyNews(t)
  BY <1>1, <1>2, OneReply
<1>4. toMap' = toMap \o t
  BY <1>1, <1>2
<1> QED BY <1>1, <1>3, <1>4, AuctionHandled, NothingSent

LEMMA BidTakenSync ==
    ASSUME Synced, MapifParseAuctionBid, NEW m, m = Head(toChar), MayBid(m)
    PROVE  Synced'
<1>1. AuctionTakesBid(m)
  BY DEF MapifParseAuctionBid
<1>2. PICK a, o, bid : a = auctions[m.id] /\ o = Outbid(a) /\ bid = m.with.zeny
  OBVIOUS
<1>3. PICK no : no = NewsOf(o)
  OBVIOUS
<1>4. /\ IsSeq(o) /\ IsSeq(no) /\ OnlyNews(no) /\ Announced(o, no)
  BY <1>2, <1>3, AuctionMails, NewsAre
<1>5. CASE bid >= a.buynow
  <2>1. PICK r, sold : /\ r = [type |-> "bidding", p |-> m.p, with |-> Zeny(bid - a.buynow), done |-> TRUE]
                       /\ sold = <<To(m.p, Ware(a.item)), To(a.seller, Zeny(a.buynow))>>
    OBVIOUS
  <2>2. PICK reply, ns : reply = <<r>> /\ ns = NewsOf(sold)
    OBVIOUS
  <2>3. PICK t, u, mails : t = no \o reply /\ u = t \o ns /\ mails = o \o sold
    OBVIOUS
  <2>4. SendMails(mails) /\ toMap' = toMap \o u
    BY <1>1, <1>2, <1>3, <1>5, <2>1, <2>2, <2>3 DEF AuctionTakesBid, Answer
  <2>5. IsSeq(reply) /\ OnlyNews(reply)
    BY <2>1, <2>2, OneReply
  <2>6. IsSeq(t) /\ OnlyNews(t) /\ Announced(o, t)
    BY <1>4, <2>3, <2>5, NewsJoined
  <2>7. IsSeq(sold) /\ IsSeq(ns) /\ OnlyNews(ns) /\ Announced(sold, ns)
    BY <2>1, <2>2, AuctionMails, NewsAre
  <2>8. IsSeq(u) /\ OnlyNews(u) /\ Announced(o, u) /\ Announced(sold, u)
    BY <2>3, <2>6, <2>7, NewsJoined
  <2>9. IsSeq(mails) /\ Announced(mails, u)
    BY <1>4, <2>3, <2>7, <2>8, MailsJoined
  <2> QED BY <2>4, <2>8, <2>9, AuctionHandled, MailsSent
<1>6. CASE ~(bid >= a.buynow)
  <2>1. PICK r : r = [type |-> "bidding", p |-> m.p, with |-> Zeny(0), done |-> TRUE]
    OBVIOUS
  <2>2. PICK reply : reply = <<r>>
    OBVIOUS
  <2>3. PICK t : t = no \o reply
    OBVIOUS
  <2>4. SendMails(o) /\ toMap' = toMap \o t
    BY <1>1, <1>2, <1>3, <1>6, <2>1, <2>2, <2>3 DEF AuctionTakesBid, Answer
  <2>5. IsSeq(reply) /\ OnlyNews(reply)
    BY <2>1, <2>2, OneReply
  <2>6. IsSeq(t) /\ OnlyNews(t) /\ Announced(o, t)
    BY <1>4, <2>3, <2>5, NewsJoined
  <2> QED BY <1>4, <2>4, <2>6, AuctionHandled, MailsSent
<1> QED BY <1>5, <1>6

LEMMA AuctionBidSync == Synced /\ MapifParseAuctionBid => Synced'
<1> SUFFICES ASSUME Synced, MapifParseAuctionBid PROVE Synced'
  OBVIOUS
<1>1. PICK m : m = Head(toChar)
  OBVIOUS
<1>2. CASE MayBid(m)
  BY <1>1, <1>2, BidTakenSync
<1>3. CASE ~MayBid(m)
  <2>1. PICK r : r = [type |-> "bidding", p |-> m.p, with |-> m.with, done |-> FALSE]
    OBVIOUS
  <2>2. PICK t : t = <<r>>
    OBVIOUS
  <2>3. toMap' = toMap \o t /\ UNCHANGED <<rows, nextMail>>
    BY <1>1, <1>3, <2>1, <2>2 DEF MapifParseAuctionBid, Answer, CharRows
  <2>4. IsSeq(t) /\ OnlyNews(t)
    BY <2>1, <2>2, OneReply
  <2> QED BY <2>3, <2>4, AuctionHandled, NothingSent
<1> QED BY <1>2, <1>3

LEMMA AuctionCancelSync == Synced /\ MapifParseAuctionCancel => Synced'
<1> SUFFICES ASSUME Synced, MapifParseAuctionCancel PROVE Synced'
  OBVIOUS
<1>1. PICK id, mails : id = Head(toChar).id /\ mails = EndMails(auctions[id])
  OBVIOUS
<1>2. PICK t : t = NewsOf(mails)
  OBVIOUS
<1>3. IsSeq(mails) /\ IsSeq(t) /\ OnlyNews(t) /\ Announced(mails, t)
  BY <1>1, <1>2, AuctionMails, NewsAre
<1>4. CASE SendMails(mails) /\ toMap' = toMap \o t
  BY <1>3, <1>4, AuctionHandled, MailsSent
<1>5. CASE UNCHANGED <<rows, nextMail, toMap>>
  <2>1. PICK n : n = << >>
    OBVIOUS
  <2>2. IsSeq(n) /\ OnlyNews(n) /\ toMap' = toMap \o n
    <3>1. IsSeq(toMap)
      BY DEF Synced
    <3>2. toMap \o n = toMap
      BY <2>1, <3>1, NothingJoined
    <3>3. IsSeq(n)
      BY <2>1, Short
    <3>4. DOMAIN n = {}
      BY <2>1
    <3> QED BY <1>5, <3>2, <3>3, <3>4 DEF OnlyNews
  <2> QED BY <1>5, <2>2, AuctionHandled, NothingSent
<1> QED BY <1>1, <1>2, <1>4, <1>5 DEF MapifParseAuctionCancel, Answer, CharRows

LEMMA AuctionCloseSync == Synced /\ MapifParseAuctionClose => Synced'
<1> SUFFICES ASSUME Synced, MapifParseAuctionClose PROVE Synced'
  OBVIOUS
<1>1. PICK p, id : p = Head(toChar).p /\ id = Head(toChar).id
  OBVIOUS
<1>2. PICK ends : ends = <<To(auctions[id].seller, Zeny(auctions[id].price)),
                           To(auctions[id].buyer, Ware(auctions[id].item))>>
  OBVIOUS
<1>3. PICK n, yes, no : /\ n = NewsOf(ends)
                        /\ yes = <<[type |-> "closed", p |-> p, done |-> TRUE]>>
                        /\ no = <<[type |-> "closed", p |-> p, done |-> FALSE]>>
  OBVIOUS
<1>4. PICK t : t = n \o yes
  OBVIOUS
<1>5. IsSeq(ends) /\ IsSeq(n) /\ OnlyNews(n) /\ Announced(ends, n)
  BY <1>2, <1>3, AuctionMails, NewsAre
<1>6. IsSeq(yes) /\ OnlyNews(yes) /\ IsSeq(no) /\ OnlyNews(no)
  BY <1>3, OneReply
<1>7. IsSeq(t) /\ OnlyNews(t) /\ Announced(ends, t)
  BY <1>4, <1>5, <1>6, NewsJoined
<1>8. CASE SendMails(ends) /\ toMap' = toMap \o t
  BY <1>5, <1>7, <1>8, AuctionHandled, MailsSent
<1>9. CASE toMap' = toMap \o no /\ UNCHANGED <<rows, nextMail>>
  BY <1>6, <1>9, AuctionHandled, NothingSent
<1> QED BY <1>1, <1>2, <1>3, <1>4, <1>8, <1>9 DEF MapifParseAuctionClose, Answer, CharRows

LEMMA AuctionEndSync ==
    ASSUME Synced, NEW id, AuctionEndTimer(id)
    PROVE  Synced'
<1>1. PICK mails : mails = EndMails(auctions[id])
  OBVIOUS
<1>2. PICK t : t = NewsOf(mails)
  OBVIOUS
<1>3. IsSeq(mails) /\ IsSeq(t) /\ OnlyNews(t) /\ Announced(mails, t)
  BY <1>1, <1>2, AuctionMails, NewsAre
<1>4. /\ SendMails(mails) /\ toMap' = toMap \o t
      /\ UNCHANGED <<inbox, away, up, toChar>>
  BY <1>1, <1>2 DEF AuctionEndTimer, Synced, Answer, CharKeeps, Link
<1> QED BY <1>3, <1>4, MailsSent

\* What the map-server is told of auctions touches no copy.
LEMMA AuctionToldSync ==
    ASSUME Synced,
           IntifParseAuctionRegister \/ IntifParseAuctionBid \/ IntifParseAuctionClose
    PROVE  Synced'
<1>1. /\ toMap # << >> /\ toMap' = Tail(toMap)
      /\ Head(toMap).type \in {"registered", "bidding", "closed"}
      /\ UNCHANGED <<inbox, rows, nextMail, away, up, toChar>>
  BY DEF IntifParseAuctionRegister, IntifParseAuctionBid, IntifParseAuctionClose,
         FromChar, CharRows, Link
<1>2. DOMAIN inbox' = Player /\ \A p \in Player : inbox'[p] = inbox[p]
  BY <1>1 DEF Synced
<1>3. \A p \in Player \ away : ~IsNewBox(p, Head(toMap)) /\ ~Announces(p, Head(toMap))
                                 /\ ~TakesSome(p, Head(toMap))
  BY <1>1 DEF IsNewBox, Announces, TakesSome
<1> QED BY <1>1, <1>2, <1>3, PassedOver

LEMMA AuctionParsesSync == Synced /\ AuctionParses => Synced'
BY AuctionRegisterSync, AuctionBidSync, AuctionCancelSync, AuctionCloseSync, AuctionToldSync
   DEF AuctionParses

LEMMA SyncPostStep == InSync /\ [PostNext]_<<vars, mailVars, auctionVars>> => InSync'
<1> SUFFICES ASSUME InSync, [PostNext]_<<vars, mailVars, auctionVars>> PROVE InSync'
  OBVIOUS
<1>1. losses \in Nat /\ (losses = 0 => Synced)
  BY DEF InSync
<1>2. CASE Elsewhere
  BY <1>2, SyncMailStep DEF Elsewhere
<1>3. CASE AuctionNext
  <2>1. losses' = losses
    BY <1>3 DEF AuctionNext, AuctionCancelreg, AuctionSetitem, AuctionRegister, AuctionBid,
                AuctionCancel, AuctionClose, Link
  <2> QED BY <1>1, <1>3, <2>1, AuctionNextSync DEF InSync
<1>4. CASE AuctionParses
  <2>1. losses' = losses
    BY <1>4 DEF AuctionParses, MapifParseAuctionRegister, MapifParseAuctionBid,
                MapifParseAuctionCancel, MapifParseAuctionClose, IntifParseAuctionRegister,
                IntifParseAuctionBid, IntifParseAuctionClose, CharKeeps, Link
  <2> QED BY <1>1, <1>4, <2>1, AuctionParsesSync DEF InSync
<1>5. ASSUME NEW id, AuctionEndTimer(id) PROVE InSync'
  <2>1. losses' = losses
    BY <1>5 DEF AuctionEndTimer, CharKeeps, Link
  <2> QED BY <1>1, <1>5, <2>1, AuctionEndSync DEF InSync
<1>6. CASE UNCHANGED <<vars, mailVars, auctionVars>>
  BY <1>6, SyncMailStep
<1> QED BY <1>2, <1>3, <1>4, <1>5, <1>6 DEF PostNext

\* The same beside the auctions, which send letters, give bids back and end by a
\* timer whatever the players do with their mail.
THEOREM PostInboxInSync == PostSpec => []InboxInSync
<1>1. AuctionInit => InSync
  BY SyncAtInit DEF AuctionInit
<1> QED BY <1>1, SyncPostStep, SyncedIsInSync, PTL DEF PostSpec

-----------------------------------------------------------------------------
(* The types.  First what is done to slots and purses. *)

LEMMA SlotsAre ==
    ASSUME NEW S, NEW slots \in Slots(S)
    PROVE  /\ slots \in [S -> Stack]
           /\ \A s \in S : slots[s].item = NoItem <=> slots[s].amount = 0
           /\ \A s, t \in S : slots[s].item = slots[t].item => s = t \/ slots[s].item = NoItem
           /\ \A s \in S : slots[s].item \in Item \union {NoItem} /\ slots[s].amount \in 0..MaxAmount
<1>1. slots \in [S -> Stack]
  BY DEF Slots
<1>2. Tidy(slots) /\ DOMAIN slots = S
  BY DEF Slots
<1>5. /\ \A s \in S : /\ slots[s].item = NoItem => slots[s].amount = 0
                      /\ slots[s].item # NoItem => slots[s].amount > 0
      /\ \A s, t \in S : slots[s].item = slots[t].item => s = t \/ slots[s].item = NoItem
  BY <1>2 DEF Tidy
<1>3. \A s \in S : slots[s] \in Stack
  BY <1>1
<1>4. \A s \in S : slots[s].item \in Item \union {NoItem} /\ slots[s].amount \in 0..MaxAmount
  BY <1>3 DEF Stack
<1>6. \A s \in S : slots[s].item = NoItem <=> slots[s].amount = 0
  <2>1. \A n \in Int : n > 0 => n # 0
    OBVIOUS
  <2>2. \A s \in S : slots[s].amount \in Int
    BY <1>4
  <2>3. \A s \in S : slots[s].item # NoItem => slots[s].amount # 0
    BY <1>5, <2>1, <2>2
  <2> QED BY <1>5, <2>3
<1>7. \A s, t \in S : slots[s].item = slots[t].item => s = t \/ slots[s].item = NoItem
  BY <1>5
<1> QED BY <1>1, <1>4, <1>6, <1>7

LEMMA PlacedIs ==
    ASSUME NEW S \in SUBSET Nat, NEW slots \in Slots(S), NEW item \in Item, NEW n \in Nat \ {0}
    PROVE  Placed(slots, item, n) \in Slots(S)
<1> DEFINE same == Holding(slots, item)
           free == Holding(slots, NoItem)
<1>1. /\ slots \in [S -> Stack]
      /\ \A s \in S : slots[s].item = NoItem <=> slots[s].amount = 0
      /\ \A s, t \in S : slots[s].item = slots[t].item => s = t \/ slots[s].item = NoItem
      /\ \A s \in S : slots[s].item \in Item \union {NoItem} /\ slots[s].amount \in 0..MaxAmount
  BY SlotsAre
<1>2. same \in SUBSET S /\ free \in SUBSET S /\ same \in SUBSET Nat /\ free \in SUBSET Nat
  BY <1>1 DEF Holding
<1>3. CASE same # {} /\ slots[Min(same)].amount + n <= MaxAmount
  <2>1. Min(same) \in same
    BY <1>2, <1>3, MinIs
  <2>2. PICK m \in S : m = Min(same) /\ slots[m].item = item
    BY <1>2, <2>1 DEF Holding
  <2>3. Placed(slots, item, n) = [slots EXCEPT ![m].amount = @ + n]
    BY <1>3, <2>2 DEF Placed
  <2> DEFINE new == [slots EXCEPT ![m].amount = @ + n]
  <2>4. /\ new \in [S -> Stack] /\ \A s \in S : new[s].item = slots[s].item
        /\ \A s \in S \ {m} : new[s] = slots[s]
        /\ new[m].amount > 0
    <3>1. slots[m].amount + n \in 0..MaxAmount
      BY <1>1, <1>3, <2>2, LimitsAssumption
    <3> QED BY <1>1, <3>1 DEF Stack
  <2>5. item # NoItem
    BY ItemAssumption
  <2> HIDE DEF new
  <2>6. new \in Slots(S)
    BY <1>1, <2>2, <2>4, <2>5, LimitsAssumption DEF Slots, Tidy, Stack
  <2> QED BY <2>3, <2>6 DEF new
<1>4. CASE same = {} /\ free # {} /\ n <= MaxAmount
  <2>1. Min(free) \in free
    BY <1>2, <1>4, MinIs
  <2>2. PICK m \in S : m = Min(free)
    BY <1>2, <2>1
  <2> DEFINE new == [slots EXCEPT ![m] = [item |-> item, amount |-> n]]
  <2>3. Placed(slots, item, n) = new
    BY <1>4, <2>2 DEF Placed
  <2>4. /\ new \in [S -> Stack] /\ new[m].item = item /\ new[m].amount > 0
        /\ \A s \in S \ {m} : new[s] = slots[s]
    BY <1>1, <1>4, LimitsAssumption DEF Stack
  <2>5. item # NoItem /\ \A s \in S : slots[s].item # item
    BY <1>1, <1>4, ItemAssumption DEF Holding
  <2> HIDE DEF new
  <2>6. new \in Slots(S)
    BY <1>1, <2>4, <2>5, LimitsAssumption DEF Slots, Tidy, Stack
  <2> QED BY <2>3, <2>6
<1>5. CASE Placed(slots, item, n) = slots
  BY <1>5
<1> QED BY <1>3, <1>4, <1>5 DEF Placed

LEMMA PcAddItemIs ==
    ASSUME NEW S \in SUBSET Nat, NEW slots \in Slots(S), NEW item \in Item \union {NoItem}, NEW n \in Nat
    PROVE  PcAddItem(slots, item, n) \in Slots(S) /\ PcCartAddItem(slots, item, n) \in Slots(S)
BY PlacedIs DEF PcAddItem, PcCartAddItem

LEMMA PcDelItemIs ==
    ASSUME NEW S, NEW slots \in Slots(S), NEW s \in S, NEW n \in Nat
    PROVE  PcDelItem(slots, s, n) \in Slots(S)
<1>1. /\ slots \in [S -> Stack]
      /\ \A x \in S : slots[x].item = NoItem <=> slots[x].amount = 0
      /\ \A x, t \in S : slots[x].item = slots[t].item => x = t \/ slots[x].item = NoItem
      /\ \A x \in S : slots[x].item \in Item \union {NoItem} /\ slots[x].amount \in 0..MaxAmount
  BY SlotsAre
<1>2. CASE PcDelItem(slots, s, n) = [slots EXCEPT ![s] = NoStack]
  <2> DEFINE new == [slots EXCEPT ![s] = NoStack]
  <2>1. /\ new \in [S -> Stack] /\ new[s] = NoStack /\ \A x \in S \ {s} : new[x] = slots[x]
    BY <1>1, LimitsAssumption DEF Stack, NoStack
  <2> HIDE DEF new
  <2>2. new \in Slots(S)
    BY <1>1, <2>1 DEF Slots, Tidy, NoStack
  <2> QED BY <1>2, <2>2 DEF new
<1>3. CASE /\ PcDelItem(slots, s, n) = [slots EXCEPT ![s].amount = @ - n]
           /\ slots[s].item # NoItem /\ ~(slots[s].amount < n) /\ slots[s].amount # n
  <2> DEFINE new == [slots EXCEPT ![s].amount = @ - n]
  <2>1. slots[s].amount - n \in 0..MaxAmount
    BY <1>1, <1>3, LimitsAssumption
  <2>2. /\ new \in [S -> Stack] /\ \A x \in S : new[x].item = slots[x].item
        /\ \A x \in S \ {s} : new[x] = slots[x]
        /\ new[s].amount = slots[s].amount - n
    BY <1>1, <2>1 DEF Stack
  <2> HIDE DEF new
  <2>4. DOMAIN new = S /\ \A x \in S : new[x].item = NoItem => x # s
    BY <1>3, <2>2
  <2>7. new[s].amount > 0
    BY <1>1, <1>3, <2>2
  <2>6. \A x \in S : slots[x].amount \in Nat
    BY <1>1, LimitsAssumption
  <2>5. Tidy(new)
    BY <1>1, <2>2, <2>7, <2>4, <2>6 DEF Tidy
  <2>3. new \in Slots(S)
    BY <2>2, <2>5 DEF Slots
  <2> QED BY <1>3, <2>3 DEF new
<1> QED BY <1>2, <1>3 DEF PcDelItem

LEMMA StorageAddItemIs ==
    ASSUME NEW store \in [Item -> 0..MaxAmount], NEW item \in Item \union {NoItem}, NEW n \in Nat
    PROVE  StorageAddItem(store, item, n) \in [Item -> 0..MaxAmount]
<1>1. CASE item \in Item /\ n <= MaxAmount - store[item]
  <2>1. store[item] + n \in 0..MaxAmount
    BY <1>1, LimitsAssumption
  <2> QED BY <1>1, <2>1 DEF StorageAddItem
<1>2. CASE item = NoItem \/ n > MaxAmount - store[item]
  BY <1>2 DEF StorageAddItem
<1> QED BY <1>1, <1>2, LimitsAssumption

LEMMA PurseIs ==
    ASSUME NEW zeny \in 0..MaxZeny, NEW n \in Nat
    PROVE  PcPayZeny(zeny, n) \in 0..MaxZeny /\ PcGetZeny(zeny, n) \in 0..MaxZeny
BY LimitsAssumption DEF PcPayZeny, PcGetZeny

-----------------------------------------------------------------------------
(* The session data and what the clients show.                             *)

Wants == {w \in Seq(WantsEntry) : \A i, j \in DOMAIN w : w[i].name = w[j].name => i = j}
SessionData ==
    [inv : Slots(Slot), cart : Slots(CartSlot), store : [Item -> 0..MaxAmount], zeny : 0..MaxZeny,
     partner : Player \union {NoPlayer}, trading : BOOLEAN, locked : 0..2,
     deal : Seq(DealEntry), dealZeny : 0..MaxZeny,
     prevend : BOOLEAN, vending : BOOLEAN, venderId : Nat, goods : Seq(GoodsEntry),
     vendedId : Nat,
     slots : BOOLEAN, buying : BOOLEAN, buyerId : Nat, limit : 0..MaxZeny, wants : Wants,
     storage : BOOLEAN, chat : BOOLEAN, autotrade : BOOLEAN]
ShownGoods == [item : Item \union {NoItem}, index : CartSlot, value : Prices]
ShownData ==
    [deal : Seq(Item), gone : SUBSET Slot,
     shop : [seller : Player \union {NoPlayer}, goods : Seq(ShownGoods)],
     store : [buyer : Player \union {NoPlayer}, id : Nat, wants : Wants]]
Sessions == [Player -> SessionData]

WellTyped ==
    /\ sd \in Sessions /\ shown \in [Player -> ShownData]
    /\ ground \in [Item -> Nat] /\ purse \in Nat
    /\ nextId \in [shop : Nat, store : Nat]
    /\ does \in [Player -> SUBSET Activity] /\ strayed \in SUBSET Player

LEMMA NothingIs == << >> \in Wants /\ \A S : << >> \in Seq(S)
<1>1. \A S : << >> \in Seq(S)
  OBVIOUS
<1>2. \A i, j \in DOMAIN << >> : << >>[i].name = << >>[j].name => i = j
  OBVIOUS
<1> QED BY <1>1, <1>2 DEF Wants

LEMMA FreshIs ==
    ASSUME NEW inv \in Slots(Slot), NEW cart \in Slots(CartSlot), NEW store \in [Item -> 0..MaxAmount],
           NEW zeny \in 0..MaxZeny
    PROVE  FreshSd(inv, cart, store, zeny) \in SessionData
BY NothingIs, LimitsAssumption DEF FreshSd, SessionData

LEMMA TradeEndIs ==
    ASSUME NEW r \in SessionData
    PROVE  TradeEnd(r) \in SessionData
<1>1. << >> \in Seq(DealEntry) /\ 0 \in 0..MaxZeny /\ 0 \in 0..2
  BY NothingIs, LimitsAssumption
<1> QED BY <1>1 DEF TradeEnd, SessionData

LEMMA TradeCancelledIs ==
    ASSUME NEW st \in Sessions, NEW p \in Player
    PROVE  TradeCancelled(st, p) \in Sessions
<1> SUFFICES ASSUME NEW x \in Player
             PROVE  (IF x \notin {p, st[p].partner} THEN st[x]
                     ELSE IF st[p].trading THEN TradeEnd(st[x])
                     ELSE [st[x] EXCEPT !.partner = NoPlayer]) \in SessionData
  BY DEF TradeCancelled, Sessions
<1>1. st[x] \in SessionData
  BY DEF Sessions
<1>2. TradeEnd(st[x]) \in SessionData
  BY <1>1, TradeEndIs
<1>3. [st[x] EXCEPT !.partner = NoPlayer] \in SessionData
  BY <1>1 DEF SessionData
<1> QED BY <1>1, <1>2, <1>3

LEMMA OneIsChanged ==
    ASSUME NEW st \in Sessions, NEW p \in Player, NEW r \in SessionData
    PROVE  [st EXCEPT ![p] = r] \in Sessions
BY DEF Sessions

LEMMA LeftMapIs ==
    ASSUME NEW st \in Sessions, NEW p \in Player
    PROVE  LeftMap(st, p) \in Sessions /\ Quit(st, p) \in Sessions
<1> DEFINE rest == IF st[p].partner # NoPlayer THEN TradeCancelled(st, p) ELSE st
           r == [rest[p] EXCEPT !.chat = FALSE, !.storage = FALSE,
                                !.buying = FALSE, !.limit = 0, !.wants = << >>,
                                !.slots = IF rest[p].buying THEN FALSE ELSE @]
           left == LeftMap(st, p)
           fresh == FreshSd(left[p].inv, left[p].cart, left[p].store, left[p].zeny)
<1>1. left = [rest EXCEPT ![p] = r]
  BY DEF LeftMap
<1>2. rest \in Sessions
  BY TradeCancelledIs
<1> HIDE DEF rest
<1>3. rest[p] \in SessionData
  BY <1>2 DEF Sessions
<1>4. r \in SessionData
  <2>1. << >> \in Wants /\ 0 \in 0..MaxZeny
    BY NothingIs, LimitsAssumption
  <2> QED BY <1>3, <2>1 DEF SessionData
<1> HIDE DEF r
<1>5. left \in Sessions
  BY <1>1, <1>2, <1>4, OneIsChanged
<1>6. Quit(st, p) = [left EXCEPT ![p] = fresh]
  BY DEF Quit
<1> HIDE DEF left
<1>7. left[p] \in SessionData
  BY <1>5 DEF Sessions
<1>8. fresh \in SessionData
  BY <1>7, FreshIs DEF SessionData
<1> HIDE DEF fresh
<1> QED BY <1>5, <1>6, <1>8, OneIsChanged DEF left

\* What is put into a trade.
LEMMA WithEntryIs ==
    ASSUME NEW r \in SessionData, NEW s \in Slot, NEW n \in Amounts, n <= r.inv[s].amount
    PROVE  WithEntry(r, s, n) \in SessionData
<1>1. r.inv \in Slots(Slot) /\ r.deal \in Seq(DealEntry)
  BY DEF SessionData
<1>2. r.inv[s].amount \in 0..MaxAmount
  BY <1>1, SlotsAre
<1>3. CASE \E i \in DOMAIN r.deal : r.deal[i].index = s
  <2> DEFINE i == CHOOSE i \in DOMAIN r.deal : r.deal[i].index = s
             m == IF r.deal[i].amount + n > r.inv[s].amount THEN r.inv[s].amount
                  ELSE r.deal[i].amount + n
             e == [r.deal[i] EXCEPT !.amount = m]
             deal == [r.deal EXCEPT ![i] = e]
  <2>1. i \in DOMAIN r.deal
    BY <1>3
  <2>2. WithEntry(r, s, n) = [r EXCEPT !.deal = deal]
    BY <1>3 DEF WithEntry
  <2> HIDE DEF i
  <2>3. r.deal[i] \in DealEntry
    BY <1>1, <2>1
  <2>4. m \in 1..MaxAmount
    BY <1>2, <2>3, LimitsAssumption DEF DealEntry, Amounts
  <2> HIDE DEF m
  <2>5. e \in DealEntry
    BY <2>3, <2>4 DEF DealEntry
  <2> HIDE DEF e
  <2>6. deal \in Seq(DealEntry)
    BY <1>1, <2>1, <2>5
  <2> HIDE DEF deal
  <2>7. [r EXCEPT !.deal = deal] \in SessionData
    BY <2>6 DEF SessionData
  <2> QED BY <2>2, <2>7
<1>4. CASE ~\E i \in DOMAIN r.deal : r.deal[i].index = s
  <2> DEFINE deal == Append(r.deal, [index |-> s, amount |-> n])
  <2>1. deal \in Seq(DealEntry)
    BY <1>1 DEF DealEntry, Amounts
  <2>2. WithEntry(r, s, n) = [r EXCEPT !.deal = deal]
    BY <1>4 DEF WithEntry
  <2> HIDE DEF deal
  <2>3. [r EXCEPT !.deal = deal] \in SessionData
    BY <2>1 DEF SessionData
  <2> QED BY <2>2, <2>3
<1> QED BY <1>3, <1>4

-----------------------------------------------------------------------------
(* A trade goes through. *)

LEMMA RealMoveIs ==
    ASSUME NEW from \in Slots(Slot), NEW to \in Slots(Slot), NEW e \in DealEntry
    PROVE  LET m == RealMove(from, to, e)
           IN  m.ok \in BOOLEAN /\ m.from \in Slots(Slot) /\ m.to \in Slots(Slot)
<1>1. from[e.index].item \in Item \union {NoItem} /\ e.amount \in Nat /\ e.index \in Slot
  BY SlotsAre DEF DealEntry
<1> DEFINE got == PcAddItem(to, from[e.index].item, e.amount)
<1>2. got \in Slots(Slot)
  BY <1>1, PcAddItemIs, SlotAssumption
<1>3. PcDelItem(from, e.index, e.amount) \in Slots(Slot)
  BY <1>1, PcDelItemIs
<1> HIDE DEF got
<1>4. RealMove(from, to, e) = [ok |-> TRUE, to |-> got,
         from |-> IF got = to THEN from ELSE PcDelItem(from, e.index, e.amount)]
  BY DEF RealMove, got
<1> QED BY <1>2, <1>3, <1>4

Hands == [ok : BOOLEAN, a : Slots(Slot), b : Slots(Slot)]

LEMMA BothWaysIs ==
    ASSUME NEW a \in SessionData, NEW b \in SessionData
    PROVE  BothWays(RealMove, a, b) \in Hands
<1> DEFINE Op(st, i) ==
              LET x == IF i \in DOMAIN a.deal /\ st.ok THEN RealMove(st.a, st.b, a.deal[i])
                       ELSE [ok |-> st.ok, from |-> st.a, to |-> st.b]
                  y == IF i \in DOMAIN b.deal /\ x.ok THEN RealMove(x.to, x.from, b.deal[i])
                       ELSE [ok |-> x.ok, from |-> x.to, to |-> x.from]
              IN  [ok |-> y.ok, a |-> y.to, b |-> y.from]
           D == 1..MaxDeal
           places == [i \in D |-> i]
           base == [ok |-> TRUE, a |-> a.inv, b |-> b.inv]
           IsFold(run) == run = [s \in SUBSET DOMAIN places |-> IF s = {} THEN base ELSE
                                    Op(run[s \ {Max(s)}], places[Max(s)])]
           run == CHOOSE x : IsFold(x)
           F == [ai \in Hands \X D |-> Op(ai[1], ai[2])]
           N == [s \in SUBSET D |-> Hands]
<1>1. ASSUME NEW st \in Hands, NEW i \in D PROVE Op(st, i) \in Hands
  <2> DEFINE x == IF i \in DOMAIN a.deal /\ st.ok THEN RealMove(st.a, st.b, a.deal[i])
                  ELSE [ok |-> st.ok, from |-> st.a, to |-> st.b]
             y == IF i \in DOMAIN b.deal /\ x.ok THEN RealMove(x.to, x.from, b.deal[i])
                  ELSE [ok |-> x.ok, from |-> x.to, to |-> x.from]
  <2>1. st.ok \in BOOLEAN /\ st.a \in Slots(Slot) /\ st.b \in Slots(Slot)
    BY DEF Hands
  <2>2. a.deal \in Seq(DealEntry) /\ b.deal \in Seq(DealEntry)
    BY DEF SessionData
  <2>3. x.ok \in BOOLEAN /\ x.from \in Slots(Slot) /\ x.to \in Slots(Slot)
    <3>1. CASE i \in DOMAIN a.deal /\ st.ok
      BY <2>1, <2>2, <3>1, RealMoveIs
    <3>2. CASE ~(i \in DOMAIN a.deal /\ st.ok)
      BY <2>1, <3>2
    <3> QED BY <3>1, <3>2
  <2> HIDE DEF x
  <2>4. y.ok \in BOOLEAN /\ y.from \in Slots(Slot) /\ y.to \in Slots(Slot)
    <3>1. CASE i \in DOMAIN b.deal /\ x.ok
      BY <2>3, <2>2, <3>1, RealMoveIs
    <3>2. CASE ~(i \in DOMAIN b.deal /\ x.ok)
      BY <2>3, <3>2
    <3> QED BY <3>1, <3>2
  <2> HIDE DEF y
  <2>5. [ok |-> y.ok, a |-> y.to, b |-> y.from] \in Hands
    BY <2>4 DEF Hands
  <2> QED BY <2>5 DEF x, y
<1>2. BothWays(RealMove, a, b) = FoldLeft(Op, base, places)
  BY Zenon DEF BothWays
<1>3. base \in Hands
  BY DEF Hands, SessionData
<1> HIDE DEF Op, base
<1>4. D \in SUBSET Nat /\ IsFiniteSet(D) /\ DOMAIN places = D
  BY BoundsAssumption, FS_Interval
<1>5. FoldStep(F, N, Hands, D)
  <2>1. ASSUME NEW s \in SUBSET D, s # {}, NEW st \in Hands PROVE F[<<st, Max(s)>>] \in Hands
    <3>1. Max(s) \in D
      BY <1>4, <2>1, LatestChooses
    <3> QED BY <1>1, <3>1
  <2>2. \A s \in SUBSET D : N[s] = Hands /\ N[s \ {Max(s)}] = Hands
    OBVIOUS
  <2> HIDE DEF F, N
  <2> QED BY <2>1, <2>2 DEF FoldStep
<1>6. base \in N[{}]
  BY <1>3
<1>7. \A s \in SUBSET D : s # {} => Max(s) \in D /\ places[Max(s)] = Max(s)
  BY <1>4, LatestChooses
<1>8. \A st \in Hands, i \in D : F[<<st, i>>] = Op(st, i)
  OBVIOUS
<1>9. \E r : IsFold(r)
  <2> HIDE DEF F, N, D
  <2>1. PICK r : /\ r \in [SUBSET D -> Hands] /\ FoldRun(r, F, Hands, base, D)
    BY <1>4, <1>5, <1>6, FoldRunExists
  <2>2. ASSUME NEW s \in SUBSET D PROVE r[s] = IF s = {} THEN base ELSE Op(r[s \ {Max(s)}], places[Max(s)])
    BY <1>7, <1>8, <2>1 DEF FoldRun
  <2>3. IsFold(r)
    BY <1>4, <2>1, <2>2
  <2> QED BY <2>3
<1>10. IsFold(run)
  <2> HIDE DEF IsFold
  <2> QED BY <1>9
<1>11. FoldLeft(Op, base, places) = run[DOMAIN places]
  BY Zenon DEF FoldLeft, MapThenFoldSet
<1>12. FoldRun(run, F, Hands, base, D)
  <2> HIDE DEF F, N, D, run
  <2> QED BY <1>4, <1>7, <1>8, <1>10 DEF FoldRun
<1>13. run[D] \in N[D]
  <2> HIDE DEF F, N, run, D
  <2> QED BY <1>4, <1>5, <1>6, <1>12, FoldRunIn
<1> QED BY <1>2, <1>4, <1>11, <1>13

LEMMA CommittedIs ==
    ASSUME NEW st \in Sessions, NEW p \in Player, NEW t \in Player
    PROVE  TradeCommitted(st, p, t) \in Sessions
<1> DEFINE moved == BothWays(RealMove, st[p], st[t])
           zp == PcGetZeny(PcPayZeny(st[p].zeny, st[p].dealZeny), st[t].dealZeny)
           zt == PcPayZeny(PcGetZeny(st[t].zeny, st[p].dealZeny), st[t].dealZeny)
           ends == TradeEnd([st[p] EXCEPT !.inv = moved.a, !.zeny = zp])
           new == TradeCommitted(st, p, t)
<1>1. /\ \A x \in Player \ {p, t} : new[x] = st[x]
      /\ new = [x \in Player |-> new[x]]
  BY DEF TradeCommitted, Sessions
<1>9. /\ p # t => new[p] = ends
      /\ \/ new[t] = TradeEnd([st[t] EXCEPT !.inv = moved.b, !.zeny = zt])
         \/ new[t] = TradeEnd([ends EXCEPT !.inv = moved.b, !.zeny = zt])
  BY DEF TradeCommitted, Sessions
<1>2. st[p] \in SessionData /\ st[t] \in SessionData /\ \A x \in Player : st[x] \in SessionData
  BY DEF Sessions
<1>3. moved.a \in Slots(Slot) /\ moved.b \in Slots(Slot)
  BY <1>2, BothWaysIs DEF Hands
<1>4. zp \in 0..MaxZeny /\ zt \in 0..MaxZeny
  <2>1. /\ st[p].zeny \in 0..MaxZeny /\ st[p].dealZeny \in 0..MaxZeny
        /\ st[t].zeny \in 0..MaxZeny /\ st[t].dealZeny \in 0..MaxZeny
    BY <1>2 DEF SessionData
  <2> QED BY <2>1, LimitsAssumption DEF PcGetZeny, PcPayZeny
<1> HIDE DEF moved, zp, zt, new
<1>5. ASSUME NEW r \in SessionData, NEW inv \in Slots(Slot), NEW zeny \in 0..MaxZeny
      PROVE  TradeEnd([r EXCEPT !.inv = inv, !.zeny = zeny]) \in SessionData
  <2>1. [r EXCEPT !.inv = inv, !.zeny = zeny] \in SessionData
    BY <1>5 DEF SessionData
  <2> QED BY <2>1, TradeEndIs
<1>6. ends \in SessionData
  BY <1>2, <1>3, <1>4, <1>5
<1> HIDE DEF ends
<1>7. \A x \in Player : new[x] \in SessionData
  <2>1. TradeEnd([st[t] EXCEPT !.inv = moved.b, !.zeny = zt]) \in SessionData
    BY <1>2, <1>3, <1>4, <1>5
  <2>2. TradeEnd([ends EXCEPT !.inv = moved.b, !.zeny = zt]) \in SessionData
    BY <1>3, <1>4, <1>5, <1>6
  <2>3. new[t] \in SessionData /\ (p # t => new[p] \in SessionData)
    BY <1>6, <1>9, <2>1, <2>2
  <2> QED BY <1>1, <1>2, <2>3
<1>8. new \in Sessions
  BY <1>1, <1>7 DEF Sessions
<1> QED BY <1>8 DEF new

-----------------------------------------------------------------------------
(* The handlers of a trade. *)

LEMMA TypedSd ==
    ASSUME WellTyped, sd' \in Sessions, UNCHANGED <<World, Rest>>
    PROVE  WellTyped'
BY DEF WellTyped, World, Rest

LEMMA TypedChange ==
    ASSUME WellTyped, NEW p \in Player, NEW r \in SessionData, Changes(p, r), UNCHANGED <<World, Rest>>
    PROVE  WellTyped'
BY TypedSd, OneIsChanged DEF WellTyped, Changes

LEMMA SdIs ==
    ASSUME WellTyped, NEW p \in Player
    PROVE  sd \in Sessions /\ sd[p] \in SessionData
BY DEF WellTyped, Sessions

LEMMA TradeRequestTyped ==
    ASSUME WellTyped, NEW p \in Player, NEW t \in Player, NEW near, TradeRequest(p, t, near)
    PROVE  WellTyped'
<1> DEFINE left == [x \in Player |-> IF x \in {p, sd[p].partner}
                                     THEN [sd[x] EXCEPT !.partner = NoPlayer] ELSE sd[x]]
           mid == [left EXCEPT ![p] = [left[p] EXCEPT !.partner = t]]
           joined == [mid EXCEPT ![t] = [mid[t] EXCEPT !.partner = p]]
<1>1. ASSUME NEW r \in SessionData, NEW q \in Player \union {NoPlayer}
      PROVE  [r EXCEPT !.partner = q] \in SessionData
  BY DEF SessionData
<1>2. left \in Sessions
  <2> SUFFICES ASSUME NEW x \in Player
               PROVE  (IF x \in {p, sd[p].partner} THEN [sd[x] EXCEPT !.partner = NoPlayer]
                       ELSE sd[x]) \in SessionData
    BY DEF Sessions
  <2> QED BY <1>1, SdIs
<1>3. sd' = left \/ sd' = joined
  BY DEF TradeRequest
<1> HIDE DEF left
<1>4. mid \in Sessions
  <2>1. left[p] \in SessionData
    BY <1>2 DEF Sessions
  <2> QED BY <1>1, <1>2, <2>1, OneIsChanged
<1> HIDE DEF mid
<1>5. joined \in Sessions
  <2>1. mid[t] \in SessionData
    BY <1>4 DEF Sessions
  <2> QED BY <1>1, <1>4, <2>1, OneIsChanged
<1> HIDE DEF joined
<1>6. sd' \in Sessions
  BY <1>2, <1>3, <1>5
<1>7. strayed' \in SUBSET Player /\ UNCHANGED <<World, does, nextId, shown>>
  BY DEF TradeRequest, WellTyped
<1> QED BY <1>6, <1>7 DEF WellTyped, World

LEMMA TradeAckTyped ==
    ASSUME WellTyped, NEW p \in Player, NEW accept, NEW near, TradeAck(p, accept, near)
    PROVE  WellTyped'
<1> DEFINE t == sd[p].partner
           off == [sd EXCEPT ![p] = [sd[p] EXCEPT !.partner = NoPlayer]]
           on == [x \in Player |-> IF x \in {p, t}
                    THEN [sd[x] EXCEPT !.trading = TRUE, !.deal = << >>, !.dealZeny = 0] ELSE sd[x]]
           anew == [x \in Player |-> IF x \in {p, t}
                    THEN [shown[x] EXCEPT !.deal = << >>, !.gone = {}] ELSE shown[x]]
<1>1. /\ sd' = off \/ sd' = Unpaired(sd, {p, t}) \/ sd' = on
      /\ shown' = shown \/ shown' = anew
  BY DEF TradeAck, TradeAnswered
<1>2. off \in Sessions
  <2>0. sd[p] \in SessionData
    BY SdIs
  <2>1. [sd[p] EXCEPT !.partner = NoPlayer] \in SessionData
    BY <2>0 DEF SessionData
  <2> QED BY <2>1, SdIs, OneIsChanged
<1>3. Unpaired(sd, {p, t}) \in Sessions
  <2> SUFFICES ASSUME NEW x \in Player
               PROVE  (IF x \in {p, t} THEN [sd[x] EXCEPT !.partner = NoPlayer, !.locked = 0]
                       ELSE sd[x]) \in SessionData
    BY DEF Sessions, Unpaired
  <2>1. sd[x] \in SessionData
    BY SdIs
  <2>2. [sd[x] EXCEPT !.partner = NoPlayer, !.locked = 0] \in SessionData
    <3>1. 0 \in 0..2
      OBVIOUS
    <3> QED BY <2>1, <3>1 DEF SessionData
  <2> QED BY <2>1, <2>2
<1>4. on \in Sessions
  <2> SUFFICES ASSUME NEW x \in Player
               PROVE  (IF x \in {p, t} THEN [sd[x] EXCEPT !.trading = TRUE, !.deal = << >>, !.dealZeny = 0]
                       ELSE sd[x]) \in SessionData
    BY DEF Sessions
  <2>1. sd[x] \in SessionData
    BY SdIs
  <2>2. [sd[x] EXCEPT !.trading = TRUE, !.deal = << >>, !.dealZeny = 0] \in SessionData
    <3>1. << >> \in Seq(DealEntry) /\ 0 \in 0..MaxZeny
      BY LimitsAssumption
    <3> QED BY <2>1, <3>1 DEF SessionData
  <2> QED BY <2>1, <2>2
<1>5. anew \in [Player -> ShownData]
  <2> SUFFICES ASSUME NEW x \in Player
               PROVE  (IF x \in {p, t} THEN [shown[x] EXCEPT !.deal = << >>, !.gone = {}]
                       ELSE shown[x]) \in ShownData
    OBVIOUS
  <2>1. shown[x] \in ShownData /\ << >> \in Seq(Item) /\ {} \in SUBSET Slot
    BY NothingIs DEF WellTyped
  <2>2. [shown[x] EXCEPT !.deal = << >>, !.gone = {}] \in ShownData
    BY <2>1 DEF ShownData
  <2> QED BY <2>1, <2>2
<1> HIDE DEF off, on, anew, t
<1>6. sd' \in Sessions /\ shown' \in [Player -> ShownData]
  BY <1>1, <1>2, <1>3, <1>4, <1>5 DEF WellTyped
<1>7. UNCHANGED <<World, does, nextId, strayed>>
  BY DEF TradeAck
<1> QED BY <1>6, <1>7 DEF WellTyped, World

LEMMA TradeAddItemTyped ==
    ASSUME WellTyped, NEW p \in Player, NEW s \in Slot, NEW n \in Amounts, TradeAddItem(p, s, n)
    PROVE  WellTyped'
<1>1. UNCHANGED <<World, does, nextId, strayed>>
  BY DEF TradeAddItem
<1>2. CASE sd' = TradeCancelled(sd, p) /\ UNCHANGED shown
  BY <1>1, <1>2, SdIs, TradeCancelledIs DEF WellTyped, World
<1>3. CASE /\ n <= sd[p].inv[s].amount /\ Changes(p, WithEntry(sd[p], s, n))
           /\ \/ shown' = shown
              \/ shown' = [shown EXCEPT ![p].deal = Append(@, sd[p].inv[s].item)]
  <2>1. sd' \in Sessions
    BY <1>3, SdIs, WithEntryIs, OneIsChanged DEF Changes
  <2>2. sd[p].inv \in Slots(Slot)
    BY SdIs DEF SessionData
  <2>3. sd[p].inv[s].item \in Item
    BY <1>3, <2>2, SlotsAre DEF Amounts
  <2>4. shown' \in [Player -> ShownData]
    <3> DEFINE d == Append(shown[p].deal, sd[p].inv[s].item)
    <3>1. shown \in [Player -> ShownData] /\ shown[p] \in ShownData /\ shown[p].deal \in Seq(Item)
      BY DEF WellTyped, ShownData
    <3>2. d \in Seq(Item)
      BY <2>3, <3>1
    <3>3. shown' = shown \/ shown' = [shown EXCEPT ![p] = [shown[p] EXCEPT !.deal = d]]
      BY <1>3
    <3> HIDE DEF d
    <3>4. [shown[p] EXCEPT !.deal = d] \in ShownData
      BY <3>1, <3>2 DEF ShownData
    <3> QED BY <3>1, <3>3, <3>4
  <2> QED BY <1>1, <2>1, <2>4 DEF WellTyped, World
<1> QED BY <1>2, <1>3 DEF TradeAddItem

LEMMA TradeAddZenyTyped ==
    ASSUME WellTyped, NEW p \in Player, NEW n \in 0..MaxZeny, TradeAddZeny(p, n)
    PROVE  WellTyped'
<1>0. sd[p] \in SessionData /\ 1 \in 0..2 /\ 2 \in 0..2
  BY SdIs
<1> DEFINE r == [sd[p] EXCEPT !.dealZeny = n]
<1>1. r \in SessionData
  BY <1>0 DEF SessionData
<1>2. /\ sd' = TradeCancelled(sd, p) \/ sd' = [sd EXCEPT ![p] = r]
      /\ UNCHANGED <<World, Rest>>
  BY DEF TradeAddZeny
<1> HIDE DEF r
<1> QED BY <1>1, <1>2, SdIs, TradeCancelledIs, OneIsChanged, TypedSd

LEMMA TradeOkTyped ==
    ASSUME WellTyped, NEW p \in Player, TradeOk(p) \/ TradeCancel(p)
    PROVE  WellTyped'
<1>0. sd[p] \in SessionData /\ 1 \in 0..2 /\ 2 \in 0..2
  BY SdIs
<1> DEFINE r == [sd[p] EXCEPT !.locked = 1]
<1>1. r \in SessionData
  BY <1>0 DEF SessionData
<1>2. /\ sd' = TradeCancelled(sd, p) \/ sd' = [sd EXCEPT ![p] = r]
      /\ UNCHANGED <<World, Rest>>
  BY DEF TradeOk, TradeCancel
<1> HIDE DEF r
<1> QED BY <1>1, <1>2, SdIs, TradeCancelledIs, OneIsChanged, TypedSd

LEMMA TradeCommitTyped ==
    ASSUME WellTyped, NEW p \in Player, TradeCommit(p)
    PROVE  WellTyped'
<1>0. sd[p] \in SessionData /\ 1 \in 0..2 /\ 2 \in 0..2
  BY SdIs
<1> DEFINE r == [sd[p] EXCEPT !.locked = 2]
           st == [sd EXCEPT ![p] = r]
           t == sd[p].partner
<1>1. r \in SessionData
  BY <1>0 DEF SessionData
<1>2. st \in Sessions
  BY <1>1, SdIs, OneIsChanged
<1>3. t \in Player \union {NoPlayer}
  BY SdIs DEF SessionData
<1>4. /\ \/ sd' = TradeCancelled(sd, p)
         \/ sd' = st
         \/ t # NoPlayer /\ (sd' = TradeCancelled(st, p) \/ sd' = TradeCancelled(st, t))
         \/ t # NoPlayer /\ sd' = TradeCommitted(st, p, t)
      /\ UNCHANGED <<World, Rest>>
  BY DEF TradeCommit
<1> HIDE DEF st, t, r
<1> QED BY <1>2, <1>3, <1>4, SdIs, TradeCancelledIs, CommittedIs, TypedSd

LEMMA ChatRoomTyped ==
    ASSUME WellTyped, NEW p \in Player, ChatRoom(p)
    PROVE  WellTyped'
<1>0. sd[p] \in SessionData /\ 1 \in 0..2 /\ 2 \in 0..2
  BY SdIs
<1> DEFINE r == [sd[p] EXCEPT !.chat = ~@]
<1>1. r \in SessionData
  BY <1>0 DEF SessionData
<1>2. Changes(p, r) /\ UNCHANGED <<World, Rest>>
  BY DEF ChatRoom
<1> HIDE DEF r
<1> QED BY <1>1, <1>2, TypedChange

-----------------------------------------------------------------------------
(* Shops. *)

LEMMA BackedIs ==
    ASSUME NEW r \in SessionData,
           NEW k \in Nat, NEW list \in [1..k -> GoodsEntry]
    PROVE  Backed(r, list) \in Seq(GoodsEntry)
<1> DEFINE Op(acc, e) == IF r.cart[e.index].amount > 0 /\ e.amount <= r.cart[e.index].amount
                         THEN Append(acc, e) ELSE acc
           D == 1..k
           base == << >>
           IsFold(run) == run = [s \in SUBSET DOMAIN list |-> IF s = {} THEN base ELSE
                                    Op(run[s \ {Max(s)}], list[Max(s)])]
           run == CHOOSE x : IsFold(x)
           F == [ai \in Seq(GoodsEntry) \X D |-> Op(ai[1], list[ai[2]])]
           N == [s \in SUBSET D |-> Seq(GoodsEntry)]
<1>1. ASSUME NEW acc \in Seq(GoodsEntry), NEW e \in GoodsEntry PROVE Op(acc, e) \in Seq(GoodsEntry)
  BY <1>1
<1>2. Backed(r, list) = FoldLeft(Op, base, list)
  BY Zenon DEF Backed
<1>3. base \in Seq(GoodsEntry)
  BY NothingIs
<1> HIDE DEF Op, base
<1>4. D \in SUBSET Nat /\ IsFiniteSet(D) /\ DOMAIN list = D /\ \A i \in D : list[i] \in GoodsEntry
  BY FS_Interval
<1>5. FoldStep(F, N, Seq(GoodsEntry), D)
  <2>1. ASSUME NEW s \in SUBSET D, s # {}, NEW acc \in Seq(GoodsEntry) PROVE F[<<acc, Max(s)>>] \in Seq(GoodsEntry)
    <3>1. Max(s) \in D
      BY <1>4, <2>1, LatestChooses
    <3> QED BY <1>1, <1>4, <3>1
  <2>2. \A s \in SUBSET D : N[s] = Seq(GoodsEntry) /\ N[s \ {Max(s)}] = Seq(GoodsEntry)
    OBVIOUS
  <2> HIDE DEF F, N
  <2> QED BY <2>1, <2>2 DEF FoldStep
<1>6. base \in N[{}]
  BY <1>3
<1>7. \A s \in SUBSET D : s # {} => Max(s) \in D
  BY <1>4, LatestChooses
<1>8. \A acc \in Seq(GoodsEntry), i \in D : F[<<acc, i>>] = Op(acc, list[i])
  OBVIOUS
<1>9. \E x : IsFold(x)
  <2> HIDE DEF F, N, D
  <2>1. PICK x : /\ x \in [SUBSET D -> Seq(GoodsEntry)] /\ FoldRun(x, F, Seq(GoodsEntry), base, D)
    BY <1>4, <1>5, <1>6, FoldRunExists
  <2>2. ASSUME NEW s \in SUBSET D PROVE x[s] = IF s = {} THEN base ELSE Op(x[s \ {Max(s)}], list[Max(s)])
    BY <1>7, <1>8, <2>1 DEF FoldRun
  <2>3. IsFold(x)
    BY <1>4, <2>1, <2>2
  <2> QED BY <2>3
<1>10. IsFold(run)
  <2> HIDE DEF IsFold
  <2> QED BY <1>9
<1>11. FoldLeft(Op, base, list) = run[DOMAIN list]
  BY Zenon DEF FoldLeft, MapThenFoldSet
<1>12. FoldRun(run, F, Seq(GoodsEntry), base, D)
  <2> HIDE DEF F, N, D, run
  <2> QED BY <1>4, <1>7, <1>8, <1>10 DEF FoldRun
<1>13. run[D] \in N[D]
  <2> HIDE DEF F, N, run, D
  <2> QED BY <1>4, <1>5, <1>6, <1>12, FoldRunIn
<1> QED BY <1>2, <1>4, <1>11, <1>13


Handover == [inv : Slots(Slot), cart : Slots(CartSlot)]
CartRequest == [index : CartSlot, amount : Amounts]

LEMMA SoldFromIs ==
    ASSUME NEW st \in Sessions, NEW c \in Player, NEW v \in Player,
           NEW k \in Nat, NEW list \in [1..k -> CartRequest]
    PROVE  SoldFrom(st, c, v, list) \in Handover
<1> DEFINE Op(acc, e) == [inv |-> PcAddItem(acc.inv, acc.cart[e.index].item, e.amount),
                         cart |-> PcDelItem(acc.cart, e.index, e.amount)]
           D == 1..k
           base == [inv |-> st[c].inv, cart |-> st[v].cart]
           IsFold(run) == run = [s \in SUBSET DOMAIN list |-> IF s = {} THEN base ELSE
                                    Op(run[s \ {Max(s)}], list[Max(s)])]
           run == CHOOSE x : IsFold(x)
           F == [ai \in Handover \X D |-> Op(ai[1], list[ai[2]])]
           N == [s \in SUBSET D |-> Handover]
<1>1. ASSUME NEW acc \in Handover, NEW e \in CartRequest PROVE Op(acc, e) \in Handover
  <2>1. /\ acc.inv \in Slots(Slot) /\ acc.cart \in Slots(CartSlot)
        /\ e.index \in CartSlot /\ e.amount \in Nat
    BY <1>1 DEF Handover, CartRequest, Amounts
  <2>2. acc.cart[e.index].item \in Item \union {NoItem}
    BY <2>1, SlotsAre
  <2>3. PcAddItem(acc.inv, acc.cart[e.index].item, e.amount) \in Slots(Slot)
    BY <2>1, <2>2, PcAddItemIs, SlotAssumption
  <2>4. PcDelItem(acc.cart, e.index, e.amount) \in Slots(CartSlot)
    BY <2>1, PcDelItemIs
  <2> QED BY <2>3, <2>4 DEF Handover
<1>2. SoldFrom(st, c, v, list) = FoldLeft(Op, base, list)
  BY Zenon DEF SoldFrom
<1>3. base \in Handover
  BY DEF Handover, Sessions, SessionData
<1> HIDE DEF Op, base
<1>4. D \in SUBSET Nat /\ IsFiniteSet(D) /\ DOMAIN list = D /\ \A i \in D : list[i] \in CartRequest
  BY FS_Interval
<1>5. FoldStep(F, N, Handover, D)
  <2>1. ASSUME NEW s \in SUBSET D, s # {}, NEW acc \in Handover PROVE F[<<acc, Max(s)>>] \in Handover
    <3>1. Max(s) \in D
      BY <1>4, <2>1, LatestChooses
    <3> QED BY <1>1, <1>4, <3>1
  <2>2. \A s \in SUBSET D : N[s] = Handover /\ N[s \ {Max(s)}] = Handover
    OBVIOUS
  <2> HIDE DEF F, N
  <2> QED BY <2>1, <2>2 DEF FoldStep
<1>6. base \in N[{}]
  BY <1>3
<1>7. \A s \in SUBSET D : s # {} => Max(s) \in D
  BY <1>4, LatestChooses
<1>8. \A acc \in Handover, i \in D : F[<<acc, i>>] = Op(acc, list[i])
  OBVIOUS
<1>9. \E x : IsFold(x)
  <2> HIDE DEF F, N, D
  <2>1. PICK x : /\ x \in [SUBSET D -> Handover] /\ FoldRun(x, F, Handover, base, D)
    BY <1>4, <1>5, <1>6, FoldRunExists
  <2>2. ASSUME NEW s \in SUBSET D PROVE x[s] = IF s = {} THEN base ELSE Op(x[s \ {Max(s)}], list[Max(s)])
    BY <1>7, <1>8, <2>1 DEF FoldRun
  <2>3. IsFold(x)
    BY <1>4, <2>1, <2>2
  <2> QED BY <2>3
<1>10. IsFold(run)
  <2> HIDE DEF IsFold
  <2> QED BY <1>9
<1>11. FoldLeft(Op, base, list) = run[DOMAIN list]
  BY Zenon DEF FoldLeft, MapThenFoldSet
<1>12. FoldRun(run, F, Handover, base, D)
  <2> HIDE DEF F, N, D, run
  <2> QED BY <1>4, <1>7, <1>8, <1>10 DEF FoldRun
<1>13. run[D] \in N[D]
  <2> HIDE DEF F, N, run, D
  <2> QED BY <1>4, <1>5, <1>6, <1>12, FoldRunIn
<1> QED BY <1>2, <1>4, <1>11, <1>13

LEMMA PricesAre == \A x \in Prices : x \in Nat
BY BoundsAssumption

LEMMA PlacesFinite ==
    ASSUME NEW k \in Nat
    PROVE  IsFiniteSet(1..k)
BY FS_Interval

\* Every entry of a request is one of the shop's.
AllListed(goods, req) == \A i \in DOMAIN req : \E j \in DOMAIN goods : goods[j].index = req[i].index

\* The first entry of a cart slot.
LEMMA EntryForIs ==
    ASSUME NEW k \in Nat, NEW goods \in [1..k -> GoodsEntry], NEW index,
           \E j \in 1..k : goods[j].index = index
    PROVE  EntryFor(goods, index) \in 1..k /\ goods[EntryFor(goods, index)].index = index
<1> DEFINE there == {i \in 1..k : goods[i].index = index}
<1>1. EntryFor(goods, index) = Min(there)
  BY DEF EntryFor
<1>2. there # {} /\ there \in SUBSET Nat
  OBVIOUS
<1>3. Min(there) \in there
  BY <1>2, MinIs
<1> QED BY <1>1, <1>3

\* What a request takes.
LEMMA RequestedFromSum ==
    ASSUME NEW k \in Nat, NEW req \in [1..k -> CartRequest], NEW index
    PROVE  RequestedFrom(req, index) = SumOver([i \in 1..k |-> IF req[i].index = index THEN req[i].amount ELSE 0], 1..k)
<1>0. IsFiniteSet(1..k)
  BY PlacesFinite
<1> DEFINE F == [i \in 1..k |-> IF req[i].index = index THEN req[i].amount ELSE 0]
           Runs(run) == run = [s \in SUBSET 1..k |->
                                 IF s = {} THEN 0 ELSE (IF req[One(s)].index = index THEN req[One(s)].amount ELSE 0) + run[s \ {One(s)}]]
           run == CHOOSE run : Runs(run)
<1>1. \A i \in 1..k : F[i] \in Int
  BY DEF CartRequest, Amounts
<1>2. \A r : IsSumRun(r, F, 1..k) <=> Runs(r)
  <2> SUFFICES ASSUME NEW r
               PROVE  [s \in SUBSET 1..k |-> IF s = {} THEN 0 ELSE F[One(s)] + r[s \ {One(s)}]]
                      = [s \in SUBSET 1..k |-> IF s = {} THEN 0 ELSE (IF req[One(s)].index = index THEN req[One(s)].amount ELSE 0) + r[s \ {One(s)}]]
    BY DEF IsSumRun
  <2>1. \A s \in SUBSET 1..k : s # {} => One(s) \in 1..k
    BY DEF One
  <2> QED BY <2>1
<1>3. \E r : Runs(r)
  <2>1. \E r : IsSumRun(r, F, 1..k)
    <3> HIDE DEF F, Runs, run
    <3> QED BY <1>1, <1>0, SumRunExists
  <2> HIDE DEF F, Runs, run
  <2> QED BY <1>2, <2>1
<1>4. Runs(run)
  <2> HIDE DEF Runs
  <2> QED BY <1>3
<1>5. RequestedFrom(req, index) = run[1..k]
  BY Zenon DEF RequestedFrom, MapThenSumSet, MapThenFoldSet, One
<1>6. IsSumRun(run, F, 1..k)
  <2> HIDE DEF Runs, run, F
  <2> QED BY <1>2, <1>4
<1>7. run[1..k] = SumOver(F, 1..k)
  <2> HIDE DEF Runs, run, F
  <2> QED BY <1>1, <1>6, SumOfPart, <1>0
<1> QED BY <1>5, <1>7

LEMMA CostSum ==
    ASSUME NEW m \in Nat, NEW goods \in [1..m -> GoodsEntry], NEW k \in Nat, NEW req \in [1..k -> CartRequest],
           AllListed(goods, req)
    PROVE  Cost(goods, req) = SumOver([i \in 1..k |-> req[i].amount * goods[EntryFor(goods, req[i].index)].value], 1..k)
<1>0. IsFiniteSet(1..k)
  BY PlacesFinite
<1> DEFINE F == [i \in 1..k |-> req[i].amount * goods[EntryFor(goods, req[i].index)].value]
           Runs(run) == run = [s \in SUBSET 1..k |->
                                 IF s = {} THEN 0 ELSE req[One(s)].amount * goods[EntryFor(goods, req[One(s)].index)].value + run[s \ {One(s)}]]
           run == CHOOSE run : Runs(run)
<1>1. \A i \in 1..k : F[i] \in Int
  <2> SUFFICES ASSUME NEW i \in 1..k
               PROVE  req[i].amount * goods[EntryFor(goods, req[i].index)].value \in Int
    OBVIOUS
  <2> DEFINE j == EntryFor(goods, req[i].index)
  <2>1. j \in 1..m
    BY EntryForIs DEF AllListed
  <2> HIDE DEF j
  <2>2. req[i] \in CartRequest /\ goods[j] \in GoodsEntry
    BY <2>1
  <2>3. req[i].amount \in Nat /\ goods[j].value \in Nat
    <3>1. req[i].amount \in Nat
      BY <2>2 DEF CartRequest, Amounts
    <3>2. goods[j].value \in Prices
      BY <2>2 DEF GoodsEntry
    <3> QED BY <3>1, <3>2, PricesAre
  <2> QED BY <2>3 DEF j
<1>2. \A r : IsSumRun(r, F, 1..k) <=> Runs(r)
  <2> SUFFICES ASSUME NEW r
               PROVE  [s \in SUBSET 1..k |-> IF s = {} THEN 0 ELSE F[One(s)] + r[s \ {One(s)}]]
                      = [s \in SUBSET 1..k |-> IF s = {} THEN 0 ELSE req[One(s)].amount * goods[EntryFor(goods, req[One(s)].index)].value + r[s \ {One(s)}]]
    BY DEF IsSumRun
  <2>1. \A s \in SUBSET 1..k : s # {} => One(s) \in 1..k
    BY DEF One
  <2> QED BY <2>1
<1>3. \E r : Runs(r)
  <2>1. \E r : IsSumRun(r, F, 1..k)
    <3> HIDE DEF F, Runs, run
    <3> QED BY <1>1, <1>0, SumRunExists
  <2> HIDE DEF F, Runs, run
  <2> QED BY <1>2, <2>1
<1>4. Runs(run)
  <2> HIDE DEF Runs
  <2> QED BY <1>3
<1>5. Cost(goods, req) = run[1..k]
  BY Zenon DEF Cost, MapThenSumSet, MapThenFoldSet, One
<1>6. IsSumRun(run, F, 1..k)
  <2> HIDE DEF Runs, run, F
  <2> QED BY <1>2, <1>4
<1>7. run[1..k] = SumOver(F, 1..k)
  <2> HIDE DEF Runs, run, F
  <2> QED BY <1>1, <1>6, SumOfPart, <1>0
<1> QED BY <1>5, <1>7

LEMMA RequestedFromIs ==
    ASSUME NEW k \in Nat, NEW req \in [1..k -> CartRequest], NEW index
    PROVE  /\ RequestedFrom(req, index) \in Nat
           /\ (\A i \in 1..k : req[i].index # index) => RequestedFrom(req, index) = 0
<1>0. IsFiniteSet(1..k)
  BY PlacesFinite
<1> DEFINE F == [i \in 1..k |-> IF req[i].index = index THEN req[i].amount ELSE 0]
<1>1. RequestedFrom(req, index) = SumOver(F, 1..k)
  BY RequestedFromSum
<1>2. \A i \in 1..k : F[i] \in Nat
  BY DEF CartRequest, Amounts
<1>3. (\A i \in 1..k : req[i].index # index) => \A i \in 1..k : F[i] = 0
  OBVIOUS
<1> HIDE DEF F
<1> QED BY <1>1, <1>2, <1>3, <1>0, SumNat, SumOfZeros

LEMMA CostIs ==
    ASSUME NEW m \in Nat, NEW goods \in [1..m -> GoodsEntry], NEW k \in Nat, NEW req \in [1..k -> CartRequest],
           AllListed(goods, req)
    PROVE  Cost(goods, req) \in Nat
<1>0. IsFiniteSet(1..k)
  BY PlacesFinite
<1> DEFINE F == [i \in 1..k |-> req[i].amount * goods[EntryFor(goods, req[i].index)].value]
<1>1. Cost(goods, req) = SumOver(F, 1..k)
  BY CostSum
<1>2. \A i \in 1..k : F[i] \in Nat
  <2> SUFFICES ASSUME NEW i \in 1..k
               PROVE  req[i].amount * goods[EntryFor(goods, req[i].index)].value \in Nat
    OBVIOUS
  <2> DEFINE j == EntryFor(goods, req[i].index)
  <2>1. j \in 1..m
    BY EntryForIs DEF AllListed
  <2> HIDE DEF j
  <2>2. req[i] \in CartRequest /\ goods[j] \in GoodsEntry
    BY <2>1
  <2>3. req[i].amount \in Nat /\ goods[j].value \in Nat
    <3>1. req[i].amount \in Nat
      BY <2>2 DEF CartRequest, Amounts
    <3>2. goods[j].value \in Prices
      BY <2>2 DEF GoodsEntry
    <3> QED BY <3>1, <3>2, PricesAre
  <2> QED BY <2>3 DEF j
<1> HIDE DEF F
<1> QED BY <1>1, <1>2, <1>0, SumNat
\* What a request leaves of the goods.
LEMMA SoldOutIs ==
    ASSUME NEW k \in Nat, NEW goods \in [1..k -> GoodsEntry], NEW req,
           \A i \in 1..k : EntryFor(goods, goods[i].index) = i =>
               RequestedFrom(req, goods[i].index) \in 0..goods[i].amount
    PROVE  SoldOut(goods, req) \in Seq(GoodsEntry)
<1> DEFINE list == [i \in DOMAIN goods |->
                      IF EntryFor(goods, goods[i].index) = i
                      THEN [goods[i] EXCEPT !.amount = @ - RequestedFrom(req, goods[i].index)]
                      ELSE goods[i]]
           Op(acc, e) == IF e.amount # 0 THEN Append(acc, e) ELSE acc
           D == 1..k
           base == << >>
           IsFold(run) == run = [s \in SUBSET DOMAIN list |-> IF s = {} THEN base ELSE
                                    Op(run[s \ {Max(s)}], list[Max(s)])]
           run == CHOOSE x : IsFold(x)
           F == [ai \in Seq(GoodsEntry) \X D |-> Op(ai[1], list[ai[2]])]
           N == [s \in SUBSET D |-> Seq(GoodsEntry)]
<1>1. ASSUME NEW acc \in Seq(GoodsEntry), NEW e \in GoodsEntry PROVE Op(acc, e) \in Seq(GoodsEntry)
  BY <1>1
<1>2. SoldOut(goods, req) = FoldLeft(Op, base, list)
  BY Zenon DEF SoldOut
<1>3. base \in Seq(GoodsEntry)
  BY NothingIs
<1>14. list \in [1..k -> GoodsEntry]
  <2> SUFFICES ASSUME NEW i \in 1..k, EntryFor(goods, goods[i].index) = i
               PROVE  [goods[i] EXCEPT !.amount = @ - RequestedFrom(req, goods[i].index)] \in GoodsEntry
    OBVIOUS
  <2> DEFINE n == RequestedFrom(req, goods[i].index)
  <2>1. goods[i] \in GoodsEntry /\ n \in 0..goods[i].amount
    OBVIOUS
  <2> HIDE DEF n
  <2>2. goods[i].amount - n \in 0..MaxAmount
    BY <2>1, LimitsAssumption DEF GoodsEntry
  <2>3. [goods[i] EXCEPT !.amount = @ - n] \in GoodsEntry
    BY <2>1, <2>2 DEF GoodsEntry
  <2> QED BY <2>3 DEF n
<1> HIDE DEF Op, base, list
<1>4. D \in SUBSET Nat /\ IsFiniteSet(D) /\ DOMAIN list = D /\ \A i \in D : list[i] \in GoodsEntry
  BY <1>14, FS_Interval
<1>5. FoldStep(F, N, Seq(GoodsEntry), D)
  <2>1. ASSUME NEW s \in SUBSET D, s # {}, NEW acc \in Seq(GoodsEntry) PROVE F[<<acc, Max(s)>>] \in Seq(GoodsEntry)
    <3>1. Max(s) \in D
      BY <1>4, <2>1, LatestChooses
    <3> QED BY <1>1, <1>4, <3>1
  <2>2. \A s \in SUBSET D : N[s] = Seq(GoodsEntry) /\ N[s \ {Max(s)}] = Seq(GoodsEntry)
    OBVIOUS
  <2> HIDE DEF F, N
  <2> QED BY <2>1, <2>2 DEF FoldStep
<1>6. base \in N[{}]
  BY <1>3
<1>7. \A s \in SUBSET D : s # {} => Max(s) \in D
  BY <1>4, LatestChooses
<1>8. \A acc \in Seq(GoodsEntry), i \in D : F[<<acc, i>>] = Op(acc, list[i])
  OBVIOUS
<1>9. \E x : IsFold(x)
  <2> HIDE DEF F, N, D
  <2>1. PICK x : /\ x \in [SUBSET D -> Seq(GoodsEntry)] /\ FoldRun(x, F, Seq(GoodsEntry), base, D)
    BY <1>4, <1>5, <1>6, FoldRunExists
  <2>2. ASSUME NEW s \in SUBSET D PROVE x[s] = IF s = {} THEN base ELSE Op(x[s \ {Max(s)}], list[Max(s)])
    BY <1>7, <1>8, <2>1 DEF FoldRun
  <2>3. IsFold(x)
    BY <1>4, <2>1, <2>2
  <2> QED BY <2>3
<1>10. IsFold(run)
  <2> HIDE DEF IsFold
  <2> QED BY <1>9
<1>11. FoldLeft(Op, base, list) = run[DOMAIN list]
  BY Zenon DEF FoldLeft, MapThenFoldSet
<1>12. FoldRun(run, F, Seq(GoodsEntry), base, D)
  <2> HIDE DEF F, N, D, run
  <2> QED BY <1>4, <1>7, <1>8, <1>10 DEF FoldRun
<1>13. run[D] \in N[D]
  <2> HIDE DEF F, N, run, D
  <2> QED BY <1>4, <1>5, <1>6, <1>12, FoldRunIn
<1> QED BY <1>2, <1>4, <1>11, <1>13


\* The tax is a part of the sale.
LEMMA TaxIs ==
    ASSUME NEW z \in Nat
    PROVE  z - (z * VendingTax) \div 10000 \in Nat
<1>1. VendingTax \in Nat /\ VendingTax <= 10000
  BY BoundsAssumption
<1>2. z * VendingTax \in Nat /\ z * VendingTax <= z * 10000
  BY <1>1
<1> DEFINE t == z * VendingTax
<1>3. t \in Nat /\ t <= z * 10000
  BY <1>2
<1> HIDE DEF t
<1>4. z - t \div 10000 \in Nat
  BY <1>3
<1> QED BY <1>4 DEF t

LEMMA RequestIs ==
    ASSUME NEW req \in CartRequests
    PROVE  \E k \in Nat : req \in [1..k -> CartRequest] /\ DOMAIN req = 1..k
<1>1. PICK k \in 1..MaxGoods : req \in [1..k -> CartRequest]
  BY DEF CartRequests, UpTo, CartRequest
<1> QED BY <1>1

LEMMA PurchasedIs ==
    ASSUME NEW st \in Sessions, NEW c \in Player, NEW v \in Player, NEW req \in CartRequests,
           CanPurchase(st, c, v, req)
    PROVE  Purchased(st, c, v, req) \in Sessions
<1> DEFINE goods == st[v].goods
           z == Cost(goods, req)
           sold == SoldFrom(st, c, v, req)
           left == SoldOut(goods, req)
           gain == z - (z * VendingTax) \div 10000
           pc == PcPayZeny(st[c].zeny, z)
           pv == PcGetZeny(st[v].zeny, gain)
           new == Purchased(st, c, v, req)
<1>1. /\ st[c] \in SessionData /\ st[v] \in SessionData
      /\ st[v].goods \in Seq(GoodsEntry) /\ st[c].zeny \in 0..MaxZeny /\ st[v].zeny \in 0..MaxZeny
  BY DEF Sessions, SessionData
<1>2. PICK k \in Nat : req \in [1..k -> CartRequest] /\ DOMAIN req = 1..k
  BY RequestIs
<1>3. PICK m \in Nat : goods \in [1..m -> GoodsEntry] /\ DOMAIN goods = 1..m
  BY <1>1
<1>4. /\ c # v /\ AllListed(goods, req)
      /\ \A i \in DOMAIN req : RequestedFrom(req, req[i].index) <= goods[EntryFor(goods, req[i].index)].amount
  BY DEF CanPurchase, CanPurchaseFromAnyShop, AllListed
<1> HIDE DEF goods
<1>5. z \in Nat
  BY <1>2, <1>3, <1>4, CostIs
<1>6. sold \in Handover
  BY <1>2, SoldFromIs
<1>7. left \in Seq(GoodsEntry)
  <2> SUFFICES ASSUME NEW i \in 1..m, EntryFor(goods, goods[i].index) = i
               PROVE  RequestedFrom(req, goods[i].index) \in 0..goods[i].amount
    BY <1>3, SoldOutIs
  <2>1. RequestedFrom(req, goods[i].index) \in Nat
    BY <1>2, RequestedFromIs
  <2>2. CASE \E j \in 1..k : req[j].index = goods[i].index
    BY <1>2, <1>4, <2>1, <2>2
  <2>3. CASE ~\E j \in 1..k : req[j].index = goods[i].index
    <3>1. RequestedFrom(req, goods[i].index) = 0
      BY <1>2, <2>3, RequestedFromIs
    <3>2. goods[i] \in GoodsEntry
      BY <1>3
    <3> QED BY <3>1, <3>2 DEF GoodsEntry
  <2> QED BY <2>2, <2>3
<1> HIDE DEF z, left, sold
<1>12. gain \in Nat
  BY <1>5, TaxIs
<1> HIDE DEF gain
<1>8. pc \in 0..MaxZeny /\ pv \in 0..MaxZeny
  BY <1>1, <1>5, <1>12, PurseIs
<1> HIDE DEF pc, pv
<1> DEFINE f1 == [st EXCEPT ![c] = [st[c] EXCEPT !.zeny = pc]]
           f2 == [f1 EXCEPT ![c] = [f1[c] EXCEPT !.inv = sold.inv]]
           f3 == [f2 EXCEPT ![v] = [f2[v] EXCEPT !.zeny = pv]]
           f4 == [f3 EXCEPT ![v] = [f3[v] EXCEPT !.cart = sold.cart]]
           f5 == [f4 EXCEPT ![v] = [f4[v] EXCEPT !.goods = left]]
<1>9. new = f5
  BY <1>4 DEF Purchased, goods, z, left, sold, pc, pv, gain
<1> HIDE DEF new
<1>10. f1 \in Sessions
  <2>1. [st[c] EXCEPT !.zeny = pc] \in SessionData
    BY <1>1, <1>8 DEF SessionData
  <2> QED BY <2>1, OneIsChanged
<1> HIDE DEF f1
<1>13. f2 \in Sessions
  <2>1. f1[c] \in SessionData /\ sold.inv \in Slots(Slot)
    BY <1>6, <1>10 DEF Sessions, Handover
  <2>2. [f1[c] EXCEPT !.inv = sold.inv] \in SessionData
    BY <2>1 DEF SessionData
  <2> QED BY <1>10, <2>2, OneIsChanged
<1> HIDE DEF f2
<1>14. f3 \in Sessions
  <2>1. f2[v] \in SessionData
    BY <1>13 DEF Sessions
  <2>2. [f2[v] EXCEPT !.zeny = pv] \in SessionData
    BY <1>8, <2>1 DEF SessionData
  <2> QED BY <1>13, <2>2, OneIsChanged
<1> HIDE DEF f3
<1>15. f4 \in Sessions
  <2>1. f3[v] \in SessionData /\ sold.cart \in Slots(CartSlot)
    BY <1>6, <1>14 DEF Sessions, Handover
  <2>2. [f3[v] EXCEPT !.cart = sold.cart] \in SessionData
    BY <2>1 DEF SessionData
  <2> QED BY <1>14, <2>2, OneIsChanged
<1> HIDE DEF f4
<1>11. new \in Sessions
  <2>1. f4[v] \in SessionData
    BY <1>15 DEF Sessions
  <2>2. [f4[v] EXCEPT !.goods = left] \in SessionData
    BY <1>7, <2>1 DEF SessionData
  <2> QED BY <1>9, <1>15, <2>2, OneIsChanged
<1> QED BY <1>11 DEF new

LEMMA AfterPurchaseIs ==
    ASSUME NEW st \in Sessions, NEW c \in Player, NEW v \in Player, NEW req \in CartRequests,
           CanPurchase(st, c, v, req)
    PROVE  AfterPurchase(st, c, v, req) \in Sessions
<1> DEFINE sale == Purchased(st, c, v, req)
           closed == [sale EXCEPT ![v] = [sale[v] EXCEPT !.vending = FALSE]]
           left == IF sale[v].autotrade /\ sale[v].goods = << >> THEN Quit(closed, v) ELSE sale
           r == [left[c] EXCEPT !.vendedId = 0]
<1>1. sale \in Sessions
  BY PurchasedIs
<1>2. AfterPurchase(st, c, v, req) = [left EXCEPT ![c] = r]
  BY DEF AfterPurchase
<1> HIDE DEF sale
<1>3. closed \in Sessions
  <2>1. sale[v] \in SessionData
    BY <1>1 DEF Sessions
  <2>2. [sale[v] EXCEPT !.vending = FALSE] \in SessionData
    BY <2>1 DEF SessionData
  <2> QED BY <1>1, <2>2, OneIsChanged
<1> HIDE DEF closed
<1>4. left \in Sessions
  BY <1>1, <1>3, LeftMapIs
<1> HIDE DEF left
<1>5. r \in SessionData
  <2>1. left[c] \in SessionData /\ 0 \in Nat
    BY <1>4 DEF Sessions
  <2> QED BY <2>1 DEF SessionData
<1> HIDE DEF r
<1> QED BY <1>2, <1>4, <1>5, OneIsChanged

LEMMA PurchaseReqTyped ==
    ASSUME WellTyped, NEW c \in Player, NEW v \in Player, NEW req \in CartRequests, PurchaseReq(c, v, req)
    PROVE  WellTyped'
<1>1. /\ CanPurchase(sd, c, v, req) /\ sd' = AfterPurchase(sd, c, v, req)
      /\ UNCHANGED <<World, Rest>>
  BY DEF PurchaseReq
<1>2. sd \in Sessions
  BY SdIs
<1>3. sd' \in Sessions
  BY <1>1, <1>2, AfterPurchaseIs
<1> QED BY <1>1, <1>3, TypedSd

\* One field of one player's session data, and nothing else, is changed.
LEMMA OneFieldTyped ==
    ASSUME WellTyped, NEW p \in Player,
           \/ SkillVending(p) \/ ClifOpenVendingCancel(p) \/ CloseVending(p) \/ PurchaseRefused(p)
           \/ BuyingStoreSetup(p) \/ BuyingStoreCreateFailed(p) \/ BuyingStoreClose(p)
           \/ StorageOpen(p) \/ StorageClose(p)
    PROVE  WellTyped'
<1>1. sd[p] \in SessionData /\ 0 \in Nat /\ 0 \in 0..MaxZeny /\ << >> \in Wants
  BY SdIs, NothingIs, LimitsAssumption
<1>2. PICK r : /\ Changes(p, r) /\ UNCHANGED <<World, Rest>>
               /\ \/ r = [sd[p] EXCEPT !.prevend = TRUE] \/ r = [sd[p] EXCEPT !.prevend = FALSE]
                  \/ r = [sd[p] EXCEPT !.vending = FALSE] \/ r = [sd[p] EXCEPT !.vendedId = 0]
                  \/ r = [sd[p] EXCEPT !.slots = TRUE] \/ r = [sd[p] EXCEPT !.slots = FALSE]
                  \/ r = Closed(sd[p])
                  \/ r = [sd[p] EXCEPT !.storage = TRUE] \/ r = [sd[p] EXCEPT !.storage = FALSE]
  BY DEF SkillVending, ClifOpenVendingCancel, CloseVending, PurchaseRefused, BuyingStoreSetup,
         BuyingStoreCreateFailed, BuyingStoreClose, StorageOpen, StorageClose
<1>3. /\ [sd[p] EXCEPT !.prevend = TRUE] \in SessionData /\ [sd[p] EXCEPT !.prevend = FALSE] \in SessionData
      /\ [sd[p] EXCEPT !.vending = FALSE] \in SessionData /\ [sd[p] EXCEPT !.vendedId = 0] \in SessionData
  BY <1>1 DEF SessionData
<1>4. /\ [sd[p] EXCEPT !.slots = TRUE] \in SessionData /\ [sd[p] EXCEPT !.slots = FALSE] \in SessionData
      /\ [sd[p] EXCEPT !.storage = TRUE] \in SessionData /\ [sd[p] EXCEPT !.storage = FALSE] \in SessionData
  BY <1>1 DEF SessionData
<1>5. Closed(sd[p]) \in SessionData
  BY <1>1 DEF SessionData, Closed
<1>6. r \in SessionData
  BY <1>2, <1>3, <1>4, <1>5
<1> QED BY <1>2, <1>6, TypedChange

LEMMA OpenVendingTyped ==
    ASSUME WellTyped, NEW p \in Player, NEW list \in GoodsLists, OpenVending(p, list)
    PROVE  WellTyped'
<1> DEFINE goods == Backed(sd[p], list)
           r == [sd[p] EXCEPT !.prevend = FALSE, !.vending = TRUE,
                              !.venderId = nextId.shop, !.goods = goods]
<1>1. sd[p] \in SessionData /\ sd \in Sessions /\ nextId.shop \in Nat
  BY SdIs DEF WellTyped
<1>2. goods \in Seq(GoodsEntry)
  <2>1. PICK k \in 1..MaxGoods : list \in [1..k -> [index : CartSlot, amount : Amounts, value : Prices]]
    BY DEF GoodsLists, UpTo
  <2>2. \A e \in [index : CartSlot, amount : Amounts, value : Prices] : e \in GoodsEntry
    BY DEF GoodsEntry, Amounts
  <2>3. list \in [1..k -> GoodsEntry]
    BY <2>1, <2>2
  <2> QED BY <1>1, <2>3, BackedIs
<1>3. Changes(p, r)
  BY DEF OpenVending
<1> HIDE DEF goods
<1>4. r \in SessionData
  BY <1>1, <1>2 DEF SessionData
<1> HIDE DEF r
<1>5. sd' \in Sessions
  BY <1>1, <1>3, <1>4, OneIsChanged DEF Changes
<1>6. nextId' \in [shop : Nat, store : Nat] /\ UNCHANGED <<World, does, shown, strayed>>
  BY DEF OpenVending, WellTyped
<1> QED BY <1>5, <1>6 DEF WellTyped, World

LEMMA VendingListReqTyped ==
    ASSUME WellTyped, NEW p \in Player, NEW v \in Player, VendingListReq(p, v)
    PROVE  WellTyped'
<1> DEFINE r == [sd[p] EXCEPT !.vendedId = sd[v].venderId]
           list == [i \in DOMAIN sd[v].goods |->
                         [item |-> sd[v].cart[sd[v].goods[i].index].item,
                          index |-> sd[v].goods[i].index, value |-> sd[v].goods[i].value]]
           shop == [seller |-> v, goods |-> list]
<1>1. /\ sd[p] \in SessionData /\ sd \in Sessions /\ sd[v] \in SessionData
      /\ shown \in [Player -> ShownData] /\ shown[p] \in ShownData
  BY SdIs DEF WellTyped
<1>2. sd[v].venderId \in Nat /\ sd[v].goods \in Seq(GoodsEntry) /\ sd[v].cart \in Slots(CartSlot)
  BY <1>1 DEF SessionData
<1>3. r \in SessionData
  BY <1>1, <1>2 DEF SessionData
<1>4. list \in Seq(ShownGoods)
  <2>1. ASSUME NEW i \in DOMAIN sd[v].goods
        PROVE  [item |-> sd[v].cart[sd[v].goods[i].index].item,
                index |-> sd[v].goods[i].index, value |-> sd[v].goods[i].value] \in ShownGoods
    <3>0. sd[v].goods[i] \in GoodsEntry
      BY <1>2
    <3>1. sd[v].goods[i].index \in CartSlot /\ sd[v].goods[i].value \in Prices
      BY <3>0 DEF GoodsEntry
    <3>2. sd[v].cart[sd[v].goods[i].index].item \in Item \union {NoItem}
      BY <1>2, <3>1, SlotsAre
    <3> QED BY <3>1, <3>2 DEF ShownGoods
  <2>2. PICK k \in Nat : DOMAIN sd[v].goods = 1..k
    BY <1>2
  <2>3. list \in [1..k -> ShownGoods]
    BY <2>1, <2>2
  <2> QED BY <2>3
<1>5. Changes(p, r) /\ shown' = [shown EXCEPT ![p] = [shown[p] EXCEPT !.shop = shop]]
  BY DEF VendingListReq
<1> HIDE DEF list, r
<1>6. [shown[p] EXCEPT !.shop = shop] \in ShownData
  <2>1. shop \in [seller : Player \union {NoPlayer}, goods : Seq(ShownGoods)]
    BY <1>4
  <2> HIDE DEF shop
  <2> QED BY <1>1, <2>1 DEF ShownData
<1> HIDE DEF shop
<1>7. sd' \in Sessions /\ shown' \in [Player -> ShownData]
  BY <1>1, <1>3, <1>5, <1>6, OneIsChanged DEF Changes
<1>8. UNCHANGED <<World, does, nextId, strayed>>
  BY DEF VendingListReq
<1> QED BY <1>7, <1>8 DEF WellTyped, World

LEMMA LeaveTyped ==
    ASSUME WellTyped, NEW p \in Player, Warp(p) \/ MapQuit(p)
    PROVE  WellTyped'
<1>1. sd \in Sessions
  BY SdIs
<1>2. sd' \in Sessions /\ UNCHANGED <<World, Rest>>
  BY <1>1, LeftMapIs DEF Warp, MapQuit
<1> QED BY <1>2, TypedSd

-----------------------------------------------------------------------------
(* Cart, storage and floor. *)

LEMMA HoldingsAre ==
    ASSUME WellTyped, NEW p \in Player
    PROVE  /\ sd[p] \in SessionData /\ sd \in Sessions
           /\ sd[p].inv \in Slots(Slot) /\ sd[p].cart \in Slots(CartSlot)
           /\ sd[p].store \in [Item -> 0..MaxAmount] /\ sd[p].zeny \in 0..MaxZeny
           /\ \A s \in Slot : sd[p].inv[s].item \in Item \union {NoItem} /\ sd[p].inv[s].amount \in 0..MaxAmount
           /\ \A s \in CartSlot : sd[p].cart[s].item \in Item \union {NoItem}
<1>1. sd[p] \in SessionData /\ sd \in Sessions
  BY SdIs
<1>2. /\ sd[p].inv \in Slots(Slot) /\ sd[p].cart \in Slots(CartSlot)
      /\ sd[p].store \in [Item -> 0..MaxAmount] /\ sd[p].zeny \in 0..MaxZeny
  BY <1>1 DEF SessionData
<1> QED BY <1>1, <1>2, SlotsAre

LEMMA AmountsAre == \A n \in Amounts : n \in Nat
BY DEF Amounts

LEMMA CartTyped ==
    ASSUME WellTyped, NEW p \in Player, NEW n \in Amounts,
           \/ \E s \in Slot : PutItemToCart(p, s, n)
           \/ \E s \in CartSlot : GetItemFromCart(p, s, n)
    PROVE  WellTyped'
<1>1. PICK inv, cart : /\ inv \in Slots(Slot) /\ cart \in Slots(CartSlot)
                       /\ Changes(p, [sd[p] EXCEPT !.cart = cart, !.inv = inv])
                       /\ UNCHANGED <<World, Rest>>
  <2>1. ASSUME NEW s \in Slot, PutItemToCart(p, s, n)
        PROVE  \E inv, cart : /\ inv \in Slots(Slot) /\ cart \in Slots(CartSlot)
                              /\ Changes(p, [sd[p] EXCEPT !.cart = cart, !.inv = inv])
                              /\ UNCHANGED <<World, Rest>>
    <3> DEFINE to == PcCartAddItem(sd[p].cart, sd[p].inv[s].item, n)
               from == PcDelItem(sd[p].inv, s, n)
    <3>1. to \in Slots(CartSlot) /\ from \in Slots(Slot)
      BY HoldingsAre, PcAddItemIs, PcDelItemIs, AmountsAre, SlotAssumption
    <3>2. Changes(p, [sd[p] EXCEPT !.cart = to, !.inv = from]) /\ UNCHANGED <<World, Rest>>
      BY <2>1 DEF PutItemToCart
    <3> QED BY <3>1, <3>2
  <2>2. ASSUME NEW s \in CartSlot, GetItemFromCart(p, s, n)
        PROVE  \E inv, cart : /\ inv \in Slots(Slot) /\ cart \in Slots(CartSlot)
                              /\ Changes(p, [sd[p] EXCEPT !.cart = cart, !.inv = inv])
                              /\ UNCHANGED <<World, Rest>>
    <3> DEFINE to == PcAddItem(sd[p].inv, sd[p].cart[s].item, n)
               from == PcDelItem(sd[p].cart, s, n)
    <3>1. to \in Slots(Slot) /\ from \in Slots(CartSlot)
      BY HoldingsAre, PcAddItemIs, PcDelItemIs, AmountsAre, SlotAssumption
    <3>2. Changes(p, [sd[p] EXCEPT !.inv = to, !.cart = from]) /\ UNCHANGED <<World, Rest>>
      BY <2>2 DEF GetItemFromCart
    <3>3. [sd[p] EXCEPT !.inv = to, !.cart = from] = [sd[p] EXCEPT !.cart = from, !.inv = to]
      BY HoldingsAre DEF SessionData
    <3> HIDE DEF to, from
    <3> QED BY <3>1, <3>2, <3>3
  <2> QED BY <2>1, <2>2
<1>2. [sd[p] EXCEPT !.cart = cart, !.inv = inv] \in SessionData
  <2>1. sd[p] \in SessionData
    BY SdIs
  <2> QED BY <1>1, <2>1 DEF SessionData
<1> QED BY <1>1, <1>2, TypedChange

LEMMA StorageTyped ==
    ASSUME WellTyped, NEW p \in Player, NEW n \in Amounts,
           \/ \E s \in Slot : StorageAdd(p, s, n)
           \/ \E s \in CartSlot : StorageAddFromCart(p, s, n)
           \/ \E item \in Item : StorageGet(p, item, n) \/ StorageGetToCart(p, item, n)
    PROVE  WellTyped'
<1> DEFINE Moves(inv, cart, store) ==
              /\ inv \in Slots(Slot) /\ cart \in Slots(CartSlot) /\ store \in [Item -> 0..MaxAmount]
              /\ Changes(p, [sd[p] EXCEPT !.inv = inv, !.cart = cart, !.store = store])
              /\ UNCHANGED <<World, Rest>>
<1>0. sd[p] \in SessionData /\ n \in Nat
  BY SdIs, AmountsAre
<1>1. ASSUME NEW s \in Slot, StorageAdd(p, s, n)
      PROVE  Moves(PcDelItem(sd[p].inv, s, n), sd[p].cart, StorageAddItem(sd[p].store, sd[p].inv[s].item, n))
  <2> DEFINE to == StorageAddItem(sd[p].store, sd[p].inv[s].item, n)
             from == PcDelItem(sd[p].inv, s, n)
  <2>1. from \in Slots(Slot) /\ to \in [Item -> 0..MaxAmount] /\ sd[p].cart \in Slots(CartSlot)
    BY <1>0, HoldingsAre, StorageAddItemIs, PcDelItemIs
  <2>2. Changes(p, [sd[p] EXCEPT !.store = to, !.inv = from]) /\ UNCHANGED <<World, Rest>>
    BY <1>1 DEF StorageAdd
  <2> HIDE DEF to, from
  <2>3. [sd[p] EXCEPT !.store = to, !.inv = from]
          = [sd[p] EXCEPT !.inv = from, !.cart = sd[p].cart, !.store = to]
    BY <1>0 DEF SessionData
  <2>4. Moves(from, sd[p].cart, to)
    BY <2>1, <2>2, <2>3
  <2> QED BY <2>4 DEF from, to
<1>2. ASSUME NEW s \in CartSlot, StorageAddFromCart(p, s, n)
      PROVE  Moves(sd[p].inv, PcDelItem(sd[p].cart, s, n), StorageAddItem(sd[p].store, sd[p].cart[s].item, n))
  <2> DEFINE to == StorageAddItem(sd[p].store, sd[p].cart[s].item, n)
             from == PcDelItem(sd[p].cart, s, n)
  <2>1. from \in Slots(CartSlot) /\ to \in [Item -> 0..MaxAmount] /\ sd[p].inv \in Slots(Slot)
    BY <1>0, HoldingsAre, StorageAddItemIs, PcDelItemIs
  <2>2. Changes(p, [sd[p] EXCEPT !.store = to, !.cart = from]) /\ UNCHANGED <<World, Rest>>
    BY <1>2 DEF StorageAddFromCart
  <2> HIDE DEF to, from
  <2>3. [sd[p] EXCEPT !.store = to, !.cart = from]
          = [sd[p] EXCEPT !.inv = sd[p].inv, !.cart = from, !.store = to]
    BY <1>0 DEF SessionData
  <2>4. Moves(sd[p].inv, from, to)
    BY <2>1, <2>2, <2>3
  <2> QED BY <2>4 DEF from, to
<1>3. ASSUME NEW item \in Item, n <= sd[p].store[item]
      PROVE  [sd[p].store EXCEPT ![item] = @ - n] \in [Item -> 0..MaxAmount]
  <2>1. sd[p].store \in [Item -> 0..MaxAmount]
    BY HoldingsAre
  <2>2. sd[p].store[item] \in 0..MaxAmount
    BY <2>1
  <2>3. sd[p].store[item] - n \in 0..MaxAmount
    BY <1>0, <1>3, <2>2, LimitsAssumption
  <2> QED BY <2>1, <2>3
<1>4. ASSUME NEW item \in Item, StorageGet(p, item, n)
      PROVE  Moves(PcAddItem(sd[p].inv, item, n), sd[p].cart, [sd[p].store EXCEPT ![item] = @ - n])
  <2> DEFINE to == PcAddItem(sd[p].inv, item, n)
             store == [sd[p].store EXCEPT ![item] = @ - n]
  <2>1. to \in Slots(Slot) /\ store \in [Item -> 0..MaxAmount] /\ sd[p].cart \in Slots(CartSlot)
    BY <1>0, <1>3, <1>4, HoldingsAre, PcAddItemIs, SlotAssumption DEF StorageGet
  <2>2. Changes(p, [sd[p] EXCEPT !.inv = to, !.store = store]) /\ UNCHANGED <<World, Rest>>
    BY <1>4 DEF StorageGet
  <2> HIDE DEF to, store
  <2>3. [sd[p] EXCEPT !.inv = to, !.store = store]
          = [sd[p] EXCEPT !.inv = to, !.cart = sd[p].cart, !.store = store]
    BY <1>0 DEF SessionData
  <2>4. Moves(to, sd[p].cart, store)
    BY <2>1, <2>2, <2>3
  <2> QED BY <2>4 DEF to, store
<1>5. ASSUME NEW item \in Item, StorageGetToCart(p, item, n)
      PROVE  Moves(sd[p].inv, PcCartAddItem(sd[p].cart, item, n), [sd[p].store EXCEPT ![item] = @ - n])
  <2> DEFINE to == PcCartAddItem(sd[p].cart, item, n)
             store == [sd[p].store EXCEPT ![item] = @ - n]
  <2>1. to \in Slots(CartSlot) /\ store \in [Item -> 0..MaxAmount] /\ sd[p].inv \in Slots(Slot)
    BY <1>0, <1>3, <1>5, HoldingsAre, PcAddItemIs, SlotAssumption DEF StorageGetToCart
  <2>2. Changes(p, [sd[p] EXCEPT !.cart = to, !.store = store]) /\ UNCHANGED <<World, Rest>>
    BY <1>5 DEF StorageGetToCart
  <2> HIDE DEF to, store
  <2>3. [sd[p] EXCEPT !.cart = to, !.store = store]
          = [sd[p] EXCEPT !.inv = sd[p].inv, !.cart = to, !.store = store]
    BY <1>0 DEF SessionData
  <2>4. Moves(sd[p].inv, to, store)
    BY <2>1, <2>2, <2>3
  <2> QED BY <2>4 DEF to, store
<1>6. PICK inv, cart, store : Moves(inv, cart, store)
  <2> HIDE DEF Moves
  <2> QED BY <1>1, <1>2, <1>4, <1>5
<1>7. [sd[p] EXCEPT !.inv = inv, !.cart = cart, !.store = store] \in SessionData
  BY <1>0, <1>6 DEF SessionData
<1> QED BY <1>6, <1>7, TypedChange

\* Only which slots were emptied changes.
LEMMA EmptiedTyped ==
    ASSUME shown \in [Player -> ShownData], NEW p \in Player, NEW s \in Slot, Emptied(p, s)
    PROVE  shown' \in [Player -> ShownData]
<1>1. shown[p] \in ShownData
  OBVIOUS
<1>2. shown[p].gone \union {s} \in SUBSET Slot
  BY <1>1 DEF ShownData
<1>3. [shown[p] EXCEPT !.gone = @ \union {s}] \in ShownData
  BY <1>1, <1>2 DEF ShownData
<1>4. shown' = shown \/ shown' = [shown EXCEPT ![p] = [shown[p] EXCEPT !.gone = @ \union {s}]]
  BY DEF Emptied
<1> QED BY <1>3, <1>4

LEMMA GroundTyped ==
    ASSUME WellTyped, NEW p \in Player,
           \/ \E s \in Slot, n \in Amounts : DropItem(p, s, n)
           \/ \E to \in Player, item \in Item : TakeItem(p, to, item)
           \/ \E s \in Slot : UseUp(p, s)
    PROVE  WellTyped'
<1>1. ground \in [Item -> Nat] /\ shown \in [Player -> ShownData] /\ shown[p] \in ShownData
  BY DEF WellTyped
<1>2. PICK x \in Player, inv \in Slots(Slot), item \in Item, n \in Nat :
        /\ Changes(x, [sd[x] EXCEPT !.inv = inv])
        /\ ground' = [ground EXCEPT ![item] = @ + n] \/ (ground[item] > 0 /\ ground' = [ground EXCEPT ![item] = @ - 1])
  <2>1. ASSUME NEW s \in Slot, NEW n \in Amounts, DropItem(p, s, n)
        PROVE  \E x \in Player, inv \in Slots(Slot), item \in Item, m \in Nat :
                  /\ Changes(x, [sd[x] EXCEPT !.inv = inv]) /\ ground' = [ground EXCEPT ![item] = @ + m]
    <3> DEFINE inv == PcDelItem(sd[p].inv, s, n)
               item == sd[p].inv[s].item
    <3>1. inv \in Slots(Slot) /\ item \in Item /\ n \in Nat
      BY <2>1, HoldingsAre, PcDelItemIs, AmountsAre DEF DropItem
    <3>2. Changes(p, [sd[p] EXCEPT !.inv = inv]) /\ ground' = [ground EXCEPT ![item] = @ + n]
      BY <2>1 DEF DropItem
    <3> HIDE DEF inv, item
    <3> QED BY <3>1, <3>2
  <2>2. ASSUME NEW s \in Slot, UseUp(p, s)
        PROVE  \E x \in Player, inv \in Slots(Slot), item \in Item, m \in Nat :
                  /\ Changes(x, [sd[x] EXCEPT !.inv = inv]) /\ ground' = [ground EXCEPT ![item] = @ + m]
    <3> DEFINE inv == PcDelItem(sd[p].inv, s, 1)
               item == sd[p].inv[s].item
    <3>1. inv \in Slots(Slot) /\ item \in Item /\ 1 \in Nat
      BY <2>2, HoldingsAre, PcDelItemIs DEF UseUp
    <3>2. Changes(p, [sd[p] EXCEPT !.inv = inv]) /\ ground' = [ground EXCEPT ![item] = @ + 1]
      BY <2>2 DEF UseUp
    <3> HIDE DEF inv, item
    <3> QED BY <3>1, <3>2
  <2>3. ASSUME NEW to \in Player, NEW item \in Item, TakeItem(p, to, item)
        PROVE  \E x \in Player, inv \in Slots(Slot) :
                  /\ Changes(x, [sd[x] EXCEPT !.inv = inv])
                  /\ ground[item] > 0 /\ ground' = [ground EXCEPT ![item] = @ - 1]
    <3> DEFINE inv == PcAddItem(sd[to].inv, item, 1)
    <3>1. inv \in Slots(Slot)
      BY HoldingsAre, PcAddItemIs, SlotAssumption
    <3>2. Changes(to, [sd[to] EXCEPT !.inv = inv]) /\ ground[item] > 0 /\ ground' = [ground EXCEPT ![item] = @ - 1]
      BY <2>3 DEF TakeItem
    <3> HIDE DEF inv
    <3> QED BY <3>1, <3>2
  <2> QED BY <2>1, <2>2, <2>3
<1>3. sd' \in Sessions
  <2>1. sd[x] \in SessionData
    BY SdIs
  <2>2. [sd[x] EXCEPT !.inv = inv] \in SessionData
    BY <2>1 DEF SessionData
  <2> QED BY <1>2, <2>2, SdIs, OneIsChanged DEF Changes
<1>4. ground' \in [Item -> Nat]
  <2>1. ground[item] \in Nat
    BY <1>1
  <2> QED BY <1>1, <1>2, <2>1
<1>5. /\ UNCHANGED <<purse, does, nextId, strayed>>
      /\ shown' = shown \/ \E s \in Slot : Emptied(p, s)
  BY DEF DropItem, TakeItem, UseUp, Rest
<1>6. shown' \in [Player -> ShownData]
  BY <1>1, <1>5, EmptiedTyped
<1> QED BY <1>3, <1>4, <1>5, <1>6 DEF WellTyped

LEMMA ZenyTyped ==
    ASSUME WellTyped, NEW p \in Player, WorldTakesZeny(p) \/ WorldGivesZeny(p)
    PROVE  WellTyped'
<1>1. /\ sd[p] \in SessionData /\ sd[p].zeny \in 0..MaxZeny /\ sd \in Sessions
      /\ PcPayZeny(sd[p].zeny, 1) \in 0..MaxZeny /\ PcGetZeny(sd[p].zeny, 1) \in 0..MaxZeny
  BY HoldingsAre, PurseIs
<1>2. /\ \/ Changes(p, [sd[p] EXCEPT !.zeny = PcPayZeny(sd[p].zeny, 1)])
         \/ Changes(p, [sd[p] EXCEPT !.zeny = PcGetZeny(sd[p].zeny, 1)])
      /\ purse' = purse + 1 \/ (purse > 0 /\ purse' = purse - 1)
      /\ UNCHANGED <<ground, Rest>>
  BY DEF WorldTakesZeny, WorldGivesZeny
<1>3. ASSUME NEW z \in 0..MaxZeny PROVE [sd[p] EXCEPT !.zeny = z] \in SessionData
  BY <1>1 DEF SessionData
<1>4. sd' \in Sessions
  BY <1>1, <1>2, <1>3, OneIsChanged DEF Changes
<1>5. purse' \in Nat
  BY <1>2 DEF WellTyped
<1> QED BY <1>2, <1>4, <1>5 DEF WellTyped, Rest

-----------------------------------------------------------------------------
(* Buying stores. *)

SlotRequest == [index : Slot, amount : Amounts]
ItemOf(st, s, offered, i) == st[s].inv[offered[i].index].item
WantOf(st, s, b, offered, i) == WantFor(st[b].wants, Name[ItemOf(st, s, offered, i)])
Owed(st, s, b, offered) ==
    [i \in DOMAIN offered |-> offered[i].amount * st[b].wants[WantOf(st, s, b, offered, i)].price]

LEMMA OfferIs ==
    ASSUME NEW st \in Sessions, NEW s \in Player, NEW b \in Player, NEW k \in Nat,
           NEW offered \in [1..k -> SlotRequest], CanSell(st, s, b, offered)
    PROVE  /\ s # b
           /\ \A i \in 1..k : /\ ItemOf(st, s, offered, i) \in Item
                              /\ st[s].inv[offered[i].index].amount >= offered[i].amount
                              /\ WantOf(st, s, b, offered, i) \in DOMAIN st[b].wants
                              /\ st[b].wants[WantOf(st, s, b, offered, i)].name = Name[ItemOf(st, s, offered, i)]
                              /\ st[b].wants[WantOf(st, s, b, offered, i)].amount >= offered[i].amount
           /\ \A i, j \in 1..k : i # j => /\ offered[i].index # offered[j].index
                                          /\ WantOf(st, s, b, offered, i) # WantOf(st, s, b, offered, j)
<1> DEFINE item(i) == ItemOf(st, s, offered, i)
           wants == st[b].wants
<1>1. /\ st[s].inv \in Slots(Slot) /\ wants \in Wants
  BY DEF Sessions, SessionData
<1>2. wants \in Seq(WantsEntry) /\ \A i, j \in DOMAIN wants : wants[i].name = wants[j].name => i = j
  BY <1>1 DEF Wants
<1>3. s # b
  BY DEF CanSell, IsTrading
<1>4. \A i \in 1..k : /\ item(i) \notin Carded /\ item(i) # NoItem
                      /\ st[s].inv[offered[i].index].amount >= offered[i].amount
                      /\ \A j \in 1..(i - 1) : offered[j].index # offered[i].index
                      /\ \E w \in DOMAIN wants : /\ wants[w].name = Name[item(i)]
                                                 /\ wants[w].amount >= offered[i].amount
  BY DEF CanSell, ItemOf
<1>5. \A i \in 1..k : offered[i].index \in Slot
  BY DEF SlotRequest
<1>6. \A i \in 1..k : item(i) \in Item
  BY <1>1, <1>4, <1>5, SlotsAre DEF ItemOf
<1>7. ASSUME NEW i \in 1..k
      PROVE  /\ WantOf(st, s, b, offered, i) \in DOMAIN wants
             /\ wants[WantOf(st, s, b, offered, i)].name = Name[item(i)]
             /\ wants[WantOf(st, s, b, offered, i)].amount >= offered[i].amount
  <2> DEFINE there == {w \in DOMAIN wants : wants[w].name = Name[item(i)]}
  <2>1. PICK w \in DOMAIN wants : wants[w].name = Name[item(i)] /\ wants[w].amount >= offered[i].amount
    BY <1>4
  <2>2. WantOf(st, s, b, offered, i) = Min(there)
    BY DEF WantOf, WantFor
  <2>3. there \in SUBSET Nat /\ there # {}
    BY <1>2, <2>1
  <2>4. Min(there) \in there
    BY <2>3, MinIs
  <2>5. Min(there) = w
    BY <1>2, <2>1, <2>4
  <2> QED BY <2>1, <2>2, <2>5
<1>8. ASSUME NEW i \in 1..k, NEW j \in 1..k, i # j
      PROVE  offered[i].index # offered[j].index /\ WantOf(st, s, b, offered, i) # WantOf(st, s, b, offered, j)
  <2>1. offered[i].index # offered[j].index
    <3>1. CASE i < j
      BY <1>4, <3>1
    <3>2. CASE j < i
      BY <1>4, <3>2
    <3> QED BY <1>8, <3>1, <3>2
  <2>2. item(i) # item(j)
    BY <1>1, <1>4, <1>5, <2>1, SlotsAre DEF ItemOf
  <2>3. Name[item(i)] # Name[item(j)]
    BY <1>4, <1>6, <2>2, CardedAssumption
  <2> QED BY <1>7, <2>1, <2>3
<1> HIDE DEF item
<1> QED BY <1>3, <1>4, <1>6, <1>7, <1>8 DEF item

\* What the buyer is to pay.
LEMMA PaySum ==
    ASSUME NEW st, NEW p, NEW b, NEW k \in Nat, NEW offered, DOMAIN offered = 1..k,
           \A i \in 1..k : Owed(st, p, b, offered)[i] \in Int
    PROVE  Pay(st, p, b, offered) = SumOver(Owed(st, p, b, offered), DOMAIN offered)
<1>0. IsFiniteSet(DOMAIN offered)
  BY PlacesFinite
<1> DEFINE F == [i \in DOMAIN offered |-> offered[i].amount * st[b].wants[WantFor(st[b].wants, Name[st[p].inv[offered[i].index].item])].price]
           Runs(run) == run = [s \in SUBSET DOMAIN offered |->
                                 IF s = {} THEN 0 ELSE offered[One(s)].amount * st[b].wants[WantFor(st[b].wants, Name[st[p].inv[offered[One(s)].index].item])].price + run[s \ {One(s)}]]
           run == CHOOSE run : Runs(run)
<1>1. \A i \in DOMAIN offered : F[i] \in Int
  BY DEF Owed, WantOf, ItemOf
<1>2. \A r : IsSumRun(r, F, DOMAIN offered) <=> Runs(r)
  <2> SUFFICES ASSUME NEW r
               PROVE  [s \in SUBSET DOMAIN offered |-> IF s = {} THEN 0 ELSE F[One(s)] + r[s \ {One(s)}]]
                      = [s \in SUBSET DOMAIN offered |-> IF s = {} THEN 0 ELSE offered[One(s)].amount * st[b].wants[WantFor(st[b].wants, Name[st[p].inv[offered[One(s)].index].item])].price + r[s \ {One(s)}]]
    BY DEF IsSumRun
  <2>1. \A s \in SUBSET DOMAIN offered : s # {} => One(s) \in DOMAIN offered
    BY DEF One
  <2> QED BY <2>1
<1>3. \E r : Runs(r)
  <2>1. \E r : IsSumRun(r, F, DOMAIN offered)
    <3> HIDE DEF F, Runs, run
    <3> QED BY <1>1, <1>0, SumRunExists
  <2> HIDE DEF F, Runs, run
  <2> QED BY <1>2, <2>1
<1>4. Runs(run)
  <2> HIDE DEF Runs
  <2> QED BY <1>3
<1>5. Pay(st, p, b, offered) = run[DOMAIN offered]
  BY Zenon DEF Pay, MapThenSumSet, MapThenFoldSet, One
<1>6. IsSumRun(run, F, DOMAIN offered)
  <2> HIDE DEF Runs, run, F
  <2> QED BY <1>2, <1>4
<1>7. run[DOMAIN offered] = SumOver(F, DOMAIN offered)
  <2> HIDE DEF Runs, run, F
  <2> DEFINE D == DOMAIN offered
  <2>1. IsFiniteSet(D) /\ (\A i \in D : F[i] \in Int) /\ IsSumRun(run, F, D)
    BY <1>0, <1>1, <1>6
  <2> HIDE DEF D
  <2>2. \A U \in SUBSET D : run[U] = SumOver(F, U)
    BY <2>1, SumOfPart
  <2>3. run[D] = SumOver(F, D)
    BY <2>2
  <2> QED BY <2>3 DEF D
<1>8. F = Owed(st, p, b, offered)
  BY DEF Owed, WantOf, ItemOf
<1> QED BY <1>5, <1>7, <1>8

LEMMA PayIs ==
    ASSUME NEW st \in Sessions, NEW s \in Player, NEW b \in Player, NEW k \in Nat,
           NEW offered \in [1..k -> SlotRequest], CanSell(st, s, b, offered)
    PROVE  /\ \A i \in 1..k : Owed(st, s, b, offered)[i] \in Nat
           /\ SumOver(Owed(st, s, b, offered), 1..k) <= st[b].limit
<1>1. ASSUME NEW i \in 1..k PROVE Owed(st, s, b, offered)[i] \in Nat
  <2> DEFINE w == WantOf(st, s, b, offered, i)
  <2>1. w \in DOMAIN st[b].wants
    BY OfferIs
  <2>2. st[b].wants \in Seq(WantsEntry)
    BY DEF Sessions, SessionData, Wants
  <2> HIDE DEF w
  <2>3. st[b].wants[w] \in WantsEntry /\ offered[i] \in SlotRequest
    BY <2>1, <2>2
  <2>4. st[b].wants[w].price \in Prices /\ offered[i].amount \in Nat
    BY <2>3 DEF WantsEntry, SlotRequest, Amounts
  <2>5. offered[i].amount * st[b].wants[w].price \in Nat
    BY <2>4, PricesAre
  <2> QED BY <2>5 DEF Owed, w
<1>2. Pay(st, s, b, offered) <= st[b].limit /\ DOMAIN offered = 1..k
  BY DEF CanSell
<1>3. Pay(st, s, b, offered) = SumOver(Owed(st, s, b, offered), DOMAIN offered)
  <2>1. \A i \in 1..k : Owed(st, s, b, offered)[i] \in Int
    BY <1>1
  <2> QED BY <1>2, <2>1, PaySum
<1> QED BY <1>1, <1>2, <1>3

\* One entry of the offer.
SellOne(acc, e) ==
    LET item == acc.from[e.index].item
        w == WantFor(acc.wants, Name[item])
        z == e.amount * acc.wants[w].price
    IN  [to |-> PcAddItem(acc.to, item, e.amount),
         from |-> PcDelItem(acc.from, e.index, e.amount),
         wants |-> [acc.wants EXCEPT ![w].amount = @ - e.amount],
         payer |-> PcPayZeny(acc.payer, z), payee |-> PcGetZeny(acc.payee, z),
         limit |-> acc.limit - z]

Bargains == [to : Slots(Slot), from : Slots(Slot), wants : Wants,
             payer : 0..MaxZeny, payee : 0..MaxZeny, limit : 0..MaxZeny]

\* What there is once the entries T of the offer are sold: the others' slots
\* and wants are as before, the limit holds what is owed for them, and what it
\* lost was paid.
Untouched(st, p, offered, T, from) ==
    \A i \in DOMAIN offered \ T : from[offered[i].index] = st[p].inv[offered[i].index]
SameWants(st, b, wants) ==
    /\ DOMAIN wants = DOMAIN st[b].wants
    /\ \A w \in DOMAIN wants : wants[w].name = st[b].wants[w].name /\ wants[w].price = st[b].wants[w].price
Wanted(st, p, b, offered, T, wants) ==
    \A i \in DOMAIN offered \ T :
        wants[WantOf(st, p, b, offered, i)].amount = st[b].wants[WantOf(st, p, b, offered, i)].amount
Settled(st, p, b, acc) ==
    /\ st[b].limit - acc.limit \in Nat
    /\ acc.payer = st[b].zeny - (st[b].limit - acc.limit)
    /\ acc.payee = PcGetZeny(st[p].zeny, st[b].limit - acc.limit)
SoldUpTo(st, p, b, offered, T, acc) ==
    /\ acc \in Bargains
    /\ Untouched(st, p, offered, T, acc.from)
    /\ SameWants(st, b, acc.wants) /\ Wanted(st, p, b, offered, T, acc.wants)
    /\ acc.limit >= SumOver(Owed(st, p, b, offered), DOMAIN offered \ T)
    /\ Settled(st, p, b, acc)

\* A want is found by its name, whatever is still wanted of it.
LEMMA WantForIs ==
    ASSUME NEW st, NEW b, NEW wants, SameWants(st, b, wants), NEW name
    PROVE  WantFor(wants, name) = WantFor(st[b].wants, name)
<1>1. {i \in DOMAIN wants : wants[i].name = name} = {i \in DOMAIN st[b].wants : st[b].wants[i].name = name}
  BY DEF SameWants
<1> QED BY <1>1 DEF WantFor

LEMMA WantLess ==
    ASSUME NEW wants \in Wants, NEW w \in DOMAIN wants, NEW n \in Nat, n <= wants[w].amount
    PROVE  /\ [wants EXCEPT ![w].amount = @ - n] \in Wants
           /\ DOMAIN [wants EXCEPT ![w].amount = @ - n] = DOMAIN wants
           /\ \A x \in DOMAIN wants :
                /\ [wants EXCEPT ![w].amount = @ - n][x].name = wants[x].name
                /\ [wants EXCEPT ![w].amount = @ - n][x].price = wants[x].price
                /\ x # w => [wants EXCEPT ![w].amount = @ - n][x] = wants[x]
<1> DEFINE e == [wants[w] EXCEPT !.amount = wants[w].amount - n]
           new == [wants EXCEPT ![w] = e]
<1>1. wants \in Seq(WantsEntry) /\ \A i, j \in DOMAIN wants : wants[i].name = wants[j].name => i = j
  BY DEF Wants
<1>2. wants[w] \in WantsEntry
  BY <1>1
<1>3. wants[w].amount - n \in 0..MaxAmount
  BY <1>2, LimitsAssumption DEF WantsEntry
<1>4. e \in WantsEntry /\ e.name = wants[w].name /\ e.price = wants[w].price
  BY <1>2, <1>3 DEF WantsEntry
<1> HIDE DEF e
<1>5. /\ new \in Seq(WantsEntry) /\ DOMAIN new = DOMAIN wants
      /\ \A x \in DOMAIN wants : /\ new[x].name = wants[x].name /\ new[x].price = wants[x].price
                                 /\ x # w => new[x] = wants[x]
  BY <1>1, <1>4
<1>6. new = [wants EXCEPT ![w].amount = @ - n]
  BY DEF e
<1> HIDE DEF new
<1>7. new \in Wants
  BY <1>1, <1>5 DEF Wants
<1> QED BY <1>5, <1>6, <1>7

LEMMA GetTwice ==
    ASSUME NEW zeny \in 0..MaxZeny, NEW m \in Nat, NEW n \in Nat
    PROVE  PcGetZeny(PcGetZeny(zeny, m), n) = PcGetZeny(zeny, m + n)
BY LimitsAssumption DEF PcGetZeny

LEMMA SellOneIs ==
    ASSUME NEW st \in Sessions, NEW p \in Player, NEW b \in Player, NEW k \in Nat,
           NEW offered \in [1..k -> SlotRequest], CanSell(st, p, b, offered), st[b].limit <= st[b].zeny,
           NEW T \in SUBSET (1..k), NEW i \in (1..k) \ T,
           NEW acc, SoldUpTo(st, p, b, offered, T, acc)
    PROVE  SoldUpTo(st, p, b, offered, T \union {i}, SellOne(acc, offered[i]))
<1> DEFINE item == ItemOf(st, p, offered, i)
           w == WantOf(st, p, b, offered, i)
           n == offered[i].amount
           s == offered[i].index
           z == Owed(st, p, b, offered)[i]
           to == PcAddItem(acc.to, item, n)
           from == PcDelItem(acc.from, s, n)
           wants == [acc.wants EXCEPT ![w].amount = @ - n]
           payer == PcPayZeny(acc.payer, z)
           payee == PcGetZeny(acc.payee, z)
           rest == SumOver(Owed(st, p, b, offered), (1..k) \ (T \union {i}))
<1>1. /\ acc.to \in Slots(Slot) /\ acc.from \in Slots(Slot) /\ acc.wants \in Wants
      /\ acc.payer \in 0..MaxZeny /\ acc.payee \in 0..MaxZeny /\ acc.limit \in 0..MaxZeny
  BY DEF SoldUpTo, Bargains
<1>2. /\ DOMAIN offered = 1..k /\ s \in Slot /\ n \in Nat
  <2>1. offered[i] \in SlotRequest /\ DOMAIN offered = 1..k
    OBVIOUS
  <2> QED BY <2>1 DEF SlotRequest, Amounts
<1>3. acc.from[s] = st[p].inv[s]
  BY <1>2 DEF SoldUpTo, Untouched
<1>4. acc.from[s].item = item
  BY <1>3 DEF ItemOf
<1>5. SameWants(st, b, acc.wants) /\ Wanted(st, p, b, offered, T, acc.wants)
  BY DEF SoldUpTo
<1>6. WantFor(acc.wants, Name[acc.from[s].item]) = w
  <2>1. WantFor(acc.wants, Name[item]) = WantFor(st[b].wants, Name[item])
    BY <1>5, WantForIs
  <2> QED BY <1>4, <2>1 DEF WantOf
<1>7. /\ item \in Item /\ w \in DOMAIN acc.wants /\ acc.wants[w].amount >= n
      /\ acc.wants[w].price = st[b].wants[w].price
  <2>1. item \in Item /\ w \in DOMAIN st[b].wants /\ st[b].wants[w].amount >= n
    BY OfferIs
  <2>2. acc.wants[w].amount = st[b].wants[w].amount
    BY <1>2, <1>5 DEF Wanted
  <2> QED BY <1>5, <2>1, <2>2 DEF SameWants
<1>8. n * acc.wants[w].price = z
  BY <1>2, <1>7 DEF Owed
<1>9. SellOne(acc, offered[i]) = [to |-> to, from |-> from, wants |-> wants,
                                payer |-> payer, payee |-> payee, limit |-> acc.limit - z]
  BY <1>4, <1>6, <1>8 DEF SellOne
<1>10. z \in Nat /\ rest \in Nat /\ acc.limit >= z + rest
  <2> DEFINE F == Owed(st, p, b, offered)
             R == (1..k) \ T
  <2>1. (\A j \in R : F[j] \in Nat /\ F[j] \in Int) /\ IsFiniteSet(R)
    BY PayIs, PlacesFinite, FS_Subset
  <2>2. (1..k) \ (T \union {i}) = R \ {i} /\ i \in R /\ IsFiniteSet(R \ {i})
    BY <2>1, FS_Subset
  <2>3. acc.limit >= SumOver(F, R)
    BY <1>2 DEF SoldUpTo
  <2> HIDE DEF F, R
  <2>4. SumOver(F, R) = F[i] + SumOver(F, R \ {i})
    BY <2>1, <2>2, SumOut
  <2>5. SumOver(F, R \ {i}) \in Nat
    <3>1. \A j \in R \ {i} : F[j] \in Nat
      BY <2>1
    <3> QED BY <2>2, <3>1, SumNat
  <2>6. F[i] \in Nat
    BY <2>1, <2>2
  <2> QED BY <2>2, <2>3, <2>4, <2>5, <2>6 DEF F
<1>11. acc.limit - z \in 0..MaxZeny /\ acc.limit - z >= rest
  BY <1>1, <1>10, LimitsAssumption
<1>12. /\ to \in Slots(Slot) /\ from \in Slots(Slot) /\ wants \in Wants
       /\ payer \in 0..MaxZeny /\ payee \in 0..MaxZeny
  <2>1. to \in Slots(Slot)
    BY <1>1, <1>2, <1>7, PcAddItemIs, SlotAssumption
  <2>2. from \in Slots(Slot)
    BY <1>1, <1>2, PcDelItemIs
  <2>3. wants \in Wants
    BY <1>1, <1>2, <1>7, WantLess
  <2>4. payer \in 0..MaxZeny /\ payee \in 0..MaxZeny
    BY <1>1, <1>10, PurseIs
  <2> QED BY <2>1, <2>2, <2>3, <2>4
<1>13. Untouched(st, p, offered, T \union {i}, from)
  <2> SUFFICES ASSUME NEW j \in (1..k) \ (T \union {i})
               PROVE  from[offered[j].index] = st[p].inv[offered[j].index]
    BY <1>2 DEF Untouched
  <2>1. offered[j].index # s /\ offered[j].index \in Slot
    BY OfferIs DEF SlotRequest
  <2>2. acc.from[offered[j].index] = st[p].inv[offered[j].index]
    BY <1>2 DEF SoldUpTo, Untouched
  <2>3. acc.from \in [Slot -> Stack]
    BY <1>1, SlotsAre
  <2> QED BY <2>1, <2>2, <2>3 DEF PcDelItem
<1>14. SameWants(st, b, wants)
  <2>1. /\ DOMAIN wants = DOMAIN acc.wants
        /\ \A x \in DOMAIN acc.wants : wants[x].name = acc.wants[x].name /\ wants[x].price = acc.wants[x].price
    BY <1>1, <1>2, <1>7, WantLess
  <2> HIDE DEF wants
  <2> QED BY <1>5, <2>1 DEF SameWants
<1>15. Wanted(st, p, b, offered, T \union {i}, wants)
  <2> SUFFICES ASSUME NEW j \in (1..k) \ (T \union {i})
               PROVE  wants[WantOf(st, p, b, offered, j)].amount = st[b].wants[WantOf(st, p, b, offered, j)].amount
    BY <1>2 DEF Wanted
  <2> DEFINE v == WantOf(st, p, b, offered, j)
  <2>1. v # w /\ v \in DOMAIN st[b].wants
    BY OfferIs
  <2>2. v \in DOMAIN acc.wants /\ acc.wants[v].amount = st[b].wants[v].amount
    BY <1>2, <1>5, <2>1 DEF SameWants, Wanted
  <2> HIDE DEF v
  <2>3. wants[v] = acc.wants[v]
    BY <1>1, <1>2, <1>7, <2>1, <2>2, WantLess
  <2> QED BY <2>2, <2>3 DEF v
<1>16. /\ st[b].limit - (acc.limit - z) \in Nat
       /\ payer = st[b].zeny - (st[b].limit - (acc.limit - z))
       /\ payee = PcGetZeny(st[p].zeny, st[b].limit - (acc.limit - z))
  <2> DEFINE paid == st[b].limit - acc.limit
  <2>1. /\ st[b].limit \in 0..MaxZeny /\ st[b].zeny \in 0..MaxZeny /\ st[p].zeny \in 0..MaxZeny
    BY DEF Sessions, SessionData
  <2>2. paid \in Nat /\ acc.payer = st[b].zeny - paid /\ acc.payee = PcGetZeny(st[p].zeny, paid)
    BY DEF SoldUpTo, Settled
  <2>3. st[b].limit - (acc.limit - z) = paid + z
    BY <1>1, <1>10, <2>1
  <2> HIDE DEF z, rest
  <2>4. acc.payer >= z
    <3>1. PICK lim \in Int : lim = st[b].limit
      BY <2>1
    <3>2. PICK has \in Int : has = st[b].zeny
      BY <2>1
    <3>3. PICK left \in Int : left = acc.limit
      BY <1>1
    <3>4. lim <= has /\ acc.payer = has - (lim - left) /\ left >= z + rest
      BY <1>10, <2>2, <3>1, <3>2, <3>3 DEF paid
    <3> QED BY <1>10, <3>4
  <2>5. payer = st[b].zeny - (paid + z)
    BY <1>1, <1>10, <2>1, <2>2, <2>4 DEF PcPayZeny
  <2> HIDE DEF paid
  <2>6. payee = PcGetZeny(st[p].zeny, paid + z)
    <3>1. paid \in Nat /\ z \in Nat /\ st[p].zeny \in 0..MaxZeny
      BY <1>10, <2>1, <2>2
    <3>2. PcGetZeny(PcGetZeny(st[p].zeny, paid), z) = PcGetZeny(st[p].zeny, paid + z)
      BY <3>1, GetTwice
    <3> QED BY <2>2, <3>2
  <2> QED BY <1>10, <2>2, <2>3, <2>5, <2>6
<1> HIDE DEF to, from, wants, payer, payee, z, rest
<1>17. PICK new : new = SellOne(acc, offered[i])
  OBVIOUS
<1>18. /\ new.to = to /\ new.from = from /\ new.wants = wants /\ new.payer = payer /\ new.payee = payee
       /\ new.limit = acc.limit - z
  BY <1>9, <1>17
<1>19. new \in Bargains
  BY <1>9, <1>11, <1>12, <1>17 DEF Bargains
<1>20. new.limit >= SumOver(Owed(st, p, b, offered), DOMAIN offered \ (T \union {i}))
  BY <1>2, <1>11, <1>18 DEF rest
<1>21. Settled(st, p, b, new)
  BY <1>16, <1>18 DEF Settled
<1>22. SoldUpTo(st, p, b, offered, T \union {i}, new)
  BY <1>13, <1>14, <1>15, <1>18, <1>19, <1>20, <1>21 DEF SoldUpTo
<1> QED BY <1>17, <1>22

LEMMA BargainIs ==
    ASSUME NEW st \in Sessions, NEW p \in Player, NEW b \in Player, NEW k \in Nat,
           NEW list \in [1..k -> SlotRequest], CanSell(st, p, b, list), st[b].limit <= st[b].zeny
    PROVE  SoldUpTo(st, p, b, list, 1..k, Bargain(st, p, b, list))
<1> DEFINE D == 1..k
           base == [to |-> st[b].inv, from |-> st[p].inv, wants |-> st[b].wants,
                    payer |-> st[b].zeny, payee |-> st[p].zeny, limit |-> st[b].limit]
           IsFold(run) == run = [s \in SUBSET DOMAIN list |-> IF s = {} THEN base ELSE
                                    SellOne(run[s \ {Max(s)}], list[Max(s)])]
           run == CHOOSE x : IsFold(x)
           F == [ai \in Bargains \X D |-> SellOne(ai[1], list[ai[2]])]
           N == [s \in SUBSET D |-> {acc \in Bargains : SoldUpTo(st, p, b, list, s, acc)}]
<1>1. Bargain(st, p, b, list) = run[DOMAIN list]
  BY Zenon DEF Bargain, FoldLeft, MapThenFoldSet, SellOne
<1>2. base \in Bargains /\ SoldUpTo(st, p, b, list, {}, base)
  <2>1. base \in Bargains
    BY DEF Bargains, Sessions, SessionData
  <2>2. Settled(st, p, b, base)
    <3>1. st[b].limit \in 0..MaxZeny /\ st[b].zeny \in 0..MaxZeny /\ st[p].zeny \in 0..MaxZeny
      BY DEF Sessions, SessionData
    <3> QED BY <3>1, LimitsAssumption DEF Settled, PcGetZeny
  <2>3. st[b].limit >= SumOver(Owed(st, p, b, list), DOMAIN list \ {})
    <3>1. SumOver(Owed(st, p, b, list), 1..k) <= st[b].limit
      BY PayIs
    <3>2. DOMAIN list \ {} = 1..k
      OBVIOUS
    <3>3. SumOver(Owed(st, p, b, list), 1..k) \in Nat
      BY PayIs, PlacesFinite, SumNat
    <3>4. st[b].limit \in 0..MaxZeny
      BY DEF Sessions, SessionData
    <3> HIDE DEF D
    <3> QED BY <3>1, <3>2, <3>3, <3>4
  <2> QED BY <2>1, <2>2, <2>3 DEF SoldUpTo, Untouched, SameWants, Wanted
<1> HIDE DEF base
<1>3. D \in SUBSET Nat /\ IsFiniteSet(D) /\ DOMAIN list = D
  BY PlacesFinite
<1>4. \A s \in SUBSET D : s # {} => Max(s) \in s
  BY <1>3, LatestChooses
<1>5. FoldStep(F, N, Bargains, D)
  <2>1. ASSUME NEW s \in SUBSET D, s # {}, NEW acc \in N[s \ {Max(s)}] PROVE F[<<acc, Max(s)>>] \in N[s]
    <3>1. PICK i \in D : i = Max(s) /\ i \in s
      BY <1>4, <2>1
    <3>2. PICK T \in SUBSET D : T = s \ {i}
      OBVIOUS
    <3>3. acc \in Bargains /\ SoldUpTo(st, p, b, list, T, acc)
      BY <2>1, <3>1, <3>2
    <3>4. SoldUpTo(st, p, b, list, T \union {i}, SellOne(acc, list[i]))
      BY <3>2, <3>3, SellOneIs
    <3>5. T \union {i} = s
      BY <3>1, <3>2
    <3>6. F[<<acc, i>>] = SellOne(acc, list[i])
      BY <3>3
    <3>7. SoldUpTo(st, p, b, list, s, F[<<acc, i>>])
      BY <3>4, <3>5, <3>6
    <3> HIDE DEF F
    <3> QED BY <3>1, <3>7 DEF SoldUpTo
  <2>2. \A s \in SUBSET D : N[s] \subseteq Bargains
    OBVIOUS
  <2> HIDE DEF F, N
  <2> QED BY <2>1, <2>2 DEF FoldStep
<1>6. base \in N[{}]
  BY <1>2
<1>7. \A s \in SUBSET D : s # {} => Max(s) \in D
  BY <1>4
<1>8. \A acc \in Bargains, i \in D : F[<<acc, i>>] = SellOne(acc, list[i])
  OBVIOUS
<1>9. \E r : IsFold(r)
  <2> HIDE DEF F, N, D
  <2>1. PICK r : /\ r \in [SUBSET D -> Bargains] /\ FoldRun(r, F, Bargains, base, D)
    BY <1>3, <1>5, <1>6, FoldRunExists
  <2>2. ASSUME NEW s \in SUBSET D
        PROVE  r[s] = IF s = {} THEN base ELSE SellOne(r[s \ {Max(s)}], list[Max(s)])
    BY <1>7, <1>8, <2>1 DEF FoldRun
  <2>3. IsFold(r)
    BY <1>3, <2>1, <2>2
  <2> QED BY <2>3
<1>10. IsFold(run)
  <2> HIDE DEF IsFold
  <2> QED BY <1>9
<1>11. FoldRun(run, F, Bargains, base, D)
  <2> HIDE DEF F, N, D, run
  <2> QED BY <1>3, <1>7, <1>8, <1>10 DEF FoldRun
<1>12. run[D] \in N[D]
  <2> HIDE DEF F, N, run, D
  <2> QED BY <1>3, <1>5, <1>6, <1>11, FoldRunIn
<1>13. SoldUpTo(st, p, b, list, D, run[D])
  BY <1>12
<1> QED BY <1>1, <1>3, <1>13

LEMMA LimitedIs ==
    ASSUME NEW st \in Sessions, NEW b \in Player
    PROVE  Limited(st, b) \in Sessions /\ Limited(st, b)[b].limit <= Limited(st, b)[b].zeny
<1> DEFINE r == [st[b] EXCEPT !.limit = st[b].zeny]
<1>1. st[b] \in SessionData /\ st[b].zeny \in 0..MaxZeny /\ st[b].limit \in 0..MaxZeny
  BY DEF Sessions, SessionData
<1>2. CASE st[b].zeny < st[b].limit
  <2>1. Limited(st, b) = [st EXCEPT ![b] = r]
    BY <1>2 DEF Limited
  <2>2. r \in SessionData /\ r.limit = st[b].zeny /\ r.zeny = st[b].zeny
    BY <1>1 DEF SessionData
  <2> HIDE DEF r
  <2>3. Limited(st, b) \in Sessions
    BY <2>1, <2>2, OneIsChanged
  <2>4. Limited(st, b)[b] = r
    BY <2>1 DEF Sessions
  <2> QED BY <1>1, <2>2, <2>3, <2>4
<1>3. CASE ~(st[b].zeny < st[b].limit)
  BY <1>1, <1>3 DEF Limited
<1> QED BY <1>2, <1>3

LEMMA SoldToIs ==
    ASSUME NEW st \in Sessions, NEW p \in Player, NEW b \in Player, NEW k \in Nat,
           NEW list \in [1..k -> SlotRequest], CanSell(st, p, b, list), st[b].limit <= st[b].zeny
    PROVE  SoldTo(st, p, b, list) \in Sessions
<1> DEFINE sold == Bargain(st, p, b, list)
           f1 == [st EXCEPT ![p] = [st[p] EXCEPT !.inv = sold.from]]
           f2 == [f1 EXCEPT ![p] = [f1[p] EXCEPT !.zeny = sold.payee]]
           f3 == [f2 EXCEPT ![b] = [f2[b] EXCEPT !.inv = sold.to]]
           f4 == [f3 EXCEPT ![b] = [f3[b] EXCEPT !.zeny = sold.payer]]
           f5 == [f4 EXCEPT ![b] = [f4[b] EXCEPT !.wants = sold.wants]]
           f6 == [f5 EXCEPT ![b] = [f5[b] EXCEPT !.limit = sold.limit]]
<1>1. SoldTo(st, p, b, list) = f6
  BY DEF SoldTo
<1>2. sold \in Bargains
  BY BargainIs DEF SoldUpTo
<1>3. /\ sold.to \in Slots(Slot) /\ sold.from \in Slots(Slot) /\ sold.wants \in Wants
      /\ sold.payer \in 0..MaxZeny /\ sold.payee \in 0..MaxZeny /\ sold.limit \in 0..MaxZeny
  BY <1>2 DEF Bargains
<1> HIDE DEF sold
<1>4. f1 \in Sessions
  <2>1. st[p] \in SessionData
    BY DEF Sessions
  <2>2. [st[p] EXCEPT !.inv = sold.from] \in SessionData
    BY <1>3, <2>1 DEF SessionData
  <2> QED BY <2>2, OneIsChanged
<1> HIDE DEF f1
<1>5. f2 \in Sessions
  <2>1. f1[p] \in SessionData
    BY <1>4 DEF Sessions
  <2>2. [f1[p] EXCEPT !.zeny = sold.payee] \in SessionData
    BY <1>3, <2>1 DEF SessionData
  <2> QED BY <1>4, <2>2, OneIsChanged
<1> HIDE DEF f2
<1>6. f3 \in Sessions
  <2>1. f2[b] \in SessionData
    BY <1>5 DEF Sessions
  <2>2. [f2[b] EXCEPT !.inv = sold.to] \in SessionData
    BY <1>3, <2>1 DEF SessionData
  <2> QED BY <1>5, <2>2, OneIsChanged
<1> HIDE DEF f3
<1>7. f4 \in Sessions
  <2>1. f3[b] \in SessionData
    BY <1>6 DEF Sessions
  <2>2. [f3[b] EXCEPT !.zeny = sold.payer] \in SessionData
    BY <1>3, <2>1 DEF SessionData
  <2> QED BY <1>6, <2>2, OneIsChanged
<1> HIDE DEF f4
<1>8. f5 \in Sessions
  <2>1. f4[b] \in SessionData
    BY <1>7 DEF Sessions
  <2>2. [f4[b] EXCEPT !.wants = sold.wants] \in SessionData
    BY <1>3, <2>1 DEF SessionData
  <2> QED BY <1>7, <2>2, OneIsChanged
<1> HIDE DEF f5
<1>9. f6 \in Sessions
  <2>1. f5[b] \in SessionData
    BY <1>8 DEF Sessions
  <2>2. [f5[b] EXCEPT !.limit = sold.limit] \in SessionData
    BY <1>3, <2>1 DEF SessionData
  <2> QED BY <1>8, <2>2, OneIsChanged
<1> QED BY <1>1, <1>9

LEMMA AfterSellingIs ==
    ASSUME NEW st \in Sessions, NEW p \in Player, NEW b \in Player, NEW k \in Nat,
           NEW list \in [1..k -> SlotRequest], CanSell(st, p, b, list), st[b].limit <= st[b].zeny
    PROVE  AfterSelling(st, p, b, list) \in Sessions
<1> DEFINE sold == SoldTo(st, p, b, list)
           shut == [sold EXCEPT ![b] = Closed(sold[b])]
<1>1. sold \in Sessions
  BY SoldToIs
<1>2. AfterSelling(st, p, b, list) = sold \/ AfterSelling(st, p, b, list) = Quit(shut, b)
  BY DEF AfterSelling
<1> HIDE DEF sold
<1>3. shut \in Sessions
  <2>1. sold[b] \in SessionData /\ 0 \in 0..MaxZeny /\ << >> \in Wants
    BY <1>1, NothingIs, LimitsAssumption DEF Sessions
  <2>2. Closed(sold[b]) \in SessionData
    BY <2>1 DEF SessionData, Closed
  <2> QED BY <1>1, <2>2, OneIsChanged
<1> HIDE DEF shut
<1> QED BY <1>1, <1>2, <1>3, LeftMapIs

LEMMA BuyingStoreTradeTyped ==
    ASSUME WellTyped, NEW p \in Player, NEW b \in Player, NEW list \in SlotRequests,
           BuyingStoreTrade(p, b, list) \/ BuyingStoreTradeRefused(p, b)
    PROVE  WellTyped'
<1>1. sd \in Sessions
  BY SdIs
<1>2. Limited(sd, b) \in Sessions /\ Limited(sd, b)[b].limit <= Limited(sd, b)[b].zeny
  BY <1>1, LimitedIs
<1>3. PICK k \in 1..MaxGoods : list \in [1..k -> SlotRequest]
  BY DEF SlotRequests, UpTo, SlotRequest
<1>4. k \in Nat
  OBVIOUS
<1>5. /\ \/ sd' = Limited(sd, b)
         \/ CanSell(Limited(sd, b), p, b, list) /\ sd' = AfterSelling(Limited(sd, b), p, b, list)
      /\ UNCHANGED <<World, Rest>>
  BY DEF BuyingStoreTrade, BuyingStoreTradeRefused
<1>6. sd' \in Sessions
  BY <1>2, <1>3, <1>4, <1>5, AfterSellingIs
<1> QED BY <1>5, <1>6, TypedSd

LEMMA BuyingStoreOpenTyped ==
    ASSUME WellTyped, NEW p \in Player, NEW b \in Player, BuyingStoreOpen(p, b)
    PROVE  WellTyped'
<1> DEFINE store == [buyer |-> b, id |-> sd[b].buyerId, wants |-> sd[b].wants]
<1>1. sd[b] \in SessionData /\ shown \in [Player -> ShownData] /\ shown[p] \in ShownData
  BY SdIs DEF WellTyped
<1>2. store \in [buyer : Player \union {NoPlayer}, id : Nat, wants : Wants]
  BY <1>1 DEF SessionData
<1>3. shown' = [shown EXCEPT ![p] = [shown[p] EXCEPT !.store = store]]
  BY DEF BuyingStoreOpen
<1> HIDE DEF store
<1>4. [shown[p] EXCEPT !.store = store] \in ShownData
  BY <1>1, <1>2 DEF ShownData
<1>5. shown' \in [Player -> ShownData]
  BY <1>1, <1>3, <1>4
<1>6. UNCHANGED <<sd, World, does, nextId, strayed>>
  BY DEF BuyingStoreOpen
<1> QED BY <1>5, <1>6 DEF WellTyped, World

LEMMA BuyingStoreCreateTyped ==
    ASSUME WellTyped, NEW p \in Player, NEW limit \in 1..MaxZeny, NEW list \in WantsLists,
           BuyingStoreCreate(p, limit, list)
    PROVE  WellTyped'
<1> DEFINE r == [sd[p] EXCEPT !.autotrade = TRUE, !.buying = TRUE,
                              !.buyerId = nextId.store, !.limit = limit, !.wants = list]
<1>1. sd[p] \in SessionData /\ sd \in Sessions /\ nextId.store \in Nat
  BY SdIs DEF WellTyped
<1>2. list \in Wants
  <2>1. PICK k \in 1..MaxGoods :
          list \in [1..k -> [name : {Name[i] : i \in Item}, amount : Amounts, price : Prices]]
    BY DEF WantsLists, UpTo
  <2>2. \A e \in [name : {Name[i] : i \in Item}, amount : Amounts, price : Prices] : e \in WantsEntry
    BY DEF WantsEntry, Amounts
  <2>3. list \in Seq(WantsEntry)
    BY <2>1, <2>2
  <2>4. \A i \in 1..k : \A j \in 1..(i - 1) : list[j].name # list[i].name
    BY <2>1 DEF BuyingStoreCreate, CanCreate
  <2>5. ASSUME NEW i \in 1..k, NEW j \in 1..k, i # j PROVE list[i].name # list[j].name
    <3>1. CASE i < j
      BY <2>4, <3>1
    <3>2. CASE j < i
      BY <2>4, <3>2
    <3> QED BY <2>5, <3>1, <3>2
  <2> QED BY <2>1, <2>3, <2>5 DEF Wants
<1>3. Changes(p, r)
  BY DEF BuyingStoreCreate
<1>4. limit \in 0..MaxZeny
  OBVIOUS
<1>5. r \in SessionData
  BY <1>1, <1>2, <1>4 DEF SessionData
<1> HIDE DEF r
<1>6. sd' \in Sessions
  BY <1>1, <1>3, <1>5, OneIsChanged DEF Changes
<1>7. nextId' \in [shop : Nat, store : Nat] /\ UNCHANGED <<World, does, shown, strayed>>
  BY DEF BuyingStoreCreate, WellTyped
<1> QED BY <1>6, <1>7 DEF WellTyped, World

-----------------------------------------------------------------------------
(* All of them. *)

LEMMA InitTyped ==
    ASSUME Init
    PROVE  WellTyped
<1>1. PICK s \in Setups : InitWith(s)
  BY DEF Init
<1>2. /\ \A p \in Player : s.inv[p] \in Slots(Slot) /\ s.cart[p] \in Slots(CartSlot) /\ s.zeny[p] \in 0..MaxZeny
      /\ s.does \in [Player -> SUBSET Activity] /\ s.ground \in [Item -> Nat]
      /\ s.nextId \in [shop : Nat, store : Nat]
  BY SetupsAssumption
<1>3. /\ sd = [p \in Player |-> FreshSd(s.inv[p], s.cart[p], [i \in Item |-> 0], s.zeny[p])]
      /\ does = s.does /\ ground = s.ground /\ purse = 0 /\ nextId = s.nextId
      /\ shown = [p \in Player |-> ShownNothing] /\ strayed = {}
  BY <1>1 DEF InitWith
<1>4. [i \in Item |-> 0] \in [Item -> 0..MaxAmount]
  BY LimitsAssumption
<1>5. sd \in Sessions
  BY <1>2, <1>3, <1>4, FreshIs DEF Sessions
<1>6. ShownNothing \in ShownData
  BY NothingIs DEF ShownNothing, ShownData
<1> QED BY <1>2, <1>3, <1>5, <1>6 DEF WellTyped

LEMMA StepTyped ==
    ASSUME WellTyped, [Next]_vars
    PROVE  WellTyped'
<1>1. ASSUME NEW a PROVE Doing(a) \in SUBSET Player
  BY DEF Doing
<1>2. CASE TradeNext
  <2>1. PICK p \in Player :
          \/ \E t \in Player, near \in BOOLEAN : TradeRequest(p, t, near)
          \/ \E accept, near \in BOOLEAN : TradeAck(p, accept, near)
          \/ \E s \in Slot, n \in Amounts : TradeAddItem(p, s, n)
          \/ \E n \in 0..MaxZeny : TradeAddZeny(p, n)
          \/ TradeOk(p) \/ TradeCancel(p) \/ TradeCommit(p)
          \/ ChatRoom(p)
    BY <1>1, <1>2 DEF TradeNext
  <2> QED BY <2>1, TradeRequestTyped, TradeAckTyped, TradeAddItemTyped, TradeAddZenyTyped,
             TradeOkTyped, TradeCommitTyped, ChatRoomTyped
<1>3. CASE ShopNext
  <2>1. PICK p \in Player :
          \/ SkillVending(p) \/ ClifOpenVendingCancel(p) \/ CloseVending(p) \/ PurchaseRefused(p)
          \/ \E list \in GoodsLists : OpenVending(p, list)
          \/ \E v \in Player : VendingListReq(p, v)
          \/ \E v \in Player, req \in CartRequests : PurchaseReq(p, v, req)
    BY <1>1, <1>3 DEF ShopNext
  <2> QED BY <2>1, OneFieldTyped, OpenVendingTyped, VendingListReqTyped, PurchaseReqTyped
<1>4. CASE StoreNext
  <2>1. PICK p \in Player :
          \/ BuyingStoreSetup(p) \/ BuyingStoreCreateFailed(p) \/ BuyingStoreClose(p)
          \/ \E limit \in 1..MaxZeny, list \in WantsLists : BuyingStoreCreate(p, limit, list)
          \/ \E b \in Player : BuyingStoreOpen(p, b)
          \/ \E b \in Player : BuyingStoreTradeRefused(p, b)
          \/ \E b \in Player, list \in SlotRequests : BuyingStoreTrade(p, b, list)
    BY <1>1, <1>4 DEF StoreNext
  <2>2. ASSUME NEW b \in Player, BuyingStoreTradeRefused(p, b)
        PROVE  WellTyped'
    <3>1. sd' = Limited(sd, b) /\ UNCHANGED <<World, Rest>> /\ sd \in Sessions
      BY <2>2, SdIs DEF BuyingStoreTradeRefused
    <3>2. sd' \in Sessions
      BY <3>1, LimitedIs
    <3> QED BY <3>1, <3>2, TypedSd
  <2> QED BY <2>1, <2>2, OneFieldTyped, BuyingStoreCreateTyped, BuyingStoreOpenTyped, BuyingStoreTradeTyped
<1>5. CASE KeepNext
  <2>1. PICK p \in Player :
          \/ \E n \in Amounts :
               \/ \E s \in Slot : PutItemToCart(p, s, n) \/ StorageAdd(p, s, n) \/ DropItem(p, s, n)
               \/ \E s \in CartSlot : GetItemFromCart(p, s, n) \/ StorageAddFromCart(p, s, n)
               \/ \E item \in Item : StorageGet(p, item, n) \/ StorageGetToCart(p, item, n)
          \/ StorageOpen(p) \/ StorageClose(p)
          \/ \E to \in Player, item \in Item : TakeItem(p, to, item)
          \/ WorldTakesZeny(p) \/ WorldGivesZeny(p) \/ \E s \in Slot : UseUp(p, s)
          \/ Warp(p) \/ MapQuit(p)
    BY <1>1, <1>5 DEF KeepNext
  <2>2. CASE \E n \in Amounts :
               \/ \E s \in Slot : PutItemToCart(p, s, n) \/ StorageAdd(p, s, n) \/ DropItem(p, s, n)
               \/ \E s \in CartSlot : GetItemFromCart(p, s, n) \/ StorageAddFromCart(p, s, n)
               \/ \E item \in Item : StorageGet(p, item, n) \/ StorageGetToCart(p, item, n)
    BY <2>2, CartTyped, StorageTyped, GroundTyped
  <2>3. CASE \/ \E to \in Player, item \in Item : TakeItem(p, to, item)
             \/ \E s \in Slot : UseUp(p, s)
    BY <2>3, GroundTyped
  <2> QED BY <2>1, <2>2, <2>3, OneFieldTyped, ZenyTyped, LeaveTyped
<1>6. CASE UNCHANGED vars
  BY <1>6 DEF vars, WellTyped
<1> QED BY <1>2, <1>3, <1>4, <1>5, <1>6 DEF Next

LEMMA TypedIsOK ==
    ASSUME WellTyped
    PROVE  TypeOK
<1> SUFFICES ASSUME NEW p \in Player
             PROVE  /\ sd[p].inv \in [Slot -> Stack] /\ sd[p].cart \in [CartSlot -> Stack]
                    /\ sd[p].store \in [Item -> 0..MaxAmount]
                    /\ sd[p].zeny \in 0..MaxZeny /\ sd[p].dealZeny \in 0..MaxZeny
                    /\ sd[p].limit \in 0..MaxZeny
                    /\ sd[p].partner \in Player \union {NoPlayer} /\ sd[p].locked \in 0..2
                    /\ sd[p].deal \in Seq(DealEntry) /\ sd[p].goods \in Seq(GoodsEntry)
                    /\ sd[p].wants \in Seq(WantsEntry)
                    /\ shown[p].deal \in Seq(Item) /\ shown[p].gone \subseteq Slot
  BY DEF TypeOK, WellTyped
<1>1. sd[p] \in SessionData /\ shown[p] \in ShownData
  BY DEF WellTyped, Sessions
<1>2. sd[p].inv \in [Slot -> Stack] /\ sd[p].cart \in [CartSlot -> Stack]
  BY <1>1 DEF SessionData, Slots
<1>3. sd[p].wants \in Seq(WantsEntry)
  BY <1>1 DEF SessionData, Wants
<1>4. /\ sd[p].store \in [Item -> 0..MaxAmount]
      /\ sd[p].zeny \in 0..MaxZeny /\ sd[p].dealZeny \in 0..MaxZeny /\ sd[p].limit \in 0..MaxZeny
      /\ sd[p].partner \in Player \union {NoPlayer} /\ sd[p].locked \in 0..2
      /\ sd[p].deal \in Seq(DealEntry) /\ sd[p].goods \in Seq(GoodsEntry)
  BY <1>1 DEF SessionData
<1>5. shown[p].deal \in Seq(Item) /\ shown[p].gone \subseteq Slot
  BY <1>1 DEF ShownData
<1> QED BY <1>2, <1>3, <1>4, <1>5

\* The slots, the purses and the lists of what is offered hold what they may, of
\* any players with any items: no slot and no purse exceeds its limit, and a
\* buying store never spends more than it has.
THEOREM ExchangeTypeOK == Spec => []TypeOK
<1>1. Init => WellTyped
  BY InitTyped
<1>2. WellTyped /\ [Next]_vars => WellTyped'
  BY StepTyped
<1>3. WellTyped => TypeOK
  BY TypedIsOK
<1> QED BY <1>1, <1>2, <1>3, PTL DEF Spec
=============================================================================
