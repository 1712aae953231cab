------------------------------ MODULE Exchange ------------------------------
(***************************************************************************)
(* How items and zeny change hands on the map-server: trades between two   *)
(* players, shops that sell from a cart, buying stores, the personal       *)
(* storage, and the floor.  Each is a handful of packet handlers that run  *)
(* one at a time; what goes on spans many of them, of several players,     *)
(* while the same slots are changed by loot, skills and scripts.           *)
(*                                                                         *)
(* sd[p] is the part of a player's map_session_data these handlers use.    *)
(* A player that quits is back at once with what it carried.               *)
(***************************************************************************)
EXTENDS Inventory, Sequences, SequencesExt

CONSTANTS Player, NoPlayer,
          Slot, CartSlot,
          Carded,       \* items with cards: buying stores take none of them
          VendingTax,   \* vending_tax, in 1/10000 of a sale
          Prices,       \* bound: what is asked or paid for a unit
          MaxDeal,      \* bound: items one side puts into a trade (10)
          MaxGoods,     \* bound: entries of a shop, and of one purchase
          MaxStorage,   \* items in a storage
          MaxShops,     \* bound: shops and buying stores ever opened
          Setups        \* what the players have, and what each of them does

Activity == {"trade", "chat", "cart", "storage", "vend", "shop", "buy", "sell",
             "drop", "loot", "party", "world", "leave", "mail", "write", "away", "register",
             "auction", "bid"}

ASSUME NoPlayerAssumption == NoPlayer \notin Player
ASSUME SlotAssumption ==
    Slot \subseteq Nat /\ Slot # {} /\ IsFiniteSet(Slot) /\ CartSlot \subseteq Nat /\ IsFiniteSet(CartSlot)
ASSUME BoundsAssumption == VendingTax \in 0..10000 /\ Prices \subseteq Nat /\ MaxDeal \in Nat
\* Units without cards that are of one name share a slot.
ASSUME CardedAssumption == \A i, j \in Item \ Carded : Name[i] = Name[j] => i = j
\* What the players have when they appear.
ASSUME SetupsAssumption ==
    \A s \in Setups :
        /\ \A p \in Player : s.inv[p] \in Slots(Slot) /\ s.cart[p] \in Slots(CartSlot)
                              /\ s.zeny[p] \in 0..MaxZeny
        /\ s.does \in [Player -> SUBSET Activity] /\ s.ground \in [Item -> Nat]
        /\ s.nextId \in [shop : Nat, store : Nat]

VARIABLES sd,         \* player -> session data
          ground,     \* item -> units on the floor, or that the world drops
          purse,      \* zeny the world holds
          nextId,     \* next id of a shop (vending) and a buying store
          does,       \* player -> kinds of handlers it uses; never changes
          shown,      \* what the clients show of each other's offers
          strayed     \* history: who asked for a trade while in one

vars == <<sd, ground, purse, nextId, does, shown, strayed>>

DealEntry == [index : Slot, amount : 1..MaxAmount]
GoodsEntry == [index : CartSlot, amount : 0..MaxAmount, value : Prices]
WantsEntry == [name : {Name[i] : i \in Item}, amount : 0..MaxAmount, price : Prices]

\* What clients show: to the partner, the items p put into a trade; to p, the
\* shop and the buying store it looked at last.  gone is a history: the slots
\* of the deal that other handlers emptied since (see Emptied).
ShownNothing == [deal |-> << >>, gone |-> {},
                 shop |-> [seller |-> NoPlayer, goods |-> << >>],
                 store |-> [buyer |-> NoPlayer, id |-> 0, wants |-> << >>]]

FreshSd(inv, cart, store, zeny) ==
    [inv |-> inv, cart |-> cart, store |-> store, zeny |-> zeny,
     partner |-> NoPlayer, trading |-> FALSE, locked |-> 0,
     deal |-> << >>, dealZeny |-> 0,
     prevend |-> FALSE, vending |-> FALSE, venderId |-> 0, goods |-> << >>,
     vendedId |-> 0,
     slots |-> FALSE, buying |-> FALSE, buyerId |-> 0, limit |-> 0, wants |-> << >>,
     storage |-> FALSE, chat |-> FALSE, autotrade |-> FALSE]

InitWith(s) ==
    /\ sd = [p \in Player |-> FreshSd(s.inv[p], s.cart[p], [i \in Item |-> 0], s.zeny[p])]
    /\ does = s.does
    /\ ground = s.ground
    /\ purse = 0
    /\ nextId = s.nextId
    /\ shown = [p \in Player |-> ShownNothing]
    /\ strayed = {}

Init == \E s \in Setups : InitWith(s)

IsTrading(r) == r.vending \/ r.buying \/ r.trading
CantAct2(r) == r.buying \/ r.trading \/ r.storage \/ r.prevend
CantAct(r) == CantAct2(r) \/ r.vending \/ r.chat

World == <<ground, purse>>
Rest == <<does, nextId, shown, strayed>>
Changes(p, r) == sd' = [sd EXCEPT ![p] = r]

-----------------------------------------------------------------------------
(* Trades. *)

TradeEnd(r) == [r EXCEPT !.partner = NoPlayer, !.trading = FALSE, !.locked = 0,
                         !.deal = << >>, !.dealZeny = 0]

\* Before it is accepted a trade is only a pair of partners.
TradeCancelled(st, p) ==
    [x \in Player |->
        IF x \notin {p, st[p].partner} THEN st[x]
        ELSE IF st[p].trading THEN TradeEnd(st[x])
        ELSE [st[x] EXCEPT !.partner = NoPlayer]]

Unpaired(st, ps) ==
    [x \in Player |-> IF x \in ps THEN [st[x] EXCEPT !.partner = NoPlayer, !.locked = 0]
                                  ELSE st[x]]

\* Mutant: the partner of before is not told.
TradeRequestKeepsOther(p, t, near) ==
    /\ p # t
    /\ sd[p].chat \/ ~CantAct(sd[p])
    /\ LET left == [sd EXCEPT ![p].partner = NoPlayer]
       IN  sd' = IF left[t].partner # NoPlayer \/ ~near THEN left
                 ELSE [left EXCEPT ![p].partner = t, ![t].partner = p]
    /\ strayed' = IF sd[p].trading THEN strayed \union {p} ELSE strayed
    /\ UNCHANGED <<World, does, nextId, shown>>

\* In a chat room a player may ask, whatever else it is doing.
TradeRequest(p, t, near) ==
    /\ p # t
    /\ sd[p].chat \/ ~CantAct(sd[p])
    /\ LET left == [x \in Player |-> IF x \in {p, sd[p].partner}
                                     THEN [sd[x] EXCEPT !.partner = NoPlayer] ELSE sd[x]]
       IN  sd' = IF left[t].partner # NoPlayer \/ ~near THEN left
                 ELSE [left EXCEPT ![p].partner = t, ![t].partner = p]
    /\ strayed' = IF sd[p].trading THEN strayed \union {p} ELSE strayed
    /\ UNCHANGED <<World, does, nextId, shown>>

\* The answer of p to t: is t still waiting for it, may the two trade now?
TradeAnswered(p, t, accept, waiting, free) ==
    IF ~waiting
    THEN sd' = [sd EXCEPT ![p].partner = NoPlayer] /\ UNCHANGED shown
    ELSE IF ~accept \/ ~free
    THEN sd' = Unpaired(sd, {p, t}) /\ UNCHANGED shown
    ELSE /\ sd' = [x \in Player |-> IF x \in {p, t}
                    THEN [sd[x] EXCEPT !.trading = TRUE, !.deal = << >>, !.dealZeny = 0]
                    ELSE sd[x]]
         /\ shown' = [x \in Player |-> IF x \in {p, t}
                       THEN [shown[x] EXCEPT !.deal = << >>, !.gone = {}] ELSE shown[x]]

Waiting(p, t) == ~sd[t].trading /\ sd[t].partner = p
FreeToTrade(r) == ~r.vending /\ ~r.buying /\ ~r.storage
Asked(p) == ~sd[p].trading /\ sd[p].partner # NoPlayer

\* Mutant: only the one who answers must have nothing else open.
TradeAckWhileBusy(p, accept, near) ==
    /\ Asked(p)
    /\ LET t == sd[p].partner
       IN  TradeAnswered(p, t, accept, Waiting(p, t), near /\ FreeToTrade(sd[p]))
    /\ UNCHANGED <<World, does, nextId, strayed>>

TradeAck(p, accept, near) ==
    /\ Asked(p)
    /\ LET t == sd[p].partner
       IN  TradeAnswered(p, t, accept, Waiting(p, t),
                         near /\ FreeToTrade(sd[p]) /\ FreeToTrade(sd[t]))
    /\ UNCHANGED <<World, does, nextId, strayed>>

DealWeight(r) == MapThenSumSet(LAMBDA i : r.deal[i].amount, DOMAIN r.deal)

\* A slot that is in the deal already gets more units, at most what it holds.
WithEntry(r, s, n) ==
    IF \E i \in DOMAIN r.deal : r.deal[i].index = s
    THEN LET i == CHOOSE i \in DOMAIN r.deal : r.deal[i].index = s
         IN  [r EXCEPT !.deal[i].amount = IF @ + n > r.inv[s].amount THEN r.inv[s].amount
                                                                    ELSE @ + n]
    ELSE [r EXCEPT !.deal = Append(@, [index |-> s, amount |-> n])]

TradeAddItem(p, s, n) ==
    /\ sd[p].trading /\ sd[p].locked = 0
    /\ IF sd[p].partner = NoPlayer
       THEN sd' = TradeCancelled(sd, p) /\ UNCHANGED shown
       ELSE /\ n <= sd[p].inv[s].amount
            /\ \/ Len(sd[p].deal) < MaxDeal
               \/ \E i \in DOMAIN sd[p].deal : sd[p].deal[i].index = s
            /\ Weight(sd[sd[p].partner].inv) + DealWeight(sd[p]) + n <= MaxWeight
            /\ Changes(p, WithEntry(sd[p], s, n))
            /\ shown' = IF \E i \in DOMAIN sd[p].deal : sd[p].deal[i].index = s THEN shown
                        ELSE [shown EXCEPT ![p].deal = Append(@, sd[p].inv[s].item)]
    /\ UNCHANGED <<World, does, nextId, strayed>>

TradeAddZeny(p, n) ==
    /\ sd[p].trading /\ sd[p].locked = 0
    /\ sd' = IF \/ sd[p].partner = NoPlayer
                \/ n > sd[p].zeny
                \/ n > MaxZeny - sd[sd[p].partner].zeny
             THEN TradeCancelled(sd, p)
             ELSE [sd EXCEPT ![p].dealZeny = n]
    /\ UNCHANGED <<World, Rest>>

TradeOk(p) ==
    /\ sd[p].trading /\ sd[p].locked = 0
    /\ sd' = IF sd[p].partner = NoPlayer THEN TradeCancelled(sd, p)
             ELSE [sd EXCEPT ![p].locked = 1]
    /\ UNCHANGED <<World, Rest>>

TradeCancel(p) ==
    /\ sd' = TradeCancelled(sd, p)
    /\ UNCHANGED <<World, Rest>>

ImpossibleTradeCheck(r) ==
    \/ r.dealZeny > r.zeny
    \/ \E i \in DOMAIN r.deal : r.deal[i].amount > r.inv[r.deal[i].index].amount

\* Entry i of the deals, first a's and then b's: a slot that runs out while
\* trying keeps its item, so it does not count as free.
TryMove(from, to, entry) ==
    LET item == from[entry.index].item
        into == IF Holding(to, item) # {} THEN Holding(to, item) ELSE Holding(to, NoItem)
    IN  IF \/ entry.amount > from[entry.index].amount
           \/ into = {}
           \/ to[Min(into)].amount + entry.amount > MaxAmount
        THEN [ok |-> FALSE, from |-> from, to |-> to]
        ELSE [ok |-> TRUE,
              from |-> [from EXCEPT ![entry.index].amount = @ - entry.amount],
              to |-> [to EXCEPT ![Min(into)] = [item |-> item, amount |-> @.amount + entry.amount]]]

\* The two sides' entries in turn, each moved by Move(from, to, entry).
BothWays(Move(_, _, _), a, b) ==
    FoldLeft(LAMBDA st, i :
               LET x == IF i \in DOMAIN a.deal /\ st.ok THEN Move(st.a, st.b, a.deal[i])
                        ELSE [ok |-> st.ok, from |-> st.a, to |-> st.b]
                   y == IF i \in DOMAIN b.deal /\ x.ok THEN Move(x.to, x.from, b.deal[i])
                        ELSE [ok |-> x.ok, from |-> x.to, to |-> x.from]
               IN  [ok |-> y.ok, a |-> y.to, b |-> y.from],
             [ok |-> TRUE, a |-> a.inv, b |-> b.inv],
             [i \in 1..MaxDeal |-> i])

\* Mutant: whether b can hold what a pays is not looked at.
TradeCheckOneLimit(a, b) ==
    /\ a.dealZeny <= a.zeny
    /\ b.dealZeny <= b.zeny /\ a.zeny <= MaxZeny - b.dealZeny
    /\ BothWays(TryMove, a, b).ok

TradeCheck(a, b) ==
    /\ a.dealZeny <= a.zeny /\ b.zeny <= MaxZeny - a.dealZeny
    /\ b.dealZeny <= b.zeny /\ a.zeny <= MaxZeny - b.dealZeny
    /\ BothWays(TryMove, a, b).ok

\* Mutant: what the other side could not carry is gone.
RealMoveLoses(from, to, entry) ==
    [ok |-> TRUE, to |-> PcAddItem(to, from[entry.index].item, entry.amount),
     from |-> PcDelItem(from, entry.index, entry.amount)]

\* Mutant: the whole slot goes, not the units that were put into the trade.
RealMoveAll(from, to, entry) ==
    LET n == from[entry.index].amount
        got == PcAddItem(to, from[entry.index].item, n)
    IN  [ok |-> TRUE, to |-> got,
         from |-> IF got = to THEN from ELSE PcDelItem(from, entry.index, n)]

\* An item the other side cannot carry stays; the rest changes hands.
RealMove(from, to, entry) ==
    LET got == PcAddItem(to, from[entry.index].item, entry.amount)
    IN  [ok |-> TRUE, to |-> got,
         from |-> IF got = to THEN from ELSE PcDelItem(from, entry.index, entry.amount)]

TradeCommitted(st, p, t) ==
    LET moved == BothWays(RealMove, st[p], st[t])
        zp == PcPayZeny(st[p].zeny, st[p].dealZeny)
        zt == PcGetZeny(st[t].zeny, st[p].dealZeny)
    IN  [st EXCEPT
          ![p] = TradeEnd([@ EXCEPT !.inv = moved.a, !.zeny = PcGetZeny(zp, st[t].dealZeny)]),
          ![t] = TradeEnd([@ EXCEPT !.inv = moved.b, !.zeny = PcPayZeny(zt, st[t].dealZeny)])]

TradeCommit(p) ==
    /\ sd[p].trading /\ sd[p].locked # 0
    /\ LET t == sd[p].partner
           st == [sd EXCEPT ![p].locked = 2]
       IN  sd' = IF t = NoPlayer THEN TradeCancelled(sd, p)
                 ELSE IF st[t].locked < 2 THEN st
                 ELSE IF ImpossibleTradeCheck(st[p]) THEN TradeCancelled(st, p)
                 ELSE IF ImpossibleTradeCheck(st[t]) THEN TradeCancelled(st, t)
                 ELSE IF ~TradeCheck(st[p], st[t]) THEN TradeCancelled(st, p)
                 ELSE TradeCommitted(st, p, t)
    /\ UNCHANGED <<World, Rest>>

ChatRoom(p) ==
    /\ \/ ~sd[p].chat /\ ~sd[p].vending /\ ~sd[p].buying
       \/ sd[p].chat
    /\ Changes(p, [sd[p] EXCEPT !.chat = ~@])
    /\ UNCHANGED <<World, Rest>>

-----------------------------------------------------------------------------
(* Shops that sell from a cart. *)

SkillVending(p) ==
    /\ Changes(p, [sd[p] EXCEPT !.prevend = TRUE])
    /\ UNCHANGED <<World, Rest>>

ClifOpenVendingCancel(p) ==
    /\ sd[p].prevend
    /\ Changes(p, [sd[p] EXCEPT !.prevend = FALSE])
    /\ UNCHANGED <<World, Rest>>

\* Entries the cart does not back are left out; none left: no shop.
Backed(r, list) ==
    FoldLeft(LAMBDA acc, e :
               IF r.cart[e.index].amount > 0 /\ e.amount <= r.cart[e.index].amount
               THEN Append(acc, e) ELSE acc, << >>, list)

OpenVending(p, list) ==
    /\ sd[p].prevend /\ ~IsTrading(sd[p])
    /\ Backed(sd[p], list) # << >>
    /\ nextId.shop < MaxShops
    /\ Changes(p, [sd[p] EXCEPT !.prevend = FALSE, !.vending = TRUE,
                                !.venderId = nextId.shop, !.goods = Backed(sd[p], list)])
    /\ nextId' = [nextId EXCEPT !.shop = @ + 1]
    /\ UNCHANGED <<World, does, shown, strayed>>

CloseVending(p) ==
    /\ sd[p].vending
    /\ Changes(p, [sd[p] EXCEPT !.vending = FALSE])
    /\ UNCHANGED <<World, Rest>>

VendingListReq(p, v) ==
    /\ sd[v].vending
    /\ Changes(p, [sd[p] EXCEPT !.vendedId = sd[v].venderId])
    /\ shown' = [shown EXCEPT ![p].shop =
           [seller |-> v,
            goods |-> [i \in DOMAIN sd[v].goods |->
                         [item |-> sd[v].cart[sd[v].goods[i].index].item,
                          index |-> sd[v].goods[i].index, value |-> sd[v].goods[i].value]]]]
    /\ UNCHANGED <<World, does, nextId, strayed>>

\* A request is a sequence of [index, amount]; the first entry of the shop
\* with that cart index is meant.
EntryFor(goods, index) ==
    Min({i \in DOMAIN goods : goods[i].index = index})
RequestedFrom(req, index) ==
    MapThenSumSet(LAMBDA i : IF req[i].index = index THEN req[i].amount ELSE 0, DOMAIN req)
Cost(goods, req) ==
    MapThenSumSet(LAMBDA i : req[i].amount * goods[EntryFor(goods, req[i].index)].value,
                  DOMAIN req)
RequestWeight(req) == MapThenSumSet(LAMBDA i : req[i].amount, DOMAIN req)

\* Mutant: the shop may have closed and opened again since the list was read.
CanPurchaseFromAnyShop(st, c, v, req) ==
    LET goods == st[v].goods
        Fits(i) == PcCheckAddItem(st[c].inv, st[v].cart[req[i].index].item, req[i].amount)
    IN  /\ st[v].vending /\ c # v
        /\ Len(req) <= Len(goods)
        /\ \A i \in DOMAIN req : \E j \in DOMAIN goods : goods[j].index = req[i].index
        /\ \A i \in DOMAIN req :
              /\ RequestedFrom(req, req[i].index) <= goods[EntryFor(goods, req[i].index)].amount
              /\ RequestedFrom(req, req[i].index) <= st[v].cart[req[i].index].amount
        /\ Cost(goods, req) <= st[c].zeny
        /\ RequestWeight(req) + Weight(st[c].inv) <= MaxWeight
        /\ \A i \in DOMAIN req : Fits(i) # "over"
        /\ Cardinality({i \in DOMAIN req : Fits(i) = "new"}) <= PcInventoryBlank(st[c].inv)

CanPurchase(st, c, v, req) ==
    st[v].venderId = st[c].vendedId /\ CanPurchaseFromAnyShop(st, c, v, req)

\* The unit leaves the cart whether or not the customer can take it.
SoldFrom(st, c, v, req) ==
    FoldLeft(LAMBDA acc, e :
               [inv |-> PcAddItem(acc.inv, acc.cart[e.index].item, e.amount),
                cart |-> PcDelItem(acc.cart, e.index, e.amount)],
             [inv |-> st[c].inv, cart |-> st[v].cart], req)

SoldOut(goods, req) ==
    LET left == [i \in DOMAIN goods |->
                   IF EntryFor(goods, goods[i].index) = i
                   THEN [goods[i] EXCEPT !.amount = @ - RequestedFrom(req, goods[i].index)]
                   ELSE goods[i]]
    IN  FoldLeft(LAMBDA acc, e : IF e.amount # 0 THEN Append(acc, e) ELSE acc, << >>, left)

\* vending_over_max is on: what a full purse cannot hold is lost.
Purchased(st, c, v, req) ==
    LET z == Cost(st[v].goods, req)
        sold == SoldFrom(st, c, v, req)
        left == SoldOut(st[v].goods, req)
    IN  [st EXCEPT
          ![c].zeny = PcPayZeny(@, z), ![c].inv = sold.inv,
          ![v].zeny = PcGetZeny(@, z - (z * VendingTax) \div 10000),
          ![v].cart = sold.cart, ![v].goods = left]

-----------------------------------------------------------------------------
(* Leaving the map, by a warp or for good, ends what a player was doing    *)
(* there; a shop stays open through a warp.                                *)

LeftMap(st, p) ==
    LET rest == IF st[p].partner # NoPlayer THEN TradeCancelled(st, p) ELSE st
    IN  [rest EXCEPT ![p].chat = FALSE, ![p].storage = FALSE,
                     ![p].buying = FALSE, ![p].limit = 0, ![p].wants = << >>,
                     ![p].slots = IF rest[p].buying THEN FALSE ELSE @]

\* The character is back with a session that knows nothing of before.
Quit(st, p) ==
    LET r == LeftMap(st, p)[p]
    IN  [LeftMap(st, p) EXCEPT ![p] = FreshSd(r.inv, r.cart, r.store, r.zeny)]

Warp(p) ==
    /\ sd' = LeftMap(sd, p)
    /\ UNCHANGED <<World, Rest>>

MapQuit(p) ==
    /\ sd' = Quit(sd, p)
    /\ UNCHANGED <<World, Rest>>

\* The customer's window is closed; a vendor that needs no client leaves once
\* all is sold.
AfterPurchase(st, c, v, req) ==
    LET sale == Purchased(st, c, v, req)
        left == IF sale[v].autotrade /\ sale[v].goods = << >>
                THEN Quit([sale EXCEPT ![v].vending = FALSE], v) ELSE sale
    IN  [left EXCEPT ![c].vendedId = 0]

\* Mutant: see CanPurchaseFromAnyShop.
PurchaseReqAnyShop(c, v, req) ==
    /\ CanPurchaseFromAnyShop(sd, c, v, req)
    /\ sd' = AfterPurchase(sd, c, v, req)
    /\ UNCHANGED <<World, Rest>>

PurchaseReq(c, v, req) ==
    /\ CanPurchase(sd, c, v, req)
    /\ sd' = AfterPurchase(sd, c, v, req)
    /\ UNCHANGED <<World, Rest>>

\* Any request that fails a check, one of no entries for instance.
PurchaseRefused(c) ==
    /\ Changes(c, [sd[c] EXCEPT !.vendedId = 0])
    /\ UNCHANGED <<World, Rest>>

-----------------------------------------------------------------------------
(* Buying stores. *)

BuyingStoreSetup(p) ==
    /\ ~IsTrading(sd[p])
    /\ Changes(p, [sd[p] EXCEPT !.slots = TRUE])
    /\ UNCHANGED <<World, Rest>>

\* The buyer owns one of each already, and none is named twice.
CanCreate(r, limit, list) ==
    /\ r.slots /\ ~IsTrading(r)
    /\ 0 < limit /\ limit <= r.zeny
    /\ \A i \in DOMAIN list :
          /\ list[i].amount > 0 /\ list[i].price > 0
          /\ Named(r.inv, list[i].name) # {}
          /\ r.inv[Min(Named(r.inv, list[i].name))].amount + list[i].amount <= MaxAmount
          /\ \A j \in 1..(i - 1) : list[j].name # list[i].name
    /\ Weight(r.inv) + RequestWeight(list) <= (MaxWeight * 90) \div 100

BuyingStoreCreate(p, limit, list) ==
    /\ CanCreate(sd[p], limit, list) /\ nextId.store < MaxShops
    /\ Changes(p, [sd[p] EXCEPT !.autotrade = TRUE, !.buying = TRUE,
                              !.buyerId = nextId.store, !.limit = limit, !.wants = list])
    /\ nextId' = [nextId EXCEPT !.store = @ + 1]
    /\ UNCHANGED <<World, does, shown, strayed>>

BuyingStoreCreateFailed(p) ==
    /\ sd[p].slots
    /\ Changes(p, [sd[p] EXCEPT !.slots = FALSE])
    /\ UNCHANGED <<World, Rest>>

Closed(r) == [r EXCEPT !.buying = FALSE, !.slots = FALSE, !.limit = 0, !.wants = << >>]

BuyingStoreClose(p) ==
    /\ sd[p].buying
    /\ Changes(p, Closed(sd[p]))
    /\ UNCHANGED <<World, Rest>>

\* The offer is a sequence of [index, amount] of the seller's slots.
WantFor(wants, name) == Min({i \in DOMAIN wants : wants[i].name = name})
Pay(st, s, b, offer) ==
    MapThenSumSet(LAMBDA i : offer[i].amount
                     * st[b].wants[WantFor(st[b].wants, Name[st[s].inv[offer[i].index].item])].price,
                  DOMAIN offer)

CanSell(st, s, b, offer) ==
    LET items == [i \in DOMAIN offer |-> st[s].inv[offer[i].index]]
    IN  /\ ~IsTrading(st[s]) /\ st[b].buying
        /\ \A i \in DOMAIN offer :
              /\ items[i].item \notin Carded \union {NoItem}
              /\ items[i].amount >= offer[i].amount
              /\ \A j \in 1..(i - 1) : offer[j].index # offer[i].index
              /\ \E w \in DOMAIN st[b].wants :
                    /\ st[b].wants[w].name = Name[items[i].item]
                    /\ st[b].wants[w].amount >= offer[i].amount
              /\ PcCheckAddItem(st[b].inv, items[i].item, offer[i].amount) # "over"
        /\ Weight(st[b].inv) + RequestWeight(offer) <= MaxWeight
        /\ Pay(st, s, b, offer) <= st[b].limit

\* The limit is what the buyer still has, if that is less.
Limited(st, b) ==
    IF st[b].zeny < st[b].limit THEN [st EXCEPT ![b].limit = st[b].zeny] ELSE st

\* What the offer leaves of all that it changes.
Bargain(st, s, b, offer) ==
    LET Sell(acc, e) ==
            LET item == acc.from[e.index].item
                w == WantFor(acc.wants, Name[item])
                z == e.amount * acc.wants[w].price
            IN  [to |-> PcAddItem(acc.to, item, e.amount),
                 from |-> PcDelItem(acc.from, e.index, e.amount),
                 wants |-> [acc.wants EXCEPT ![w].amount = @ - e.amount],
                 payer |-> PcPayZeny(acc.payer, z), payee |-> PcGetZeny(acc.payee, z),
                 limit |-> acc.limit - z]
    IN  FoldLeft(Sell, [to |-> st[b].inv, from |-> st[s].inv, wants |-> st[b].wants,
                        payer |-> st[b].zeny, payee |-> st[s].zeny, limit |-> st[b].limit],
                 offer)

SoldTo(st, s, b, offer) ==
    LET sold == Bargain(st, s, b, offer)
    IN  [st EXCEPT ![s].inv = sold.from, ![s].zeny = sold.payee,
                   ![b].inv = sold.to, ![b].zeny = sold.payer,
                   ![b].wants = sold.wants, ![b].limit = sold.limit]

BuyingStoreOpen(s, b) ==
    /\ ~IsTrading(sd[s]) /\ sd[b].buying
    /\ shown' = [shown EXCEPT ![s].store =
           [buyer |-> b, id |-> sd[b].buyerId, wants |-> sd[b].wants]]
    /\ UNCHANGED <<sd, World, does, nextId, strayed>>

\* Nothing left to buy, or to pay with: the buyer leaves the game.
AfterSelling(st, s, b, offer) ==
    LET sold == SoldTo(st, s, b, offer)
    IN  IF (\A w \in DOMAIN sold[b].wants : sold[b].wants[w].amount = 0) \/ sold[b].limit = 0
        THEN Quit([sold EXCEPT ![b] = Closed(@)], b) ELSE sold

LookingAt(s, b) == shown[s].store.buyer = b /\ sd[b].buying /\ ~IsTrading(sd[s])

\* Mutant: the store may have closed and opened again since it was looked at.
BuyingStoreTradeAnyStore(s, b, offer) ==
    /\ LookingAt(s, b)
    /\ CanSell(Limited(sd, b), s, b, offer)
    /\ sd' = AfterSelling(Limited(sd, b), s, b, offer)
    /\ UNCHANGED <<World, Rest>>

BuyingStoreTrade(s, b, offer) ==
    /\ LookingAt(s, b) /\ sd[b].buyerId = shown[s].store.id
    /\ CanSell(Limited(sd, b), s, b, offer)
    /\ sd' = AfterSelling(Limited(sd, b), s, b, offer)
    /\ UNCHANGED <<World, Rest>>

BuyingStoreTradeRefused(s, b) ==
    /\ LookingAt(s, b) /\ sd[b].buyerId = shown[s].store.id
    /\ sd' = Limited(sd, b)
    /\ UNCHANGED <<World, Rest>>

-----------------------------------------------------------------------------
(* Cart, storage and floor. *)

PutItemToCart(p, s, n) ==
    /\ ~IsTrading(sd[p])
    /\ n <= sd[p].inv[s].amount
    /\ LET to == PcCartAddItem(sd[p].cart, sd[p].inv[s].item, n)
       IN  to # sd[p].cart /\ Changes(p, [sd[p] EXCEPT !.cart = to, !.inv = PcDelItem(@, s, n)])
    /\ UNCHANGED <<World, Rest>>

GetItemFromCart(p, s, n) ==
    /\ ~sd[p].vending
    /\ n <= sd[p].cart[s].amount
    /\ LET to == PcAddItem(sd[p].inv, sd[p].cart[s].item, n)
       IN  to # sd[p].inv /\ Changes(p, [sd[p] EXCEPT !.inv = to, !.cart = PcDelItem(@, s, n)])
    /\ UNCHANGED <<World, Rest>>

\* By an NPC, or @storage.
StorageOpen(p) ==
    /\ ~IsTrading(sd[p]) /\ ~sd[p].storage
    /\ Changes(p, [sd[p] EXCEPT !.storage = TRUE])
    /\ UNCHANGED <<World, Rest>>

StorageClose(p) ==
    /\ sd[p].storage
    /\ Changes(p, [sd[p] EXCEPT !.storage = FALSE])
    /\ UNCHANGED <<World, Rest>>

\* Equal items share a place, so a storage is a bag.
StorageAddItem(store, item, n) ==
    IF \/ item = NoItem \/ n <= 0 \/ n > MaxAmount - store[item]
       \/ store[item] = 0 /\ Cardinality({i \in Item : store[i] > 0}) >= MaxStorage
    THEN store ELSE [store EXCEPT ![item] = @ + n]

StorageAdd(p, s, n) ==
    /\ ~IsTrading(sd[p]) /\ sd[p].storage
    /\ n <= sd[p].inv[s].amount
    /\ LET to == StorageAddItem(sd[p].store, sd[p].inv[s].item, n)
       IN  to # sd[p].store /\ Changes(p, [sd[p] EXCEPT !.store = to, !.inv = PcDelItem(@, s, n)])
    /\ UNCHANGED <<World, Rest>>

StorageGet(p, item, n) ==
    /\ sd[p].storage
    /\ n <= sd[p].store[item]
    /\ LET to == PcAddItem(sd[p].inv, item, n)
       IN  to # sd[p].inv /\ Changes(p, [sd[p] EXCEPT !.inv = to, !.store[item] = @ - n])
    /\ UNCHANGED <<World, Rest>>

StorageAddFromCart(p, s, n) ==
    /\ ~sd[p].vending /\ sd[p].storage
    /\ n <= sd[p].cart[s].amount
    /\ LET to == StorageAddItem(sd[p].store, sd[p].cart[s].item, n)
       IN  to # sd[p].store /\ Changes(p, [sd[p] EXCEPT !.store = to, !.cart = PcDelItem(@, s, n)])
    /\ UNCHANGED <<World, Rest>>

StorageGetToCart(p, item, n) ==
    /\ ~sd[p].vending /\ sd[p].storage
    /\ n <= sd[p].store[item]
    /\ LET to == PcCartAddItem(sd[p].cart, item, n)
       IN  to # sd[p].cart /\ Changes(p, [sd[p] EXCEPT !.cart = to, !.store[item] = @ - n])
    /\ UNCHANGED <<World, Rest>>

DropItem(p, s, n) ==
    /\ ~CantAct2(sd[p]) /\ ~sd[p].vending
    /\ sd[p].inv[s].item # NoItem /\ n <= sd[p].inv[s].amount
    /\ Changes(p, [sd[p] EXCEPT !.inv = PcDelItem(@, s, n)])
    /\ ground' = [ground EXCEPT ![sd[p].inv[s].item] = @ + n]
    /\ UNCHANGED <<purse, Rest>>

\* The loot goes to the one who takes it or to another of its party, who may
\* be in a trade.
TakeItem(p, to, item) ==
    /\ ~CantAct(sd[p]) /\ ground[item] > 0
    /\ LET inv == PcAddItem(sd[to].inv, item, 1)
       IN  inv # sd[to].inv /\ Changes(to, [sd[to] EXCEPT !.inv = inv])
    /\ ground' = [ground EXCEPT ![item] = @ - 1]
    /\ UNCHANGED <<purse, Rest>>

\* History: a unit is taken from slot s of p, the last one, and it is in the deal.
Emptied(p, s) ==
    shown' = IF sd[p].inv[s].amount = 1 /\ \E i \in DOMAIN sd[p].deal : sd[p].deal[i].index = s
             THEN [shown EXCEPT ![p].gone = @ \union {s}] ELSE shown

\* Ammunition, the requirements of skills, scripts: at any time.
UseUp(p, s) ==
    /\ sd[p].inv[s].item # NoItem
    /\ Changes(p, [sd[p] EXCEPT !.inv = PcDelItem(@, s, 1)])
    /\ ground' = [ground EXCEPT ![sd[p].inv[s].item] = @ + 1]
    /\ Emptied(p, s)
    /\ UNCHANGED <<purse, does, nextId, strayed>>

WorldTakesZeny(p) ==
    /\ sd[p].zeny > 0
    /\ Changes(p, [sd[p] EXCEPT !.zeny = PcPayZeny(@, 1)]) /\ purse' = purse + 1
    /\ UNCHANGED <<ground, Rest>>

WorldGivesZeny(p) ==
    /\ purse > 0 /\ sd[p].zeny < MaxZeny
    /\ Changes(p, [sd[p] EXCEPT !.zeny = PcGetZeny(@, 1)]) /\ purse' = purse - 1
    /\ UNCHANGED <<ground, Rest>>

-----------------------------------------------------------------------------
Amounts == 1..MaxAmount
UpTo(n, S) == UNION {[1..k -> S] : k \in 1..n}
CartRequests == UpTo(MaxGoods, [index : CartSlot, amount : Amounts])
SlotRequests == UpTo(MaxGoods, [index : Slot, amount : Amounts])
GoodsLists == UpTo(MaxGoods, [index : CartSlot, amount : Amounts, value : Prices])
WantsLists == UpTo(MaxGoods, [name : {Name[i] : i \in Item}, amount : Amounts, price : Prices])
Doing(a) == {p \in Player : a \in does[p]}

TradeNext ==
    \/ \E p \in Doing("trade") :
        \/ \E t \in Player, near \in BOOLEAN : TradeRequest(p, t, near)
        \/ \E accept, near \in BOOLEAN : TradeAck(p, accept, near)
        \/ \E s \in Slot, n \in Amounts : TradeAddItem(p, s, n)
        \/ \E n \in 0..MaxZeny : TradeAddZeny(p, n)
        \/ TradeOk(p) \/ TradeCancel(p) \/ TradeCommit(p)
    \/ \E p \in Doing("chat") : ChatRoom(p)

ShopNext ==
    \/ \E p \in Doing("vend") :
        \/ SkillVending(p) \/ ClifOpenVendingCancel(p) \/ CloseVending(p)
        \/ \E list \in GoodsLists : OpenVending(p, list)
    \/ \E c \in Doing("shop") :
        \/ \E v \in Player : VendingListReq(c, v)
        \/ \E v \in Player, req \in CartRequests : PurchaseReq(c, v, req)
        \/ PurchaseRefused(c)

StoreNext ==
    \/ \E p \in Doing("buy") :
        \/ BuyingStoreSetup(p) \/ BuyingStoreCreateFailed(p) \/ BuyingStoreClose(p)
        \/ \E limit \in 1..MaxZeny, list \in WantsLists : BuyingStoreCreate(p, limit, list)
    \/ \E s \in Doing("sell"), b \in Player :
        \/ BuyingStoreOpen(s, b) \/ BuyingStoreTradeRefused(s, b)
        \/ \E offer \in SlotRequests : BuyingStoreTrade(s, b, offer)

KeepNext ==
    \/ \E p \in Doing("cart") :
        \/ \E s \in Slot, n \in Amounts : PutItemToCart(p, s, n)
        \/ \E s \in CartSlot, n \in Amounts : GetItemFromCart(p, s, n)
    \/ \E p \in Doing("storage") :
        \/ StorageOpen(p) \/ StorageClose(p)
        \/ \E s \in Slot, n \in Amounts : StorageAdd(p, s, n)
        \/ \E s \in CartSlot, n \in Amounts : StorageAddFromCart(p, s, n)
        \/ \E item \in Item, n \in Amounts : StorageGet(p, item, n) \/ StorageGetToCart(p, item, n)
    \/ \E p \in Doing("drop"), s \in Slot, n \in Amounts : DropItem(p, s, n)
    \/ \E p \in Doing("loot"), to \in Player, item \in Item :
        (to = p \/ {p, to} \subseteq Doing("party")) /\ TakeItem(p, to, item)
    \/ \E p \in Doing("world") :
        \/ WorldTakesZeny(p) \/ WorldGivesZeny(p) \/ \E s \in Slot : UseUp(p, s)
    \/ \E p \in Doing("leave") : Warp(p) \/ MapQuit(p)

Next == TradeNext \/ ShopNext \/ StoreNext \/ KeepNext

Spec == Init /\ [][Next]_vars

-----------------------------------------------------------------------------
(* What the exchanges promise. *)

\* Every field of a player's session data and of what the clients show is one
\* the handlers may leave there; no slot and no purse exceeds its limit.
TypeOK ==
    /\ \A p \in Player :
          /\ sd[p].inv \in [Slot -> Stack] /\ sd[p].cart \in [CartSlot -> Stack]
          /\ sd[p].store \in [Item -> 0..MaxAmount]
          /\ sd[p].zeny \in 0..MaxZeny /\ sd[p].dealZeny \in 0..MaxZeny
          /\ sd[p].limit \in 0..MaxZeny
          /\ sd[p].partner \in Player \union {NoPlayer} /\ sd[p].locked \in 0..2
          /\ sd[p].deal \in Seq(DealEntry) /\ sd[p].goods \in Seq(GoodsEntry)
          /\ sd[p].wants \in Seq(WantsEntry)
          /\ shown[p].deal \in Seq(Item) /\ shown[p].gone \subseteq Slot
    /\ purse \in Nat /\ ground \in [Item -> Nat]
    /\ does \in [Player -> SUBSET Activity] /\ strayed \subseteq Player

\* Two players trade with each other or not at all, whatever requests, answers,
\* cancellations, warps and departures cross: partners name each other, and
\* both or neither of them is trading.  (trade_traderequest lets a player in a
\* chat room ask for another trade while in one and does not end that one: from
\* then on this does not hold.)
PartnersAgree ==
    strayed = {} =>
        \A p \in Player :
            /\ sd[p].trading => sd[p].partner # NoPlayer
            /\ sd[p].locked # 0 => sd[p].trading
            /\ sd[p].partner # NoPlayer =>
                 /\ sd[sd[p].partner].partner = p
                 /\ sd[sd[p].partner].trading = sd[p].trading

\* What one way of exchanging counts on cannot be taken by another: no player
\* is in a trade and has a shop, a buying store or the storage open, and none
\* has both kinds of shop.
OneExchangeAtATime ==
    \A p \in Player :
        /\ sd[p].trading => FreeToTrade(sd[p])
        /\ ~(sd[p].vending /\ sd[p].buying)

Total(item) ==
    ground[item] + MapThenSumSet(LAMBDA p : UnitsOf(sd[p].inv, item) + UnitsOf(sd[p].cart, item)
                                              + sd[p].store[item], Player)
Wealth == purse + MapThenSumSet(LAMBDA p : sd[p].zeny, Player)

\* Units of an item the partner was shown in p's part of the trade.
ShownUnits(p, item) ==
    MapThenSumSet(LAMBDA i : IF shown[p].deal[i] = item THEN sd[p].deal[i].amount ELSE 0,
                  DOMAIN sd[p].deal)

\* When a trade goes through each side gets what the other put into it, as its
\* window showed it, and both sums of zeny change hands: what other handlers did
\* to the slots in the meantime cannot change that.  Three things can, and only
\* for items: the world took the last unit of a slot of the deal (which may hold
\* something else by now), an auction that does not look for trades took it, or
\* one side picked up too much meanwhile to carry what it would get.
TradedAsShown ==
    [][\A p, q \in Player :
         (/\ strayed = {}
          /\ sd[p].trading /\ sd[p].partner = q /\ sd[p].locked # 0 /\ sd[q].locked = 2
          /\ ~sd'[p].trading
          /\ \E x \in {p, q} : sd'[x].inv # sd[x].inv \/ sd'[x].zeny # sd[x].zeny)
         => /\ sd'[p].zeny = sd[p].zeny - sd[p].dealZeny + sd[q].dealZeny
            /\ sd'[q].zeny = sd[q].zeny - sd[q].dealZeny + sd[p].dealZeny
            /\ \/ \A item \in Item :
                    UnitsOf(sd'[p].inv, item) = UnitsOf(sd[p].inv, item)
                                        - ShownUnits(p, item) + ShownUnits(q, item)
               \/ \E x \in {p, q} : \E i \in DOMAIN sd[x].deal :
                    sd[x].deal[i].index \in shown[x].gone
               \/ Weight(sd[p].inv) + DealWeight(sd[q]) > MaxWeight
               \/ Weight(sd[q].inv) + DealWeight(sd[p]) > MaxWeight]_vars

\* A customer gets the goods of the list he read, at its prices: the vendor
\* may have sold some, closed, refilled the cart and opened again since.  Only
\* the first shop the server ever opened also sells to who read no list: its
\* id is 0, what vended_id is then.
PurchasedAsSeen ==
    [][\A v \in Player :
         (sd[v].vending /\ sd'[v].cart # sd[v].cart)
         => LET sold(i) == sd[v].cart[i].amount - sd'[v].cart[i].amount
            IN  \E c \in Player \ {v} :
                   \/ sd[v].venderId = 0 /\ sd[c].vendedId = 0
                   \/ /\ shown[c].shop.seller = v
                      /\ \E e \in [CartSlot -> DOMAIN shown[c].shop.goods] :
                           /\ \A i \in CartSlot : sold(i) > 0 =>
                                 /\ shown[c].shop.goods[e[i]].index = i
                                 /\ shown[c].shop.goods[e[i]].item = sd[v].cart[i].item
                           /\ sd[c].zeny - sd'[c].zeny =
                                 MapThenSumSet(LAMBDA i : sold(i) * shown[c].shop.goods[e[i]].value,
                                               CartSlot)]_vars

\* Who sells to a buying store is paid the price the store showed, all of it (as
\* far as the purse holds it), and the buyer pays no more than the limit it set
\* and for no more units than it still wanted: whatever it spent elsewhere, and
\* however often the store was closed and opened, since the seller looked.
SoldAsSeen ==
    [][\A s \in Player :
         LET b == shown[s].store.buyer
             sold(i) == IF sd'[s].inv[i].amount < sd[s].inv[i].amount
                        THEN sd[s].inv[i].amount - sd'[s].inv[i].amount ELSE 0
             Of(i, name) == IF sd[s].inv[i].item # NoItem /\ Name[sd[s].inv[i].item] = name
                            THEN sold(i) ELSE 0
             seen == shown[s].store.wants
             pay == MapThenSumSet(LAMBDA w :
                       seen[w].price * MapThenSumSet(LAMBDA i : Of(i, seen[w].name), Slot),
                       DOMAIN seen)
         IN  (/\ b # NoPlayer /\ ~sd[s].trading /\ \E i \in Slot : sold(i) > 0
              /\ ground' = ground /\ sd'[s].cart = sd[s].cart /\ sd'[s].store = sd[s].store)
             => /\ sd'[b].zeny = sd[b].zeny - pay /\ pay <= sd[b].limit
                /\ sd'[s].zeny = PcGetZeny(sd[s].zeny, pay)
                /\ \A w \in DOMAIN sd[b].wants :
                     MapThenSumSet(LAMBDA i : Of(i, sd[b].wants[w].name), Slot)
                       <= sd[b].wants[w].amount]_vars

=============================================================================
