----------------------------- MODULE MCExchange -----------------------------
(***************************************************************************)
(* Bounded instances of Exchange, Mail and Auction: small inventories and, *)
(* in every setup, other things for the players to do.  card is an apple   *)
(* with a card.                                                            *)
(***************************************************************************)
EXTENDS Auction, TLC

CONSTANTS p1, p2, p3, apple, card, nut

MCName == [i \in {apple, card, nut} |-> IF i = nut THEN "nut" ELSE "apple"]

None == [s \in Slot |-> NoStack]
NoCart == [s \in CartSlot |-> NoStack]
Nothing == [i \in Item |-> 0]
NoShopYet == [shop |-> 0, store |-> 0]
NoMail == [rows |-> << >>, nextMail |-> 1, auctions |-> << >>]
OneMore(mails) == [NoMail EXCEPT !.rows = mails, !.nextMail = MaxMails]  \* one letter can still be stored
Have(slots, item, n) == [slots EXCEPT ![Min(Holding(slots, NoItem))] =
                           [item |-> item, amount |-> n]]

Acts(a1, a2, a3) == (p1 :> a1) @@ (p2 :> a2) @@ (p3 :> a3)

\* Three players ask each other for trades and answer; one is in a chat room.
Partners ==
    [does |-> Acts({"trade", "chat"}, {"trade"}, {"trade", "leave"}),
     inv |-> [p \in Player |-> IF p = p2 THEN Have(None, nut, 1) ELSE None],
     cart |-> [p \in Player |-> NoCart], ground |-> Nothing, nextId |-> NoShopYet,
     post |-> NoMail,
     zeny |-> [p \in Player |-> 0]]

\* Two trade while the world takes from one of them and a third, who carries all
\* it can, hands it loot.
Trading ==
    [does |-> Acts({"trade", "world", "drop", "party"}, {"trade"}, {"loot", "party"}),
     inv |-> [p \in Player |-> IF p = p1 THEN None
                               ELSE IF p = p2 THEN Have(None, nut, 2)
                               ELSE Have(Have(None, card, 2), apple, 1)],
     cart |-> [p \in Player |-> NoCart], ground |-> [Nothing EXCEPT ![apple] = 2], nextId |-> NoShopYet,
     post |-> NoMail,
     zeny |-> [p \in Player |-> 0]]

\* Two trade zeny and an item, one as rich as one can be, the other spending and earning.
Purses ==
    [does |-> Acts({"trade", "world"}, {"trade"}, {}),
     inv |-> [p \in Player |-> IF p = p2 THEN Have(None, nut, 1) ELSE None],
     cart |-> [p \in Player |-> NoCart], ground |-> Nothing, nextId |-> NoShopYet,
     post |-> NoMail,
     zeny |-> [p \in Player |-> IF p = p1 THEN MaxZeny ELSE IF p = p2 THEN 1 ELSE 0]]

\* A vendor and a customer whose bag is nearly full.
Vending ==
    [does |-> Acts({"vend"}, {"shop"}, {}),
     inv |-> [p \in Player |-> IF p = p2 THEN Have(Have(None, card, 1), nut, 1) ELSE None],
     cart |-> [p \in Player |-> IF p = p1 THEN Have(Have(NoCart, apple, 1), nut, 2) ELSE NoCart],
     ground |-> Nothing, nextId |-> NoShopYet,
     post |-> NoMail,
     zeny |-> [p \in Player |-> IF p = p1 THEN MaxZeny - 1 ELSE 2]]

\* A vendor who also takes things out of the cart and puts them in, and a customer.
Restocking ==
    [does |-> Acts({"vend", "cart"}, {"shop"}, {}),
     inv |-> [p \in Player |-> None],
     cart |-> [p \in Player |-> IF p = p1 THEN Have(Have(NoCart, apple, 1), nut, 1) ELSE NoCart],
     ground |-> Nothing, nextId |-> NoShopYet,
     post |-> NoMail,
     zeny |-> [p \in Player |-> IF p = p2 THEN 1 ELSE 0]]

\* A buying store whose owner spends money elsewhere, and a seller.
Buying ==
    [does |-> Acts({"buy", "world"}, {"sell"}, {}),
     inv |-> [p \in Player |-> IF p = p1 THEN Have(Have(None, card, 1), nut, 1)
                               ELSE IF p = p2 THEN Have(Have(None, apple, 1), nut, 2) ELSE None],
     cart |-> [p \in Player |-> NoCart], ground |-> Nothing, nextId |-> NoShopYet,
     post |-> NoMail,
     zeny |-> [p \in Player |-> IF p = p1 THEN 2 ELSE 1]]

\* Everything a player can have open at once, or one after the other.
Everything ==
    [does |-> Acts({"trade", "vend", "buy", "storage"}, {"trade"}, {}),
     inv |-> [p \in Player |-> IF p = p1 THEN Have(None, nut, 1) ELSE None],
     cart |-> [p \in Player |-> NoCart],
     ground |-> Nothing, nextId |-> [shop |-> 1, store |-> 1],
     post |-> NoMail, zeny |-> [p \in Player |-> IF p = p1 THEN 1 ELSE 0]]

From(p, q, status, with) == [from |-> p, to |-> q, status |-> status, with |-> with]
A(item) == [NoEnclosure EXCEPT !.item = item, !.amount = 1]

\* One letter is left to write; its writer and its reader come and go.
Writing ==
    [does |-> Acts({"mail", "write"}, {"mail", "write", "away"}, {}),
     inv |-> [p \in Player |-> IF p = p1 THEN Have(None, nut, 1) ELSE None],
     cart |-> [p \in Player |-> NoCart], ground |-> Nothing, nextId |-> NoShopYet,
     post |-> OneMore(<< >>),
     zeny |-> [p \in Player |-> IF p = p1 THEN 1 ELSE 0]]

\* More letters than an inbox holds, one of them of the auction house, and more
\* in them than can be carried.
FullInbox ==
    [does |-> Acts({"mail", "write"}, {}, {}),
     inv |-> [p \in Player |-> Have(None, apple, 2)],
     cart |-> [p \in Player |-> NoCart], ground |-> Nothing, nextId |-> NoShopYet,
     post |-> [NoMail EXCEPT !.rows = <<From(NoPlayer, p1, "read", [A(nut) EXCEPT !.zeny = 2]),
                          From(p2, p1, "read", A(nut)), From(p2, p1, "unread", NoEnclosure)>>,
                            !.nextMail = MaxMails + 1],
     zeny |-> [p \in Player |-> MaxZeny - 1]]

\* A letter that can be taken, deleted and returned, once.
Returning ==
    [does |-> Acts({"mail", "write", "world"}, {"mail", "write"}, {}),
     inv |-> [p \in Player |-> None],
     cart |-> [p \in Player |-> NoCart], ground |-> Nothing, nextId |-> NoShopYet,
     post |-> OneMore(<<From(p2, p1, "unread", A(nut))>>),
     zeny |-> [p \in Player |-> 0]]

\* One who trades has a letter on its way that comes back.
Correspondence ==
    [does |-> Acts({"mail", "write", "trade"}, {"trade"}, {}),
     inv |-> [p \in Player |-> IF p = p1 THEN Have(None, nut, 1) ELSE None],
     cart |-> [p \in Player |-> NoCart], ground |-> Nothing, nextId |-> NoShopYet,
     post |-> OneMore(<< >>),
     zeny |-> [p \in Player |-> 0]]

ForSale(p, item, buyer, price) ==
    [seller |-> p, buyer |-> buyer, item |-> item, price |-> price, buynow |-> MaxPrice]
Selling(all) == [NoMail EXCEPT !.auctions = all]

\* Two bid for what a third sells, who may bid too, close and cancel.
Bidding ==
    [does |-> Acts({"register", "auction", "bid"}, {"bid"}, {"bid"}),
     inv |-> [p \in Player |-> None],
     cart |-> [p \in Player |-> NoCart], ground |-> Nothing, nextId |-> NoShopYet,
     post |-> Selling(<<ForSale(p1, nut, NoPlayer, 1)>>),
     zeny |-> [p \in Player |-> 3]]

\* What one trades it may also have auctioned.
Registering ==
    [does |-> Acts({"register", "auction", "trade"}, {"trade"}, {}),
     inv |-> [p \in Player |-> IF p = p1 THEN Have(None, nut, 1) ELSE None],
     cart |-> [p \in Player |-> NoCart], ground |-> Nothing, nextId |-> NoShopYet,
     post |-> NoMail,
     zeny |-> [p \in Player |-> IF p = p1 THEN 1 ELSE 0]]

\* So may it here, while a third, who carries all it can, hands it something else.
Refilling ==
    [does |-> Acts({"register", "trade", "party"}, {"trade"}, {"loot", "party"}),
     inv |-> [p \in Player |-> IF p = p1 THEN Have(None, nut, 1)
                               ELSE IF p = p2 THEN None
                               ELSE Have(Have(None, card, 2), apple, 1)],
     cart |-> [p \in Player |-> NoCart], ground |-> [Nothing EXCEPT ![apple] = 1], nextId |-> NoShopYet,
     post |-> NoMail,
     zeny |-> [p \in Player |-> IF p = p1 THEN 1 ELSE 0]]

\* One who sells as much as it may offers more, drops it, and comes and goes.
Relisting ==
    [does |-> Acts({"register", "auction", "drop", "away"}, {}, {}),
     inv |-> [p \in Player |-> IF p = p1 THEN Have(None, nut, 1) ELSE None],
     cart |-> [p \in Player |-> NoCart], ground |-> Nothing, nextId |-> NoShopYet,
     post |-> Selling(<<ForSale(p1, apple, NoPlayer, 1)>>),
     zeny |-> [p \in Player |-> IF p = p1 THEN 1 ELSE 0]]

\* Who leads one auction bids for another, or more for the same; it comes and
\* goes, and takes what it gets from its letters.
Collecting ==
    [does |-> Acts({}, {}, {"bid", "mail", "away"}),
     inv |-> [p \in Player |-> Have(None, card, 2)],
     cart |-> [p \in Player |-> NoCart], ground |-> Nothing, nextId |-> NoShopYet,
     post |-> Selling(<<ForSale(p1, nut, p3, 1), ForSale(p2, apple, NoPlayer, 1)>>),
     zeny |-> [p \in Player |-> 2]]

MCSetups ==
    {Partners, Trading, Purses, Vending, Restocking, Buying, Everything, Writing, FullInbox, Returning,
     Correspondence, Bidding, Registering, Refilling, Relisting, Collecting}

=============================================================================
