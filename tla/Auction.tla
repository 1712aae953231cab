------------------------------- MODULE Auction -------------------------------
(***************************************************************************)
(* Auctions (char/int_auction.c, with its half of map/clif.c and           *)
(* map/intif.c), beside the mail and the exchanges.                        *)
(*                                                                         *)
(* The char-server has the auctions; a player's item or bid is taken from  *)
(* it by the map-server before the char-server has heard of it, and what   *)
(* an auction gives somebody comes by mail, while what the char-server     *)
(* refuses comes back in its answer.                                       *)
(*                                                                         *)
(* The char-server's memory and table of auctions change in the same       *)
(* handlers and in the same way, so one variable stands for both.  Lists   *)
(* and notices for clients are not modelled; an auction lasts an hour, and *)
(* its timer may go off at any time.                                       *)
(***************************************************************************)
EXTENDS Mail

CONSTANTS MaxOwn,        \* 5: auctions of one seller, or one bidder leads
          MaxPrice,      \* auction_maximumprice
          AuctionFee,    \* auction_feeperhour
          MaxAuctions    \* bound: auctions ever held

\* As in MailAssumption.
ASSUME AuctionAssumption ==
    \A s \in Setups : \A p \in Player :
        s.does[p] \intersect {"register", "auction", "bid"} # {} =>
            s.does[p] \intersect {"leave", "vend", "buy", "sell"} = {}

Auctions == [seller : Player, buyer : Player \union {NoPlayer}, item : Item,
             price : 0..MaxPrice, buynow : 1..MaxPrice]
GoingOn == {a \in Auctions : a.price < a.buynow /\ a.buyer # a.seller}

\* Without a maximum price (the configuration has nothing against 0) auctions would
\* start below 0.
ASSUME PricesAssumption ==
    MaxPrice \in 1..MaxZeny /\ AuctionFee \in Nat /\ MaxOwn \in Nat /\ MaxAuctions \in Nat
\* The auctions there are at first; ids are left for the letters they lead to.
ASSUME AuctionsAssumption ==
    \A s \in Setups : \E n \in 0..MaxAuctions :
        /\ DOMAIN s.post.auctions = 1..n /\ s.post.nextMail - 1 + 2 * n <= MaxMails
        /\ \A i \in 1..n : s.post.auctions[i] \in GoingOn
        /\ \A p \in Player : Cardinality({i \in 1..n : s.post.auctions[i].seller = p}) <= MaxOwn

VARIABLES
    offer,       \* player -> sd->auction: {} or {the slot of what it would sell}
    auctions,    \* inter_auction->db and its table: id -> auction
    nextAuction  \* the table's AUTO_INCREMENT

auctionVars == <<offer, auctions, nextAuction>>

AuctionInit ==
    \E s \in Setups :
        /\ MailInitWith(s)
        /\ auctions = s.post.auctions
        /\ nextAuction = Cardinality(DOMAIN s.post.auctions) + 1
        /\ offer = [p \in Player |-> {}]

CharAuctions == <<auctions, nextAuction>>
Ware(item) == [NoEnclosure EXCEPT !.item = item, !.amount = 1]
Zeny(n) == [NoEnclosure EXCEPT !.zeny = n]

\* Bound: ids are left for the letters that are on the way, or that auctions
\* and bids can still lead to.
OnLink(type) == Cardinality({i \in DOMAIN toChar : toChar[i].type = type})
IdsLeft ==
    nextMail - 1 + OnLink("send") + OnLink("return") + OnLink("bid")
      + 2 * (OnLink("register") + Cardinality(DOMAIN auctions)) <= MaxMails

-----------------------------------------------------------------------------
(* The map-server. *)

\* Also what showing a list of one's own auctions does.
AuctionCancelreg(p) ==
    /\ Mails(p)
    /\ offer' = [offer EXCEPT ![p] = {}]
    /\ UNCHANGED <<sd, Others, letter, inbox, CharRows, away, Link, toChar, toMap, CharAuctions>>

\* What the slot holds is looked at again when the auction is registered.
AuctionSetitem(p, s) ==
    /\ Mails(p)
    /\ offer' = [offer EXCEPT ![p] = IF sd[p].inv[s].amount > 0 THEN {s} ELSE {}]
    /\ UNCHANGED <<sd, Others, letter, inbox, CharRows, away, Link, toChar, toMap, CharAuctions>>

\* The price to start at, below the price that ends the auction at once.
Capped(price, buynow) ==
    IF buynow <= MaxPrice THEN [price |-> price, buynow |-> buynow]
    ELSE [price |-> IF price >= MaxPrice THEN MaxPrice - 1 ELSE price, buynow |-> MaxPrice]

\* That p may be in a trade is not looked at.
AuctionRegister(p, price, buynow) ==
    /\ Mails(p) /\ up /\ price < buynow /\ sd[p].zeny >= AuctionFee
    /\ nextAuction + OnLink("register") <= MaxAuctions
    /\ \E s \in offer[p] :
         /\ sd[p].inv[s].item # NoItem
         /\ Changes(p, [sd[p] EXCEPT !.inv = PcDelItem(@, s, 1),
                                     !.zeny = PcPayZeny(@, AuctionFee)])
         /\ Asks(<<[type |-> "register", p |-> p,
                    price |-> Capped(price, buynow).price, buynow |-> Capped(price, buynow).buynow,
                    with |-> [Ware(sd[p].inv[s].item) EXCEPT !.zeny = AuctionFee]]>>)
         /\ Emptied(p, s)
    /\ offer' = [offer EXCEPT ![p] = {}]
    /\ UNCHANGED <<ground, purse, does, nextId, strayed, letter, inbox, CharRows, away, Link, toMap, CharAuctions>>

AuctionBid(p, id, bid) ==
    /\ Mails(p) /\ up /\ bid <= sd[p].zeny
    /\ Changes(p, [sd[p] EXCEPT !.zeny = PcPayZeny(@, bid)])
    /\ Asks(<<[type |-> "bid", p |-> p, id |-> id, with |-> Zeny(bid)]>>)
    /\ UNCHANGED <<Others, letter, inbox, CharRows, away, Link, toMap, offer, CharAuctions>>

AuctionCancel(p, id) ==
    /\ Mails(p) /\ Asks(<<[type |-> "cancel", p |-> p, id |-> id]>>)
    /\ UNCHANGED <<sd, Others, letter, inbox, CharRows, away, Link, toMap, offer, CharAuctions>>

AuctionClose(p, id) ==
    /\ Mails(p) /\ Asks(<<[type |-> "close", p |-> p, id |-> id]>>)
    /\ UNCHANGED <<sd, Others, letter, inbox, CharRows, away, Link, toMap, offer, CharAuctions>>

-----------------------------------------------------------------------------
(* The char-server. *)

\* inter_mail_sendmail, once for each: letters without a sender.
SendMails(mails) ==
    /\ rows' = [i \in DOMAIN rows \union (nextMail .. nextMail + Len(mails) - 1) |->
                  IF i < nextMail THEN rows[i]
                  ELSE [from |-> NoPlayer, to |-> mails[i - nextMail + 1].to, status |-> "new",
                        with |-> mails[i - nextMail + 1].with]]
    /\ nextMail' = nextMail + Len(mails)
NewsOf(mails) == [i \in DOMAIN mails |-> [type |-> "new", p |-> mails[i].to]]
To(p, with) == [to |-> p, with |-> with]
CharKeeps == UNCHANGED <<sd, Others, letter, inbox, away, Link, offer>>

Led(p) == {i \in DOMAIN auctions : auctions[i].buyer = p}
SoldBy(p) == {i \in DOMAIN auctions : auctions[i].seller = p}

\* The fee is given back with the item if the auction is refused.
MapifParseAuctionRegister ==
    /\ FromMap("register")
    /\ LET msg == Head(toChar)
           new == [seller |-> msg.p, buyer |-> NoPlayer, item |-> msg.with.item,
                   price |-> msg.price, buynow |-> msg.buynow]
           reply(with) == [type |-> "registered", p |-> msg.p, with |-> with]
       IN  IF Cardinality(SoldBy(msg.p)) < MaxOwn
           THEN /\ auctions' = [i \in DOMAIN auctions \union {nextAuction} |->
                                  IF i = nextAuction THEN new ELSE auctions[i]]
                /\ nextAuction' = nextAuction + 1
                /\ Answer(<<reply(NoEnclosure)>>)
           ELSE Answer(<<reply(msg.with)>>) /\ UNCHANGED CharAuctions
    /\ UNCHANGED CharRows /\ CharKeeps

\* Who led gets its bid back.
Outbid(a) == IF a.buyer = NoPlayer THEN << >> ELSE <<To(a.buyer, Zeny(a.price))>>

\* Mutant: a bid counts that was made before somebody bid more.
MayBidStale(msg) ==
    /\ msg.id \in DOMAIN auctions
    /\ auctions[msg.id].seller # msg.p

MayBid(msg) ==
    /\ msg.id \in DOMAIN auctions
    /\ LET a == auctions[msg.id]
       IN  /\ a.price < msg.with.zeny /\ a.seller # msg.p
           /\ \/ Cardinality(Led(msg.p)) < MaxOwn
              \/ msg.with.zeny >= a.buynow \/ a.buyer = msg.p

AuctionTakesBid(msg) ==
    LET a == auctions[msg.id]
        bid == msg.with.zeny
        reply(n) == <<[type |-> "bidding", p |-> msg.p, with |-> Zeny(n), done |-> TRUE]>>
        sold == <<To(msg.p, Ware(a.item)), To(a.seller, Zeny(a.buynow))>>
    IN  IF bid >= a.buynow
        THEN /\ SendMails(Outbid(a) \o sold)
             /\ Answer(NewsOf(Outbid(a)) \o reply(bid - a.buynow) \o NewsOf(sold))
             /\ auctions' = Without(auctions, msg.id)
        ELSE /\ SendMails(Outbid(a))
             /\ Answer(NewsOf(Outbid(a)) \o reply(0))
             /\ auctions' = [auctions EXCEPT ![msg.id].buyer = msg.p, ![msg.id].price = bid]

MapifParseAuctionBid ==
    /\ FromMap("bid")
    /\ LET msg == Head(toChar)
       IN  IF MayBid(msg) THEN AuctionTakesBid(msg)
           ELSE /\ Answer(<<[type |-> "bidding", p |-> msg.p, with |-> msg.with, done |-> FALSE]>>)
                /\ UNCHANGED <<CharRows, auctions>>
    /\ UNCHANGED nextAuction /\ CharKeeps

\* An auction ends: the item to who led and the zeny to who sold, or the item back.
EndMails(a) ==
    IF a.buyer = NoPlayer THEN <<To(a.seller, Ware(a.item))>>
    ELSE <<To(a.buyer, Ware(a.item)), To(a.seller, Zeny(a.price))>>

AuctionEndTimer(id) ==
    /\ id \in DOMAIN auctions
    /\ SendMails(EndMails(auctions[id]))
    /\ IF up THEN Answer(NewsOf(EndMails(auctions[id]))) ELSE UNCHANGED toMap
    /\ auctions' = Without(auctions, id)
    /\ UNCHANGED <<toChar, nextAuction>> /\ CharKeeps

MapifParseAuctionCancel ==
    /\ FromMap("cancel")
    /\ LET id == Head(toChar).id
       IN  IF id \in SoldBy(Head(toChar).p) \intersect Led(NoPlayer)
           THEN /\ SendMails(EndMails(auctions[id])) /\ Answer(NewsOf(EndMails(auctions[id])))
                /\ auctions' = Without(auctions, id)
           ELSE UNCHANGED <<CharRows, toMap, auctions>>
    /\ UNCHANGED nextAuction /\ CharKeeps

\* The seller takes the bid there is.
MapifParseAuctionClose ==
    /\ FromMap("close")
    /\ LET p == Head(toChar).p
           id == Head(toChar).id
           reply(done) == <<[type |-> "closed", p |-> p, done |-> done]>>
           ends == <<To(auctions[id].seller, Zeny(auctions[id].price)),
                     To(auctions[id].buyer, Ware(auctions[id].item))>>
       IN  IF id \in SoldBy(p) \ Led(NoPlayer)
           THEN /\ SendMails(ends) /\ Answer(NewsOf(ends) \o reply(TRUE))
                /\ auctions' = Without(auctions, id)
           ELSE Answer(reply(FALSE)) /\ UNCHANGED <<CharRows, auctions>>
    /\ UNCHANGED nextAuction /\ CharKeeps

-----------------------------------------------------------------------------
(* The map-server on the answers. *)

IntifParseAuctionRegister ==
    /\ FromChar("registered")
    /\ IF Present THEN Given(Head(toMap).p, Head(toMap).with) ELSE UNCHANGED sd
    /\ UNCHANGED <<Others, letter, inbox, CharRows, away, Link, toChar, offer, CharAuctions>>

\* What is shown then is the list of bids: nothing is chosen to be sold any more.
ShownList(p, done) == offer' = IF done THEN [offer EXCEPT ![p] = {}] ELSE offer

IntifParseAuctionBid ==
    /\ FromChar("bidding")
    /\ IF Present THEN /\ Given(Head(toMap).p, Head(toMap).with)
                       /\ ShownList(Head(toMap).p, Head(toMap).done)
                  ELSE UNCHANGED <<sd, offer>>
    /\ UNCHANGED <<Others, letter, inbox, CharRows, away, Link, toChar, CharAuctions>>

IntifParseAuctionClose ==
    /\ FromChar("closed")
    /\ IF Present THEN ShownList(Head(toMap).p, Head(toMap).done) ELSE UNCHANGED offer
    /\ UNCHANGED <<sd, Others, letter, inbox, CharRows, away, Link, toChar, CharAuctions>>

-----------------------------------------------------------------------------
AuctionNext ==
    \/ \E p \in Doing("register") :
        \/ AuctionCancelreg(p)
        \/ \E s \in Slot : AuctionSetitem(p, s)
        \/ \E price \in {1, MaxPrice}, buynow \in {MaxPrice, MaxPrice + 1} : AuctionRegister(p, price, buynow)
    \/ \E p \in Doing("auction"), id \in 1..(nextAuction - 1) : AuctionCancel(p, id) \/ AuctionClose(p, id)
    \/ \E p \in Doing("bid"), id \in 1..(nextAuction - 1), bid \in 1..MaxZeny : AuctionBid(p, id, bid)

AuctionParses ==
    \/ MapifParseAuctionRegister \/ MapifParseAuctionBid
    \/ MapifParseAuctionCancel \/ MapifParseAuctionClose
    \/ IntifParseAuctionRegister \/ IntifParseAuctionBid \/ IntifParseAuctionClose

\* Whoever leaves forgets what it would sell.
Elsewhere ==
    /\ AllNext
    /\ offer' = [p \in Player |-> IF p \in away' THEN {} ELSE offer[p]]
    /\ UNCHANGED CharAuctions

PostNext ==
    \/ (Elsewhere \/ AuctionNext) /\ IdsLeft'
    \/ AuctionParses
    \/ \E id \in 1..MaxAuctions : AuctionEndTimer(id)

PostSpec == AuctionInit /\ [][PostNext]_<<vars, mailVars, auctionVars>>

-----------------------------------------------------------------------------
(* What is promised. *)

\* The fields hold what the handlers may leave there; an auction that goes on was
\* not bought, and not by its seller; nobody sells more than it may.
PostTypeOK ==
    /\ MailTypeOK
    /\ \A p \in Player : offer[p] \subseteq Slot /\ Cardinality(offer[p]) <= 1
    /\ \A id \in DOMAIN auctions : id \in 1..(nextAuction - 1) /\ auctions[id] \in GoingOn
    /\ \A p \in Player : Cardinality(SoldBy(p)) <= MaxOwn
    /\ nextAuction \in 1..(MaxAuctions + 1)

\* What a message hands over, and all that is enclosed somewhere.
Handed(msg) == IF "with" \in DOMAIN msg THEN msg.with ELSE NoEnclosure
\* What an auction keeps: the item, and the bid of who leads.
Kept(a) == [Ware(a.item) EXCEPT !.zeny = IF a.buyer = NoPlayer THEN 0 ELSE a.price]
Enclosures(Count(_)) ==
    MapThenSumSet(LAMBDA i : Count(rows[i].with), DOMAIN rows)
    + MapThenSumSet(LAMBDA i : Count(Handed(toChar[i])), DOMAIN toChar)
    + MapThenSumSet(LAMBDA i : Count(Handed(toMap[i])), DOMAIN toMap)
    + MapThenSumSet(LAMBDA i : Count(Kept(auctions[i])), DOMAIN auctions)

\* Where units are; of a step that changes nothing there nothing is to be shown.
Holdings == <<[p \in Player |-> <<sd[p].inv, sd[p].cart, sd[p].store>>],
              ground, rows, toChar, toMap, auctions>>
AllUnits(item) ==
    Total(item) + Enclosures(LAMBDA with : IF with.item = item THEN with.amount ELSE 0)
AllWealth == Wealth + Enclosures(LAMBDA with : with.zeny)

\* A letter without a title; a letter deleted after a request about it was lost
\* with the link; the loss of the link.
LosesLetters ==
    \/ \E p \in Player : letter[p] # NoLetter /\ letter'[p] = NoLetter /\ toChar' = toChar
    \/ losses > 0 /\ toChar # << >> /\ Head(toChar).type = "delete" /\ toChar' = Tail(toChar)
    \/ losses' > losses
\* What arrives finds its player gone, ...
Arrives == toMap # << >> /\ toMap' = Tail(toMap)
FindsNobody == Arrives /\ Head(toMap).p \in away

\* No handler makes a unit of an item or loses one, with these exceptions.  Who
\* pays for it at a shop, or takes it at a buying store, has no slot that takes
\* it (pc_checkadditem looked at another item of that name, or was not asked).
\* A letter with it has no title, is deleted after a request about it was lost
\* with the link, or goes itself with the link; or it arrives where nobody is,
\* or no room.  Else deleted letters are empty and none is emptied twice, though
\* the map-server goes by a copy, and what is auctioned is its seller's, its
\* buyer's, or the auction's, whatever bids, cancellations and the end cross.
ItemsConserved ==
    [][Holdings' # Holdings => \A item \in Item :
         \/ AllUnits(item)' = AllUnits(item)
         \/ /\ AllUnits(item)' < AllUnits(item)
            /\ \/ \E p \in Player :
                    /\ sd'[p].zeny < sd[p].zeny
                    /\ \/ Holding(sd'[p].inv, item) \union Holding(sd'[p].inv, NoItem) = {}
                       \/ UnitsOf(sd'[p].inv, item) + Total(item) - Total(item)' > MaxAmount
               \/ LosesLetters \/ FindsNobody
               \/ Arrives /\ sd'[Head(toMap).p].inv = sd[Head(toMap).p].inv
                  /\ PcAddItem(sd[Head(toMap).p].inv, item, Handed(Head(toMap)).amount)
                       = sd[Head(toMap).p].inv]_<<vars, mailVars, auctionVars>>

\* No handler makes zeny.  Zeny is lost only as the tax on a sale, the fee of an
\* auction, or where the one who is paid for goods, or gets a letter, holds
\* MAX_ZENY then, or with a letter that is; a trade never loses any.
ZenyConserved ==
    [][\/ AllWealth' = AllWealth
       \/ /\ AllWealth' < AllWealth
          /\ \/ \E v \in Player :
                  /\ ~sd[v].trading \/ sd[v].vending
                  /\ \/ sd'[v].zeny = MaxZeny
                     \/ /\ sd[v].vending
                        /\ LET paid == sd'[v].zeny - sd[v].zeny + Wealth - Wealth'
                           IN  Wealth - Wealth' = (paid * VendingTax) \div 10000
             \/ LosesLetters \/ FindsNobody
             \/ nextAuction' > nextAuction /\ AllWealth - AllWealth' = AuctionFee
             \/ Arrives /\ sd'[Head(toMap).p].zeny = MaxZeny]_<<vars, mailVars, auctionVars>>

\* Zeny that is p's: in its purse, on its way to or from it, in letters to it, or
\* kept by an auction it leads; and the items, with those it sells.
IsFor(p, msg) == IF msg.p = p THEN Handed(msg) ELSE NoEnclosure
Owned(p, Count(_)) ==
    MapThenSumSet(LAMBDA i : Count(rows[i].with), LettersTo(p))
    + MapThenSumSet(LAMBDA i : Count(IsFor(p, toChar[i])), DOMAIN toChar)
    + MapThenSumSet(LAMBDA i : Count(IsFor(p, toMap[i])), DOMAIN toMap)
Purse(p) == sd[p].zeny + Owned(p, LAMBDA with : with.zeny)
              + MapThenSumSet(LAMBDA i : auctions[i].price, Led(p))
Goods(p, item) ==
    UnitsOf(sd[p].inv, item) + Owned(p, LAMBDA with : IF with.item = item THEN with.amount ELSE 0)
    + Cardinality({i \in SoldBy(p) : auctions[i].item = item})

Keep(ps, item) ==
    \A p \in ps : Purse(p)' = Purse(p) /\ Goods(p, item)' = Goods(p, item)
Sale(a, b, price) ==
    /\ Purse(b)' = Purse(b) - price /\ Purse(a.seller)' = Purse(a.seller) + price
    /\ Goods(b, a.item)' = Goods(b, a.item) + 1
    /\ Goods(a.seller, a.item)' = Goods(a.seller, a.item) - 1
    /\ Keep(Player \ {b, a.seller}, a.item)

\* Bids are honoured, in whatever order the bids of several players, closing,
\* cancelling and the timer reach the char-server.  While it goes on an auction
\* only gets dearer.  When one ends that somebody led or bought, one pays its
\* seller and has the item: who led pays its bid, or a bid that reaches the price
\* to buy at pays that.  All others, whoever was outbid, have all they had.
BidsHonoured ==
    [][nextAuction' = nextAuction =>
         \A id \in DOMAIN auctions : \A a \in {auctions[id]} :
            IF id \in DOMAIN auctions'
            THEN auctions'[id] # a => auctions'[id].price > a.price /\ Keep(Player, a.item)
            ELSE \/ a.buyer = NoPlayer /\ Keep(Player, a.item)
                 \/ a.buyer # NoPlayer /\ Sale(a, a.buyer, a.price)
                 \/ \E b \in Player : /\ Head(toChar).type = "bid" /\ Head(toChar).p = b
                                      /\ Sale(a, b, a.buynow)]_<<vars, mailVars, auctionVars>>

=============================================================================
