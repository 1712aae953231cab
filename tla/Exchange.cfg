CONSTANTS
    p1 = p1
    p2 = p2
    p3 = p3
    apple = apple
    card = card
    nut = nut
    Player = {p1, p2, p3}
    NoPlayer = NoPlayer
    Item = {apple, card, nut}
    NoItem = NoItem
    Name <- MCName
    Carded = {card}
    Slot = {1, 2}
    CartSlot = {1, 2}
    MaxAmount = 2
    MaxZeny = 3
    MaxWeight = 3
    VendingTax = 5000
    Prices = {1, 2}
    MaxDeal = 2
    MaxGoods = 2
    MaxStorage = 1
    MaxShops = 2
    MaxInbox = 2
    MaxMails = 5
    MaxWaiting = 2
    MaxLosses = 1
    MaxOwn = 1
    MaxPrice = 3
    AuctionFee = 1
    MaxAuctions = 2
    Setups <- MCSetups
SPECIFICATION PostSpec
CHECK_DEADLOCK FALSE
INVARIANTS TypeOK PartnersAgree OneExchangeAtATime PostTypeOK InboxInSync
PROPERTIES ItemsConserved ZenyConserved BidsHonoured TradedAsShown PurchasedAsSeen SoldAsSeen
