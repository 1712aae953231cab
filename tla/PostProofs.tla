----------------------------- MODULE PostProofs -----------------------------
(***************************************************************************)
(* The mail and the auctions beside the exchanges, for every set of        *)
(* players, items and slots, every limit and every setup: type correctness *)
(* of all of it, and that bids are honoured.  That ids are left for the    *)
(* letters that an auction or a message may still lead to is a count over  *)
(* the link and the auctions.                                              *)
(*                                                                         *)
(* What is a player's is a sum of sums, over letters, over the messages of *)
(* both directions of the link and over auctions, and each of the          *)
(* char-server's handlers moves worth between them: what it takes off one  *)
(* is what it puts onto others.                                            *)
(***************************************************************************)
EXTENDS ExchangeProofs

-----------------------------------------------------------------------------
(* Letters, messages and auctions.                                         *)

LetterData == [slot : Slot, name : {Name[i] : i \in Item} \union {NoItem},
               amount : 0..MaxAmount, zeny : 0..MaxZeny]
SeenLetters == {l \in Letters : l.status # "new"}
Box == [mails : UNION {[D -> SeenLetters] : D \in SUBSET (Nat \ {0})}, full : BOOLEAN, changed : BOOLEAN]
KnownIn(b) == \A i \in DOMAIN b.mails : i < nextMail

LetterTyped == letter \in [Player -> LetterData]
InboxTyped == inbox \in [Player -> Box] /\ \A p \in Player : KnownIn(inbox[p])
RowsTyped ==
    /\ nextMail \in Nat \ {0}
    /\ \A i \in DOMAIN rows : i \in 1..(nextMail - 1) /\ rows[i] \in Letters
AwayTyped == away \in SUBSET Player /\ up \in BOOLEAN /\ losses \in 0..MaxLosses
MailTyped == LetterTyped /\ InboxTyped /\ RowsTyped /\ AwayTyped

\* A message hands something over or not, as its type is.
HandsOver(m, types) == IF m.type \in types THEN "with" \in DOMAIN m /\ m.with \in Enclosure
                   ELSE "with" \notin DOMAIN m
ToCharTyped(m) ==
    /\ m.p \in Player /\ HandsOver(m, {"send", "register", "bid"})
    /\ m.type = "send" => m.to \in Player \union {NoPlayer}
    /\ m.type = "register" => /\ m.with.item \in Item /\ m.price \in 0..MaxPrice
                              /\ m.buynow \in 1..MaxPrice /\ m.price < m.buynow
    /\ m.type = "bid" => m.with = Zeny(m.with.zeny)
ToMapTyped(m) ==
    /\ m.p \in Player \union {NoPlayer} /\ HandsOver(m, {"attach", "sent", "registered", "bidding"})
    /\ m.type = "inbox" => m.box \in Box /\ KnownIn(m.box)
    /\ m.type # "new" => m.p \in Player
Requests(msgs) == IsSeq(msgs) /\ \A j \in DOMAIN msgs : ToCharTyped(msgs[j])
Answers(msgs) == IsSeq(msgs) /\ \A j \in DOMAIN msgs : ToMapTyped(msgs[j])
AskedRight == Requests(toChar)
AnsweredRight == Answers(toMap)
LinksTyped == AskedRight /\ AnsweredRight /\ (~up => toChar = << >> /\ toMap = << >>)

OfferTyped == offer \in [Player -> {{}} \union {{s} : s \in Slot}]
HouseTyped ==
    /\ \A id \in DOMAIN auctions : id \in 1..(nextAuction - 1) /\ auctions[id] \in GoingOn
    /\ nextAuction \in Nat \ {0} /\ nextAuction + OnLink("register") <= MaxAuctions + 1
    /\ \A p \in Player : Cardinality(SoldBy(p)) <= MaxOwn

PostTyped == WellTyped /\ MailTyped /\ LinksTyped /\ OfferTyped /\ HouseTyped /\ IdsLeft

-----------------------------------------------------------------------------
(* The links.                                                              *)

Count(q, type) == Cardinality({i \in DOMAIN q : q[i].type = type})

LEMMA CountIs ==
    ASSUME NEW q, IsSeq(q), NEW type
    PROVE  Count(q, type) \in Nat /\ Count(q, type) = SumOver([i \in DOMAIN q |-> IF q[i].type = type THEN 1 ELSE 0], DOMAIN q)
<1> DEFINE D == DOMAIN q
           A == {i \in D : q[i].type = type}
           F == [i \in D |-> IF q[i].type = type THEN 1 ELSE 0]
<1>1. PICK S : q \in Seq(S)
  BY DEF IsSeq
<1>2. D = 1..Len(q) /\ Len(q) \in Nat
  BY <1>1
<1>3. IsFiniteSet(D) /\ A \in SUBSET D /\ \A i \in D : F[i] = IF i \in A THEN 1 ELSE 0
  BY <1>2, FS_Interval
<1>4. Count(q, type) = Cardinality(A)
  BY DEF Count
<1>5. IsFiniteSet(A)
  BY <1>3, FS_Subset
<1> HIDE DEF D, A, F
<1>6. Cardinality(A) = SumOver(F, D)
  BY <1>3, CountIsSum
<1>7. Cardinality(A) \in Nat
  BY <1>5, FS_CardinalityType
<1> QED BY <1>4, <1>6, <1>7 DEF F, D

LEMMA CountTail ==
    ASSUME NEW q, IsSeq(q), q # << >>, NEW type
    PROVE  Count(q, type) = Count(Tail(q), type) + IF Head(q).type = type THEN 1 ELSE 0
<1> DEFINE F == [i \in DOMAIN q |-> IF q[i].type = type THEN 1 ELSE 0]
           G == [i \in DOMAIN Tail(q) |-> IF Tail(q)[i].type = type THEN 1 ELSE 0]
<1>1. PICK n \in Nat \ {0} : n = Len(q)
  BY Tailed
<1>2. /\ IsSeq(Tail(q)) /\ DOMAIN q = 1..n /\ DOMAIN Tail(q) = 1..(n - 1)
      /\ \A j \in 1..(n - 1) : Tail(q)[j] = q[j + 1]
      /\ Head(q) = q[1]
  BY <1>1, Tailed
<1>3. /\ \A i \in 1..n : F[i] \in Int
      /\ \A i \in 1..(n - 1) : G[i] = F[i + 1] /\ G[i] \in Int
      /\ F[1] = IF Head(q).type = type THEN 1 ELSE 0
  BY <1>2
<1>4. /\ Count(q, type) = SumOver(F, DOMAIN q)
      /\ Count(Tail(q), type) = SumOver(G, DOMAIN Tail(q))
      /\ Count(Tail(q), type) \in Nat
  BY <1>2, CountIs
<1> HIDE DEF F, G
<1>5. SumOver(F, 1..n) = F[1] + SumOver(G, 1..(n - 1))
  BY <1>3, SumTail
<1> QED BY <1>2, <1>3, <1>4, <1>5

LEMMA CountJoined ==
    ASSUME NEW s, NEW t, IsSeq(s), IsSeq(t), NEW type
    PROVE  Count(s \o t, type) = Count(s, type) + Count(t, type)
<1> DEFINE q == s \o t
           F == [i \in DOMAIN s |-> IF s[i].type = type THEN 1 ELSE 0]
           G == [i \in DOMAIN t |-> IF t[i].type = type THEN 1 ELSE 0]
           H == [i \in DOMAIN q |-> IF q[i].type = type THEN 1 ELSE 0]
<1>1. PICK n \in Nat, m \in Nat : n = Len(s) /\ m = Len(t)
  BY Joined
<1>2. /\ IsSeq(q) /\ DOMAIN s = 1..n /\ DOMAIN t = 1..m /\ DOMAIN q = 1..(n + m)
      /\ \A j \in 1..n : q[j] = s[j]
      /\ \A j \in 1..m : q[n + j] = t[j]
  BY <1>1, Joined
<1> HIDE DEF q
<1>3. /\ \A i \in 1..n : i \in 1..(n + m)
      /\ \A i \in 1..m : n + i \in 1..(n + m)
  OBVIOUS
<1>4. /\ \A i \in 1..n : F[i] \in Int /\ H[i] = F[i]
      /\ \A i \in 1..m : G[i] \in Int /\ H[n + i] = G[i]
  BY <1>2, <1>3
<1>5. /\ Count(s, type) = SumOver(F, DOMAIN s) /\ Count(t, type) = SumOver(G, DOMAIN t)
      /\ Count(q, type) = SumOver(H, DOMAIN q)
  BY <1>2, CountIs
<1> HIDE DEF F, G, H
<1>6. SumOver(H, 1..(n + m)) = SumOver(F, 1..n) + SumOver(G, 1..m)
  BY <1>4, SumJoined
<1> QED BY <1>2, <1>5, <1>6 DEF q

LEMMA CountNone ==
    ASSUME NEW q, NEW type, \A i \in DOMAIN q : q[i].type # type
    PROVE  Count(q, type) = 0
<1>1. {i \in DOMAIN q : q[i].type = type} = {}
  OBVIOUS
<1> QED BY <1>1, FS_EmptySet DEF Count

-----------------------------------------------------------------------------
(* What a step does to the links: requests are asked, or the first message *)
(* of one is taken off and answered.                                       *)

MailsOn == nextMail \in Nat /\ nextMail' \in Nat /\ nextMail <= nextMail'
NotOf(msgs, type) == \A j \in DOMAIN msgs : msgs[j].type # type

\* A letter that is known stays known.
LEMMA KnownGrows ==
    ASSUME MailsOn
    PROVE  /\ \A b \in Box : KnownIn(b) => \A i \in DOMAIN b.mails : i < nextMail'
           /\ \A m : ToMapTyped(m) => ToMapTyped(m)'
<1>1. \A b \in Box : DOMAIN b.mails \in SUBSET Nat
  <2> SUFFICES ASSUME NEW b \in Box PROVE DOMAIN b.mails \in SUBSET Nat
    OBVIOUS
  <2>1. b.mails \in UNION {[D -> SeenLetters] : D \in SUBSET (Nat \ {0})}
    BY DEF Box
  <2> QED BY <2>1
<1>2. \A b \in Box : KnownIn(b) => \A i \in DOMAIN b.mails : i < nextMail'
  <2> SUFFICES ASSUME NEW b \in Box, KnownIn(b), NEW i \in DOMAIN b.mails PROVE i < nextMail'
    OBVIOUS
  <2>1. i \in Nat /\ i < nextMail
    BY <1>1 DEF KnownIn
  <2> QED BY <2>1 DEF MailsOn
<1>3. ASSUME NEW m, ToMapTyped(m) PROVE ToMapTyped(m)'
  <2>1. m.type = "inbox" => m.box \in Box /\ \A i \in DOMAIN m.box.mails : i < nextMail'
    BY <1>2, <1>3 DEF ToMapTyped
  <2> QED BY <1>3, <2>1 DEF ToMapTyped, KnownIn
<1> QED BY <1>2, <1>3

LEMMA JoinedTyped ==
    ASSUME NEW s, NEW t, Requests(s), Requests(t)
    PROVE  Requests(s \o t) /\ Count(s \o t, "register") = Count(s, "register") + Count(t, "register")
<1> DEFINE q == s \o t
<1>1. PICK n \in Nat, m \in Nat : n = Len(s) /\ m = Len(t)
  BY Joined DEF Requests
<1>2. /\ IsSeq(q) /\ DOMAIN s = 1..n /\ DOMAIN t = 1..m /\ DOMAIN q = 1..(n + m)
      /\ \A j \in 1..n : q[j] = s[j]
      /\ \A j \in 1..m : q[n + j] = t[j]
  BY <1>1, Joined DEF Requests
<1>3. ASSUME NEW j \in DOMAIN q PROVE ToCharTyped(q[j])
  <2> HIDE DEF q
  <2>1. j \in 1..n \/ (j - n \in 1..m /\ j = n + (j - n))
    BY <1>2
  <2>2. CASE j \in 1..n
    BY <1>2, <2>2 DEF Requests
  <2>3. CASE j - n \in 1..m /\ j = n + (j - n)
    <3>1. q[j] = t[j - n]
      BY <1>2, <2>3
    <3> QED BY <1>2, <2>3, <3>1 DEF Requests
  <2> QED BY <2>1, <2>2, <2>3
<1> QED BY <1>2, <1>3, CountJoined DEF Requests

LEMMA TailTyped ==
    ASSUME NEW q, Requests(q), q # << >>
    PROVE  /\ Requests(Tail(q)) /\ ToCharTyped(Head(q))
           /\ \A type : /\ Count(Tail(q), type) \in Nat
                        /\ Count(q, type) = Count(Tail(q), type) + IF Head(q).type = type THEN 1 ELSE 0
<1>1. PICK n \in Nat \ {0} : n = Len(q)
  BY Tailed DEF Requests
<1>2. /\ IsSeq(Tail(q)) /\ DOMAIN q = 1..n /\ DOMAIN Tail(q) = 1..(n - 1)
      /\ \A j \in 1..(n - 1) : Tail(q)[j] = q[j + 1] /\ j + 1 \in 1..n
      /\ Head(q) = q[1] /\ 1 \in 1..n
  BY <1>1, Tailed DEF Requests
<1>3. ASSUME NEW type
      PROVE  /\ Count(q, type) = Count(Tail(q), type) + IF Head(q).type = type THEN 1 ELSE 0
             /\ Count(Tail(q), type) \in Nat
  BY <1>2, CountTail, CountIs DEF Requests
<1> QED BY <1>2, <1>3 DEF Requests

\* The same of the other direction, where a message may name a letter.
LEMMA AnswersJoined ==
    ASSUME MailsOn, NEW s, NEW t, Answers(s), IsSeq(t), \A j \in DOMAIN t : ToMapTyped(t[j])'
    PROVE  IsSeq(s \o t) /\ \A j \in DOMAIN (s \o t) : ToMapTyped((s \o t)[j])'
<1> DEFINE q == s \o t
<1>1. PICK n \in Nat, m \in Nat : n = Len(s) /\ m = Len(t)
  BY Joined DEF Answers
<1>2. /\ IsSeq(q) /\ DOMAIN s = 1..n /\ DOMAIN t = 1..m /\ DOMAIN q = 1..(n + m)
      /\ \A j \in 1..n : q[j] = s[j]
      /\ \A j \in 1..m : q[n + j] = t[j]
  BY <1>1, Joined DEF Answers
<1>3. ASSUME NEW j \in DOMAIN q PROVE ToMapTyped(q[j])'
  <2> HIDE DEF q
  <2>1. j \in 1..n \/ (j - n \in 1..m /\ j = n + (j - n))
    BY <1>2
  <2>2. CASE j \in 1..n
    <3>1. ToMapTyped(s[j]) /\ q[j] = s[j]
      BY <1>2, <2>2 DEF Answers
    <3> QED BY <3>1, KnownGrows
  <2>3. CASE j - n \in 1..m /\ j = n + (j - n)
    <3>1. q[j] = t[j - n]
      BY <1>2, <2>3
    <3> QED BY <1>2, <2>3, <3>1
  <2> QED BY <2>1, <2>2, <2>3
<1> QED BY <1>2, <1>3

LEMMA AnswersTail ==
    ASSUME MailsOn, NEW q, Answers(q), q # << >>
    PROVE  IsSeq(Tail(q)) /\ (\A j \in DOMAIN Tail(q) : ToMapTyped(Tail(q)[j])') /\ ToMapTyped(Head(q))
<1>1. PICK n \in Nat \ {0} : n = Len(q)
  BY Tailed DEF Answers
<1>2. /\ IsSeq(Tail(q)) /\ DOMAIN q = 1..n /\ DOMAIN Tail(q) = 1..(n - 1)
      /\ \A j \in 1..(n - 1) : Tail(q)[j] = q[j + 1] /\ j + 1 \in 1..n
      /\ Head(q) = q[1] /\ 1 \in 1..n
  BY <1>1, Tailed DEF Answers
<1>3. ASSUME NEW j \in 1..(n - 1) PROVE ToMapTyped(Tail(q)[j])'
  <2>1. ToMapTyped(q[j + 1]) /\ Tail(q)[j] = q[j + 1]
    BY <1>2 DEF Answers
  <2> QED BY <2>1, KnownGrows
<1> QED BY <1>2, <1>3 DEF Answers


LEMMA OnLinkIs ==
    ASSUME AskedRight, NEW type
    PROVE  OnLink(type) = Count(toChar, type) /\ OnLink(type) \in Nat
BY CountIs DEF OnLink, Count, AskedRight, Requests

LEMMA LinkStays ==
    ASSUME AskedRight, toChar' = toChar
    PROVE  AskedRight' /\ \A type : OnLink(type)' = OnLink(type)
BY DEF OnLink, AskedRight, Requests

LEMMA LinkAsks ==
    ASSUME AskedRight, NEW msgs, Requests(msgs), Asks(msgs)
    PROVE  /\ AskedRight' /\ (~up => toChar' = toChar)
           /\ NotOf(msgs, "register") => OnLink("register")' = OnLink("register")
           /\ OnLink("register")' <= OnLink("register") + Count(msgs, "register")
<1>1. OnLink("register") = Count(toChar, "register") /\ Count(toChar, "register") \in Nat
  BY OnLinkIs
<1>2. Count(msgs, "register") \in Nat /\ (NotOf(msgs, "register") => Count(msgs, "register") = 0)
  BY CountIs, CountNone DEF Requests, NotOf
<1>3. OnLink("register")' = Count(toChar', "register")
  BY DEF OnLink, Count
<1>4. CASE up
  <2>1. toChar' = toChar \o msgs
    BY <1>4 DEF Asks
  <2>2. Requests(toChar') /\ Count(toChar', "register") = Count(toChar, "register") + Count(msgs, "register")
    BY <2>1, JoinedTyped DEF AskedRight
  <2> QED BY <1>1, <1>2, <1>3, <1>4, <2>2 DEF AskedRight, Requests
<1>5. CASE ~up
  <2>1. toChar' = toChar
    BY <1>5 DEF Asks
  <2>2. AskedRight' /\ Count(toChar', "register") = Count(toChar, "register")
    BY <2>1, LinkStays
  <2> QED BY <1>1, <1>2, <1>3, <2>1, <2>2
<1> QED BY <1>4, <1>5

LEMMA LinkParses ==
    ASSUME AskedRight, toChar # << >>, toChar' = Tail(toChar)
    PROVE  /\ AskedRight' /\ ToCharTyped(Head(toChar))
           /\ \A type : /\ OnLink(type)' \in Nat /\ OnLink(type) \in Nat
                        /\ OnLink(type) = OnLink(type)' + IF Head(toChar).type = type THEN 1 ELSE 0
<1>1. /\ Requests(toChar') /\ ToCharTyped(Head(toChar))
      /\ \A type : /\ Count(toChar', type) \in Nat
                   /\ Count(toChar, type) = Count(toChar', type) + IF Head(toChar).type = type THEN 1 ELSE 0
  BY TailTyped DEF AskedRight
<1>2. AskedRight'
  BY <1>1 DEF AskedRight, Requests
<1>3. \A type : OnLink(type)' = Count(toChar', type)
  BY DEF OnLink, Count
<1>4. \A type : OnLink(type) = Count(toChar, type) /\ OnLink(type) \in Nat
  BY OnLinkIs
<1> QED BY <1>1, <1>2, <1>3, <1>4

LEMMA AnswersStay ==
    ASSUME MailsOn, AnsweredRight, toMap' = toMap
    PROVE  AnsweredRight'
BY KnownGrows DEF AnsweredRight, Answers

LEMMA AnswersAre ==
    ASSUME MailsOn, AnsweredRight, NEW msgs, Answer(msgs), IsSeq(msgs),
           \A j \in DOMAIN msgs : ToMapTyped(msgs[j])'
    PROVE  AnsweredRight'
<1>1. PICK s, q : s = toMap /\ q = s \o msgs
  OBVIOUS
<1>2. IsSeq(q) /\ \A j \in DOMAIN q : ToMapTyped(q[j])'
  <2>1. Answers(s)
    BY <1>1 DEF AnsweredRight
  <2>2. IsSeq(s \o msgs) /\ \A j \in DOMAIN (s \o msgs) : ToMapTyped((s \o msgs)[j])'
    BY <2>1, AnswersJoined
  <2> QED BY <1>1, <2>2
<1>3. toMap' = q
  BY <1>1 DEF Answer
<1> QED BY <1>2, <1>3 DEF AnsweredRight, Answers

LEMMA AnswerTaken ==
    ASSUME MailsOn, AnsweredRight, toMap # << >>, toMap' = Tail(toMap)
    PROVE  AnsweredRight' /\ ToMapTyped(Head(toMap))
<1>1. PICK s, q : s = toMap /\ q = Tail(s)
  OBVIOUS
<1>2. IsSeq(q) /\ (\A j \in DOMAIN q : ToMapTyped(q[j])') /\ ToMapTyped(Head(s))
  <2>1. Answers(s) /\ s # << >>
    BY <1>1 DEF AnsweredRight
  <2>2. IsSeq(Tail(s)) /\ (\A j \in DOMAIN Tail(s) : ToMapTyped(Tail(s)[j])') /\ ToMapTyped(Head(s))
    BY <2>1, AnswersTail
  <2> QED BY <1>1, <2>2
<1> QED BY <1>1, <1>2 DEF AnsweredRight, Answers

-----------------------------------------------------------------------------
(* Letters and inboxes. *)

LEMMA EnclosuresAre ==
    /\ NoEnclosure \in Enclosure
    /\ \A e \in Enclosure : e.item \in Item \union {NoItem} /\ e.amount \in 0..MaxAmount /\ e.zeny \in 0..MaxZeny
    /\ \A i \in Item \union {NoItem}, n \in 0..MaxAmount, z \in 0..MaxZeny :
          [item |-> i, amount |-> n, zeny |-> z] \in Enclosure
BY LimitsAssumption DEF Enclosure, NoEnclosure

LEMMA LettersAre ==
    ASSUME NEW l \in Letters
    PROVE  /\ l.from \in Player \union {NoPlayer} /\ l.to \in Player \union {NoPlayer} /\ l.with \in Enclosure
           /\ l.status \in {"new", "unread", "read"}
           /\ [l EXCEPT !.status = "read"] \in SeenLetters
           /\ [l EXCEPT !.status = Seen(@)] \in SeenLetters
           /\ [l EXCEPT !.with = NoEnclosure] \in Letters
           /\ l.status # "new" => [l EXCEPT !.with = NoEnclosure] \in SeenLetters
           /\ \A a, b \in Player \union {NoPlayer} : [l EXCEPT !.from = a, !.to = b, !.status = "new"] \in Letters
<1>1. NoEnclosure \in Enclosure
  BY EnclosuresAre
<1> HIDE DEF NoEnclosure
<1>2. /\ l.from \in Player \union {NoPlayer} /\ l.to \in Player \union {NoPlayer} /\ l.with \in Enclosure
      /\ l.status \in {"new", "unread", "read"}
  BY DEF Letters
<1>3. [l EXCEPT !.status = "read"] \in Letters /\ [l EXCEPT !.status = "read"].status # "new"
  BY DEF Letters
<1>4. [l EXCEPT !.status = Seen(@)] \in Letters /\ [l EXCEPT !.status = Seen(@)].status # "new"
  BY DEF Letters, Seen
<1>5. [l EXCEPT !.with = NoEnclosure] \in Letters /\ [l EXCEPT !.with = NoEnclosure].status = l.status
  BY <1>1 DEF Letters
<1>6. \A a, b \in Player \union {NoPlayer} : [l EXCEPT !.from = a, !.to = b, !.status = "new"] \in Letters
  BY DEF Letters
<1> QED BY <1>2, <1>3, <1>4, <1>5, <1>6 DEF SeenLetters

LEMMA SentIs ==
    ASSUME NEW a \in Player \union {NoPlayer}, NEW b \in Player \union {NoPlayer}, NEW e \in Enclosure
    PROVE  [from |-> a, to |-> b, status |-> "new", with |-> e] \in Letters
BY DEF Letters

LEMMA BoxIs ==
    ASSUME NEW b \in Box
    PROVE  /\ b = [mails |-> b.mails, full |-> b.full, changed |-> b.changed]
           /\ DOMAIN b.mails \in SUBSET (Nat \ {0}) /\ b.mails \in [DOMAIN b.mails -> SeenLetters]
           /\ b.full \in BOOLEAN /\ b.changed \in BOOLEAN
<1>1. /\ b = [mails |-> b.mails, full |-> b.full, changed |-> b.changed]
      /\ b.mails \in UNION {[D -> SeenLetters] : D \in SUBSET (Nat \ {0})}
      /\ b.full \in BOOLEAN /\ b.changed \in BOOLEAN
  BY DEF Box
<1> QED BY <1>1

LEMMA BoxMade ==
    ASSUME NEW D \in SUBSET (Nat \ {0}), NEW f \in [D -> SeenLetters], NEW full \in BOOLEAN, NEW changed \in BOOLEAN
    PROVE  [mails |-> f, full |-> full, changed |-> changed] \in Box
<1>1. f \in UNION {[E -> SeenLetters] : E \in SUBSET (Nat \ {0})}
  OBVIOUS
<1> QED BY <1>1 DEF Box

\* What stays of the mail when its parts do.
LEMMA MailStays ==
    ASSUME MailTyped, MailsOn
    PROVE  /\ letter' = letter => LetterTyped'
           /\ inbox' = inbox => InboxTyped'
           /\ UNCHANGED CharRows => RowsTyped'
           /\ UNCHANGED <<away, Link>> => AwayTyped'
<1>1. letter' = letter => LetterTyped'
  BY DEF MailTyped, LetterTyped, LetterData
<1>2. ASSUME inbox' = inbox PROVE InboxTyped'
  <2>1. \A p \in Player : inbox[p] \in Box /\ KnownIn(inbox[p])
    BY DEF MailTyped, InboxTyped
  <2>2. \A p \in Player : \A i \in DOMAIN inbox[p].mails : i < nextMail'
    BY <2>1, KnownGrows
  <2> QED BY <1>2, <2>2 DEF MailTyped, InboxTyped, KnownIn
<1>3. UNCHANGED CharRows => RowsTyped'
  BY DEF CharRows, MailTyped, RowsTyped
<1>4. UNCHANGED <<away, Link>> => AwayTyped'
  BY DEF Link, MailTyped, AwayTyped
<1> QED BY <1>1, <1>2, <1>3, <1>4

LEMMA NoMoreMails ==
    ASSUME MailTyped
    PROVE  UNCHANGED CharRows => MailsOn
BY DEF MailTyped, RowsTyped, CharRows, MailsOn

LEMMA InboxIs ==
    ASSUME MailTyped, MailsOn, NEW p \in Player, NEW b \in Box, \A i \in DOMAIN b.mails : i < nextMail',
           inbox' = [inbox EXCEPT ![p] = b]
    PROVE  InboxTyped'
<1>1. inbox \in [Player -> Box] /\ \A q \in Player : KnownIn(inbox[q])
  BY DEF MailTyped, InboxTyped
<1>2. inbox' \in [Player -> Box]
  BY <1>1
<1>3. \A q \in Player : \A i \in DOMAIN inbox[q].mails : i < nextMail'
  BY <1>1, KnownGrows
<1>4. ASSUME NEW q \in Player PROVE \A i \in DOMAIN inbox'[q].mails : i < nextMail'
  <2>1. inbox'[q] = IF q = p THEN b ELSE inbox[q]
    BY <1>1
  <2> QED BY <2>1, <1>3
<1> QED BY <1>2, <1>4 DEF InboxTyped, KnownIn

LEMMA LetterIs ==
    ASSUME MailTyped, NEW p \in Player
    PROVE  /\ LetterGone(p) => LetterTyped'
           /\ \A l \in LetterData : letter' = [letter EXCEPT ![p] = l] => LetterTyped'
           /\ letter[p] \in LetterData /\ NoLetter \in LetterData
           /\ letter[p].slot \in Slot /\ letter[p].amount \in 0..MaxAmount /\ letter[p].zeny \in 0..MaxZeny
<1>1. Min(Slot) \in Slot
  BY SlotAssumption, MinIs
<1>2. NoLetter \in LetterData
  BY <1>1, LimitsAssumption DEF LetterData, NoLetter
<1>3. letter \in [Player -> LetterData]
  BY DEF MailTyped, LetterTyped
<1>4. \A l \in LetterData : letter' = [letter EXCEPT ![p] = l] => LetterTyped'
  BY <1>3 DEF LetterTyped, LetterData
<1>5. letter[p] \in LetterData
  BY <1>3
<1>6. letter[p].slot \in Slot /\ letter[p].amount \in 0..MaxAmount /\ letter[p].zeny \in 0..MaxZeny
  BY <1>5 DEF LetterData
<1> QED BY <1>2, <1>4, <1>5, <1>6 DEF LetterGone

LEMMA InboxOfIs ==
    ASSUME RowsTyped, NEW p \in Player
    PROVE  InboxOf(p) \in Box /\ KnownIn(InboxOf(p)) /\ Listed(p) \in SUBSET (DOMAIN rows)
           /\ \A i \in Listed(p) : InboxOf(p).mails[i] \in Letters
<1> DEFINE f == [i \in Listed(p) |-> [rows[i] EXCEPT !.status = Seen(@)]]
<1>1. \A i \in DOMAIN rows : i \in Nat \ {0} /\ i < nextMail /\ rows[i] \in Letters
  BY DEF RowsTyped
<1>2. Listed(p) \in SUBSET (DOMAIN rows)
  BY DEF Listed, LettersTo
<1>3. \A i \in Listed(p) : [rows[i] EXCEPT !.status = Seen(@)] \in SeenLetters
  BY <1>1, <1>2, LettersAre
<1>4. f \in [Listed(p) -> SeenLetters] /\ Listed(p) \in SUBSET (Nat \ {0})
  BY <1>1, <1>2, <1>3
<1> HIDE DEF f
<1>5. InboxOf(p) = [mails |-> f, full |-> Listed(p) # LettersTo(p), changed |-> FALSE]
  BY DEF InboxOf, f
<1>6. (Listed(p) # LettersTo(p)) \in BOOLEAN /\ FALSE \in BOOLEAN
  OBVIOUS
<1>7. InboxOf(p) \in Box
  BY <1>4, <1>5, <1>6, BoxMade
<1>8. InboxOf(p).mails = f /\ DOMAIN f = Listed(p)
  BY <1>4, <1>5
<1>9. KnownIn(InboxOf(p))
  BY <1>1, <1>2, <1>8 DEF KnownIn
<1>10. \A i \in Listed(p) : InboxOf(p).mails[i] \in Letters
  BY <1>3, <1>8 DEF f, SeenLetters
<1> QED BY <1>2, <1>7, <1>9, <1>10

\* An inbox where a letter is read, emptied or taken out.
LEMMA BoxChanged ==
    ASSUME MailTyped, NEW p \in Player, NEW id
    PROVE  /\ id \in DOMAIN inbox[p].mails =>
                /\ [inbox[p] EXCEPT !.mails[id].status = "read"] \in Box
                /\ [inbox[p] EXCEPT !.mails[id].with = NoEnclosure] \in Box
                /\ [inbox[p] EXCEPT !.mails[id] = [[inbox[p].mails[id] EXCEPT !.status = "read"] EXCEPT !.with = NoEnclosure]] \in Box
           /\ [inbox[p] EXCEPT !.mails = Without(@, id)] \in Box
<1> DEFINE b == inbox[p]
           D == DOMAIN b.mails
<1>1. b \in Box
  BY DEF MailTyped, InboxTyped
<1> HIDE DEF b
<1>2. /\ b = [mails |-> b.mails, full |-> b.full, changed |-> b.changed]
      /\ D \in SUBSET (Nat \ {0}) /\ b.mails \in [D -> SeenLetters]
      /\ b.full \in BOOLEAN /\ b.changed \in BOOLEAN
  BY <1>1, BoxIs
<1>3. \A f, E : E \in SUBSET (Nat \ {0}) /\ f \in [E -> SeenLetters] => [b EXCEPT !.mails = f] \in Box
  <2> SUFFICES ASSUME NEW f, NEW E, E \in SUBSET (Nat \ {0}), f \in [E -> SeenLetters]
               PROVE  [b EXCEPT !.mails = f] \in Box
    OBVIOUS
  <2>1. [b EXCEPT !.mails = f] = [mails |-> f, full |-> b.full, changed |-> b.changed]
    BY <1>2
  <2>2. [mails |-> f, full |-> b.full, changed |-> b.changed] \in Box
    BY <1>2, BoxMade
  <2> QED BY <2>1, <2>2
<1>4. \A l \in SeenLetters : [b.mails EXCEPT ![id] = l] \in [D -> SeenLetters]
  BY <1>2
<1>5. ASSUME id \in D PROVE b.mails[id] \in Letters /\ b.mails[id].status # "new"
  BY <1>2, <1>5 DEF SeenLetters
<1>6. ASSUME NEW l \in SeenLetters PROVE [b EXCEPT !.mails[id] = l] \in Box
  <2>1. [b EXCEPT !.mails[id] = l] = [b EXCEPT !.mails = [b.mails EXCEPT ![id] = l]]
    BY <1>2
  <2> QED BY <2>1, <1>2, <1>3, <1>4
<1>7. ASSUME id \in D PROVE [b EXCEPT !.mails[id].status = "read"] \in Box
  <2>1. [b EXCEPT !.mails[id].status = "read"] = [b EXCEPT !.mails[id] = [b.mails[id] EXCEPT !.status = "read"]]
    BY <1>2
  <2> QED BY <2>1, <1>5, <1>6, <1>7, LettersAre
<1>8. ASSUME id \in D PROVE [b EXCEPT !.mails[id].with = NoEnclosure] \in Box
  <2>1. [b EXCEPT !.mails[id].with = NoEnclosure] = [b EXCEPT !.mails[id] = [b.mails[id] EXCEPT !.with = NoEnclosure]]
    BY <1>2
  <2> QED BY <2>1, <1>5, <1>6, <1>8, LettersAre
<1>9. ASSUME id \in D
      PROVE  [b EXCEPT !.mails[id] = [[b.mails[id] EXCEPT !.status = "read"] EXCEPT !.with = NoEnclosure]] \in Box
  <2>1. [b.mails[id] EXCEPT !.status = "read"] \in Letters /\ [b.mails[id] EXCEPT !.status = "read"].status # "new"
    BY <1>5, <1>9, LettersAre DEF SeenLetters
  <2>2. [[b.mails[id] EXCEPT !.status = "read"] EXCEPT !.with = NoEnclosure] \in SeenLetters
    BY <2>1, LettersAre
  <2> QED BY <2>2, <1>6
<1>10. [b EXCEPT !.mails = Without(@, id)] \in Box
  <2>1. Without(b.mails, id) \in [D \ {id} -> SeenLetters]
    BY <1>2 DEF Without
  <2> QED BY <2>1, <1>2, <1>3
<1> QED BY <1>7, <1>8, <1>9, <1>10 DEF b

-----------------------------------------------------------------------------
(* What a player does with its mail. *)

MailStep == WellTyped' /\ MailTyped' /\ LinksTyped' /\ OnLink("register")' <= OnLink("register")

\* Requests that are sent, if any; nothing else happens on the link.
Sends(msgs) == Requests(msgs) /\ NotOf(msgs, "register") /\ Asks(msgs)

LEMMA Sent ==
    ASSUME MailTyped, LinksTyped, UNCHANGED <<CharRows, Link, toMap>>,
           toChar' = toChar \/ \E msgs : Sends(msgs)
    PROVE  LinksTyped' /\ OnLink("register")' <= OnLink("register") /\ MailsOn
<1>1. MailsOn
  BY NoMoreMails
<1>2. AnsweredRight'
  BY <1>1, AnswersStay DEF LinksTyped
<1>3. OnLink("register") \in Nat /\ AskedRight
  BY OnLinkIs DEF LinksTyped
<1>4. AskedRight' /\ (~up => toChar' = toChar) /\ OnLink("register")' = OnLink("register")
  <2>1. CASE toChar' = toChar
    BY <2>1, <1>3, LinkStays
  <2>2. CASE \E msgs : Sends(msgs)
    BY <2>2, <1>3, LinkAsks DEF Sends
  <2> QED BY <2>1, <2>2
<1>5. ~up' => toChar' = << >> /\ toMap' = << >>
  BY <1>4 DEF LinksTyped, Link
<1> QED BY <1>1, <1>2, <1>3, <1>4, <1>5 DEF LinksTyped

\* One request, or none.
LEMMA OneRequest ==
    /\ Requests(<< >>) /\ NotOf(<< >>, "register")
    /\ \A m : ToCharTyped(m) /\ m.type # "register" => Requests(<<m>>) /\ NotOf(<<m>>, "register")
    /\ \A s, t : Requests(s) /\ NotOf(s, "register") /\ Requests(t) /\ NotOf(t, "register")
                 => Requests(s \o t) /\ NotOf(s \o t, "register")
<1>1. Requests(<< >>) /\ NotOf(<< >>, "register")
  <2>1. IsSeq(<< >>)
    BY Short
  <2>2. \A j \in DOMAIN << >> : FALSE
    OBVIOUS
  <2> QED BY <2>1, <2>2 DEF Requests, NotOf
<1>2. ASSUME NEW m, ToCharTyped(m), m.type # "register" PROVE Requests(<<m>>) /\ NotOf(<<m>>, "register")
  BY <1>2, Short DEF Requests, NotOf
<1>3. ASSUME NEW s, NEW t, Requests(s), NotOf(s, "register"), Requests(t), NotOf(t, "register")
      PROVE  Requests(s \o t) /\ NotOf(s \o t, "register")
  <2> DEFINE q == s \o t
  <2>1. Requests(q)
    BY <1>3, JoinedTyped
  <2>2. PICK n \in Nat, m \in Nat : n = Len(s) /\ m = Len(t)
    BY <1>3, Joined DEF Requests
  <2>3. /\ DOMAIN s = 1..n /\ DOMAIN t = 1..m /\ DOMAIN q = 1..(n + m)
        /\ \A j \in 1..n : q[j] = s[j]
        /\ \A j \in 1..m : q[n + j] = t[j]
    BY <1>3, <2>2, Joined DEF Requests
  <2>4. ASSUME NEW j \in DOMAIN q PROVE q[j].type # "register"
    <3> HIDE DEF q
    <3>1. j \in 1..n \/ (j - n \in 1..m /\ j = n + (j - n))
      BY <2>3
    <3>2. CASE j \in 1..n
      BY <1>3, <2>3, <3>2 DEF NotOf
    <3>3. CASE j - n \in 1..m /\ j = n + (j - n)
      <4>1. q[j] = t[j - n]
        BY <2>3, <3>3
      <4> QED BY <1>3, <2>3, <3>3, <4>1 DEF NotOf
    <3> QED BY <3>1, <3>2, <3>3
  <2> QED BY <2>1, <2>4 DEF NotOf
<1> QED BY <1>1, <1>2, <1>3

LEMMA RequestsAre ==
    ASSUME NEW p \in Player, NEW id
    PROVE  /\ Requests(InboxRequest(p)) /\ NotOf(InboxRequest(p), "register")
           /\ Requests(ReadRequests(p, id)) /\ NotOf(ReadRequests(p, id), "register")
           /\ \A t \in {"inbox"} : Requests(<<[type |-> t, p |-> p]>>) /\ NotOf(<<[type |-> t, p |-> p]>>, "register")
           /\ \A t \in {"read", "getattach", "delete", "return", "cancel", "close"} :
                 Requests(<<[type |-> t, p |-> p, id |-> id]>>) /\ NotOf(<<[type |-> t, p |-> p, id |-> id]>>, "register")
           /\ Requests(ReadRequests(p, id) \o <<[type |-> "getattach", p |-> p, id |-> id]>>)
           /\ NotOf(ReadRequests(p, id) \o <<[type |-> "getattach", p |-> p, id |-> id]>>, "register")
<1>1. \A t \in {"inbox"} : Requests(<<[type |-> t, p |-> p]>>) /\ NotOf(<<[type |-> t, p |-> p]>>, "register")
  <2>1. \A t \in {"inbox"} : ToCharTyped([type |-> t, p |-> p]) /\ [type |-> t, p |-> p].type # "register"
    BY DEF ToCharTyped, HandsOver
  <2> QED BY <2>1, OneRequest
<1>2. \A t \in {"read", "getattach", "delete", "return", "cancel", "close"} :
         Requests(<<[type |-> t, p |-> p, id |-> id]>>) /\ NotOf(<<[type |-> t, p |-> p, id |-> id]>>, "register")
  <2>1. \A t \in {"read", "getattach", "delete", "return", "cancel", "close"} :
           ToCharTyped([type |-> t, p |-> p, id |-> id]) /\ [type |-> t, p |-> p, id |-> id].type # "register"
    BY DEF ToCharTyped, HandsOver
  <2> QED BY <2>1, OneRequest
<1>3. Requests(InboxRequest(p)) /\ NotOf(InboxRequest(p), "register")
  BY <1>1, OneRequest DEF InboxRequest
<1>4. Requests(ReadRequests(p, id)) /\ NotOf(ReadRequests(p, id), "register")
  <2>1. /\ Requests(<<[type |-> "read", p |-> p, id |-> id]>>)
        /\ NotOf(<<[type |-> "read", p |-> p, id |-> id]>>, "register")
    BY <1>2
  <2> HIDE DEF InboxRequest
  <2> QED BY <1>3, <2>1, OneRequest DEF ReadRequests
<1>5. /\ Requests(ReadRequests(p, id) \o <<[type |-> "getattach", p |-> p, id |-> id]>>)
      /\ NotOf(ReadRequests(p, id) \o <<[type |-> "getattach", p |-> p, id |-> id]>>, "register")
  <2>1. /\ Requests(<<[type |-> "getattach", p |-> p, id |-> id]>>)
        /\ NotOf(<<[type |-> "getattach", p |-> p, id |-> id]>>, "register")
    BY <1>2
  <2> QED BY <1>4, <2>1, OneRequest
<1> QED BY <1>1, <1>2, <1>3, <1>4, <1>5

LEMMA SessionsStay ==
    ASSUME WellTyped, UNCHANGED <<sd, Others>>
    PROVE  WellTyped'
<1>1. UNCHANGED <<World, Rest>> /\ sd' = sd
  BY DEF Others, World
<1>2. sd' \in Sessions
  BY <1>1 DEF WellTyped
<1> QED BY <1>1, <1>2, TypedSd

LEMMA WritingTyped ==
    ASSUME WellTyped, MailTyped, LinksTyped, NEW p \in Player,
           \/ \E s \in Slot, n \in Amounts : MailSetItem(p, s, n)
           \/ \E n \in 1..MaxZeny : MailSetZeny(p, n)
           \/ \E item, zeny \in BOOLEAN : MailWinopen(p, item, zeny)
    PROVE  MailStep
<1>1. UNCHANGED <<sd, Others, inbox, CharRows, away, Link, toChar, toMap>>
  BY DEF MailSetItem, MailSetZeny, MailWinopen
<1>2. WellTyped'
  BY <1>1, SessionsStay
<1>3. LinksTyped' /\ OnLink("register")' <= OnLink("register") /\ MailsOn
  BY <1>1, Sent
<1>4. InboxTyped' /\ RowsTyped' /\ AwayTyped'
  BY <1>1, <1>3, MailStays
<1>5. LetterTyped'
  <2>1. /\ letter[p] \in LetterData /\ NoLetter \in LetterData /\ letter[p].zeny \in 0..MaxZeny
    BY LetterIs
  <2> HIDE DEF NoLetter
  <2>2. \A z \in 0..MaxZeny : /\ [letter[p] EXCEPT !.zeny = z] \in LetterData
                              /\ [NoLetter EXCEPT !.zeny = z] \in LetterData
    BY <2>1 DEF LetterData
  <2>3. ASSUME NEW s \in Slot, NEW n \in Amounts, MailSetItem(p, s, n) PROVE LetterTyped'
    <3>1. sd[p].inv \in Slots(Slot) /\ n \in Nat /\ n > 0
      BY HoldingsAre DEF Amounts
    <3>2. /\ sd[p].inv[s].item \in Item \union {NoItem} /\ sd[p].inv[s].amount \in 0..MaxAmount
          /\ sd[p].inv[s].item = NoItem => sd[p].inv[s].amount = 0
      BY <3>1, SlotsAre
    <3>3. CASE n <= sd[p].inv[s].amount
      <4>1. n \in 0..MaxAmount /\ sd[p].inv[s].item \in Item
        BY <3>1, <3>2, <3>3, LimitsAssumption
      <4>2. Name[sd[p].inv[s].item] \in {Name[i] : i \in Item} \union {NoItem}
        BY <4>1
      <4> DEFINE l == [letter[p] EXCEPT !.slot = s, !.name = Name[sd[p].inv[s].item], !.amount = n]
      <4>3. l \in LetterData
        BY <2>1, <4>1, <4>2 DEF LetterData
      <4>4. letter' = [letter EXCEPT ![p] = l]
        BY <2>3, <3>3 DEF MailSetItem
      <4> QED BY <4>3, <4>4, LetterIs
    <3>4. CASE ~(n <= sd[p].inv[s].amount)
      <4>1. letter' = [letter EXCEPT ![p] = [NoLetter EXCEPT !.zeny = letter[p].zeny]]
        BY <2>3, <3>4 DEF MailSetItem
      <4> QED BY <2>1, <2>2, <4>1, LetterIs
    <3> QED BY <3>3, <3>4
  <2>4. ASSUME NEW n \in 1..MaxZeny, MailSetZeny(p, n) PROVE LetterTyped'
    <3> DEFINE z == IF n > sd[p].zeny THEN sd[p].zeny ELSE n
    <3>1. z \in 0..MaxZeny
      BY HoldingsAre, LimitsAssumption
    <3>2. letter' = [letter EXCEPT ![p] = [letter[p] EXCEPT !.zeny = z]]
      BY <2>4 DEF MailSetZeny
    <3> HIDE DEF z
    <3> QED BY <2>2, <3>1, <3>2, LetterIs
  <2>5. ASSUME NEW item \in BOOLEAN, NEW zeny \in BOOLEAN, MailWinopen(p, item, zeny) PROVE LetterTyped'
    <3> DEFINE l == IF item THEN [NoLetter EXCEPT !.zeny = letter[p].zeny] ELSE letter[p]
               z == IF zeny THEN 0 ELSE l.zeny
    <3>1. letter' = [letter EXCEPT ![p] = [l EXCEPT !.zeny = z]]
      <4>1. CASE item
        BY <2>5, <4>1 DEF MailWinopen
      <4>2. CASE ~item
        <5>1. letter' = [letter EXCEPT ![p] = [letter[p] EXCEPT !.zeny = IF zeny THEN 0 ELSE letter[p].zeny]]
          BY <2>5, <4>2 DEF MailWinopen
        <5> QED BY <4>2, <5>1
      <4> QED BY <4>1, <4>2
    <3>2. l \in LetterData
      BY <2>1, <2>2
    <3> HIDE DEF l
    <3>3. l.zeny \in 0..MaxZeny /\ 0 \in 0..MaxZeny
      BY <3>2, LimitsAssumption DEF LetterData
    <3>4. z \in 0..MaxZeny
      BY <3>3
    <3> HIDE DEF z
    <3>5. [l EXCEPT !.zeny = z] \in LetterData
      BY <3>2, <3>4 DEF LetterData
    <3> QED BY <3>1, <3>5, LetterIs
  <2> QED BY <2>3, <2>4, <2>5
<1> QED BY <1>2, <1>3, <1>4, <1>5 DEF MailStep, MailTyped

LEMMA GivenTyped ==
    ASSUME WellTyped, NEW p \in Player, NEW with \in Enclosure, Given(p, with), UNCHANGED Others
    PROVE  WellTyped'
<1> DEFINE inv == PcAddItem(sd[p].inv, with.item, with.amount)
           z == PcGetZeny(sd[p].zeny, with.zeny)
           r == [sd[p] EXCEPT !.inv = inv, !.zeny = z]
<1>1. with.item \in Item \union {NoItem} /\ with.amount \in 0..MaxAmount /\ with.zeny \in 0..MaxZeny
  BY EnclosuresAre
<1>2. with.amount \in Nat /\ with.zeny \in Nat
  BY <1>1, LimitsAssumption
<1>3. /\ sd[p] \in SessionData /\ sd[p].inv \in Slots(Slot) /\ sd[p].zeny \in 0..MaxZeny
  BY HoldingsAre
<1>4. inv \in Slots(Slot) /\ z \in 0..MaxZeny
  BY <1>1, <1>2, <1>3, PcAddItemIs, PurseIs, SlotAssumption
<1>5. Changes(p, r)
  BY DEF Given
<1> HIDE DEF inv, z
<1>6. r \in SessionData
  BY <1>3, <1>4 DEF SessionData
<1> HIDE DEF r
<1> QED BY <1>5, <1>6, TypedChange DEF Others, World

\* Units and zeny that leave their owner with a message.
LEMMA TakenTyped ==
    ASSUME WellTyped, NEW p \in Player, NEW s \in Slot, NEW n \in Nat, NEW z \in Nat,
           Changes(p, [sd[p] EXCEPT !.inv = PcDelItem(@, s, n), !.zeny = PcPayZeny(@, z)]),
           UNCHANGED <<World, does, nextId, strayed>>, shown' = shown \/ Emptied(p, s)
    PROVE  WellTyped'
<1> DEFINE inv == PcDelItem(sd[p].inv, s, n)
           y == PcPayZeny(sd[p].zeny, z)
           r == [sd[p] EXCEPT !.inv = inv, !.zeny = y]
<1>1. /\ sd[p] \in SessionData /\ sd[p].inv \in Slots(Slot) /\ sd[p].zeny \in 0..MaxZeny
  BY HoldingsAre
<1>2. inv \in Slots(Slot) /\ y \in 0..MaxZeny
  BY <1>1, PcDelItemIs, PurseIs
<1>3. Changes(p, r)
  OBVIOUS
<1> HIDE DEF inv, y
<1>4. r \in SessionData
  BY <1>1, <1>2 DEF SessionData
<1> HIDE DEF r
<1>5. shown' \in [Player -> ShownData]
  BY EmptiedTyped DEF WellTyped
<1>6. sd' \in Sessions
  <2>1. sd' = [sd EXCEPT ![p] = r]
    BY <1>3 DEF Changes
  <2> QED BY <1>4, <2>1, SdIs, OneIsChanged
<1> QED BY <1>5, <1>6 DEF WellTyped, World

LEMMA MailSendTyped ==
    ASSUME WellTyped, MailTyped, LinksTyped, NEW p \in Player, NEW to \in Player \union {NoPlayer}, NEW titled \in BOOLEAN,
           MailSend(p, to, titled)
    PROVE  MailStep
<1>1. UNCHANGED <<Others, inbox, CharRows, away, Link, toMap>> /\ LetterGone(p)
  BY DEF MailSend
<1>2. /\ letter[p].slot \in Slot /\ letter[p].amount \in 0..MaxAmount /\ letter[p].zeny \in 0..MaxZeny
      /\ letter[p].amount \in Nat /\ letter[p].zeny \in Nat
  BY LetterIs, LimitsAssumption
<1> DEFINE with == Enclosed(p)
           m == [type |-> "send", p |-> p, to |-> to, with |-> with]
<1>3. with \in Enclosure
  <2>1. \A s \in Slot : sd[p].inv[s].item \in Item \union {NoItem}
    BY HoldingsAre
  <2> QED BY <1>2, <2>1, EnclosuresAre DEF Enclosed
<1>4. ToCharTyped(m) /\ m.type # "register"
  <2> HIDE DEF with
  <2> QED BY <1>3 DEF ToCharTyped, HandsOver
<1>5. \/ UNCHANGED <<sd, toChar>>
      \/ /\ Changes(p, [sd[p] EXCEPT !.inv = PcDelItem(@, letter[p].slot, letter[p].amount),
                                     !.zeny = PcPayZeny(@, letter[p].zeny)])
         /\ Asks(IF titled THEN <<m>> ELSE << >>)
  BY DEF MailSend
<1> HIDE DEF m
<1>6. toChar' = toChar \/ \E msgs : Sends(msgs)
  BY <1>4, <1>5, OneRequest DEF Sends
<1>7. LinksTyped' /\ OnLink("register")' <= OnLink("register") /\ MailsOn
  BY <1>1, <1>6, Sent
<1>8. InboxTyped' /\ RowsTyped' /\ AwayTyped'
  BY <1>1, <1>7, MailStays
<1>9. LetterTyped'
  BY <1>1, LetterIs
<1>10. WellTyped'
  <2>1. CASE UNCHANGED <<sd, toChar>>
    BY <1>1, <2>1, SessionsStay
  <2>2. CASE Changes(p, [sd[p] EXCEPT !.inv = PcDelItem(@, letter[p].slot, letter[p].amount),
                                      !.zeny = PcPayZeny(@, letter[p].zeny)])
    BY <1>1, <1>2, <2>2, TakenTyped DEF Others, Rest, World
  <2> QED BY <1>5, <2>1, <2>2
<1> QED BY <1>7, <1>8, <1>9, <1>10 DEF MailStep, MailTyped

LEMMA ReadingTyped ==
    ASSUME WellTyped, MailTyped, LinksTyped, NEW p \in Player,
           \/ MailRefreshInbox(p)
           \/ \E id \in 1..MaxMails :
                MailRead(p, id) \/ MailGetAttach(p, id) \/ MailDelete(p, id) \/ MailReturn(p, id)
    PROVE  MailStep
<1>1. UNCHANGED <<sd, Others, CharRows, away, Link, toMap>>
  BY DEF MailRefreshInbox, MailRead, MailGetAttach, MailDelete, MailReturn
<1>2. WellTyped' /\ MailsOn
  BY <1>1, SessionsStay, NoMoreMails
<1>3. LetterTyped'
  <2>1. LetterGone(p) \/ UNCHANGED letter
    BY DEF MailRefreshInbox, MailRead, MailGetAttach, MailDelete, MailReturn
  <2> QED BY <2>1, <1>2, LetterIs, MailStays
<1>4. toChar' = toChar \/ \E msgs : Sends(msgs)
  <2>1. CASE MailRefreshInbox(p)
    <3>1. Asks(InboxRequest(p))
      BY <2>1 DEF MailRefreshInbox
    <3> QED BY <3>1, RequestsAre DEF Sends
  <2>2. ASSUME NEW id, MailRead(p, id) PROVE \E msgs : Sends(msgs)
    <3>1. Asks(ReadRequests(p, id))
      BY <2>2 DEF MailRead
    <3> QED BY <3>1, RequestsAre DEF Sends
  <2>3. ASSUME NEW id, MailGetAttach(p, id) PROVE \E msgs : Sends(msgs)
    <3>1. Asks(ReadRequests(p, id) \o <<[type |-> "getattach", p |-> p, id |-> id]>>)
      BY <2>3 DEF MailGetAttach
    <3> QED BY <3>1, RequestsAre DEF Sends
  <2>4. ASSUME NEW id, MailDelete(p, id) PROVE \E msgs : Sends(msgs)
    <3>1. Asks(<<[type |-> "delete", p |-> p, id |-> id]>>)
      BY <2>4 DEF MailDelete
    <3> QED BY <3>1, RequestsAre DEF Sends
  <2>5. ASSUME NEW id, MailReturn(p, id) PROVE \E msgs : Sends(msgs)
    <3>1. Asks(<<[type |-> "return", p |-> p, id |-> id]>>)
      BY <2>5 DEF MailReturn
    <3> QED BY <3>1, RequestsAre DEF Sends
  <2> QED BY <2>1, <2>2, <2>3, <2>4, <2>5
<1>5. InboxTyped'
  <2>1. inbox \in [Player -> Box] /\ inbox[p] \in Box /\ KnownIn(inbox[p]) /\ nextMail' = nextMail
    BY <1>1 DEF MailTyped, InboxTyped, CharRows
  <2>2. inbox[p] = [mails |-> inbox[p].mails, full |-> inbox[p].full, changed |-> inbox[p].changed]
    BY <2>1, BoxIs
  <2>3. \/ inbox' = inbox
        \/ \E id \in DOMAIN inbox[p].mails :
             \/ inbox' = Read(p, id)
             \/ inbox' = [Read(p, id) EXCEPT ![p].mails[id].with = NoEnclosure]
             \/ inbox' = [inbox EXCEPT ![p].mails[id].with = NoEnclosure]
    BY DEF MailRefreshInbox, MailRead, MailGetAttach, MailDelete, MailReturn
  <2>4. CASE inbox' = inbox
    BY <2>4, <1>2, MailStays
  <2>5. ASSUME NEW id \in DOMAIN inbox[p].mails, inbox' = Read(p, id)
        PROVE  InboxTyped'
    <3> DEFINE b == [inbox[p] EXCEPT !.mails[id].status = "read"]
    <3>1. b \in Box /\ DOMAIN b.mails = DOMAIN inbox[p].mails
      BY <2>2, BoxChanged
    <3>2. inbox' = [inbox EXCEPT ![p] = b]
      BY <2>5 DEF Read
    <3> HIDE DEF b
    <3> QED BY <1>2, <2>1, <3>1, <3>2, InboxIs DEF KnownIn
  <2>6. ASSUME NEW id \in DOMAIN inbox[p].mails, inbox' = [inbox EXCEPT ![p].mails[id].with = NoEnclosure]
        PROVE  InboxTyped'
    <3> DEFINE b == [inbox[p] EXCEPT !.mails[id].with = NoEnclosure]
    <3>1. b \in Box /\ DOMAIN b.mails = DOMAIN inbox[p].mails
      BY <2>2, BoxChanged
    <3>2. inbox' = [inbox EXCEPT ![p] = b]
      BY <2>6
    <3> HIDE DEF b
    <3> QED BY <1>2, <2>1, <3>1, <3>2, InboxIs DEF KnownIn
  <2>7. ASSUME NEW id \in DOMAIN inbox[p].mails, inbox' = [Read(p, id) EXCEPT ![p].mails[id].with = NoEnclosure]
        PROVE  InboxTyped'
    <3> DEFINE l == [[inbox[p].mails[id] EXCEPT !.status = "read"] EXCEPT !.with = NoEnclosure]
               b == [inbox[p] EXCEPT !.mails[id] = l]
    <3>1. b \in Box /\ DOMAIN b.mails = DOMAIN inbox[p].mails
      BY <2>2, BoxChanged
    <3>2. inbox' = [inbox EXCEPT ![p] = b]
      <4> DEFINE a == [inbox[p] EXCEPT !.mails[id].status = "read"]
      <4>1. Read(p, id) = [inbox EXCEPT ![p] = a]
        BY DEF Read
      <4>2. Read(p, id)[p] = a /\ DOMAIN Read(p, id) = Player
        BY <2>1, <4>1
      <4>3. inbox' = [Read(p, id) EXCEPT ![p] = [a EXCEPT !.mails[id].with = NoEnclosure]]
        BY <2>7, <4>2
      <4>4. [a EXCEPT !.mails[id].with = NoEnclosure] = b
        <5>1. /\ a = [mails |-> [inbox[p].mails EXCEPT ![id].status = "read"],
                      full |-> inbox[p].full, changed |-> inbox[p].changed]
              /\ b = [mails |-> [inbox[p].mails EXCEPT ![id] = l],
                      full |-> inbox[p].full, changed |-> inbox[p].changed]
          BY <2>2
        <5>2. [a.mails EXCEPT ![id].with = NoEnclosure] = [inbox[p].mails EXCEPT ![id] = l]
          BY <5>1
        <5> QED BY <5>1, <5>2
      <4> HIDE DEF a, b
      <4> QED BY <2>1, <4>1, <4>3, <4>4
    <3> HIDE DEF b
    <3> QED BY <1>2, <2>1, <3>1, <3>2, InboxIs DEF KnownIn
  <2> QED BY <2>3, <2>4, <2>5, <2>6, <2>7
<1>6. LinksTyped' /\ OnLink("register")' <= OnLink("register")
  BY <1>1, <1>4, Sent
<1>7. RowsTyped' /\ AwayTyped'
  BY <1>1, <1>2, MailStays
<1> QED BY <1>2, <1>3, <1>5, <1>6, <1>7 DEF MailStep, MailTyped

LEMMA AwayTypedSteps ==
    ASSUME WellTyped, MailTyped, LinksTyped, NEW p \in Player, MailQuit(p) \/ MailBack(p)
    PROVE  MailStep
<1>1. UNCHANGED <<Others, CharRows, Link, toMap>>
  BY DEF MailQuit, MailBack
<1>2. MailsOn
  BY <1>1, NoMoreMails
<1>3. RowsTyped'
  BY <1>1, <1>2, MailStays
<1>4. AwayTyped'
  <2>1. away' \in SUBSET Player
    BY DEF MailQuit, MailBack, MailTyped, AwayTyped
  <2> QED BY <1>1, <2>1 DEF Link, MailTyped, AwayTyped
<1>5. toChar' = toChar \/ \E msgs : Sends(msgs)
  <2>1. CASE MailQuit(p)
    BY <2>1 DEF MailQuit
  <2>2. CASE MailBack(p)
    <3>1. Asks(<<[type |-> "inbox", p |-> p]>>)
      BY <2>2 DEF MailBack
    <3>2. Requests(<<[type |-> "inbox", p |-> p]>>) /\ NotOf(<<[type |-> "inbox", p |-> p]>>, "register")
      BY RequestsAre
    <3> QED BY <3>1, <3>2 DEF Sends
  <2> QED BY <2>1, <2>2
<1>6. LinksTyped' /\ OnLink("register")' <= OnLink("register")
  BY <1>1, <1>5, Sent
<1>7. LetterTyped' /\ InboxTyped' /\ WellTyped'
  <2>1. CASE MailBack(p)
    <3>1. UNCHANGED <<sd, Others, letter, inbox>>
      BY <2>1 DEF MailBack
    <3> QED BY <3>1, <1>2, MailStays, SessionsStay
  <2>2. CASE MailQuit(p)
    <3>1. LetterGone(p) /\ inbox' = [inbox EXCEPT ![p] = NoInbox] /\ sd' = Quit(sd, p)
      BY <2>2 DEF MailQuit
    <3>2. NoInbox \in Box /\ DOMAIN NoInbox.mails = {}
      <4>1. << >> \in [{} -> SeenLetters] /\ {} \in SUBSET (Nat \ {0})
        OBVIOUS
      <4> QED BY <4>1, BoxMade DEF NoInbox
    <3>3. InboxTyped'
      BY <3>1, <3>2, <1>2, InboxIs
    <3>4. sd' \in Sessions
      BY <3>1, LeftMapIs, SdIs
    <3>5. WellTyped'
      BY <1>1, <3>4, TypedSd DEF Others, World
    <3> QED BY <3>1, <3>3, <3>5, LetterIs
  <2> QED BY <2>1, <2>2
<1> QED BY <1>2, <1>3, <1>4, <1>6, <1>7 DEF MailStep, MailTyped

-----------------------------------------------------------------------------
(* The char-server. *)

Answered == \E msgs : IsSeq(msgs) /\ (\A j \in DOMAIN msgs : ToMapTyped(msgs[j])') /\ Answer(msgs)

LEMMA FewAnswers ==
    ASSUME NEW m, NEW n, ToMapTyped(m)'
    PROVE  /\ Answer(<<m>>) => Answered
           /\ ToMapTyped(n)' /\ Answer(<<m, n>>) => Answered
<1>1. IsSeq(<<m>>) /\ \A j \in DOMAIN <<m>> : <<m>>[j] = m
  BY Short
<1>2. IsSeq(<<m, n>>) /\ \A j \in DOMAIN <<m, n>> : <<m, n>>[j] \in {m, n}
  <2>1. <<m, n>> \in Seq({m, n})
    OBVIOUS
  <2>2. \A j \in DOMAIN <<m, n>> : <<m, n>>[j] \in {m, n}
    OBVIOUS
  <2> QED BY <2>1, <2>2 DEF IsSeq
<1>3. ASSUME Answer(<<m>>) PROVE Answered
  <2>1. PICK q : q = <<m>>
    OBVIOUS
  <2>2. IsSeq(q) /\ (\A j \in DOMAIN q : ToMapTyped(q[j])') /\ Answer(q)
    BY <1>1, <1>3, <2>1
  <2> QED BY <2>2 DEF Answered
<1>4. ASSUME ToMapTyped(n)', Answer(<<m, n>>) PROVE Answered
  <2>1. PICK q : q = <<m, n>>
    OBVIOUS
  <2>2. \A j \in DOMAIN q : q[j] = m \/ q[j] = n
    BY <1>2, <2>1
  <2>3. IsSeq(q) /\ (\A j \in DOMAIN q : ToMapTyped(q[j])') /\ Answer(q)
    BY <1>2, <1>4, <2>1, <2>2
  <2> QED BY <2>3 DEF Answered
<1> QED BY <1>3, <1>4

\* A message is taken off the link to the char-server and may be answered.
LEMMA Parsed ==
    ASSUME LinksTyped, MailsOn, NEW type, FromMap(type), up' = up, toMap' = toMap \/ Answered
    PROVE  /\ LinksTyped' /\ ToCharTyped(Head(toChar)) /\ Head(toChar).type = type /\ up
           /\ OnLink("register")' <= OnLink("register")
           /\ \A t : /\ OnLink(t) \in Nat /\ OnLink(t)' \in Nat
                     /\ OnLink(t) = OnLink(t)' + IF t = type THEN 1 ELSE 0
<1>1. toChar # << >> /\ toChar' = Tail(toChar) /\ Head(toChar).type = type
  BY DEF FromMap
<1>2. AskedRight /\ AnsweredRight /\ up /\ up'
  BY <1>1 DEF LinksTyped
<1>3. /\ AskedRight' /\ ToCharTyped(Head(toChar))
      /\ \A t : /\ OnLink(t)' \in Nat /\ OnLink(t) \in Nat
                /\ OnLink(t) = OnLink(t)' + IF t = type THEN 1 ELSE 0
  BY <1>1, <1>2, LinkParses
<1>4. AnsweredRight'
  <2>1. CASE toMap' = toMap
    BY <1>2, <2>1, AnswersStay
  <2>2. CASE Answered
    BY <1>2, <2>2, AnswersAre DEF Answered
  <2> QED BY <2>1, <2>2
<1>5. OnLink("register")' <= OnLink("register")
  BY <1>3
<1> QED BY <1>1, <1>2, <1>3, <1>4, <1>5 DEF LinksTyped

LEMMA RowsAre ==
    ASSUME MailTyped
    PROVE  /\ nextMail \in Nat \ {0} /\ nextMail \notin DOMAIN rows
           /\ \A i \in DOMAIN rows : i \in Nat \ {0} /\ i < nextMail /\ rows[i] \in Letters
BY DEF MailTyped, RowsTyped

\* The table after one letter is changed, taken out or added.
LEMMA RowsMade ==
    ASSUME MailTyped, NEW f, rows' = f, nextMail' \in Nat, nextMail <= nextMail',
           \A i \in DOMAIN f : (i \in DOMAIN rows \/ (i \in Nat /\ i >= nextMail /\ i < nextMail')) /\ f[i] \in Letters
    PROVE  RowsTyped' /\ MailsOn
<1>1. nextMail \in Nat \ {0} /\ \A i \in DOMAIN rows : i \in 1..(nextMail - 1)
  BY DEF MailTyped, RowsTyped
<1> QED BY <1>1 DEF RowsTyped, MailsOn

LEMMA RequestinboxParsed ==
    ASSUME WellTyped, MailTyped, LinksTyped, MapifParseMailRequestinbox
    PROVE  RowsTyped' /\ MailsOn /\ (toMap' = toMap \/ Answered)
<1> DEFINE p == Head(toChar).p
           f == [i \in DOMAIN rows |-> IF i \in Listed(p) THEN InboxOf(p).mails[i] ELSE rows[i]]
<1>1. /\ FromMap("inbox") /\ rows' = f /\ nextMail' = nextMail
      /\ Answer(<<[type |-> "inbox", p |-> p, box |-> InboxOf(p)]>>)
  BY DEF MapifParseMailRequestinbox
<1>2. ToCharTyped(Head(toChar)) /\ Head(toChar).type = "inbox"
  BY <1>1, TailTyped DEF FromMap, LinksTyped, AskedRight
<1>3. p \in Player
  BY <1>2 DEF ToCharTyped
<1>4. InboxOf(p) \in Box /\ KnownIn(InboxOf(p)) /\ Listed(p) \in SUBSET (DOMAIN rows)
      /\ \A i \in Listed(p) : InboxOf(p).mails[i] \in Letters
  BY <1>3, InboxOfIs DEF MailTyped
<1>5. \A i \in DOMAIN f : i \in DOMAIN rows /\ f[i] \in Letters
  BY <1>4, RowsAre
<1>6. PICK m : m = [type |-> "inbox", p |-> p, box |-> InboxOf(p)]
  OBVIOUS
<1> HIDE DEF f, p
<1>7. RowsTyped' /\ MailsOn
  BY <1>1, <1>5, RowsAre, RowsMade
<1>8. ToMapTyped(m)
  BY <1>3, <1>4, <1>6 DEF ToMapTyped, HandsOver
<1>9. ToMapTyped(m)'
  BY <1>7, <1>8, KnownGrows
<1> QED BY <1>1, <1>6, <1>7, <1>9, FewAnswers

LEMMA ReadParsed ==
    ASSUME WellTyped, MailTyped, LinksTyped, MapifParseMailRead
    PROVE  RowsTyped' /\ MailsOn /\ toMap' = toMap
<1> DEFINE id == Head(toChar).id
           f == IF id \in DOMAIN rows THEN [rows EXCEPT ![id].status = "read"] ELSE rows
<1>1. rows' = f /\ nextMail' = nextMail /\ toMap' = toMap
  BY DEF MapifParseMailRead
<1>2. \A i \in DOMAIN f : i \in DOMAIN rows /\ f[i] \in Letters
  <2>1. \A i \in DOMAIN rows : rows[i] \in Letters /\ [rows[i] EXCEPT !.status = "read"] \in Letters
    BY RowsAre, LettersAre DEF SeenLetters
  <2> QED BY <2>1
<1> HIDE DEF f
<1> QED BY <1>1, <1>2, RowsAre, RowsMade

LEMMA GetattachParsed ==
    ASSUME WellTyped, MailTyped, LinksTyped, MapifMailGetattach
    PROVE  RowsTyped' /\ MailsOn /\ (toMap' = toMap \/ Answered)
<1> DEFINE p == Head(toChar).p
           id == Head(toChar).id
<1>1. /\ FromMap("getattach") /\ nextMail' = nextMail
      /\ \/ UNCHANGED <<rows, toMap>>
         \/ /\ id \in LettersTo(p)
            /\ rows' = [rows EXCEPT ![id].with = NoEnclosure]
            /\ Answer(<<[type |-> "attach", p |-> p, with |-> rows[id].with]>>)
  BY DEF MapifMailGetattach
<1>2. ToCharTyped(Head(toChar)) /\ Head(toChar).type = "getattach"
  BY <1>1, TailTyped DEF FromMap, LinksTyped, AskedRight
<1>3. p \in Player
  BY <1>2 DEF ToCharTyped
<1>4. CASE UNCHANGED <<rows, toMap>>
  <2>1. UNCHANGED CharRows
    BY <1>1, <1>4 DEF CharRows
  <2> QED BY <2>1, <1>4, NoMoreMails, MailStays
<1>5. CASE /\ id \in LettersTo(p)
           /\ rows' = [rows EXCEPT ![id].with = NoEnclosure]
           /\ Answer(<<[type |-> "attach", p |-> p, with |-> rows[id].with]>>)
  <2>1. id \in DOMAIN rows /\ rows[id] \in Letters
    BY <1>5, RowsAre DEF LettersTo
  <2>2. \A i \in DOMAIN rows : rows[i] \in Letters /\ [rows[i] EXCEPT !.with = NoEnclosure] \in Letters
    BY RowsAre, LettersAre
  <2> DEFINE f == [rows EXCEPT ![id].with = NoEnclosure]
  <2>3. \A i \in DOMAIN f : i \in DOMAIN rows /\ f[i] \in Letters
    BY <2>2
  <2> HIDE DEF f
  <2>4. RowsTyped' /\ MailsOn
    BY <1>1, <1>5, <2>3, RowsAre, RowsMade DEF f
  <2>5. rows[id].with \in Enclosure
    BY <2>1, LettersAre
  <2>6. PICK m : m = [type |-> "attach", p |-> p, with |-> rows[id].with]
    OBVIOUS
  <2> HIDE DEF p, id
  <2>7. ToMapTyped(m)'
    BY <1>3, <2>5, <2>6 DEF ToMapTyped, HandsOver, Enclosure
  <2> QED BY <1>5, <2>4, <2>6, <2>7, FewAnswers
<1> QED BY <1>1, <1>4, <1>5

LEMMA DeleteParsed ==
    ASSUME WellTyped, MailTyped, LinksTyped, MapifParseMailDelete
    PROVE  RowsTyped' /\ MailsOn /\ (toMap' = toMap \/ Answered)
<1> DEFINE p == Head(toChar).p
           id == Head(toChar).id
           f == Without(rows, id)
<1>1. /\ FromMap("delete") /\ nextMail' = nextMail /\ rows' = f
      /\ Answer(<<[type |-> "deleted", p |-> p, id |-> id]>>)
  BY DEF MapifParseMailDelete
<1>2. ToCharTyped(Head(toChar)) /\ Head(toChar).type = "delete"
  BY <1>1, TailTyped DEF FromMap, LinksTyped, AskedRight
<1>3. p \in Player
  BY <1>2 DEF ToCharTyped
<1>4. \A i \in DOMAIN f : i \in DOMAIN rows /\ f[i] \in Letters
  BY RowsAre DEF Without
<1>5. PICK m : m = [type |-> "deleted", p |-> p, id |-> id]
  OBVIOUS
<1> HIDE DEF f, p, id
<1>6. RowsTyped' /\ MailsOn
  BY <1>1, <1>4, RowsAre, RowsMade
<1>7. ToMapTyped(m)'
  BY <1>3, <1>5 DEF ToMapTyped, HandsOver
<1> QED BY <1>1, <1>5, <1>6, <1>7, FewAnswers

LEMMA ReturnParsed ==
    ASSUME WellTyped, MailTyped, LinksTyped, MapifParseMailReturn
    PROVE  RowsTyped' /\ MailsOn /\ (toMap' = toMap \/ Answered)
<1> DEFINE p == Head(toChar).p
           id == Head(toChar).id
           reply(fail) == [type |-> "returned", p |-> p, id |-> id, fail |-> fail]
           back == [rows[id] EXCEPT !.from = p, !.to = rows[id].from, !.status = "new"]
           f == [i \in (DOMAIN rows \ {id}) \union {nextMail} |-> IF i = nextMail THEN back ELSE rows[i]]
<1>1. /\ FromMap("return")
      /\ \/ Answer(<<reply(TRUE)>>) /\ UNCHANGED CharRows
         \/ UNCHANGED <<CharRows, toMap>>
         \/ /\ id \in DOMAIN rows /\ rows' = f /\ nextMail' = nextMail + 1
            /\ Answer(<<News(nextMail), reply(FALSE)>>)
  BY DEF MapifParseMailReturn
<1>2. ToCharTyped(Head(toChar)) /\ Head(toChar).type = "return"
  BY <1>1, TailTyped DEF FromMap, LinksTyped, AskedRight
<1>3. p \in Player
  BY <1>2 DEF ToCharTyped
<1> HIDE DEF p, id
<1>4. ASSUME NEW fail \in BOOLEAN, NEW m, m = reply(fail) PROVE ToMapTyped(m)'
  BY <1>3, <1>4 DEF ToMapTyped, HandsOver
<1>5. CASE UNCHANGED CharRows
  <2>1. RowsTyped' /\ MailsOn
    BY <1>5, NoMoreMails, MailStays
  <2>2. PICK m : m = reply(TRUE)
    OBVIOUS
  <2>3. ToMapTyped(m)'
    BY <1>4, <2>2
  <2>4. CASE Answer(<<reply(TRUE)>>)
    BY <2>1, <2>2, <2>3, <2>4, FewAnswers
  <2>5. CASE toMap' = toMap
    BY <2>1, <2>5
  <2>6. nextMail' # nextMail + 1
    BY <1>5, RowsAre DEF CharRows
  <2> QED BY <1>1, <2>4, <2>5, <2>6
<1>6. CASE /\ id \in DOMAIN rows /\ rows' = f /\ nextMail' = nextMail + 1
           /\ Answer(<<News(nextMail), reply(FALSE)>>)
  <2>1. rows[id] \in Letters /\ nextMail \in Nat \ {0}
    BY <1>6, RowsAre
  <2>2. back \in Letters
    BY <1>3, <2>1, LettersAre
  <2> HIDE DEF back
  <2>3. \A i \in DOMAIN f : (i \in DOMAIN rows \/ i = nextMail) /\ f[i] \in Letters
    BY <2>2, RowsAre
  <2>4. f[nextMail] = back
    OBVIOUS
  <2> HIDE DEF f
  <2>5. RowsTyped' /\ MailsOn
    BY <1>6, <2>1, <2>3, RowsMade
  <2>6. PICK m, n : m = News(nextMail) /\ n = reply(FALSE)
    OBVIOUS
  <2>7. m = [type |-> "new", p |-> back.to]
    BY <1>6, <2>4, <2>6 DEF News
  <2>8. back.to \in Player \union {NoPlayer}
    BY <2>2, LettersAre
  <2>9. ToMapTyped(m)' /\ ToMapTyped(n)'
    <3>1. ToMapTyped(m)'
      BY <2>7, <2>8 DEF ToMapTyped, HandsOver
    <3>2. ToMapTyped(n)'
      BY <1>4, <2>6
    <3> QED BY <3>1, <3>2
  <2>10. Answer(<<m, n>>)
    BY <1>6, <2>6
  <2> QED BY <2>5, <2>9, <2>10, FewAnswers
<1> QED BY <1>1, <1>5, <1>6

LEMMA SendParsed ==
    ASSUME WellTyped, MailTyped, LinksTyped, MapifParseMailSend
    PROVE  RowsTyped' /\ MailsOn /\ (toMap' = toMap \/ Answered)
<1> DEFINE msg == Head(toChar)
           mail == [from |-> msg.p, to |-> msg.to, status |-> "new", with |-> msg.with]
           sent(fail) == [type |-> "sent", p |-> msg.p, fail |-> fail,
                          with |-> IF fail THEN msg.with ELSE NoEnclosure]
           f == [i \in DOMAIN rows \union {nextMail} |-> IF i = nextMail THEN mail ELSE rows[i]]
<1>1. /\ FromMap("send")
      /\ \/ Answer(<<sent(TRUE)>>) /\ UNCHANGED CharRows
         \/ /\ rows' = f /\ nextMail' = nextMail + 1
            /\ Answer(<<sent(FALSE), News(nextMail)>>)
  BY DEF MapifParseMailSend
<1>2. ToCharTyped(msg) /\ msg.type = "send"
  BY <1>1, TailTyped DEF FromMap, LinksTyped, AskedRight
<1> HIDE DEF msg
<1>3. msg.p \in Player /\ msg.to \in Player \union {NoPlayer} /\ msg.with \in Enclosure
  BY <1>2 DEF ToCharTyped, HandsOver
<1>4. ASSUME NEW fail \in BOOLEAN, NEW m, m = sent(fail) PROVE ToMapTyped(m)'
  <2>1. m.type = "sent" /\ m.p \in Player /\ "with" \in DOMAIN m /\ m.with \in Enclosure
    BY <1>3, <1>4, EnclosuresAre
  <2> QED BY <2>1 DEF ToMapTyped, HandsOver, Enclosure
<1>5. CASE Answer(<<sent(TRUE)>>) /\ UNCHANGED CharRows
  <2>1. PICK m : m = sent(TRUE)
    OBVIOUS
  <2>2. ToMapTyped(m)'
    BY <1>4, <2>1
  <2> QED BY <1>5, <2>1, <2>2, NoMoreMails, MailStays, FewAnswers
<1>6. CASE /\ rows' = f /\ nextMail' = nextMail + 1
           /\ Answer(<<sent(FALSE), News(nextMail)>>)
  <2>1. nextMail \in Nat \ {0}
    BY RowsAre
  <2>2. mail \in Letters
    BY <1>3, SentIs
  <2>3. mail.to = msg.to
    OBVIOUS
  <2> HIDE DEF mail
  <2>4. \A i \in DOMAIN f : (i \in DOMAIN rows \/ i = nextMail) /\ f[i] \in Letters
    BY <2>2, RowsAre
  <2>5. f[nextMail] = mail
    OBVIOUS
  <2> HIDE DEF f
  <2>6. RowsTyped' /\ MailsOn
    BY <1>6, <2>1, <2>4, RowsMade
  <2>7. PICK m, n : m = sent(FALSE) /\ n = News(nextMail)
    OBVIOUS
  <2>8. n = [type |-> "new", p |-> msg.to]
    BY <1>6, <2>3, <2>5, <2>7 DEF News
  <2>9. ToMapTyped(m)'
    BY <1>4, <2>7
  <2>10. ToMapTyped(n)'
    BY <1>3, <2>8 DEF ToMapTyped, HandsOver
  <2>11. Answer(<<m, n>>)
    BY <1>6, <2>7
  <2> QED BY <2>6, <2>9, <2>10, <2>11, FewAnswers
<1> QED BY <1>1, <1>5, <1>6

LEMMA CharParsesTyped ==
    ASSUME WellTyped, MailTyped, LinksTyped, CharParses
    PROVE  MailStep
<1>1. UNCHANGED <<sd, Others, letter, inbox, away, Link>> /\ \E type : FromMap(type)
  BY DEF CharParses, MapifParseMailRequestinbox, MapifParseMailRead, MapifMailGetattach,
         MapifParseMailDelete, MapifParseMailReturn, MapifParseMailSend
<1>2. RowsTyped' /\ MailsOn /\ (toMap' = toMap \/ Answered)
  BY RequestinboxParsed, ReadParsed, GetattachParsed, DeleteParsed, ReturnParsed, SendParsed DEF CharParses
<1>3. LinksTyped' /\ OnLink("register")' <= OnLink("register")
  BY <1>1, <1>2, Parsed DEF Link
<1>4. LetterTyped' /\ InboxTyped' /\ AwayTyped' /\ WellTyped'
  BY <1>1, <1>2, MailStays, SessionsStay
<1> QED BY <1>2, <1>3, <1>4 DEF MailStep, MailTyped

-----------------------------------------------------------------------------
(* The map-server on the answers. *)

\* A message is taken off the link to the map-server; that may ask for more.
LEMMA Received ==
    ASSUME MailTyped, LinksTyped, UNCHANGED <<CharRows, Link>>, NEW type, FromChar(type),
           toChar' = toChar \/ \E msgs : Sends(msgs)
    PROVE  /\ LinksTyped' /\ ToMapTyped(Head(toMap)) /\ Head(toMap).type = type
           /\ OnLink("register")' <= OnLink("register") /\ MailsOn
<1>1. MailsOn
  BY NoMoreMails
<1>2. toMap # << >> /\ toMap' = Tail(toMap) /\ Head(toMap).type = type
  BY DEF FromChar
<1>3. up /\ up'
  BY <1>2 DEF LinksTyped, Link
<1>4. AnsweredRight' /\ ToMapTyped(Head(toMap))
  BY <1>1, <1>2, AnswerTaken DEF LinksTyped
<1>5. OnLink("register") \in Nat /\ AskedRight
  BY OnLinkIs DEF LinksTyped
<1>6. AskedRight' /\ OnLink("register")' = OnLink("register")
  BY <1>5, LinkStays, LinkAsks DEF Sends
<1> QED BY <1>1, <1>2, <1>3, <1>4, <1>5, <1>6 DEF LinksTyped

LEMMA InboxReceivedTyped ==
    ASSUME WellTyped, MailTyped, LinksTyped,
           IntifParseMailInboxReceived \/ IntifParseMailNew
    PROVE  MailStep
<1>1. /\ UNCHANGED <<sd, Others, letter, CharRows, away, Link, toChar>>
      /\ \E type : FromChar(type)
  BY DEF IntifParseMailInboxReceived, IntifParseMailNew
<1>2. LinksTyped' /\ ToMapTyped(Head(toMap)) /\ OnLink("register")' <= OnLink("register") /\ MailsOn
  BY <1>1, Received
<1>3. LetterTyped' /\ RowsTyped' /\ AwayTyped' /\ WellTyped'
  BY <1>1, <1>2, MailStays, SessionsStay
<1>4. InboxTyped'
  <2>1. nextMail' = nextMail /\ inbox \in [Player -> Box] /\ \A q \in Player : KnownIn(inbox[q])
    BY <1>1 DEF CharRows, MailTyped, InboxTyped
  <2>2. CASE inbox' = inbox
    BY <2>2, <1>2, MailStays
  <2>3. CASE IntifParseMailInboxReceived /\ inbox' # inbox
    <3>1. /\ Head(toMap).type = "inbox"
          /\ inbox' = [inbox EXCEPT ![Head(toMap).p] = Head(toMap).box]
      BY <2>3 DEF IntifParseMailInboxReceived, FromChar
    <3>2. Head(toMap).p \in Player /\ Head(toMap).box \in Box /\ KnownIn(Head(toMap).box)
      BY <1>2, <3>1 DEF ToMapTyped
    <3> QED BY <1>2, <2>1, <3>1, <3>2, InboxIs DEF KnownIn
  <2>4. CASE IntifParseMailNew /\ inbox' # inbox
    <3> DEFINE p == Head(toMap).p
               b == [inbox[p] EXCEPT !.changed = TRUE]
    <3>1. inbox' = [inbox EXCEPT ![p] = b]
      BY <2>4 DEF IntifParseMailNew
    <3> HIDE DEF p
    <3>2. p \in Player
      BY <2>1, <2>4, <3>1
    <3>3. inbox[p] \in Box /\ KnownIn(inbox[p])
      BY <2>1, <3>2
    <3>4. /\ inbox[p] = [mails |-> inbox[p].mails, full |-> inbox[p].full, changed |-> inbox[p].changed]
          /\ DOMAIN inbox[p].mails \in SUBSET (Nat \ {0}) /\ inbox[p].mails \in [DOMAIN inbox[p].mails -> SeenLetters]
          /\ inbox[p].full \in BOOLEAN
      BY <3>3, BoxIs
    <3>5. b = [mails |-> inbox[p].mails, full |-> inbox[p].full, changed |-> TRUE]
      <4>1. \A m, f, c, d : [[mails |-> m, full |-> f, changed |-> c] EXCEPT !.changed = d]
                             = [mails |-> m, full |-> f, changed |-> d]
        OBVIOUS
      <4>2. PICK d : d = TRUE
        OBVIOUS
      <4>3. [inbox[p] EXCEPT !.changed = d] = [mails |-> inbox[p].mails, full |-> inbox[p].full, changed |-> d]
        BY <3>4, <4>1
      <4> QED BY <4>2, <4>3
    <3>6. [mails |-> inbox[p].mails, full |-> inbox[p].full, changed |-> TRUE] \in Box
      BY <3>4, BoxMade
    <3>7. DOMAIN b.mails = DOMAIN inbox[p].mails
      BY <3>5
    <3> HIDE DEF b
    <3> QED BY <1>2, <2>1, <3>1, <3>2, <3>3, <3>5, <3>6, <3>7, InboxIs DEF KnownIn
  <2> QED BY <2>2, <2>3, <2>4
<1> QED BY <1>2, <1>3, <1>4 DEF MailStep, MailTyped

LEMMA GivenBack ==
    ASSUME WellTyped, MailTyped, LinksTyped,
           IntifParseMailGetAttach \/ IntifParseMailSend
    PROVE  MailStep
<1>1. /\ UNCHANGED <<Others, letter, inbox, CharRows, away, Link, toChar>>
      /\ \E type \in {"attach", "sent"} : FromChar(type)
      /\ UNCHANGED sd \/ Given(Head(toMap).p, Head(toMap).with)
  BY DEF IntifParseMailGetAttach, IntifParseMailSend
<1>2. /\ LinksTyped' /\ ToMapTyped(Head(toMap)) /\ OnLink("register")' <= OnLink("register") /\ MailsOn
      /\ Head(toMap).type \in {"attach", "sent"}
  BY <1>1, Received
<1>3. LetterTyped' /\ InboxTyped' /\ RowsTyped' /\ AwayTyped'
  BY <1>1, <1>2, MailStays
<1>4. Head(toMap).p \in Player /\ Head(toMap).with \in Enclosure
  BY <1>2 DEF ToMapTyped, HandsOver
<1>5. WellTyped'
  BY <1>1, <1>4, SessionsStay, GivenTyped
<1> QED BY <1>2, <1>3, <1>5 DEF MailStep, MailTyped

LEMMA TakenOutTyped ==
    ASSUME WellTyped, MailTyped, LinksTyped,
           IntifParseMailDelete \/ IntifParseMailReturn
    PROVE  MailStep
<1>1. /\ UNCHANGED <<sd, Others, letter, CharRows, away, Link>>
      /\ \E type \in {"deleted", "returned"} : FromChar(type)
      /\ UNCHANGED <<inbox, toChar>> \/ TakenOut(Head(toMap).p, Head(toMap).id)
  BY DEF IntifParseMailDelete, IntifParseMailReturn
<1> DEFINE p == Head(toMap).p
           id == Head(toMap).id
<1>2. ToMapTyped(Head(toMap)) /\ Head(toMap).type \in {"deleted", "returned"}
  BY <1>1, NoMoreMails, AnswerTaken DEF LinksTyped, FromChar
<1>3. p \in Player
  BY <1>2 DEF ToMapTyped
<1>4. toChar' = toChar \/ \E msgs : Sends(msgs)
  <2>1. CASE TakenOut(p, id)
    <3>1. Asks(<<[type |-> "inbox", p |-> p]>>) \/ Asks(<< >>)
      BY <2>1 DEF TakenOut
    <3>2. Requests(<<[type |-> "inbox", p |-> p]>>) /\ NotOf(<<[type |-> "inbox", p |-> p]>>, "register")
      BY <1>3, RequestsAre
    <3> QED BY <3>1, <3>2, OneRequest DEF Sends
  <2> QED BY <1>1, <2>1
<1>5. LinksTyped' /\ OnLink("register")' <= OnLink("register") /\ MailsOn
  BY <1>1, <1>4, Received
<1>6. LetterTyped' /\ RowsTyped' /\ AwayTyped' /\ WellTyped'
  BY <1>1, <1>5, MailStays, SessionsStay
<1>7. InboxTyped'
  <2>1. nextMail' = nextMail /\ inbox \in [Player -> Box] /\ inbox[p] \in Box /\ KnownIn(inbox[p])
    BY <1>1, <1>3 DEF CharRows, MailTyped, InboxTyped
  <2>2. CASE UNCHANGED inbox
    BY <2>2, <1>5, MailStays
  <2>3. CASE TakenOut(p, id)
    <3> DEFINE b == [inbox[p] EXCEPT !.mails = Without(@, id)]
    <3>1. inbox' = [inbox EXCEPT ![p] = b]
      BY <2>3 DEF TakenOut
    <3>2. b \in Box
      BY <1>3, BoxChanged
    <3>3. b.mails = Without(inbox[p].mails, id)
      <4>1. inbox[p] = [mails |-> inbox[p].mails, full |-> inbox[p].full, changed |-> inbox[p].changed]
        BY <2>1, BoxIs
      <4> HIDE DEF p, id
      <4> QED BY <4>1
    <3>4. DOMAIN b.mails \in SUBSET DOMAIN inbox[p].mails
      <4> HIDE DEF b
      <4> QED BY <3>3 DEF Without
    <3> HIDE DEF b, p, id
    <3> QED BY <1>3, <1>5, <2>1, <3>1, <3>2, <3>4, InboxIs DEF KnownIn
  <2> QED BY <1>1, <2>2, <2>3
<1> QED BY <1>5, <1>6, <1>7 DEF MailStep, MailTyped

LEMMA LinkTyped ==
    ASSUME WellTyped, MailTyped, LinksTyped, LinkLost \/ LinkBack
    PROVE  MailStep
<1>1. UNCHANGED <<sd, Others, letter, inbox, CharRows, away>>
  BY DEF LinkLost, LinkBack
<1>2. MailsOn
  BY <1>1, NoMoreMails
<1>3. LetterTyped' /\ InboxTyped' /\ RowsTyped' /\ WellTyped'
  BY <1>1, <1>2, MailStays, SessionsStay
<1>4. OnLink("register") \in Nat
  BY OnLinkIs DEF LinksTyped
<1>5. AwayTyped' /\ LinksTyped' /\ OnLink("register")' <= OnLink("register")
  <2>1. CASE LinkBack
    <3>1. toChar' = toChar /\ toMap' = toMap /\ up' /\ up' = TRUE /\ UNCHANGED <<away, losses>>
      BY <2>1 DEF LinkBack
    <3>2. AskedRight' /\ AnsweredRight' /\ OnLink("register")' = OnLink("register")
      BY <1>2, <3>1, LinkStays, AnswersStay DEF LinksTyped
    <3> QED BY <1>4, <3>1, <3>2 DEF LinksTyped, MailTyped, AwayTyped
  <2>2. CASE LinkLost
    <3>1. toChar' = << >> /\ toMap' = << >> /\ up' = FALSE /\ losses < MaxLosses /\ losses' = losses + 1 /\ away' = away
      BY <2>2 DEF LinkLost
    <3>2. AwayTyped'
      <4>1. MaxLosses \in Nat
        BY LettersAssumption
      <4>2. losses \in 0..MaxLosses /\ away \in SUBSET Player
        BY DEF MailTyped, AwayTyped
      <4>3. losses' \in 0..MaxLosses
        BY <3>1, <4>1, <4>2
      <4> QED BY <3>1, <4>2, <4>3 DEF AwayTyped
    <3>3. IsSeq(<< >>)
      BY Short
    <3>4. LinksTyped'
      <4>1. \A j \in DOMAIN << >> : FALSE
        OBVIOUS
      <4>2. AskedRight'
        BY <3>1, <3>3, <4>1 DEF AskedRight, Requests
      <4>3. AnsweredRight'
        BY <3>1, <3>3, <4>1 DEF AnsweredRight, Answers
      <4> QED BY <3>1, <4>2, <4>3 DEF LinksTyped
    <3>5. OnLink("register")' = 0
      <4>1. Count(<< >>, "register") = 0
        BY CountNone
      <4>2. OnLink("register")' = Count(toChar', "register")
        BY DEF OnLink, Count
      <4> QED BY <3>1, <4>1, <4>2
    <3> QED BY <1>4, <3>2, <3>4, <3>5
  <2> QED BY <2>1, <2>2
<1> QED BY <1>3, <1>5 DEF MailStep, MailTyped

LEMMA AllNextTyped ==
    ASSUME WellTyped, MailTyped, LinksTyped, AllNext
    PROVE  MailStep
<1>1. ASSUME NEW a PROVE Doing(a) \in SUBSET Player
  BY DEF Doing
<1>2. CASE Exchanging
  <2>1. UNCHANGED mailVars /\ [Next]_vars
    BY <1>2 DEF Exchanging
  <2>2. WellTyped'
    BY <2>1, StepTyped
  <2>3. UNCHANGED <<letter, inbox, CharRows, away, Link, toChar, toMap>>
    BY <2>1 DEF mailVars, CharRows, Link
  <2>4. LinksTyped' /\ OnLink("register")' <= OnLink("register") /\ MailsOn
    BY <2>3, Sent
  <2>5. LetterTyped' /\ InboxTyped' /\ RowsTyped' /\ AwayTyped'
    BY <2>3, <2>4, MailStays
  <2> QED BY <2>2, <2>4, <2>5 DEF MailStep, MailTyped
<1>3. CASE MailNext
  <2>1. PICK p \in Player :
          \/ \E s \in Slot, n \in Amounts : MailSetItem(p, s, n)
          \/ \E n \in 1..MaxZeny : MailSetZeny(p, n)
          \/ \E item, zeny \in BOOLEAN : MailWinopen(p, item, zeny)
          \/ \E to \in Player \union {NoPlayer}, titled \in BOOLEAN : MailSend(p, to, titled)
          \/ MailRefreshInbox(p)
          \/ \E id \in 1..MaxMails :
               MailRead(p, id) \/ MailGetAttach(p, id) \/ MailDelete(p, id) \/ MailReturn(p, id)
          \/ MailQuit(p) \/ MailBack(p)
    BY <1>1, <1>3 DEF MailNext
  <2> QED BY <2>1, WritingTyped, MailSendTyped, ReadingTyped, AwayTypedSteps
<1>4. CASE MapParses
  BY <1>4, InboxReceivedTyped, GivenBack, TakenOutTyped DEF MapParses
<1> QED BY <1>2, <1>3, <1>4, CharParsesTyped, LinkTyped DEF AllNext

-----------------------------------------------------------------------------
(* Auctions: what the map-server does. *)

LEMMA WaresAre ==
    /\ \A i \in Item : Ware(i) \in Enclosure /\ Ware(i).item = i
    /\ \A i \in Item, z \in 0..MaxZeny : /\ [Ware(i) EXCEPT !.zeny = z] \in Enclosure
                                         /\ [Ware(i) EXCEPT !.zeny = z].item = i
    /\ \A z \in 0..MaxZeny : Zeny(z) \in Enclosure
    /\ \A z : Zeny(z).zeny = z
<1>1. 1 \in 0..MaxAmount /\ 0 \in 0..MaxAmount /\ 0 \in 0..MaxZeny
  BY LimitsAssumption
<1>2. \A i : Ware(i) = [item |-> i, amount |-> 1, zeny |-> 0]
  <2> SUFFICES ASSUME NEW i PROVE Ware(i) = [item |-> i, amount |-> 1, zeny |-> 0]
    OBVIOUS
  <2>1. Ware(i) = [[NoEnclosure EXCEPT !.item = i] EXCEPT !.amount = 1]
    BY DEF Ware
  <2>2. [NoEnclosure EXCEPT !.item = i] = [item |-> i, amount |-> 0, zeny |-> 0]
    BY DEF NoEnclosure
  <2>3. [[item |-> i, amount |-> 0, zeny |-> 0] EXCEPT !.amount = 1] = [item |-> i, amount |-> 1, zeny |-> 0]
    OBVIOUS
  <2> QED BY <2>1, <2>2, <2>3
<1>3. \A z : Zeny(z) = [item |-> NoItem, amount |-> 0, zeny |-> z]
  BY DEF Zeny, NoEnclosure
<1>4. \A i, z : [Ware(i) EXCEPT !.zeny = z] = [item |-> i, amount |-> 1, zeny |-> z]
  BY <1>2
<1> QED BY <1>1, <1>2, <1>3, <1>4, EnclosuresAre

LEMMA AuctionsAre ==
    ASSUME NEW a \in GoingOn
    PROVE  /\ a.seller \in Player /\ a.buyer \in Player \union {NoPlayer} /\ a.item \in Item
           /\ a.price \in 0..MaxPrice /\ a.buynow \in 1..MaxPrice
           /\ a.price < a.buynow /\ a.buyer # a.seller
           /\ a.price \in 0..MaxZeny /\ a.buynow \in 0..MaxZeny
           /\ a.price \in Nat /\ a.buynow \in Nat
<1>1. /\ a.seller \in Player /\ a.buyer \in Player \union {NoPlayer} /\ a.item \in Item
      /\ a.price \in 0..MaxPrice /\ a.buynow \in 1..MaxPrice
      /\ a.price < a.buynow /\ a.buyer # a.seller
  BY DEF GoingOn, Auctions
<1>2. MaxPrice \in Nat /\ MaxZeny \in Nat /\ MaxPrice <= MaxZeny
  BY LimitsAssumption, PricesAssumption
<1>3. a.price \in 0..MaxZeny /\ a.buynow \in 0..MaxZeny /\ a.price \in Nat /\ a.buynow \in Nat
  BY <1>1, <1>2
<1> QED BY <1>1, <1>3

LEMMA HouseStays ==
    ASSUME HouseTyped, UNCHANGED CharAuctions, OnLink("register") \in Nat, OnLink("register")' \in Nat,
           OnLink("register")' <= OnLink("register") \/ nextAuction + OnLink("register")' <= MaxAuctions + 1
    PROVE  HouseTyped'
<1>1. auctions' = auctions /\ nextAuction' = nextAuction /\ nextAuction \in Nat
  BY DEF CharAuctions, HouseTyped
<1>2. \A p : SoldBy(p)' = SoldBy(p)
  BY <1>1 DEF SoldBy
<1>3. nextAuction' + OnLink("register")' <= MaxAuctions + 1
  <2>1. MaxAuctions \in Nat /\ nextAuction + OnLink("register") <= MaxAuctions + 1
    BY PricesAssumption DEF HouseTyped
  <2> HIDE DEF OnLink
  <2> QED BY <1>1, <2>1
<1> QED BY <1>1, <1>2, <1>3 DEF HouseTyped

LEMMA OfferBecomes ==
    ASSUME OfferTyped, NEW p \in Player
    PROVE  /\ offer' = [offer EXCEPT ![p] = {}] => OfferTyped'
           /\ \A s \in Slot : offer' = [offer EXCEPT ![p] = {s}] => OfferTyped'
           /\ offer' = offer => OfferTyped'
           /\ offer[p] \in SUBSET Slot
<1>1. offer[p] \in {{}} \union {{s} : s \in Slot}
  BY DEF OfferTyped
<1>2. offer[p] \in SUBSET Slot
  BY <1>1
<1> QED BY <1>2 DEF OfferTyped

LEMMA ElsewhereTyped ==
    ASSUME PostTyped, Elsewhere
    PROVE  WellTyped' /\ MailTyped' /\ LinksTyped' /\ OfferTyped' /\ HouseTyped'
<1>1. MailStep
  BY AllNextTyped DEF Elsewhere, PostTyped
<1>2. OfferTyped'
  <2>1. \A p \in Player : offer[p] \in {{}} \union {{s} : s \in Slot}
    BY DEF PostTyped, OfferTyped
  <2>2. offer' = [p \in Player |-> IF p \in away' THEN {} ELSE offer[p]]
    BY DEF Elsewhere
  <2> QED BY <2>1, <2>2 DEF OfferTyped
<1>3. OnLink("register") \in Nat /\ OnLink("register")' \in Nat
  <2>1. AskedRight /\ AskedRight'
    BY <1>1 DEF PostTyped, MailStep, LinksTyped
  <2>2. OnLink("register") \in Nat
    BY <2>1, OnLinkIs
  <2>3. OnLink("register")' = Count(toChar', "register") /\ IsSeq(toChar')
    BY <2>1 DEF OnLink, Count, AskedRight, Requests
  <2>4. Count(toChar', "register") \in Nat
    BY <2>3, CountIs
  <2> QED BY <2>2, <2>3, <2>4
<1>4. HouseTyped'
  <2>1. UNCHANGED CharAuctions /\ OnLink("register")' <= OnLink("register")
    BY <1>1 DEF Elsewhere, MailStep
  <2> HIDE DEF OnLink
  <2> QED BY <1>3, <2>1, HouseStays DEF PostTyped
<1> QED BY <1>1, <1>2, <1>4 DEF MailStep

\* Steps of the map-server for auctions: at most one request, and no change of
\* the letters.
LEMMA AuctionAsks ==
    ASSUME PostTyped, UNCHANGED <<letter, inbox, CharRows, away, Link, toMap, CharAuctions>>,
           WellTyped', OfferTyped',
           \/ toChar' = toChar
           \/ \E msgs : Sends(msgs)
           \/ /\ \E m : ToCharTyped(m) /\ Asks(<<m>>)
              /\ nextAuction + OnLink("register") <= MaxAuctions
    PROVE  WellTyped' /\ MailTyped' /\ LinksTyped' /\ OfferTyped' /\ HouseTyped'
<1>1. WellTyped /\ MailTyped /\ LinksTyped /\ HouseTyped /\ AskedRight
  BY DEF PostTyped, LinksTyped
<1>2. MailsOn
  BY <1>1, NoMoreMails
<1>3. LetterTyped' /\ InboxTyped' /\ RowsTyped' /\ AwayTyped'
  BY <1>1, <1>2, MailStays
<1>4. OnLink("register") \in Nat
  BY <1>1, OnLinkIs
<1>5. CASE toChar' = toChar \/ \E msgs : Sends(msgs)
  <2>1. LinksTyped' /\ OnLink("register")' <= OnLink("register")
    BY <1>1, <1>5, Sent
  <2>2. OnLink("register")' \in Nat
    <3>1. OnLink("register")' = Count(toChar', "register") /\ IsSeq(toChar')
      BY <2>1 DEF OnLink, Count, LinksTyped, AskedRight, Requests
    <3> QED BY <3>1, CountIs
  <2> HIDE DEF OnLink
  <2>3. HouseTyped'
    BY <1>1, <1>4, <2>1, <2>2, HouseStays
  <2> QED BY <1>3, <2>1, <2>3 DEF MailTyped
<1>6. CASE /\ \E m : ToCharTyped(m) /\ Asks(<<m>>)
           /\ nextAuction + OnLink("register") <= MaxAuctions
  <2>1. PICK m : ToCharTyped(m) /\ Asks(<<m>>)
    BY <1>6
  <2>2. Requests(<<m>>) /\ Len(<<m>>) = 1
    BY <2>1, Short DEF Requests
  <2>3. Count(<<m>>, "register") \in Nat /\ Count(<<m>>, "register") <= 1
    <3>1. {i \in DOMAIN <<m>> : <<m>>[i].type = "register"} \in SUBSET {1}
      OBVIOUS
    <3>2. IsFiniteSet({1}) /\ Cardinality({1}) = 1
      BY FS_Singleton
    <3>3. Cardinality({i \in DOMAIN <<m>> : <<m>>[i].type = "register"}) <= 1
      BY <3>1, <3>2, FS_Subset
    <3>4. Count(<<m>>, "register") \in Nat
      BY <2>2, CountIs DEF Requests
    <3> QED BY <3>3, <3>4 DEF Count
  <2>4. /\ AskedRight' /\ (~up => toChar' = toChar)
        /\ OnLink("register")' <= OnLink("register") + Count(<<m>>, "register")
    BY <1>1, <2>1, <2>2, LinkAsks
  <2>5. OnLink("register")' \in Nat
    <3>1. OnLink("register")' = Count(toChar', "register") /\ IsSeq(toChar')
      BY <2>4 DEF OnLink, Count, AskedRight, Requests
    <3> QED BY <3>1, CountIs
  <2>6. AnsweredRight'
    BY <1>1, <1>2, AnswersStay DEF LinksTyped
  <2>7. LinksTyped'
    BY <1>1, <2>4, <2>6 DEF LinksTyped, Link
  <2>8. nextAuction + OnLink("register")' <= MaxAuctions + 1
    <3>1. nextAuction \in Nat /\ MaxAuctions \in Nat
      BY <1>1, PricesAssumption DEF HouseTyped
    <3> HIDE DEF OnLink, Count
    <3> QED BY <1>4, <1>6, <2>3, <2>4, <2>5, <3>1
  <2> HIDE DEF OnLink
  <2>9. HouseTyped'
    BY <1>1, <1>4, <2>5, <2>8, HouseStays
  <2> QED BY <1>3, <2>7, <2>9 DEF MailTyped
<1> QED BY <1>5, <1>6

LEMMA AuctionNextTyped ==
    ASSUME PostTyped, AuctionNext
    PROVE  WellTyped' /\ MailTyped' /\ LinksTyped' /\ OfferTyped' /\ HouseTyped'
<1>1. ASSUME NEW a PROVE Doing(a) \in SUBSET Player
  BY DEF Doing
<1>2. PICK p \in Player :
        \/ AuctionCancelreg(p)
        \/ \E s \in Slot : AuctionSetitem(p, s)
        \/ \E price \in {1, MaxPrice}, buynow \in {MaxPrice, MaxPrice + 1} : AuctionRegister(p, price, buynow)
        \/ \E id \in 1..(nextAuction - 1) : AuctionCancel(p, id) \/ AuctionClose(p, id)
        \/ \E id \in 1..(nextAuction - 1), bid \in 1..MaxZeny : AuctionBid(p, id, bid)
  BY <1>1 DEF AuctionNext
<1>3. UNCHANGED <<letter, inbox, CharRows, away, Link, toMap, CharAuctions>>
  BY <1>2 DEF AuctionCancelreg, AuctionSetitem, AuctionRegister, AuctionCancel, AuctionClose, AuctionBid
<1>4. WellTyped /\ OfferTyped
  BY DEF PostTyped
<1>5. CASE \/ AuctionCancelreg(p)
           \/ \E s \in Slot : AuctionSetitem(p, s)
           \/ \E id : AuctionCancel(p, id) \/ AuctionClose(p, id)
  <2>1. UNCHANGED <<sd, Others>>
    BY <1>5 DEF AuctionCancelreg, AuctionSetitem, AuctionCancel, AuctionClose
  <2>2. WellTyped'
    BY <1>4, <2>1, SessionsStay
  <2>3. OfferTyped'
    <3>1. \/ offer' = offer \/ offer' = [offer EXCEPT ![p] = {}]
          \/ \E s \in Slot : offer' = [offer EXCEPT ![p] = {s}]
      BY <1>5 DEF AuctionCancelreg, AuctionSetitem, AuctionCancel, AuctionClose
    <3> QED BY <1>4, <3>1, OfferBecomes
  <2>4. toChar' = toChar \/ \E msgs : Sends(msgs)
    <3>1. ASSUME NEW id, AuctionCancel(p, id) \/ AuctionClose(p, id) PROVE \E msgs : Sends(msgs)
      <4>1. \E t \in {"cancel", "close"} : Asks(<<[type |-> t, p |-> p, id |-> id]>>)
        BY <3>1 DEF AuctionCancel, AuctionClose
      <4> QED BY <4>1, RequestsAre DEF Sends
    <3> QED BY <1>5, <3>1 DEF AuctionCancelreg, AuctionSetitem
  <2> QED BY <1>3, <2>2, <2>3, <2>4, AuctionAsks
<1>6. ASSUME NEW price \in {1, MaxPrice}, NEW buynow \in {MaxPrice, MaxPrice + 1}, AuctionRegister(p, price, buynow)
      PROVE  WellTyped' /\ MailTyped' /\ LinksTyped' /\ OfferTyped' /\ HouseTyped'
  <2>1. PICK s \in offer[p] :
         /\ sd[p].inv[s].item # NoItem
         /\ Changes(p, [sd[p] EXCEPT !.inv = PcDelItem(@, s, 1), !.zeny = PcPayZeny(@, AuctionFee)])
         /\ Asks(<<[type |-> "register", p |-> p,
                    price |-> Capped(price, buynow).price, buynow |-> Capped(price, buynow).buynow,
                    with |-> [Ware(sd[p].inv[s].item) EXCEPT !.zeny = AuctionFee]]>>)
         /\ Emptied(p, s)
    BY <1>6 DEF AuctionRegister
  <2>2. price < buynow /\ sd[p].zeny >= AuctionFee /\ nextAuction + OnLink("register") <= MaxAuctions
        /\ offer' = [offer EXCEPT ![p] = {}]
    BY <1>6 DEF AuctionRegister
  <2>3. s \in Slot
    BY <1>4, <2>1, OfferBecomes
  <2>4. AuctionFee \in Nat /\ 1 \in Nat
    BY PricesAssumption
  <2>5. sd[p].inv[s].item \in Item /\ AuctionFee \in 0..MaxZeny
    <3>1. sd[p].inv[s].item \in Item \union {NoItem} /\ sd[p].zeny \in 0..MaxZeny
      BY <1>4, <2>3, HoldingsAre
    <3> QED BY <2>1, <2>2, <2>4, <3>1, LimitsAssumption
  <2>6. WellTyped'
    <3>1. UNCHANGED <<World, does, nextId, strayed>> /\ (shown' = shown \/ Emptied(p, s))
      BY <1>6, <2>1 DEF AuctionRegister, World
    <3> QED BY <1>4, <2>1, <2>3, <2>4, <3>1, TakenTyped
  <2> DEFINE with == [Ware(sd[p].inv[s].item) EXCEPT !.zeny = AuctionFee]
             pr == Capped(price, buynow).price
             bn == Capped(price, buynow).buynow
             m == [type |-> "register", p |-> p, price |-> pr, buynow |-> bn, with |-> with]
  <2>7. with \in Enclosure /\ with.item \in Item
    BY <2>5, WaresAre
  <2>8. pr \in 0..MaxPrice /\ bn \in 1..MaxPrice /\ pr < bn
    <3>1. MaxPrice \in Nat \ {0}
      BY PricesAssumption, LimitsAssumption
    <3> QED BY <2>2, <3>1 DEF Capped
  <2>9. Asks(<<m>>)
    BY <2>1
  <2> HIDE DEF with, pr, bn
  <2>10. ToCharTyped(m)
    BY <2>7, <2>8 DEF ToCharTyped, HandsOver
  <2> HIDE DEF m
  <2>11. OfferTyped'
    BY <1>4, <2>2, OfferBecomes
  <2> QED BY <1>3, <2>2, <2>6, <2>9, <2>10, <2>11, AuctionAsks
<1>7. ASSUME NEW id, NEW bid \in 1..MaxZeny, AuctionBid(p, id, bid)
      PROVE  WellTyped' /\ MailTyped' /\ LinksTyped' /\ OfferTyped' /\ HouseTyped'
  <2> DEFINE m == [type |-> "bid", p |-> p, id |-> id, with |-> Zeny(bid)]
  <2>1. /\ Changes(p, [sd[p] EXCEPT !.zeny = PcPayZeny(@, bid)])
        /\ Asks(<<m>>) /\ offer' = offer /\ UNCHANGED Others
    BY <1>7 DEF AuctionBid
  <2>2. bid \in 0..MaxZeny /\ bid \in Nat
    BY LimitsAssumption
  <2>3. WellTyped'
    <3> DEFINE z == PcPayZeny(sd[p].zeny, bid)
               r == [sd[p] EXCEPT !.zeny = z]
    <3>1. sd[p] \in SessionData /\ sd[p].zeny \in 0..MaxZeny
      BY <1>4, HoldingsAre
    <3>2. z \in 0..MaxZeny
      BY <2>2, <3>1, PurseIs
    <3>3. Changes(p, r)
      BY <2>1
    <3> HIDE DEF z
    <3>4. r \in SessionData
      BY <3>1, <3>2 DEF SessionData
    <3> HIDE DEF r
    <3> QED BY <1>4, <2>1, <3>3, <3>4, TypedChange DEF Others, World
  <2>4. ToCharTyped(m) /\ m.type # "register"
    <3>1. Zeny(bid) \in Enclosure /\ Zeny(bid) = Zeny(Zeny(bid).zeny)
      BY <2>2, WaresAre
    <3> QED BY <3>1 DEF ToCharTyped, HandsOver
  <2> HIDE DEF m
  <2>5. \E msgs : Sends(msgs)
    BY <2>1, <2>4, OneRequest DEF Sends
  <2>6. OfferTyped'
    BY <1>4, <2>1, OfferBecomes
  <2> QED BY <1>3, <2>3, <2>5, <2>6, AuctionAsks
<1> QED BY <1>2, <1>5, <1>6, <1>7

-----------------------------------------------------------------------------
(* Auctions: what the char-server does. *)

\* Answers that name no letter.
PlainTyped(m) ==
    /\ m.type # "inbox" /\ m.p \in Player \union {NoPlayer}
    /\ HandsOver(m, {"attach", "sent", "registered", "bidding"})
    /\ m.type # "new" => m.p \in Player
PlainAnswers(q) == IsSeq(q) /\ \A j \in DOMAIN q : PlainTyped(q[j])

LEMMA PlainSent ==
    ASSUME NEW msgs, PlainAnswers(msgs), Answer(msgs)
    PROVE  Answered
<1>1. PICK q : q = msgs
  OBVIOUS
<1>2. IsSeq(q) /\ \A j \in DOMAIN q : PlainTyped(q[j])
  BY <1>1 DEF PlainAnswers
<1>3. ASSUME NEW m, PlainTyped(m) PROVE ToMapTyped(m)'
  BY <1>3 DEF PlainTyped, ToMapTyped, HandsOver, Enclosure
<1> QED BY <1>1, <1>2, <1>3 DEF Answered

LEMMA PlainJoined ==
    /\ PlainAnswers(<< >>)
    /\ \A m : PlainTyped(m) => PlainAnswers(<<m>>)
    /\ \A s, t : PlainAnswers(s) /\ PlainAnswers(t) => PlainAnswers(s \o t)
<1>1. PlainAnswers(<< >>)
  <2>1. IsSeq(<< >>) /\ \A j \in DOMAIN << >> : FALSE
    <3>1. IsSeq(<< >>)
      BY Short
    <3>2. \A j \in DOMAIN << >> : FALSE
      OBVIOUS
    <3> QED BY <3>1, <3>2
  <2> QED BY <2>1 DEF PlainAnswers
<1>2. ASSUME NEW m, PlainTyped(m) PROVE PlainAnswers(<<m>>)
  BY <1>2, Short DEF PlainAnswers
<1>3. ASSUME NEW s, NEW t, PlainAnswers(s), PlainAnswers(t) PROVE PlainAnswers(s \o t)
  <2> DEFINE q == s \o t
  <2>1. PICK n \in Nat, m \in Nat : n = Len(s) /\ m = Len(t)
    BY <1>3, Joined DEF PlainAnswers
  <2>2. /\ DOMAIN s = 1..n /\ DOMAIN t = 1..m /\ DOMAIN q = 1..(n + m) /\ IsSeq(q)
        /\ \A j \in 1..n : q[j] = s[j]
        /\ \A j \in 1..m : q[n + j] = t[j]
    BY <1>3, <2>1, Joined DEF PlainAnswers
  <2>3. ASSUME NEW j \in DOMAIN q PROVE PlainTyped(q[j])
    <3> HIDE DEF q
    <3>1. j \in 1..n \/ (j - n \in 1..m /\ j = n + (j - n))
      BY <2>2
    <3>2. CASE j \in 1..n
      BY <1>3, <2>2, <3>2 DEF PlainAnswers
    <3>3. CASE j - n \in 1..m /\ j = n + (j - n)
      <4>1. q[j] = t[j - n]
        BY <2>2, <3>3
      <4> QED BY <1>3, <2>2, <3>3, <4>1 DEF PlainAnswers
    <3> QED BY <3>1, <3>2, <3>3
  <2> QED BY <2>2, <2>3 DEF PlainAnswers
<1> QED BY <1>1, <1>2, <1>3

\* Letters the auction house sends.
Parcels(mails) ==
    IsSeq(mails) /\ \A j \in DOMAIN mails : mails[j].to \in Player /\ mails[j].with \in Enclosure

LEMMA NewsPlain ==
    ASSUME NEW mails, Parcels(mails)
    PROVE  PlainAnswers(NewsOf(mails))
<1>0. PICK n \in Nat : n = Len(mails) /\ DOMAIN mails = 1..n
  BY DEF Parcels, IsSeq
<1> DEFINE q == NewsOf(mails)
<1>1. DOMAIN q = 1..n /\ \A j \in 1..n : q[j] = [type |-> "new", p |-> mails[j].to]
  BY <1>0 DEF NewsOf
<1>2. q = [j \in 1..n |-> [type |-> "new", p |-> mails[j].to]]
  BY <1>0 DEF NewsOf
<1> DEFINE R == {[type |-> "new", p |-> mails[j].to] : j \in 1..n}
<1>3. q \in [1..n -> R]
  BY <1>2
<1> HIDE DEF q, R
<1>4. q \in Seq(R)
  BY <1>3
<1>5. ASSUME NEW j \in 1..n PROVE PlainTyped(q[j])
  <2>1. mails[j].to \in Player
    BY <1>0 DEF Parcels
  <2> QED BY <1>1, <2>1 DEF PlainTyped, HandsOver
<1>6. PlainAnswers(q)
  BY <1>1, <1>4, <1>5 DEF PlainAnswers, IsSeq
<1> QED BY <1>6 DEF q

LEMMA SendMailsIs ==
    ASSUME MailTyped, NEW mails, Parcels(mails), SendMails(mails)
    PROVE  /\ RowsTyped' /\ MailsOn /\ nextMail' = nextMail + Len(mails) /\ Len(mails) \in Nat
           /\ PlainAnswers(NewsOf(mails))
<1>1. PICK S : mails \in Seq(S)
  BY DEF Parcels, IsSeq
<1>2. PICK n \in Nat : n = Len(mails) /\ DOMAIN mails = 1..n
  BY <1>1
<1>3. nextMail \in Nat \ {0} /\ nextMail' = nextMail + n
  BY <1>2, RowsAre DEF SendMails
<1> DEFINE f == [i \in DOMAIN rows \union (nextMail .. nextMail + n - 1) |->
                  IF i < nextMail THEN rows[i]
                  ELSE [from |-> NoPlayer, to |-> mails[i - nextMail + 1].to, status |-> "new",
                        with |-> mails[i - nextMail + 1].with]]
<1>4. rows' = f
  BY <1>2 DEF SendMails
<1>5. ASSUME NEW i \in nextMail .. nextMail + n - 1
      PROVE  [from |-> NoPlayer, to |-> mails[i - nextMail + 1].to, status |-> "new",
              with |-> mails[i - nextMail + 1].with] \in Letters
  <2>1. i - nextMail + 1 \in 1..n
    BY <1>3
  <2>2. mails[i - nextMail + 1].to \in Player /\ mails[i - nextMail + 1].with \in Enclosure
    BY <1>2, <2>1 DEF Parcels
  <2> QED BY <2>2, SentIs
<1>6. ASSUME NEW i \in DOMAIN f
      PROVE  (i \in DOMAIN rows \/ (i \in Nat /\ i >= nextMail /\ i < nextMail + n)) /\ f[i] \in Letters
  <2>1. CASE i \in DOMAIN rows
    <3>1. i < nextMail /\ rows[i] \in Letters
      BY <2>1, RowsAre
    <3> QED BY <2>1, <3>1
  <2>2. CASE i \in nextMail .. nextMail + n - 1
    <3>1. ~(i < nextMail) /\ i \in Nat /\ i >= nextMail /\ i < nextMail + n
      BY <1>3, <2>2
    <3> QED BY <1>5, <2>2, <3>1
  <2> QED BY <2>1, <2>2
<1> HIDE DEF f
<1>7. RowsTyped' /\ MailsOn
  BY <1>3, <1>4, <1>6, RowsMade
<1>8. PlainAnswers(NewsOf(mails))
  BY NewsPlain
<1> QED BY <1>2, <1>3, <1>7, <1>8

LEMMA ParcelsAre ==
    /\ Parcels(<< >>) /\ Len(<< >>) = 0
    /\ \A m : m.to \in Player /\ m.with \in Enclosure => Parcels(<<m>>) /\ Len(<<m>>) = 1
    /\ \A m, n : (m.to \in Player /\ m.with \in Enclosure /\ n.to \in Player /\ n.with \in Enclosure) => Parcels(<<m, n>>) /\ Len(<<m, n>>) = 2
    /\ \A s, t : Parcels(s) /\ Parcels(t) => /\ Parcels(s \o t) /\ Len(s \o t) = Len(s) + Len(t)
                                             /\ Len(s) \in Nat /\ Len(t) \in Nat
<1>1. Parcels(<< >>)
  <2>1. IsSeq(<< >>) /\ \A j \in DOMAIN << >> : FALSE
    <3>1. IsSeq(<< >>)
      BY Short
    <3>2. \A j \in DOMAIN << >> : FALSE
      OBVIOUS
    <3> QED BY <3>1, <3>2
  <2> QED BY <2>1 DEF Parcels
<1>2. ASSUME NEW m, m.to \in Player, m.with \in Enclosure PROVE Parcels(<<m>>)
  BY <1>2, Short DEF Parcels
<1>3. ASSUME NEW m, NEW n, m.to \in Player, m.with \in Enclosure, n.to \in Player, n.with \in Enclosure
      PROVE  Parcels(<<m, n>>) /\ Len(<<m, n>>) = 2
  <2>1. <<m, n>> \in Seq({m, n}) /\ \A j \in DOMAIN <<m, n>> : <<m, n>>[j] = m \/ <<m, n>>[j] = n
    OBVIOUS
  <2>2. IsSeq(<<m, n>>)
    BY <2>1 DEF IsSeq
  <2> QED BY <1>3, <2>1, <2>2 DEF Parcels
<1>4. ASSUME NEW s, NEW t, Parcels(s), Parcels(t)
      PROVE  Parcels(s \o t) /\ Len(s \o t) = Len(s) + Len(t) /\ Len(s) \in Nat /\ Len(t) \in Nat
  <2> DEFINE q == s \o t
  <2>1. PICK n \in Nat, m \in Nat : n = Len(s) /\ m = Len(t)
    BY <1>4, Joined DEF Parcels
  <2>2. /\ DOMAIN s = 1..n /\ DOMAIN t = 1..m /\ DOMAIN q = 1..(n + m) /\ IsSeq(q) /\ Len(q) = n + m
        /\ \A j \in 1..n : q[j] = s[j]
        /\ \A j \in 1..m : q[n + j] = t[j]
    BY <1>4, <2>1, Joined DEF Parcels
  <2>3. ASSUME NEW j \in DOMAIN q PROVE q[j].to \in Player /\ q[j].with \in Enclosure
    <3> HIDE DEF q
    <3>1. j \in 1..n \/ (j - n \in 1..m /\ j = n + (j - n))
      BY <2>2
    <3>2. CASE j \in 1..n
      BY <1>4, <2>2, <3>2 DEF Parcels
    <3>3. CASE j - n \in 1..m /\ j = n + (j - n)
      <4>1. q[j] = t[j - n]
        BY <2>2, <3>3
      <4> QED BY <1>4, <2>2, <3>3, <4>1 DEF Parcels
    <3> QED BY <3>1, <3>2, <3>3
  <2>4. Parcels(q)
    <3> HIDE DEF q
    <3> QED BY <2>2, <2>3 DEF Parcels
  <2> QED BY <2>1, <2>2, <2>4
<1>5. Len(<< >>) = 0 /\ (\A m : Len(<<m>>) = 1) /\ \A m, n : Len(<<m, n>>) = 2
  OBVIOUS
<1>6. \A m : m.to \in Player /\ m.with \in Enclosure => Parcels(<<m>>) /\ Len(<<m>>) = 1
  BY <1>2, <1>5
<1>7. \A m, n : (m.to \in Player /\ m.with \in Enclosure /\ n.to \in Player /\ n.with \in Enclosure) => Parcels(<<m, n>>) /\ Len(<<m, n>>) = 2
  BY <1>3
<1>8. \A s, t : Parcels(s) /\ Parcels(t) => /\ Parcels(s \o t) /\ Len(s \o t) = Len(s) + Len(t)
                                            /\ Len(s) \in Nat /\ Len(t) \in Nat
  BY <1>4
<1> HIDE DEF Parcels
<1> QED BY <1>1, <1>5, <1>6, <1>7, <1>8

\* What goes out when auction a ends, or somebody is outbid.
LEMMA AuctionMailsAre ==
    ASSUME NEW a \in GoingOn, NEW b \in Player
    PROVE  /\ Parcels(EndMails(a)) /\ Len(EndMails(a)) \in 1..2
           /\ a.buyer = NoPlayer => Len(EndMails(a)) = 1
           /\ Parcels(Outbid(a)) /\ Len(Outbid(a)) \in 0..1
           /\ LET sold == <<To(b, Ware(a.item)), To(a.seller, Zeny(a.buynow))>>
              IN  Parcels(sold) /\ Len(sold) = 2
           /\ a.buyer # NoPlayer =>
                LET ends == <<To(a.seller, Zeny(a.price)), To(a.buyer, Ware(a.item))>>
                IN  Parcels(ends) /\ Len(ends) = 2
<1>1. /\ a.seller \in Player /\ a.buyer \in Player \union {NoPlayer}
      /\ Ware(a.item) \in Enclosure /\ Zeny(a.price) \in Enclosure /\ Zeny(a.buynow) \in Enclosure
  BY AuctionsAre, WaresAre
<1>2. \A x, w : To(x, w).to = x /\ To(x, w).with = w
  BY DEF To
<1>3. a.buyer # NoPlayer => a.buyer \in Player
  BY <1>1
<1> HIDE DEF To, Ware, Zeny
<1>4. Parcels(EndMails(a)) /\ Len(EndMails(a)) \in 1..2 /\ (a.buyer = NoPlayer => Len(EndMails(a)) = 1)
  <2>1. CASE a.buyer = NoPlayer
    BY <1>1, <1>2, <2>1, ParcelsAre DEF EndMails
  <2>2. CASE a.buyer # NoPlayer
    <3>1. EndMails(a) = <<To(a.buyer, Ware(a.item)), To(a.seller, Zeny(a.price))>>
      BY <2>2 DEF EndMails
    <3> QED BY <1>1, <1>2, <1>3, <2>2, <3>1, ParcelsAre
  <2> QED BY <2>1, <2>2
<1>5. Parcels(Outbid(a)) /\ Len(Outbid(a)) \in 0..1
  <2>1. CASE a.buyer = NoPlayer
    BY <2>1, ParcelsAre DEF Outbid
  <2>2. CASE a.buyer # NoPlayer
    <3>1. Outbid(a) = <<To(a.buyer, Zeny(a.price))>>
      BY <2>2 DEF Outbid
    <3> QED BY <1>1, <1>2, <1>3, <2>2, <3>1, ParcelsAre
  <2> QED BY <2>1, <2>2
<1>6. LET sold == <<To(b, Ware(a.item)), To(a.seller, Zeny(a.buynow))>>
      IN  Parcels(sold) /\ Len(sold) = 2
  BY <1>1, <1>2, ParcelsAre
<1>7. a.buyer # NoPlayer =>
         LET ends == <<To(a.seller, Zeny(a.price)), To(a.buyer, Ware(a.item))>>
         IN  Parcels(ends) /\ Len(ends) = 2
  BY <1>1, <1>2, <1>3, ParcelsAre
<1> QED BY <1>4, <1>5, <1>6, <1>7

LEMMA HouseIs ==
    ASSUME HouseTyped
    PROVE  /\ IsFiniteSet(DOMAIN auctions) /\ Cardinality(DOMAIN auctions) \in Nat
           /\ \A p : IsFiniteSet(SoldBy(p)) /\ Cardinality(SoldBy(p)) \in Nat
           /\ \A id \in DOMAIN auctions : auctions[id] \in GoingOn
           /\ nextAuction \in Nat \ {0} /\ nextAuction \notin DOMAIN auctions
<1>1. nextAuction \in Nat \ {0} /\ DOMAIN auctions \in SUBSET (1..(nextAuction - 1))
  BY DEF HouseTyped
<1>2. IsFiniteSet(1..(nextAuction - 1))
  BY <1>1, FS_Interval
<1>3. IsFiniteSet(DOMAIN auctions)
  BY <1>1, <1>2, FS_Subset
<1>4. \A p : SoldBy(p) \in SUBSET (DOMAIN auctions)
  BY DEF SoldBy
<1>5. \A p : IsFiniteSet(SoldBy(p))
  BY <1>3, <1>4, FS_Subset
<1>6. \A p : Cardinality(SoldBy(p)) \in Nat
  BY <1>5, FS_CardinalityType
<1>7. Cardinality(DOMAIN auctions) \in Nat
  BY <1>3, FS_CardinalityType
<1>8. nextAuction \notin DOMAIN auctions
  BY <1>1
<1> QED BY <1>1, <1>3, <1>5, <1>6, <1>7, <1>8 DEF HouseTyped

LEMMA AuctionGone ==
    ASSUME HouseTyped, NEW id \in DOMAIN auctions, auctions' = Without(auctions, id), nextAuction' = nextAuction,
           OnLink("register")' \in Nat, OnLink("register") \in Nat, OnLink("register")' <= OnLink("register")
    PROVE  HouseTyped' /\ Cardinality(DOMAIN auctions') = Cardinality(DOMAIN auctions) - 1
<1>1. /\ IsFiniteSet(DOMAIN auctions) /\ Cardinality(DOMAIN auctions) \in Nat
      /\ \A p : IsFiniteSet(SoldBy(p)) /\ Cardinality(SoldBy(p)) \in Nat
      /\ nextAuction \in Nat \ {0}
  BY HouseIs
<1>2. DOMAIN auctions' = DOMAIN auctions \ {id} /\ \A i \in DOMAIN auctions' : auctions'[i] = auctions[i]
  BY DEF Without
<1>3. \A p : SoldBy(p)' \in SUBSET SoldBy(p)
  BY <1>2 DEF SoldBy
<1>4. ASSUME NEW p \in Player PROVE Cardinality(SoldBy(p)') <= MaxOwn
  <2>1. Cardinality(SoldBy(p)') <= Cardinality(SoldBy(p)) /\ IsFiniteSet(SoldBy(p)')
    BY <1>1, <1>3, FS_Subset
  <2>2. Cardinality(SoldBy(p)') \in Nat
    BY <2>1, FS_CardinalityType
  <2>3. Cardinality(SoldBy(p)) <= MaxOwn /\ MaxOwn \in Nat
    BY PricesAssumption DEF HouseTyped
  <2> HIDE DEF SoldBy
  <2> QED BY <1>1, <2>1, <2>2, <2>3
<1>5. Cardinality(DOMAIN auctions \ {id}) = Cardinality(DOMAIN auctions) - 1
  BY <1>1, FS_RemoveElement
<1>6. nextAuction' + OnLink("register")' <= MaxAuctions + 1
  <2>1. MaxAuctions \in Nat /\ nextAuction + OnLink("register") <= MaxAuctions + 1
    BY PricesAssumption DEF HouseTyped
  <2> HIDE DEF OnLink
  <2> QED BY <1>1, <2>1
<1>7. \A i \in DOMAIN auctions' : i \in 1..(nextAuction' - 1) /\ auctions'[i] \in GoingOn
  BY <1>2 DEF HouseTyped
<1>8. GoingOn' = GoingOn
  BY DEF GoingOn, Auctions
<1> QED BY <1>1, <1>2, <1>4, <1>5, <1>6, <1>7, <1>8 DEF HouseTyped

LEMMA AuctionBidOn ==
    ASSUME HouseTyped, NEW id \in DOMAIN auctions, NEW a \in GoingOn, a.seller = auctions[id].seller,
           auctions' = [auctions EXCEPT ![id] = a], nextAuction' = nextAuction,
           OnLink("register")' \in Nat, OnLink("register") \in Nat, OnLink("register")' <= OnLink("register")
    PROVE  HouseTyped' /\ DOMAIN auctions' = DOMAIN auctions
<1>1. nextAuction \in Nat \ {0}
  BY HouseIs
<1>2. DOMAIN auctions' = DOMAIN auctions /\ \A i \in DOMAIN auctions : auctions'[i] = IF i = id THEN a ELSE auctions[i]
  OBVIOUS
<1>3. \A p : SoldBy(p)' = SoldBy(p)
  BY <1>2 DEF SoldBy
<1>4. nextAuction' + OnLink("register")' <= MaxAuctions + 1
  <2>1. MaxAuctions \in Nat /\ nextAuction + OnLink("register") <= MaxAuctions + 1
    BY PricesAssumption DEF HouseTyped
  <2> HIDE DEF OnLink
  <2> QED BY <1>1, <2>1
<1>5. \A i \in DOMAIN auctions' : i \in 1..(nextAuction' - 1) /\ auctions'[i] \in GoingOn
  BY <1>2 DEF HouseTyped
<1>6. GoingOn' = GoingOn
  BY DEF GoingOn, Auctions
<1> QED BY <1>1, <1>2, <1>3, <1>4, <1>5, <1>6 DEF HouseTyped

LEMMA AuctionAdded ==
    ASSUME HouseTyped, NEW a \in GoingOn, Cardinality(SoldBy(a.seller)) < MaxOwn,
           auctions' = [i \in DOMAIN auctions \union {nextAuction} |-> IF i = nextAuction THEN a ELSE auctions[i]],
           nextAuction' = nextAuction + 1,
           OnLink("register")' \in Nat, OnLink("register") = OnLink("register")' + 1
    PROVE  HouseTyped' /\ Cardinality(DOMAIN auctions') = Cardinality(DOMAIN auctions) + 1
<1>1. /\ IsFiniteSet(DOMAIN auctions) /\ Cardinality(DOMAIN auctions) \in Nat
      /\ \A p : IsFiniteSet(SoldBy(p)) /\ Cardinality(SoldBy(p)) \in Nat
      /\ nextAuction \in Nat \ {0} /\ nextAuction \notin DOMAIN auctions
  BY HouseIs
<1>2. /\ DOMAIN auctions' = DOMAIN auctions \union {nextAuction} /\ auctions'[nextAuction] = a
      /\ \A i \in DOMAIN auctions : auctions'[i] = auctions[i]
  BY <1>1
<1>3. \A p : SoldBy(p)' = IF p = a.seller THEN SoldBy(p) \union {nextAuction} ELSE SoldBy(p)
  BY <1>2 DEF SoldBy
<1>4. nextAuction \notin SoldBy(a.seller)
  BY <1>1 DEF SoldBy
<1>5. Cardinality(SoldBy(a.seller) \union {nextAuction}) = Cardinality(SoldBy(a.seller)) + 1
  BY <1>1, <1>4, FS_AddElement
<1>6. ASSUME NEW p \in Player PROVE Cardinality(SoldBy(p)') <= MaxOwn
  <2>1. Cardinality(SoldBy(p)) <= MaxOwn /\ MaxOwn \in Nat
    BY PricesAssumption DEF HouseTyped
  <2> HIDE DEF SoldBy
  <2>2. CASE p = a.seller
    <3>1. SoldBy(p)' = SoldBy(p) \union {nextAuction}
      BY <1>3, <2>2
    <3>2. Cardinality(SoldBy(p) \union {nextAuction}) = Cardinality(SoldBy(p)) + 1 /\ Cardinality(SoldBy(p)) < MaxOwn
      BY <1>5, <2>2
    <3>3. Cardinality(SoldBy(p)) \in Nat
      BY <1>1
    <3> QED BY <2>1, <3>1, <3>2, <3>3
  <2>3. CASE p # a.seller
    BY <1>3, <2>1, <2>3
  <2> QED BY <2>2, <2>3
<1>7. Cardinality(DOMAIN auctions \union {nextAuction}) = Cardinality(DOMAIN auctions) + 1
  BY <1>1, FS_AddElement
<1>8. nextAuction' + OnLink("register")' <= MaxAuctions + 1
  <2>1. MaxAuctions \in Nat /\ nextAuction + OnLink("register") <= MaxAuctions + 1
    BY PricesAssumption DEF HouseTyped
  <2> HIDE DEF OnLink
  <2> QED BY <1>1, <2>1
<1>9. \A i \in DOMAIN auctions' : i \in 1..(nextAuction' - 1) /\ auctions'[i] \in GoingOn
  BY <1>1, <1>2 DEF HouseTyped
<1>10. GoingOn' = GoingOn
  BY DEF GoingOn, Auctions
<1> QED BY <1>1, <1>2, <1>6, <1>7, <1>8, <1>9, <1>10 DEF HouseTyped

LEMMA IdsCount ==
    ASSUME IdsLeft, HouseTyped, MailTyped, \A t : OnLink(t) \in Nat /\ OnLink(t)' \in Nat,
           NEW k \in Nat, nextMail' = nextMail + k, Cardinality(DOMAIN auctions') \in Int,
           OnLink("send")' <= OnLink("send"), OnLink("return")' <= OnLink("return"),
           k + OnLink("bid")' + 2 * (OnLink("register")' + Cardinality(DOMAIN auctions'))
             <= OnLink("bid") + 2 * (OnLink("register") + Cardinality(DOMAIN auctions))
    PROVE  IdsLeft'
<1>1. nextMail \in Nat \ {0} /\ Cardinality(DOMAIN auctions) \in Nat /\ MaxMails \in Nat
  BY RowsAre, HouseIs, LettersAssumption
<1>2. /\ OnLink("send") \in Nat /\ OnLink("send")' \in Nat /\ OnLink("return") \in Nat /\ OnLink("return")' \in Nat
      /\ OnLink("bid") \in Nat /\ OnLink("bid")' \in Nat /\ OnLink("register") \in Nat /\ OnLink("register")' \in Nat
  OBVIOUS
<1>3. nextMail - 1 + OnLink("send") + OnLink("return") + OnLink("bid")
        + 2 * (OnLink("register") + Cardinality(DOMAIN auctions)) <= MaxMails
  BY DEF IdsLeft
<1> HIDE DEF OnLink
<1>4. nextMail' - 1 + OnLink("send")' + OnLink("return")' + OnLink("bid")'
        + 2 * (OnLink("register")' + Cardinality(DOMAIN auctions')) <= MaxMails
  BY <1>1, <1>2, <1>3
<1> QED BY <1>4 DEF IdsLeft

HouseStep == RowsTyped' /\ MailsOn /\ LinksTyped' /\ HouseTyped' /\ IdsLeft'

\* Mails are sent for an auction that ends.
LEMMA EndsTyped ==
    ASSUME MailTyped, HouseTyped, IdsLeft, LinksTyped,
           NEW id \in DOMAIN auctions, auctions' = Without(auctions, id), nextAuction' = nextAuction,
           NEW k \in Nat, nextMail' = nextMail + k,
           \A t : OnLink(t) \in Nat /\ OnLink(t)' \in Nat /\ OnLink(t)' <= OnLink(t),
           k <= 2 + OnLink("bid") - OnLink("bid")'
    PROVE  HouseTyped' /\ IdsLeft'
<1>1. /\ OnLink("send") \in Nat /\ OnLink("send")' \in Nat /\ OnLink("return") \in Nat /\ OnLink("return")' \in Nat
      /\ OnLink("bid") \in Nat /\ OnLink("bid")' \in Nat /\ OnLink("register") \in Nat /\ OnLink("register")' \in Nat
      /\ OnLink("register")' <= OnLink("register")
  OBVIOUS
<1>2. HouseTyped' /\ Cardinality(DOMAIN auctions') = Cardinality(DOMAIN auctions) - 1
  BY <1>1, AuctionGone
<1>3. Cardinality(DOMAIN auctions) \in Nat
  BY HouseIs
<1> HIDE DEF OnLink
<1>4. /\ k + OnLink("bid")' + 2 * (OnLink("register")' + Cardinality(DOMAIN auctions'))
           <= OnLink("bid") + 2 * (OnLink("register") + Cardinality(DOMAIN auctions))
      /\ Cardinality(DOMAIN auctions') \in Int
  BY <1>1, <1>2, <1>3
<1>5. IdsLeft'
  BY <1>4, IdsCount
<1> QED BY <1>2, <1>5

LEMMA RegisterParsed ==
    ASSUME PostTyped, MapifParseAuctionRegister
    PROVE  HouseStep
<1> DEFINE msg == Head(toChar)
           new == [seller |-> msg.p, buyer |-> NoPlayer, item |-> msg.with.item,
                   price |-> msg.price, buynow |-> msg.buynow]
           reply(with) == [type |-> "registered", p |-> msg.p, with |-> with]
<1>1. /\ FromMap("register") /\ UNCHANGED CharRows /\ up' = up
      /\ \/ /\ Cardinality(SoldBy(msg.p)) < MaxOwn
            /\ auctions' = [i \in DOMAIN auctions \union {nextAuction} |->
                              IF i = nextAuction THEN new ELSE auctions[i]]
            /\ nextAuction' = nextAuction + 1
            /\ Answer(<<reply(NoEnclosure)>>)
         \/ Answer(<<reply(msg.with)>>) /\ UNCHANGED CharAuctions
  BY DEF MapifParseAuctionRegister, CharKeeps, Link
<1>2. MailTyped /\ LinksTyped /\ HouseTyped /\ IdsLeft
  BY DEF PostTyped
<1>3. ToCharTyped(msg) /\ msg.type = "register"
  BY <1>1, <1>2, TailTyped DEF FromMap, LinksTyped, AskedRight
<1> HIDE DEF msg
<1>4. /\ msg.p \in Player /\ msg.with \in Enclosure /\ msg.with.item \in Item
      /\ msg.price \in 0..MaxPrice /\ msg.buynow \in 1..MaxPrice /\ msg.price < msg.buynow
  BY <1>3 DEF ToCharTyped, HandsOver
<1>5. MailsOn /\ RowsTyped'
  BY <1>1, <1>2, NoMoreMails, MailStays
<1>6. Answered
  <2>1. \A with \in Enclosure : PlainTyped(reply(with))
    BY <1>4 DEF PlainTyped, HandsOver
  <2>2. NoEnclosure \in Enclosure
    BY EnclosuresAre
  <2> HIDE DEF NoEnclosure
  <2>3. PICK m : PlainTyped(m) /\ Answer(<<m>>)
    BY <1>1, <1>4, <2>1, <2>2
  <2> QED BY <2>3, PlainJoined, PlainSent
<1>7. /\ LinksTyped'
      /\ \A t : /\ OnLink(t) \in Nat /\ OnLink(t)' \in Nat
                /\ OnLink(t) = OnLink(t)' + IF t = "register" THEN 1 ELSE 0
  BY <1>1, <1>2, <1>5, <1>6, Parsed
<1>8. /\ OnLink("send")' = OnLink("send") /\ OnLink("return")' = OnLink("return") /\ OnLink("bid")' = OnLink("bid")
      /\ OnLink("register") = OnLink("register")' + 1
      /\ OnLink("bid") \in Nat /\ OnLink("send") \in Nat /\ OnLink("return") \in Nat /\ OnLink("register")' \in Nat
      /\ OnLink("register") \in Nat
  BY <1>7
<1>9. HouseTyped' /\ Cardinality(DOMAIN auctions') \in Nat
      /\ Cardinality(DOMAIN auctions') <= Cardinality(DOMAIN auctions) + 1
  <2>1. CASE /\ Cardinality(SoldBy(msg.p)) < MaxOwn
             /\ auctions' = [i \in DOMAIN auctions \union {nextAuction} |->
                               IF i = nextAuction THEN new ELSE auctions[i]]
             /\ nextAuction' = nextAuction + 1
    <3>1. new \in GoingOn /\ new.seller = msg.p
      <4>1. NoPlayer # msg.p
        BY <1>4, NoPlayerAssumption
      <4> QED BY <1>4, <4>1 DEF GoingOn, Auctions
    <3> HIDE DEF new
    <3>2. HouseTyped' /\ Cardinality(DOMAIN auctions') = Cardinality(DOMAIN auctions) + 1
      BY <1>2, <1>8, <2>1, <3>1, AuctionAdded
    <3>3. Cardinality(DOMAIN auctions) \in Nat
      BY <1>2, HouseIs
    <3> QED BY <3>2, <3>3
  <2>2. CASE UNCHANGED CharAuctions
    <3> HIDE DEF OnLink
    <3>1. OnLink("register")' <= OnLink("register")
      BY <1>8
    <3>2. HouseTyped'
      BY <1>2, <1>8, <2>2, <3>1, HouseStays
    <3>3. Cardinality(DOMAIN auctions) \in Nat /\ auctions' = auctions
      BY <1>2, <2>2, HouseIs DEF CharAuctions
    <3> QED BY <3>2, <3>3
  <2> QED BY <1>1, <2>1, <2>2
<1>10. IdsLeft'
  <2>1. Cardinality(DOMAIN auctions) \in Nat /\ nextMail' = nextMail + 0 /\ 0 \in Nat
    BY <1>1, <1>2, HouseIs, RowsAre DEF CharRows
  <2> HIDE DEF OnLink
  <2>2. /\ 0 + OnLink("bid")' + 2 * (OnLink("register")' + Cardinality(DOMAIN auctions'))
             <= OnLink("bid") + 2 * (OnLink("register") + Cardinality(DOMAIN auctions))
        /\ OnLink("send")' <= OnLink("send") /\ OnLink("return")' <= OnLink("return")
        /\ Cardinality(DOMAIN auctions') \in Int
    BY <1>8, <1>9, <2>1
  <2>3. \A t : OnLink(t) \in Nat /\ OnLink(t)' \in Nat
    BY <1>7
  <2> QED BY <1>2, <2>1, <2>2, <2>3, IdsCount
<1> QED BY <1>5, <1>7, <1>9, <1>10 DEF HouseStep

LEMMA BidParsed ==
    ASSUME PostTyped, MapifParseAuctionBid
    PROVE  HouseStep
<1> DEFINE msg == Head(toChar)
<1>1. /\ FromMap("bid") /\ nextAuction' = nextAuction /\ up' = up
      /\ \/ MayBid(msg) /\ AuctionTakesBid(msg)
         \/ /\ Answer(<<[type |-> "bidding", p |-> msg.p, with |-> msg.with, done |-> FALSE]>>)
            /\ UNCHANGED <<CharRows, auctions>>
  BY DEF MapifParseAuctionBid, CharKeeps, Link
<1>2. MailTyped /\ LinksTyped /\ HouseTyped /\ IdsLeft
  BY DEF PostTyped
<1>3. ToCharTyped(msg) /\ msg.type = "bid"
  BY <1>1, <1>2, TailTyped DEF FromMap, LinksTyped, AskedRight
<1> HIDE DEF msg
<1>4. /\ msg.p \in Player /\ msg.with \in Enclosure /\ msg.with.zeny \in 0..MaxZeny
  BY <1>3, EnclosuresAre DEF ToCharTyped, HandsOver
<1> DEFINE a == auctions[msg.id]
           bid == msg.with.zeny
           reply(n) == <<[type |-> "bidding", p |-> msg.p, with |-> Zeny(n), done |-> TRUE]>>
           sold == <<To(msg.p, Ware(a.item)), To(a.seller, Zeny(a.buynow))>>
<1>5. \A n \in 0..MaxZeny : PlainAnswers(reply(n))
  <2>1. \A n \in 0..MaxZeny : PlainTyped([type |-> "bidding", p |-> msg.p, with |-> Zeny(n), done |-> TRUE])
    BY <1>4, WaresAre DEF PlainTyped, HandsOver
  <2> QED BY <2>1, PlainJoined
<1>6. CASE UNCHANGED <<CharRows, auctions>> /\ Answer(<<[type |-> "bidding", p |-> msg.p, with |-> msg.with, done |-> FALSE]>>)
  <2>1. MailsOn /\ RowsTyped'
    BY <1>2, <1>6, NoMoreMails, MailStays
  <2>2. Answered
    <3>1. PlainTyped([type |-> "bidding", p |-> msg.p, with |-> msg.with, done |-> FALSE])
      BY <1>4 DEF PlainTyped, HandsOver
    <3> QED BY <1>6, <3>1, PlainJoined, PlainSent
  <2>3. /\ LinksTyped'
        /\ \A t : /\ OnLink(t) \in Nat /\ OnLink(t)' \in Nat
                  /\ OnLink(t) = OnLink(t)' + IF t = "bid" THEN 1 ELSE 0
    BY <1>1, <1>2, <2>1, <2>2, Parsed
  <2>4. /\ OnLink("send")' = OnLink("send") /\ OnLink("return")' = OnLink("return") /\ OnLink("register")' = OnLink("register")
        /\ OnLink("bid") = OnLink("bid")' + 1 /\ OnLink("bid")' \in Nat /\ OnLink("register") \in Nat
        /\ OnLink("send") \in Nat /\ OnLink("return") \in Nat
    BY <2>3
  <2> HIDE DEF OnLink
  <2>5. UNCHANGED CharAuctions /\ OnLink("register")' <= OnLink("register") /\ OnLink("register")' \in Nat
    BY <1>1, <1>6, <2>4 DEF CharAuctions
  <2>6. HouseTyped'
    BY <1>2, <2>4, <2>5, HouseStays
  <2>7. IdsLeft'
    <3>1. Cardinality(DOMAIN auctions) \in Nat /\ nextMail' = nextMail + 0 /\ 0 \in Nat /\ auctions' = auctions
      BY <1>2, <1>6, HouseIs, RowsAre DEF CharRows
    <3>2. /\ 0 + OnLink("bid")' + 2 * (OnLink("register")' + Cardinality(DOMAIN auctions'))
               <= OnLink("bid") + 2 * (OnLink("register") + Cardinality(DOMAIN auctions))
          /\ OnLink("send")' <= OnLink("send") /\ OnLink("return")' <= OnLink("return")
          /\ Cardinality(DOMAIN auctions') \in Int
      BY <2>4, <3>1
    <3>3. \A t : OnLink(t) \in Nat /\ OnLink(t)' \in Nat
      BY <2>3
    <3> QED BY <1>2, <3>1, <3>2, <3>3, IdsCount
  <2> QED BY <2>1, <2>3, <2>6, <2>7 DEF HouseStep
<1>7. CASE MayBid(msg) /\ AuctionTakesBid(msg)
  <2>1. msg.id \in DOMAIN auctions /\ a.price < bid /\ a.seller # msg.p
    BY <1>7 DEF MayBid
  <2>2. a \in GoingOn
    BY <1>2, <2>1, HouseIs
  <2>3. /\ a.seller \in Player /\ a.item \in Item /\ a.price \in Nat /\ a.buynow \in 1..MaxPrice
        /\ a.price \in 0..MaxPrice /\ a.buynow \in 0..MaxZeny
    BY <2>2, AuctionsAre
  <2>4. Parcels(Outbid(a)) /\ Len(Outbid(a)) \in 0..1 /\ Parcels(sold) /\ Len(sold) = 2
    BY <1>4, <2>2, AuctionMailsAre
  <2>5. Len(Outbid(a)) \in Nat /\ Len(Outbid(a)) <= 1
    <3>1. \A n \in 0..1 : n \in Nat /\ n <= 1
      OBVIOUS
    <3> QED BY <2>4, <3>1
  <2>6. PICK mails, answers, k :
          /\ k \in Nat /\ SendMails(mails) /\ Parcels(mails) /\ Len(mails) = k
          /\ Answer(answers) /\ PlainAnswers(answers)
          /\ \/ auctions' = Without(auctions, msg.id) /\ k <= 3
             \/ /\ bid < a.buynow /\ k <= 1
                /\ auctions' = [auctions EXCEPT ![msg.id].buyer = msg.p, ![msg.id].price = bid]
    <3>1. CASE bid >= a.buynow
      <4> DEFINE mails == Outbid(a) \o sold
                 answers == NewsOf(Outbid(a)) \o reply(bid - a.buynow) \o NewsOf(sold)
      <4>1. SendMails(mails) /\ Answer(answers) /\ auctions' = Without(auctions, msg.id)
        BY <1>7, <3>1 DEF AuctionTakesBid
      <4> HIDE DEF sold, reply
      <4>2. Parcels(mails) /\ Len(mails) = Len(Outbid(a)) + 2
        BY <2>4, ParcelsAre
      <4>3. bid - a.buynow \in 0..MaxZeny
        BY <1>4, <2>3, <3>1, LimitsAssumption
      <4>4. PlainAnswers(NewsOf(Outbid(a))) /\ PlainAnswers(NewsOf(sold))
        <5>1. \A m : Parcels(m) => PlainAnswers(NewsOf(m))
          <6> SUFFICES ASSUME NEW m, Parcels(m) PROVE PlainAnswers(NewsOf(m))
            OBVIOUS
          <6> QED BY NewsPlain
        <5> QED BY <2>4, <5>1
      <4>5. PlainAnswers(reply(bid - a.buynow))
        BY <1>5, <4>3
      <4>6. PlainAnswers(NewsOf(Outbid(a)) \o reply(bid - a.buynow))
        BY <4>4, <4>5, PlainJoined
      <4>7. PlainAnswers(answers)
        BY <4>4, <4>6, PlainJoined
      <4>8. Len(Outbid(a)) + 2 \in Nat /\ Len(Outbid(a)) + 2 <= 3
        BY <2>5
      <4>9a. PICK m : m = mails
        OBVIOUS
      <4>9b. PICK s : s = answers
        OBVIOUS
      <4>9. PICK k \in Nat : k = Len(m)
        <5> HIDE DEF mails, answers
        <5> QED BY <4>2, <4>8, <4>9a
      <4> HIDE DEF mails, answers
      <4>10. /\ SendMails(m) /\ Parcels(m) /\ Len(m) = k /\ Answer(s) /\ PlainAnswers(s)
             /\ auctions' = Without(auctions, msg.id) /\ k <= 3
        BY <4>1, <4>2, <4>7, <4>8, <4>9, <4>9a, <4>9b
      <4> HIDE DEF a, bid
      <4> QED BY <4>10
    <3>2. CASE ~(bid >= a.buynow)
      <4> DEFINE mails == Outbid(a)
                 answers == NewsOf(Outbid(a)) \o reply(0)
      <4>1. /\ SendMails(mails) /\ Answer(answers)
            /\ auctions' = [auctions EXCEPT ![msg.id].buyer = msg.p, ![msg.id].price = bid]
        BY <1>7, <3>2 DEF AuctionTakesBid
      <4>2. bid < a.buynow /\ 0 \in 0..MaxZeny
        BY <1>4, <2>3, <3>2, LimitsAssumption
      <4> HIDE DEF reply
      <4>3. PlainAnswers(NewsOf(Outbid(a))) /\ PlainAnswers(reply(0))
        BY <1>5, <2>4, <4>2, NewsPlain
      <4>4. PlainAnswers(answers)
        BY <4>3, PlainJoined
      <4>5a. PICK m : m = mails
        OBVIOUS
      <4>5b. PICK s : s = answers
        OBVIOUS
      <4>5. PICK k \in Nat : k = Len(m)
        BY <2>5, <4>5a
      <4> HIDE DEF answers
      <4>6. /\ SendMails(m) /\ Parcels(m) /\ Len(m) = k /\ Answer(s) /\ PlainAnswers(s)
            /\ bid < a.buynow /\ k <= 1
            /\ auctions' = [auctions EXCEPT ![msg.id].buyer = msg.p, ![msg.id].price = bid]
        BY <2>4, <2>5, <4>1, <4>2, <4>4, <4>5, <4>5a, <4>5b
      <4> HIDE DEF mails
      <4> QED BY <4>6
    <3> QED BY <3>1, <3>2
  <2> HIDE DEF sold, reply
  <2>7. RowsTyped' /\ MailsOn /\ nextMail' = nextMail + k /\ k \in Nat
    BY <1>2, <2>6, SendMailsIs
  <2>8. Answered
    BY <2>6, PlainSent
  <2>9. /\ LinksTyped'
        /\ \A t : /\ OnLink(t) \in Nat /\ OnLink(t)' \in Nat
                  /\ OnLink(t) = OnLink(t)' + IF t = "bid" THEN 1 ELSE 0
    BY <1>1, <1>2, <2>7, <2>8, Parsed
  <2>10. /\ OnLink("send")' = OnLink("send") /\ OnLink("return")' = OnLink("return") /\ OnLink("register")' = OnLink("register")
         /\ OnLink("bid") = OnLink("bid")' + 1 /\ OnLink("bid")' \in Nat /\ OnLink("register") \in Nat
         /\ OnLink("send") \in Nat /\ OnLink("return") \in Nat
    BY <2>9
  <2>11. \A t : OnLink(t) \in Nat /\ OnLink(t)' \in Nat /\ OnLink(t)' <= OnLink(t)
    <3> SUFFICES ASSUME NEW t PROVE OnLink(t) \in Nat /\ OnLink(t)' \in Nat /\ OnLink(t)' <= OnLink(t)
      OBVIOUS
    <3>1. OnLink(t) \in Nat /\ OnLink(t)' \in Nat /\ (OnLink(t) = OnLink(t)' + 1 \/ OnLink(t) = OnLink(t)' + 0)
      BY <2>9
    <3> HIDE DEF OnLink
    <3> QED BY <3>1
  <2> HIDE DEF OnLink
  <2>12. HouseTyped' /\ IdsLeft'
    <3>1. CASE auctions' = Without(auctions, msg.id) /\ k <= 3
      <4>1. k <= 2 + OnLink("bid") - OnLink("bid")'
        BY <2>7, <2>10, <3>1
      <4> QED BY <1>1, <1>2, <2>1, <2>7, <2>11, <3>1, <4>1, EndsTyped
    <3>2. CASE /\ bid < a.buynow /\ k <= 1
               /\ auctions' = [auctions EXCEPT ![msg.id].buyer = msg.p, ![msg.id].price = bid]
      <4> DEFINE b == [[a EXCEPT !.buyer = msg.p] EXCEPT !.price = bid]
      <4>1. auctions' = [auctions EXCEPT ![msg.id] = b]
        BY <2>1, <3>2
      <4>2. b \in GoingOn /\ b.seller = a.seller
        <5>1. a \in Auctions
          BY <2>2 DEF GoingOn
        <5>2. bid \in 0..MaxPrice
          BY <1>4, <2>3, <3>2, LimitsAssumption, PricesAssumption
        <5> HIDE DEF a
        <5>3. b \in Auctions
          BY <1>4, <5>1, <5>2 DEF Auctions
        <5>4. b.seller = a.seller /\ b.buyer = msg.p /\ b.price = bid /\ b.buynow = a.buynow
          BY <5>1 DEF Auctions
        <5> HIDE DEF b
        <5> QED BY <2>1, <3>2, <5>3, <5>4 DEF GoingOn
      <4> HIDE DEF b
      <4>3. OnLink("register")' \in Nat /\ OnLink("register")' <= OnLink("register")
        BY <2>10
      <4>4. HouseTyped' /\ DOMAIN auctions' = DOMAIN auctions
        BY <1>1, <1>2, <2>1, <2>10, <4>1, <4>2, <4>3, AuctionBidOn
      <4>5. Cardinality(DOMAIN auctions) \in Nat
        BY <1>2, HouseIs
      <4>6. /\ k + OnLink("bid")' + 2 * (OnLink("register")' + Cardinality(DOMAIN auctions'))
                 <= OnLink("bid") + 2 * (OnLink("register") + Cardinality(DOMAIN auctions))
            /\ OnLink("send")' <= OnLink("send") /\ OnLink("return")' <= OnLink("return")
            /\ Cardinality(DOMAIN auctions') \in Int
        BY <2>7, <2>10, <3>2, <4>4, <4>5
      <4>7. IdsLeft'
        BY <1>2, <2>7, <2>11, <4>6, IdsCount
      <4> QED BY <4>4, <4>7
    <3> QED BY <2>6, <3>1, <3>2
  <2> QED BY <2>7, <2>9, <2>12 DEF HouseStep
<1> QED BY <1>1, <1>6, <1>7

LEMMA CancelCloseParsed ==
    ASSUME PostTyped, MapifParseAuctionCancel \/ MapifParseAuctionClose
    PROVE  HouseStep
<1> DEFINE msg == Head(toChar)
           id == msg.id
<1>1. PICK type \in {"cancel", "close"} :
        /\ FromMap(type) /\ nextAuction' = nextAuction /\ up' = up
        /\ \/ UNCHANGED <<CharRows, auctions>> /\ (toMap' = toMap \/ Answer(<<[type |-> "closed", p |-> msg.p, done |-> FALSE]>>))
           \/ \E mails, more :
                /\ id \in DOMAIN auctions /\ SendMails(mails) /\ auctions' = Without(auctions, id)
                /\ Answer(NewsOf(mails) \o more) \/ (more = << >> /\ Answer(NewsOf(mails)))
                /\ more = << >> \/ more = <<[type |-> "closed", p |-> msg.p, done |-> TRUE]>>
                /\ \/ auctions[id].buyer = NoPlayer /\ mails = EndMails(auctions[id])
                   \/ /\ auctions[id].buyer # NoPlayer
                      /\ mails = <<To(auctions[id].seller, Zeny(auctions[id].price)),
                                   To(auctions[id].buyer, Ware(auctions[id].item))>>
  <2>1. CASE MapifParseAuctionCancel
    <3>1. CASE id \in SoldBy(msg.p) \intersect Led(NoPlayer)
      <4>1. PICK mails : mails = EndMails(auctions[id])
        OBVIOUS
      <4>2. /\ FromMap("cancel") /\ nextAuction' = nextAuction /\ up' = up
            /\ SendMails(mails) /\ Answer(NewsOf(mails)) /\ auctions' = Without(auctions, id)
        BY <2>1, <3>1, <4>1 DEF MapifParseAuctionCancel, CharKeeps, Link
      <4>3. id \in DOMAIN auctions /\ auctions[id].buyer = NoPlayer
        BY <3>1 DEF SoldBy, Led
      <4> HIDE DEF msg, id
      <4> QED BY <4>1, <4>2, <4>3
    <3>2. CASE id \notin SoldBy(msg.p) \intersect Led(NoPlayer)
      <4>1. /\ FromMap("cancel") /\ nextAuction' = nextAuction /\ up' = up
            /\ UNCHANGED <<CharRows, auctions>> /\ toMap' = toMap
        BY <2>1, <3>2 DEF MapifParseAuctionCancel, CharKeeps, Link
      <4> QED BY <4>1
    <3> QED BY <3>1, <3>2
  <2>2. CASE MapifParseAuctionClose
    <3>1. CASE id \in SoldBy(msg.p) \ Led(NoPlayer)
      <4>1. PICK mails : mails = <<To(auctions[id].seller, Zeny(auctions[id].price)),
                                   To(auctions[id].buyer, Ware(auctions[id].item))>>
        OBVIOUS
      <4>2. PICK more : more = <<[type |-> "closed", p |-> msg.p, done |-> TRUE]>>
        OBVIOUS
      <4>3. /\ FromMap("close") /\ nextAuction' = nextAuction /\ up' = up
            /\ SendMails(mails) /\ Answer(NewsOf(mails) \o more) /\ auctions' = Without(auctions, id)
        BY <2>2, <3>1, <4>1, <4>2 DEF MapifParseAuctionClose, CharKeeps, Link
      <4>4. id \in DOMAIN auctions /\ auctions[id].buyer # NoPlayer
        BY <3>1 DEF SoldBy, Led
      <4> HIDE DEF msg, id
      <4> QED BY <4>1, <4>2, <4>3, <4>4
    <3>2. CASE id \notin SoldBy(msg.p) \ Led(NoPlayer)
      <4>1. /\ FromMap("close") /\ nextAuction' = nextAuction /\ up' = up
            /\ UNCHANGED <<CharRows, auctions>>
            /\ Answer(<<[type |-> "closed", p |-> msg.p, done |-> FALSE]>>)
        BY <2>2, <3>2 DEF MapifParseAuctionClose, CharKeeps, Link
      <4> QED BY <4>1
    <3> QED BY <3>1, <3>2
  <2> QED BY <2>1, <2>2
<1>2. MailTyped /\ LinksTyped /\ HouseTyped /\ IdsLeft
  BY DEF PostTyped
<1>3. ToCharTyped(msg) /\ msg.type \in {"cancel", "close"}
  BY <1>1, <1>2, TailTyped DEF FromMap, LinksTyped, AskedRight
<1> HIDE DEF msg, id
<1>4. msg.p \in Player
  BY <1>3 DEF ToCharTyped
<1>5. \A d \in BOOLEAN : PlainAnswers(<<[type |-> "closed", p |-> msg.p, done |-> d]>>)
  <2>1. \A d \in BOOLEAN : PlainTyped([type |-> "closed", p |-> msg.p, done |-> d])
    BY <1>4 DEF PlainTyped, HandsOver
  <2> QED BY <2>1, PlainJoined
<1>6. PICK k \in Nat :
        /\ RowsTyped' /\ MailsOn /\ nextMail' = nextMail + k /\ (toMap' = toMap \/ Answered)
        /\ \/ auctions' = auctions /\ k = 0
           \/ id \in DOMAIN auctions /\ auctions' = Without(auctions, id) /\ k <= 2
  <2>1. CASE UNCHANGED <<CharRows, auctions>> /\ (toMap' = toMap \/ Answer(<<[type |-> "closed", p |-> msg.p, done |-> FALSE]>>))
    <3>1. RowsTyped' /\ MailsOn /\ nextMail' = nextMail + 0
      BY <1>2, <2>1, NoMoreMails, MailStays, RowsAre DEF CharRows
    <3>2. toMap' = toMap \/ Answered
      BY <1>5, <2>1, PlainSent
    <3> QED BY <2>1, <3>1, <3>2
  <2>2. ASSUME NEW mails, NEW more,
               id \in DOMAIN auctions, SendMails(mails), auctions' = Without(auctions, id),
               Answer(NewsOf(mails) \o more) \/ (more = << >> /\ Answer(NewsOf(mails))),
               more = << >> \/ more = <<[type |-> "closed", p |-> msg.p, done |-> TRUE]>>,
               \/ auctions[id].buyer = NoPlayer /\ mails = EndMails(auctions[id])
               \/ /\ auctions[id].buyer # NoPlayer
                  /\ mails = <<To(auctions[id].seller, Zeny(auctions[id].price)),
                               To(auctions[id].buyer, Ware(auctions[id].item))>>
        PROVE  \E k \in Nat :
                  /\ RowsTyped' /\ MailsOn /\ nextMail' = nextMail + k /\ (toMap' = toMap \/ Answered)
                  /\ auctions' = Without(auctions, id) /\ k <= 2
    <3>1. auctions[id] \in GoingOn
      BY <1>2, <2>2, HouseIs
    <3>2. Parcels(mails) /\ Len(mails) \in 1..2
      <4>1. PICK a \in GoingOn : a = auctions[id]
        BY <3>1
      <4>2. PICK b \in Player : b = msg.p
        BY <1>4
      <4>3. CASE a.buyer = NoPlayer /\ mails = EndMails(a)
        BY <4>2, <4>3, AuctionMailsAre
      <4>4. ASSUME NEW ends,
                   a.buyer # NoPlayer,
                   ends = <<To(a.seller, Zeny(a.price)), To(a.buyer, Ware(a.item))>>
            PROVE  Parcels(ends) /\ Len(ends) \in 1..2
        <5>1. Parcels(ends) /\ Len(ends) = 2
          BY <4>2, <4>4, AuctionMailsAre
        <5> QED BY <5>1
      <4> QED BY <2>2, <4>1, <4>3, <4>4
    <3>3. RowsTyped' /\ MailsOn /\ nextMail' = nextMail + Len(mails) /\ PlainAnswers(NewsOf(mails))
      BY <1>2, <2>2, <3>2, SendMailsIs
    <3>4. PlainAnswers(more)
      BY <1>5, <2>2, PlainJoined
    <3>5. Answered
      BY <2>2, <3>3, <3>4, PlainJoined, PlainSent
    <3>6. Len(mails) \in Nat /\ Len(mails) <= 2
      <4>1. \A n \in 1..2 : n \in Nat /\ n <= 2
        OBVIOUS
      <4> QED BY <3>2, <4>1
    <3> QED BY <2>2, <3>3, <3>5, <3>6
  <2> QED BY <1>1, <2>1, <2>2
<1>7. /\ LinksTyped'
      /\ \A t : /\ OnLink(t) \in Nat /\ OnLink(t)' \in Nat
                /\ OnLink(t) = OnLink(t)' + IF t = type THEN 1 ELSE 0
  BY <1>1, <1>2, <1>6, Parsed
<1>8. \A t : OnLink(t) \in Nat /\ OnLink(t)' \in Nat /\ OnLink(t)' <= OnLink(t)
  <2> SUFFICES ASSUME NEW t PROVE OnLink(t) \in Nat /\ OnLink(t)' \in Nat /\ OnLink(t)' <= OnLink(t)
    OBVIOUS
  <2>1. OnLink(t) \in Nat /\ OnLink(t)' \in Nat /\ (OnLink(t) = OnLink(t)' + 1 \/ OnLink(t) = OnLink(t)' + 0)
    BY <1>7
  <2> HIDE DEF OnLink
  <2> QED BY <2>1
<1>9. /\ OnLink("bid")' = OnLink("bid") /\ OnLink("register")' = OnLink("register")
      /\ OnLink("bid") \in Nat /\ OnLink("register") \in Nat
      /\ OnLink("send")' <= OnLink("send") /\ OnLink("return")' <= OnLink("return")
  <2>1. /\ OnLink("bid") = OnLink("bid")' + 0 /\ OnLink("register") = OnLink("register")' + 0
        /\ OnLink("bid")' \in Nat /\ OnLink("register")' \in Nat /\ OnLink("bid") \in Nat /\ OnLink("register") \in Nat
    BY <1>1, <1>7
  <2> HIDE DEF OnLink
  <2> QED BY <2>1, <1>8
<1> HIDE DEF OnLink
<1>10. HouseTyped' /\ IdsLeft'
  <2>1. CASE auctions' = auctions /\ k = 0
    <3>1. UNCHANGED CharAuctions /\ OnLink("register")' \in Nat /\ OnLink("register")' <= OnLink("register")
      BY <1>1, <1>8, <2>1 DEF CharAuctions
    <3>2. HouseTyped'
      BY <1>2, <1>9, <3>1, HouseStays
    <3>3. Cardinality(DOMAIN auctions) \in Nat
      BY <1>2, HouseIs
    <3>4. /\ k + OnLink("bid")' + 2 * (OnLink("register")' + Cardinality(DOMAIN auctions'))
               <= OnLink("bid") + 2 * (OnLink("register") + Cardinality(DOMAIN auctions))
          /\ Cardinality(DOMAIN auctions') \in Int
      BY <1>9, <2>1, <3>3
    <3>5. IdsLeft'
      BY <1>2, <1>6, <1>8, <1>9, <3>4, IdsCount
    <3> QED BY <3>2, <3>5
  <2>2. CASE id \in DOMAIN auctions /\ auctions' = Without(auctions, id) /\ k <= 2
    <3>1. k <= 2 + OnLink("bid") - OnLink("bid")'
      BY <1>9, <2>2
    <3> QED BY <1>1, <1>2, <1>6, <1>8, <2>2, <3>1, EndsTyped
  <2> QED BY <1>6, <2>1, <2>2
<1> QED BY <1>6, <1>7, <1>10 DEF HouseStep

LEMMA EndTimerTyped ==
    ASSUME PostTyped, NEW id, AuctionEndTimer(id)
    PROVE  HouseStep
<1> DEFINE mails == EndMails(auctions[id])
<1>1. /\ id \in DOMAIN auctions /\ SendMails(mails) /\ auctions' = Without(auctions, id)
      /\ nextAuction' = nextAuction /\ up' = up /\ toChar' = toChar
      /\ (up /\ Answer(NewsOf(mails))) \/ toMap' = toMap
  BY DEF AuctionEndTimer, CharKeeps, Link
<1>2. MailTyped /\ LinksTyped /\ HouseTyped /\ IdsLeft
  BY DEF PostTyped
<1>3. auctions[id] \in GoingOn
  BY <1>1, <1>2, HouseIs
<1>4. Parcels(mails) /\ Len(mails) \in 1..2
  <2>1. auctions[id].seller \in Player
    BY <1>3, AuctionsAre
  <2> QED BY <1>3, <2>1, AuctionMailsAre
<1> HIDE DEF mails
<1>5. RowsTyped' /\ MailsOn /\ nextMail' = nextMail + Len(mails) /\ PlainAnswers(NewsOf(mails))
  BY <1>1, <1>2, <1>4, SendMailsIs
<1>6. AskedRight' /\ \A t : OnLink(t)' = OnLink(t)
  BY <1>1, <1>2, LinkStays DEF LinksTyped
<1>7. AnsweredRight'
  <2>1. CASE toMap' = toMap
    BY <1>2, <1>5, <2>1, AnswersStay DEF LinksTyped
  <2>2. CASE Answer(NewsOf(mails))
    <3>1. Answered
      BY <1>5, <2>2, PlainSent
    <3> QED BY <1>2, <1>5, <3>1, AnswersAre DEF Answered, LinksTyped
  <2> QED BY <1>1, <2>1, <2>2
<1>8. LinksTyped'
  BY <1>1, <1>2, <1>6, <1>7 DEF LinksTyped
<1>9. \A t : OnLink(t) \in Nat
  BY <1>2, OnLinkIs DEF LinksTyped
<1> HIDE DEF OnLink
<1>10. \A t : OnLink(t) \in Nat /\ OnLink(t)' \in Nat /\ OnLink(t)' <= OnLink(t)
  BY <1>6, <1>9
<1>11. PICK k \in Nat : k = Len(mails) /\ k <= 2
  <2>1. \A n \in 1..2 : n \in Nat /\ n <= 2
    OBVIOUS
  <2> QED BY <1>4, <2>1
<1>12. k <= 2 + OnLink("bid") - OnLink("bid")'
  <2>1. OnLink("bid")' = OnLink("bid") /\ OnLink("bid") \in Nat
    BY <1>6, <1>9
  <2> QED BY <1>11, <2>1
<1>13. HouseTyped' /\ IdsLeft'
  BY <1>1, <1>2, <1>5, <1>10, <1>11, <1>12, EndsTyped
<1> QED BY <1>5, <1>8, <1>13 DEF HouseStep

\* What the map-server makes of the char-server's answers about auctions.
LEMMA AuctionAnswersTyped ==
    ASSUME PostTyped, IntifParseAuctionRegister \/ IntifParseAuctionBid \/ IntifParseAuctionClose
    PROVE  PostTyped'
<1> DEFINE p == Head(toMap).p
<1>1. /\ UNCHANGED <<Others, letter, inbox, CharRows, away, Link, toChar, CharAuctions>>
      /\ \E type \in {"registered", "bidding", "closed"} :
            /\ FromChar(type)
            /\ UNCHANGED sd \/ (type # "closed" /\ Given(p, Head(toMap).with))
      /\ offer' = offer \/ offer' = [offer EXCEPT ![p] = {}]
  BY DEF IntifParseAuctionRegister, IntifParseAuctionBid, IntifParseAuctionClose, ShownList
<1>2. WellTyped /\ MailTyped /\ LinksTyped /\ HouseTyped /\ IdsLeft /\ OfferTyped
  BY DEF PostTyped
<1>3. PICK type \in {"registered", "bidding", "closed"} :
        FromChar(type) /\ (UNCHANGED sd \/ (type # "closed" /\ Given(p, Head(toMap).with)))
  BY <1>1
<1>4. /\ LinksTyped' /\ ToMapTyped(Head(toMap)) /\ Head(toMap).type = type
      /\ OnLink("register")' <= OnLink("register") /\ MailsOn
  BY <1>1, <1>2, <1>3, Received
<1>5. p \in Player /\ (type # "closed" => Head(toMap).with \in Enclosure)
  BY <1>4 DEF ToMapTyped, HandsOver
<1>6. WellTyped'
  BY <1>1, <1>2, <1>3, <1>5, SessionsStay, GivenTyped
<1>7. MailTyped'
  BY <1>1, <1>2, <1>4, MailStays DEF MailTyped
<1>8. OfferTyped'
  BY <1>1, <1>2, <1>5, OfferBecomes
<1>9. \A t : OnLink(t)' = OnLink(t)
  BY <1>1, <1>2, LinkStays DEF LinksTyped
<1>10. OnLink("register") \in Nat
  BY <1>2, OnLinkIs DEF LinksTyped
<1> HIDE DEF OnLink
<1>11. HouseTyped'
  <2>1. OnLink("register")' \in Nat /\ OnLink("register")' <= OnLink("register")
    BY <1>9, <1>10
  <2> QED BY <1>1, <1>2, <1>10, <2>1, HouseStays
<1>12. IdsLeft'
  BY <1>1, <1>2, <1>9 DEF IdsLeft, CharRows, CharAuctions
<1> QED BY <1>4, <1>6, <1>7, <1>8, <1>11, <1>12 DEF PostTyped

-----------------------------------------------------------------------------
LEMMA PostInitTyped ==
    ASSUME AuctionInit
    PROVE  PostTyped
<1>1. PICK s \in Setups :
        /\ MailInitWith(s) /\ auctions = s.post.auctions
        /\ nextAuction = Cardinality(DOMAIN s.post.auctions) + 1
        /\ offer = [p \in Player |-> {}]
  BY DEF AuctionInit
<1>2. /\ InitWith(s) /\ rows = s.post.rows /\ nextMail = s.post.nextMail
      /\ letter = [p \in Player |-> NoLetter] /\ inbox = [p \in Player |-> InboxOf(p)]
      /\ away = {} /\ up = TRUE /\ losses = 0 /\ toChar = << >> /\ toMap = << >>
  BY <1>1 DEF MailInitWith
<1>3. WellTyped
  BY <1>2, InitTyped DEF Init
<1>4. RowsTyped
  BY <1>2, LettersAssumption DEF RowsTyped
<1>5. InboxTyped
  <2>1. \A p \in Player : InboxOf(p) \in Box /\ KnownIn(InboxOf(p))
    BY <1>4, InboxOfIs
  <2> HIDE DEF InboxOf
  <2> QED BY <1>2, <2>1 DEF InboxTyped
<1>6. LetterTyped
  <2>1. Min(Slot) \in Slot
    BY SlotAssumption, MinIs
  <2>2. NoLetter \in LetterData
    BY <2>1, LimitsAssumption DEF LetterData, NoLetter
  <2> HIDE DEF NoLetter
  <2> QED BY <1>2, <2>2 DEF LetterTyped
<1>7. AwayTyped
  <2>1. MaxLosses \in Nat
    BY LettersAssumption
  <2> QED BY <1>2, <2>1 DEF AwayTyped
<1>8. LinksTyped
  <2>1. IsSeq(<< >>)
    BY Short
  <2>2. \A j \in DOMAIN << >> : FALSE
    OBVIOUS
  <2>3. AskedRight
    BY <1>2, <2>1, <2>2 DEF AskedRight, Requests
  <2>4. AnsweredRight
    BY <1>2, <2>1, <2>2 DEF AnsweredRight, Answers
  <2> QED BY <1>2, <2>3, <2>4 DEF LinksTyped
<1>9. OfferTyped
  BY <1>1 DEF OfferTyped
<1>10. PICK n \in 0..MaxAuctions :
         /\ DOMAIN auctions = 1..n /\ nextMail - 1 + 2 * n <= MaxMails
         /\ \A i \in 1..n : auctions[i] \in GoingOn
         /\ \A p \in Player : Cardinality({i \in 1..n : auctions[i].seller = p}) <= MaxOwn
  BY <1>1, <1>2, AuctionsAssumption
<1>11. n \in Nat /\ n <= MaxAuctions /\ MaxAuctions \in Nat /\ Cardinality(DOMAIN auctions) = n /\ nextAuction = n + 1
  <2>1. n \in Nat /\ n <= MaxAuctions /\ MaxAuctions \in Nat
    BY <1>10, PricesAssumption
  <2>2. Cardinality(1..n) = n
    BY <2>1, FS_Interval
  <2> QED BY <1>1, <1>10, <2>1, <2>2
<1>12. \A t : OnLink(t) = 0
  <2>1. \A t : Count(<< >>, t) = 0
    BY CountNone
  <2>2. \A t : OnLink(t) = Count(toChar, t)
    BY DEF OnLink, Count
  <2> QED BY <1>2, <2>1, <2>2
<1> HIDE DEF OnLink
<1>13. HouseTyped
  <2>1. \A p \in Player : SoldBy(p) = {i \in 1..n : auctions[i].seller = p}
    BY <1>10 DEF SoldBy
  <2>2. nextAuction + OnLink("register") <= MaxAuctions + 1 /\ nextAuction \in Nat \ {0}
    BY <1>11, <1>12
  <2>3. \A id \in DOMAIN auctions : id \in 1..(nextAuction - 1) /\ auctions[id] \in GoingOn
    BY <1>10, <1>11
  <2> QED BY <1>10, <2>1, <2>2, <2>3 DEF HouseTyped
<1>14. IdsLeft
  <2>1. nextMail \in Nat
    BY <1>4 DEF RowsTyped
  <2> QED BY <1>10, <1>11, <1>12, <2>1 DEF IdsLeft
<1> QED BY <1>3, <1>4, <1>5, <1>6, <1>7, <1>8, <1>9, <1>13, <1>14 DEF PostTyped, MailTyped

LEMMA PostStepTyped ==
    ASSUME PostTyped, [PostNext]_<<vars, mailVars, auctionVars>>
    PROVE  PostTyped'
<1>1. CASE (Elsewhere \/ AuctionNext) /\ IdsLeft'
  BY <1>1, ElsewhereTyped, AuctionNextTyped DEF PostTyped
<1>2. CASE \/ MapifParseAuctionRegister \/ MapifParseAuctionBid
           \/ MapifParseAuctionCancel \/ MapifParseAuctionClose
           \/ \E id \in 1..MaxAuctions : AuctionEndTimer(id)
  <2>1. HouseStep
    BY <1>2, RegisterParsed, BidParsed, CancelCloseParsed, EndTimerTyped
  <2>2. CharKeeps
    BY <1>2 DEF MapifParseAuctionRegister, MapifParseAuctionBid, MapifParseAuctionCancel, MapifParseAuctionClose,
                AuctionEndTimer
  <2>3. WellTyped'
    BY <2>2, SessionsStay DEF CharKeeps, PostTyped
  <2>4. LetterTyped' /\ InboxTyped' /\ AwayTyped'
    BY <2>1, <2>2, MailStays DEF HouseStep, CharKeeps, PostTyped
  <2>5. OfferTyped'
    BY <2>2 DEF CharKeeps, PostTyped, OfferTyped
  <2> QED BY <2>1, <2>3, <2>4, <2>5 DEF PostTyped, MailTyped, HouseStep
<1>3. CASE IntifParseAuctionRegister \/ IntifParseAuctionBid \/ IntifParseAuctionClose
  BY <1>3, AuctionAnswersTyped
<1>4. CASE UNCHANGED <<vars, mailVars, auctionVars>>
  <2>1. /\ UNCHANGED <<sd, Others, letter, inbox, CharRows, away, Link, toChar, toMap>>
        /\ UNCHANGED <<offer, CharAuctions>>
    BY <1>4 DEF vars, mailVars, auctionVars, Others, Rest, CharRows, Link, CharAuctions
  <2>2. WellTyped /\ MailTyped /\ LinksTyped /\ OfferTyped /\ HouseTyped /\ IdsLeft
    BY DEF PostTyped
  <2>3. WellTyped' /\ MailsOn
    BY <2>1, <2>2, SessionsStay, NoMoreMails
  <2>4. MailTyped'
    BY <2>1, <2>2, <2>3, MailStays DEF MailTyped
  <2>5. LinksTyped' /\ \A t : OnLink(t)' = OnLink(t)
    BY <2>1, <2>2, Sent, LinkStays DEF LinksTyped
  <2>6. OnLink("register") \in Nat
    BY <2>2, OnLinkIs DEF LinksTyped
  <2> HIDE DEF OnLink
  <2>7. OnLink("register")' \in Nat /\ OnLink("register")' <= OnLink("register")
    BY <2>5, <2>6
  <2>8. HouseTyped'
    BY <2>1, <2>2, <2>6, <2>7, HouseStays
  <2>9. OfferTyped'
    BY <2>1, <2>2 DEF OfferTyped
  <2>10. IdsLeft'
    BY <2>1, <2>2, <2>5 DEF IdsLeft, CharRows, CharAuctions
  <2> QED BY <2>3, <2>4, <2>5, <2>8, <2>9, <2>10 DEF PostTyped
<1> QED BY <1>1, <1>2, <1>3, <1>4 DEF PostNext, AuctionParses

LEMMA PostTypedIsOK ==
    ASSUME PostTyped
    PROVE  TypeOK /\ PostTypeOK
<1>1. WellTyped /\ MailTyped /\ LinksTyped /\ OfferTyped /\ HouseTyped /\ IdsLeft
  BY DEF PostTyped
<1>2. TypeOK
  BY <1>1, TypedIsOK
<1>3. \A p \in Player :
        /\ letter[p].slot \in Slot /\ letter[p].amount \in 0..MaxAmount
        /\ letter[p].zeny \in 0..MaxZeny
        /\ letter[p].name \in {Name[i] : i \in Item} \union {NoItem}
  <2> SUFFICES ASSUME NEW p \in Player
               PROVE  /\ letter[p].slot \in Slot /\ letter[p].amount \in 0..MaxAmount
                      /\ letter[p].zeny \in 0..MaxZeny
                      /\ letter[p].name \in {Name[i] : i \in Item} \union {NoItem}
    OBVIOUS
  <2>1. letter[p] \in LetterData
    BY <1>1, LetterIs
  <2> QED BY <2>1 DEF LetterData
<1>4. ASSUME NEW p \in Player
      PROVE  /\ \A id \in DOMAIN inbox[p].mails :
                  /\ id \in 1..(nextMail - 1)
                  /\ inbox[p].mails[id] \in Letters /\ inbox[p].mails[id].status # "new"
             /\ inbox[p].full \in BOOLEAN /\ inbox[p].changed \in BOOLEAN
  <2>1. inbox[p] \in Box /\ KnownIn(inbox[p])
    BY <1>1 DEF MailTyped, InboxTyped
  <2>2. /\ DOMAIN inbox[p].mails \in SUBSET (Nat \ {0}) /\ inbox[p].mails \in [DOMAIN inbox[p].mails -> SeenLetters]
        /\ inbox[p].full \in BOOLEAN /\ inbox[p].changed \in BOOLEAN
    BY <2>1, BoxIs
  <2>3. \A id \in DOMAIN inbox[p].mails : id < nextMail /\ id \in Nat \ {0} /\ inbox[p].mails[id] \in SeenLetters
    BY <2>1, <2>2 DEF KnownIn
  <2>4. nextMail \in Nat
    BY <1>1, RowsAre
  <2> QED BY <2>2, <2>3, <2>4 DEF SeenLetters
<1>5. \A id \in DOMAIN rows : id \in 1..(nextMail - 1) /\ rows[id] \in Letters
  BY <1>1 DEF MailTyped, RowsTyped
<1>6. nextMail \in 1..(MaxMails + 1)
  <2>1. /\ nextMail \in Nat \ {0} /\ MaxMails \in Nat /\ Cardinality(DOMAIN auctions) \in Nat
        /\ OnLink("send") \in Nat /\ OnLink("return") \in Nat /\ OnLink("bid") \in Nat /\ OnLink("register") \in Nat
    BY <1>1, RowsAre, HouseIs, OnLinkIs, LettersAssumption DEF LinksTyped
  <2>2. nextMail - 1 + OnLink("send") + OnLink("return") + OnLink("bid")
          + 2 * (OnLink("register") + Cardinality(DOMAIN auctions)) <= MaxMails
    BY <1>1 DEF IdsLeft
  <2> HIDE DEF OnLink
  <2> QED BY <2>1, <2>2
<1>7. away \subseteq Player /\ up \in BOOLEAN /\ losses \in 0..MaxLosses /\ (~up => toChar = << >> /\ toMap = << >>)
  BY <1>1 DEF MailTyped, AwayTyped, LinksTyped
<1>8. MailTypeOK
  BY <1>3, <1>4, <1>5, <1>6, <1>7 DEF MailTypeOK
<1>9. ASSUME NEW p \in Player PROVE offer[p] \subseteq Slot /\ Cardinality(offer[p]) <= 1
  <2>1. offer[p] = {} \/ \E s \in Slot : offer[p] = {s}
    BY <1>1 DEF OfferTyped
  <2>2. Cardinality({}) = 0 /\ \A s \in Slot : Cardinality({s}) = 1
    BY FS_EmptySet, FS_Singleton
  <2> QED BY <2>1, <2>2
<1>10. nextAuction \in 1..(MaxAuctions + 1)
  <2>1. /\ nextAuction \in Nat \ {0} /\ OnLink("register") \in Nat /\ MaxAuctions \in Nat
        /\ nextAuction + OnLink("register") <= MaxAuctions + 1
    BY <1>1, OnLinkIs, PricesAssumption DEF LinksTyped, HouseTyped
  <2> HIDE DEF OnLink
  <2> QED BY <2>1
<1>11. /\ \A id \in DOMAIN auctions : id \in 1..(nextAuction - 1) /\ auctions[id] \in GoingOn
       /\ \A p \in Player : Cardinality(SoldBy(p)) <= MaxOwn
  BY <1>1 DEF HouseTyped
<1> QED BY <1>2, <1>8, <1>9, <1>10, <1>11 DEF PostTypeOK

\* Beside the mail and the auctions the exchanges keep their types, and so do
\* letters, inboxes, auctions and the messages between the two servers, for any
\* players and limits: no letter is known that was not stored, no auction that goes
\* on was bought or is led by its seller, and nobody sells more than it may.
THEOREM PostTypesOK == PostSpec => [](TypeOK /\ PostTypeOK)
<1>1. AuctionInit => PostTyped
  BY PostInitTyped
<1>2. PostTyped /\ [PostNext]_<<vars, mailVars, auctionVars>> => PostTyped'
  BY PostStepTyped
<1>3. PostTyped => TypeOK /\ PostTypeOK
  BY PostTypedIsOK
<1> QED BY <1>1, <1>2, <1>3, PTL DEF PostSpec


-----------------------------------------------------------------------------
(* The sums of what is enclosed somewhere, as sums of a function.           *)

LettersZeny(rws, S) == MapThenSumSet(LAMBDA i : rws[i].with.zeny, S)

LEMMA LettersZenySum ==
    ASSUME NEW rws, NEW S, IsFiniteSet(S), \A i \in S : rws[i].with.zeny \in Int
    PROVE  LettersZeny(rws, S) = SumOver([i \in S |-> rws[i].with.zeny], S)
<1> DEFINE F == [i \in S |-> rws[i].with.zeny]
           Runs(run) == run = [s \in SUBSET S |-> IF s = {} THEN 0 ELSE rws[One(s)].with.zeny + run[s \ {One(s)}]]
           run == CHOOSE run : Runs(run)
<1>1. \A i \in S : F[i] \in Int
  OBVIOUS
<1>2. \A r : IsSumRun(r, F, S) <=> Runs(r)
  <2>1. \A s \in SUBSET S : s # {} => One(s) \in S
    BY DEF One
  <2>2. \A s \in SUBSET S : s # {} => F[One(s)] = rws[One(s)].with.zeny
    BY <2>1
  <2> HIDE DEF F
  <2>3. \A r : [s \in SUBSET S |-> IF s = {} THEN 0 ELSE F[One(s)] + r[s \ {One(s)}]]
               = [s \in SUBSET S |-> IF s = {} THEN 0 ELSE rws[One(s)].with.zeny + r[s \ {One(s)}]]
    BY <2>2
  <2> QED BY <2>3 DEF IsSumRun
<1>3. Runs(run)
  <2>1. \E r : IsSumRun(r, F, S)
    <3> HIDE DEF F, Runs, run
    <3> QED BY <1>1, SumRunExists
  <2> HIDE DEF F, Runs
  <2> QED BY <1>2, <2>1
<1>4. LettersZeny(rws, S) = run[S]
  BY Zenon DEF LettersZeny, MapThenSumSet, MapThenFoldSet, One
<1> QED
  <2> HIDE DEF Runs, run, F
  <2>1. run[S] = SumOver(F, S)
    BY <1>1, <1>2, <1>3, SumOfPart
  <2> QED BY <1>4, <2>1 DEF F

HandedZeny(q, S) == MapThenSumSet(LAMBDA i : Handed(q[i]).zeny, S)

LEMMA HandedZenySum ==
    ASSUME NEW q, NEW S, IsFiniteSet(S), \A i \in S : Handed(q[i]).zeny \in Int
    PROVE  HandedZeny(q, S) = SumOver([i \in S |-> Handed(q[i]).zeny], S)
<1> DEFINE F == [i \in S |-> Handed(q[i]).zeny]
           Runs(run) == run = [s \in SUBSET S |-> IF s = {} THEN 0 ELSE Handed(q[One(s)]).zeny + run[s \ {One(s)}]]
           run == CHOOSE run : Runs(run)
<1>1. \A i \in S : F[i] \in Int
  OBVIOUS
<1>2. \A r : IsSumRun(r, F, S) <=> Runs(r)
  <2>1. \A s \in SUBSET S : s # {} => One(s) \in S
    BY DEF One
  <2>2. \A s \in SUBSET S : s # {} => F[One(s)] = Handed(q[One(s)]).zeny
    BY <2>1
  <2> HIDE DEF F
  <2>3. \A r : [s \in SUBSET S |-> IF s = {} THEN 0 ELSE F[One(s)] + r[s \ {One(s)}]]
               = [s \in SUBSET S |-> IF s = {} THEN 0 ELSE Handed(q[One(s)]).zeny + r[s \ {One(s)}]]
    BY <2>2
  <2> QED BY <2>3 DEF IsSumRun
<1>3. Runs(run)
  <2>1. \E r : IsSumRun(r, F, S)
    <3> HIDE DEF F, Runs, run
    <3> QED BY <1>1, SumRunExists
  <2> HIDE DEF F, Runs
  <2> QED BY <1>2, <2>1
<1>4. HandedZeny(q, S) = run[S]
  BY Zenon DEF HandedZeny, MapThenSumSet, MapThenFoldSet, One
<1> QED
  <2> HIDE DEF Runs, run, F
  <2>1. run[S] = SumOver(F, S)
    BY <1>1, <1>2, <1>3, SumOfPart
  <2> QED BY <1>4, <2>1 DEF F

OwnZeny(p, q, S) == MapThenSumSet(LAMBDA i : IsFor(p, q[i]).zeny, S)

LEMMA OwnZenySum ==
    ASSUME NEW p, NEW q, NEW S, IsFiniteSet(S), \A i \in S : IsFor(p, q[i]).zeny \in Int
    PROVE  OwnZeny(p, q, S) = SumOver([i \in S |-> IsFor(p, q[i]).zeny], S)
<1> DEFINE F == [i \in S |-> IsFor(p, q[i]).zeny]
           Runs(run) == run = [s \in SUBSET S |-> IF s = {} THEN 0 ELSE IsFor(p, q[One(s)]).zeny + run[s \ {One(s)}]]
           run == CHOOSE run : Runs(run)
<1>1. \A i \in S : F[i] \in Int
  OBVIOUS
<1>2. \A r : IsSumRun(r, F, S) <=> Runs(r)
  <2>1. \A s \in SUBSET S : s # {} => One(s) \in S
    BY DEF One
  <2>2. \A s \in SUBSET S : s # {} => F[One(s)] = IsFor(p, q[One(s)]).zeny
    BY <2>1
  <2> HIDE DEF F
  <2>3. \A r : [s \in SUBSET S |-> IF s = {} THEN 0 ELSE F[One(s)] + r[s \ {One(s)}]]
               = [s \in SUBSET S |-> IF s = {} THEN 0 ELSE IsFor(p, q[One(s)]).zeny + r[s \ {One(s)}]]
    BY <2>2
  <2> QED BY <2>3 DEF IsSumRun
<1>3. Runs(run)
  <2>1. \E r : IsSumRun(r, F, S)
    <3> HIDE DEF F, Runs, run
    <3> QED BY <1>1, SumRunExists
  <2> HIDE DEF F, Runs
  <2> QED BY <1>2, <2>1
<1>4. OwnZeny(p, q, S) = run[S]
  BY Zenon DEF OwnZeny, MapThenSumSet, MapThenFoldSet, One
<1> QED
  <2> HIDE DEF Runs, run, F
  <2>1. run[S] = SumOver(F, S)
    BY <1>1, <1>2, <1>3, SumOfPart
  <2> QED BY <1>4, <2>1 DEF F

Bids(aus, S) == MapThenSumSet(LAMBDA i : aus[i].price, S)

LEMMA BidsSum ==
    ASSUME NEW aus, NEW S, IsFiniteSet(S), \A i \in S : aus[i].price \in Int
    PROVE  Bids(aus, S) = SumOver([i \in S |-> aus[i].price], S)
<1> DEFINE F == [i \in S |-> aus[i].price]
           Runs(run) == run = [s \in SUBSET S |-> IF s = {} THEN 0 ELSE aus[One(s)].price + run[s \ {One(s)}]]
           run == CHOOSE run : Runs(run)
<1>1. \A i \in S : F[i] \in Int
  OBVIOUS
<1>2. \A r : IsSumRun(r, F, S) <=> Runs(r)
  <2>1. \A s \in SUBSET S : s # {} => One(s) \in S
    BY DEF One
  <2>2. \A s \in SUBSET S : s # {} => F[One(s)] = aus[One(s)].price
    BY <2>1
  <2> HIDE DEF F
  <2>3. \A r : [s \in SUBSET S |-> IF s = {} THEN 0 ELSE F[One(s)] + r[s \ {One(s)}]]
               = [s \in SUBSET S |-> IF s = {} THEN 0 ELSE aus[One(s)].price + r[s \ {One(s)}]]
    BY <2>2
  <2> QED BY <2>3 DEF IsSumRun
<1>3. Runs(run)
  <2>1. \E r : IsSumRun(r, F, S)
    <3> HIDE DEF F, Runs, run
    <3> QED BY <1>1, SumRunExists
  <2> HIDE DEF F, Runs
  <2> QED BY <1>2, <2>1
<1>4. Bids(aus, S) = run[S]
  BY Zenon DEF Bids, MapThenSumSet, MapThenFoldSet, One
<1> QED
  <2> HIDE DEF Runs, run, F
  <2>1. run[S] = SumOver(F, S)
    BY <1>1, <1>2, <1>3, SumOfPart
  <2> QED BY <1>4, <2>1 DEF F

LettersUnits(item, rws, S) == MapThenSumSet(LAMBDA i : (IF rws[i].with.item = item THEN rws[i].with.amount ELSE 0), S)

LEMMA LettersUnitsSum ==
    ASSUME NEW item, NEW rws, NEW S, IsFiniteSet(S), \A i \in S : (IF rws[i].with.item = item THEN rws[i].with.amount ELSE 0) \in Int
    PROVE  LettersUnits(item, rws, S) = SumOver([i \in S |-> (IF rws[i].with.item = item THEN rws[i].with.amount ELSE 0)], S)
<1> DEFINE F == [i \in S |-> (IF rws[i].with.item = item THEN rws[i].with.amount ELSE 0)]
           Runs(run) == run = [s \in SUBSET S |-> IF s = {} THEN 0 ELSE (IF rws[One(s)].with.item = item THEN rws[One(s)].with.amount ELSE 0) + run[s \ {One(s)}]]
           run == CHOOSE run : Runs(run)
<1>1. \A i \in S : F[i] \in Int
  OBVIOUS
<1>2. \A r : IsSumRun(r, F, S) <=> Runs(r)
  <2>1. \A s \in SUBSET S : s # {} => One(s) \in S
    BY DEF One
  <2>2. \A s \in SUBSET S : s # {} => F[One(s)] = (IF rws[One(s)].with.item = item THEN rws[One(s)].with.amount ELSE 0)
    BY <2>1
  <2> HIDE DEF F
  <2>3. \A r : [s \in SUBSET S |-> IF s = {} THEN 0 ELSE F[One(s)] + r[s \ {One(s)}]]
               = [s \in SUBSET S |-> IF s = {} THEN 0 ELSE (IF rws[One(s)].with.item = item THEN rws[One(s)].with.amount ELSE 0) + r[s \ {One(s)}]]
    BY <2>2
  <2> QED BY <2>3 DEF IsSumRun
<1>3. Runs(run)
  <2>1. \E r : IsSumRun(r, F, S)
    <3> HIDE DEF F, Runs, run
    <3> QED BY <1>1, SumRunExists
  <2> HIDE DEF F, Runs
  <2> QED BY <1>2, <2>1
<1>4. LettersUnits(item, rws, S) = run[S]
  BY Zenon DEF LettersUnits, MapThenSumSet, MapThenFoldSet, One
<1> QED
  <2> HIDE DEF Runs, run, F
  <2>1. run[S] = SumOver(F, S)
    BY <1>1, <1>2, <1>3, SumOfPart
  <2> QED BY <1>4, <2>1 DEF F

HandedUnits(item, q, S) == MapThenSumSet(LAMBDA i : (IF Handed(q[i]).item = item THEN Handed(q[i]).amount ELSE 0), S)

LEMMA HandedUnitsSum ==
    ASSUME NEW item, NEW q, NEW S, IsFiniteSet(S), \A i \in S : (IF Handed(q[i]).item = item THEN Handed(q[i]).amount ELSE 0) \in Int
    PROVE  HandedUnits(item, q, S) = SumOver([i \in S |-> (IF Handed(q[i]).item = item THEN Handed(q[i]).amount ELSE 0)], S)
<1> DEFINE F == [i \in S |-> (IF Handed(q[i]).item = item THEN Handed(q[i]).amount ELSE 0)]
           Runs(run) == run = [s \in SUBSET S |-> IF s = {} THEN 0 ELSE (IF Handed(q[One(s)]).item = item THEN Handed(q[One(s)]).amount ELSE 0) + run[s \ {One(s)}]]
           run == CHOOSE run : Runs(run)
<1>1. \A i \in S : F[i] \in Int
  OBVIOUS
<1>2. \A r : IsSumRun(r, F, S) <=> Runs(r)
  <2>1. \A s \in SUBSET S : s # {} => One(s) \in S
    BY DEF One
  <2>2. \A s \in SUBSET S : s # {} => F[One(s)] = (IF Handed(q[One(s)]).item = item THEN Handed(q[One(s)]).amount ELSE 0)
    BY <2>1
  <2> HIDE DEF F
  <2>3. \A r : [s \in SUBSET S |-> IF s = {} THEN 0 ELSE F[One(s)] + r[s \ {One(s)}]]
               = [s \in SUBSET S |-> IF s = {} THEN 0 ELSE (IF Handed(q[One(s)]).item = item THEN Handed(q[One(s)]).amount ELSE 0) + r[s \ {One(s)}]]
    BY <2>2
  <2> QED BY <2>3 DEF IsSumRun
<1>3. Runs(run)
  <2>1. \E r : IsSumRun(r, F, S)
    <3> HIDE DEF F, Runs, run
    <3> QED BY <1>1, SumRunExists
  <2> HIDE DEF F, Runs
  <2> QED BY <1>2, <2>1
<1>4. HandedUnits(item, q, S) = run[S]
  BY Zenon DEF HandedUnits, MapThenSumSet, MapThenFoldSet, One
<1> QED
  <2> HIDE DEF Runs, run, F
  <2>1. run[S] = SumOver(F, S)
    BY <1>1, <1>2, <1>3, SumOfPart
  <2> QED BY <1>4, <2>1 DEF F

AmountsIn(slots, S) == MapThenSumSet(LAMBDA i : slots[i].amount, S)

LEMMA AmountsInSum ==
    ASSUME NEW slots, NEW S, IsFiniteSet(S), \A i \in S : slots[i].amount \in Int
    PROVE  AmountsIn(slots, S) = SumOver([i \in S |-> slots[i].amount], S)
<1> DEFINE F == [i \in S |-> slots[i].amount]
           Runs(run) == run = [s \in SUBSET S |-> IF s = {} THEN 0 ELSE slots[One(s)].amount + run[s \ {One(s)}]]
           run == CHOOSE run : Runs(run)
<1>1. \A i \in S : F[i] \in Int
  OBVIOUS
<1>2. \A r : IsSumRun(r, F, S) <=> Runs(r)
  <2>1. \A s \in SUBSET S : s # {} => One(s) \in S
    BY DEF One
  <2>2. \A s \in SUBSET S : s # {} => F[One(s)] = slots[One(s)].amount
    BY <2>1
  <2> HIDE DEF F
  <2>3. \A r : [s \in SUBSET S |-> IF s = {} THEN 0 ELSE F[One(s)] + r[s \ {One(s)}]]
               = [s \in SUBSET S |-> IF s = {} THEN 0 ELSE slots[One(s)].amount + r[s \ {One(s)}]]
    BY <2>2
  <2> QED BY <2>3 DEF IsSumRun
<1>3. Runs(run)
  <2>1. \E r : IsSumRun(r, F, S)
    <3> HIDE DEF F, Runs, run
    <3> QED BY <1>1, SumRunExists
  <2> HIDE DEF F, Runs
  <2> QED BY <1>2, <2>1
<1>4. AmountsIn(slots, S) = run[S]
  BY Zenon DEF AmountsIn, MapThenSumSet, MapThenFoldSet, One
<1> QED
  <2> HIDE DEF Runs, run, F
  <2>1. run[S] = SumOver(F, S)
    BY <1>1, <1>2, <1>3, SumOfPart
  <2> QED BY <1>4, <2>1 DEF F

OwnUnits(item, p, q, S) == MapThenSumSet(LAMBDA i : (IF IsFor(p, q[i]).item = item THEN IsFor(p, q[i]).amount ELSE 0), S)

LEMMA OwnUnitsSum ==
    ASSUME NEW item, NEW p, NEW q, NEW S, IsFiniteSet(S), \A i \in S : (IF IsFor(p, q[i]).item = item THEN IsFor(p, q[i]).amount ELSE 0) \in Int
    PROVE  OwnUnits(item, p, q, S) = SumOver([i \in S |-> (IF IsFor(p, q[i]).item = item THEN IsFor(p, q[i]).amount ELSE 0)], S)
<1> DEFINE F == [i \in S |-> (IF IsFor(p, q[i]).item = item THEN IsFor(p, q[i]).amount ELSE 0)]
           Runs(run) == run = [s \in SUBSET S |-> IF s = {} THEN 0 ELSE (IF IsFor(p, q[One(s)]).item = item THEN IsFor(p, q[One(s)]).amount ELSE 0) + run[s \ {One(s)}]]
           run == CHOOSE run : Runs(run)
<1>1. \A i \in S : F[i] \in Int
  OBVIOUS
<1>2. \A r : IsSumRun(r, F, S) <=> Runs(r)
  <2>1. \A s \in SUBSET S : s # {} => One(s) \in S
    BY DEF One
  <2>2. \A s \in SUBSET S : s # {} => F[One(s)] = (IF IsFor(p, q[One(s)]).item = item THEN IsFor(p, q[One(s)]).amount ELSE 0)
    BY <2>1
  <2> HIDE DEF F
  <2>3. \A r : [s \in SUBSET S |-> IF s = {} THEN 0 ELSE F[One(s)] + r[s \ {One(s)}]]
               = [s \in SUBSET S |-> IF s = {} THEN 0 ELSE (IF IsFor(p, q[One(s)]).item = item THEN IsFor(p, q[One(s)]).amount ELSE 0) + r[s \ {One(s)}]]
    BY <2>2
  <2> QED BY <2>3 DEF IsSumRun
<1>3. Runs(run)
  <2>1. \E r : IsSumRun(r, F, S)
    <3> HIDE DEF F, Runs, run
    <3> QED BY <1>1, SumRunExists
  <2> HIDE DEF F, Runs
  <2> QED BY <1>2, <2>1
<1>4. OwnUnits(item, p, q, S) = run[S]
  BY Zenon DEF OwnUnits, MapThenSumSet, MapThenFoldSet, One
<1> QED
  <2> HIDE DEF Runs, run, F
  <2>1. run[S] = SumOver(F, S)
    BY <1>1, <1>2, <1>3, SumOfPart
  <2> QED BY <1>4, <2>1 DEF F

-----------------------------------------------------------------------------
(* What enclosures are worth, by who they are for and what is in them: of  *)
(* letters, of the messages of a link, and of what auctions keep.          *)

Somebody == Player \union {NoPlayer}
Valuation(V) == \A x \in Somebody, w \in Enclosure : V[x][w] \in Int
Table(rws) == IsFiniteSet(DOMAIN rws) /\ \A i \in DOMAIN rws : rws[i].to \in Somebody /\ rws[i].with \in Enclosure
Messages(q) == IsSeq(q) /\ \A j \in DOMAIN q : q[j].p \in Somebody /\ Handed(q[j]) \in Enclosure
House(aus) == IsFiniteSet(DOMAIN aus) /\ \A i \in DOMAIN aus : aus[i] \in GoingOn

RowsWorth(V, rws) == SumOver([i \in DOMAIN rws |-> V[rws[i].to][rws[i].with]], DOMAIN rws)
LinkWorth(V, q) == SumOver([i \in DOMAIN q |-> V[q[i].p][Handed(q[i])]], DOMAIN q)
HouseWorth(A, aus) == SumOver([i \in DOMAIN aus |-> A[aus[i]]], DOMAIN aus)

LEMMA WorthsInt ==
    ASSUME NEW V, Valuation(V)
    PROVE  /\ \A rws : Table(rws) => RowsWorth(V, rws) \in Int
           /\ \A q : Messages(q) => LinkWorth(V, q) \in Int
<1>1. ASSUME NEW rws, Table(rws) PROVE RowsWorth(V, rws) \in Int
  <2> DEFINE F == [i \in DOMAIN rws |-> V[rws[i].to][rws[i].with]]
  <2>1. \A i \in DOMAIN rws : F[i] \in Int
    BY <1>1 DEF Valuation, Table
  <2> HIDE DEF F
  <2>2. SumOver(F, DOMAIN rws) \in Int
    BY <1>1, <2>1, SumInt DEF Table
  <2> QED BY <2>2 DEF RowsWorth, F
<1>2. ASSUME NEW q, Messages(q) PROVE LinkWorth(V, q) \in Int
  <2> DEFINE F == [i \in DOMAIN q |-> V[q[i].p][Handed(q[i])]]
  <2>1. \A i \in DOMAIN q : F[i] \in Int
    BY <1>2 DEF Valuation, Messages
  <2>2. PICK n \in Nat : DOMAIN q = 1..n
    BY <1>2 DEF Messages, IsSeq
  <2> HIDE DEF F
  <2>3. SumOver(F, 1..n) \in Int
    <3>1. IsFiniteSet(1..n)
      BY FS_Interval
    <3> QED BY <2>1, <2>2, <3>1, SumInt
  <2> QED BY <2>2, <2>3 DEF LinkWorth, F
<1> QED BY <1>1, <1>2

\* Two sums that differ in one summand.
LEMMA SumDiffers ==
    ASSUME NEW S, IsFiniteSet(S), NEW T, IsFiniteSet(T), NEW F, NEW G, NEW x, S \ {x} = T \ {x},
           \A y \in S : F[y] \in Int, \A y \in T : G[y] \in Int, \A y \in S \ {x} : G[y] = F[y]
    PROVE  SumOver(G, T) - (IF x \in T THEN G[x] ELSE 0) = SumOver(F, S) - (IF x \in S THEN F[x] ELSE 0)
<1> DEFINE D == S \ {x}
<1>1. IsFiniteSet(D) /\ D = T \ {x} /\ \A y \in D : y \in S
  BY FS_Subset
<1> HIDE DEF D
<1>2. SumOver(G, D) = SumOver(F, D) /\ SumOver(F, D) \in Int
  <2>1. \A y \in D : F[y] \in Int /\ G[y] = F[y]
    BY <1>1 DEF D
  <2> QED BY <1>1, <2>1, SumSame, SumInt
<1>3. SumOver(F, S) = (IF x \in S THEN F[x] ELSE 0) + SumOver(F, D)
  <2>1. CASE x \in S
    BY <2>1, SumOut DEF D
  <2>2. CASE x \notin S
    <3>1. D = S
      BY <2>2 DEF D
    <3> QED BY <1>2, <2>2, <3>1
  <2> QED BY <2>1, <2>2
<1>4. SumOver(G, T) = (IF x \in T THEN G[x] ELSE 0) + SumOver(G, D)
  <2>1. CASE x \in T
    BY <1>1, <2>1, SumOut
  <2>2. CASE x \notin T
    <3>1. D = T
      BY <1>1, <2>2
    <3> QED BY <1>2, <2>2, <3>1
  <2> QED BY <2>1, <2>2
<1> QED BY <1>2, <1>3, <1>4

\* Where only the entry of one letter is different, added or taken out.
LEMMA RowsWorthChanges ==
    ASSUME NEW V, Valuation(V), NEW rws, Table(rws), NEW new, Table(new), NEW id,
           \A i \in DOMAIN rws \ {id} : i \in DOMAIN new /\ new[i].to = rws[i].to /\ new[i].with = rws[i].with,
           \A i \in DOMAIN new \ {id} : i \in DOMAIN rws
    PROVE  RowsWorth(V, new) - (IF id \in DOMAIN new THEN V[new[id].to][new[id].with] ELSE 0)
             = RowsWorth(V, rws) - (IF id \in DOMAIN rws THEN V[rws[id].to][rws[id].with] ELSE 0)
<1> DEFINE S == DOMAIN rws
           T == DOMAIN new
           F == [i \in DOMAIN rws |-> V[rws[i].to][rws[i].with]]
           G == [i \in DOMAIN new |-> V[new[i].to][new[i].with]]
<1>1. IsFiniteSet(S) /\ IsFiniteSet(T) /\ S \ {id} = T \ {id}
  BY DEF Table
<1>2. (\A i \in S : F[i] \in Int) /\ (\A i \in T : G[i] \in Int)
  BY DEF Valuation, Table
<1>3. \A i \in S \ {id} : G[i] = F[i]
  OBVIOUS
<1>4. /\ id \in T => G[id] = V[new[id].to][new[id].with]
      /\ id \in S => F[id] = V[rws[id].to][rws[id].with]
  OBVIOUS
<1> HIDE DEF F, G
<1>5. SumOver(G, T) - (IF id \in T THEN G[id] ELSE 0) = SumOver(F, S) - (IF id \in S THEN F[id] ELSE 0)
  <2> HIDE DEF S, T
  <2> QED BY <1>1, <1>2, <1>3, SumDiffers
<1>6. RowsWorth(V, rws) = SumOver(F, S) /\ RowsWorth(V, new) = SumOver(G, T)
  BY DEF RowsWorth, F, G
<1> HIDE DEF S, T
<1> QED BY <1>4, <1>5, <1>6 DEF S, T

\* The same for auctions.
LEMMA HouseWorthChanges ==
    ASSUME NEW A, \A a \in GoingOn : A[a] \in Int, NEW aus, House(aus), NEW new, House(new), NEW id,
           \A i \in DOMAIN aus \ {id} : i \in DOMAIN new /\ new[i] = aus[i],
           \A i \in DOMAIN new \ {id} : i \in DOMAIN aus
    PROVE  /\ HouseWorth(A, new) - (IF id \in DOMAIN new THEN A[new[id]] ELSE 0)
                = HouseWorth(A, aus) - (IF id \in DOMAIN aus THEN A[aus[id]] ELSE 0)
           /\ HouseWorth(A, aus) \in Int /\ HouseWorth(A, new) \in Int
<1> DEFINE S == DOMAIN aus
           T == DOMAIN new
           F == [i \in DOMAIN aus |-> A[aus[i]]]
           G == [i \in DOMAIN new |-> A[new[i]]]
<1>1. IsFiniteSet(S) /\ IsFiniteSet(T) /\ S \ {id} = T \ {id}
  BY DEF House
<1>2. (\A i \in S : F[i] \in Int) /\ (\A i \in T : G[i] \in Int)
  BY DEF House
<1>3. \A i \in S \ {id} : G[i] = F[i]
  OBVIOUS
<1>4. /\ id \in T => G[id] = A[new[id]]
      /\ id \in S => F[id] = A[aus[id]]
  OBVIOUS
<1> HIDE DEF F, G
<1>5. /\ SumOver(G, T) - (IF id \in T THEN G[id] ELSE 0) = SumOver(F, S) - (IF id \in S THEN F[id] ELSE 0)
      /\ SumOver(F, S) \in Int /\ SumOver(G, T) \in Int
  <2> HIDE DEF S, T
  <2> QED BY <1>1, <1>2, <1>3, SumDiffers, SumInt
<1>6. HouseWorth(A, aus) = SumOver(F, S) /\ HouseWorth(A, new) = SumOver(G, T)
  BY DEF HouseWorth, F, G
<1> HIDE DEF S, T
<1> QED BY <1>4, <1>5, <1>6 DEF S, T

LEMMA WorthsOfMailsJoined ==
    ASSUME NEW V, Valuation(V), NEW s, NEW t, Parcels(s), Parcels(t)
    PROVE  RowsWorth(V, s \o t) = RowsWorth(V, s) + RowsWorth(V, t)
<1> DEFINE q == s \o t
           F == [i \in DOMAIN s |-> V[s[i].to][s[i].with]]
           G == [i \in DOMAIN t |-> V[t[i].to][t[i].with]]
           H == [i \in DOMAIN q |-> V[q[i].to][q[i].with]]
<1>1. PICK n \in Nat, m \in Nat : n = Len(s) /\ m = Len(t)
  BY Joined DEF Parcels
<1>2. /\ IsSeq(q) /\ DOMAIN s = 1..n /\ DOMAIN t = 1..m /\ DOMAIN q = 1..(n + m)
      /\ \A j \in 1..n : q[j] = s[j]
      /\ \A j \in 1..m : q[n + j] = t[j]
  BY <1>1, Joined DEF Parcels
<1>3. /\ \A j \in 1..n : j \in 1..(n + m)
      /\ \A j \in 1..m : n + j \in 1..(n + m)
  OBVIOUS
<1> HIDE DEF q
<1>4. ASSUME NEW j \in 1..n PROVE F[j] \in Int /\ H[j] = F[j]
  <2>1. F[j] = V[s[j].to][s[j].with] /\ H[j] = V[q[j].to][q[j].with]
    BY <1>2, <1>3
  <2> QED BY <1>2, <2>1 DEF Parcels, Valuation, Somebody
<1>5. ASSUME NEW j \in 1..m PROVE G[j] \in Int /\ H[n + j] = G[j]
  <2>1. G[j] = V[t[j].to][t[j].with] /\ H[n + j] = V[q[n + j].to][q[n + j].with]
    BY <1>2, <1>3
  <2> QED BY <1>2, <2>1 DEF Parcels, Valuation, Somebody
<1> HIDE DEF F, G, H
<1>6. SumOver(H, 1..(n + m)) = SumOver(F, 1..n) + SumOver(G, 1..m)
  BY <1>4, <1>5, SumJoined
<1> QED BY <1>2, <1>6 DEF RowsWorth, F, G, H, q

LEMMA WorthsOfLinksJoined ==
    ASSUME NEW V, Valuation(V), NEW s, NEW t, Messages(s), Messages(t)
    PROVE  LinkWorth(V, s \o t) = LinkWorth(V, s) + LinkWorth(V, t) /\ Messages(s \o t)
<1> DEFINE q == s \o t
           F == [i \in DOMAIN s |-> V[s[i].p][Handed(s[i])]]
           G == [i \in DOMAIN t |-> V[t[i].p][Handed(t[i])]]
           H == [i \in DOMAIN q |-> V[q[i].p][Handed(q[i])]]
<1>1. PICK n \in Nat, m \in Nat : n = Len(s) /\ m = Len(t)
  BY Joined DEF Messages
<1>2. /\ IsSeq(q) /\ DOMAIN s = 1..n /\ DOMAIN t = 1..m /\ DOMAIN q = 1..(n + m)
      /\ \A j \in 1..n : q[j] = s[j]
      /\ \A j \in 1..m : q[n + j] = t[j]
  BY <1>1, Joined DEF Messages
<1>3. /\ \A j \in 1..n : j \in 1..(n + m)
      /\ \A j \in 1..m : n + j \in 1..(n + m)
      /\ \A j \in 1..(n + m) : j \in 1..n \/ \E k \in 1..m : j = n + k
  <2>1. ASSUME NEW j \in 1..(n + m), j \notin 1..n PROVE \E k \in 1..m : j = n + k
    <3>1. j - n \in 1..m /\ j = n + (j - n)
      BY <2>1
    <3> QED BY <3>1
  <2> QED BY <2>1
<1> HIDE DEF q
<1>7. Messages(q)
  <2> SUFFICES ASSUME NEW j \in 1..(n + m) PROVE q[j].p \in Somebody /\ Handed(q[j]) \in Enclosure
    BY <1>2 DEF Messages
  <2>1. CASE j \in 1..n
    BY <1>2, <2>1 DEF Messages
  <2>2. ASSUME NEW k \in 1..m, j = n + k PROVE q[j].p \in Somebody /\ Handed(q[j]) \in Enclosure
    BY <1>2, <2>2 DEF Messages
  <2> QED BY <1>3, <2>1, <2>2
<1>4. ASSUME NEW j \in 1..n PROVE F[j] \in Int /\ H[j] = F[j]
  <2>1. F[j] = V[s[j].p][Handed(s[j])] /\ H[j] = V[q[j].p][Handed(q[j])]
    BY <1>2, <1>3
  <2> QED BY <1>2, <2>1 DEF Messages, Valuation, Somebody
<1>5. ASSUME NEW j \in 1..m PROVE G[j] \in Int /\ H[n + j] = G[j]
  <2>1. G[j] = V[t[j].p][Handed(t[j])] /\ H[n + j] = V[q[n + j].p][Handed(q[n + j])]
    BY <1>2, <1>3
  <2> QED BY <1>2, <2>1 DEF Messages, Valuation, Somebody
<1> HIDE DEF F, G, H
<1>6. SumOver(H, 1..(n + m)) = SumOver(F, 1..n) + SumOver(G, 1..m)
  BY <1>4, <1>5, SumJoined
<1> QED BY <1>2, <1>6, <1>7 DEF LinkWorth, F, G, H, q

\* The first message of a link, taken off.
LEMMA WorthOfTail ==
    ASSUME NEW V, Valuation(V), NEW q, Messages(q), q # << >>
    PROVE  /\ LinkWorth(V, q) = V[Head(q).p][Handed(Head(q))] + LinkWorth(V, Tail(q))
           /\ Messages(Tail(q)) /\ Head(q).p \in Somebody /\ Handed(Head(q)) \in Enclosure
<1> DEFINE t == Tail(q)
           F == [i \in DOMAIN q |-> V[q[i].p][Handed(q[i])]]
           G == [i \in DOMAIN t |-> V[t[i].p][Handed(t[i])]]
<1>1. PICK n \in Nat \ {0} : n = Len(q)
  BY Tailed DEF Messages
<1>2. /\ IsSeq(t) /\ DOMAIN q = 1..n /\ DOMAIN t = 1..(n - 1)
      /\ \A j \in 1..(n - 1) : t[j] = q[j + 1] /\ j + 1 \in 1..n
      /\ Head(q) = q[1] /\ 1 \in 1..n
  BY <1>1, Tailed DEF Messages
<1> HIDE DEF t
<1>3. Messages(t) /\ q[1].p \in Somebody /\ Handed(q[1]) \in Enclosure
  BY <1>2 DEF Messages
<1>4. \A i \in 1..n : F[i] \in Int
  BY <1>2 DEF Messages, Valuation
<1>5. \A i \in 1..(n - 1) : G[i] = F[i + 1]
  BY <1>2
<1>6. F[1] = V[q[1].p][Handed(q[1])]
  BY <1>2
<1> HIDE DEF F, G
<1>7. SumOver(F, 1..n) = F[1] + SumOver(G, 1..(n - 1))
  BY <1>4, <1>5, SumTail
<1> QED BY <1>2, <1>3, <1>6, <1>7 DEF LinkWorth, F, G, t

LEMMA WorthOfOne ==
    ASSUME NEW V, Valuation(V)
    PROVE  /\ RowsWorth(V, << >>) = 0 /\ LinkWorth(V, << >>) = 0 /\ Messages(<< >>)
           /\ \A m : m.to \in Somebody /\ m.with \in Enclosure => RowsWorth(V, <<m>>) = V[m.to][m.with]
           /\ \A m : m.p \in Somebody /\ Handed(m) \in Enclosure =>
                        LinkWorth(V, <<m>>) = V[m.p][Handed(m)] /\ Messages(<<m>>)
<1>1. DOMAIN << >> = {} /\ IsSeq(<< >>)
  <2>1. DOMAIN << >> = {}
    OBVIOUS
  <2> QED BY <2>1, Short
<1>2. RowsWorth(V, << >>) = 0 /\ LinkWorth(V, << >>) = 0 /\ Messages(<< >>)
  BY <1>1, SumEmpty DEF RowsWorth, LinkWorth, Messages
<1>3. \A F : F[1] \in Int => SumOver(F, 1..1) = F[1]
  <2> SUFFICES ASSUME NEW F, F[1] \in Int PROVE SumOver(F, 1..1) = F[1]
    OBVIOUS
  <2>1. 1..1 = {1} /\ IsFiniteSet({1}) /\ {1} \ {1} = {}
    <3>1. 1..1 = {1} /\ {1} \ {1} = {}
      OBVIOUS
    <3> QED BY <3>1, FS_Singleton
  <2>2. SumOver(F, {1}) = F[1] + SumOver(F, {1} \ {1})
    BY <2>1, SumOut
  <2> QED BY <2>1, <2>2, SumEmpty
<1>4. ASSUME NEW m, m.to \in Somebody, m.with \in Enclosure PROVE RowsWorth(V, <<m>>) = V[m.to][m.with]
  <2> DEFINE F == [i \in DOMAIN <<m>> |-> V[<<m>>[i].to][<<m>>[i].with]]
  <2>1. DOMAIN <<m>> = 1..1 /\ F[1] = V[m.to][m.with]
    OBVIOUS
  <2>2. V[m.to][m.with] \in Int
    BY <1>4 DEF Valuation
  <2>3. RowsWorth(V, <<m>>) = SumOver(F, DOMAIN <<m>>)
    BY DEF RowsWorth
  <2> HIDE DEF F
  <2> QED BY <1>3, <2>1, <2>2, <2>3
<1>5. ASSUME NEW m, m.p \in Somebody, Handed(m) \in Enclosure
      PROVE  LinkWorth(V, <<m>>) = V[m.p][Handed(m)] /\ Messages(<<m>>)
  <2> DEFINE F == [i \in DOMAIN <<m>> |-> V[<<m>>[i].p][Handed(<<m>>[i])]]
  <2>1. DOMAIN <<m>> = 1..1 /\ F[1] = V[m.p][Handed(m)]
    OBVIOUS
  <2>2. V[m.p][Handed(m)] \in Int
    BY <1>5 DEF Valuation
  <2>3. LinkWorth(V, <<m>>) = SumOver(F, DOMAIN <<m>>)
    BY DEF LinkWorth
  <2>4. Messages(<<m>>)
    <3>1. IsSeq(<<m>>) /\ \A j \in DOMAIN <<m>> : <<m>>[j] = m
      BY Short
    <3> QED BY <1>5, <3>1 DEF Messages
  <2> HIDE DEF F
  <2> QED BY <1>3, <2>1, <2>2, <2>3, <2>4
<1> QED BY <1>2, <1>4, <1>5

\* Letters are sent.
WithMails(rws, n, mails) ==
    [i \in DOMAIN rws \union (n .. n + Len(mails) - 1) |->
       IF i < n THEN rws[i]
       ELSE [from |-> NoPlayer, to |-> mails[i - n + 1].to, status |-> "new", with |-> mails[i - n + 1].with]]

LEMMA WorthOfMails ==
    ASSUME NEW V, Valuation(V), NEW rws, Table(rws), NEW n \in Nat, \A i \in DOMAIN rws : i \in Nat /\ i < n,
           NEW mails, Parcels(mails), NEW new, new = WithMails(rws, n, mails)
    PROVE  RowsWorth(V, new) = RowsWorth(V, rws) + RowsWorth(V, mails) /\ Table(new)
<1> USE DEF WithMails
<1>1. PICK k \in Nat : k = Len(mails) /\ DOMAIN mails = 1..k
  BY DEF Parcels, IsSeq
<1> DEFINE S == DOMAIN rws
           T == n .. (n + k - 1)
           B == 1..k
           g == [i \in T |-> i - n + 1]
           F == [i \in S |-> V[rws[i].to][rws[i].with]]
           M == [i \in B |-> V[mails[i].to][mails[i].with]]
           H == [i \in S \union T |-> V[new[i].to][new[i].with]]
<1>2. IsFiniteSet(S) /\ IsFiniteSet(B) /\ IsFiniteSet(T) /\ S \intersect T = {} /\ IsFiniteSet(S \union T)
  <2>1. IsFiniteSet(S)
    BY DEF Table
  <2>2. IsFiniteSet(B) /\ IsFiniteSet(T)
    <3>1. n \in Int /\ n + k - 1 \in Int /\ 1 \in Int /\ k \in Int
      OBVIOUS
    <3>2. IsFiniteSet(1..k)
      BY <3>1, FS_Interval
    <3>3. IsFiniteSet(n .. (n + k - 1))
      BY <3>1, FS_Interval
    <3> QED BY <3>2, <3>3
  <2>3. S \intersect T = {}
    OBVIOUS
  <2> QED BY <2>1, <2>2, <2>3, FS_Union
<1>3. DOMAIN new = S \union T
  BY <1>1
<1>4. \A i \in S : new[i].to = rws[i].to /\ new[i].with = rws[i].with
  OBVIOUS
<1>5. \A i \in T : g[i] \in B /\ new[i].to = mails[g[i]].to /\ new[i].with = mails[g[i]].with
  BY <1>1
<1>6. \A i \in B : mails[i].to \in Somebody /\ mails[i].with \in Enclosure
  BY <1>1 DEF Parcels, Somebody
<1>7. Table(new)
  BY <1>2, <1>3, <1>4, <1>5, <1>6 DEF Table
<1>8. \A i \in S : F[i] \in Int /\ H[i] = F[i]
  BY <1>4 DEF Table, Valuation
<1>9. \A i \in T : M[g[i]] \in Int /\ H[i] = M[g[i]]
  <2>1. \A j \in B : M[j] = V[mails[j].to][mails[j].with] /\ M[j] \in Int
    BY <1>6 DEF Valuation
  <2>2. \A i \in T : H[i] = V[new[i].to][new[i].with]
    OBVIOUS
  <2> HIDE DEF M, H, g, B, T
  <2>3. ASSUME NEW i \in T PROVE M[g[i]] \in Int /\ H[i] = M[g[i]]
    <3>1. g[i] \in B /\ new[i].to = mails[g[i]].to /\ new[i].with = mails[g[i]].with
      BY <1>5
    <3>2. M[g[i]] = V[mails[g[i]].to][mails[g[i]].with] /\ M[g[i]] \in Int
      BY <2>1, <3>1
    <3> QED BY <2>2, <3>1, <3>2
  <2> QED BY <2>3
<1>10. g \in [T -> B] /\ (\A x, y \in T : g[x] = g[y] => x = y) /\ \A z \in B : \E x \in T : g[x] = z
  <2>1. \A z \in B : z + n - 1 \in T /\ g[z + n - 1] = z
    OBVIOUS
  <2>2. \A x, y \in T : g[x] = g[y] => x = y
    OBVIOUS
  <2>3. g \in [T -> B]
    BY <1>5
  <2>4. \A z \in B : \E x \in T : g[x] = z
    <3> HIDE DEF g, T, B
    <3> QED BY <2>1
  <2> QED BY <2>2, <2>3, <2>4
<1>11. RowsWorth(V, rws) = SumOver(F, S) /\ RowsWorth(V, mails) = SumOver(M, B)
       /\ RowsWorth(V, new) = SumOver(H, S \union T)
  BY <1>1, <1>3 DEF RowsWorth
<1> HIDE DEF S, T, B, g, F, M, H, WithMails
<1>12. SumOver(H, S \union T) = SumOver(H, S) + SumOver(H, T)
  <2>1. \A x \in S \union T : H[x] \in Int
    BY <1>8, <1>9
  <2> QED BY <1>2, <2>1, SumUnion
<1>13. SumOver(H, S) = SumOver(F, S)
  BY <1>2, <1>8, SumSame
<1>14. SumOver(H, T) = SumOver(M, B)
  <2>1. IsFiniteSet(T) /\ IsFiniteSet(B) /\ g \in [T -> B]
    BY <1>2, <1>10
  <2>2. /\ \A x, y \in T : g[x] = g[y] => x = y
        /\ \A z \in B : \E x \in T : g[x] = z
        /\ \A x \in T : M[g[x]] \in Int /\ H[x] = M[g[x]]
    BY <1>9, <1>10
  <2> QED BY ONLY <2>1, <2>2, SumMoved
<1> QED BY <1>7, <1>11, <1>12, <1>13, <1>14

\* Nobody gets anything by an announcement.
LEMMA NewsAreWorthless ==
    ASSUME NEW V, Valuation(V), \A x \in Somebody : V[x][NoEnclosure] = 0, NEW mails, Parcels(mails)
    PROVE  LinkWorth(V, NewsOf(mails)) = 0 /\ Messages(NewsOf(mails))
<1> DEFINE q == NewsOf(mails)
           F == [i \in DOMAIN q |-> V[q[i].p][Handed(q[i])]]
<1>1. PICK k \in Nat : DOMAIN mails = 1..k
  BY DEF Parcels, IsSeq
<1>2. IsSeq(q) /\ DOMAIN q = 1..k /\ \A i \in 1..k : q[i] = [type |-> "new", p |-> mails[i].to]
  <2>1. PlainAnswers(q)
    BY NewsPlain
  <2> QED BY <1>1, <2>1 DEF PlainAnswers, NewsOf
<1> HIDE DEF q
<1>3. \A i \in 1..k : q[i].p \in Somebody /\ Handed(q[i]) = NoEnclosure
  BY <1>1, <1>2 DEF Parcels, Handed, Somebody
<1>4. \A i \in 1..k : F[i] = 0
  BY <1>2, <1>3
<1>5. IsFiniteSet(1..k)
  BY FS_Interval
<1>6. Messages(q)
  BY <1>2, <1>3, EnclosuresAre DEF Messages
<1> HIDE DEF F
<1>7. SumOver(F, 1..k) = 0
  BY <1>4, <1>5, SumOfZeros
<1> QED BY <1>2, <1>6, <1>7 DEF LinkWorth, F, q

\* Where enclosures are, and purses and slots, in the terms above.
Typical == Table(rows) /\ (\A i \in DOMAIN rows : i \in Nat /\ i < nextMail) /\ nextMail \in Nat
           /\ Messages(toChar) /\ Messages(toMap) /\ House(auctions)
           /\ \A p \in Player : sd[p].zeny \in Nat /\ sd[p].inv \in Slots(Slot)

LEMMA TypicalIs == ASSUME PostTyped PROVE Typical
<1>1. MailTyped /\ LinksTyped /\ HouseTyped
  BY DEF PostTyped
<1>2. Table(rows) /\ (\A i \in DOMAIN rows : i \in Nat /\ i < nextMail) /\ nextMail \in Nat
  <2>1. nextMail \in Nat /\ \A i \in DOMAIN rows : i \in 1..(nextMail - 1)
    BY <1>1 DEF MailTyped, RowsTyped
  <2>2. IsFiniteSet(DOMAIN rows)
    <3>1. IsFiniteSet(1..(nextMail - 1))
      BY <2>1, FS_Interval
    <3> QED BY <2>1, <3>1, FS_Subset
  <2>3. \A i \in DOMAIN rows : rows[i].to \in Somebody /\ rows[i].with \in Enclosure
    BY <1>1, RowsAre, LettersAre DEF Somebody
  <2> QED BY <2>1, <2>2, <2>3 DEF Table
<1>3. Messages(toChar)
  <2>1. IsSeq(toChar) /\ \A j \in DOMAIN toChar : ToCharTyped(toChar[j])
    BY <1>1 DEF LinksTyped, AskedRight, Requests
  <2>2. \A m : ToCharTyped(m) => m.p \in Somebody /\ Handed(m) \in Enclosure
    BY EnclosuresAre DEF ToCharTyped, HandsOver, Handed, Somebody
  <2> QED BY <2>1, <2>2 DEF Messages
<1>4. Messages(toMap)
  <2>1. IsSeq(toMap) /\ \A j \in DOMAIN toMap : ToMapTyped(toMap[j])
    BY <1>1 DEF LinksTyped, AnsweredRight, Answers
  <2>2. \A m : ToMapTyped(m) => m.p \in Somebody /\ Handed(m) \in Enclosure
    BY EnclosuresAre DEF ToMapTyped, HandsOver, Handed, Somebody
  <2> QED BY <2>1, <2>2 DEF Messages
<1>5. House(auctions)
  <2>1. nextAuction \in Nat /\ \A id \in DOMAIN auctions : id \in 1..(nextAuction - 1) /\ auctions[id] \in GoingOn
    BY <1>1 DEF HouseTyped
  <2>2. IsFiniteSet(1..(nextAuction - 1))
    BY <2>1, FS_Interval
  <2> QED BY <2>1, <2>2, FS_Subset DEF House
<1>6. \A p \in Player : sd[p].zeny \in Nat /\ sd[p].inv \in Slots(Slot)
  <2>1. MaxZeny \in Nat
    BY LimitsAssumption
  <2> QED BY <2>1, HoldingsAre DEF PostTyped
<1> QED BY <1>2, <1>3, <1>4, <1>5, <1>6 DEF Typical

-----------------------------------------------------------------------------
(* Purses and goods, as worths.                                            *)

LEMMA SumWhere ==
    ASSUME NEW S, IsFiniteSet(S), NEW A \in SUBSET S, NEW F, NEW G, \A x \in A : F[x] \in Int,
           \A x \in S : G[x] = IF x \in A THEN F[x] ELSE 0
    PROVE  SumOver(F, A) = SumOver(G, S)
<1> DEFINE B == S \ A
<1>1. IsFiniteSet(A) /\ IsFiniteSet(B) /\ A \intersect B = {} /\ S = A \union B
  BY FS_Subset
<1>2. (\A x \in A : G[x] = F[x] /\ F[x] \in Int) /\ (\A x \in B : G[x] = 0) /\ \A x \in S : G[x] \in Int
  OBVIOUS
<1> HIDE DEF B
<1>3. SumOver(G, S) = SumOver(G, A) + SumOver(G, B)
  BY <1>1, <1>2, SumUnion
<1>4. SumOver(G, A) = SumOver(F, A) /\ SumOver(F, A) \in Int
  BY <1>1, <1>2, SumSame, SumInt
<1>5. SumOver(G, B) = 0
  BY <1>1, <1>2, SumOfZeros
<1> QED BY <1>3, <1>4, <1>5

ZenyFor(p) == [x \in Somebody |-> [w \in Enclosure |-> IF x = p THEN w.zeny ELSE 0]]
UnitsFor(p, item) == [x \in Somebody |-> [w \in Enclosure |-> IF x = p /\ w.item = item THEN w.amount ELSE 0]]
LeadsFor(p) == [a \in GoingOn |-> IF a.buyer = p THEN a.price ELSE 0]
SellsFor(p, item) == [a \in GoingOn |-> IF a.seller = p /\ a.item = item THEN 1 ELSE 0]

LEMMA ValuationsAre ==
    ASSUME NEW p, NEW item
    PROVE  /\ Valuation(ZenyFor(p)) /\ Valuation(UnitsFor(p, item))
           /\ \A x \in Somebody : ZenyFor(p)[x][NoEnclosure] = 0 /\ UnitsFor(p, item)[x][NoEnclosure] = 0
           /\ \A a \in GoingOn : LeadsFor(p)[a] \in Int /\ SellsFor(p, item)[a] \in Int
<1>1. \A w \in Enclosure : w.zeny \in Int /\ w.amount \in Int
  <2>1. MaxAmount \in Nat /\ MaxZeny \in Nat
    BY LimitsAssumption
  <2> QED BY <2>1, EnclosuresAre
<1>2. NoEnclosure \in Enclosure /\ NoEnclosure.zeny = 0 /\ NoEnclosure.amount = 0
  BY EnclosuresAre DEF NoEnclosure
<1>3. \A a \in GoingOn : a.price \in Int
  BY AuctionsAre
<1>4. Valuation(ZenyFor(p)) /\ \A x \in Somebody : ZenyFor(p)[x][NoEnclosure] = 0
  BY <1>1, <1>2 DEF Valuation, ZenyFor
<1>5. Valuation(UnitsFor(p, item)) /\ \A x \in Somebody : UnitsFor(p, item)[x][NoEnclosure] = 0
  BY <1>1, <1>2 DEF Valuation, UnitsFor
<1> QED BY <1>3, <1>4, <1>5 DEF LeadsFor, SellsFor

LEMMA OwnedWorth ==
    ASSUME NEW p \in Player, NEW item, NEW rws, Table(rws)
    PROVE  /\ LettersZeny(rws, {i \in DOMAIN rws : rws[i].to = p}) = RowsWorth(ZenyFor(p), rws)
           /\ LettersUnits(item, rws, {i \in DOMAIN rws : rws[i].to = p}) = RowsWorth(UnitsFor(p, item), rws)
<1> DEFINE S == DOMAIN rws
           A == {i \in DOMAIN rws : rws[i].to = p}
<1>1. \A i \in S : rws[i].to \in Somebody /\ rws[i].with \in Enclosure
                   /\ rws[i].with.zeny \in Int /\ rws[i].with.amount \in Int
  <2>1. MaxAmount \in Nat /\ MaxZeny \in Nat
    BY LimitsAssumption
  <2> QED BY <2>1, EnclosuresAre DEF Table
<1>2. IsFiniteSet(S) /\ IsFiniteSet(A) /\ A \in SUBSET S
  BY FS_Subset DEF Table
<1>3. LettersZeny(rws, A) = RowsWorth(ZenyFor(p), rws)
  <2> DEFINE F == [i \in A |-> rws[i].with.zeny]
             G == [i \in S |-> ZenyFor(p)[rws[i].to][rws[i].with]]
  <2>1. LettersZeny(rws, A) = SumOver(F, A)
    <3> HIDE DEF A
    <3>1. \A i \in A : rws[i].with.zeny \in Int
      BY <1>1, <1>2
    <3> QED BY <1>2, <3>1, LettersZenySum
  <2>2. /\ \A i \in A : F[i] \in Int
        /\ \A i \in S : G[i] = IF i \in A THEN F[i] ELSE 0
    BY <1>1 DEF ZenyFor
  <2>3. RowsWorth(ZenyFor(p), rws) = SumOver(G, S)
    BY DEF RowsWorth
  <2> HIDE DEF F, G, A, S
  <2> QED BY <1>2, <2>1, <2>2, <2>3, SumWhere
<1>4. LettersUnits(item, rws, A) = RowsWorth(UnitsFor(p, item), rws)
  <2> DEFINE F == [i \in A |-> (IF rws[i].with.item = item THEN rws[i].with.amount ELSE 0)]
             G == [i \in S |-> UnitsFor(p, item)[rws[i].to][rws[i].with]]
  <2>1. LettersUnits(item, rws, A) = SumOver(F, A)
    <3> HIDE DEF A
    <3>1. \A i \in A : (IF rws[i].with.item = item THEN rws[i].with.amount ELSE 0) \in Int
      BY <1>1, <1>2
    <3> QED BY <1>2, <3>1, LettersUnitsSum
  <2>2. /\ \A i \in A : F[i] \in Int
        /\ \A i \in S : G[i] = IF i \in A THEN F[i] ELSE 0
    BY <1>1 DEF UnitsFor
  <2>3. RowsWorth(UnitsFor(p, item), rws) = SumOver(G, S)
    BY DEF RowsWorth
  <2> HIDE DEF F, G, A, S
  <2> QED BY <1>2, <2>1, <2>2, <2>3, SumWhere
<1> QED BY <1>3, <1>4

LEMMA OnItsWayWorth ==
    ASSUME NEW p \in Player, NEW item, NEW q, Messages(q)
    PROVE  /\ OwnZeny(p, q, DOMAIN q) = LinkWorth(ZenyFor(p), q)
           /\ OwnUnits(item, p, q, DOMAIN q) = LinkWorth(UnitsFor(p, item), q)
<1> DEFINE S == DOMAIN q
<1>1. \A i \in S : /\ q[i].p \in Somebody /\ Handed(q[i]) \in Enclosure
                   /\ Handed(q[i]).zeny \in Int /\ Handed(q[i]).amount \in Int
  <2>1. MaxAmount \in Nat /\ MaxZeny \in Nat
    BY LimitsAssumption
  <2> QED BY <2>1, EnclosuresAre DEF Messages
<1>2. IsFiniteSet(S)
  <2>1. PICK n \in Nat : S = 1..n
    BY DEF Messages, IsSeq
  <2> QED BY <2>1, FS_Interval
<1>3. ASSUME NEW i \in S
      PROVE  /\ IsFor(p, q[i]).zeny \in Int /\ IsFor(p, q[i]).amount \in Int
             /\ IsFor(p, q[i]).zeny = ZenyFor(p)[q[i].p][Handed(q[i])]
             /\ (IF IsFor(p, q[i]).item = item THEN IsFor(p, q[i]).amount ELSE 0)
                  = UnitsFor(p, item)[q[i].p][Handed(q[i])]
  <2> DEFINE w == Handed(q[i])
  <2>1. w \in Enclosure /\ q[i].p \in Somebody /\ w.zeny \in Int /\ w.amount \in Int
    BY <1>1
  <2> HIDE DEF w
  <2>2. /\ ZenyFor(p)[q[i].p][w] = IF q[i].p = p THEN w.zeny ELSE 0
        /\ UnitsFor(p, item)[q[i].p][w] = IF q[i].p = p /\ w.item = item THEN w.amount ELSE 0
    BY <2>1 DEF ZenyFor, UnitsFor
  <2>3. IsFor(p, q[i]) = IF q[i].p = p THEN w ELSE NoEnclosure
    BY DEF IsFor, w
  <2>4. NoEnclosure.zeny = 0 /\ NoEnclosure.amount = 0
    BY DEF NoEnclosure
  <2> QED BY <2>1, <2>2, <2>3, <2>4 DEF w
<1>4. OwnZeny(p, q, S) = LinkWorth(ZenyFor(p), q)
  <2>1. [i \in S |-> IsFor(p, q[i]).zeny] = [i \in S |-> ZenyFor(p)[q[i].p][Handed(q[i])]]
    BY <1>3
  <2>2. OwnZeny(p, q, S) = SumOver([i \in S |-> IsFor(p, q[i]).zeny], S)
    <3> HIDE DEF S
    <3> QED BY <1>2, <1>3, OwnZenySum
  <2> QED BY <2>1, <2>2 DEF LinkWorth
<1>5. OwnUnits(item, p, q, S) = LinkWorth(UnitsFor(p, item), q)
  <2>1. [i \in S |-> (IF IsFor(p, q[i]).item = item THEN IsFor(p, q[i]).amount ELSE 0)]
          = [i \in S |-> UnitsFor(p, item)[q[i].p][Handed(q[i])]]
    BY <1>3
  <2>2. OwnUnits(item, p, q, S) = SumOver([i \in S |-> (IF IsFor(p, q[i]).item = item THEN IsFor(p, q[i]).amount ELSE 0)], S)
    <3>1. \A i \in S : (IF IsFor(p, q[i]).item = item THEN IsFor(p, q[i]).amount ELSE 0) \in Int
      BY <1>3
    <3> HIDE DEF S
    <3> QED BY <1>2, <3>1, OwnUnitsSum
  <2> QED BY <2>1, <2>2 DEF LinkWorth
<1> QED BY <1>4, <1>5

LEMMA HouseKeeps ==
    ASSUME NEW p \in Player, NEW item, NEW aus, House(aus)
    PROVE  /\ Bids(aus, {i \in DOMAIN aus : aus[i].buyer = p}) = HouseWorth(LeadsFor(p), aus)
           /\ Cardinality({i \in {i \in DOMAIN aus : aus[i].seller = p} : aus[i].item = item})
                = HouseWorth(SellsFor(p, item), aus)
<1> DEFINE S == DOMAIN aus
           A == {i \in DOMAIN aus : aus[i].buyer = p}
           B == {i \in {i \in DOMAIN aus : aus[i].seller = p} : aus[i].item = item}
           F == [i \in A |-> aus[i].price]
           G == [i \in S |-> LeadsFor(p)[aus[i]]]
           H == [i \in S |-> SellsFor(p, item)[aus[i]]]
<1>1. IsFiniteSet(S) /\ IsFiniteSet(A) /\ A \in SUBSET S /\ B \in SUBSET S
  BY FS_Subset DEF House
<1>2. \A i \in S : aus[i] \in GoingOn /\ aus[i].price \in Int
  BY AuctionsAre DEF House
<1>3. /\ \A i \in A : F[i] \in Int
      /\ \A i \in S : G[i] = IF i \in A THEN F[i] ELSE 0
  BY <1>2 DEF LeadsFor
<1>4. \A i \in S : H[i] = IF i \in B THEN 1 ELSE 0
  BY <1>2 DEF SellsFor
<1>5. HouseWorth(LeadsFor(p), aus) = SumOver(G, S) /\ HouseWorth(SellsFor(p, item), aus) = SumOver(H, S)
  BY DEF HouseWorth
<1>6. Bids(aus, A) = SumOver(F, A)
  <2> HIDE DEF A
  <2>1. \A i \in A : aus[i].price \in Int
    BY <1>1, <1>2
  <2> QED BY <1>1, <2>1, BidsSum
<1>7. SumOver(F, A) = SumOver(G, S)
  <2> HIDE DEF F, G, A, S
  <2> QED BY <1>1, <1>3, SumWhere
<1>8. Cardinality(B) = SumOver(H, S)
  <2> HIDE DEF H, B, S
  <2> QED BY <1>1, <1>4, CountIsSum
<1> QED BY <1>5, <1>6, <1>7, <1>8

LEMMA UnitsOfIs ==
    ASSUME NEW S, IsFiniteSet(S), NEW slots \in Slots(S), NEW item
    PROVE  /\ UnitsOf(slots, item) = SumOver([s \in S |-> IF slots[s].item = item THEN slots[s].amount ELSE 0], S)
           /\ UnitsOf(slots, item) \in Nat
<1> DEFINE A == Holding(slots, item)
           F == [s \in A |-> slots[s].amount]
           G == [s \in S |-> IF slots[s].item = item THEN slots[s].amount ELSE 0]
<1>1. DOMAIN slots = S /\ \A s \in S : slots[s].amount \in Nat
  <2>1. MaxAmount \in Nat
    BY LimitsAssumption
  <2>2. DOMAIN slots = S /\ \A s \in S : slots[s].amount \in 0..MaxAmount
    BY SlotsAre
  <2> QED BY <2>1, <2>2
<1>2. A \in SUBSET S /\ IsFiniteSet(A)
  BY <1>1, FS_Subset DEF Holding
<1>3. UnitsOf(slots, item) = AmountsIn(slots, A)
  BY DEF UnitsOf, AmountsIn, MapThenSumSet, MapThenFoldSet
<1>4. AmountsIn(slots, A) = SumOver(F, A)
  <2> HIDE DEF A
  <2>1. \A s \in A : slots[s].amount \in Int
    BY <1>1, <1>2
  <2> QED BY <1>2, <2>1, AmountsInSum
<1>5. (\A s \in A : F[s] \in Int) /\ \A s \in S : G[s] = IF s \in A THEN F[s] ELSE 0
  BY <1>1 DEF Holding
<1>6. \A s \in S : G[s] \in Nat
  BY <1>1
<1> HIDE DEF F, G, A
<1>7. SumOver(F, A) = SumOver(G, S)
  BY <1>2, <1>5, SumWhere
<1>8. SumOver(G, S) \in Nat
  BY <1>6, SumNat
<1> QED BY <1>3, <1>4, <1>7, <1>8 DEF G

\* What is p's, in the terms above.
ZenyAround(p) ==
    RowsWorth(ZenyFor(p), rows) + LinkWorth(ZenyFor(p), toChar) + LinkWorth(ZenyFor(p), toMap)
      + HouseWorth(LeadsFor(p), auctions)
UnitsAround(p, item) ==
    RowsWorth(UnitsFor(p, item), rows) + LinkWorth(UnitsFor(p, item), toChar) + LinkWorth(UnitsFor(p, item), toMap)
      + HouseWorth(SellsFor(p, item), auctions)

LEMMA AroundNext ==
    ASSUME NEW p \in Player, NEW item
    PROVE  /\ ZenyAround(p)' = RowsWorth(ZenyFor(p), rows') + LinkWorth(ZenyFor(p), toChar')
                                 + LinkWorth(ZenyFor(p), toMap') + HouseWorth(LeadsFor(p), auctions')
           /\ UnitsAround(p, item)' = RowsWorth(UnitsFor(p, item), rows') + LinkWorth(UnitsFor(p, item), toChar')
                                        + LinkWorth(UnitsFor(p, item), toMap') + HouseWorth(SellsFor(p, item), auctions')
<1>1. /\ RowsWorth(ZenyFor(p), rows)' = RowsWorth(ZenyFor(p), rows')
      /\ RowsWorth(UnitsFor(p, item), rows)' = RowsWorth(UnitsFor(p, item), rows')
  BY DEF RowsWorth, ZenyFor, UnitsFor, Somebody, Enclosure
<1>2. /\ LinkWorth(ZenyFor(p), toChar)' = LinkWorth(ZenyFor(p), toChar')
      /\ LinkWorth(ZenyFor(p), toMap)' = LinkWorth(ZenyFor(p), toMap')
  BY DEF LinkWorth, ZenyFor, Handed, Somebody, Enclosure
<1>3. /\ LinkWorth(UnitsFor(p, item), toChar)' = LinkWorth(UnitsFor(p, item), toChar')
      /\ LinkWorth(UnitsFor(p, item), toMap)' = LinkWorth(UnitsFor(p, item), toMap')
  BY DEF LinkWorth, UnitsFor, Handed, Somebody, Enclosure
<1>4. /\ HouseWorth(LeadsFor(p), auctions)' = HouseWorth(LeadsFor(p), auctions')
      /\ HouseWorth(SellsFor(p, item), auctions)' = HouseWorth(SellsFor(p, item), auctions')
  BY DEF HouseWorth, LeadsFor, SellsFor, GoingOn, Auctions
<1> QED BY <1>1, <1>2, <1>3, <1>4 DEF ZenyAround, UnitsAround

LEMMA PurseAndGoods ==
    ASSUME NEW p \in Player, NEW item
    PROVE  /\ Typical => Purse(p) = sd[p].zeny + ZenyAround(p)
           /\ Typical => Goods(p, item) = UnitsOf(sd[p].inv, item) + UnitsAround(p, item)
           /\ Typical' => Purse(p)' = sd'[p].zeny + ZenyAround(p)'
           /\ Typical' => Goods(p, item)' = UnitsOf(sd[p].inv, item)' + UnitsAround(p, item)'

<1>1. /\ Purse(p) = sd[p].zeny
                      + (LettersZeny(rows, {i \in DOMAIN rows : rows[i].to = p}) + OwnZeny(p, toChar, DOMAIN toChar)
                         + OwnZeny(p, toMap, DOMAIN toMap))
                      + Bids(auctions, {i \in DOMAIN auctions : auctions[i].buyer = p})
  BY DEF Purse, Owned, LettersTo, Led, LettersZeny, OwnZeny, Bids, MapThenSumSet, MapThenFoldSet
<1>2. Purse(p)' = sd'[p].zeny
                      + (LettersZeny(rows', {i \in DOMAIN rows' : rows'[i].to = p}) + OwnZeny(p, toChar', DOMAIN toChar')
                         + OwnZeny(p, toMap', DOMAIN toMap'))
                      + Bids(auctions', {i \in DOMAIN auctions' : auctions'[i].buyer = p})
  BY DEF Purse, Owned, LettersTo, Led, LettersZeny, OwnZeny, Bids, MapThenSumSet, MapThenFoldSet
<1>3. Goods(p, item) = UnitsOf(sd[p].inv, item)
                      + (LettersUnits(item, rows, {i \in DOMAIN rows : rows[i].to = p})
                         + OwnUnits(item, p, toChar, DOMAIN toChar) + OwnUnits(item, p, toMap, DOMAIN toMap))
                      + Cardinality({i \in {i \in DOMAIN auctions : auctions[i].seller = p} : auctions[i].item = item})
  BY DEF Goods, Owned, LettersTo, SoldBy, LettersUnits, OwnUnits, MapThenSumSet, MapThenFoldSet
<1>4. Goods(p, item)' = UnitsOf(sd[p].inv, item)'
                      + (LettersUnits(item, rows', {i \in DOMAIN rows' : rows'[i].to = p})
                         + OwnUnits(item, p, toChar', DOMAIN toChar') + OwnUnits(item, p, toMap', DOMAIN toMap'))
                      + Cardinality({i \in {i \in DOMAIN auctions' : auctions'[i].seller = p} : auctions'[i].item = item})
  BY DEF Goods, Owned, LettersTo, SoldBy, LettersUnits, OwnUnits, MapThenSumSet, MapThenFoldSet

<1>5. ASSUME NEW rws, Table(rws), NEW tc, Messages(tc), NEW tm, Messages(tm), NEW aus, House(aus), NEW z \in Nat
      PROVE  z + (LettersZeny(rws, {i \in DOMAIN rws : rws[i].to = p}) + OwnZeny(p, tc, DOMAIN tc) + OwnZeny(p, tm, DOMAIN tm))
               + Bids(aus, {i \in DOMAIN aus : aus[i].buyer = p})
             = z + (RowsWorth(ZenyFor(p), rws) + LinkWorth(ZenyFor(p), tc) + LinkWorth(ZenyFor(p), tm)
                     + HouseWorth(LeadsFor(p), aus))
  <2>1. /\ RowsWorth(ZenyFor(p), rws) \in Int /\ LinkWorth(ZenyFor(p), tc) \in Int /\ LinkWorth(ZenyFor(p), tm) \in Int
        /\ HouseWorth(LeadsFor(p), aus) \in Int
    BY <1>5, ValuationsAre, WorthsInt, HouseWorthChanges
  <2>2. /\ LettersZeny(rws, {i \in DOMAIN rws : rws[i].to = p}) = RowsWorth(ZenyFor(p), rws)
        /\ OwnZeny(p, tc, DOMAIN tc) = LinkWorth(ZenyFor(p), tc)
        /\ OwnZeny(p, tm, DOMAIN tm) = LinkWorth(ZenyFor(p), tm)
        /\ Bids(aus, {i \in DOMAIN aus : aus[i].buyer = p}) = HouseWorth(LeadsFor(p), aus)
    BY <1>5, OwnedWorth, OnItsWayWorth, HouseKeeps
  <2> QED BY <2>1, <2>2
<1>6. ASSUME NEW rws, Table(rws), NEW tc, Messages(tc), NEW tm, Messages(tm), NEW aus, House(aus), NEW z \in Nat
      PROVE  z + (LettersUnits(item, rws, {i \in DOMAIN rws : rws[i].to = p})
                   + OwnUnits(item, p, tc, DOMAIN tc) + OwnUnits(item, p, tm, DOMAIN tm))
               + Cardinality({i \in {i \in DOMAIN aus : aus[i].seller = p} : aus[i].item = item})
             = z + (RowsWorth(UnitsFor(p, item), rws) + LinkWorth(UnitsFor(p, item), tc) + LinkWorth(UnitsFor(p, item), tm)
                     + HouseWorth(SellsFor(p, item), aus))
  <2>1. /\ RowsWorth(UnitsFor(p, item), rws) \in Int /\ LinkWorth(UnitsFor(p, item), tc) \in Int
        /\ LinkWorth(UnitsFor(p, item), tm) \in Int /\ HouseWorth(SellsFor(p, item), aus) \in Int
    BY <1>6, ValuationsAre, WorthsInt, HouseWorthChanges
  <2>2. /\ LettersUnits(item, rws, {i \in DOMAIN rws : rws[i].to = p}) = RowsWorth(UnitsFor(p, item), rws)
        /\ OwnUnits(item, p, tc, DOMAIN tc) = LinkWorth(UnitsFor(p, item), tc)
        /\ OwnUnits(item, p, tm, DOMAIN tm) = LinkWorth(UnitsFor(p, item), tm)
        /\ Cardinality({i \in {i \in DOMAIN aus : aus[i].seller = p} : aus[i].item = item}) = HouseWorth(SellsFor(p, item), aus)
    BY <1>6, OwnedWorth, OnItsWayWorth, HouseKeeps
  <2> QED BY <2>1, <2>2
<1>7. Typical => sd[p].zeny \in Nat /\ UnitsOf(sd[p].inv, item) \in Nat
  BY UnitsOfIs, SlotAssumption DEF Typical
<1>8. Typical' => sd'[p].zeny \in Nat /\ UnitsOf(sd[p].inv, item)' \in Nat
  <2> SUFFICES ASSUME Typical' PROVE sd'[p].zeny \in Nat /\ UnitsOf(sd[p].inv, item)' \in Nat
    OBVIOUS
  <2>1. sd'[p].inv \in Slots(Slot)
    BY DEF Typical, Slots, Tidy, Stack
  <2>2. UnitsOf(sd'[p].inv, item) \in Nat
    BY <2>1, UnitsOfIs, SlotAssumption
  <2>3. UnitsOf(sd[p].inv, item)' = UnitsOf(sd'[p].inv, item)
    BY DEF UnitsOf, Holding, MapThenSumSet, MapThenFoldSet
  <2> QED BY <2>2, <2>3 DEF Typical
<1>9. /\ Typical => Table(rows) /\ Messages(toChar) /\ Messages(toMap) /\ House(auctions)
      /\ Typical' => Table(rows') /\ Messages(toChar') /\ Messages(toMap') /\ House(auctions')
  BY DEF Typical, Table, Messages, House, Handed, Somebody, GoingOn, Auctions, Enclosure, IsSeq
<1>10. Typical => Purse(p) = sd[p].zeny + ZenyAround(p)
  <2> SUFFICES ASSUME Typical PROVE Purse(p) = sd[p].zeny + ZenyAround(p)
    OBVIOUS
  <2>1. PICK z \in Nat : z = sd[p].zeny
    BY <1>7
  <2>3. ZenyAround(p) = RowsWorth(ZenyFor(p), rows) + LinkWorth(ZenyFor(p), toChar) + LinkWorth(ZenyFor(p), toMap)
                          + HouseWorth(LeadsFor(p), auctions)
    BY DEF ZenyAround
  <2>2. z + (LettersZeny(rows, {i \in DOMAIN rows : rows[i].to = p}) + OwnZeny(p, toChar, DOMAIN toChar)
               + OwnZeny(p, toMap, DOMAIN toMap))
          + Bids(auctions, {i \in DOMAIN auctions : auctions[i].buyer = p})
        = z + ZenyAround(p)
    BY <1>5, <1>9, <2>3
  <2> QED BY <1>1, <2>1, <2>2
<1>11. Typical => Goods(p, item) = UnitsOf(sd[p].inv, item) + UnitsAround(p, item)
  BY <1>3, <1>6, <1>7, <1>9 DEF UnitsAround
<1>12. Typical' => Purse(p)' = sd'[p].zeny + ZenyAround(p)'
  <2>1. ZenyAround(p)' = RowsWorth(ZenyFor(p), rows') + LinkWorth(ZenyFor(p), toChar')
                          + LinkWorth(ZenyFor(p), toMap') + HouseWorth(LeadsFor(p), auctions')
    BY AroundNext
  <2> SUFFICES ASSUME Typical' PROVE Purse(p)' = sd'[p].zeny + ZenyAround(p)'
    OBVIOUS
  <2>2. PICK z \in Nat : z = sd'[p].zeny
    BY <1>8
  <2>3. z + (LettersZeny(rows', {i \in DOMAIN rows' : rows'[i].to = p}) + OwnZeny(p, toChar', DOMAIN toChar')
               + OwnZeny(p, toMap', DOMAIN toMap'))
          + Bids(auctions', {i \in DOMAIN auctions' : auctions'[i].buyer = p})
        = z + ZenyAround(p)'
    BY <1>5, <1>9, <2>1
  <2> QED BY <1>2, <2>2, <2>3
<1>13. Typical' => Goods(p, item)' = UnitsOf(sd[p].inv, item)' + UnitsAround(p, item)'
  <2>1. UnitsAround(p, item)' = RowsWorth(UnitsFor(p, item), rows') + LinkWorth(UnitsFor(p, item), toChar')
                          + LinkWorth(UnitsFor(p, item), toMap') + HouseWorth(SellsFor(p, item), auctions')
    BY AroundNext
  <2> SUFFICES ASSUME Typical' PROVE Goods(p, item)' = UnitsOf(sd[p].inv, item)' + UnitsAround(p, item)'
    OBVIOUS
  <2>2. PICK z \in Nat : z = UnitsOf(sd[p].inv, item)'
    BY <1>8
  <2>3. z + (LettersUnits(item, rows', {i \in DOMAIN rows' : rows'[i].to = p})
             + OwnUnits(item, p, toChar', DOMAIN toChar') + OwnUnits(item, p, toMap', DOMAIN toMap'))
          + Cardinality({i \in {i \in DOMAIN auctions' : auctions'[i].seller = p} : auctions'[i].item = item})
        = z + UnitsAround(p, item)'
    BY <1>6, <1>9, <2>1
  <2> QED BY <1>4, <2>2, <2>3
<1> QED BY <1>10, <1>11, <1>12, <1>13

-----------------------------------------------------------------------------
(* What the house does with letters and links.                             *)

Fair(V) == Valuation(V) /\ \A x \in Somebody : V[x][NoEnclosure] = 0

\* Of all that is in msgs somebody is handed something, or nobody anything.
HandsTo(msgs, b, with) == Messages(msgs) /\ \A V : Fair(V) => LinkWorth(V, msgs) = V[b][with]

LEMMA HandsToIs ==
    ASSUME NEW b \in Somebody
    PROVE  /\ HandsTo(<< >>, b, NoEnclosure)
           /\ \A mails : Parcels(mails) => HandsTo(NewsOf(mails), b, NoEnclosure)
           /\ \A m : m.p = b /\ Handed(m) \in Enclosure => HandsTo(<<m>>, b, Handed(m))
           /\ \A s, t : \A w \in Enclosure : HandsTo(s, b, NoEnclosure) /\ HandsTo(t, b, w) => HandsTo(s \o t, b, w)
           /\ \A s, t : \A w \in Enclosure : HandsTo(s, b, w) /\ HandsTo(t, b, NoEnclosure) => HandsTo(s \o t, b, w)
<1>1. HandsTo(<< >>, b, NoEnclosure)
  <2>1. \A V : Fair(V) => LinkWorth(V, << >>) = 0 /\ Messages(<< >>) /\ V[b][NoEnclosure] = 0
    BY WorthOfOne DEF Fair
  <2>2. Messages(<< >>)
    <3>1. Fair(ZenyFor(b))
      BY ValuationsAre DEF Fair
    <3> QED BY <2>1, <3>1
  <2> QED BY <2>1, <2>2 DEF HandsTo
<1>2. ASSUME NEW mails, Parcels(mails) PROVE HandsTo(NewsOf(mails), b, NoEnclosure)
  <2>1. \A V : Fair(V) => LinkWorth(V, NewsOf(mails)) = 0 /\ Messages(NewsOf(mails)) /\ V[b][NoEnclosure] = 0
    BY <1>2, NewsAreWorthless DEF Fair
  <2>2. Fair(ZenyFor(b))
    BY ValuationsAre DEF Fair
  <2> QED BY <2>1, <2>2 DEF HandsTo
<1>3. ASSUME NEW m, m.p = b, Handed(m) \in Enclosure PROVE HandsTo(<<m>>, b, Handed(m))
  <2>1. \A V : Fair(V) => LinkWorth(V, <<m>>) = V[b][Handed(m)] /\ Messages(<<m>>)
    BY <1>3, WorthOfOne DEF Fair
  <2>2. Fair(ZenyFor(b))
    BY ValuationsAre DEF Fair
  <2> QED BY <2>1, <2>2 DEF HandsTo
<1>4. ASSUME NEW s, NEW t, NEW v \in Enclosure, NEW w \in Enclosure, HandsTo(s, b, v), HandsTo(t, b, w)
      PROVE  /\ Messages(s \o t)
             /\ \A V : Fair(V) => LinkWorth(V, s \o t) = V[b][v] + V[b][w] /\ V[b][v] \in Int /\ V[b][w] \in Int
                                    /\ V[b][NoEnclosure] = 0
  <2>1. Messages(s) /\ Messages(t)
    BY <1>4 DEF HandsTo
  <2>2. ASSUME NEW V, Fair(V)
        PROVE  LinkWorth(V, s \o t) = V[b][v] + V[b][w] /\ Messages(s \o t) /\ V[b][v] \in Int /\ V[b][w] \in Int
               /\ V[b][NoEnclosure] = 0
    <3>1. LinkWorth(V, s \o t) = LinkWorth(V, s) + LinkWorth(V, t) /\ Messages(s \o t)
      BY <2>1, <2>2, WorthsOfLinksJoined DEF Fair
    <3>2. LinkWorth(V, s) = V[b][v] /\ LinkWorth(V, t) = V[b][w]
      BY <1>4, <2>2 DEF HandsTo
    <3> QED BY <2>2, <3>1, <3>2 DEF Fair, Valuation
  <2>3. Fair(ZenyFor(b))
    BY ValuationsAre DEF Fair
  <2> QED BY <2>2, <2>3
<1>5. NoEnclosure \in Enclosure
  BY EnclosuresAre
<1>6. ASSUME NEW s, NEW t, NEW w \in Enclosure, HandsTo(s, b, NoEnclosure), HandsTo(t, b, w) PROVE HandsTo(s \o t, b, w)
  <2>1. /\ Messages(s \o t)
        /\ \A V : Fair(V) => LinkWorth(V, s \o t) = V[b][NoEnclosure] + V[b][w] /\ V[b][w] \in Int /\ V[b][NoEnclosure] = 0
    BY <1>4, <1>5, <1>6
  <2>2. \A V : Fair(V) => LinkWorth(V, s \o t) = V[b][w]
    BY <2>1
  <2> QED BY <2>1, <2>2 DEF HandsTo
<1>7. ASSUME NEW s, NEW t, NEW w \in Enclosure, HandsTo(s, b, w), HandsTo(t, b, NoEnclosure) PROVE HandsTo(s \o t, b, w)
  <2>1. /\ Messages(s \o t)
        /\ \A V : Fair(V) => LinkWorth(V, s \o t) = V[b][w] + V[b][NoEnclosure] /\ V[b][w] \in Int /\ V[b][NoEnclosure] = 0
    BY <1>4, <1>5, <1>7
  <2>2. \A V : Fair(V) => LinkWorth(V, s \o t) = V[b][w]
    BY <2>1
  <2> QED BY <2>1, <2>2 DEF HandsTo
<1> QED BY <1>1, <1>2, <1>3, <1>6, <1>7

\* The house takes what b handed over, sends letters, and hands something back.
LEMMA WorthMoves ==
    ASSUME Typical, NEW V, Fair(V), NEW b \in Somebody, NEW taken \in Enclosure, NEW given \in Enclosure,
           NEW mails, Parcels(mails), SendMails(mails),
           \/ toChar' = toChar /\ taken = NoEnclosure
           \/ toChar # << >> /\ toChar' = Tail(toChar) /\ Head(toChar).p = b /\ Handed(Head(toChar)) = taken,
           \/ toMap' = toMap /\ given = NoEnclosure
           \/ \E msgs : HandsTo(msgs, b, given) /\ Answer(msgs)
    PROVE  /\ RowsWorth(V, rows') + LinkWorth(V, toChar') + LinkWorth(V, toMap')
                = RowsWorth(V, rows) + LinkWorth(V, toChar) + LinkWorth(V, toMap)
                    + RowsWorth(V, mails) - V[b][taken] + V[b][given]
           /\ RowsWorth(V, rows) + LinkWorth(V, toChar) + LinkWorth(V, toMap) \in Int
           /\ RowsWorth(V, mails) \in Int /\ V[b][taken] \in Int /\ V[b][given] \in Int
<1>1. Valuation(V) /\ V[b][taken] \in Int /\ V[b][given] \in Int /\ V[b][NoEnclosure] = 0
  BY DEF Fair, Valuation
<1>2. RowsWorth(V, rows') = RowsWorth(V, rows) + RowsWorth(V, mails)
  <2>1. PICK new : /\ new = rows'
                   /\ new = WithMails(rows, nextMail, mails)
    BY DEF SendMails, WithMails
  <2>2. Table(rows) /\ nextMail \in Nat /\ \A i \in DOMAIN rows : i \in Nat /\ i < nextMail
    BY DEF Typical
  <2>3. RowsWorth(V, new) = RowsWorth(V, rows) + RowsWorth(V, mails)
    BY <1>1, <2>1, <2>2, WorthOfMails
  <2> QED BY <2>1, <2>3
<1>3. LinkWorth(V, toChar') = LinkWorth(V, toChar) - V[b][taken] /\ LinkWorth(V, toChar) \in Int
  <2>1. LinkWorth(V, toChar) \in Int
    BY <1>1, WorthsInt DEF Typical
  <2>2. CASE toChar' = toChar /\ taken = NoEnclosure
    BY <1>1, <2>1, <2>2
  <2>3. CASE toChar # << >> /\ toChar' = Tail(toChar) /\ Head(toChar).p = b /\ Handed(Head(toChar)) = taken
    <3>1. LinkWorth(V, toChar) = V[b][taken] + LinkWorth(V, Tail(toChar)) /\ Messages(Tail(toChar))
      BY <1>1, <2>3, WorthOfTail DEF Typical
    <3>2. LinkWorth(V, Tail(toChar)) \in Int
      BY <1>1, <3>1, WorthsInt
    <3> QED BY <1>1, <2>1, <2>3, <3>1, <3>2
  <2> QED BY <2>2, <2>3
<1>4. LinkWorth(V, toMap') = LinkWorth(V, toMap) + V[b][given] /\ LinkWorth(V, toMap) \in Int
  <2>1. LinkWorth(V, toMap) \in Int
    BY <1>1, WorthsInt DEF Typical
  <2>2. CASE toMap' = toMap /\ given = NoEnclosure
    BY <1>1, <2>1, <2>2
  <2>3. ASSUME NEW msgs, HandsTo(msgs, b, given), Answer(msgs) PROVE LinkWorth(V, toMap') = LinkWorth(V, toMap) + V[b][given]
    <3>1. Messages(msgs) /\ LinkWorth(V, msgs) = V[b][given] /\ toMap' = toMap \o msgs
      BY <2>3 DEF HandsTo, Answer
    <3>2. LinkWorth(V, toMap \o msgs) = LinkWorth(V, toMap) + LinkWorth(V, msgs)
      BY <1>1, <3>1, WorthsOfLinksJoined DEF Typical
    <3> QED BY <3>1, <3>2
  <2> QED BY <2>1, <2>2, <2>3
<1>5. RowsWorth(V, rows) \in Int /\ RowsWorth(V, mails) \in Int
  <2>1. Table(mails)
    <3>1. PICK n \in Nat : DOMAIN mails = 1..n
      BY DEF Parcels, IsSeq
    <3>2. IsFiniteSet(1..n)
      BY FS_Interval
    <3> QED BY <3>1, <3>2 DEF Table, Parcels, Somebody
  <2> QED BY <1>1, <2>1, WorthsInt DEF Typical
<1>6. PICK a \in Int : a = RowsWorth(V, rows)
  BY <1>5
<1>7. PICK c \in Int : c = LinkWorth(V, toChar)
  BY <1>3
<1>8. PICK d \in Int : d = LinkWorth(V, toMap)
  BY <1>4
<1>9. PICK m \in Int : m = RowsWorth(V, mails)
  BY <1>5
<1>10. PICK k \in Int : k = V[b][taken]
  BY <1>1
<1>11. PICK g \in Int : g = V[b][given]
  BY <1>1
<1>12. /\ RowsWorth(V, rows') = a + m /\ LinkWorth(V, toChar') = c - k /\ LinkWorth(V, toMap') = d + g
  BY <1>2, <1>3, <1>4, <1>6, <1>7, <1>8, <1>9, <1>10, <1>11
<1>13. (a + m) + (c - k) + (d + g) = a + c + d + m - k + g /\ a + c + d \in Int
  OBVIOUS
<1> QED BY <1>6, <1>7, <1>8, <1>9, <1>10, <1>11, <1>12, <1>13

LEMMA HouseSettles ==
    ASSUME Typical, Typical', sd' = sd, NEW b \in Somebody, NEW taken \in Enclosure, NEW given \in Enclosure,
           NEW mails, Parcels(mails), SendMails(mails),
           \/ toChar' = toChar /\ taken = NoEnclosure
           \/ toChar # << >> /\ toChar' = Tail(toChar) /\ Head(toChar).p = b /\ Handed(Head(toChar)) = taken,
           \/ toMap' = toMap /\ given = NoEnclosure
           \/ \E msgs : HandsTo(msgs, b, given) /\ Answer(msgs),
           NEW p \in Player, NEW item, NEW led \in Int, NEW sold \in Int,
           HouseWorth(LeadsFor(p), auctions') = HouseWorth(LeadsFor(p), auctions) + led,
           HouseWorth(SellsFor(p, item), auctions') = HouseWorth(SellsFor(p, item), auctions) + sold
    PROVE  /\ Purse(p)' = Purse(p) + (RowsWorth(ZenyFor(p), mails) - ZenyFor(p)[b][taken] + ZenyFor(p)[b][given] + led)
           /\ Goods(p, item)' = Goods(p, item) + (RowsWorth(UnitsFor(p, item), mails) - UnitsFor(p, item)[b][taken]
                                                    + UnitsFor(p, item)[b][given] + sold)
           /\ Purse(p) \in Int /\ Goods(p, item) \in Int
<1>1. Fair(ZenyFor(p)) /\ Fair(UnitsFor(p, item))
  BY ValuationsAre DEF Fair
<1>2. HouseWorth(LeadsFor(p), auctions) \in Int /\ HouseWorth(SellsFor(p, item), auctions) \in Int
  BY ValuationsAre, HouseWorthChanges DEF Typical
<1>3. sd[p].zeny \in Nat /\ UnitsOf(sd[p].inv, item) \in Nat
  BY UnitsOfIs, SlotAssumption DEF Typical
<1>4. UnitsOf(sd[p].inv, item)' = UnitsOf(sd[p].inv, item) /\ sd'[p].zeny = sd[p].zeny
  BY DEF UnitsOf, Holding, MapThenSumSet, MapThenFoldSet
<1>5. ASSUME NEW V, Fair(V), NEW house \in Int, NEW dh \in Int, NEW z \in Nat
      PROVE  /\ z + (RowsWorth(V, rows') + LinkWorth(V, toChar') + LinkWorth(V, toMap') + (house + dh))
                  = z + (RowsWorth(V, rows) + LinkWorth(V, toChar) + LinkWorth(V, toMap) + house)
                      + (RowsWorth(V, mails) - V[b][taken] + V[b][given] + dh)
             /\ z + (RowsWorth(V, rows) + LinkWorth(V, toChar) + LinkWorth(V, toMap) + house) \in Int
  <2> DEFINE old == RowsWorth(V, rows) + LinkWorth(V, toChar) + LinkWorth(V, toMap)
             new == RowsWorth(V, rows') + LinkWorth(V, toChar') + LinkWorth(V, toMap')
             m == RowsWorth(V, mails)
             k == V[b][taken]
             g == V[b][given]
  <2>1. new = old + m - k + g /\ old \in Int /\ m \in Int /\ k \in Int /\ g \in Int
    BY <1>5, WorthMoves
  <2> HIDE DEF old, new, m, k, g
  <2>2. z + (new + (house + dh)) = z + (old + house) + (m - k + g + dh) /\ z + (old + house) \in Int
    BY <2>1
  <2> QED BY <2>2 DEF old, new, m, k, g
<1>6. /\ Purse(p) = sd[p].zeny + ZenyAround(p) /\ Purse(p)' = sd[p].zeny + ZenyAround(p)'
      /\ Goods(p, item) = UnitsOf(sd[p].inv, item) + UnitsAround(p, item)
      /\ Goods(p, item)' = UnitsOf(sd[p].inv, item) + UnitsAround(p, item)'
  BY <1>4, PurseAndGoods
<1>7. /\ ZenyAround(p) = RowsWorth(ZenyFor(p), rows) + LinkWorth(ZenyFor(p), toChar)
                           + LinkWorth(ZenyFor(p), toMap) + HouseWorth(LeadsFor(p), auctions)
      /\ UnitsAround(p, item) = RowsWorth(UnitsFor(p, item), rows) + LinkWorth(UnitsFor(p, item), toChar)
                           + LinkWorth(UnitsFor(p, item), toMap) + HouseWorth(SellsFor(p, item), auctions)
  BY DEF ZenyAround, UnitsAround
<1>8. /\ ZenyAround(p)' = RowsWorth(ZenyFor(p), rows') + LinkWorth(ZenyFor(p), toChar')
                                 + LinkWorth(ZenyFor(p), toMap') + (HouseWorth(LeadsFor(p), auctions) + led)
      /\ UnitsAround(p, item)' = RowsWorth(UnitsFor(p, item), rows') + LinkWorth(UnitsFor(p, item), toChar')
                                        + LinkWorth(UnitsFor(p, item), toMap') + (HouseWorth(SellsFor(p, item), auctions) + sold)
  BY AroundNext
<1>9. PICK hl \in Int : hl = HouseWorth(LeadsFor(p), auctions)
  BY <1>2
<1>10. PICK hs \in Int : hs = HouseWorth(SellsFor(p, item), auctions)
  BY <1>2
<1>11. PICK z \in Nat : z = sd[p].zeny
  BY <1>3
<1>12. PICK u \in Nat : u = UnitsOf(sd[p].inv, item)
  BY <1>3
<1>13. Purse(p)' = Purse(p) + (RowsWorth(ZenyFor(p), mails) - ZenyFor(p)[b][taken] + ZenyFor(p)[b][given] + led)
       /\ Purse(p) \in Int
  BY <1>1, <1>5, <1>6, <1>7, <1>8, <1>9, <1>11
<1>14. Goods(p, item)' = Goods(p, item) + (RowsWorth(UnitsFor(p, item), mails) - UnitsFor(p, item)[b][taken]
                                                    + UnitsFor(p, item)[b][given] + sold)
       /\ Goods(p, item) \in Int
  BY <1>1, <1>5, <1>6, <1>7, <1>8, <1>10, <1>12
<1> QED BY <1>13, <1>14

\* Letters with a ware, and with zeny, and how many of each somebody gets.
LEMMA ParcelsWorth ==
    ASSUME NEW p \in Player, NEW item \in Item
    PROVE  /\ \A x \in Player, z \in 0..MaxZeny :
                /\ ZenyFor(p)[x][Zeny(z)] = (IF x = p THEN z ELSE 0) /\ UnitsFor(p, item)[x][Zeny(z)] = 0
           /\ \A x \in Player : ZenyFor(p)[x][Ware(item)] = 0 /\ UnitsFor(p, item)[x][Ware(item)] = (IF x = p THEN 1 ELSE 0)
           /\ \A x \in Player : ZenyFor(p)[x][NoEnclosure] = 0 /\ UnitsFor(p, item)[x][NoEnclosure] = 0
<1>1. /\ \A z \in 0..MaxZeny : Zeny(z) \in Enclosure /\ Zeny(z).zeny = z /\ Zeny(z).item = NoItem /\ Zeny(z).amount = 0
      /\ Ware(item) \in Enclosure /\ Ware(item).zeny = 0 /\ Ware(item).item = item /\ Ware(item).amount = 1
  BY WaresAre DEF Zeny, Ware, NoEnclosure
<1>2. \A x \in Player : x \in Somebody
  BY DEF Somebody
<1>3. \A x \in Player : ZenyFor(p)[x][NoEnclosure] = 0 /\ UnitsFor(p, item)[x][NoEnclosure] = 0
  BY <1>2, ValuationsAre
<1> QED BY <1>1, <1>2, <1>3 DEF ZenyFor, UnitsFor

LEMMA OneMail ==
    ASSUME NEW V, Fair(V), NEW x \in Player, NEW v \in Enclosure
    PROVE  RowsWorth(V, <<To(x, v)>>) = V[x][v] /\ Parcels(<<To(x, v)>>)
<1>1. To(x, v).to = x /\ To(x, v).with = v
  BY DEF To
<1>2. x \in Somebody /\ Valuation(V)
  BY DEF Somebody, Fair
<1>3. RowsWorth(V, <<To(x, v)>>) = V[x][v]
  BY <1>1, <1>2, WorthOfOne
<1>4. Parcels(<<To(x, v)>>)
  BY <1>1, ParcelsAre
<1> QED BY <1>3, <1>4

LEMMA TwoMails ==
    ASSUME NEW V, Fair(V), NEW x \in Player, NEW y \in Player, NEW v \in Enclosure, NEW w \in Enclosure
    PROVE  RowsWorth(V, <<To(x, v), To(y, w)>>) = V[x][v] + V[y][w] /\ Parcels(<<To(x, v), To(y, w)>>)
<1>1. \A z, u : To(z, u).to = z /\ To(z, u).with = u
  BY DEF To
<1>2. Valuation(V)
  BY DEF Fair
<1>3. RowsWorth(V, <<To(x, v)>>) = V[x][v] /\ Parcels(<<To(x, v)>>)
  BY OneMail
<1>4. RowsWorth(V, <<To(y, w)>>) = V[y][w] /\ Parcels(<<To(y, w)>>)
  BY OneMail
<1>5. <<To(x, v), To(y, w)>> = <<To(x, v)>> \o <<To(y, w)>>
  OBVIOUS
<1>6. RowsWorth(V, <<To(x, v)>> \o <<To(y, w)>>) = RowsWorth(V, <<To(x, v)>>) + RowsWorth(V, <<To(y, w)>>)
  BY <1>2, <1>3, <1>4, WorthsOfMailsJoined
<1>7. Parcels(<<To(x, v), To(y, w)>>)
  BY <1>1, ParcelsAre
<1> QED BY <1>3, <1>4, <1>5, <1>6, <1>7

\* An auction leaves the house, or changes hands.
Raised(aus, id, b, bid) == [aus EXCEPT ![id].buyer = b, ![id].price = bid]

LEMMA HouseAfter ==
    ASSUME Typical, Typical', NEW id \in DOMAIN auctions, NEW p \in Player
    PROVE  /\ auctions' = Without(auctions, id) =>
                /\ HouseWorth(LeadsFor(p), auctions')
                     = HouseWorth(LeadsFor(p), auctions) + (IF auctions[id].buyer = p THEN -auctions[id].price ELSE 0)
                /\ HouseWorth(SellsFor(p, auctions[id].item), auctions')
                     = HouseWorth(SellsFor(p, auctions[id].item), auctions) + (IF auctions[id].seller = p THEN -1 ELSE 0)
           /\ \A b \in Player, bid \in Nat :
                auctions' = Raised(auctions, id, b, bid) =>
                /\ HouseWorth(LeadsFor(p), auctions')
                     = HouseWorth(LeadsFor(p), auctions) + (IF auctions[id].buyer = p THEN -auctions[id].price ELSE 0)
                         + (IF b = p THEN bid ELSE 0)
                /\ HouseWorth(SellsFor(p, auctions[id].item), auctions')
                     = HouseWorth(SellsFor(p, auctions[id].item), auctions)
<1> DEFINE a == auctions[id]
           L == LeadsFor(p)
           S == SellsFor(p, auctions[id].item)
<1>1. House(auctions) /\ House(auctions')
  BY DEF Typical, House, GoingOn, Auctions
<1>2. a \in GoingOn /\ a.price \in Nat
  BY <1>1, AuctionsAre DEF House
<1>3. (\A x \in GoingOn : L[x] \in Int) /\ \A x \in GoingOn : S[x] \in Int
  BY ValuationsAre
<1>4. L[a] = (IF a.buyer = p THEN a.price ELSE 0) /\ S[a] = IF a.seller = p THEN 1 ELSE 0
  BY <1>2 DEF LeadsFor, SellsFor
<1> HIDE DEF a, L, S
<1>5. ASSUME NEW A, \A x \in GoingOn : A[x] \in Int,
             \A i \in DOMAIN auctions \ {id} : i \in DOMAIN auctions' /\ auctions'[i] = auctions[i],
             \A i \in DOMAIN auctions' \ {id} : i \in DOMAIN auctions
      PROVE  /\ HouseWorth(A, auctions') = HouseWorth(A, auctions) - A[a] + (IF id \in DOMAIN auctions' THEN A[auctions'[id]] ELSE 0)
             /\ HouseWorth(A, auctions) \in Int /\ A[a] \in Int
             /\ id \in DOMAIN auctions' => A[auctions'[id]] \in Int
  <2>1. /\ HouseWorth(A, auctions') - (IF id \in DOMAIN auctions' THEN A[auctions'[id]] ELSE 0) = HouseWorth(A, auctions) - A[a]
        /\ HouseWorth(A, auctions) \in Int /\ HouseWorth(A, auctions') \in Int
    BY <1>1, <1>5, HouseWorthChanges DEF a
  <2>2. A[a] \in Int /\ (id \in DOMAIN auctions' => A[auctions'[id]] \in Int)
    BY <1>1, <1>2, <1>5 DEF House
  <2>3. PICK n : n = IF id \in DOMAIN auctions' THEN A[auctions'[id]] ELSE 0
    OBVIOUS
  <2>4. n \in Int
    BY <2>2, <2>3
  <2>5. HouseWorth(A, auctions') = HouseWorth(A, auctions) - A[a] + n
    BY <2>1, <2>2, <2>3, <2>4
  <2> QED BY <2>1, <2>2, <2>3, <2>5
<1>6. ASSUME auctions' = Without(auctions, id)
      PROVE  /\ HouseWorth(L, auctions') = HouseWorth(L, auctions) + (IF a.buyer = p THEN -a.price ELSE 0)
             /\ HouseWorth(S, auctions') = HouseWorth(S, auctions) + (IF a.seller = p THEN -1 ELSE 0)
  <2>1. /\ \A i \in DOMAIN auctions \ {id} : i \in DOMAIN auctions' /\ auctions'[i] = auctions[i]
        /\ \A i \in DOMAIN auctions' \ {id} : i \in DOMAIN auctions
        /\ id \notin DOMAIN auctions'
    BY <1>6 DEF Without
  <2>2. /\ HouseWorth(L, auctions') = HouseWorth(L, auctions) - L[a] + 0 /\ HouseWorth(L, auctions) \in Int
        /\ HouseWorth(S, auctions') = HouseWorth(S, auctions) - S[a] + 0 /\ HouseWorth(S, auctions) \in Int
    BY <1>3, <1>5, <2>1
  <2> QED BY <1>2, <1>4, <2>2
<1>7. ASSUME NEW b \in Player, NEW bid \in Nat, auctions' = Raised(auctions, id, b, bid)
      PROVE  /\ HouseWorth(L, auctions') = HouseWorth(L, auctions) + (IF a.buyer = p THEN -a.price ELSE 0)
                                             + (IF b = p THEN bid ELSE 0)
             /\ HouseWorth(S, auctions') = HouseWorth(S, auctions)
  <2>1. /\ \A i \in DOMAIN auctions \ {id} : i \in DOMAIN auctions' /\ auctions'[i] = auctions[i]
        /\ \A i \in DOMAIN auctions' \ {id} : i \in DOMAIN auctions
        /\ id \in DOMAIN auctions'
    BY <1>7 DEF Raised
  <2>2. auctions'[id] \in GoingOn
    BY <1>1, <2>1 DEF House
  <2>3. PICK n \in GoingOn : n = auctions'[id]
    BY <2>2
  <2>4. n.buyer = b /\ n.price = bid /\ n.seller = a.seller /\ n.item = a.item
    <3>1. a = [seller |-> a.seller, buyer |-> a.buyer, item |-> a.item, price |-> a.price, buynow |-> a.buynow]
      BY <1>2 DEF GoingOn, Auctions
    <3>2. n = [a EXCEPT !.buyer = b, !.price = bid]
      BY <1>7, <2>3 DEF a, Raised
    <3> QED BY <3>1, <3>2
  <2>5. L[n] = (IF b = p THEN bid ELSE 0) /\ S[n] = S[a]
    BY <1>2, <2>4 DEF L, S, a, LeadsFor, SellsFor
  <2>6. /\ HouseWorth(L, auctions') = HouseWorth(L, auctions) - L[a] + L[n] /\ HouseWorth(L, auctions) \in Int
        /\ HouseWorth(S, auctions') = HouseWorth(S, auctions) - S[a] + S[n] /\ HouseWorth(S, auctions) \in Int
        /\ S[a] \in Int
    BY <1>3, <1>5, <2>1, <2>3
  <2>7. HouseWorth(S, auctions') = HouseWorth(S, auctions)
    BY <2>5, <2>6
  <2> QED BY <1>2, <1>4, <2>5, <2>6, <2>7
<1> QED BY <1>6, <1>7 DEF a, L, S

LEMMA SaleIs ==
    ASSUME NEW a \in GoingOn, NEW b \in Player, b # a.seller, NEW price \in Nat,
           \A p \in Player : /\ Purse(p) \in Int /\ Goods(p, a.item) \in Int
                             /\ Purse(p)' = Purse(p) + ((IF p = a.seller THEN price ELSE 0) - (IF p = b THEN price ELSE 0))
                             /\ Goods(p, a.item)' = Goods(p, a.item) + ((IF p = b THEN 1 ELSE 0) - (IF p = a.seller THEN 1 ELSE 0))
    PROVE  Sale(a, b, price)
<1>1. a.seller \in Player
  BY AuctionsAre
<1>2. Purse(b)' = Purse(b) - price /\ Goods(b, a.item)' = Goods(b, a.item) + 1
  BY <1>1
<1>3. Purse(a.seller)' = Purse(a.seller) + price /\ Goods(a.seller, a.item)' = Goods(a.seller, a.item) - 1
  <2>1. PICK s \in Player : s = a.seller
    BY <1>1
  <2>2. Purse(s)' = Purse(s) + price /\ Goods(s, a.item)' = Goods(s, a.item) - 1
    BY <2>1
  <2> QED BY <2>1, <2>2
<1>4. ASSUME NEW p \in Player \ {b, a.seller} PROVE Purse(p)' = Purse(p) /\ Goods(p, a.item)' = Goods(p, a.item)
  <2>1. /\ Purse(p)' = Purse(p) + (0 - 0) /\ Goods(p, a.item)' = Goods(p, a.item) + (0 - 0)
        /\ Purse(p) \in Int /\ Goods(p, a.item) \in Int
    OBVIOUS
  <2> QED BY <2>1
<1> QED BY <1>2, <1>3, <1>4 DEF Sale, Keep

LEMMA KeepIs ==
    ASSUME NEW item,
           \A p \in Player : /\ Purse(p) \in Int /\ Goods(p, item) \in Int
                             /\ Purse(p)' = Purse(p) + 0 /\ Goods(p, item)' = Goods(p, item) + 0
    PROVE  Keep(Player, item)
BY DEF Keep

\* The link as it is when nobody hands anything over.
Idle(b) == toChar' = toChar \/ (toChar # << >> /\ toChar' = Tail(toChar) /\ Head(toChar).p = b /\ Handed(Head(toChar)) = NoEnclosure)

LEMMA AuctionEnds ==
    ASSUME Typical, Typical', sd' = sd, NEW b \in Somebody, Idle(b),
           toMap' = toMap \/ \E msgs : HandsTo(msgs, b, NoEnclosure) /\ Answer(msgs),
           NEW id \in DOMAIN auctions, auctions' = Without(auctions, id), NEW a, a = auctions[id],
           NEW mails, SendMails(mails),
           \/ mails = EndMails(a)
           \/ a.buyer # NoPlayer /\ mails = <<To(a.seller, Zeny(a.price)), To(a.buyer, Ware(a.item))>>
    PROVE  /\ a.buyer = NoPlayer => Keep(Player, a.item)
           /\ a.buyer # NoPlayer => Sale(a, a.buyer, a.price)
<1>1. a \in GoingOn
  BY DEF Typical, House
<1>2. /\ a.seller \in Player /\ a.buyer \in Player \union {NoPlayer} /\ a.item \in Item /\ a.buyer # a.seller
      /\ a.price \in 0..MaxZeny /\ a.price \in Nat
      /\ Ware(a.item) \in Enclosure /\ Zeny(a.price) \in Enclosure /\ NoEnclosure \in Enclosure
  BY <1>1, AuctionsAre, WaresAre, EnclosuresAre
<1>3. \A p \in Player : Fair(ZenyFor(p)) /\ Fair(UnitsFor(p, a.item))
  BY ValuationsAre DEF Fair
<1>4. /\ Parcels(mails)
      /\ a.buyer = NoPlayer => \A V : Fair(V) => RowsWorth(V, mails) = V[a.seller][Ware(a.item)]
      /\ a.buyer # NoPlayer =>
            \A V : Fair(V) => \/ RowsWorth(V, mails) = V[a.buyer][Ware(a.item)] + V[a.seller][Zeny(a.price)]
                              \/ RowsWorth(V, mails) = V[a.seller][Zeny(a.price)] + V[a.buyer][Ware(a.item)]
  <2>1. PICK s \in Player : s = a.seller
    BY <1>2
  <2>2. PICK w \in Enclosure : w = Ware(a.item)
    BY <1>2
  <2>3. PICK z \in Enclosure : z = Zeny(a.price)
    BY <1>2
  <2>4. Fair(ZenyFor(s))
    BY <1>3
  <2>5. CASE a.buyer = NoPlayer
    <3>1. mails = <<To(s, w)>>
      BY <2>1, <2>2, <2>5 DEF EndMails
    <3>2. ASSUME NEW V, Fair(V) PROVE RowsWorth(V, <<To(s, w)>>) = V[s][w] /\ Parcels(<<To(s, w)>>)
      BY <2>1, <2>2, <3>2, OneMail
    <3> QED BY <2>1, <2>2, <2>4, <2>5, <3>1, <3>2
  <2>6. CASE a.buyer # NoPlayer
    <3>1. PICK y \in Player : y = a.buyer
      BY <1>2, <2>6
    <3>2. mails = <<To(y, w), To(s, z)>> \/ mails = <<To(s, z), To(y, w)>>
      BY <2>1, <2>2, <2>3, <2>6, <3>1 DEF EndMails
    <3>3. ASSUME NEW V, Fair(V)
          PROVE  RowsWorth(V, <<To(y, w), To(s, z)>>) = V[y][w] + V[s][z] /\ Parcels(<<To(y, w), To(s, z)>>)
      BY <2>1, <2>2, <2>3, <3>1, <3>3, TwoMails
    <3>4. ASSUME NEW V, Fair(V)
          PROVE  RowsWorth(V, <<To(s, z), To(y, w)>>) = V[s][z] + V[y][w] /\ Parcels(<<To(s, z), To(y, w)>>)
      BY <2>1, <2>2, <2>3, <3>1, <3>4, TwoMails
    <3>5. CASE mails = <<To(y, w), To(s, z)>>
      <4>1. Parcels(mails) /\ \A V : Fair(V) => RowsWorth(V, mails) = V[y][w] + V[s][z]
        BY <2>4, <3>3, <3>5
      <4> QED BY <2>1, <2>2, <2>3, <2>6, <3>1, <4>1
    <3>6. CASE mails = <<To(s, z), To(y, w)>>
      <4>1. Parcels(mails) /\ \A V : Fair(V) => RowsWorth(V, mails) = V[s][z] + V[y][w]
        BY <2>4, <3>4, <3>6
      <4> QED BY <2>1, <2>2, <2>3, <2>6, <3>1, <4>1
    <3> QED BY <3>2, <3>5, <3>6
  <2> QED BY <2>5, <2>6
<1>5. ASSUME NEW p \in Player
      PROVE  /\ Purse(p)' = Purse(p) + (RowsWorth(ZenyFor(p), mails) + (IF a.buyer = p THEN -a.price ELSE 0))
             /\ Goods(p, a.item)' = Goods(p, a.item) + (RowsWorth(UnitsFor(p, a.item), mails) + (IF a.seller = p THEN -1 ELSE 0))
             /\ Purse(p) \in Int /\ Goods(p, a.item) \in Int
             /\ RowsWorth(ZenyFor(p), mails) \in Int /\ RowsWorth(UnitsFor(p, a.item), mails) \in Int
  <2>1. PICK led : led = IF a.buyer = p THEN -a.price ELSE 0
    OBVIOUS
  <2>2. PICK sold : sold = IF a.seller = p THEN -1 ELSE 0
    OBVIOUS
  <2>3. led \in Int /\ sold \in Int
    BY <1>2, <2>1, <2>2
  <2>4. /\ HouseWorth(LeadsFor(p), auctions') = HouseWorth(LeadsFor(p), auctions) + led
        /\ HouseWorth(SellsFor(p, a.item), auctions') = HouseWorth(SellsFor(p, a.item), auctions) + sold
    BY <2>1, <2>2, HouseAfter
  <2>5. ZenyFor(p)[b][NoEnclosure] = 0 /\ UnitsFor(p, a.item)[b][NoEnclosure] = 0
    BY ValuationsAre
  <2>6. RowsWorth(ZenyFor(p), mails) \in Int /\ RowsWorth(UnitsFor(p, a.item), mails) \in Int
    <3>1. (toChar' = toChar /\ NoEnclosure = NoEnclosure) \/ (toChar # << >> /\ toChar' = Tail(toChar) /\ Head(toChar).p = b /\ Handed(Head(toChar)) = NoEnclosure)
      BY DEF Idle
    <3> QED BY <1>2, <1>3, <1>4, <3>1, WorthMoves
  <2>7. /\ Purse(p)' = Purse(p) + (RowsWorth(ZenyFor(p), mails) - ZenyFor(p)[b][NoEnclosure] + ZenyFor(p)[b][NoEnclosure] + led)
        /\ Goods(p, a.item)' = Goods(p, a.item) + (RowsWorth(UnitsFor(p, a.item), mails) - UnitsFor(p, a.item)[b][NoEnclosure]
                                                    + UnitsFor(p, a.item)[b][NoEnclosure] + sold)
        /\ Purse(p) \in Int /\ Goods(p, a.item) \in Int
    BY <1>2, <1>4, <2>3, <2>4, HouseSettles DEF Idle
  <2>8. /\ Purse(p)' = Purse(p) + (RowsWorth(ZenyFor(p), mails) + led)
        /\ Goods(p, a.item)' = Goods(p, a.item) + (RowsWorth(UnitsFor(p, a.item), mails) + sold)
    BY <2>3, <2>5, <2>6, <2>7
  <2> QED BY <2>1, <2>2, <2>6, <2>7, <2>8
<1>6. ASSUME a.buyer = NoPlayer PROVE Keep(Player, a.item)
  <2>2. \A p \in Player : /\ RowsWorth(ZenyFor(p), mails) = ZenyFor(p)[a.seller][Ware(a.item)]
                          /\ RowsWorth(UnitsFor(p, a.item), mails) = UnitsFor(p, a.item)[a.seller][Ware(a.item)]
    BY <1>3, <1>4, <1>6
  <2>3. \A p \in Player : RowsWorth(ZenyFor(p), mails) = 0 /\ RowsWorth(UnitsFor(p, a.item), mails) = IF a.seller = p THEN 1 ELSE 0
    BY <1>2, <2>2, ParcelsWorth
  <2>4. \A p \in Player : a.buyer # p
    BY <1>6, NoPlayerAssumption
  <2>5. ASSUME NEW p \in Player
        PROVE  Purse(p) \in Int /\ Goods(p, a.item) \in Int /\ Purse(p)' = Purse(p) + 0 /\ Goods(p, a.item)' = Goods(p, a.item) + 0
    <3>1. Purse(p)' = Purse(p) + (0 + 0) /\ Purse(p) \in Int
      BY <1>5, <2>3, <2>4
    <3>2. Goods(p, a.item)' = Goods(p, a.item) + ((IF a.seller = p THEN 1 ELSE 0) + (IF a.seller = p THEN -1 ELSE 0)) /\ Goods(p, a.item) \in Int
      BY <1>5, <2>3
    <3> QED BY <3>1, <3>2
  <2> QED BY <2>5, KeepIs
<1>7. ASSUME a.buyer # NoPlayer PROVE Sale(a, a.buyer, a.price)
  <2>1. a.buyer \in Player
    BY <1>2, <1>7
  <2>3. ASSUME NEW p \in Player
        PROVE  /\ RowsWorth(ZenyFor(p), mails) = (IF a.seller = p THEN a.price ELSE 0)
               /\ RowsWorth(UnitsFor(p, a.item), mails) = IF a.buyer = p THEN 1 ELSE 0
    <3>1. /\ ZenyFor(p)[a.buyer][Ware(a.item)] = 0 /\ UnitsFor(p, a.item)[a.buyer][Ware(a.item)] = (IF a.buyer = p THEN 1 ELSE 0)
          /\ ZenyFor(p)[a.seller][Zeny(a.price)] = (IF a.seller = p THEN a.price ELSE 0)
          /\ UnitsFor(p, a.item)[a.seller][Zeny(a.price)] = 0
      BY <1>2, <2>1, ParcelsWorth
    <3>2. \A V : Fair(V) => \/ RowsWorth(V, mails) = V[a.buyer][Ware(a.item)] + V[a.seller][Zeny(a.price)]
                            \/ RowsWorth(V, mails) = V[a.seller][Zeny(a.price)] + V[a.buyer][Ware(a.item)]
      BY <1>4, <1>7
    <3> QED BY <1>2, <1>3, <3>1, <3>2
  <2>4. ASSUME NEW p \in Player
        PROVE  /\ Purse(p) \in Int /\ Goods(p, a.item) \in Int
               /\ Purse(p)' = Purse(p) + ((IF p = a.seller THEN a.price ELSE 0) - (IF p = a.buyer THEN a.price ELSE 0))
               /\ Goods(p, a.item)' = Goods(p, a.item) + ((IF p = a.buyer THEN 1 ELSE 0) - (IF p = a.seller THEN 1 ELSE 0))
    BY <1>2, <1>5, <2>3
  <2> QED BY <1>1, <1>2, <2>1, <2>4, SaleIs
<1> QED BY <1>6, <1>7


\* What goes to who is outbid, and to the two of a sale.
LEMMA OutbidWorth ==
    ASSUME NEW a \in GoingOn, NEW p \in Player, NEW item \in Item
    PROVE  /\ Parcels(Outbid(a))
           /\ RowsWorth(ZenyFor(p), Outbid(a)) = (IF a.buyer = p THEN a.price ELSE 0)
           /\ RowsWorth(UnitsFor(p, item), Outbid(a)) = 0
<1>1. a.buyer \in Player \union {NoPlayer} /\ a.price \in 0..MaxZeny /\ Zeny(a.price) \in Enclosure
  BY AuctionsAre, WaresAre
<1>2. Fair(ZenyFor(p)) /\ Fair(UnitsFor(p, item))
  BY ValuationsAre DEF Fair
<1>3. CASE a.buyer = NoPlayer
  <2>1. Outbid(a) = << >> /\ a.buyer # p
    BY <1>3, NoPlayerAssumption DEF Outbid
  <2>2. Parcels(<< >>)
    BY ParcelsAre
  <2>3. RowsWorth(ZenyFor(p), << >>) = 0 /\ RowsWorth(UnitsFor(p, item), << >>) = 0
    BY <1>2, WorthOfOne DEF Fair
  <2> QED BY <2>1, <2>2, <2>3
<1>4. CASE a.buyer # NoPlayer
  <2>1. PICK y \in Player : y = a.buyer
    BY <1>1, <1>4
  <2>2. PICK z \in Enclosure : z = Zeny(a.price)
    BY <1>1
  <2>3. Outbid(a) = <<To(y, z)>>
    BY <1>4, <2>1, <2>2 DEF Outbid
  <2>4. ASSUME NEW V, Fair(V) PROVE RowsWorth(V, <<To(y, z)>>) = V[y][z] /\ Parcels(<<To(y, z)>>)
    BY <2>1, <2>2, <2>4, OneMail
  <2>5. ZenyFor(p)[y][z] = (IF y = p THEN a.price ELSE 0) /\ UnitsFor(p, item)[y][z] = 0
    BY <1>1, <2>2, ParcelsWorth
  <2> QED BY <1>2, <2>1, <2>3, <2>4, <2>5
<1> QED BY <1>3, <1>4

LEMMA SoldWorth ==
    ASSUME NEW a \in GoingOn, NEW b \in Player, NEW p \in Player,
           NEW sold, sold = <<To(b, Ware(a.item)), To(a.seller, Zeny(a.buynow))>>
    PROVE  /\ Parcels(sold)
           /\ RowsWorth(ZenyFor(p), sold) = (IF a.seller = p THEN a.buynow ELSE 0)
           /\ RowsWorth(UnitsFor(p, a.item), sold) = (IF b = p THEN 1 ELSE 0)
<1>1. /\ a.seller \in Player /\ a.item \in Item /\ a.buynow \in 0..MaxZeny /\ a.buynow \in Nat
      /\ Zeny(a.buynow) \in Enclosure /\ Ware(a.item) \in Enclosure
  BY AuctionsAre, WaresAre
<1>2. Fair(ZenyFor(p)) /\ Fair(UnitsFor(p, a.item))
  BY ValuationsAre DEF Fair
<1>3. PICK s \in Player : s = a.seller
  BY <1>1
<1>4. PICK w \in Enclosure : w = Ware(a.item)
  BY <1>1
<1>5. PICK z \in Enclosure : z = Zeny(a.buynow)
  BY <1>1
<1>6. sold = <<To(b, w), To(s, z)>>
  BY <1>3, <1>4, <1>5
<1>7. ASSUME NEW V, Fair(V)
      PROVE  RowsWorth(V, <<To(b, w), To(s, z)>>) = V[b][w] + V[s][z] /\ Parcels(<<To(b, w), To(s, z)>>)
  BY <1>3, <1>4, <1>5, <1>7, TwoMails
<1>8. /\ ZenyFor(p)[b][w] = 0 /\ UnitsFor(p, a.item)[b][w] = (IF b = p THEN 1 ELSE 0)
      /\ ZenyFor(p)[s][z] = (IF s = p THEN a.buynow ELSE 0) /\ UnitsFor(p, a.item)[s][z] = 0
  BY <1>1, <1>3, <1>4, <1>5, ParcelsWorth
<1>9. /\ RowsWorth(ZenyFor(p), sold) = 0 + (IF s = p THEN a.buynow ELSE 0)
      /\ RowsWorth(UnitsFor(p, a.item), sold) = (IF b = p THEN 1 ELSE 0) + 0
  BY <1>2, <1>6, <1>7, <1>8
<1> QED BY <1>1, <1>2, <1>3, <1>6, <1>7, <1>9

LEMMA BidReplies ==
    ASSUME NEW b \in Player, NEW n \in 0..MaxZeny, NEW s, Parcels(s), NEW t, Parcels(t),
           NEW reply, reply = <<[type |-> "bidding", p |-> b, with |-> Zeny(n), done |-> TRUE]>>
    PROVE  HandsTo(NewsOf(s) \o reply, b, Zeny(n)) /\ HandsTo(NewsOf(s) \o reply \o NewsOf(t), b, Zeny(n))
<1> DEFINE m == [type |-> "bidding", p |-> b, with |-> Zeny(n), done |-> TRUE]
<1>1. m.p = b /\ Handed(m) = Zeny(n) /\ b \in Somebody /\ Zeny(n) \in Enclosure /\ reply = <<m>>
  BY WaresAre DEF Handed, Somebody
<1> HIDE DEF m
<1>2. PICK w \in Enclosure : w = Zeny(n)
  BY <1>1
<1>3. HandsTo(reply, b, w)
  BY <1>1, <1>2, HandsToIs
<1>4. HandsTo(NewsOf(s), b, NoEnclosure) /\ HandsTo(NewsOf(t), b, NoEnclosure)
  BY <1>1, HandsToIs
<1>5. HandsTo(NewsOf(s) \o reply, b, w)
  BY <1>1, <1>3, <1>4, HandsToIs
<1>6. HandsTo(NewsOf(s) \o reply \o NewsOf(t), b, w)
  BY <1>1, <1>4, <1>5, HandsToIs
<1> QED BY <1>2, <1>5, <1>6


LEMMA AuctionRaised ==
    ASSUME Typical, Typical', sd' = sd, NEW b \in Player, NEW bid \in 0..MaxZeny,
           toChar # << >>, toChar' = Tail(toChar), Head(toChar).p = b, Handed(Head(toChar)) = Zeny(bid),
           NEW id \in DOMAIN auctions, NEW a, a = auctions[id], SendMails(Outbid(a)),
           NEW msgs, HandsTo(msgs, b, Zeny(0)), Answer(msgs),
           auctions' = Raised(auctions, id, b, bid)
    PROVE  Keep(Player, a.item)
<1>1. a \in GoingOn
  BY DEF Typical, House
<1>2. /\ a.item \in Item /\ a.price \in Nat /\ b \in Somebody /\ 0 \in 0..MaxZeny
      /\ Zeny(bid) \in Enclosure /\ Zeny(0) \in Enclosure /\ bid \in Nat
  BY <1>1, AuctionsAre, WaresAre, LimitsAssumption DEF Somebody
<1>3. PICK mails : mails = Outbid(a)
  OBVIOUS
<1>4. PICK taken \in Enclosure : taken = Zeny(bid)
  BY <1>2
<1>5. PICK given \in Enclosure : given = Zeny(0)
  BY <1>2
<1>6. ASSUME NEW p \in Player
      PROVE  /\ Purse(p) \in Int /\ Goods(p, a.item) \in Int
             /\ Purse(p)' = Purse(p) + 0 /\ Goods(p, a.item)' = Goods(p, a.item) + 0
  <2>0. /\ toChar # << >> /\ toChar' = Tail(toChar) /\ Head(toChar).p = b /\ Handed(Head(toChar)) = taken
        /\ SendMails(mails)
    BY <1>3, <1>4 DEF SendMails
  <2>1. /\ Parcels(mails) /\ RowsWorth(ZenyFor(p), mails) = (IF a.buyer = p THEN a.price ELSE 0)
        /\ RowsWorth(UnitsFor(p, a.item), mails) = 0
    BY <1>1, <1>2, <1>3, OutbidWorth
  <2>2. /\ ZenyFor(p)[b][taken] = (IF b = p THEN bid ELSE 0) /\ UnitsFor(p, a.item)[b][taken] = 0
        /\ ZenyFor(p)[b][given] = (IF b = p THEN 0 ELSE 0) /\ UnitsFor(p, a.item)[b][given] = 0
    BY <1>2, <1>4, <1>5, ParcelsWorth
  <2>3. PICK led \in Int : led = (IF a.buyer = p THEN -a.price ELSE 0) + (IF b = p THEN bid ELSE 0)
    BY <1>2
  <2>4. /\ HouseWorth(LeadsFor(p), auctions')
             = HouseWorth(LeadsFor(p), auctions) + (IF a.buyer = p THEN -a.price ELSE 0) + (IF b = p THEN bid ELSE 0)
        /\ HouseWorth(SellsFor(p, a.item), auctions') = HouseWorth(SellsFor(p, a.item), auctions)
    BY <1>2, HouseAfter
  <2>5. HouseWorth(LeadsFor(p), auctions) \in Int /\ HouseWorth(SellsFor(p, a.item), auctions) \in Int
    BY ValuationsAre, HouseWorthChanges DEF Typical
  <2>6. /\ HouseWorth(LeadsFor(p), auctions') = HouseWorth(LeadsFor(p), auctions) + led
        /\ HouseWorth(SellsFor(p, a.item), auctions') = HouseWorth(SellsFor(p, a.item), auctions) + 0
    BY <1>2, <2>3, <2>4, <2>5
  <2>7. 0 \in Int /\ \E more : HandsTo(more, b, given) /\ Answer(more)
    BY <1>5
  <2>8. /\ Purse(p)' = Purse(p) + (RowsWorth(ZenyFor(p), mails) - ZenyFor(p)[b][taken] + ZenyFor(p)[b][given] + led)
        /\ Goods(p, a.item)' = Goods(p, a.item) + (RowsWorth(UnitsFor(p, a.item), mails) - UnitsFor(p, a.item)[b][taken]
                                                    + UnitsFor(p, a.item)[b][given] + 0)
        /\ Purse(p) \in Int /\ Goods(p, a.item) \in Int
    BY <1>2, <2>0, <2>1, <2>6, <2>7, HouseSettles
  <2> QED BY <1>2, <2>1, <2>2, <2>3, <2>8
<1> QED BY <1>6, KeepIs

LEMMA AuctionBought ==
    ASSUME Typical, Typical', sd' = sd, NEW b \in Player, NEW bid \in 0..MaxZeny,
           toChar # << >>, toChar' = Tail(toChar), Head(toChar).p = b, Handed(Head(toChar)) = Zeny(bid),
           NEW id \in DOMAIN auctions, NEW a, a = auctions[id], b # a.seller, bid >= a.buynow,
           NEW sold, sold = <<To(b, Ware(a.item)), To(a.seller, Zeny(a.buynow))>>,
           SendMails(Outbid(a) \o sold),
           NEW msgs, HandsTo(msgs, b, Zeny(bid - a.buynow)), Answer(msgs),
           auctions' = Without(auctions, id)
    PROVE  Sale(a, b, a.buynow)
<1>1. a \in GoingOn
  BY DEF Typical, House
<1>2. /\ a.item \in Item /\ a.price \in Nat /\ b \in Somebody /\ bid \in Nat /\ a.buynow \in Nat
      /\ bid - a.buynow \in 0..MaxZeny
  BY <1>1, AuctionsAre, LimitsAssumption DEF Somebody
<1>3. Zeny(bid) \in Enclosure /\ Zeny(bid - a.buynow) \in Enclosure
  BY <1>2, WaresAre
<1>4. PICK mails : mails = Outbid(a) \o sold
  OBVIOUS
<1>5. PICK taken \in Enclosure : taken = Zeny(bid)
  BY <1>3
<1>6. PICK given \in Enclosure : given = Zeny(bid - a.buynow)
  BY <1>3
<1>7. ASSUME NEW p \in Player
      PROVE  /\ Purse(p) \in Int /\ Goods(p, a.item) \in Int
             /\ Purse(p)' = Purse(p) + ((IF p = a.seller THEN a.buynow ELSE 0) - (IF p = b THEN a.buynow ELSE 0))
             /\ Goods(p, a.item)' = Goods(p, a.item) + ((IF p = b THEN 1 ELSE 0) - (IF p = a.seller THEN 1 ELSE 0))
  <2>0. /\ toChar # << >> /\ toChar' = Tail(toChar) /\ Head(toChar).p = b /\ Handed(Head(toChar)) = taken
        /\ SendMails(mails)
    BY <1>4, <1>5 DEF SendMails
  <2>1. /\ Parcels(Outbid(a)) /\ RowsWorth(ZenyFor(p), Outbid(a)) = (IF a.buyer = p THEN a.price ELSE 0)
        /\ RowsWorth(UnitsFor(p, a.item), Outbid(a)) = 0
    BY <1>1, <1>2, OutbidWorth
  <2>2. /\ Parcels(sold) /\ RowsWorth(ZenyFor(p), sold) = (IF a.seller = p THEN a.buynow ELSE 0)
        /\ RowsWorth(UnitsFor(p, a.item), sold) = (IF b = p THEN 1 ELSE 0)
    BY <1>1, SoldWorth
  <2>3. /\ RowsWorth(ZenyFor(p), mails) = RowsWorth(ZenyFor(p), Outbid(a)) + RowsWorth(ZenyFor(p), sold)
        /\ RowsWorth(UnitsFor(p, a.item), mails) = RowsWorth(UnitsFor(p, a.item), Outbid(a)) + RowsWorth(UnitsFor(p, a.item), sold)
    BY <1>4, <2>1, <2>2, ValuationsAre, WorthsOfMailsJoined
  <2>4. Parcels(mails)
    BY <1>4, <2>1, <2>2, ParcelsAre
  <2>5. /\ ZenyFor(p)[b][taken] = (IF b = p THEN bid ELSE 0) /\ UnitsFor(p, a.item)[b][taken] = 0
        /\ ZenyFor(p)[b][given] = (IF b = p THEN bid - a.buynow ELSE 0) /\ UnitsFor(p, a.item)[b][given] = 0
    BY <1>2, <1>5, <1>6, ParcelsWorth
  <2>6. PICK led \in Int : led = IF a.buyer = p THEN -a.price ELSE 0
    BY <1>2
  <2>7. PICK gone \in Int : gone = IF a.seller = p THEN -1 ELSE 0
    OBVIOUS
  <2>8. /\ HouseWorth(LeadsFor(p), auctions') = HouseWorth(LeadsFor(p), auctions) + led
        /\ HouseWorth(SellsFor(p, a.item), auctions') = HouseWorth(SellsFor(p, a.item), auctions) + gone
    BY <2>6, <2>7, HouseAfter
  <2>9. \E more : HandsTo(more, b, given) /\ Answer(more)
    BY <1>6
  <2>10. /\ Purse(p)' = Purse(p) + (RowsWorth(ZenyFor(p), mails) - ZenyFor(p)[b][taken] + ZenyFor(p)[b][given] + led)
         /\ Goods(p, a.item)' = Goods(p, a.item) + (RowsWorth(UnitsFor(p, a.item), mails) - UnitsFor(p, a.item)[b][taken]
                                                     + UnitsFor(p, a.item)[b][given] + gone)
         /\ Purse(p) \in Int /\ Goods(p, a.item) \in Int
    BY <1>2, <2>0, <2>4, <2>8, <2>9, HouseSettles
  <2>11. PICK rz \in Int : rz = RowsWorth(ZenyFor(p), mails)
    BY <1>2, <2>1, <2>2, <2>3
  <2>12. PICK ru \in Int : ru = RowsWorth(UnitsFor(p, a.item), mails)
    BY <1>2, <2>1, <2>2, <2>3
  <2>13. rz = (IF a.buyer = p THEN a.price ELSE 0) + (IF a.seller = p THEN a.buynow ELSE 0)
    BY <2>1, <2>2, <2>3, <2>11
  <2>14. ru = 0 + (IF b = p THEN 1 ELSE 0)
    BY <2>1, <2>2, <2>3, <2>12
  <2>17. PICK k \in Int : k = (IF b = p THEN bid ELSE 0)
    BY <1>2
  <2>18. PICK g \in Int : g = (IF b = p THEN bid - a.buynow ELSE 0)
    BY <1>2
  <2>19. Purse(p)' = Purse(p) + (rz - k + g + led)
    BY <2>5, <2>10, <2>11, <2>17, <2>18
  <2>20. rz - k + g + led = (IF p = a.seller THEN a.buynow ELSE 0) - (IF p = b THEN a.buynow ELSE 0)
    <3>1. PICK c \in Int : c = a.price
      BY <1>2
    <3>2. PICK n \in Int : n = a.buynow
      BY <1>2
    <3>3. /\ rz = (IF a.buyer = p THEN c ELSE 0) + (IF a.seller = p THEN n ELSE 0)
          /\ k = (IF b = p THEN bid ELSE 0) /\ g = (IF b = p THEN bid - n ELSE 0)
          /\ led = (IF a.buyer = p THEN -c ELSE 0)
      BY <2>6, <2>13, <2>17, <2>18, <3>1, <3>2
    <3>4. rz - k + g + led = (IF a.seller = p THEN n ELSE 0) - (IF b = p THEN n ELSE 0)
      <4>1. rz + led = (IF a.seller = p THEN n ELSE 0)
        BY <3>3
      <4>2. g - k = - (IF b = p THEN n ELSE 0)
        BY <1>2, <3>3
      <4> QED BY <4>1, <4>2
    <3> QED BY <3>2, <3>4
  <2>15. Purse(p)' = Purse(p) + ((IF p = a.seller THEN a.buynow ELSE 0) - (IF p = b THEN a.buynow ELSE 0))
    BY <2>19, <2>20
  <2>16. Goods(p, a.item)' = Goods(p, a.item) + ((IF p = b THEN 1 ELSE 0) - (IF p = a.seller THEN 1 ELSE 0))
    BY <2>5, <2>7, <2>10, <2>12, <2>14
  <2> QED BY <2>10, <2>15, <2>16
<1> QED BY <1>1, <1>2, <1>7, SaleIs


-----------------------------------------------------------------------------
(* Bids are honoured.                                                      *)

\* What BidsHonoured says of an auction.
Honoured(id, a) ==
    IF id \in DOMAIN auctions'
    THEN auctions'[id] # a => auctions'[id].price > a.price /\ Keep(Player, a.item)
    ELSE \/ a.buyer = NoPlayer /\ Keep(Player, a.item)
         \/ a.buyer # NoPlayer /\ Sale(a, a.buyer, a.price)
         \/ \E b \in Player : /\ Head(toChar).type = "bid" /\ Head(toChar).p = b
                              /\ Sale(a, b, a.buynow)

LEMMA OthersHonoured ==
    \A id \in DOMAIN auctions :
        id \in DOMAIN auctions' /\ auctions'[id] = auctions[id] => Honoured(id, auctions[id])
BY DEF Honoured

LEMMA EndHonoured ==
    ASSUME Typical, Typical', sd' = sd, NEW b \in Somebody, Idle(b),
           toMap' = toMap \/ \E msgs : HandsTo(msgs, b, NoEnclosure) /\ Answer(msgs),
           NEW n \in DOMAIN auctions, auctions' = Without(auctions, n),
           NEW mails, SendMails(mails),
           \/ mails = EndMails(auctions[n])
           \/ /\ auctions[n].buyer # NoPlayer
              /\ mails = <<To(auctions[n].seller, Zeny(auctions[n].price)), To(auctions[n].buyer, Ware(auctions[n].item))>>
    PROVE  \A id \in DOMAIN auctions : Honoured(id, auctions[id])
<1>1. PICK a : a = auctions[n]
  OBVIOUS
<1>2. /\ a.buyer = NoPlayer => Keep(Player, a.item)
      /\ a.buyer # NoPlayer => Sale(a, a.buyer, a.price)
  <2>1. \/ mails = EndMails(a)
        \/ a.buyer # NoPlayer /\ mails = <<To(a.seller, Zeny(a.price)), To(a.buyer, Ware(a.item))>>
    BY <1>1
  <2> QED BY <1>1, <2>1, AuctionEnds
<1>3. n \notin DOMAIN auctions' /\ \A id \in DOMAIN auctions \ {n} : id \in DOMAIN auctions' /\ auctions'[id] = auctions[id]
  BY DEF Without
<1>4. Honoured(n, a)
  BY <1>2, <1>3 DEF Honoured
<1> QED BY <1>1, <1>3, <1>4, OthersHonoured

LEMMA TimerHonours ==
    ASSUME Typical, Typical', NEW n, AuctionEndTimer(n)
    PROVE  \A id \in DOMAIN auctions : Honoured(id, auctions[id])
<1>1. /\ n \in DOMAIN auctions /\ SendMails(EndMails(auctions[n])) /\ auctions' = Without(auctions, n)
      /\ toChar' = toChar /\ sd' = sd /\ (Answer(NewsOf(EndMails(auctions[n]))) \/ toMap' = toMap)
  BY DEF AuctionEndTimer, CharKeeps
<1>2. PICK a : a = auctions[n]
  OBVIOUS
<1>3. a \in GoingOn /\ a.seller \in Player
  <2>1. a \in GoingOn
    BY <1>1, <1>2 DEF Typical, House
  <2> QED BY <2>1, AuctionsAre
<1>4. PICK mails : mails = EndMails(a)
  OBVIOUS
<1>5. Parcels(mails)
  BY <1>3, <1>4, AuctionMailsAre
<1>6. a.seller \in Somebody /\ HandsTo(NewsOf(mails), a.seller, NoEnclosure)
  BY <1>3, <1>5, HandsToIs DEF Somebody
<1>7. SendMails(mails) /\ (toMap' = toMap \/ Answer(NewsOf(mails))) /\ Idle(a.seller) /\ mails = EndMails(auctions[n])
  BY <1>1, <1>2, <1>4 DEF Idle, SendMails, Answer
<1>8. toMap' = toMap \/ \E msgs : HandsTo(msgs, a.seller, NoEnclosure) /\ Answer(msgs)
  BY <1>6, <1>7
<1> QED BY <1>1, <1>6, <1>7, <1>8, EndHonoured

LEMMA CancelHonours ==
    ASSUME PostTyped, Typical, Typical', MapifParseAuctionCancel
    PROVE  \A id \in DOMAIN auctions : Honoured(id, auctions[id])
<1> DEFINE n == Head(toChar).id
           b == Head(toChar).p
<1>1. /\ FromMap("cancel") /\ sd' = sd
      /\ \/ auctions' = auctions
         \/ /\ n \in SoldBy(b) \intersect Led(NoPlayer)
            /\ SendMails(EndMails(auctions[n])) /\ Answer(NewsOf(EndMails(auctions[n])))
            /\ auctions' = Without(auctions, n)
  BY DEF MapifParseAuctionCancel, CharKeeps
<1>2. toChar # << >> /\ toChar' = Tail(toChar) /\ b \in Player /\ b \in Somebody /\ Handed(Head(toChar)) = NoEnclosure
  <2>1. ToCharTyped(Head(toChar)) /\ Head(toChar).type = "cancel" /\ toChar # << >> /\ toChar' = Tail(toChar)
    BY <1>1, TailTyped DEF FromMap, PostTyped, LinksTyped, AskedRight
  <2> QED BY <2>1 DEF ToCharTyped, HandsOver, Handed, Somebody
<1> HIDE DEF n
<1>3. CASE auctions' = auctions
  BY <1>3, OthersHonoured
<1>4. ASSUME n \in SoldBy(b) \intersect Led(NoPlayer), SendMails(EndMails(auctions[n])), Answer(NewsOf(EndMails(auctions[n]))),
             auctions' = Without(auctions, n)
      PROVE  \A id \in DOMAIN auctions : Honoured(id, auctions[id])
  <2>1. n \in DOMAIN auctions
    BY <1>4 DEF SoldBy
  <2>2. PICK a \in GoingOn : a = auctions[n]
    BY <2>1 DEF Typical, House
  <2>3. PICK mails : mails = EndMails(a)
    OBVIOUS
  <2>4. PICK c \in Player : c = b
    BY <1>2
  <2>5. Parcels(mails)
    BY <2>2, <2>3, <2>4, AuctionMailsAre
  <2>6. HandsTo(NewsOf(mails), b, NoEnclosure)
    BY <1>2, <2>5, HandsToIs
  <2>7. SendMails(mails) /\ Answer(NewsOf(mails)) /\ Idle(b) /\ mails = EndMails(auctions[n])
    BY <1>2, <1>4, <2>2, <2>3 DEF Idle, SendMails, Answer
  <2>8. \E msgs : HandsTo(msgs, b, NoEnclosure) /\ Answer(msgs)
    BY <2>6, <2>7
  <2> HIDE DEF b
  <2> QED BY <1>1, <1>2, <1>4, <2>1, <2>7, <2>8, EndHonoured
<1> QED BY <1>1, <1>3, <1>4

LEMMA CloseHonours ==
    ASSUME PostTyped, Typical, Typical', MapifParseAuctionClose
    PROVE  \A id \in DOMAIN auctions : Honoured(id, auctions[id])
<1> DEFINE n == Head(toChar).id
           b == Head(toChar).p
           ends == <<To(auctions[n].seller, Zeny(auctions[n].price)), To(auctions[n].buyer, Ware(auctions[n].item))>>
           closed == [type |-> "closed", p |-> b, done |-> TRUE]
<1>1. /\ FromMap("close") /\ sd' = sd
      /\ \/ auctions' = auctions
         \/ /\ n \in SoldBy(b) \ Led(NoPlayer)
            /\ SendMails(ends) /\ Answer(NewsOf(ends) \o <<closed>>)
            /\ auctions' = Without(auctions, n)
  BY DEF MapifParseAuctionClose, CharKeeps
<1>2. toChar # << >> /\ toChar' = Tail(toChar) /\ b \in Player /\ b \in Somebody /\ Handed(Head(toChar)) = NoEnclosure
  <2>1. ToCharTyped(Head(toChar)) /\ Head(toChar).type = "close" /\ toChar # << >> /\ toChar' = Tail(toChar)
    BY <1>1, TailTyped DEF FromMap, PostTyped, LinksTyped, AskedRight
  <2> QED BY <2>1 DEF ToCharTyped, HandsOver, Handed, Somebody
<1>3. closed.p = b /\ Handed(closed) = NoEnclosure /\ NoEnclosure \in Enclosure
  BY EnclosuresAre DEF Handed
<1> HIDE DEF n, ends, closed
<1>4. CASE auctions' = auctions
  BY <1>4, OthersHonoured
<1>5. ASSUME n \in SoldBy(b) \ Led(NoPlayer), SendMails(ends), Answer(NewsOf(ends) \o <<closed>>),
             auctions' = Without(auctions, n)
      PROVE  \A id \in DOMAIN auctions : Honoured(id, auctions[id])
  <2>1. n \in DOMAIN auctions /\ auctions[n].buyer # NoPlayer
    BY <1>5 DEF SoldBy, Led
  <2>2. PICK a \in GoingOn : a = auctions[n]
    BY <2>1 DEF Typical, House
  <2>3. PICK mails : mails = <<To(a.seller, Zeny(a.price)), To(a.buyer, Ware(a.item))>>
    OBVIOUS
  <2>4. PICK c \in Player : c = b
    BY <1>2
  <2>5. Parcels(mails)
    BY <2>1, <2>2, <2>3, <2>4, AuctionMailsAre
  <2>6. HandsTo(NewsOf(mails), b, NoEnclosure) /\ HandsTo(<<closed>>, b, NoEnclosure)
    <3> HIDE DEF b
    <3>1. HandsTo(NewsOf(mails), b, NoEnclosure)
      BY <1>2, <2>5, HandsToIs
    <3>2. HandsTo(<<closed>>, b, Handed(closed))
      BY <1>2, <1>3, HandsToIs
    <3> QED BY <1>3, <3>1, <3>2
  <2>7. HandsTo(NewsOf(mails) \o <<closed>>, b, NoEnclosure)
    BY <1>2, <1>3, <2>6, HandsToIs
  <2>8. /\ SendMails(mails) /\ Answer(NewsOf(mails) \o <<closed>>) /\ Idle(b)
        /\ mails = <<To(auctions[n].seller, Zeny(auctions[n].price)), To(auctions[n].buyer, Ware(auctions[n].item))>>
    BY <1>2, <1>5, <2>2, <2>3 DEF Idle, SendMails, Answer, ends
  <2>9. \E msgs : HandsTo(msgs, b, NoEnclosure) /\ Answer(msgs)
    BY <2>7, <2>8
  <2> HIDE DEF b
  <2> QED BY <1>1, <1>2, <1>5, <2>1, <2>8, <2>9, EndHonoured
<1> QED BY <1>1, <1>4, <1>5


LEMMA BidHonours ==
    ASSUME PostTyped, Typical, Typical', MapifParseAuctionBid
    PROVE  \A id \in DOMAIN auctions : Honoured(id, auctions[id])
<1> DEFINE msg == Head(toChar)
           n == msg.id
           bid == msg.with.zeny
           reply(m) == <<[type |-> "bidding", p |-> msg.p, with |-> Zeny(m), done |-> TRUE]>>
           sold == <<To(msg.p, Ware(auctions[n].item)), To(auctions[n].seller, Zeny(auctions[n].buynow))>>
<1>1. /\ FromMap("bid") /\ sd' = sd
      /\ \/ auctions' = auctions
         \/ MayBid(msg) /\ AuctionTakesBid(msg)
  BY DEF MapifParseAuctionBid, CharKeeps
<1>2. ToCharTyped(msg) /\ msg.type = "bid" /\ toChar # << >> /\ toChar' = Tail(toChar)
  BY <1>1, TailTyped DEF FromMap, PostTyped, LinksTyped, AskedRight
<1>3. msg.p \in Player /\ msg.with \in Enclosure /\ Handed(msg) = Zeny(bid) /\ bid \in 0..MaxZeny
  BY <1>2, EnclosuresAre DEF ToCharTyped, HandsOver, Handed
<1>4. CASE auctions' = auctions
  BY <1>4, OthersHonoured
<1>5. ASSUME MayBid(msg), AuctionTakesBid(msg)
      PROVE  \A id \in DOMAIN auctions : Honoured(id, auctions[id])
  <2>1. n \in DOMAIN auctions /\ auctions[n].price < bid /\ auctions[n].seller # msg.p
    BY <1>5 DEF MayBid
  <2>2. \/ /\ bid >= auctions[n].buynow /\ SendMails(Outbid(auctions[n]) \o sold)
           /\ Answer(NewsOf(Outbid(auctions[n])) \o reply(bid - auctions[n].buynow) \o NewsOf(sold))
           /\ auctions' = Without(auctions, n)
        \/ /\ SendMails(Outbid(auctions[n])) /\ Answer(NewsOf(Outbid(auctions[n])) \o reply(0))
           /\ auctions' = Raised(auctions, n, msg.p, bid)
    BY <1>5 DEF AuctionTakesBid, Raised
  <2>3. PICK a \in GoingOn : a = auctions[n]
    BY <2>1 DEF Typical, House
  <2>4. PICK b \in Player : b = msg.p
    BY <1>3
  <2>5. PICK z \in 0..MaxZeny : z = bid
    BY <1>3
  <2>6. PICK s : s = <<To(b, Ware(a.item)), To(a.seller, Zeny(a.buynow))>>
    OBVIOUS
  <2>7. toChar # << >> /\ toChar' = Tail(toChar) /\ Head(toChar).p = b /\ Handed(Head(toChar)) = Zeny(z)
        /\ Head(toChar).type = "bid" /\ z \in Nat
    BY <1>2, <1>3, <2>4, <2>5, LimitsAssumption
  <2>8. b # a.seller /\ a.price < z /\ a.item \in Item
    BY <2>1, <2>3, <2>4, <2>5, AuctionsAre
  <2>9. \/ /\ z >= a.buynow /\ SendMails(Outbid(a) \o s)
           /\ Answer(NewsOf(Outbid(a)) \o <<[type |-> "bidding", p |-> b, with |-> Zeny(z - a.buynow), done |-> TRUE]>> \o NewsOf(s))
           /\ auctions' = Without(auctions, n)
        \/ /\ SendMails(Outbid(a))
           /\ Answer(NewsOf(Outbid(a)) \o <<[type |-> "bidding", p |-> b, with |-> Zeny(0), done |-> TRUE]>>)
           /\ auctions' = Raised(auctions, n, b, z)
    BY <2>2, <2>3, <2>4, <2>5, <2>6 DEF SendMails, Answer
  <2>10. n \in DOMAIN auctions /\ a = auctions[n]
    BY <2>1, <2>3
  <2> HIDE DEF msg, n, bid, reply, sold
  <2>11. Parcels(Outbid(a)) /\ Parcels(s)
    BY <2>3, <2>4, <2>6, <2>8, OutbidWorth, SoldWorth
  <2>12. CASE /\ z >= a.buynow /\ SendMails(Outbid(a) \o s)
              /\ Answer(NewsOf(Outbid(a)) \o <<[type |-> "bidding", p |-> b, with |-> Zeny(z - a.buynow), done |-> TRUE]>> \o NewsOf(s))
              /\ auctions' = Without(auctions, n)
    <3>1. z - a.buynow \in 0..MaxZeny
      <4>1. a.buynow \in Nat
        BY <2>3, AuctionsAre
      <4> QED BY <2>7, <2>12, <4>1, LimitsAssumption
    <3>2. PICK w \in 0..MaxZeny : w = z - a.buynow
      BY <3>1
    <3>3. PICK out : out = Outbid(a)
      OBVIOUS
    <3>4. PICK r : r = <<[type |-> "bidding", p |-> b, with |-> Zeny(w), done |-> TRUE]>>
      OBVIOUS
    <3>5. HandsTo(NewsOf(out) \o r \o NewsOf(s), b, Zeny(w))
      BY <2>4, <2>11, <3>2, <3>3, <3>4, BidReplies
    <3>6. PICK msgs : msgs = NewsOf(out) \o r \o NewsOf(s)
      OBVIOUS
    <3>7. Answer(msgs) /\ HandsTo(msgs, b, Zeny(z - a.buynow))
      BY <2>12, <3>2, <3>3, <3>4, <3>5, <3>6 DEF Answer
    <3>8. Sale(a, b, a.buynow)
      BY <1>1, <2>4, <2>5, <2>6, <2>7, <2>8, <2>10, <2>12, <3>7, AuctionBought
    <3>9. n \notin DOMAIN auctions' /\ \A id \in DOMAIN auctions \ {n} : id \in DOMAIN auctions' /\ auctions'[id] = auctions[id]
      BY <2>12 DEF Without
    <3>10. Honoured(n, a)
      BY <2>4, <2>7, <3>8, <3>9 DEF Honoured
    <3> QED BY <2>10, <3>9, <3>10, OthersHonoured
  <2>13. CASE /\ SendMails(Outbid(a))
              /\ Answer(NewsOf(Outbid(a)) \o <<[type |-> "bidding", p |-> b, with |-> Zeny(0), done |-> TRUE]>>)
              /\ auctions' = Raised(auctions, n, b, z)
    <3>1. PICK out : out = Outbid(a)
      OBVIOUS
    <3>2. PICK w \in 0..MaxZeny : w = 0
      BY LimitsAssumption
    <3>3. PICK r : r = <<[type |-> "bidding", p |-> b, with |-> Zeny(w), done |-> TRUE]>>
      OBVIOUS
    <3>4. HandsTo(NewsOf(out) \o r, b, Zeny(w))
      BY <2>4, <2>11, <3>1, <3>2, <3>3, BidReplies
    <3>5. PICK msgs : msgs = NewsOf(out) \o r
      OBVIOUS
    <3>6. Answer(msgs) /\ HandsTo(msgs, b, Zeny(0))
      BY <2>13, <3>1, <3>2, <3>3, <3>4, <3>5 DEF Answer
    <3>7. Keep(Player, a.item)
      BY <1>1, <2>4, <2>5, <2>7, <2>10, <2>13, <3>6, AuctionRaised
    <3>8. /\ n \in DOMAIN auctions' /\ auctions'[n].price = z
          /\ \A id \in DOMAIN auctions \ {n} : id \in DOMAIN auctions' /\ auctions'[id] = auctions[id]
      <4>1. a = [seller |-> a.seller, buyer |-> a.buyer, item |-> a.item, price |-> a.price, buynow |-> a.buynow]
        BY <2>3 DEF GoingOn, Auctions
      <4>2. n \in DOMAIN auctions' /\ auctions'[n] = [a EXCEPT !.buyer = b, !.price = z]
        BY <2>10, <2>13 DEF Raised
      <4>3. \A id \in DOMAIN auctions \ {n} : id \in DOMAIN auctions' /\ auctions'[id] = auctions[id]
        BY <2>13 DEF Raised
      <4> QED BY <4>1, <4>2, <4>3
    <3>9. a.price \in Nat
      BY <2>3, AuctionsAre
    <3>10. Honoured(n, a)
      BY <2>7, <2>8, <3>7, <3>8, <3>9 DEF Honoured
    <3> QED BY <2>10, <3>8, <3>10, OthersHonoured
  <2> QED BY <2>9, <2>12, <2>13
<1> QED BY <1>1, <1>4, <1>5

LEMMA StepHonours ==
    ASSUME PostTyped, Typical, Typical', [PostNext]_<<vars, mailVars, auctionVars>>, nextAuction' = nextAuction
    PROVE  \A id \in DOMAIN auctions : Honoured(id, auctions[id])
<1>1. CASE UNCHANGED auctions
  BY <1>1, OthersHonoured
<1>2. CASE Elsewhere
  BY <1>1, <1>2 DEF Elsewhere, CharAuctions
<1>3. CASE AuctionNext
  BY <1>1, <1>3 DEF AuctionNext, CharAuctions, AuctionCancelreg, AuctionSetitem, AuctionRegister, AuctionBid,
                    AuctionCancel, AuctionClose
<1>4. CASE MapifParseAuctionRegister
  <2>1. auctions' = auctions \/ nextAuction' = nextAuction + 1
    BY <1>4 DEF MapifParseAuctionRegister, CharAuctions
  <2>2. nextAuction \in Nat
    BY DEF PostTyped, HouseTyped
  <2> QED BY <1>1, <2>1, <2>2
<1>5. CASE IntifParseAuctionRegister \/ IntifParseAuctionBid \/ IntifParseAuctionClose
  BY <1>1, <1>5 DEF IntifParseAuctionRegister, IntifParseAuctionBid, IntifParseAuctionClose, CharAuctions
<1>6. CASE UNCHANGED <<vars, mailVars, auctionVars>>
  BY <1>1, <1>6 DEF auctionVars
<1>7. CASE \E id \in 1..MaxAuctions : AuctionEndTimer(id)
  BY <1>7, TimerHonours
<1> QED BY <1>2, <1>3, <1>4, <1>5, <1>6, <1>7, BidHonours, CancelHonours, CloseHonours DEF PostNext, AuctionParses

\* Bids are honoured, for any players, letters and auctions, in whatever order bids,
\* closing, cancelling and the timer reach the char-server: an auction that goes on
\* only gets dearer, one that ends gives its item and its bid to the right two, and
\* all others have what they had, in their purses, letters, and on their way.
THEOREM PostBidsHonoured == PostSpec => BidsHonoured
<1>1. AuctionInit => PostTyped
  BY PostInitTyped
<1>2. PostTyped /\ [PostNext]_<<vars, mailVars, auctionVars>> => PostTyped'
  BY PostStepTyped
<1>3. PostTyped => Typical
  BY TypicalIs
<1>4. PostTyped /\ Typical /\ Typical' /\ [PostNext]_<<vars, mailVars, auctionVars>> =>
        [nextAuction' = nextAuction =>
         \A id \in DOMAIN auctions : \A a \in {auctions[id]} :
            IF id \in DOMAIN auctions'
            THEN auctions'[id] # a => auctions'[id].price > a.price /\ Keep(Player, a.item)
            ELSE \/ a.buyer = NoPlayer /\ Keep(Player, a.item)
                 \/ a.buyer # NoPlayer /\ Sale(a, a.buyer, a.price)
                 \/ \E b \in Player : /\ Head(toChar).type = "bid" /\ Head(toChar).p = b
                                      /\ Sale(a, b, a.buynow)]_<<vars, mailVars, auctionVars>>
  BY StepHonours DEF Honoured
<1> QED BY <1>1, <1>2, <1>3, <1>4, PTL DEF PostSpec, BidsHonoured
=============================================================================
