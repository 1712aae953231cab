-------------------------------- MODULE Mail --------------------------------
(***************************************************************************)
(* Letters with an item and zeny in them (map/mail.c, map/intif.c,         *)
(* char/int_mail.c), beside the exchanges of module Exchange.              *)
(*                                                                         *)
(* The letters are rows of the char-server's database.  The map-server has *)
(* a copy of a player's inbox, decides by it what the player may do with a *)
(* letter, and changes it before the char-server has answered.             *)
(*                                                                         *)
(* A letter's text is not modelled, only whether it has a title.  While    *)
(* somebody is away the others only use their mail.                        *)
(***************************************************************************)
EXTENDS Exchange

CONSTANTS MaxInbox,     \* MAIL_MAX_INBOX
          MaxMails,     \* bound: letters ever stored
          MaxWaiting,   \* bound: messages on the link before a player does something
          MaxLosses     \* bound: times the link is lost

\* Who uses the mail does nothing here that ends its session otherwise than by
\* MailQuit, and sells to no store (SoldAsSeen takes a slot that shrinks for a sale).
ASSUME MailAssumption ==
    \A s \in Setups : \A p \in Player :
        "mail" \in s.does[p] => s.does[p] \intersect {"leave", "vend", "buy", "sell"} = {}

Enclosure == [item : Item \union {NoItem}, amount : 0..MaxAmount, zeny : 0..MaxZeny]
Letters == [from : Player \union {NoPlayer}, to : Player \union {NoPlayer},
            status : {"new", "unread", "read"}, with : Enclosure]

\* The letters there are at first; their ids are used up.
ASSUME LettersAssumption ==
    /\ MaxInbox \in Nat /\ MaxMails \in Nat /\ MaxLosses \in Nat
    /\ \A s \in Setups :
         /\ s.post.nextMail \in Nat \ {0}
         /\ \A i \in DOMAIN s.post.rows :
              i \in 1..(s.post.nextMail - 1) /\ s.post.rows[i] \in Letters

VARIABLES
    letter,    \* player -> sd->mail: what goes into the letter it is writing
    inbox,     \* player -> sd->mail.inbox, and whether new mail was announced since
    rows,      \* the mail table: id -> letter
    nextMail,  \* its AUTO_INCREMENT
    away,      \* players not on the map
    up, losses, toChar, toMap

mailVars == <<letter, inbox, rows, nextMail, away, up, losses, toChar, toMap>>

NoLetter == [slot |-> Min(Slot), name |-> NoItem, amount |-> 0, zeny |-> 0]
NoEnclosure == [item |-> NoItem, amount |-> 0, zeny |-> 0]
NoInbox == [mails |-> << >>, full |-> FALSE, changed |-> FALSE]

\* What inter_mail_fromsql reads: the oldest letters to p, as many as an inbox
\* holds, and whether there are more.
LettersTo(p) == {i \in DOMAIN rows : rows[i].to = p}
Listed(p) == {i \in LettersTo(p) : Cardinality({j \in LettersTo(p) : j <= i}) <= MaxInbox}
Seen(status) == IF status = "new" THEN "unread" ELSE status

\* Mutant: letters are sent as they were before they were listed.
InboxOfUnmarked(p) == [mails |-> [i \in Listed(p) |-> rows[i]],
                       full |-> Listed(p) # LettersTo(p), changed |-> FALSE]

InboxOf(p) == [mails |-> [i \in Listed(p) |-> [rows[i] EXCEPT !.status = Seen(@)]],
               full |-> Listed(p) # LettersTo(p), changed |-> FALSE]

MailInitWith(s) ==
    /\ InitWith(s)
    /\ rows = s.post.rows /\ nextMail = s.post.nextMail
    /\ letter = [p \in Player |-> NoLetter]
    /\ inbox = [p \in Player |-> InboxOf(p)]
    /\ away = {} /\ up = TRUE /\ losses = 0 /\ toChar = << >> /\ toMap = << >>

MailInit == \E s \in Setups : MailInitWith(s)

Link == <<up, losses>>
CharRows == <<rows, nextMail>>
Others == <<ground, purse, Rest>>

\* Without the link the functions of intif.c send nothing.
Asks(msgs) == toChar' = IF up THEN toChar \o msgs ELSE toChar
Mails(p) == p \notin away /\ Len(toChar) + Len(toMap) < MaxWaiting
LetterGone(p) == letter' = [letter EXCEPT ![p] = NoLetter]

-----------------------------------------------------------------------------
(* Writing. *)

\* Of the item only the slot and the nameid are remembered.
MailSetItem(p, s, n) ==
    /\ Mails(p) /\ up /\ ~IsTrading(sd[p])
    /\ letter' = [letter EXCEPT ![p] =
           IF n <= sd[p].inv[s].amount
           THEN [@ EXCEPT !.slot = s, !.name = Name[sd[p].inv[s].item], !.amount = n]
           ELSE [NoLetter EXCEPT !.zeny = letter[p].zeny]]
    /\ UNCHANGED <<sd, Others, inbox, CharRows, away, Link, toChar, toMap>>

MailSetZeny(p, n) ==
    /\ Mails(p) /\ up /\ ~IsTrading(sd[p])
    /\ letter' = [letter EXCEPT ![p].zeny = IF n > sd[p].zeny THEN sd[p].zeny ELSE n]
    /\ UNCHANGED <<sd, Others, inbox, CharRows, away, Link, toChar, toMap>>

\* The window is reset; a warp and /refresh do that too.
MailWinopen(p, item, zeny) ==
    /\ Mails(p)
    /\ letter' = [letter EXCEPT ![p] =
           [IF item THEN [NoLetter EXCEPT !.zeny = letter[p].zeny] ELSE letter[p]
              EXCEPT !.zeny = IF zeny THEN 0 ELSE @]]
    /\ UNCHANGED <<sd, Others, inbox, CharRows, away, Link, toChar, toMap>>

\* Is what the letter was to hold still there?
MailSetAttachment(p) ==
    LET l == letter[p]
        from == sd[p].inv[l.slot]
    IN  /\ l.zeny <= sd[p].zeny
        /\ l.amount > 0 => /\ from.item # NoItem /\ Name[from.item] = l.name
                           /\ from.amount >= l.amount
                           /\ Weight(sd[p].inv) <= MaxWeight

Enclosed(p) ==
    [item |-> IF letter[p].amount > 0 THEN sd[p].inv[letter[p].slot].item ELSE NoItem,
     amount |-> letter[p].amount, zeny |-> letter[p].zeny]

\* Bound: ids are left for all letters on the way.
Storable == nextMail + Cardinality({i \in DOMAIN toChar : toChar[i].type \in {"send", "return"}})
              <= MaxMails

\* The enclosure is taken before the title is looked at: without one it is gone.
MailSend(p, to, titled) ==
    /\ Mails(p) /\ up /\ Storable /\ ~sd[p].trading
    /\ LetterGone(p)
    /\ IF ~MailSetAttachment(p) THEN UNCHANGED <<sd, toChar>>
       ELSE /\ Changes(p, [sd[p] EXCEPT !.inv = PcDelItem(@, letter[p].slot, letter[p].amount),
                                        !.zeny = PcPayZeny(@, letter[p].zeny)])
            /\ Asks(IF titled THEN <<[type |-> "send", p |-> p, to |-> to, with |-> Enclosed(p)]>>
                              ELSE << >>)
    /\ UNCHANGED <<Others, inbox, CharRows, away, Link, toMap>>

-----------------------------------------------------------------------------
(* Reading. *)

InboxRequest(p) ==
    IF Cardinality(DOMAIN inbox[p].mails) < MaxInbox /\ (inbox[p].full \/ inbox[p].changed)
    THEN <<[type |-> "inbox", p |-> p]>> ELSE << >>

MailRefreshInbox(p) ==
    /\ Mails(p)
    /\ LetterGone(p)
    /\ Asks(InboxRequest(p))
    /\ UNCHANGED <<sd, Others, inbox, CharRows, away, Link, toMap>>

\* A letter opened for the first time refreshes the inbox as well.
ReadRequests(p, id) ==
    IF inbox[p].mails[id].status # "unread" THEN << >>
    ELSE <<[type |-> "read", p |-> p, id |-> id]>> \o InboxRequest(p)
Read(p, id) == [inbox EXCEPT ![p].mails[id].status = "read"]

MailRead(p, id) ==
    /\ Mails(p) /\ id \in DOMAIN inbox[p].mails
    /\ IF inbox[p].mails[id].status = "unread" THEN LetterGone(p) ELSE UNCHANGED letter
    /\ inbox' = Read(p, id)
    /\ Asks(ReadRequests(p, id))
    /\ UNCHANGED <<sd, Others, CharRows, away, Link, toMap>>

\* Has p room for the item?  (MAX_ZENY is INT_MAX: no sum of two ints is larger,
\* so whether the zeny fits is never found to be false.)
MayTake(p, with) ==
    with.item # NoItem =>
        /\ 10 * Weight(sd[p].inv) < 9 * MaxWeight
        /\ Weight(sd[p].inv) + with.amount <= MaxWeight
        /\ CASE PcCheckAddItem(sd[p].inv, with.item, with.amount) = "over" -> FALSE
             [] PcCheckAddItem(sd[p].inv, with.item, with.amount) = "new" ->
                  PcInventoryBlank(sd[p].inv) > 0
             [] OTHER -> TRUE

\* Mutant: the char-server is not told first that the letter was read.
MailGetAttachUnread(p, id) ==
    /\ Mails(p) /\ up /\ id \in DOMAIN inbox[p].mails
    /\ inbox[p].mails[id].with # NoEnclosure
    /\ MayTake(p, inbox[p].mails[id].with)
    /\ LetterGone(p)
    /\ inbox' = [Read(p, id) EXCEPT ![p].mails[id].with = NoEnclosure]
    /\ Asks(<<[type |-> "getattach", p |-> p, id |-> id]>>)
    /\ UNCHANGED <<sd, Others, CharRows, away, Link, toMap>>

MailGetAttach(p, id) ==
    /\ Mails(p) /\ up /\ id \in DOMAIN inbox[p].mails
    /\ inbox[p].mails[id].with # NoEnclosure
    /\ MayTake(p, inbox[p].mails[id].with)
    /\ LetterGone(p)
    /\ inbox' = [Read(p, id) EXCEPT ![p].mails[id].with = NoEnclosure]
    /\ Asks(ReadRequests(p, id) \o <<[type |-> "getattach", p |-> p, id |-> id]>>)
    /\ UNCHANGED <<sd, Others, CharRows, away, Link, toMap>>

\* By the copy, what is enclosed was taken out.
MailDelete(p, id) ==
    /\ Mails(p) /\ up /\ id \in DOMAIN inbox[p].mails
    /\ inbox[p].mails[id].with = NoEnclosure
    /\ LetterGone(p)
    /\ Asks(<<[type |-> "delete", p |-> p, id |-> id]>>)
    /\ UNCHANGED <<sd, Others, inbox, CharRows, away, Link, toMap>>

\* Letters of the auction house have no sender.
MailReturn(p, id) ==
    /\ Mails(p) /\ Storable /\ id \in DOMAIN inbox[p].mails
    /\ inbox[p].mails[id].from # NoPlayer
    /\ LetterGone(p)
    /\ inbox' = [inbox EXCEPT ![p].mails[id].with = NoEnclosure]
    /\ Asks(<<[type |-> "return", p |-> p, id |-> id]>>)
    /\ UNCHANGED <<sd, Others, CharRows, away, Link, toMap>>

MailQuit(p) ==
    /\ Mails(p)
    /\ away' = away \union {p}
    /\ sd' = Quit(sd, p)
    /\ LetterGone(p)
    /\ inbox' = [inbox EXCEPT ![p] = NoInbox]
    /\ UNCHANGED <<Others, CharRows, Link, toChar, toMap>>

\* pc_reg_received
MailBack(p) ==
    /\ p \in away /\ up
    /\ away' = away \ {p}
    /\ Asks(<<[type |-> "inbox", p |-> p]>>)
    /\ UNCHANGED <<sd, Others, letter, inbox, CharRows, Link, toMap>>

-----------------------------------------------------------------------------
(* The char-server. *)

FromMap(type) == toChar # << >> /\ Head(toChar).type = type /\ toChar' = Tail(toChar)
Answer(msgs) == toMap' = toMap \o msgs
News(id) == [type |-> "new", p |-> rows'[id].to]
Without(f, id) == [i \in DOMAIN f \ {id} |-> f[i]]

MapifParseMailRequestinbox ==
    /\ FromMap("inbox")
    /\ LET p == Head(toChar).p
       IN  /\ Answer(<<[type |-> "inbox", p |-> p, box |-> InboxOf(p)]>>)
           /\ rows' = [i \in DOMAIN rows |-> IF i \in Listed(p) THEN InboxOf(p).mails[i] ELSE rows[i]]
    /\ UNCHANGED <<sd, Others, letter, inbox, nextMail, away, Link>>

MapifParseMailRead ==
    /\ FromMap("read")
    /\ LET id == Head(toChar).id
       IN  rows' = IF id \in DOMAIN rows THEN [rows EXCEPT ![id].status = "read"] ELSE rows
    /\ UNCHANGED <<sd, Others, letter, inbox, nextMail, away, Link, toMap>>

MapifMailGetattach ==
    /\ FromMap("getattach")
    /\ LET p == Head(toChar).p
           id == Head(toChar).id
       IN  IF /\ id \in LettersTo(p) /\ rows[id].status = "read"
              /\ rows[id].with # NoEnclosure
           THEN /\ rows' = [rows EXCEPT ![id].with = NoEnclosure]
                /\ Answer(<<[type |-> "attach", p |-> p, with |-> rows[id].with]>>)
           ELSE UNCHANGED <<rows, toMap>>
    /\ UNCHANGED <<sd, Others, letter, inbox, nextMail, away, Link>>

\* Neither whose letter it is nor what is in it is looked at.
MapifParseMailDelete ==
    /\ FromMap("delete")
    /\ rows' = Without(rows, Head(toChar).id)
    /\ Answer(<<[type |-> "deleted", p |-> Head(toChar).p, id |-> Head(toChar).id]>>)
    /\ UNCHANGED <<sd, Others, letter, inbox, nextMail, away, Link>>

\* The letter goes back as a new one.
MapifParseMailReturn ==
    /\ FromMap("return")
    /\ LET p == Head(toChar).p
           id == Head(toChar).id
           reply(fail) == [type |-> "returned", p |-> p, id |-> id, fail |-> fail]
           back == [rows[id] EXCEPT !.from = p, !.to = rows[id].from, !.status = "new"]
       IN  IF id \notin DOMAIN rows THEN Answer(<<reply(TRUE)>>) /\ UNCHANGED CharRows
           ELSE IF rows[id].to # p THEN UNCHANGED <<CharRows, toMap>>
           ELSE /\ rows' = [i \in (DOMAIN rows \ {id}) \union {nextMail} |->
                              IF i = nextMail THEN back ELSE rows[i]]
                /\ nextMail' = nextMail + 1
                /\ Answer(<<News(nextMail), reply(FALSE)>>)
    /\ UNCHANGED <<sd, Others, letter, inbox, away, Link>>

\* Nobody of that name, or a character of the same account: it is given back.
MapifParseMailSend ==
    /\ FromMap("send")
    /\ LET msg == Head(toChar)
           mail == [from |-> msg.p, to |-> msg.to, status |-> "new", with |-> msg.with]
           sent(fail) == [type |-> "sent", p |-> msg.p, fail |-> fail,
                          with |-> IF fail THEN msg.with ELSE NoEnclosure]
       IN  IF msg.to \in {NoPlayer, msg.p} THEN Answer(<<sent(TRUE)>>) /\ UNCHANGED CharRows
           ELSE /\ rows' = [i \in DOMAIN rows \union {nextMail} |->
                              IF i = nextMail THEN mail ELSE rows[i]]
                /\ nextMail' = nextMail + 1
                /\ Answer(<<sent(FALSE), News(nextMail)>>)
    /\ UNCHANGED <<sd, Others, letter, inbox, away, Link>>

-----------------------------------------------------------------------------
(* The map-server on what the char-server sends; who is away is passed over. *)

FromChar(type) == toMap # << >> /\ Head(toMap).type = type /\ toMap' = Tail(toMap)
Present == Head(toMap).p \notin away

IntifParseMailInboxReceived ==
    /\ FromChar("inbox")
    /\ inbox' = IF Present THEN [inbox EXCEPT ![Head(toMap).p] = Head(toMap).box] ELSE inbox
    /\ UNCHANGED <<sd, Others, letter, CharRows, away, Link, toChar>>

\* mail_getattachment, mail_deliveryfail: what p cannot carry by now is gone.
Given(p, with) ==
    Changes(p, [sd[p] EXCEPT !.inv = PcAddItem(@, with.item, with.amount),
                             !.zeny = PcGetZeny(@, with.zeny)])

IntifParseMailGetAttach ==
    /\ FromChar("attach")
    /\ IF Present THEN Given(Head(toMap).p, Head(toMap).with) ELSE UNCHANGED sd
    /\ UNCHANGED <<Others, letter, inbox, CharRows, away, Link, toChar>>

IntifParseMailSend ==
    /\ FromChar("sent")
    /\ IF Present /\ Head(toMap).fail THEN Given(Head(toMap).p, Head(toMap).with) ELSE UNCHANGED sd
    /\ UNCHANGED <<Others, letter, inbox, CharRows, away, Link, toChar>>

\* A place is free now: what did not fit is asked for.
TakenOut(p, id) ==
    /\ inbox' = [inbox EXCEPT ![p].mails = Without(@, id)]
    /\ Asks(IF inbox[p].full THEN <<[type |-> "inbox", p |-> p]>> ELSE << >>)

IntifParseMailDelete ==
    /\ FromChar("deleted")
    /\ IF Present THEN TakenOut(Head(toMap).p, Head(toMap).id) ELSE UNCHANGED <<inbox, toChar>>
    /\ UNCHANGED <<sd, Others, letter, CharRows, away, Link>>

IntifParseMailReturn ==
    /\ FromChar("returned")
    /\ IF Present /\ ~Head(toMap).fail
       THEN TakenOut(Head(toMap).p, Head(toMap).id) ELSE UNCHANGED <<inbox, toChar>>
    /\ UNCHANGED <<sd, Others, letter, CharRows, away, Link>>

IntifParseMailNew ==
    /\ FromChar("new")
    /\ inbox' = IF Present THEN [inbox EXCEPT ![Head(toMap).p].changed = TRUE] ELSE inbox
    /\ UNCHANGED <<sd, Others, letter, CharRows, away, Link, toChar>>

\* Only where it matters: to who uses the mail or auctions.
LinkLost ==
    /\ up /\ losses < MaxLosses /\ \E p \in Player : does[p] \intersect {"mail", "auction", "bid"} # {}
    /\ up' = FALSE /\ losses' = losses + 1
    /\ toChar' = << >> /\ toMap' = << >>
    /\ UNCHANGED <<sd, Others, letter, inbox, CharRows, away>>

LinkBack ==
    /\ ~up /\ up' = TRUE
    /\ UNCHANGED <<sd, Others, letter, inbox, CharRows, away, losses, toChar, toMap>>

-----------------------------------------------------------------------------
MailNext ==
    \/ \E p \in Doing("write") :
        \/ \E s \in Slot, n \in Amounts : MailSetItem(p, s, n)
        \/ \E n \in 1..MaxZeny : MailSetZeny(p, n)
        \/ \E item, zeny \in BOOLEAN : MailWinopen(p, item, zeny)
        \/ \E to \in (Doing("mail") \ {p}) \union {NoPlayer}, titled \in BOOLEAN : MailSend(p, to, titled)
    \/ \E p \in Doing("mail") :
        \/ MailRefreshInbox(p)
        \/ \E id \in 1..MaxMails :
             MailRead(p, id) \/ MailGetAttach(p, id) \/ MailDelete(p, id) \/ MailReturn(p, id)
    \/ \E p \in Doing("away") : MailQuit(p) \/ MailBack(p)

CharParses ==
    \/ MapifParseMailRequestinbox \/ MapifParseMailRead \/ MapifMailGetattach
    \/ MapifParseMailDelete \/ MapifParseMailReturn \/ MapifParseMailSend

MapParses ==
    \/ IntifParseMailInboxReceived \/ IntifParseMailGetAttach \/ IntifParseMailSend
    \/ IntifParseMailDelete \/ IntifParseMailReturn \/ IntifParseMailNew

Exchanging == away = {} /\ Next /\ UNCHANGED mailVars

AllNext == Exchanging \/ MailNext \/ CharParses \/ MapParses \/ LinkLost \/ LinkBack

MailSpec == MailInit /\ [][AllNext]_<<vars, mailVars>>

-----------------------------------------------------------------------------
(* What is promised of letters; of items and zeny see module Auction. *)

\* The fields hold what the handlers may leave there; nothing is on a link that
\* is lost.
MailTypeOK ==
    /\ \A p \in Player :
          /\ letter[p].slot \in Slot /\ letter[p].amount \in 0..MaxAmount
          /\ letter[p].zeny \in 0..MaxZeny
          /\ letter[p].name \in {Name[i] : i \in Item} \union {NoItem}
          /\ \A id \in DOMAIN inbox[p].mails :
                /\ id \in 1..(nextMail - 1)
                /\ inbox[p].mails[id] \in Letters /\ inbox[p].mails[id].status # "new"
          /\ inbox[p].full \in BOOLEAN /\ inbox[p].changed \in BOOLEAN
    /\ \A id \in DOMAIN rows : id \in 1..(nextMail - 1) /\ rows[id] \in Letters
    /\ nextMail \in 1..(MaxMails + 1) /\ away \subseteq Player
    /\ up \in BOOLEAN /\ losses \in 0..MaxLosses
    /\ ~up => toChar = << >> /\ toMap = << >>

OnTheWay(p) == \/ \E i \in DOMAIN toChar : toChar[i].p = p
               \/ \E i \in DOMAIN toMap : toMap[i].p = p

\* The copy of an inbox is what the comment at intif_parse_MailInboxReceived says,
\* in sync, once the answers are in and until new mail is announced: it lists the
\* letters the table holds, however requests, deletions, returns and departures
\* crossed; and a letter it shows as empty is empty, so that deleting it loses
\* nothing.  (One it shows as full may be empty: opening an unread letter and
\* taking what is in it also asks for the inbox, before it asks for the item.)
InboxInSync ==
    \A p \in Player \ away :
        (losses = 0 /\ ~inbox[p].changed /\ ~OnTheWay(p))
        => /\ DOMAIN inbox[p].mails = Listed(p)
           /\ \A id \in Listed(p) :
                 inbox[p].mails[id].with \in {rows[id].with} \/ rows[id].with = NoEnclosure

=============================================================================
