---------------------------- MODULE GuildStorage ----------------------------
(***************************************************************************)
(* The storage of one guild (map/storage.c, char/int_storage.c).  It lives *)
(* twice: rows in the char-server's database, and a copy in the map-server *)
(* that members work on and that is written back whole.  One member at a   *)
(* time may have it open.  Items bound to the guild go there when a member *)
(* leaves: the map-server moves them if the member is online, and asks the *)
(* char-server to move the rows if not.                                    *)
(*                                                                         *)
(* One map-server and the link to it; how characters log in and how their  *)
(* own data survives is the subject of SessionSystem.  Inventory and cart  *)
(* of a character are one bag.  Slots are not modelled, only the amount of *)
(* an item that fits.                                                      *)
(***************************************************************************)
EXTENDS Integers, Sequences, FiniteSets, FiniteSetsExt, SequencesExt

CONSTANTS Player, Item,
          Bound,       \* the items bound to the guild (IBT_GUILD)
          MaxAmount,   \* units of an item that fit into the storage
          MaxLosses,   \* bound: times the link is lost
          Setups       \* what is where at the start, may a member leave, and the bound
                       \* on the messages on the link before a spontaneous one

ASSUME BoundAssumption == Bound \subseteq Item
ASSUME BoundsAssumption == MaxAmount \in Nat /\ MaxLosses \in Nat
ASSUME PlayerAssumption == IsFiniteSet(Player)
ASSUME SetupsAssumption ==
    \A s \in Setups : /\ s.online \subseteq Player /\ s.leave \in BOOLEAN /\ s.queue \in Nat
                      /\ s.inv \in [Player -> [Item -> Nat]] /\ s.db \in [Item -> Nat]

VARIABLES
    gstor,    \* the map-server's copy; ~loaded: not in gstorage->db
    sd,       \* player -> session data; waiting: quit, its save not confirmed
    guild,    \* the char-server's guild: does it exist, who is in it
    known,    \* the same as the map-server has it
    db,       \* guild_storage rows: item -> units
    charDb,   \* inventory and cart rows: player -> item -> units
    playing,  \* characters the char-server counts as on the map-server
    up, losses,
    toChar, toMap,
    setup,
    slips     \* history: what happened of the things that lose or copy items

vars == <<gstor, sd, guild, known, db, charDb, playing, up, losses, toChar, toMap, setup, slips>>

Bag == [Item -> Nat]
Empty == [i \in Item |-> 0]
NotLoaded == [loaded |-> FALSE, dirty |-> FALSE, status |-> FALSE, lock |-> FALSE,
              items |-> Empty]

Slip == {"destroyed",  \* a leaving member's items found no storage, or no room
         "unsaved",    \* with that the storage was closed, changed and not saved
         "shut",       \* the storage was closed under the member who has it open
         "overtaken",  \* rows that were moved to the storage did not reach its copy, or
                     \* reached it behind a save of the copy as it was without them
         "twice",      \* a character came to the map with items about to be moved
         "early",      \* the answer to a save was taken for that of a later one
         "lost"}       \* the link broke while a storage was locked

Init ==
    \E s \in Setups :
        /\ setup = s
        /\ gstor = NotLoaded
        /\ sd = [p \in Player |-> [online |-> p \in s.online, guild |-> p \in s.online,
                                   open |-> FALSE, waiting |-> FALSE, inv |-> s.inv[p]]]
        /\ guild = [exists |-> TRUE, members |-> Player] /\ known = guild
        /\ db = s.db /\ charDb = s.inv /\ playing = s.online
        /\ up = TRUE /\ losses = 0 /\ toChar = << >> /\ toMap = << >>
        /\ slips = {}

CharSide == <<guild, db, charDb, playing>>
Fixed == <<up, losses, setup>>
Quiet == Len(toChar) + Len(toMap) < setup.queue
Slipped(what, when) == slips' = IF when THEN slips \union what ELSE slips

-----------------------------------------------------------------------------
(* The functions of the map-server, on what it holds: m.gstor, m.sd, and    *)
(* m.out, what it sent.  Without the link nothing is sent.                  *)

Now == [gstor |-> gstor, sd |-> sd, out |-> << >>]
Does(m) == gstor' = m.gstor /\ sd' = m.sd /\ toChar' = toChar \o m.out
Sent(m, msg) == IF up THEN [m EXCEPT !.out = Append(@, msg)] ELSE m

GuildStorageSave(m, quits) ==
    LET g == [m.gstor EXCEPT !.status = @ /\ ~quits]
    IN  IF ~m.gstor.loaded THEN m
        ELSE IF g.dirty THEN Sent([m EXCEPT !.gstor = g], [type |-> "save", items |-> g.items])
        ELSE [m EXCEPT !.gstor = g]

\* Nothing is saved without the link: the character is when it is back.
ChrifSave(m, p, quits) ==
    LET kept == IF quits THEN [m EXCEPT !.sd[p].waiting = TRUE] ELSE m
        stored == IF m.sd[p].open THEN GuildStorageSave(kept, quits) ELSE kept
        shut == IF quits THEN [stored EXCEPT !.sd[p].open = FALSE] ELSE stored
    IN  IF ~up THEN kept
        ELSE Sent(shut, [type |-> "char", p |-> p, inv |-> m.sd[p].inv, quits |-> quits])

\* Saves the storage only if p has it open, and closes it whoever has.
GuildStorageClose(m, p) ==
    LET saved == IF m.gstor.status
                 THEN [ChrifSave(m, p, FALSE) EXCEPT !.gstor.status = FALSE] ELSE m
    IN  IF m.gstor.loaded THEN [saved EXCEPT !.sd[p].open = FALSE] ELSE m

GuildStorageQuit(m, p, broken) ==
    LET saved == IF ~broken /\ m.gstor.status THEN ChrifSave(m, p, FALSE) ELSE m
        shut == [saved EXCEPT !.sd[p].open = FALSE, !.gstor.status = FALSE]
    IN  IF ~m.gstor.loaded THEN m
        ELSE IF broken THEN ChrifSave(shut, p, FALSE) ELSE shut

\* Items that do not fit are gone all the same.
PcBoundClear(m, p) ==
    LET fits(i) == /\ m.gstor.loaded /\ m.sd[p].inv[i] > 0
                   /\ m.gstor.items[i] + m.sd[p].inv[i] <= MaxAmount
        into == [i \in Item |-> IF i \in Bound /\ fits(i)
                                THEN m.gstor.items[i] + m.sd[p].inv[i] ELSE m.gstor.items[i]]
        moved == [m EXCEPT !.gstor.items = into,
                           !.gstor.dirty = @ \/ into # m.gstor.items,
                           !.sd[p].inv = [i \in Item |-> IF i \in Bound THEN 0 ELSE @[i]]]
    IN  GuildStorageClose(moved, p)

\* What a member that leaves while online takes the storage's keeper by surprise with.
ClearingSlips(p) ==
    {s \in {"destroyed", "unsaved", "shut"} :
       LET left == {i \in Bound : sd[p].inv[i] > 0}
       IN  CASE s = "destroyed" -> \E i \in left : ~gstor.loaded \/
                                        gstor.items[i] + sd[p].inv[i] > MaxAmount
             [] s = "unsaved" -> /\ gstor.loaded /\ ~(gstor.status /\ sd[p].open)
                                 /\ left # {} \/ (gstor.status /\ gstor.dirty)
             [] s = "shut" -> gstor.status /\ ~sd[p].open}

-----------------------------------------------------------------------------
(* Members at the storage. *)

\* Mutant: whether another member has it open is not looked at.
GuildStorageOpenAnyway(p) ==
    /\ sd[p].online /\ sd[p].guild /\ ~sd[p].open
    /\ IF ~gstor.loaded
       THEN Quiet /\ Does(Sent(Now, [type |-> "load", p |-> p]))
       ELSE ~gstor.lock
            /\ Does([Now EXCEPT !.gstor.status = TRUE, !.sd[p].open = TRUE])
    /\ UNCHANGED <<CharSide, known, toMap, Fixed, slips>>

GuildStorageOpen(p) ==
    /\ sd[p].online /\ sd[p].guild /\ ~sd[p].open
    /\ IF ~gstor.loaded
       THEN Quiet /\ Does(Sent(Now, [type |-> "load", p |-> p]))
       ELSE /\ ~gstor.status /\ ~gstor.lock
            /\ Does([Now EXCEPT !.gstor.status = TRUE, !.sd[p].open = TRUE])
    /\ UNCHANGED <<CharSide, known, toMap, Fixed, slips>>

Usable(p) == sd[p].online /\ sd[p].open /\ gstor.loaded /\ gstor.status

\* With the cart the lock is not looked at.
GuildStorageAdd(p, i, cart) ==
    /\ Usable(p) /\ sd[p].inv[i] > 0
    /\ IF gstor.lock /\ ~cart THEN Does(GuildStorageClose(Now, p))
       ELSE /\ gstor.items[i] < MaxAmount
            /\ Does([Now EXCEPT !.gstor.items[i] = @ + 1, !.gstor.dirty = TRUE,
                                !.sd[p].inv[i] = @ - 1])
    /\ UNCHANGED <<CharSide, known, toMap, Fixed, slips>>

\* Mutant: more may be taken out than there is.
GuildStorageGetUnchecked(p, i, cart) ==
    /\ Usable(p)
    /\ IF gstor.lock /\ ~cart THEN Does(GuildStorageClose(Now, p))
       ELSE Does([Now EXCEPT !.gstor.items[i] = @ - 1, !.gstor.dirty = TRUE,
                             !.sd[p].inv[i] = @ + 1])
    /\ UNCHANGED <<CharSide, known, toMap, Fixed, slips>>

GuildStorageGet(p, i, cart) ==
    /\ Usable(p) /\ gstor.items[i] > 0
    /\ IF gstor.lock /\ ~cart THEN Does(GuildStorageClose(Now, p))
       ELSE Does([Now EXCEPT !.gstor.items[i] = @ - 1, !.gstor.dirty = TRUE,
                             !.sd[p].inv[i] = @ + 1])
    /\ UNCHANGED <<CharSide, known, toMap, Fixed, slips>>

CloseStorage(p) ==
    /\ sd[p].online /\ sd[p].open /\ Quiet
    /\ Does(GuildStorageClose(Now, p))
    /\ UNCHANGED <<CharSide, known, toMap, Fixed, slips>>

\* map_autosave_sub
AutoSave(p) ==
    /\ sd[p].online /\ up /\ Quiet
    /\ Does(ChrifSave(Now, p, FALSE))
    /\ UNCHANGED <<CharSide, known, toMap, Fixed, slips>>

\* unit_remove_map closes what is open, the character is saved then.
MapQuit(p) ==
    /\ sd[p].online /\ Quiet
    /\ LET left == IF sd[p].open
                   THEN [GuildStorageQuit(Now, p, FALSE) EXCEPT !.sd[p].open = FALSE] ELSE Now
       IN  Does([ChrifSave(left, p, TRUE) EXCEPT !.sd[p].online = FALSE])
    /\ UNCHANGED <<CharSide, known, toMap, Fixed, slips>>

-----------------------------------------------------------------------------
(* The map-server on what the char-server sends. *)

FromChar(type) == toMap # << >> /\ Head(toMap).type = type /\ toMap' = Tail(toMap)

\* Is a save that was sent later, or the answer to it, on its way?
AnotherSave == \/ \E i \in DOMAIN toChar : toChar[i].type = "save"
               \/ \E i \in 2..Len(toMap) : toMap[i].type = "saved"

\* An open storage, or one with changes not saved, is not overwritten.
IntifParseLoadGuildStorage ==
    /\ FromChar("storage")
    /\ LET msg == Head(toMap)
           opens == msg.opens /\ sd[msg.p].guild /\ ~sd[msg.p].open
       IN  /\ IF \/ ~msg.exists \/ ~known.exists \/ (msg.opens /\ ~sd[msg.p].online)
                 \/ gstor.status \/ gstor.dirty
              THEN UNCHANGED <<gstor, sd>>
              ELSE /\ gstor' = [loaded |-> TRUE, dirty |-> FALSE, status |-> opens,
                                lock |-> FALSE, items |-> msg.items]
                   /\ sd' = IF opens THEN [sd EXCEPT ![msg.p].open = TRUE] ELSE sd
           /\ Slipped({"overtaken"}, ~msg.opens /\ (gstor.status \/ gstor.dirty \/ AnotherSave))
    /\ UNCHANGED <<CharSide, known, toChar, Fixed>>

\* Mutant: also while a member is changing the storage.
SavedWhileOpen ==
    /\ FromChar("saved")
    /\ gstor' = [gstor EXCEPT !.dirty = FALSE]
    /\ Slipped({"early"}, ~gstor.status /\ gstor.dirty /\ AnotherSave)
    /\ UNCHANGED <<CharSide, sd, known, toChar, Fixed>>

\* The answer does not say to which of several saves.
GuildStorageSaved ==
    /\ FromChar("saved")
    /\ gstor' = [gstor EXCEPT !.dirty = @ /\ gstor.status]
    /\ Slipped({"early"}, ~gstor.status /\ gstor.dirty /\ AnotherSave)
    /\ UNCHANGED <<CharSide, sd, known, toChar, Fixed>>

\* Who is not on the map has its rows moved by the char-server; until that is
\* done the storage, if loaded, stays shut and locked.
ItemboundReq(m, p) ==
    LET openers == {q \in Player : m.sd[q].online /\ m.sd[q].guild /\ m.sd[q].open}
        shut == IF m.gstor.status /\ openers # {}
                THEN GuildStorageClose(m, CHOOSE q \in openers : TRUE) ELSE m
    IN  Sent([shut EXCEPT !.gstor.lock = m.gstor.loaded], [type |-> "retrieve", p |-> p])

\* Without any member on the map nothing is done about the items.
GuildMemberWithdraw ==
    /\ FromChar("withdraw")
    /\ LET p == Head(toMap).p
           left == IF sd[p].online THEN PcBoundClear(Now, p) ELSE ItemboundReq(Now, p)
       IN  IF ~known.exists \/ p \notin known.members \/ ~\E q \in Player : sd[q].online /\ sd[q].guild
           THEN UNCHANGED <<gstor, sd, toChar, slips>>
           ELSE /\ Does([left EXCEPT !.sd[p].open = FALSE, !.sd[p].guild = FALSE])
                /\ Slipped(ClearingSlips(p), sd[p].online)
    /\ known' = [known EXCEPT !.members = @ \ {Head(toMap).p}]
    /\ UNCHANGED <<CharSide, Fixed>>

IntifParseItemboundAck ==
    /\ FromChar("unlock")
    /\ gstor' = [gstor EXCEPT !.lock = FALSE]
    /\ UNCHANGED <<CharSide, sd, known, toChar, Fixed, slips>>

\* The last member gives the guild up.
GuildBreak(p) ==
    /\ sd[p].online /\ sd[p].guild /\ known.exists /\ known.members = {p} /\ up /\ Quiet
    /\ Does(Sent(PcBoundClear(Now, p), [type |-> "break"]))
    /\ Slipped(ClearingSlips(p), TRUE)
    /\ UNCHANGED <<CharSide, known, toMap, Fixed>>

\* Saves of characters, in the order in which the map-server finds them.
Saves(order, quits) ==
    [i \in DOMAIN order |-> [type |-> "char", p |-> order[i], inv |-> sd[order[i]].inv, quits |-> quits]]

\* guild_storage_quit for each who has it open: the storage itself is not saved.
MembersOut ==
    LET members == {p \in Player : sd[p].online /\ sd[p].guild}
    IN  /\ \E order \in SetToSeqs({p \in members : up /\ gstor.loaded /\ sd[p].open}) :
              toChar' = toChar \o Saves(order, FALSE)
        /\ sd' = [p \in Player |->
                    IF p \in members
                    THEN [sd[p] EXCEPT !.guild = FALSE, !.open = @ /\ ~gstor.loaded] ELSE sd[p]]
        /\ known' = [exists |-> FALSE, members |-> {}]

\* Mutant: the storage of a guild that is no more stays in memory.
GuildBrokenKeepsStorage ==
    /\ FromChar("broken")
    /\ IF ~known.exists THEN UNCHANGED <<gstor, sd, toChar, known>>
       ELSE MembersOut /\ UNCHANGED gstor
    /\ UNCHANGED <<CharSide, Fixed, slips>>

GuildBroken ==
    /\ FromChar("broken")
    /\ IF ~known.exists THEN UNCHANGED <<gstor, sd, toChar, known>>
       ELSE MembersOut /\ gstor' = NotLoaded
    /\ UNCHANGED <<CharSide, Fixed, slips>>

\* A character comes with what the char-server had of it.
PcAuthOk ==
    /\ FromChar("enter")
    /\ LET msg == Head(toMap)
       IN  sd' = [sd EXCEPT ![msg.p] = [online |-> TRUE, guild |-> msg.guild, open |-> FALSE,
                                        waiting |-> FALSE, inv |-> msg.inv]]
    /\ UNCHANGED <<CharSide, gstor, known, toChar, Fixed, slips>>

ChrifSaveAck ==
    /\ FromChar("charSaved")
    /\ sd' = [sd EXCEPT ![Head(toMap).p].waiting = FALSE]
    /\ UNCHANGED <<CharSide, gstor, known, toChar, Fixed, slips>>

-----------------------------------------------------------------------------
(* The char-server. *)

MapSide == <<gstor, sd, known>>
Answers(type, msgs) ==
    /\ toChar # << >> /\ Head(toChar).type = type
    /\ toChar' = Tail(toChar) /\ toMap' = toMap \o msgs

MapifParseLoadGuildStorage ==
    /\ Answers("load", <<[type |-> "storage", exists |-> guild.exists, opens |-> TRUE,
                          p |-> Head(toChar).p, items |-> db]>>)
    /\ UNCHANGED <<MapSide, CharSide, Fixed, slips>>

\* Also answered if the guild is no more.
MapifParseSaveGuildStorage ==
    /\ Answers("save", <<[type |-> "saved"]>>)
    /\ db' = IF guild.exists THEN Head(toChar).items ELSE db
    /\ UNCHANGED <<MapSide, guild, charDb, playing, Fixed, slips>>

\* char_parse_frommap_save_character
SaveCharacter ==
    /\ LET msg == Head(toChar)
       IN  /\ Answers("char", IF msg.quits THEN <<[type |-> "charSaved", p |-> msg.p]>> ELSE << >>)
           /\ charDb' = [charDb EXCEPT ![msg.p] = msg.inv]
           /\ playing' = IF msg.quits THEN playing \ {msg.p} ELSE playing
    /\ UNCHANGED <<MapSide, guild, db, Fixed, slips>>

BoundRows(p) == {i \in Bound : charDb[p][i] > 0}
DbWith(p) == [i \in Item |-> IF i \in Bound THEN db[i] + charDb[p][i] ELSE db[i]]
Reloaded(p) == [type |-> "storage", exists |-> guild.exists, opens |-> FALSE, p |-> p,
                items |-> DbWith(p)]
RowsMoved(p) ==
    /\ db' = DbWith(p)
    /\ charDb' = [charDb EXCEPT ![p] = [i \in Item |-> IF i \in Bound THEN 0 ELSE @[i]]]
    /\ Slipped({"twice"}, BoundRows(p) # {} /\ p \in playing)

\* Mutant: who has nothing to move gets no answer.
RetrieveWithoutAnswer ==
    /\ Answers("retrieve", IF BoundRows(Head(toChar).p) = {} THEN << >>
                           ELSE <<Reloaded(Head(toChar).p), [type |-> "unlock"]>>)
    /\ RowsMoved(Head(toChar).p)
    /\ UNCHANGED <<MapSide, guild, playing, Fixed>>

MapifParseItemBoundRetrieve ==
    /\ Answers("retrieve", (IF BoundRows(Head(toChar).p) = {} THEN << >>
                            ELSE <<Reloaded(Head(toChar).p)>>) \o <<[type |-> "unlock"]>>)
    /\ RowsMoved(Head(toChar).p)
    /\ UNCHANGED <<MapSide, guild, playing, Fixed>>

MapifParseBreakGuild ==
    /\ Answers("break", IF guild.exists THEN <<[type |-> "broken"]>> ELSE << >>)
    /\ guild' = [exists |-> FALSE, members |-> {}]
    /\ db' = IF guild.exists THEN Empty ELSE db
    /\ UNCHANGED <<MapSide, charDb, playing, Fixed, slips>>

\* A member leaves or is expelled; a guild without members is broken.
MapifParseGuildLeave(p) ==
    /\ setup.leave /\ up /\ Quiet
    /\ p \in guild.members
    /\ LET left == guild.members \ {p}
       IN  /\ guild' = [exists |-> left # {}, members |-> left]
           /\ db' = IF left = {} THEN Empty ELSE db
           /\ toMap' = toMap \o <<[type |-> "withdraw", p |-> p]>>
                             \o (IF left = {} THEN <<[type |-> "broken"]>> ELSE << >>)
    /\ UNCHANGED <<MapSide, charDb, playing, toChar, Fixed, slips>>

\* The char-server lets a character into the game once its last save came in.
MapAuthOk(p) ==
    /\ up /\ Quiet
    /\ p \notin playing /\ ~sd[p].waiting
    /\ playing' = playing \union {p}
    /\ toMap' = Append(toMap, [type |-> "enter", p |-> p, guild |-> p \in guild.members,
                               inv |-> charDb[p]])
    /\ UNCHANGED <<MapSide, guild, db, charDb, toChar, Fixed, slips>>

-----------------------------------------------------------------------------
(* The link. *)

Retrieving == \/ \E i \in DOMAIN toChar : toChar[i].type = "retrieve"
              \/ \E i \in DOMAIN toMap : \/ toMap[i].type = "unlock"
                                         \/ (toMap[i].type = "storage" /\ ~toMap[i].opens)

LinkLost ==
    /\ up /\ losses < MaxLosses
    /\ up' = FALSE /\ losses' = losses + 1
    /\ toChar' = << >> /\ toMap' = << >>
    /\ Slipped({"lost"}, gstor.lock \/ Retrieving)
    /\ UNCHANGED <<MapSide, CharSide, setup>>

\* Mutant: storages are not saved again.
OnReadyWithoutStorages ==
    /\ ~up
    /\ \E order \in SetToSeqs({p \in Player : sd[p].waiting}) : toChar' = Saves(order, TRUE)
    /\ up' = TRUE
    /\ playing' = {p \in Player : sd[p].online \/ sd[p].waiting}
    /\ UNCHANGED <<MapSide, guild, db, charDb, losses, toMap, setup, slips>>

\* Characters whose save was not confirmed are saved again, then the storage,
\* if it has changes and nobody has it open.
ChrifOnReady ==
    /\ ~up
    /\ \E order \in SetToSeqs({p \in Player : sd[p].waiting}) :
          toChar' = Saves(order, TRUE)
                      \o (IF gstor.dirty /\ ~gstor.status
                          THEN <<[type |-> "save", items |-> gstor.items]>> ELSE << >>)
    /\ up' = TRUE
    /\ playing' = {p \in Player : sd[p].online \/ sd[p].waiting}
    /\ UNCHANGED <<MapSide, guild, db, charDb, losses, toMap, setup, slips>>

-----------------------------------------------------------------------------
MapNext ==
    \/ \E p \in Player :
        \/ GuildStorageOpen(p) \/ CloseStorage(p) \/ AutoSave(p) \/ MapQuit(p) \/ GuildBreak(p)
        \/ \E i \in Item, cart \in BOOLEAN : GuildStorageAdd(p, i, cart) \/ GuildStorageGet(p, i, cart)

MapHandles ==
    \/ IntifParseLoadGuildStorage \/ GuildStorageSaved \/ GuildMemberWithdraw
    \/ IntifParseItemboundAck \/ GuildBroken \/ PcAuthOk \/ ChrifSaveAck

CharHandles ==
    \/ MapifParseLoadGuildStorage \/ MapifParseSaveGuildStorage \/ SaveCharacter
    \/ MapifParseItemBoundRetrieve \/ MapifParseBreakGuild

Next ==
    \/ MapNext \/ MapHandles \/ CharHandles
    \/ \E p \in Player : MapifParseGuildLeave(p) \/ MapAuthOk(p)
    \/ LinkLost \/ ChrifOnReady

\* Both servers parse what arrives, and the map-server connects again.
Fairness == WF_vars(MapHandles) /\ WF_vars(CharHandles) /\ WF_vars(ChrifOnReady)

Spec == Init /\ [][Next]_vars /\ Fairness

-----------------------------------------------------------------------------
\* The fields hold what the handlers may leave there.
TypeOK ==
    /\ gstor \in [loaded : BOOLEAN, dirty : BOOLEAN, status : BOOLEAN, lock : BOOLEAN, items : Bag]
    /\ sd \in [Player -> [online : BOOLEAN, guild : BOOLEAN, open : BOOLEAN,
                          waiting : BOOLEAN, inv : Bag]]
    /\ guild \in [exists : BOOLEAN, members : SUBSET Player]
    /\ known \in [exists : BOOLEAN, members : SUBSET Player]
    /\ db \in Bag /\ charDb \in [Player -> Bag] /\ playing \subseteq Player
    /\ up \in BOOLEAN /\ losses \in 0..MaxLosses /\ slips \subseteq Slip
    /\ (~up => toChar = << >> /\ toMap = << >>)

\* The storage is open for one member at a time, and counts as open only while
\* that member has it: nobody who quits, warps or loses the guild leaves it shut
\* for all others.  (The first ends when a member leaves the guild and the
\* storage is closed under another.)
OneAtATime ==
    LET openers == {p \in Player : sd[p].open}
    IN  /\ gstor.status => \E p \in openers : sd[p].online /\ sd[p].guild
        /\ "shut" \notin slips => Cardinality(openers) <= 1 /\ (openers # {} => gstor.status)

SaveUnderway == \E i \in DOMAIN toChar : toChar[i].type = "save" /\ toChar[i].items = gstor.items
RowsUnderway == \E i \in DOMAIN toMap : toMap[i].type = "storage" /\ ~toMap[i].opens

\* A copy that is not marked dirty is what the database holds, or will hold when
\* the last save arrives, or what the rows on the way replace.
CleanIsSaved ==
    (/\ gstor.loaded /\ ~gstor.dirty /\ guild.exists
     /\ slips \intersect {"unsaved", "overtaken", "lost"} = {}
     /\ "early" \in slips => losses = 0)
    => gstor.items = db \/ SaveUnderway \/ RowsUnderway

Recorded(i) == db[i] + MapThenSumSet(LAMBDA p : charDb[p][i], Player)
AtFirst(i) == setup.db[i] + MapThenSumSet(LAMBDA p : setup.inv[p][i], Player)

\* Once everyone has left the game and the link is quiet, the databases hold
\* every unit once, however openings, saves, answers, expulsions and losses of
\* the link crossed: unless one of the things slips names happened.
EveryUnitKept ==
    (/\ up /\ toChar = << >> /\ toMap = << >> /\ guild.exists /\ playing = {}
     /\ \A p \in Player : ~sd[p].online /\ ~sd[p].waiting
     /\ slips \subseteq {"shut"} \/ (slips \subseteq {"shut", "early"} /\ losses = 0))
    => \A i \in Item : Recorded(i) = AtFirst(i)

\* Of a guild that was broken nothing is left on the map-server: no storage, and
\* nobody who has it open; what is still on its way does not bring it back.
BrokenHasNone ==
    ~known.exists => ~gstor.loaded /\ \A p \in Player : ~sd[p].open /\ (sd[p].online => ~sd[p].guild)

\* A storage that is locked while the char-server moves items into it is opened
\* to the members again, unless the link broke meanwhile: then it stays locked.
LockEnds == gstor.lock ~> (~gstor.lock \/ "lost" \in slips)

=============================================================================
