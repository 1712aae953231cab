------------------------------- MODULE Party --------------------------------
(***************************************************************************)
(* Parties on the map-server (map/party.c), with the char-server they are  *)
(* kept at (IntParty) and the link between the two.  The map-server has a  *)
(* copy of every party one of its players is in.  It asks the char-server  *)
(* for each change and makes it when told; only who leads it changes first *)
(* itself.  A player's own party_id is saved with the character.           *)
(*                                                                         *)
(* One map-server.  Who may ask on which map, invitations refused by a     *)
(* client, chat, instances, and what only clients are shown are left out.  *)
(***************************************************************************)
EXTENDS IntParty, SequencesExt

CONSTANTS MaxLosses,   \* bound: times the link is lost
          Setups       \* the party at the start, what players do, and the bound on
                       \* the messages on the link before a spontaneous one

ASSUME SetupsAssumption ==
    /\ 1 \in PartyId /\ MaxLosses \in Nat
    /\ \A s \in Setups : s.members \subseteq Player /\ s.exp \in BOOLEAN /\ s.lv \in [Player -> Level]

VARIABLES
    sd,       \* player -> session data; waiting: quit, its save not confirmed
    local,    \* the map-server's party->db: id -> copy, data: places with an sd
    mem, row, chars,   \* the char-server: see IntParty
    cached,   \* char_db_: the party_id of a character as last loaded or saved
    playing,  \* characters the char-server counts as on the map-server
    gone,     \* characters that were deleted
    up, losses,
    toChar, toMap,
    setup,
    slips     \* history: what happened of the things that part the copies

mapVars == <<sd, local>>
charVars == <<mem, row, chars, cached, playing, gone>>
vars == <<sd, local, mem, row, chars, cached, playing, gone, up, losses, toChar, toMap, setup, slips>>

Slip == {"lost",     \* a message was lost with the link, or not sent without it
         "crossed",  \* what the map-server made of the leader was on its way yet
         "doubled",  \* an info came to a copy in which two lead
         "two",      \* an invitation was accepted by a member of another party
         "kept",     \* joined and left since the last save, which found nothing to write
         "away",     \* somebody left while not in the game
         "again",    \* the char-server started again
         "stale",    \* it did with the row of a character not saved yet
         "leapt"}    \* a member's level is more than one from that the char-server knew

NoCopy == [loaded |-> FALSE, slots |-> Shown(NotInMemory.slots), data |-> {}, exp |-> FALSE]
Away == [online |-> FALSE, party |-> 0, creating |-> FALSE, joining |-> FALSE, invite |-> 0,
         waiting |-> FALSE, lv |-> 0]

NotCached == -1

\* The party of the setup, in the tables only; its players are about to enter.
Init ==
    \E s \in Setups :
        /\ setup = s
        /\ sd = [p \in Player |-> Away]
        /\ local = [id \in PartyId |-> NoCopy]
        /\ mem = [id \in PartyId |-> NotInMemory]
        /\ row = [id \in PartyId |-> [exists |-> id = 1 /\ s.members # {}, exp |-> s.exp,
                                      leader |-> IF id = 1 /\ s.members # {} THEN Min(s.members) ELSE 0]]
        /\ chars = [p \in Player |-> [party |-> IF p \in s.members THEN 1 ELSE 0, lv |-> s.lv[p]]]
        /\ cached = [p \in Player |-> NotCached] /\ playing = {} /\ gone = {}
        /\ up = TRUE /\ losses = 0 /\ toChar = << >> /\ toMap = << >>
        /\ slips = {}

Fixed == <<up, losses, setup>>
Quiet == Len(toChar) + Len(toMap) < setup.queue
May(act) == act \in setup.acts

-----------------------------------------------------------------------------
(* The functions of the map-server, on what it holds: m.sd and m.local, and *)
(* m.out, what it sent.  Without the link nothing is sent.                  *)

Now == [sd |-> sd, local |-> local, out |-> << >>, lost |-> FALSE]
Sent(m, msg) == IF up THEN [m EXCEPT !.out = Append(@, msg)] ELSE [m EXCEPT !.lost = TRUE]
Does(m, more) ==
    /\ sd' = m.sd /\ local' = m.local /\ toChar' = toChar \o m.out
    /\ slips' = slips \union more \union (IF m.lost THEN {"lost"} ELSE {})

Leave(id, p) == [type |-> "leave", id |-> id, p |-> p]
PlacesOf(m, id, p) == {s \in Place : m.local[id].slots[s].p = p}
HasCopy(m, id) == id # 0 /\ m.local[id].loaded

\* party_sd_check: who has no party is in this one; who has another is taken out.
SdCheck(m, id, p) ==
    IF ~m.sd[p].online THEN [m |-> m, ok |-> FALSE]
    ELSE IF m.sd[p].party = 0 THEN [m |-> [m EXCEPT !.sd[p].party = id], ok |-> TRUE]
    ELSE IF m.sd[p].party # id THEN [m |-> Sent(m, Leave(id, p)), ok |-> FALSE]
    ELSE [m |-> m, ok |-> TRUE]

\* The next leader, if the one who left was: somebody online before the others.
NextLeader(slots) ==
    LET online == {s \in Place : slots[s].p # 0 /\ slots[s].online}
        any == {s \in Place : slots[s].p # 0}
    IN  IF online # {} THEN {Min(online)} ELSE IF any # {} THEN {Min(any)} ELSE {}

MemberOut(m, id, p) ==
    LET s == Min(PlacesOf(m, id, p))
        led == m.local[id].slots[s].leader
        slots == [m.local[id].slots EXCEPT ![s] = Shown(NotInMemory.slots)[s]]
        next == IF led THEN NextLeader(slots) ELSE {}
        out == [m EXCEPT !.local[id].slots = [k \in Place |-> [slots[k] EXCEPT !.leader = @ \/ k \in next]],
                         !.local[id].data = @ \ {s}]
    IN  IF ~HasCopy(m, id) \/ (id # 0 /\ PlacesOf(m, id, p) = {}) THEN m
        ELSE IF next = {} THEN out
        ELSE Sent(out, [type |-> "leader", id |-> id, p |-> slots[Min(next)].p])

MemberWithdraw(m, id, p) ==
    LET out == MemberOut(m, id, p)
    IN  IF m.sd[p].online /\ m.sd[p].party = id THEN [out EXCEPT !.sd[p].party = 0] ELSE out

PartyBroken(m, id) ==
    LET there == {m.local[id].slots[s].p : s \in m.local[id].data}
    IN  IF ~HasCopy(m, id) THEN m
        ELSE [m EXCEPT !.local[id] = NoCopy,
                       !.sd = [p \in Player |-> IF p \in there THEN [@[p] EXCEPT !.party = 0]
                                                ELSE @[p]]]

-----------------------------------------------------------------------------
(* Players. *)

\* Mutant: in a party one may create another.
PartyCreateAnyway(p) ==
    /\ May("create") /\ Quiet /\ sd[p].online
    /\ ~sd[p].joining /\ ~sd[p].creating
    /\ Does(Sent([Now EXCEPT !.sd[p].creating = TRUE],
                 [type |-> "create", p |-> p, lv |-> sd[p].lv]), {})
    /\ UNCHANGED <<charVars, toMap, Fixed>>

PartyCreate(p) ==
    /\ May("create") /\ Quiet /\ sd[p].online
    /\ sd[p].party = 0 /\ ~sd[p].joining /\ ~sd[p].creating
    /\ Does(Sent([Now EXCEPT !.sd[p].creating = TRUE],
                 [type |-> "create", p |-> p, lv |-> sd[p].lv]), {})
    /\ UNCHANGED <<charVars, toMap, Fixed>>

\* p is in the copy of its party as the one who leads it.
LeadsByData(p) ==
    /\ sd[p].online /\ HasCopy(Now, sd[p].party)
    /\ \E s \in local[sd[p].party].data : /\ local[sd[p].party].slots[s].p = p
                                          /\ local[sd[p].party].slots[s].leader

PartyInvite(p, t) ==
    /\ May("invite") /\ LeadsByData(p) /\ Free(local[sd[p].party].slots) # {}
    /\ sd[t].online /\ sd[t].party = 0 /\ sd[t].invite = 0
    /\ sd' = [sd EXCEPT ![t].invite = sd[p].party]
    /\ UNCHANGED <<local, charVars, toChar, toMap, Fixed, slips>>

\* Mutant: who accepted already may accept again before it is answered.
PartyReplyInviteTwice(p, accept) ==
    /\ sd[p].online /\ sd[p].invite # 0 /\ Quiet
    /\ IF accept /\ ~sd[p].creating
       THEN Does(Sent([Now EXCEPT !.sd[p].joining = TRUE],
                      [type |-> "add", id |-> sd[p].invite, p |-> p, lv |-> sd[p].lv]),
                 IF sd[p].party # 0 THEN {"two"} ELSE {})
       ELSE Does([Now EXCEPT !.sd[p].invite = 0], {})
    /\ UNCHANGED <<charVars, toMap, Fixed>>

\* Who moves or quits refuses.  That p is in a party by now is not looked at.
PartyReplyInvite(p, accept) ==
    /\ sd[p].online /\ sd[p].invite # 0 /\ Quiet
    /\ IF accept /\ ~sd[p].creating /\ ~sd[p].joining
       THEN Does(Sent([Now EXCEPT !.sd[p].joining = TRUE],
                      [type |-> "add", id |-> sd[p].invite, p |-> p, lv |-> sd[p].lv]),
                 IF sd[p].party # 0 THEN {"two"} ELSE {})
       ELSE Does([Now EXCEPT !.sd[p].invite = 0], {})
    /\ UNCHANGED <<charVars, toMap, Fixed>>

PartyLeaves(p) ==
    /\ May("leave") /\ Quiet /\ sd[p].online /\ HasCopy(Now, sd[p].party)
    /\ PlacesOf(Now, sd[p].party, p) # {}
    /\ Does(Sent(Now, Leave(sd[p].party, p)), {})
    /\ UNCHANGED <<charVars, toMap, Fixed>>

Leads(p) ==
    /\ sd[p].online /\ HasCopy(Now, sd[p].party)
    /\ PlacesOf(Now, sd[p].party, p) # {}
    /\ local[sd[p].party].slots[Min(PlacesOf(Now, sd[p].party, p))].leader

PartyRemoveMember(p, t) ==
    /\ May("expel") /\ Quiet /\ Leads(p) /\ p # t
    /\ PlacesOf(Now, sd[p].party, t) # {}
    /\ Does(Sent(Now, Leave(sd[p].party, t)), {})
    /\ UNCHANGED <<charVars, toMap, Fixed>>

PartyChangeOptionReq(p, exp) ==
    /\ May("option") /\ Quiet /\ LeadsByData(p)
    /\ Does(Sent(Now, [type |-> "option", id |-> sd[p].party, exp |-> exp]), {})
    /\ UNCHANGED <<charVars, toMap, Fixed>>

PartyChangeLeader(p, t) ==
    /\ May("lead") /\ Quiet /\ LeadsByData(p) /\ p # t
    /\ sd[t].online /\ sd[t].party = sd[p].party
    /\ LET id == sd[p].party
           there == {s \in local[id].data : local[id].slots[s].p = t}
           was == {s \in local[id].data : local[id].slots[s].p = p}
           lead == (Leaders(local[id].slots) \ was) \union there
       IN  /\ there # {}
           /\ Does(Sent([Now EXCEPT !.local[id].slots =
                           [s \in Place |-> [@[s] EXCEPT !.leader = s \in lead]]],
                        [type |-> "leader", id |-> id, p |-> t]), {})
    /\ UNCHANGED <<charVars, toMap, Fixed>>

Moves(p, online, lv) == [type |-> "move", id |-> sd[p].party, p |-> p, online |-> online, lv |-> lv]

\* clif_parse_LoadEndAck: p appears on a map, the first one or another.
PartySendMovemap(p) ==
    /\ May("move") /\ Quiet /\ sd[p].online /\ sd[p].party # 0
    /\ Does(Sent(Now, Moves(p, TRUE, sd[p].lv)), {})
    /\ UNCHANGED <<charVars, toMap, Fixed>>

\* pc_checkbaselevelup, and whatever else gives a level
PartySendLevelup(p, lv) ==
    /\ May("level") /\ Quiet /\ sd[p].online /\ lv # sd[p].lv
    /\ LET m == [Now EXCEPT !.sd[p].lv = lv]
       IN  Does(IF sd[p].party = 0 THEN m ELSE Sent(m, Moves(p, TRUE, lv)), {})
    /\ UNCHANGED <<charVars, toMap, Fixed>>

ChrifSave(m, p, quits) ==
    IF ~up THEN m
    ELSE Sent(m, [type |-> "char", p |-> p, party |-> m.sd[p].party, lv |-> m.sd[p].lv, quits |-> quits])

\* map_autosave_sub
AutoSave(p) ==
    /\ May("save") /\ Quiet /\ sd[p].online /\ up
    /\ Does(ChrifSave(Now, p, FALSE), {})
    /\ UNCHANGED <<charVars, toMap, Fixed>>

\* Mutant: the copy of the party keeps the session data of who left the game.
MapQuitKeepsData(p) ==
    /\ May("quit") /\ Quiet /\ sd[p].online
    /\ LET saved == ChrifSave(Now, p, TRUE)
           told == IF sd[p].party = 0 THEN saved ELSE Sent(saved, Moves(p, FALSE, sd[p].lv))
       IN  Does([told EXCEPT !.sd[p] = [Away EXCEPT !.waiting = TRUE, !.party = sd[p].party,
                                                    !.lv = sd[p].lv]], {})
    /\ UNCHANGED <<charVars, toMap, Fixed>>

\* The character is saved, then party_send_logout says that it is gone.
MapQuit(p) ==
    /\ May("quit") /\ Quiet /\ sd[p].online
    /\ LET saved == ChrifSave(Now, p, TRUE)
           told == IF sd[p].party = 0 THEN saved ELSE Sent(saved, Moves(p, FALSE, sd[p].lv))
           out == [told EXCEPT !.sd[p] = [Away EXCEPT !.waiting = TRUE, !.party = sd[p].party,
                                                      !.lv = sd[p].lv]]
       IN  Does(IF ~HasCopy(out, sd[p].party) THEN out
                ELSE [out EXCEPT !.local[sd[p].party].data = @ \ PlacesOf(out, sd[p].party, p)], {})
    /\ UNCHANGED <<charVars, toMap, Fixed>>

-----------------------------------------------------------------------------
(* The map-server on what the char-server sends. *)

FromChar(type) == toMap # << >> /\ Head(toMap).type = type /\ toMap' = Tail(toMap)

\* Mutant: who could not create a party stays one who creates.
PartyCreatedOnly ==
    /\ FromChar("created")
    /\ LET msg == Head(toMap)
           p == msg.p
       IN  Does(IF ~sd[p].online \/ ~sd[p].creating
                THEN IF msg.id = 0 THEN Now ELSE Sent(Now, Leave(msg.id, p))
                ELSE IF msg.id = 0 THEN Now
                ELSE [Now EXCEPT !.sd[p].creating = FALSE, !.sd[p].party = msg.id], {})
    /\ UNCHANGED <<charVars, Fixed>>

PartyCreated ==
    /\ FromChar("created")
    /\ LET msg == Head(toMap)
           p == msg.p
       IN  Does(IF ~sd[p].online \/ ~sd[p].creating
                THEN IF msg.id = 0 THEN Now ELSE Sent(Now, Leave(msg.id, p))
                ELSE [Now EXCEPT !.sd[p].creating = FALSE,
                                 !.sd[p].party = IF msg.id = 0 THEN sd[p].party ELSE msg.id], {})
    /\ UNCHANGED <<charVars, Fixed>>

PartyRecvNoinfo ==
    /\ FromChar("noinfo")
    /\ LET msg == Head(toMap)
           m == PartyBroken(Now, msg.id)
       IN  Does(IF m.sd[msg.p].online /\ m.sd[msg.p].party = msg.id
                THEN [m EXCEPT !.sd[msg.p].party = 0] ELSE m, {})
    /\ UNCHANGED <<charVars, Fixed>>

Places == [s \in Place |-> s]

\* Mutant: the leader is only who the message says.
LedBeforeNobody(old, slots) == {}

\* Of those who lead in the copy and are in the message the last one is kept.
LedBefore(old, slots) ==
    LET lead == {s \in Place : old.slots[s].leader /\ old.slots[s].p \in Members(slots)}
    IN  IF lead = {} THEN {} ELSE {old.slots[Max(lead)].p}

\* What the message says replaces the copy, but the leader of before, if still
\* a member, stays one.  Members it does not name are withdrawn first; the
\* session data of all it names are looked up anew.
RecvInfo(m, msg) ==
    LET id == msg.id
        old == m.local[id]
        In(slots, p) == \E k \in Place : slots[k].p = p
        removed == {s \in old.data : ~In(msg.slots, old.slots[s].p)}
        Out(n, k) == LET s == MaxParty + 1 - k
                     IN  IF s \in removed THEN MemberWithdraw(n, id, old.slots[s].p) ELSE n
        without == FoldLeft(Out, m, Places)
        Leader(s) == msg.slots[s].leader \/ msg.slots[s].p \in LedBefore(old, msg.slots)
        read == [without EXCEPT !.local[id] =
                   [loaded |-> TRUE, data |-> {}, exp |-> msg.exp,
                    slots |-> [s \in Place |-> [msg.slots[s] EXCEPT !.leader = Leader(s)]]]]
        Check(n, s) == LET c == SdCheck(n, id, msg.slots[s].p)
                       IN  IF msg.slots[s].p = 0 THEN n
                           ELSE IF c.ok THEN [c.m EXCEPT !.local[id].data = @ \union {s}] ELSE c.m
        done == FoldLeft(Check, read, Places)
    IN  IF msg.p # 0 /\ done.sd[msg.p].online /\ done.sd[msg.p].party = id /\ ~In(msg.slots, msg.p)
        THEN [done EXCEPT !.sd[msg.p].party = 0] ELSE done

\* Does the message not know yet of the leader the map-server has made?
Crosses(msg, lead) ==
    /\ msg.type = "info" /\ lead.type = "leader" /\ msg.id = lead.id
    /\ \E s \in Place : msg.slots[s].leader /\ msg.slots[s].p # lead.p

InfoSlips(msg) ==
    (IF \E i \in DOMAIN toChar : Crosses(msg, toChar[i]) THEN {"crossed"} ELSE {})
    \union (IF Cardinality(Leaders(local[msg.id].slots)) > 1 THEN {"doubled"} ELSE {})

PartyRecvInfo ==
    /\ FromChar("info")
    /\ Does(RecvInfo(Now, Head(toMap)), InfoSlips(Head(toMap)))
    /\ UNCHANGED <<charVars, Fixed>>

\* Mutant: who is not waiting for it (any more) is not taken out again.
PartyMemberAddedAnyway ==
    /\ FromChar("added")
    /\ LET msg == Head(toMap)
           p == msg.p
           asked == [Now EXCEPT !.sd[p].joining = FALSE, !.sd[p].invite = 0]
       IN  Does(IF ~sd[p].online \/ ~sd[p].joining THEN Now
                ELSE IF ~HasCopy(Now, msg.id) THEN Sent(asked, Leave(msg.id, p))
                ELSE IF msg.ok THEN [asked EXCEPT !.sd[p].party = msg.id] ELSE asked, {})
    /\ UNCHANGED <<charVars, Fixed>>

PartyMemberAdded ==
    /\ FromChar("added")
    /\ LET msg == Head(toMap)
           p == msg.p
           asked == [Now EXCEPT !.sd[p].joining = FALSE, !.sd[p].invite = 0]
       IN  Does(IF ~sd[p].online \/ ~sd[p].joining
                THEN IF msg.ok THEN Sent(Now, Leave(msg.id, p)) ELSE Now
                ELSE IF ~HasCopy(Now, msg.id) THEN Sent(asked, Leave(msg.id, p))
                ELSE IF msg.ok THEN [asked EXCEPT !.sd[p].party = msg.id] ELSE asked, {})
    /\ UNCHANGED <<charVars, Fixed>>

PartyMemberWithdraw ==
    /\ FromChar("withdraw")
    /\ Does(MemberWithdraw(Now, Head(toMap).id, Head(toMap).p),
            IF sd[Head(toMap).p].online THEN {} ELSE {"away"})
    /\ UNCHANGED <<charVars, Fixed>>

PartyIsBroken ==
    /\ FromChar("broken")
    /\ Does(PartyBroken(Now, Head(toMap).id), {})
    /\ UNCHANGED <<charVars, Fixed>>

PartyOptionChanged ==
    /\ FromChar("option")
    /\ LET msg == Head(toMap)
       IN  Does(IF HasCopy(Now, msg.id) /\ ~msg.denied
                THEN [Now EXCEPT !.local[msg.id].exp = msg.exp] ELSE Now, {})
    /\ UNCHANGED <<charVars, Fixed>>

PartyRecvMovemap ==
    /\ FromChar("moved")
    /\ LET msg == Head(toMap)
           s == Min(PlacesOf(Now, msg.id, msg.p))
           told == [Now EXCEPT !.local[msg.id].slots[s].online = msg.online]
           c == SdCheck(told, msg.id, msg.p)
       IN  Does(IF ~HasCopy(Now, msg.id) \/ PlacesOf(Now, msg.id, msg.p) = {} THEN Now
                ELSE [c.m EXCEPT !.local[msg.id].data = IF c.ok THEN @ \union {s} ELSE @ \ {s}], {})
    /\ UNCHANGED <<charVars, Fixed>>

\* pc_authok, then party_member_joined once the registries are there too
PartyMemberJoined ==
    /\ FromChar("enter")
    /\ LET msg == Head(toMap)
           p == msg.p
           m == [Now EXCEPT !.sd[p] = [Away EXCEPT !.online = TRUE, !.party = msg.party, !.lv = msg.lv]]
       IN  Does(IF msg.party = 0 THEN m
                ELSE IF ~HasCopy(m, msg.party)
                THEN Sent(m, [type |-> "info", id |-> msg.party, p |-> p])
                ELSE IF PlacesOf(m, msg.party, p) = {} THEN [m EXCEPT !.sd[p].party = 0]
                ELSE [m EXCEPT !.local[msg.party].data = @ \union {Min(PlacesOf(m, msg.party, p))}], {})
    /\ UNCHANGED <<charVars, Fixed>>

ChrifSaveAck ==
    /\ FromChar("charSaved")
    /\ sd' = [sd EXCEPT ![Head(toMap).p].waiting = FALSE]
    /\ UNCHANGED <<local, charVars, toChar, Fixed, slips>>

-----------------------------------------------------------------------------
(* The char-server. *)

Kept == [mem |-> mem, row |-> row, chars |-> chars, online |-> playing, out |-> << >>]
Answers(type) == toChar # << >> /\ Head(toChar).type = type /\ toChar' = Tail(toChar)
StoresBut(c, more) ==
    /\ mem' = c.mem /\ row' = c.row /\ chars' = c.chars /\ toMap' = toMap \o c.out
    /\ slips' = slips \union more
    /\ UNCHANGED <<mapVars, cached, playing, gone, Fixed>>
Stores(c) == StoresBut(c, {})

\* The name is taken, or it is not.  An id is not given out again.
MapifParseCreateParty ==
    /\ Answers("create")
    /\ LET msg == Head(toChar)
           new == {id \in PartyId : row[id].leader = 0}
       IN  \/ new # {} /\ Stores(CreateParty(Kept, Min(new), msg.p, msg.lv))
           \/ Stores(Tell(Kept, [type |-> "created", p |-> msg.p, id |-> 0]))

MapifParsePartyInfo ==
    /\ Answers("info")
    /\ Stores(PartyInfo(Kept, Head(toChar).id, Head(toChar).p))

MapifParsePartyAddMember ==
    /\ Answers("add")
    /\ Stores(PartyAddMember(Kept, Head(toChar).id, Head(toChar).p, Head(toChar).lv))

MapifParsePartyChangeOption ==
    /\ Answers("option")
    /\ Stores(PartyChangeOption(Kept, Head(toChar).id, Head(toChar).exp))

MapifParsePartyLeave ==
    /\ Answers("leave")
    /\ Stores(PartyLeave(Kept, Head(toChar).id, Head(toChar).p))

\* A member was online and still is, and its level is no neighbour of the one known.
Leaps(slots, msg) ==
    \E s \in Place : /\ slots[s].p = msg.p /\ slots[s].online /\ msg.online
                     /\ msg.lv \notin (slots[s].lv - 1)..(slots[s].lv + 1)

MapifParsePartyChangeMap ==
    /\ Answers("move")
    /\ LET msg == Head(toChar)
           slots == FromSql(Kept, msg.id).mem[msg.id].slots
       IN  \E elsewhere \in BOOLEAN :
              StoresBut(PartyChangeMap(Kept, msg.id, msg.p, msg.online, msg.lv, elsewhere),
                        IF Leaps(slots, msg) THEN {"leapt"} ELSE {})

MapifParsePartyLeaderChange ==
    /\ Answers("leader")
    /\ StoresBut(PartyLeaderChange(Kept, Head(toChar).id, Head(toChar).p),
                 IF \E i \in DOMAIN toMap : Crosses(toMap[i], Head(toChar)) THEN {"crossed"} ELSE {})

\* Mutant: the party is not among what is compared.
SaveCharacterButParty ==
    /\ Answers("char")
    /\ LET msg == Head(toChar)
       IN  /\ \E differs \in BOOLEAN :
                 chars' = IF differs \/ msg.lv # chars[msg.p].lv
                          THEN [chars EXCEPT ![msg.p] = [party |-> msg.party, lv |-> msg.lv]] ELSE chars
           /\ cached' = [cached EXCEPT ![msg.p] = IF msg.quits THEN NotCached ELSE msg.party]
           /\ playing' = IF msg.quits THEN playing \ {msg.p} ELSE playing
           /\ toMap' = IF msg.quits THEN Append(toMap, [type |-> "charSaved", p |-> msg.p]) ELSE toMap
    /\ UNCHANGED <<mapVars, mem, row, gone, Fixed, slips>>

\* chr->mmo_char_tosql: the row is written if something differs from what was
\* loaded or saved last, its party among others; then set_char_offline.
SaveCharacter ==
    /\ Answers("char")
    /\ LET msg == Head(toChar)
       IN  /\ \E differs \in BOOLEAN :
                 IF differs \/ msg.party # cached[msg.p] \/ msg.lv # chars[msg.p].lv
                 THEN /\ chars' = [chars EXCEPT ![msg.p] = [party |-> msg.party, lv |-> msg.lv]]
                      /\ UNCHANGED slips
                 ELSE /\ UNCHANGED chars
                      /\ slips' = IF msg.quits /\ chars[msg.p].party # msg.party THEN slips \union {"kept"} ELSE slips
           /\ cached' = [cached EXCEPT ![msg.p] = IF msg.quits THEN NotCached ELSE msg.party]
           /\ playing' = IF msg.quits THEN playing \ {msg.p} ELSE playing
           /\ toMap' = IF msg.quits THEN Append(toMap, [type |-> "charSaved", p |-> msg.p]) ELSE toMap
    /\ UNCHANGED <<mapVars, mem, row, gone, Fixed>>

\* The char-server lets a character into the game once its last save came in.
MapAuthOk(p) ==
    /\ up /\ Quiet /\ p \in setup.comes
    /\ p \notin playing /\ ~sd[p].waiting /\ p \notin gone
    /\ playing' = playing \union {p}
    /\ cached' = [cached EXCEPT ![p] = chars[p].party]
    /\ toMap' = Append(toMap, [type |-> "enter", p |-> p, party |-> chars[p].party, lv |-> chars[p].lv])
    /\ UNCHANGED <<mapVars, mem, row, chars, gone, toChar, Fixed, slips>>

\* A character is deleted from the list of its account; its row goes with it.
DeleteChar(p) ==
    /\ May("delete") /\ Quiet /\ p \notin playing /\ p \notin gone
    /\ LET c == IF chars[p].party = 0 THEN Kept ELSE PartyLeave(Kept, chars[p].party, p)
       IN  /\ mem' = c.mem /\ row' = c.row /\ chars' = [c.chars EXCEPT ![p].party = 0]
           /\ toMap' = IF up THEN toMap \o c.out ELSE toMap
           /\ slips' = IF ~up /\ c.out # << >> THEN slips \union {"lost"} ELSE slips
    /\ gone' = gone \union {p}
    /\ UNCHANGED <<mapVars, cached, playing, toChar, Fixed>>

-----------------------------------------------------------------------------
(* The link, and the char-server starting again. *)

LinkLost(restart) ==
    /\ up /\ losses < MaxLosses /\ May("lose")
    /\ up' = FALSE /\ losses' = losses + 1
    /\ toChar' = << >> /\ toMap' = << >>
    /\ IF restart THEN /\ mem' = [id \in PartyId |-> NotInMemory]
                       /\ cached' = [p \in Player |-> NotCached]
                  ELSE UNCHANGED <<mem, cached>>
    /\ slips' = slips \union (IF toChar # << >> \/ toMap # << >> THEN {"lost"} ELSE {})
                      \union (IF restart THEN {"again"} ELSE {})
                      \union (IF restart /\ \E id \in PartyId : mem[id].loaded /\
                                   Members(mem[id].slots) # {p \in Player : chars[p].party = id}
                              THEN {"stale"} ELSE {})
    /\ UNCHANGED <<mapVars, row, chars, playing, gone, setup>>

\* chrif_on_ready: who plays, and the saves that were not confirmed.
ChrifOnReady ==
    /\ ~up
    /\ up' = TRUE
    /\ playing' = {p \in Player : sd[p].online \/ sd[p].waiting}
    /\ LET Again(p, out) == IF ~sd[p].waiting THEN out
                            ELSE Append(out, [type |-> "char", p |-> p, party |-> sd[p].party,
                                              lv |-> sd[p].lv, quits |-> TRUE])
       IN  toChar' = FoldSet(Again, << >>, Player)
    /\ UNCHANGED <<mapVars, mem, row, chars, cached, gone, losses, toMap, setup, slips>>

-----------------------------------------------------------------------------
PlayerNext ==
    \E p \in Player :
        \/ PartyCreate(p) \/ PartyLeaves(p) \/ PartySendMovemap(p) \/ AutoSave(p) \/ MapQuit(p)
        \/ \E accept \in BOOLEAN : PartyReplyInvite(p, accept)
        \/ \E exp \in BOOLEAN : PartyChangeOptionReq(p, exp)
        \/ \E lv \in Level : PartySendLevelup(p, lv)
        \/ \E t \in Player : PartyInvite(p, t) \/ PartyRemoveMember(p, t) \/ PartyChangeLeader(p, t)

MapHandles ==
    \/ PartyCreated \/ PartyRecvNoinfo \/ PartyRecvInfo \/ PartyMemberAdded
    \/ PartyMemberWithdraw \/ PartyIsBroken \/ PartyOptionChanged \/ PartyRecvMovemap
    \/ PartyMemberJoined \/ ChrifSaveAck

CharHandles ==
    \/ MapifParseCreateParty \/ MapifParsePartyInfo \/ MapifParsePartyAddMember
    \/ MapifParsePartyChangeOption \/ MapifParsePartyLeave \/ MapifParsePartyChangeMap
    \/ MapifParsePartyLeaderChange \/ SaveCharacter

Next ==
    \/ PlayerNext \/ MapHandles \/ CharHandles
    \/ \E p \in Player : MapAuthOk(p) \/ DeleteChar(p)
    \/ \E restart \in BOOLEAN : LinkLost(restart)
    \/ ChrifOnReady

\* Both servers handle what arrives, in its order, and the map-server connects
\* again.  Every message has its handler: one is enabled as long as any is there.
Reads(link) == link # << >> /\ link' = Tail(link)
Fairness == WF_toMap(Reads(toMap)) /\ WF_toChar(Reads(toChar)) /\ WF_vars(ChrifOnReady)

Spec == Init /\ [][Next]_vars /\ Fairness

-----------------------------------------------------------------------------
\* The fields hold what the handlers may leave there.
TypeOK ==
    /\ sd \in [Player -> [online : BOOLEAN, party : PartyId \union {0}, creating : BOOLEAN,
                          joining : BOOLEAN, invite : PartyId \union {0}, waiting : BOOLEAN,
                          lv : Level \union {0}]]
    /\ \A id \in PartyId :
          /\ \A s \in Place : mem[id].slots[s] \in Member \union {NoMember}
          /\ mem[id].loaded => row[id].exists
          /\ local[id].data \subseteq {s \in Place : local[id].slots[s].p # 0}
          /\ Members(local[id].slots) \subseteq Player
    /\ chars \in [Player -> [party : PartyId \union {0}, lv : Level]]
    /\ cached \in [Player -> PartyId \union {0, NotCached}]
    /\ playing \subseteq Player /\ gone \subseteq Player /\ slips \subseteq Slip
    /\ up \in BOOLEAN /\ losses \in 0..MaxLosses /\ (~up => toChar = << >> /\ toMap = << >>)

AtRest == up /\ toChar = << >> /\ toMap = << >>
\* The table has one party for a member of two: a restart leaves it in that one.
Divided == {"two", "again"} \subseteq slips
Said(slots) == {[p |-> slots[s].p, online |-> slots[s].online] : s \in Place \ Free(slots)}

\* Once the link is quiet the map-server's copy of a party names the members of
\* the char-server's, also of one that started again if all was saved; and with
\* it who of them is online, and that experience is shared, unless it did.  It
\* has no copy of a party that is no more.
CopiesAgree ==
    AtRest /\ slips \intersect {"lost", "stale"} = {} /\ ~Divided =>
        \A id \in PartyId : local[id].loaded =>
            /\ row[id].exists
            /\ mem[id].loaded =>
                 /\ Members(local[id].slots) = Members(mem[id].slots)
                 /\ "again" \notin slips => /\ Said(local[id].slots) = Said(mem[id].slots)
                                            /\ local[id].exp = mem[id].exp

LedBy(slots) == {slots[s].p : s \in Leaders(slots)}

\* Whatever is lost or starts again, a party has at most one leader at the
\* char-server, and two in the map-server's copy.  Where no message is lost, and
\* no restart reads a row that was not saved or has to choose for a member of two
\* parties, a copy has one, the char-server's once the link is quiet, whoever
\* leaves, is expelled, quits or hands over at the same time: unless an info was
\* sent before the char-server handled a change of leader.  party_recv_info then
\* makes the leader of before one again, beside the new one; still who leads at
\* the char-server leads in the copy too, until another info comes to a copy with
\* two leaders: of those it keeps one, which may be the wrong one.
LeadersAgree ==
    \A id \in PartyId :
        LET here == LedBy(local[id].slots)
            there == LedBy(mem[id].slots)
            settled == AtRest /\ local[id].loaded /\ mem[id].loaded
        IN  /\ Cardinality(there) <= 1 /\ Cardinality(here) <= 2
            /\ slips \intersect {"lost", "stale"} = {} /\ ~Divided =>
                 /\ "crossed" \notin slips =>
                      /\ Cardinality(Leaders(local[id].slots)) <= 1
                      /\ settled => here = there
                 /\ "doubled" \notin slips => (settled => there \subseteq here)

\* A copy refers to the session data of a player only while it is in the game
\* and in that party: none is left behind by who quits, leaves or is expelled.
DataIsOfMembers ==
    slips \intersect {"lost", "stale", "two"} = {} =>
        \A id \in PartyId : \A s \in local[id].data :
            LET p == local[id].slots[s].p IN sd[p].online /\ sd[p].party = id

\* Once the link is quiet a player is in a party as its session data says, if
\* and only if the copy of that party names it, and it is in no other.
SdIsOfParty ==
    AtRest /\ slips \intersect {"lost", "two", "stale"} = {} =>
        \A p \in Player : sd[p].online => \A id \in PartyId :
            local[id].loaded => (p \in Members(local[id].slots) <=> sd[p].party = id)

\* Once everyone has left the game the char table has the parties' members, as
\* they are in memory, though saves were made before the map-server knew of a
\* change: unless somebody left while not in the game or joined two parties, or
\* joined and left between two saves (the second finds what the first wrote).
RowsFollow ==
    (/\ AtRest /\ playing = {} /\ \A p \in Player : ~sd[p].online /\ ~sd[p].waiting
     /\ slips \intersect {"lost", "away", "stale", "two", "kept"} = {})
    => \A id \in PartyId : mem[id].loaded =>
           Members(mem[id].slots) = {p \in Player : chars[p].party = id}

\* Nobody is in a party twice: an answer to an old request does not come in the
\* way of a new one; unless the char-server read a row without it, and adds it again.
NobodyTwice ==
    slips \intersect {"lost", "stale", "two"} = {} =>
        \A id \in PartyId : Cardinality(Members(mem[id].slots)) = Cardinality(Place \ Free(mem[id].slots))

\* Who shares experience is within the range: whoever joins, leaves, comes or
\* goes, at whatever level, while the option is asked for; as long as the
\* char-server hears of the levels in between.
ShareInRange ==
    "leapt" \notin slips =>
        \A id \in PartyId :
            LET levels == {mem[id].slots[s].lv : s \in OnlineIn(mem[id])}
            IN  mem[id].exp /\ Cardinality(levels) > 1 => Max(levels) - Min(levels) <= ShareLevel

\* A request to create or to join a party is answered, so that its player may
\* make another one; unless the request or its answer is lost: then it waits
\* until it logs in again.
AskedIsAnswered ==
    \A p \in Player :
        (sd[p].creating \/ sd[p].joining)
            ~> (~(sd[p].creating \/ sd[p].joining) \/ "lost" \in slips)

InParty(id) == IF mem[id].loaded THEN Members(mem[id].slots)
               ELSE IF row[id].exists THEN {p \in Player : chars[p].party = id} ELSE {}

\* Nobody becomes a member but by creating the party or accepting to join it;
\* nobody ceases to be one but by leaving or being expelled, or when deleted:
\* not by the char-server starting again, if all was saved and nobody was in two.
MembersAsAsked ==
    [][slips' \intersect {"stale", "away", "lost"} = {} /\ ~Divided' =>
         \A id \in PartyId, p \in Player :
            /\ p \in InParty(id)' \ InParty(id) =>
                 Head(toChar).type \in {"create", "add"} /\ Head(toChar).p = p
            /\ p \in InParty(id) \ InParty(id)' =>
                 p \in gone' \/ (Head(toChar).type = "leave" /\ Head(toChar).p = p)]_vars

=============================================================================
