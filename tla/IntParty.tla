------------------------------ MODULE IntParty ------------------------------
(***************************************************************************)
(* The parties as the char-server keeps them (char/int_party.c): in its    *)
(* memory, once loaded, and in its tables.  An operation takes and returns *)
(* c, what the char-server has and sends:                                  *)
(*   mem    id -> party in memory                                          *)
(*   row    id -> row of the party table                                   *)
(*   chars  character -> its party_id and base_level in the char table     *)
(*   online characters whose row says so                                   *)
(*   out    the messages to the map-server                                 *)
(* A character is named by its char_id; 0 is none, and no party.  Families *)
(* (a child does not count for the sharing of experience), names, the      *)
(* sharing of items and where a member is are not modelled.                *)
(***************************************************************************)
EXTENDS Integers, Sequences, FiniteSets, FiniteSetsExt

CONSTANTS Player, PartyId,
          MaxParty,    \* MAX_PARTY: places in a party
          Level,       \* bound: base levels
          ShareLevel   \* party_share_level: how far apart who shares may be

ASSUME PlayerAssumption ==
    Player \subseteq Nat \ {0} /\ IsFiniteSet(Player) /\ PartyId \subseteq Nat \ {0}
ASSUME LevelAssumption ==
    /\ Level \subseteq Nat \ {0} /\ IsFiniteSet(Level) /\ Level # {}
    /\ ShareLevel \in Nat /\ MaxParty \in Nat \ {0}

Place == 1..MaxParty
NoMember == [p |-> 0, online |-> FALSE, leader |-> FALSE, lv |-> 0]
Member == [p : Player, online : BOOLEAN, leader : BOOLEAN, lv : Level]

\* min, max: the levels of who is online; above and below all if nobody is.
NotInMemory == [loaded |-> FALSE, slots |-> [s \in Place |-> NoMember],
                exp |-> FALSE, min |-> 0, max |-> 0]

Members(slots) == {slots[s].p : s \in Place} \ {0}
Leaders(slots) == {s \in Place : slots[s].leader}
PlaceOf(slots, p) == Min({s \in Place : slots[s].p = p})
Free(slots) == {s \in Place : slots[s].p = 0}
OnlineIn(pt) == {s \in Place : pt.slots[s].p # 0 /\ pt.slots[s].online}

\* party.count is the number of those online: kept by every handler.
CheckExpShare(pt) == Cardinality(OnlineIn(pt)) < 2 \/ pt.max - pt.min <= ShareLevel

\* inter_party_check_lv, inter_party_calc_state
CheckLv(pt) ==
    LET levels == {pt.slots[s].lv : s \in OnlineIn(pt)}
        r == [pt EXCEPT !.min = IF levels = {} THEN Max(Level) + 1 ELSE Min(levels),
                        !.max = IF levels = {} THEN 0 ELSE Max(levels)]
    IN  [r EXCEPT !.exp = @ /\ CheckExpShare(r)]

Optioned(id, pt, denied) == [type |-> "option", id |-> id, exp |-> pt.exp, denied |-> denied]
Shown(slots) == [s \in Place |-> [p |-> slots[s].p, online |-> slots[s].online,
                                  leader |-> slots[s].leader]]
Info(id, pt, p) == [type |-> "info", id |-> id, slots |-> Shown(pt.slots), exp |-> pt.exp, p |-> p]

Tell(c, msg) == [c EXCEPT !.out = Append(@, msg)]

\* Mutant: the map-server is not told that experience is not shared any more.
KeepSilently(c, id, pt) == [c EXCEPT !.mem[id] = pt]

\* pt is the party as it is now; who shared and is out of range is told.
Keep(c, id, pt) ==
    LET kept == [c EXCEPT !.mem[id] = pt]
    IN  IF c.mem[id].exp /\ ~pt.exp THEN Tell(kept, Optioned(id, pt, FALSE)) ELSE kept

\* Mutant: a party in memory is read again from the tables.
FromSqlAgain(c, id) ==
    LET ps == {p \in Player : c.chars[p].party = id}
        Nth(n) == {p \in ps : Cardinality({q \in ps : q < p}) = n - 1}
        Loads(p) == [p |-> p, online |-> p \in c.online, leader |-> c.row[id].leader = p,
                     lv |-> c.chars[p].lv]
        pt == [loaded |-> TRUE, exp |-> c.row[id].exp, min |-> 0, max |-> 0,
               slots |-> [s \in Place |-> IF Nth(s) = {} THEN NoMember
                                          ELSE Loads(CHOOSE p \in Nth(s) : TRUE)]]
    IN  IF id = 0 \/ ~c.row[id].exists THEN c
        ELSE Keep([c EXCEPT !.mem[id] = pt], id, CheckLv(pt))

\* A party is loaded when it is asked for; members in the order of their ids.
FromSql(c, id) ==
    LET ps == {p \in Player : c.chars[p].party = id}
        Nth(n) == {p \in ps : Cardinality({q \in ps : q < p}) = n - 1}
        Loads(p) == [p |-> p, online |-> p \in c.online, leader |-> c.row[id].leader = p,
                     lv |-> c.chars[p].lv]
        pt == [loaded |-> TRUE, exp |-> c.row[id].exp, min |-> 0, max |-> 0,
               slots |-> [s \in Place |-> IF Nth(s) = {} THEN NoMember
                                          ELSE Loads(CHOOSE p \in Nth(s) : TRUE)]]
    IN  IF id = 0 \/ c.mem[id].loaded \/ ~c.row[id].exists THEN c
        ELSE Keep([c EXCEPT !.mem[id] = pt], id, CheckLv(pt))

Known(c, id) == id # 0 /\ c.mem[id].loaded

-----------------------------------------------------------------------------
(* The requests of the map-server. *)

CreateParty(c, id, p, lv) ==
    LET pt == CheckLv([NotInMemory EXCEPT
                  !.loaded = TRUE,
                  !.slots[1] = [p |-> p, online |-> TRUE, leader |-> TRUE, lv |-> lv]])
    IN  Tell(Tell([c EXCEPT !.mem[id] = pt, !.chars[p].party = id,
                            !.row[id] = [exists |-> TRUE, leader |-> p, exp |-> FALSE]],
                  Info(id, pt, 0)),
             [type |-> "created", p |-> p, id |-> id])

PartyInfo(c0, id, p) ==
    LET c == FromSql(c0, id)
    IN  Tell(c, IF Known(c, id) THEN Info(id, c.mem[id], p)
                ELSE [type |-> "noinfo", id |-> id, p |-> p])

\* Nobody looks whether p is in this party, or another one, already.
PartyAddMember(c0, id, p, lv) ==
    LET c == FromSql(c0, id)
        old == c.mem[id]
        pt == [old EXCEPT !.slots[Min(Free(old.slots))] =
                             [p |-> p, online |-> TRUE, leader |-> FALSE, lv |-> lv]]
        size == MaxParty - Cardinality(Free(pt.slots))
        kept == Keep(c, id, IF size \in {2, 3} \/ lv < pt.min \/ lv > pt.max
                            THEN CheckLv(pt) ELSE pt)
    IN  IF ~Known(c, id) \/ (id # 0 /\ Free(old.slots) = {})
        THEN Tell(c, [type |-> "added", id |-> id, p |-> p, ok |-> FALSE])
        ELSE Tell(Tell([kept EXCEPT !.chars[p].party = id], Info(id, kept.mem[id], 0)),
                  [type |-> "added", id |-> id, p |-> p, ok |-> TRUE])

PartyChangeOption(c0, id, exp) ==
    LET c == FromSql(c0, id)
        denied == exp /\ ~CheckExpShare(c.mem[id])
        pt == [c.mem[id] EXCEPT !.exp = exp /\ ~denied]
    IN  IF ~Known(c, id) THEN c
        ELSE Tell([c EXCEPT !.mem[id] = pt, !.row[id].exp = pt.exp], Optioned(id, pt, denied))

\* Mutant: the party is deleted from its table but kept in memory.
BrokenStays(c, id) ==
    [c EXCEPT !.row[id].exists = FALSE,
              !.chars = [p \in Player |-> IF @[p].party = id THEN [@[p] EXCEPT !.party = 0]
                                          ELSE @[p]]]

\* Nobody of the party is left in any table.
Broken(c, id) ==
    [c EXCEPT !.mem[id] = NotInMemory, !.row[id].exists = FALSE,
              !.chars = [p \in Player |-> IF @[p].party = id THEN [@[p] EXCEPT !.party = 0]
                                          ELSE @[p]]]

\* The place is blanked before PS_DELMEMBER is asked for, with the account and
\* character in it: the UPDATE finds no row, that of p keeps its party_id.
PartyLeave(c0, id, p) ==
    LET c == FromSql(c0, id)
        s == PlaceOf(c.mem[id].slots, p)
        lv == c.mem[id].slots[s].lv
        out == [c.mem[id] EXCEPT !.slots[s] = NoMember]
        left == Tell(c, [type |-> "withdraw", id |-> id, p |-> p])
        kept == Keep(left, id, IF lv \in {out.min, out.max} THEN CheckLv(out) ELSE out)
    IN  IF ~Known(c, id) THEN [c EXCEPT !.chars = Broken(c, id).chars]
        ELSE IF p \notin Members(c.mem[id].slots) THEN c
        ELSE IF Members(out.slots) = {}
        THEN Broken(Tell(kept, [type |-> "broken", id |-> id]), id)
        ELSE Tell(kept, Info(id, kept.mem[id], 0))

\* Mutant: a level between those of the others is not looked at when it changes.
ChangedLevelUnchecked(pt, s, online, lv) ==
    LET on == [pt EXCEPT !.slots[s].online = online]
        old == pt.slots[s].lv
    IN  IF old = lv THEN on ELSE [on EXCEPT !.slots[s].lv = lv]

\* The range is looked at when it can have changed: the one who comes or goes
\* is at its end, or comes with a level that is; whose level changes was at its
\* end.  (A level that grows past the end from within is not noticed.)
ChangedLevel(pt, s, online, lv) ==
    LET on == [pt EXCEPT !.slots[s].online = online]
        now == [on EXCEPT !.slots[s].lv = lv]
        old == pt.slots[s].lv
    IN  IF \/ /\ pt.slots[s].online # online
              /\ \/ old <= pt.min \/ old >= pt.max
                 \/ old # lv /\ (lv <= pt.min \/ lv >= pt.max)
           \/ old # lv /\ old \in {pt.min, pt.max}
        THEN CheckLv(now) ELSE now

\* elsewhere: it is on another map than before.
PartyChangeMap(c0, id, p, online, lv, elsewhere) ==
    LET c == FromSql(c0, id)
        s == PlaceOf(c.mem[id].slots, p)
        kept == Keep(c, id, ChangedLevel(c.mem[id], s, online, lv))
        moved == [type |-> "moved", id |-> id, p |-> p, online |-> online]
        seen == IF c.mem[id].slots[s].online # online THEN Tell(kept, moved) ELSE kept
    IN  IF ~Known(c, id) \/ (id # 0 /\ p \notin Members(c.mem[id].slots)) THEN c
        ELSE IF elsewhere THEN Tell(seen, moved) ELSE seen

\* Mutant: the one who leads so far is not asked to stop.
PartyLeaderChangeAdds(c0, id, p) ==
    LET c == FromSql(c0, id)
        Now(m) == [m EXCEPT !.leader = @ \/ (m.p = p /\ p # 0)]
    IN  IF ~Known(c, id) THEN c
        ELSE [c EXCEPT !.mem[id].slots = [s \in Place |-> Now(@[s])],
                       !.row[id].leader = IF p \in Members(c.mem[id].slots) THEN p ELSE @]

\* If p is no member any more, nobody leads.
PartyLeaderChange(c0, id, p) ==
    LET c == FromSql(c0, id)
        Now(m) == [m EXCEPT !.leader = (m.p = p /\ p # 0)]
    IN  IF ~Known(c, id) THEN c
        ELSE [c EXCEPT !.mem[id].slots = [s \in Place |-> Now(@[s])],
                       !.row[id].leader = IF p \in Members(c.mem[id].slots) THEN p ELSE @]

=============================================================================
