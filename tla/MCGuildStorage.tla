--------------------------- MODULE MCGuildStorage ---------------------------
(***************************************************************************)
(* Bounded instances of GuildStorage: who is on the map, who owns what.    *)
(* sword is bound to the guild.                                            *)
(***************************************************************************)
EXTENDS GuildStorage, TLC

CONSTANTS p1, p2, sword, nut

Owns(b1, b2) == (p1 :> b1) @@ (p2 :> b2)
Only(i) == [Empty EXCEPT ![i] = 1]

\* Two members on the map use the storage in turns; nobody leaves.
InTurns == [online |-> Player, inv |-> Owns(Only(nut), Empty), db |-> Empty, leave |-> FALSE, queue |-> 3]

\* One on the map, one not, who has an item of the guild.
Expulsion == [online |-> {p1}, inv |-> Owns(Empty, Only(sword)), db |-> Empty, leave |-> TRUE, queue |-> 2]

\* Both on the map, one item of the guild, one in the storage already.
Leaving == [online |-> Player, inv |-> Owns(Only(sword), Empty), db |-> Only(nut), leave |-> TRUE, queue |-> 1]

MCSetups == {InTurns, Expulsion, Leaving}

=============================================================================
