------------------------------ MODULE MCParty -------------------------------
(***************************************************************************)
(* Bounded instances of Party: who is in party 1 at the start, who comes   *)
(* into the game, and what players do there.                               *)
(***************************************************************************)
EXTENDS Party, TLC

AllOf(lv) == [p \in Player |-> lv]

\* Three share experience, or want to, and gain levels.
Sharing == [members |-> {1, 2, 3}, comes |-> {1, 2, 3}, exp |-> FALSE, queue |-> 2,
            lv |-> [p \in Player |-> IF p = 3 THEN 2 ELSE 1],
            acts |-> {"option", "level", "move"}]

\* So do two who come and go, and are out of range when both are there.
Meeting == [members |-> {1, 2}, comes |-> {1, 2}, exp |-> TRUE, queue |-> 2,
            lv |-> [p \in Player |-> IF p = 2 THEN 4 ELSE 1],
            acts |-> {"option", "move", "quit"}]

\* One leads, another is made leader, members leave and are expelled.
Leading == [members |-> {1, 2, 3}, comes |-> {1, 2, 3}, exp |-> FALSE, queue |-> 3,
            lv |-> AllOf(1), acts |-> {"lead", "expel", "leave"}]

\* So two do, who also quit and come back; the third member is away.
Quitting == [members |-> {1, 2, 3}, comes |-> {1, 2}, exp |-> FALSE, queue |-> 2,
             lv |-> AllOf(1), acts |-> {"lead", "expel", "leave", "quit"}]

\* Two players without a party create and join.
Joining == [members |-> {}, comes |-> {1, 2}, exp |-> FALSE, queue |-> 2, lv |-> AllOf(1),
            acts |-> {"create", "invite", "quit"}]

\* One invites another and leaves: the party is no more, or the invited one is
\* alone in it.
Inviting == [members |-> {1}, comes |-> {1, 2}, exp |-> FALSE, queue |-> 2, lv |-> AllOf(1),
             acts |-> {"invite", "leave", "quit"}]

\* Two members leave the party and the game while the link fails.
Losing == [members |-> {1, 2}, comes |-> {1, 2}, exp |-> FALSE, queue |-> 2, lv |-> AllOf(1),
           acts |-> {"leave", "quit", "save", "lose", "delete"}]

\* One creates a party, joins another and leaves, and the char-server starts again:
\* it may be in both, or in one that it had left.
Dividing == [members |-> {1}, comes |-> {1, 2}, exp |-> FALSE, queue |-> 1, lv |-> AllOf(1),
             acts |-> {"create", "invite", "leave", "lose"}]

MCSetups == {Sharing, Meeting, Leading, Quitting, Joining, Inviting, Losing, Dividing}

=============================================================================
