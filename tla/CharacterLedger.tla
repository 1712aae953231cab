-------------------------- MODULE CharacterLedger ---------------------------
(***************************************************************************)
(* What the char-server and the map-server promise together about the data *)
(* of a character, whatever becomes of packets, links and processes.       *)
(*                                                                         *)
(* A character is away, in play, or has left the game with its last save   *)
(* not confirmed.  It enters with what the tables hold; the tables only go *)
(* forward, to data it really had; it is away again only when they have    *)
(* the last of it.  Only the death of the map-server makes it forget.      *)
(***************************************************************************)
EXTENDS Integers

CONSTANT Char

VARIABLES table,   \* character -> version in the tables
          where,   \* character -> "away", "inPlay" or "left"
          held     \* character -> version the game holds, unless it is away

ledger == <<table, where, held>>

LedgerInit ==
    /\ table = [c \in Char |-> 1]
    /\ where = [c \in Char |-> "away"]
    /\ held = [c \in Char |-> 1]

Enter(c) ==
    /\ where[c] = "away"
    /\ where' = [where EXCEPT ![c] = "inPlay"]
    /\ held' = [held EXCEPT ![c] = table[c]]
    /\ UNCHANGED table

Change(c) ==
    /\ where[c] = "inPlay"
    /\ held' = [held EXCEPT ![c] = @ + 1]
    /\ UNCHANGED <<table, where>>

\* A save that arrives brings some version between what is there and the last.
Save(c) ==
    /\ where[c] # "away"
    /\ \E v \in table[c]..held[c] : table' = [table EXCEPT ![c] = v]
    /\ UNCHANGED <<where, held>>

Quit(c) ==
    /\ where[c] = "inPlay"
    /\ where' = [where EXCEPT ![c] = "left"]
    /\ UNCHANGED <<table, held>>

Settle(c) ==
    /\ where[c] = "left"
    /\ table[c] = held[c]
    /\ where' = [where EXCEPT ![c] = "away"]
    /\ UNCHANGED <<table, held>>

\* The map-server dies.
Forget ==
    /\ where' = [c \in Char |-> "away"]
    /\ held' = table
    /\ UNCHANGED table

LedgerNext ==
    \/ \E c \in Char : Enter(c) \/ Change(c) \/ Save(c) \/ Quit(c) \/ Settle(c)
    \/ Forget

LedgerSpec == LedgerInit /\ [][LedgerNext]_ledger
=============================================================================
