----------------------------- MODULE Inventory ------------------------------
(***************************************************************************)
(* What the map-server does to the items and the zeny a character carries. *)
(* An item stands for all that must be equal for two units to share a slot *)
(* (nameid, cards, bound, unique id); Name is its nameid alone.  A slot    *)
(* holds some units of one item; every item stacks and weighs 1 a unit.    *)
(* An operation returns the slots as it leaves them: unchanged if it fails. *)
(***************************************************************************)
EXTENDS Integers, FiniteSets, FiniteSetsExt

CONSTANTS Item, NoItem,
          Name,         \* an item's nameid
          MaxAmount,    \* MAX_AMOUNT: units in a slot
          MaxZeny,      \* MAX_ZENY
          MaxWeight     \* a character's max_weight

ASSUME ItemAssumption == NoItem \notin Item /\ Item \subseteq DOMAIN Name
ASSUME LimitsAssumption == MaxAmount \in Nat \ {0} /\ MaxZeny \in Nat /\ MaxWeight \in Nat

Stack == [item : Item \union {NoItem}, amount : 0..MaxAmount]
NoStack == [item |-> NoItem, amount |-> 0]
\* No item is in two slots, and a slot is empty if it is no item's.
Tidy(slots) ==
    \A s, t \in DOMAIN slots :
        IF slots[s].item = NoItem THEN slots[s].amount = 0
        ELSE slots[s].amount > 0 /\ (slots[s].item = slots[t].item => s = t)
Slots(S) == {slots \in [S -> Stack] : Tidy(slots)}

Holding(slots, item) == {s \in DOMAIN slots : slots[s].item = item}
Named(slots, name) ==
    {s \in DOMAIN slots : slots[s].item # NoItem /\ Name[slots[s].item] = name}
UnitsOf(slots, item) == MapThenSumSet(LAMBDA s : slots[s].amount, Holding(slots, item))
Weight(slots) == MapThenSumSet(LAMBDA s : slots[s].amount, DOMAIN slots)

\* n more units of an item: in its own slot, or else in the first free one.
Placed(slots, item, n) ==
    LET same == Holding(slots, item)
        free == Holding(slots, NoItem)
    IN  IF same # {} /\ slots[Min(same)].amount + n <= MaxAmount
        THEN [slots EXCEPT ![Min(same)].amount = @ + n]
        ELSE IF same = {} /\ free # {} /\ n <= MaxAmount
        THEN [slots EXCEPT ![Min(free)] = [item |-> item, amount |-> n]]
        ELSE slots

PcAddItem(slots, item, n) ==
    IF item # NoItem /\ n > 0 /\ Weight(slots) + n <= MaxWeight
    THEN Placed(slots, item, n) ELSE slots

\* The cart's weight limit is not modelled: its slots are the limit.
PcCartAddItem(slots, item, n) ==
    IF item # NoItem /\ n > 0 THEN Placed(slots, item, n) ELSE slots

PcDelItem(slots, s, n) ==
    IF slots[s].item = NoItem \/ n <= 0 \/ slots[s].amount < n THEN slots
    ELSE IF slots[s].amount = n THEN [slots EXCEPT ![s] = NoStack]
    ELSE [slots EXCEPT ![s].amount = @ - n]

\* Judges by the first slot of the item's name, whichever item it holds.
PcCheckAddItem(slots, item, n) ==
    LET same == Named(slots, Name[item])
    IN  IF n > MaxAmount THEN "over"
        ELSE IF same = {} THEN "new"
        ELSE IF n > MaxAmount - slots[Min(same)].amount THEN "over" ELSE "exist"

PcInventoryBlank(slots) == Cardinality(Holding(slots, NoItem))

\* Mutant: the purse has no limit.
PcGetZenyNoLimit(zeny, n) == zeny + n

PcPayZeny(zeny, n) == IF zeny < n THEN zeny ELSE zeny - n
PcGetZeny(zeny, n) == IF n > MaxZeny - zeny THEN MaxZeny ELSE zeny + n

=============================================================================
