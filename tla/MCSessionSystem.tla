-------------------------- MODULE MCSessionSystem ---------------------------
(***************************************************************************)
(* Bounded instances of SessionSystem: one char-server, in slot 0 of the   *)
(* login-server, one account, one character.                               *)
(***************************************************************************)
EXTENDS SessionSystem, TLC

MCAccount == {2000001}
MCOwner == [c \in Char |-> 2000001]
Symm == Permutations(Token)

MCAccountList == {<< >>, <<2000001>>}

=============================================================================
