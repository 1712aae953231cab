--------------------------- MODULE MCLoginServer ---------------------------
(***************************************************************************)
(* Bounded instances of LoginServer.  Account ids are numbers, as in the   *)
(* program, because a packet of them is read at another offset than it is  *)
(* written: 2000001 and 2000002 are two ids a server really assigns.       *)
(***************************************************************************)
EXTENDS LoginServer

MCAccount == {2000001, 2000002}
MCOneAccount == {2000001}

\* The lists a char-server may report: nobody, or one account.
MCAccountList == {<< >>} \cup {<<a>> : a \in Account}
=============================================================================
