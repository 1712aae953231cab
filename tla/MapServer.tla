----------------------------- MODULE MapServer ------------------------------
(***************************************************************************)
(* The map-server's side of a session (src/map/chrif.c, with map_quit, the *)
(* connection handlers of clif.c and the registries of intif.c and pc.c):  *)
(* the characters being played, the auth_db of chrif.c that holds those    *)
(* logging in and those whose last save was not confirmed, the client      *)
(* connections, and the connection to the char-server.                     *)
(*                                                                         *)
(* A client has one socket to the map-server at a time: its session is     *)
(* named by the token of its login.  A session without data (session_data  *)
(* is NULL) only waits to be closed and is not represented.                *)
(***************************************************************************)
EXTENDS Integers, Sequences, FiniteSets, Idb

CONSTANTS Account, Token, Char,
          Owner,     \* the account of each character
          MaxQueue,  \* bound: packets on the link before a spontaneous send
          MaxVer,    \* bound: the last version of a character's data
          NoToken

VARIABLES
    chrif,    \* chrif.fd and chrif.state: "down", "wait" (connected, 0 or 1)
              \* or "ready" (2)
    mapAuth,  \* chrif.auth_db: account -> node, see AuthNode
    pc,       \* active characters: account -> [char, tok, fd, ver]
    mapSess,  \* client sessions with data: token -> [acc, char, eof]
    latest,   \* history: character -> the last version made in the game
    toMap, fromMap   \* packets from and to the char-server, not parsed yet

mapData == <<mapAuth, pc, mapSess, latest>>

\* Data that was never loaded.
Blank == 0

\* The registries a character needs; each kind arrives in a packet of its own.
RegPart == {"local", "acc2"}

\* ST_LOGIN: fd is the session and ver what pc_authok stored, regs what of
\* vars_received came.  ST_LOGOUT: ver is the data to be saved.
AuthNode == [state : {"login", "logout"}, char : Char, tok : Token,
             fd : Token \cup {NoToken}, ver : Nat, regs : SUBSET RegPart]

MapInit ==
    /\ chrif = "down"
    /\ mapAuth = NoEntries
    /\ pc = NoEntries
    /\ mapSess = NoEntries

MapTypeOK ==
    /\ chrif \in {"down", "wait", "ready"}
    /\ IsIdb(mapAuth, Account, AuthNode)
    /\ IsIdb(pc, Account, [char : Char, tok : Token, ver : Nat,
                           fd : Token \cup {NoToken}])
    /\ IsIdb(mapSess, Token, [acc : Account, char : Char, eof : BOOLEAN])
    /\ latest \in [Char -> Nat]

-----------------------------------------------------------------------------
(* Sending and receiving. *)

\* chrif_isconnected: what is sent otherwise is dropped by the sender.
Send(ms) == fromMap' = IF chrif = "ready" THEN fromMap \o ms ELSE fromMap

\* A request that nothing on the link called for waits until there is room.
RoomToChar == Len(fromMap) + Len(toMap) < MaxQueue

FromCharServer(type) == /\ chrif # "down"
                        /\ toMap # << >>
                        /\ Head(toMap).type = type
                        /\ toMap' = Tail(toMap)

SaveMsg(a, c, v, final) ==
    [type |-> "save", acc |-> a, char |-> c, ver |-> v, final |-> final]

CharOfflineMsg(a, c) == [type |-> "offline", acc |-> a, char |-> c]

-----------------------------------------------------------------------------
(* auth_db. *)

LoggingIn(a)  == a \in DOMAIN mapAuth /\ mapAuth[a].state = "login"
LoggingOut(a) == a \in DOMAIN mapAuth /\ mapAuth[a].state = "logout"

\* chrif_auth_check.
AuthCheck(a, c, state) ==
    a \in DOMAIN mapAuth /\ mapAuth[a].char = c /\ mapAuth[a].state = state

\* chrif_auth_delete of the node of a: its session loses its data.
AuthDelete(a) == /\ mapAuth' = IdbRemove(mapAuth, a)
                 /\ mapSess' = IdbRemove(mapSess, mapAuth[a].fd)

\* map_quit of the active character of a: chrif_save(sd, 1) moves it to
\* auth_db, gives up its session and sends the final save.
MapQuit(a) ==
    /\ mapAuth' = IdbPut(mapAuth, a,
          [state |-> "logout", char |-> pc[a].char, tok |-> pc[a].tok,
           fd |-> NoToken, ver |-> pc[a].ver, regs |-> {}])
    /\ pc' = IdbRemove(pc, a)
    /\ Send(<<SaveMsg(a, pc[a].char, pc[a].ver, TRUE)>>)

-----------------------------------------------------------------------------
(* Clients. *)

\* Mutant: a node whose last save is not confirmed does not refuse the client.
WantToConnectionEarly(t, a, c) ==
    /\ t \notin DOMAIN mapSess
    /\ a \notin DOMAIN pc
    /\ ~LoggingIn(a)
    /\ RoomToChar
    /\ chrif = "ready"
    /\ mapSess' = IdbPut(mapSess, t, [acc |-> a, char |-> c, eof |-> FALSE])
    /\ mapAuth' = IdbPut(mapAuth, a, [state |-> "login", char |-> c, tok |-> t,
                                      fd |-> t, ver |-> Blank, regs |-> {}])
    /\ Send(<<[type |-> "auth", acc |-> a, char |-> c, tok |-> t]>>)
    /\ UNCHANGED <<chrif, pc, latest, toMap>>

\* Mutant: a character in play does not refuse the client.
WantToConnectionTwice(t, a, c) ==
    /\ t \notin DOMAIN mapSess
    /\ a \notin DOMAIN mapAuth
    /\ RoomToChar
    /\ chrif = "ready"
    /\ mapSess' = IdbPut(mapSess, t, [acc |-> a, char |-> c, eof |-> FALSE])
    /\ mapAuth' = IdbPut(mapAuth, a, [state |-> "login", char |-> c, tok |-> t,
                                      fd |-> t, ver |-> Blank, regs |-> {}])
    /\ Send(<<[type |-> "auth", acc |-> a, char |-> c, tok |-> t]>>)
    /\ UNCHANGED <<chrif, pc, latest, toMap>>

\* clif_parse_WantToConnection, not refused, and chrif_authreq.
WantToConnection(t, a, c) ==
    /\ t \notin DOMAIN mapSess
    /\ a \notin DOMAIN pc
    /\ a \in DOMAIN mapAuth => AuthCheck(a, c, "login")
    /\ RoomToChar
    /\ LET asks == a \notin DOMAIN mapAuth /\ chrif = "ready"
       IN  /\ mapSess' = IdbPut(mapSess, t, [acc |-> a, char |-> c, eof |-> ~asks])
           /\ mapAuth' = IF asks
                         THEN IdbPut(mapAuth, a,
                                 [state |-> "login", char |-> c, tok |-> t,
                                  fd |-> t, ver |-> Blank, regs |-> {}])
                         ELSE mapAuth
           /\ Send(IF asks THEN <<[type |-> "auth", acc |-> a, char |-> c,
                                   tok |-> t]>> ELSE << >>)
    /\ UNCHANGED <<chrif, pc, latest, toMap>>

\* The client closes its connection.
MapClientEof(t) ==
    /\ t \in DOMAIN mapSess /\ ~mapSess[t].eof
    /\ mapSess' = [mapSess EXCEPT ![t].eof = TRUE]
    /\ UNCHANGED <<chrif, mapAuth, pc, latest, toMap, fromMap>>

Plays(t, a) == a \in DOMAIN pc /\ pc[a].fd = t

\* clif_parse on a session at eof, clif_quitsave: the character leaves now.
ClifParseEofQuit(t) ==
    /\ t \in DOMAIN mapSess /\ mapSess[t].eof
    /\ Plays(t, mapSess[t].acc)
    /\ RoomToChar
    /\ MapQuit(mapSess[t].acc)
    /\ mapSess' = IdbRemove(mapSess, t)
    /\ UNCHANGED <<chrif, latest, toMap>>

\* The same while prevent_logout forbids to leave: the character stays.
ClifParseEofDelayed(t) ==
    /\ t \in DOMAIN mapSess /\ mapSess[t].eof
    /\ Plays(t, mapSess[t].acc)
    /\ pc' = [pc EXCEPT ![mapSess[t].acc].fd = NoToken]
    /\ mapSess' = IdbRemove(mapSess, t)
    /\ UNCHANGED <<chrif, mapAuth, latest, toMap, fromMap>>

\* Mutant: the node of the character stays.
ClifParseEofInactiveKeepsNode(t) ==
    /\ t \in DOMAIN mapSess /\ mapSess[t].eof
    /\ ~Plays(t, mapSess[t].acc)
    /\ mapSess' = IdbRemove(mapSess, t)
    /\ UNCHANGED <<chrif, mapAuth, pc, latest, toMap, fromMap>>

\* The same for a session that is not active, map_quit: the node of the same
\* character goes, whichever session it belongs to.
ClifParseEofInactive(t) ==
    /\ t \in DOMAIN mapSess /\ mapSess[t].eof
    /\ LET a == mapSess[t].acc
       IN  /\ ~Plays(t, a)
           /\ IF AuthCheck(a, mapSess[t].char, "login")
              THEN /\ mapAuth' = IdbRemove(mapAuth, a)
                   /\ mapSess' = IdbRemove(IdbRemove(mapSess, mapAuth[a].fd), t)
              ELSE /\ mapSess' = IdbRemove(mapSess, t)
                   /\ UNCHANGED mapAuth
    /\ UNCHANGED <<chrif, pc, latest, toMap, fromMap>>

\* clif_delayquit, ten seconds later.
ClifDelayQuit(a) ==
    /\ a \in DOMAIN pc /\ pc[a].fd = NoToken
    /\ RoomToChar
    /\ MapQuit(a)
    /\ UNCHANGED <<chrif, mapSess, latest, toMap>>

\* Anything that changes the character.
Play(a) ==
    /\ a \in DOMAIN pc /\ pc[a].ver < MaxVer
    /\ pc' = [pc EXCEPT ![a].ver = @ + 1]
    /\ latest' = [latest EXCEPT ![pc[a].char] = pc[a].ver + 1]
    /\ UNCHANGED <<chrif, mapAuth, mapSess, toMap, fromMap>>

\* chrif_save(sd, 0): autosave, trades, storage and the like.
AutoSave(a) ==
    /\ a \in DOMAIN pc /\ chrif = "ready" /\ RoomToChar
    /\ Send(<<SaveMsg(a, pc[a].char, pc[a].ver, FALSE)>>)
    /\ UNCHANGED <<chrif, mapData, toMap>>

\* clif_parse_Restart, type 1, and chrif_charselectreq.
ClifParseRestart(t, a) ==
    /\ t \in DOMAIN mapSess /\ ~mapSess[t].eof
    /\ Plays(t, a) /\ chrif = "ready" /\ RoomToChar
    /\ Send(<<[type |-> "charSelect", acc |-> a, tok |-> t]>>)
    /\ UNCHANGED <<chrif, mapData, toMap>>

\* Mutant: an old node is dropped, whichever it is.
AuthDbCleanupDrops(a) ==
    /\ a \in DOMAIN mapAuth /\ chrif = "ready" /\ RoomToChar
    /\ Send(<<CharOfflineMsg(a, mapAuth[a].char)>>)
    /\ AuthDelete(a)
    /\ UNCHANGED <<chrif, pc, latest, toMap>>

\* auth_db_cleanup_sub for a node older than a minute.
AuthDbCleanup(a) ==
    /\ a \in DOMAIN mapAuth /\ chrif = "ready" /\ RoomToChar
    /\ \/ /\ LoggingOut(a)
          /\ Send(<<SaveMsg(a, mapAuth[a].char, mapAuth[a].ver, TRUE)>>)
          /\ UNCHANGED <<mapAuth, mapSess>>
       \/ /\ LoggingIn(a)
          /\ Send(<<CharOfflineMsg(a, mapAuth[a].char)>>)
          /\ AuthDelete(a)
    /\ UNCHANGED <<chrif, pc, latest, toMap>>

-----------------------------------------------------------------------------
(* Packets from the char-server. *)

\* 0x2af9, chrif_connectack: the names of the maps are sent.
ChrifConnectAck ==
    /\ FromCharServer("connectAck")
    /\ fromMap' = Append(fromMap, [type |-> "maps"])
    /\ UNCHANGED <<chrif, mapData>>

\* Mutant: the nodes are cleared, and none is saved again.
ChrifOnReadyClears ==
    /\ FromCharServer("mapsAck")
    /\ chrif' = "ready"
    /\ fromMap' = Append(fromMap, [type |-> "users", users |->
                     {[acc |-> a, char |-> pc[a].char] : a \in DOMAIN pc}])
    /\ mapAuth' = NoEntries
    /\ mapSess' = [t \in DOMAIN mapSess \ {mapAuth[a].fd : a \in DOMAIN mapAuth}
                       |-> mapSess[t]]
    /\ UNCHANGED <<pc, latest>>

\* 0x2afb, chrif_sendmapack and chrif_on_ready: the players first, then what
\* becomes of each node (chrif_reconnect).
ChrifOnReady ==
    /\ FromCharServer("mapsAck")
    /\ chrif' = "ready"
    /\ LET users == {[acc |-> a, char |-> pc[a].char] : a \in DOMAIN pc}
           ins   == {a \in DOMAIN mapAuth : LoggingIn(a)}
           MsgOf(a) == IF a \in ins THEN CharOfflineMsg(a, mapAuth[a].char)
                       ELSE SaveMsg(a, mapAuth[a].char, mapAuth[a].ver, TRUE)
       IN  /\ \E order \in [1..Cardinality(DOMAIN mapAuth) -> DOMAIN mapAuth] :
                 /\ {order[i] : i \in DOMAIN order} = DOMAIN mapAuth
                 /\ fromMap' = Append(fromMap, [type |-> "users", users |-> users])
                                  \o [i \in DOMAIN order |-> MsgOf(order[i])]
           /\ mapAuth' = [a \in DOMAIN mapAuth \ ins |-> mapAuth[a]]
           /\ mapSess' = [t \in DOMAIN mapSess \ {mapAuth[a].fd : a \in ins}
                              |-> mapSess[t]]
    /\ UNCHANGED <<pc, latest>>

\* 0x2afd, chrif_authok.  With the data comes the request for the registries.
ChrifAuthOk ==
    /\ FromCharServer("authOk")
    /\ LET m == Head(toMap)
           a == m.acc
           ok == mapAuth[a].char = m.char /\ mapAuth[a].tok = m.tok
       IN  \/ /\ a \in DOMAIN pc \/ ~LoggingIn(a)
              /\ UNCHANGED <<mapAuth, mapSess, fromMap>>
           \/ /\ a \notin DOMAIN pc /\ LoggingIn(a) /\ ok
              /\ mapAuth' = [mapAuth EXCEPT ![a].ver = m.ver]
              /\ Send(<<[type |-> "regReq", acc |-> a, char |-> m.char]>>)
              /\ UNCHANGED mapSess
           \/ /\ a \notin DOMAIN pc /\ LoggingIn(a) /\ ~ok
              /\ Send(<<CharOfflineMsg(a, mapAuth[a].char)>>)
              /\ IF m.char = mapAuth[a].char THEN AuthDelete(a)
                 ELSE /\ mapSess' = [mapSess EXCEPT ![mapAuth[a].fd].eof = TRUE]
                      /\ UNCHANGED mapAuth
    /\ UNCHANGED <<chrif, pc, latest>>

\* 0x2b27, chrif_authfail.
ChrifAuthFail ==
    /\ FromCharServer("authFail")
    /\ LET m == Head(toMap)
       IN  \/ /\ AuthCheck(m.acc, m.char, "login") /\ mapAuth[m.acc].tok = m.tok
              /\ AuthDelete(m.acc)
           \/ /\ ~(AuthCheck(m.acc, m.char, "login") /\ mapAuth[m.acc].tok = m.tok)
              /\ UNCHANGED <<mapAuth, mapSess>>
    /\ UNCHANGED <<chrif, pc, latest, fromMap>>

\* 0x2b21, chrif_save_ack.
ChrifSaveAck ==
    /\ FromCharServer("saveAck")
    /\ LET m == Head(toMap)
       IN  mapAuth' = IF AuthCheck(m.acc, m.char, "logout")
                      THEN IdbRemove(mapAuth, m.acc) ELSE mapAuth
    /\ UNCHANGED <<chrif, pc, mapSess, latest, fromMap>>

\* 0x2b1f, chrif_disconnectplayer.  A player without a connection stays.
ChrifDisconnectPlayer ==
    /\ FromCharServer("disconnect")
    /\ LET a == Head(toMap).acc
       IN  \/ /\ a \in DOMAIN pc /\ pc[a].fd \in DOMAIN mapSess
              /\ mapSess' = [mapSess EXCEPT ![pc[a].fd].eof = TRUE]
              /\ UNCHANGED mapAuth
           \/ /\ a \notin DOMAIN pc /\ LoggingIn(a)
              /\ AuthDelete(a)
           \/ /\ IF a \in DOMAIN pc THEN pc[a].fd \notin DOMAIN mapSess
                                    ELSE ~LoggingIn(a)
              /\ UNCHANGED <<mapAuth, mapSess>>
    /\ UNCHANGED <<chrif, pc, latest, fromMap>>

\* 0x2b03, clif_charselectok: told to the client.
ChrifCharSelectAck ==
    /\ FromCharServer("selectAck")
    /\ UNCHANGED <<chrif, mapData, fromMap>>

\* 0x3804, intif_parse_Registers, and pc_reg_received when the last one came:
\* the character becomes active and its node goes.
IntifParseRegisters ==
    /\ FromCharServer("regs")
    /\ LET m    == Head(toMap)
           a    == m.acc
           node == mapAuth[a]
           all  == node.regs \cup {m.part}
       IN  \/ /\ ~AuthCheck(a, m.char, "login")
              /\ UNCHANGED <<mapAuth, pc>>
           \/ /\ AuthCheck(a, m.char, "login") /\ all # RegPart
              /\ mapAuth' = [mapAuth EXCEPT ![a].regs = all]
              /\ UNCHANGED pc
           \/ /\ AuthCheck(a, m.char, "login") /\ all = RegPart
              /\ mapAuth' = IdbRemove(mapAuth, a)
              /\ pc' = IdbPut(pc, a, [char |-> node.char, tok |-> node.tok,
                                      fd |-> node.fd, ver |-> node.ver])
    /\ UNCHANGED <<chrif, mapSess, latest, fromMap>>

-----------------------------------------------------------------------------
(* The link and the process. *)

\* check_connect_char_server, connected.
ChrifConnect ==
    /\ chrif = "down"
    /\ chrif' = "wait"
    /\ UNCHANGED mapData

\* chrif_parse on the connection at eof, chrif_on_disconnect.
ChrifLost ==
    /\ chrif # "down"
    /\ chrif' = "down"
    /\ UNCHANGED mapData

\* The process dies and is started again: what was not saved never was.
MapRestart(saved) ==
    /\ chrif' = "down"
    /\ mapAuth' = NoEntries
    /\ pc' = NoEntries
    /\ mapSess' = NoEntries
    /\ latest' = saved
=============================================================================
