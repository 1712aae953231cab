----------------------------- MODULE CharServer -----------------------------
(***************************************************************************)
(* The char-server (src/char/char.c) between the login-server and the      *)
(* map-server: the sessions of clients that choose a character, auth_db    *)
(* (who may enter the map-server, or come back from it), online_char_db    *)
(* (where every account is) and the character data in the SQL tables.      *)
(*                                                                         *)
(* A client has one socket to the char-server at a time, so the session of *)
(* a client is named by the token of its login.  Character data is a       *)
(* version: 0 is data that was never loaded, 1 what the tables hold at     *)
(* first, and each change made in the game is the next one.  A packet to a *)
(* peer that has closed the connection is never read.                      *)
(***************************************************************************)
EXTENDS Integers, Sequences, SequencesExt, FiniteSets, Idb

CONSTANTS Account, Token, Char,
          Owner,      \* the account of each character
          ServerId,   \* indices of the char-servers in the login-server
          Self,       \* this char-server's
          MaxQueue,   \* bound: packets on a link before a spontaneous send
          NoChar, NoToken

VARIABLES
    loginFd,     \* chr->login_fd: "lost" (-1), "none" (0) or "open" (> 0)
    mapFd,       \* server[0]: "none", "noMaps" (fd > 0) or "ready" (has maps)
    charAuth,    \* auth_db: account -> [char, tok]; no char for "char select"
    onlineChar,  \* online_char_db: account -> [char, fd, server, timer]
    charSess,    \* sessions with data: token -> [acc, auth, eof]
    sql,         \* character -> version in the tables
    toChar, fromChar,  \* the link to the login-server (see LoginServer)
    toMap, fromMap     \* packets to and from the map-server, not parsed yet

charData == <<charAuth, onlineChar, charSess, sql>>
charVars == <<loginFd, mapFd, charData>>

\* online_char_data.server: the one map-server, none, or one that is unknown.
MapServerId == 0
NoMapServer == -1
UnknownMapServer == -2

OnlineCharEntry == [char   : Char \cup {NoChar},
                    fd     : Token \cup {NoToken},
                    server : {MapServerId, NoMapServer, UnknownMapServer},
                    timer  : BOOLEAN]   \* waiting_disconnect

CharInit ==
    /\ loginFd = "none"
    /\ mapFd = "none"
    /\ charAuth = NoEntries
    /\ onlineChar = NoEntries
    /\ charSess = NoEntries

CharTypeOK ==
    /\ loginFd \in {"lost", "none", "open"}
    /\ mapFd \in {"none", "noMaps", "ready"}
    /\ IsIdb(charAuth, Account, [char : Char \cup {NoChar}, tok : Token])
    /\ IsIdb(onlineChar, Account, OnlineCharEntry)
    /\ IsIdb(charSess, Token, [acc : Account, auth : BOOLEAN, eof : BOOLEAN])
    /\ sql \in [Char -> Nat]

-----------------------------------------------------------------------------
(* Sending.  A handler that sends nothing on a link says so with << >>.    *)

ToLogin(ms) ==
    fromChar' = IF loginFd = "open" THEN [fromChar EXCEPT ![Self] = @ \o ms]
                                    ELSE fromChar

ToMapServer(ms) == toMap' = IF mapFd # "none" THEN toMap \o ms ELSE toMap

\* A request that nothing on a link called for waits until there is room on it.
RoomToLogin == Len(fromChar[Self]) + Len(toChar[Self]) < MaxQueue
RoomToMap   == Len(fromMap) + Len(toMap) < MaxQueue

OnlineMsg(a)  == [type |-> "online", acc |-> a]
OfflineMsg(a) == [type |-> "offline", acc |-> a]
DisconnectMsg(a) == [type |-> "disconnect", acc |-> a]

FromLogin(type) == /\ loginFd = "open"
                   /\ toChar[Self] # << >>
                   /\ Head(toChar[Self]).type = type
                   /\ toChar' = [toChar EXCEPT ![Self] = Tail(@)]

FromMap(type) == /\ mapFd # "none"
                 /\ fromMap # << >>
                 /\ Head(fromMap).type = type
                 /\ fromMap' = Tail(fromMap)

-----------------------------------------------------------------------------
(* online_char_db. *)

\* The entry of an account, as char_create_online_char_data makes it.
OnlineData(db, a) ==
    IF a \in DOMAIN db THEN db[a]
    ELSE [char |-> NoChar, fd |-> NoToken, server |-> NoMapServer, timer |-> FALSE]

\* Mutant: the timer of a kick is left running and the server is zeroed.
SetCharCharselectZero(db, a) ==
    IdbPut(db, a, [OnlineData(db, a) EXCEPT !.char = 0, !.server = 0])

\* char_set_char_charselect.
SetCharCharselect(db, a) ==
    IdbPut(db, a, [OnlineData(db, a) EXCEPT
                      !.char = NoChar, !.server = NoMapServer, !.timer = FALSE])

\* char_set_char_online, and whom it kicks from the server it was marked at.
SetCharOnline(db, s, c, a) ==
    IdbPut(db, a, [OnlineData(db, a) EXCEPT
                      !.char = c, !.server = s, !.timer = FALSE])

OnlineConflict(db, s, a) ==
    IF a \in DOMAIN db /\ db[a].char # NoChar /\ db[a].server = MapServerId
                       /\ s # MapServerId
    THEN <<DisconnectMsg(a)>> ELSE << >>

\* char_set_char_offline, and whether the login-server hears of it.
SetCharOffline(db, c, a) ==
    IF a \notin DOMAIN db THEN db
    ELSE [db EXCEPT ![a] =
             IF @.char = c
             THEN [@ EXCEPT !.char = NoChar, !.server = NoMapServer, !.timer = FALSE]
             ELSE [@ EXCEPT !.timer = FALSE]]

OfflineNotice(db, c, a) ==
    IF c = NoChar \/ a \notin DOMAIN db \/ db[a].fd = NoToken
    THEN <<OfflineMsg(a)>> ELSE << >>

\* char_db_setoffline over the whole database, for the map-server.
SetMapServerOffline(db) ==
    [a \in DOMAIN db |-> IF db[a].server = MapServerId
                         THEN [db[a] EXCEPT !.server = UnknownMapServer] ELSE db[a]]

-----------------------------------------------------------------------------
(* Clients. *)

\* char_auth_ok for session t of account a: sets charSess, onlineChar and the
\* links.  sess is charSess with the session in it.
AuthOk(t, a, sess) ==
    LET seen == a \in DOMAIN onlineChar
    IN  \/ /\ seen /\ onlineChar[a].server = MapServerId
           /\ onlineChar' = [onlineChar EXCEPT ![a].timer = TRUE]
           /\ charSess' = sess
           /\ ToMapServer(<<DisconnectMsg(a)>>)
           /\ ToLogin(<< >>)
        \/ /\ seen /\ onlineChar[a].server # MapServerId
           /\ onlineChar[a].fd \notin {NoToken, t}
           /\ charSess' = sess
           /\ ToMapServer(<< >>)
           /\ ToLogin(<< >>)
           /\ UNCHANGED onlineChar
        \/ /\ seen => /\ onlineChar[a].server # MapServerId
                      /\ onlineChar[a].fd \in {NoToken, t}
           /\ onlineChar' = SetCharCharselect(
                 IF seen THEN [onlineChar EXCEPT ![a].fd = t] ELSE onlineChar, a)
           /\ charSess' = [sess EXCEPT ![t].auth = TRUE]
           /\ ToLogin(<<OnlineMsg(a)>>)
           /\ ToMapServer(<< >>)

\* 0x65, char_parse_char_connect: coming back from the map-server, or coming
\* from the login-server, or (without a link to it) refused.
CharConnect(t, a) ==
    LET sess == IdbPut(charSess, t, [acc |-> a, auth |-> FALSE, eof |-> FALSE])
        back == a \in DOMAIN charAuth /\ charAuth[a].tok = t
    IN  /\ loginFd # "lost" /\ RoomToLogin /\ RoomToMap
        /\ t \notin DOMAIN charSess
        /\ \/ /\ back
              /\ charAuth' = IdbRemove(charAuth, a)
              /\ AuthOk(t, a, sess)
           \/ /\ ~back
              /\ charSess' = sess
              /\ ToLogin(<<[type |-> "auth", acc |-> a, tok |-> t, req |-> t]>>)
              /\ UNCHANGED <<charAuth, onlineChar, toMap>>
        /\ UNCHANGED <<loginFd, mapFd, sql, toChar, fromMap>>

\* 0x66, char_parse_char_select, when a map-server is there: the character is
\* loaded, and its account may enter the map-server with it.
CharSelect(t, c) ==
    /\ t \in DOMAIN charSess /\ charSess[t].auth /\ ~charSess[t].eof
    /\ loginFd # "lost" /\ RoomToLogin /\ RoomToMap
    /\ mapFd = "ready"
    /\ Owner[c] = charSess[t].acc
    /\ LET a == charSess[t].acc
       IN  /\ onlineChar' = SetCharOnline(onlineChar, UnknownMapServer, c, a)
           /\ ToMapServer(OnlineConflict(onlineChar, UnknownMapServer, a))
           /\ ToLogin(<<OnlineMsg(a)>>)
           /\ charAuth' = IdbPut(charAuth, a, [char |-> c, tok |-> t])
    /\ UNCHANGED <<loginFd, mapFd, charSess, sql, toChar, fromMap>>

\* The client closes its connection.
CharClientEof(t) ==
    /\ t \in DOMAIN charSess /\ ~charSess[t].eof
    /\ charSess' = [charSess EXCEPT ![t].eof = TRUE]
    /\ UNCHANGED <<loginFd, mapFd, charAuth, onlineChar, sql,
                   toChar, fromChar, toMap, fromMap>>

\* char_parse_char on a session at eof, as all are once login_fd is -1.
CharParseEof(t) ==
    /\ t \in DOMAIN charSess
    /\ charSess[t].eof \/ loginFd = "lost"
    /\ charSess' = IdbRemove(charSess, t)
    /\ LET a   == charSess[t].acc
           db  == IF charSess[t].auth /\ a \in DOMAIN onlineChar
                     /\ onlineChar[a].fd = t
                  THEN [onlineChar EXCEPT ![a].fd = NoToken] ELSE onlineChar
           out == /\ charSess[t].auth
                  /\ a \in DOMAIN db => db[a].server = NoMapServer
       IN  /\ onlineChar' = IF out THEN SetCharOffline(db, NoChar, a) ELSE db
           /\ ToLogin(IF out THEN <<OfflineMsg(a)>> ELSE << >>)
    /\ UNCHANGED <<loginFd, mapFd, charAuth, sql, toChar, toMap, fromMap>>

-----------------------------------------------------------------------------
(* Packets from the login-server. *)

\* The list of char_send_accounts_tologin.
AccountsMsg == [type |-> "accounts",
                ids |-> SetToSeq({a \in DOMAIN onlineChar :
                                     onlineChar[a].server = MapServerId})]

\* 0x2711, accepted: loginif_on_ready.
FromLoginConnected ==
    /\ FromLogin("connected")
    /\ ToLogin(<<AccountsMsg>>)
    /\ UNCHANGED <<charVars, toMap, fromMap>>

\* Mutant: the answer is taken for a yes.
FromLoginAuthStateAnyAnswer ==
    /\ FromLogin("authAck")
    /\ LET m == Head(toChar[Self])
           waits == /\ m.req \in DOMAIN charSess
                    /\ ~charSess[m.req].eof /\ ~charSess[m.req].auth
                    /\ charSess[m.req].acc = m.acc /\ m.req = m.tok
       IN  \/ waits /\ AuthOk(m.req, m.acc, charSess)
           \/ ~waits /\ UNCHANGED <<charSess, onlineChar, fromChar, toMap>>
    /\ UNCHANGED <<loginFd, mapFd, charAuth, sql, fromMap>>

\* 0x2713, char_parse_fromlogin_auth_state: for the session that asked, if it
\* is still there and still waits.
FromLoginAuthState ==
    /\ FromLogin("authAck")
    /\ LET m == Head(toChar[Self])
           waits == /\ m.req \in DOMAIN charSess
                    /\ ~charSess[m.req].eof /\ ~charSess[m.req].auth
                    /\ charSess[m.req].acc = m.acc /\ m.req = m.tok
       IN  \/ /\ waits /\ m.ok
              /\ AuthOk(m.req, m.acc, charSess)
           \/ /\ ~(waits /\ m.ok)
              /\ UNCHANGED <<charSess, onlineChar, fromChar, toMap>>
    /\ UNCHANGED <<loginFd, mapFd, charAuth, sql, fromMap>>

\* 0x2734, char_parse_fromlogin_kick.  A session is found by its account, the
\* authed ones and the others alike, and only the first is closed.
FromLoginKick ==
    /\ FromLogin("kick")
    /\ LET a == Head(toChar[Self]).acc
           sessions == {t \in DOMAIN charSess : charSess[t].acc = a}
       IN  /\ charAuth' = IdbRemove(charAuth, a)
           /\ \/ /\ a \notin DOMAIN onlineChar
                 /\ UNCHANGED <<onlineChar, charSess, fromChar, toMap>>
              \/ /\ a \in DOMAIN onlineChar /\ onlineChar[a].server = MapServerId
                 /\ onlineChar' = [onlineChar EXCEPT ![a].timer = TRUE]
                 /\ ToMapServer(<<DisconnectMsg(a)>>)
                 /\ UNCHANGED <<charSess, fromChar>>
              \/ /\ a \in DOMAIN onlineChar /\ onlineChar[a].server # MapServerId
                 /\ \E t \in sessions : charSess' = [charSess EXCEPT ![t].eof = TRUE]
                 /\ UNCHANGED <<onlineChar, fromChar, toMap>>
              \/ /\ a \in DOMAIN onlineChar /\ onlineChar[a].server # MapServerId
                 /\ sessions = {}
                 /\ onlineChar' = SetCharOffline(onlineChar, NoChar, a)
                 /\ ToLogin(<<OfflineMsg(a)>>)
                 /\ UNCHANGED <<charSess, toMap>>
    /\ UNCHANGED <<loginFd, mapFd, sql, fromMap>>

\* 0x2729, the account's registry: passed on to the map-server.
FromLoginAccountReg2 ==
    /\ FromLogin("reg2")
    /\ LET m == Head(toChar[Self])
       IN  ToMapServer(<<[type |-> "regs", part |-> "acc2",
                          acc |-> m.acc, char |-> m.char]>>)
    /\ UNCHANGED <<charVars, fromChar, fromMap>>

-----------------------------------------------------------------------------
(* Packets from the map-server. *)

\* 0x2afa, char_parse_frommap_map_names.
FromMapMapNames ==
    /\ FromMap("maps")
    /\ mapFd' = "ready"
    /\ ToMapServer(<<[type |-> "mapsAck"]>>)
    /\ UNCHANGED <<loginFd, charData, toChar, fromChar>>

\* 0x2aff, char_parse_frommap_set_users: a set of [acc, char].
FromMapSetUsers ==
    /\ FromMap("users")
    /\ LET users == Head(fromMap).users
           rest  == SetMapServerOffline(onlineChar)
           here  == {u.acc : u \in users}
           CharOf(a) == (CHOOSE u \in users : u.acc = a).char
       IN  onlineChar' = [a \in DOMAIN rest \cup here |->
                             IF a \in here
                             THEN [OnlineData(rest, a) EXCEPT
                                      !.server = MapServerId, !.char = CharOf(a)]
                             ELSE rest[a]]
    /\ UNCHANGED <<loginFd, mapFd, charAuth, charSess, sql, toChar, fromChar, toMap>>

\* Mutant: a final save of an account that is not known is not acknowledged.
FromMapSaveCharacterKnown ==
    /\ FromMap("save")
    /\ LET m == Head(fromMap)
           known == m.acc \in DOMAIN onlineChar /\ onlineChar[m.acc].char = m.char
       IN  \/ /\ known
              /\ sql' = [sql EXCEPT ![m.char] = m.ver]
              /\ IF m.final
                 THEN /\ onlineChar' = SetCharOffline(onlineChar, m.char, m.acc)
                      /\ ToLogin(OfflineNotice(onlineChar, m.char, m.acc))
                      /\ ToMapServer(<<[type |-> "saveAck", acc |-> m.acc,
                                        char |-> m.char]>>)
                 ELSE UNCHANGED <<onlineChar, fromChar, toMap>>
           \/ /\ ~known
              /\ onlineChar' = SetCharOnline(onlineChar, MapServerId, m.char, m.acc)
              /\ ToLogin(<<OnlineMsg(m.acc)>>)
              /\ UNCHANGED <<sql, toMap>>
    /\ UNCHANGED <<loginFd, mapFd, charAuth, charSess, toChar>>

\* 0x2b01, char_parse_frommap_save_character: a final save always counts, any
\* other only while the account is known to be playing that character.
FromMapSaveCharacter ==
    /\ FromMap("save")
    /\ LET m == Head(fromMap)
           known == m.acc \in DOMAIN onlineChar /\ onlineChar[m.acc].char = m.char
       IN  \/ /\ m.final
              /\ sql' = [sql EXCEPT ![m.char] = m.ver]
              /\ onlineChar' = SetCharOffline(onlineChar, m.char, m.acc)
              /\ ToLogin(OfflineNotice(onlineChar, m.char, m.acc))
              /\ ToMapServer(<<[type |-> "saveAck", acc |-> m.acc, char |-> m.char]>>)
           \/ /\ ~m.final /\ known
              /\ sql' = [sql EXCEPT ![m.char] = m.ver]
              /\ UNCHANGED <<onlineChar, fromChar, toMap>>
           \/ /\ ~m.final /\ ~known
              /\ onlineChar' = SetCharOnline(onlineChar, MapServerId, m.char, m.acc)
              /\ ToLogin(<<OnlineMsg(m.acc)>>)
              /\ UNCHANGED <<sql, toMap>>
    /\ UNCHANGED <<loginFd, mapFd, charAuth, charSess, toChar>>

\* 0x2b02, char_parse_frommap_char_select_req: back to the character list.
FromMapCharSelectReq ==
    /\ FromMap("charSelect")
    /\ LET m == Head(fromMap)
       IN  /\ charAuth' = IdbPut(charAuth, m.acc, [char |-> NoChar, tok |-> m.tok])
           /\ onlineChar' = SetCharCharselect(onlineChar, m.acc)
           /\ ToLogin(<<OnlineMsg(m.acc)>>)
           /\ ToMapServer(<<[type |-> "selectAck", acc |-> m.acc]>>)
    /\ UNCHANGED <<loginFd, mapFd, charSess, sql, toChar>>

\* 0x2b26, char_parse_frommap_auth_request: an entry is used once.
FromMapAuthRequest ==
    /\ FromMap("auth")
    /\ LET m  == Head(fromMap)
           ok == m.acc \in DOMAIN charAuth
                 /\ charAuth[m.acc] = [char |-> m.char, tok |-> m.tok]
       IN  \/ /\ ok
              /\ ToMapServer(<<[type |-> "authOk", acc |-> m.acc, char |-> m.char,
                                tok |-> m.tok, ver |-> sql[m.char]]>>)
              /\ charAuth' = IdbRemove(charAuth, m.acc)
              /\ onlineChar' = SetCharOnline(onlineChar, MapServerId, m.char, m.acc)
              /\ ToLogin(<<OnlineMsg(m.acc)>>)
           \/ /\ ~ok
              /\ ToMapServer(<<[type |-> "authFail", acc |-> m.acc, char |-> m.char,
                                tok |-> m.tok]>>)
              /\ UNCHANGED <<charAuth, onlineChar, fromChar>>
    /\ UNCHANGED <<loginFd, mapFd, charSess, sql, toChar>>

\* 0x2b17, char_parse_frommap_set_char_offline.
FromMapSetCharOffline ==
    /\ FromMap("offline")
    /\ LET m == Head(fromMap)
       IN  /\ onlineChar' = SetCharOffline(onlineChar, m.char, m.acc)
           /\ ToLogin(OfflineNotice(onlineChar, m.char, m.acc))
    /\ UNCHANGED <<loginFd, mapFd, charAuth, charSess, sql, toChar, toMap>>

\* 0x3005, mapif_parse_RegistryRequest: the registries of the character and of
\* the account on this server at once, the other account registry later.
FromMapRegistryRequest ==
    /\ FromMap("regReq")
    /\ LET m == Head(fromMap)
       IN  /\ ToMapServer(<<[type |-> "regs", part |-> "local",
                             acc |-> m.acc, char |-> m.char]>>)
           /\ ToLogin(<<[type |-> "reg2", acc |-> m.acc, char |-> m.char]>>)
    /\ UNCHANGED <<charVars, toChar>>

-----------------------------------------------------------------------------
(* Timers. *)

\* char_waiting_disconnect: the map-server did not report the kicked account.
CharWaitingDisconnect(a) ==
    /\ a \in DOMAIN onlineChar /\ onlineChar[a].timer
    /\ RoomToLogin
    /\ onlineChar' = SetCharOffline(onlineChar, onlineChar[a].char, a)
    /\ ToLogin(OfflineNotice(onlineChar, onlineChar[a].char, a))
    /\ UNCHANGED <<loginFd, mapFd, charAuth, charSess, sql, toChar, toMap, fromMap>>

\* char_online_data_cleanup, every ten minutes.
CharOnlineDataCleanup ==
    LET idle == {a \in DOMAIN onlineChar : onlineChar[a].fd = NoToken}
        lost == {a \in idle : onlineChar[a].server = UnknownMapServer}
        gone == {a \in idle : onlineChar[a].server # MapServerId}
    IN  /\ gone # {} /\ RoomToLogin
        /\ onlineChar' = [a \in DOMAIN onlineChar \ gone |-> onlineChar[a]]
        /\ ToLogin(LET order == SetToSeq(lost)
                   IN  [i \in DOMAIN order |-> OfflineMsg(order[i])])
        /\ UNCHANGED <<loginFd, mapFd, charAuth, charSess, sql,
                       toChar, toMap, fromMap>>

\* char_send_accounts_tologin, every hour.
CharSendAccounts ==
    /\ loginFd = "open" /\ RoomToLogin
    /\ ToLogin(<<AccountsMsg>>)
    /\ UNCHANGED <<charVars, toChar, toMap, fromMap>>

\* char_check_connect_login_server, refused: login_fd is 0 from now on.
CheckConnectFails ==
    /\ loginFd = "lost"
    /\ loginFd' = "none"
    /\ UNCHANGED <<mapFd, charData, toChar, fromChar, toMap, fromMap>>

-----------------------------------------------------------------------------
(* The links.  What becomes of the packets on them is for the module that  *)
(* composes the servers to say.                                            *)

\* char_check_connect_login_server, connected.
CharConnectsLogin ==
    /\ loginFd # "open"
    /\ loginFd' = "open"
    /\ UNCHANGED <<mapFd, charData>>

\* char_parse_fromlogin on the connection at eof.
CharLoginLost ==
    /\ loginFd = "open"
    /\ loginFd' = "lost"
    /\ UNCHANGED <<mapFd, charData>>

\* char_parse_char_login_map_server, while the map-server's slot is free.
LoginMapServer ==
    /\ mapFd = "none"
    /\ mapFd' = "noMaps"
    /\ UNCHANGED <<loginFd, charData>>

\* char_parse_frommap on the connection at eof, and mapif_on_disconnect.
MapifOnDisconnect ==
    /\ mapFd # "none"
    /\ mapFd' = "none"
    /\ onlineChar' = SetMapServerOffline(onlineChar)
    /\ UNCHANGED <<loginFd, charAuth, charSess, sql>>

\* The process dies and is started again: the tables are all that is left.
CharRestart ==
    /\ loginFd' = "none"
    /\ mapFd' = "none"
    /\ charAuth' = NoEntries
    /\ onlineChar' = NoEntries
    /\ charSess' = NoEntries
    /\ UNCHANGED sql
=============================================================================
