---------------------------- MODULE LoginServer ----------------------------
(***************************************************************************)
(* The login-server (src/login/login.c): the two databases it keeps about  *)
(* every account that logged in, auth_db (the session keys not used yet)   *)
(* and online_db (which char-server has the account), the char-servers     *)
(* connected to it, and one action per handler that changes any of them.   *)
(*                                                                         *)
(* A successful login draws login_id1 and login_id2 at random: a Token is  *)
(* one such pair, and two logins never draw the same one.  Timers have no  *)
(* clock: one that is set may go off at any later moment.                  *)
(***************************************************************************)
EXTENDS Integers, Sequences, FiniteSets, Idb

CONSTANTS Account,     \* account ids
          Token,       \* (login_id1, login_id2) pairs
          ServerId,    \* indices of server[], one per char-server
          RequestId,   \* what a char-server stamps its auth requests with
          Char,        \* character ids
          AccountList, \* lists of accounts a char-server may report online
          MaxQueue,    \* bound: packets between the servers on one link
          NoToken

ASSUME AccountAssumption == Account \subseteq Int
ASSUME AccountListAssumption == AccountList \subseteq Seq(Account)
ASSUME ServerIdAssumption == ServerId \subseteq Nat
ASSUME MaxQueueAssumption == MaxQueue \in Nat
ASSUME NoTokenAssumption == NoToken \notin Token

VARIABLES
    authDb,    \* login->auth_db: account -> token of the login not used yet
    onlineDb,  \* login->online_db: account -> [server, timer]
    server,    \* server[id].fd is a live session
    toChar,    \* per char-server: packets sent to it and not read yet
    fromChar,  \* per char-server: packets from it not parsed yet
    issued,    \* history: tokens handed out
    newest,    \* history: token of the last successful login of an account
    granted    \* history: how often a token was confirmed to a char-server

loginHistory == <<issued, newest, granted>>
loginVars == <<authDb, onlineDb, server, issued, newest, granted>>
loginLinks == <<toChar, fromChar>>

\* online_login_data.char_server when it is not the index of a char-server.
NotAtCharServer == -1   \* authenticated, no char-server reported it yet
ServerLost      == -2   \* at a char-server that disconnected

OnlineEntry == [server : ServerId \cup {NotAtCharServer, ServerLost},
                timer  : BOOLEAN]   \* waiting_disconnect # INVALID_TIMER

\* Packets of a char-server that reach the two databases.
FromCharMsg ==
         [type : {"auth"}, acc : Account, tok : Token, req : RequestId]
    \cup [type : {"online", "offline", "wrongPincode"}, acc : Account]
    \cup [type : {"accounts"}, ids : AccountList]
    \cup [type : {"allOffline"}]
    \cup [type : {"reg2"}, acc : Account, char : Char]

\* Packets of the login-server to a char-server.
ToCharMsg ==
         [type : {"connected"}]
    \cup [type : {"authAck"}, acc : Account, tok : Token, req : RequestId,
          ok : BOOLEAN]
    \cup [type : {"kick"}, acc : Account]
    \cup [type : {"reg2"}, acc : Account, char : Char]

LoginInit ==
    /\ authDb = NoEntries
    /\ onlineDb = NoEntries
    /\ server = [s \in ServerId |-> FALSE]
    /\ issued = {}
    /\ newest = [a \in Account |-> NoToken]
    /\ granted = [t \in Token |-> 0]

LoginLinksInit ==
    /\ toChar = [s \in ServerId |-> << >>]
    /\ fromChar = [s \in ServerId |-> << >>]

-----------------------------------------------------------------------------
(* The databases. *)

\* Mutant: the server is counted from 1.
AddOnlineUserFromOne(db, a, s) == IdbPut(db, a, [server |-> s + 1, timer |-> FALSE])

\* login_add_online_user: sets the server and deletes the timer.
AddOnlineUser(db, a, s) == IdbPut(db, a, [server |-> s, timer |-> FALSE])

\* login_online_db_setoffline over the whole database, for server id s.
SetServerOffline(db, s) ==
    [a \in DOMAIN db |->
        IF db[a].server = s THEN [db[a] EXCEPT !.server = ServerLost] ELSE db[a]]

\* charif_sendallwos(-1, ...): to every connected char-server.
SendAll(m) ==
    [s \in ServerId |-> IF server[s] THEN Append(toChar[s], m) ELSE toChar[s]]

\* The first packet of char-server s, while it is connected, is of this type.
Receives(s, type) == /\ server[s]
                     /\ fromChar[s] # << >>
                     /\ Head(fromChar[s]).type = type

Skip(s) == fromChar' = [fromChar EXCEPT ![s] = Tail(@)]

Reply(s, m) == toChar' = [toChar EXCEPT ![s] = Append(@, m)]

\* A char-server that lags behind holds back whoever would send it more.
RoomToAll == \A s \in ServerId : server[s] => Len(toChar[s]) < MaxQueue

-----------------------------------------------------------------------------
(* Clients: login_auth_ok, reached when login_mmo_auth accepted them. *)

\* Mutant: no timer in case the kick gets lost.
LoginRefusedNoTimer(a) ==
    /\ a \in DOMAIN onlineDb
    /\ onlineDb[a].server > NotAtCharServer
    /\ RoomToAll
    /\ toChar' = SendAll([type |-> "kick", acc |-> a])
    /\ UNCHANGED <<authDb, onlineDb, server, loginHistory, fromChar>>

\* The account is at a char-server: ask all of them to kick it, refuse.
LoginRefused(a) ==
    /\ a \in DOMAIN onlineDb
    /\ onlineDb[a].server > NotAtCharServer
    /\ RoomToAll
    /\ toChar' = SendAll([type |-> "kick", acc |-> a])
    /\ onlineDb' = [onlineDb EXCEPT ![a].timer = TRUE]
    /\ UNCHANGED <<authDb, server, loginHistory, fromChar>>

\* Mutant: the node of an earlier login is kept.
LoginAcceptedKeepsNode(a, t) ==
    /\ a \in DOMAIN onlineDb => onlineDb[a].server <= NotAtCharServer
    /\ t \notin issued
    /\ \E s \in ServerId : server[s]
    /\ authDb' = IF a \in DOMAIN authDb THEN authDb ELSE IdbPut(authDb, a, t)
    /\ onlineDb' = IdbPut(onlineDb, a, [server |-> NotAtCharServer, timer |-> TRUE])
    /\ issued' = issued \cup {t}
    /\ newest' = [newest EXCEPT ![a] = t]
    /\ UNCHANGED <<server, granted, toChar, fromChar>>

\* No char-server has the account and there is one to offer: the new session
\* replaces whatever an earlier login of the account left in the databases.
LoginAccepted(a, t) ==
    /\ a \in DOMAIN onlineDb => onlineDb[a].server <= NotAtCharServer
    /\ t \notin issued
    /\ \E s \in ServerId : server[s]
    /\ authDb' = IdbPut(authDb, a, t)
    /\ onlineDb' = IdbPut(onlineDb, a, [server |-> NotAtCharServer, timer |-> TRUE])
    /\ issued' = issued \cup {t}
    /\ newest' = [newest EXCEPT ![a] = t]
    /\ UNCHANGED <<server, granted, toChar, fromChar>>

\* There is none to offer: the client is refused, but the session of a login
\* that only authenticated is wiped before that is known.
LoginNoCharServer(a) ==
    /\ a \in DOMAIN onlineDb
    /\ onlineDb[a].server = NotAtCharServer
    /\ \A s \in ServerId : ~server[s]
    /\ authDb' = IdbRemove(authDb, a)
    /\ onlineDb' = IdbRemove(onlineDb, a)
    /\ UNCHANGED <<server, loginHistory, toChar, fromChar>>

-----------------------------------------------------------------------------
(* Timers. *)

\* login_waiting_disconnect_timer, AUTH_TIMEOUT after a login or a kick.
WaitingDisconnect(a) ==
    /\ a \in DOMAIN onlineDb
    /\ onlineDb[a].timer
    /\ onlineDb' = IdbRemove(onlineDb, a)
    /\ authDb' = IdbRemove(authDb, a)
    /\ UNCHANGED <<server, loginHistory, toChar, fromChar>>

\* login_online_data_cleanup, every ten minutes.
LoginOnlineDataCleanup ==
    /\ \E a \in DOMAIN onlineDb : onlineDb[a].server = ServerLost
    /\ onlineDb' = [a \in {b \in DOMAIN onlineDb : onlineDb[b].server # ServerLost}
                        |-> onlineDb[a]]
    /\ UNCHANGED <<authDb, server, loginHistory, toChar, fromChar>>

-----------------------------------------------------------------------------
(* Packets from char-server s: the cases of login_parse_fromchar. *)

\* Mutant: a confirmed key is not forgotten.
FromCharParseAuthKeepsKey(s) ==
    /\ Receives(s, "auth")
    /\ LET m  == Head(fromChar[s])
           ok == m.acc \in DOMAIN authDb /\ authDb[m.acc] = m.tok
       IN  /\ Reply(s, [type |-> "authAck", acc |-> m.acc, tok |-> m.tok,
                        req |-> m.req, ok |-> ok])
           /\ granted' = IF ok THEN [granted EXCEPT ![m.tok] = @ + 1] ELSE granted
    /\ Skip(s)
    /\ UNCHANGED <<authDb, onlineDb, server, issued, newest>>

\* 0x2712, login_fromchar_parse_auth: confirm a session key and forget it.
FromCharParseAuth(s) ==
    /\ Receives(s, "auth")
    /\ LET m  == Head(fromChar[s])
           ok == m.acc \in DOMAIN authDb /\ authDb[m.acc] = m.tok
       IN  /\ Reply(s, [type |-> "authAck", acc |-> m.acc, tok |-> m.tok,
                        req |-> m.req, ok |-> ok])
           /\ authDb' = IF ok THEN IdbRemove(authDb, m.acc) ELSE authDb
           /\ granted' = IF ok THEN [granted EXCEPT ![m.tok] = @ + 1] ELSE granted
    /\ Skip(s)
    /\ UNCHANGED <<onlineDb, server, issued, newest>>

\* 0x272b, login_fromchar_parse_account_online.
FromCharParseAccountOnline(s) ==
    /\ Receives(s, "online")
    /\ onlineDb' = AddOnlineUser(onlineDb, Head(fromChar[s]).acc, s)
    /\ Skip(s)
    /\ UNCHANGED <<authDb, server, loginHistory, toChar>>

\* 0x272c, login_fromchar_parse_account_offline (whichever server asks).
FromCharParseAccountOffline(s) ==
    /\ Receives(s, "offline")
    /\ onlineDb' = IdbRemove(onlineDb, Head(fromChar[s]).acc)
    /\ Skip(s)
    /\ UNCHANGED <<authDb, server, loginHistory, toChar>>

\* 0x2739, login_fromchar_parse_wrong_pincode: too many wrong PIN codes.
FromCharParseWrongPincode(s) ==
    /\ Receives(s, "wrongPincode")
    /\ onlineDb' = IdbRemove(onlineDb, Head(fromChar[s]).acc)
    /\ Skip(s)
    /\ UNCHANGED <<authDb, server, loginHistory, toChar>>

\* The char-server writes the number of ids as 32 bits at offset 4 and the ids
\* from offset 8 on (char_send_accounts_tologin).  The login-server reads the
\* number as 16 bits at offset 4 and the ids from offset 6 on: an id it reads
\* has the low half of the id sent as its high half, and the high half of the
\* one sent before (or of the number, 0) as its low half.
Low16(n)  == n % 65536
High16(n) == (n \div 65536) % 65536
Signed16(n) == IF n >= 32768 THEN n - 65536 ELSE n

IdRead(ids, i) ==
    Signed16(Low16(ids[i])) * 65536 + (IF i = 1 THEN 0 ELSE High16(ids[i - 1]))

\* 0x272d, login_fromchar_parse_online_accounts: the accounts of this server
\* are unknown until the list says otherwise.
FromCharParseOnlineAccounts(s) ==
    /\ Receives(s, "accounts")
    /\ LET ids  == Head(fromChar[s]).ids
           read == {IdRead(ids, i) : i \in DOMAIN ids}
           rest == SetServerOffline(onlineDb, s)
       IN  onlineDb' = [a \in DOMAIN rest \cup read |->
                           IF a \in read THEN [server |-> s, timer |-> FALSE]
                                         ELSE rest[a]]
    /\ Skip(s)
    /\ UNCHANGED <<authDb, server, loginHistory, toChar>>

\* 0x2737, login_fromchar_parse_all_offline.
FromCharParseAllOffline(s) ==
    /\ Receives(s, "allOffline")
    /\ onlineDb' = SetServerOffline(onlineDb, s)
    /\ Skip(s)
    /\ UNCHANGED <<authDb, server, loginHistory, toChar>>

\* 0x272e, login_fromchar_parse_request_account_reg2.
FromCharParseRequestAccountReg2(s) ==
    /\ Receives(s, "reg2")
    /\ Reply(s, Head(fromChar[s]))
    /\ Skip(s)
    /\ UNCHANGED <<authDb, onlineDb, server, loginHistory>>

-----------------------------------------------------------------------------
(* The connections of the char-servers. *)

\* login_parse_request_connection, for a slot whose old session is gone.
ParseRequestConnection(s) ==
    /\ ~server[s]
    /\ server' = [server EXCEPT ![s] = TRUE]
    /\ toChar' = [toChar EXCEPT ![s] = <<[type |-> "connected"]>>]
    /\ fromChar' = [fromChar EXCEPT ![s] = << >>]
    /\ UNCHANGED <<authDb, onlineDb, loginHistory>>

\* Mutant: the accounts of the char-server are forgotten about.
ChrifOnDisconnectOnly(s) ==
    /\ server[s]
    /\ server' = [server EXCEPT ![s] = FALSE]
    /\ toChar' = [toChar EXCEPT ![s] = << >>]
    /\ fromChar' = [fromChar EXCEPT ![s] = << >>]
    /\ UNCHANGED <<authDb, onlineDb, loginHistory>>

\* login_parse_fromchar on a session at eof, and chrif_on_disconnect.
ChrifOnDisconnect(s) ==
    /\ server[s]
    /\ server' = [server EXCEPT ![s] = FALSE]
    /\ onlineDb' = SetServerOffline(onlineDb, s)
    /\ toChar' = [toChar EXCEPT ![s] = << >>]
    /\ fromChar' = [fromChar EXCEPT ![s] = << >>]
    /\ UNCHANGED <<authDb, loginHistory>>

FromChar(s) ==
    \/ FromCharParseAuth(s)
    \/ FromCharParseAccountOnline(s)
    \/ FromCharParseAccountOffline(s)
    \/ FromCharParseWrongPincode(s)
    \/ FromCharParseOnlineAccounts(s)
    \/ FromCharParseAllOffline(s)
    \/ FromCharParseRequestAccountReg2(s)

-----------------------------------------------------------------------------
(* The login-server among char-servers of which nothing is assumed but the *)
(* form of their packets: they send any packet at any time, as long as the *)
(* link holds fewer than MaxQueue, and read theirs in order.               *)

CharServerSends(s, m) ==
    /\ server[s]
    /\ Len(fromChar[s]) + Len(toChar[s]) < MaxQueue
    /\ fromChar' = [fromChar EXCEPT ![s] = Append(@, m)]
    /\ UNCHANGED <<loginVars, toChar>>

CharServerReads(s) ==
    /\ toChar[s] # << >>
    /\ toChar' = [toChar EXCEPT ![s] = Tail(@)]
    /\ UNCHANGED <<loginVars, fromChar>>

Client(a) ==
    \/ LoginRefused(a)
    \/ \E t \in Token : LoginAccepted(a, t)
    \/ LoginNoCharServer(a)

Init == LoginInit /\ LoginLinksInit

Next ==
    \/ \E a \in Account : Client(a)
    \/ \E a \in DOMAIN onlineDb : WaitingDisconnect(a)
    \/ LoginOnlineDataCleanup
    \/ \E s \in ServerId : \/ FromChar(s)
                           \/ ParseRequestConnection(s)
                           \/ ChrifOnDisconnect(s)
                           \/ CharServerReads(s)
                           \/ \E m \in FromCharMsg : CharServerSends(s, m)

vars == <<loginVars, loginLinks>>

Spec == Init /\ [][Next]_vars

-----------------------------------------------------------------------------
(* Properties. *)

\* The databases and the packets on the way are well formed.  The keys of
\* onlineDb are integers, not accounts: see IdRead.
TypeOK ==
    /\ IsIdb(authDb, Account, Token)
    /\ IsIdb(onlineDb, Int, OnlineEntry)
    /\ server \in [ServerId -> BOOLEAN]
    /\ toChar \in [ServerId -> Seq(ToCharMsg)]
    /\ fromChar \in [ServerId -> Seq(FromCharMsg)]
    /\ issued \subseteq Token
    /\ newest \in [Account -> Token \cup {NoToken}]
    /\ granted \in [Token -> Nat]

\* login.c:332, "each auth entry can only be used once": no session key is
\* confirmed to two char-servers, or to one of them twice, whatever they ask
\* and however often, across reconnections and repeated logins.
GrantedOnce == \A t \in Token : granted[t] <= 1

\* A key that is still accepted is the one of the account's latest login: a
\* second login makes every earlier key of the account worthless.
AuthIsNewest == \A a \in DOMAIN authDb : authDb[a] = newest[a]

\* Only a connected char-server holds accounts: when one disconnects, all its
\* accounts lose it, those it is just about to report included.
HeldByConnected ==
    \A a \in DOMAIN onlineDb :
        onlineDb[a].server \in ServerId => server[onlineDb[a].server]

\* login.c:1284, "schedule deletion of this node": a session key that is not
\* used is deleted by the timer that was started with it.
AuthNodeExpires ==
    \A a \in DOMAIN authDb : a \in DOMAIN onlineDb /\ onlineDb[a].timer

\* login.c:931, "Receive list of all online accounts": once the list has been
\* handled, the accounts on it are online at the char-server that sent it.
ListMarksOnline ==
    [][\A s \in ServerId :
          FromCharParseOnlineAccounts(s) =>
             \A i \in DOMAIN Head(fromChar[s]).ids :
                LET a == Head(fromChar[s]).ids[i]
                IN  a \in DOMAIN onlineDb' /\ onlineDb'[a].server = s]_vars
=============================================================================
