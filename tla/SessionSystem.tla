--------------------------- MODULE SessionSystem ----------------------------
(***************************************************************************)
(* The three servers and the clients: one login-server, one char-server,   *)
(* one map-server (MAX_MAP_SERVERS is 1), the links between them, and a    *)
(* client per successful login that does what the game client does: connect *)
(* to the char-server, choose a character, connect to the map-server, play, *)
(* go back to the character list or leave, at any time.                    *)
(*                                                                         *)
(* Links are TCP connections: packets arrive in order, and when one breaks *)
(* each side finds out in a step of its own.  The side that closed reads   *)
(* nothing more; the other may still read what was sent before.            *)
(***************************************************************************)
EXTENDS Integers, Sequences, FiniteSets, Idb

CONSTANTS Account, Token, Char, Owner, ServerId, Self, AccountList,
          NoChar, NoToken,
          MaxQueue,          \* bound: packets on a link before a new request
          MaxVer,            \* bound: versions of a character's data
          Faults,            \* which faults happen, see FaultKind
          MaxFaults,         \* bound: how many of them
          PromptLinks,       \* bound: links on which a packet is handled
                             \* before anything else happens
          Timers,            \* which timers go off, see TimerKind
          PromptRegistries   \* a client comes back only after the registries
                             \* its account asked for earlier arrived

ASSUME AccountAssumption == Account \subseteq Int /\ IsFiniteSet(Account)
ASSUME CharAssumption == Char # {}
ASSUME OwnerAssumption == Owner \in [Char -> Account]
ASSUME MaxFaultsAssumption == MaxFaults \in Nat
ASSUME SelfAssumption == Self \in ServerId
ASSUME NoCharAssumption == NoChar \notin Char
ASSUME NoTokenAssumption == NoToken \notin Token

VARIABLES authDb, onlineDb, server, issued, newest, granted,  \* login-server
          loginFd, mapFd, charAuth, onlineChar, charSess, sql, \* char-server
          chrif, mapAuth, pc, mapSess, latest,                 \* map-server
          toChar, fromChar, toMap, fromMap,                    \* links
          client,    \* token -> [at, acc, char]: where its client is
          faults     \* how many faults happened

L == INSTANCE LoginServer WITH RequestId <- Token
C == INSTANCE CharServer
M == INSTANCE MapServer

\* A list of accounts may be reported for every set of them.
ASSUME AccountListAssumption ==
    /\ AccountList \subseteq Seq(Account)
    /\ \A S \in SUBSET Account : C!SetToSeq(S) \in AccountList

loginVars == <<authDb, onlineDb, server, issued, newest, granted>>
charVars  == <<loginFd, mapFd, charAuth, onlineChar, charSess, sql>>
mapVars   == <<chrif, mapAuth, pc, mapSess, latest>>
vars == <<loginVars, charVars, mapVars, toChar, fromChar, toMap, fromMap,
          client, faults>>

FaultKind == {"loginLink", "mapLink", "charCrash", "mapCrash"}
TimerKind == {"loginKick", "loginCleanup", "charKick", "charCleanup",
              "charAccounts", "delayQuit", "authCleanup"}

ClientPlace == {"none", "login", "char", "toMap", "map", "toChar", "gone"}

Init ==
    /\ L!LoginInit /\ L!LoginLinksInit
    /\ C!CharInit /\ sql = [c \in Char |-> 1]
    /\ M!MapInit /\ latest = [c \in Char |-> 1]
    /\ toMap = << >> /\ fromMap = << >>
    /\ client = [t \in Token |-> [at |-> "none", acc |-> Owner[CHOOSE c \in Char : TRUE],
                                  char |-> NoChar]]
    /\ faults = 0

LoginStep == UNCHANGED <<charVars, mapVars, toMap, fromMap, faults>>
CharStep  == UNCHANGED <<loginVars, mapVars, faults>>
MapStep   == UNCHANGED <<loginVars, charVars, toChar, fromChar, faults>>

MovesTo(t, place) == client' = [client EXCEPT ![t].at = place]

-----------------------------------------------------------------------------
(* Clients. *)

LogIn(a) ==
    /\ LoginStep
    /\ \/ (L!LoginRefused(a) \/ L!LoginNoCharServer(a)) /\ UNCHANGED client
       \/ \E t \in Token :
             /\ L!LoginAccepted(a, t)
             /\ client' = [client EXCEPT ![t] = [at |-> "login", acc |-> a,
                                                 char |-> NoChar]]

ConnectChar(t) ==
    /\ client[t].at \in {"login", "char", "toChar"}
    /\ C!CharConnect(t, client[t].acc)
    /\ MovesTo(t, "char")
    /\ CharStep

SelectChar(t) == \E c \in Char :
    /\ client[t].at = "char"
    /\ C!CharSelect(t, c)
    /\ client' = [client EXCEPT ![t].at = "toMap", ![t].char = c]
    /\ CharStep

\* No registry the account asked for is still on its way.
RegistriesArrived(a) ==
    LET pending(q, types) == \E i \in DOMAIN q : q[i].type \in types /\ q[i].acc = a
    IN  /\ ~pending(fromMap, {"regReq"}) /\ ~pending(toMap, {"regs"})
        /\ ~pending(fromChar[Self], {"reg2"}) /\ ~pending(toChar[Self], {"reg2"})

\* ... and again, when its connection was closed on it.
ConnectMap(t) ==
    /\ client[t].at \in {"toMap", "map"}
    /\ PromptRegistries => RegistriesArrived(client[t].acc)
    /\ M!WantToConnection(t, client[t].acc, client[t].char)
    /\ MovesTo(t, "map")
    /\ MapStep

\* The client asks for the character list, or is told to go there.
RequestCharSelect(t) ==
    /\ client[t].at = "map"
    /\ M!ClifParseRestart(t, client[t].acc)
    /\ MapStep /\ UNCHANGED client

CharSelectAck ==
    /\ M!ChrifCharSelectAck
    /\ LET a == Head(toMap).acc
       IN  client' = [t \in Token |->
               IF M!Plays(t, a) /\ client[t].at = "map"
               THEN [client[t] EXCEPT !.at = "toChar"] ELSE client[t]]
    /\ MapStep

\* The player closes the client, or it gives up: refused, or disconnected.
Leave(t) ==
    /\ client[t].at \notin {"none", "gone"}
    /\ MovesTo(t, "gone")
    /\ UNCHANGED <<loginVars, charVars, mapVars, toChar, fromChar, toMap, fromMap,
                   faults>>

\* What the client left is closed, and the server finds out.
ClosesConnection(t) ==
    /\ \/ client[t].at # "char" /\ C!CharClientEof(t) /\ CharStep
       \/ client[t].at # "map" /\ M!MapClientEof(t) /\ MapStep
    /\ UNCHANGED client

-----------------------------------------------------------------------------
(* The servers. *)

LoginHandles ==
    /\ L!FromChar(Self)
    /\ LoginStep /\ UNCHANGED client

GoesOff(timer) == timer \in Timers

LoginTimers ==
    /\ \/ GoesOff("loginKick") /\ \E a \in Account : L!WaitingDisconnect(a)
       \/ GoesOff("loginCleanup") /\ L!LoginOnlineDataCleanup
    /\ LoginStep /\ UNCHANGED client

CharHandlesLogin ==
    /\ \/ C!FromLoginConnected   \/ C!FromLoginAuthState
       \/ C!FromLoginKick        \/ C!FromLoginAccountReg2
    /\ CharStep /\ UNCHANGED client

CharHandlesMap ==
    /\ \/ C!FromMapMapNames      \/ C!FromMapSetUsers
       \/ C!FromMapSaveCharacter \/ C!FromMapCharSelectReq
       \/ C!FromMapAuthRequest   \/ C!FromMapSetCharOffline
       \/ C!FromMapRegistryRequest
    /\ CharStep /\ UNCHANGED client

CharHandles == CharHandlesLogin \/ CharHandlesMap

CharTimers ==
    /\ \/ GoesOff("charKick") /\ \E a \in Account : C!CharWaitingDisconnect(a)
       \/ GoesOff("charCleanup") /\ C!CharOnlineDataCleanup
       \/ GoesOff("charAccounts") /\ C!CharSendAccounts
       \/ C!CheckConnectFails
    /\ CharStep /\ UNCHANGED client

MapHandles ==
    /\ \/ M!ChrifConnectAck \/ M!ChrifOnReady  \/ M!ChrifAuthOk
       \/ M!ChrifAuthFail   \/ M!ChrifSaveAck  \/ M!ChrifDisconnectPlayer
       \/ M!IntifParseRegisters
    /\ MapStep /\ UNCHANGED client

\* A server gets to a session that is at its end.
ServerCloses(t) ==
    /\ \/ C!CharParseEof(t) /\ CharStep
       \/ /\ \/ M!ClifParseEofQuit(t) \/ M!ClifParseEofDelayed(t)
             \/ M!ClifParseEofInactive(t)
          /\ MapStep
    /\ UNCHANGED client

MapTimers ==
    /\ \E a \in Account : \/ GoesOff("delayQuit") /\ M!ClifDelayQuit(a)
                          \/ GoesOff("authCleanup") /\ M!AuthDbCleanup(a)
    /\ MapStep /\ UNCHANGED client

\* The game: characters change, and are saved now and then.
MapPlays ==
    /\ \E a \in Account : M!Play(a) \/ M!AutoSave(a)
    /\ MapStep /\ UNCHANGED client

-----------------------------------------------------------------------------
(* The links and the processes. *)

Fault(kind) == kind \in Faults /\ faults < MaxFaults /\ faults' = faults + 1

\* One side of a link closes: a fault, unless the other side already has.
ClosesLink(kind, otherIsOpen) ==
    IF otherIsOpen THEN Fault(kind) ELSE UNCHANGED faults

LoginLinkUp ==
    /\ C!CharConnectsLogin
    /\ L!ParseRequestConnection(Self)
    /\ UNCHANGED <<mapVars, toMap, fromMap, client, faults>>

LoginLinkBreaks ==
    /\ \/ /\ L!ChrifOnDisconnect(Self)
          /\ ClosesLink("loginLink", loginFd = "open")
          /\ UNCHANGED charVars
       \/ /\ C!CharLoginLost
          /\ ClosesLink("loginLink", server[Self])
          /\ toChar' = [toChar EXCEPT ![Self] = << >>]
          /\ fromChar' = [fromChar EXCEPT ![Self] =
                             IF server[Self] THEN @ ELSE << >>]
          /\ UNCHANGED loginVars
    /\ UNCHANGED <<mapVars, toMap, fromMap, client>>

MapLinkUp ==
    /\ M!ChrifConnect
    /\ C!LoginMapServer
    /\ toMap' = <<[type |-> "connectAck"]>>
    /\ fromMap' = << >>
    /\ UNCHANGED <<loginVars, toChar, fromChar, client, faults>>

MapLinkBreaks ==
    /\ \/ /\ M!ChrifLost
          /\ ClosesLink("mapLink", mapFd # "none")
          /\ toMap' = << >>
          /\ fromMap' = IF mapFd # "none" THEN fromMap ELSE << >>
          /\ UNCHANGED charVars
       \/ /\ C!MapifOnDisconnect
          /\ ClosesLink("mapLink", chrif # "down")
          /\ fromMap' = << >>
          /\ toMap' = IF chrif # "down" THEN toMap ELSE << >>
          /\ UNCHANGED mapVars
    /\ UNCHANGED <<loginVars, toChar, fromChar, client>>

CharCrash ==
    /\ Fault("charCrash")
    /\ C!CharRestart
    /\ fromMap' = << >>
    /\ UNCHANGED <<loginVars, mapVars, toChar, fromChar, toMap, client>>

MapCrash ==
    /\ Fault("mapCrash")
    /\ M!MapRestart(sql)
    /\ toMap' = << >> /\ fromMap' = << >>
    /\ UNCHANGED <<loginVars, charVars, toChar, fromChar, client>>

Prompt ==
    /\ "login" \in PromptLinks => /\ toChar[Self] = << >> /\ fromChar[Self] = << >>
                                  /\ server[Self] <=> loginFd = "open"
    /\ "map" \in PromptLinks => /\ toMap = << >> /\ fromMap = << >>
                                /\ chrif = "down" <=> mapFd = "none"

Handlers ==
    \/ LoginHandles \/ CharHandles \/ MapHandles \/ CharSelectAck
    \/ LoginLinkBreaks \/ MapLinkBreaks

Others ==
    \/ \E a \in Account : LogIn(a)
    \/ \E t \in Token : \/ ConnectChar(t) \/ SelectChar(t) \/ ConnectMap(t)
                        \/ RequestCharSelect(t) \/ Leave(t)
                        \/ ClosesConnection(t) \/ ServerCloses(t)
    \/ LoginTimers \/ CharTimers \/ MapTimers \/ MapPlays
    \/ LoginLinkUp \/ MapLinkUp
    \/ CharCrash \/ MapCrash

Next == Handlers \/ (Prompt /\ Others)

Spec == Init /\ [][Next]_vars

\* The event loop of a process gets to every packet, to every session at its
\* end and to every timer, and a lost connection is made again.  Clients and
\* the game owe nothing.  (Strong fairness where a bound of the model, Prompt
\* or MaxQueue, can withhold a step from time to time that the program, which
\* has no such bound, may take.)
LinkBreakNoticed == (LoginLinkBreaks \/ MapLinkBreaks) /\ UNCHANGED faults

Fairness ==
    /\ WF_vars(LoginHandles)
    /\ WF_vars(CharHandlesLogin) /\ WF_vars(CharHandlesMap)
    /\ WF_vars(MapHandles \/ CharSelectAck)
    /\ WF_vars(LinkBreakNoticed)
    /\ SF_vars(Prompt /\ LoginTimers)
    /\ SF_vars(Prompt /\ CharTimers)
    /\ SF_vars(Prompt /\ MapTimers)
    /\ SF_vars(Prompt /\ LoginLinkUp)
    /\ SF_vars(Prompt /\ MapLinkUp)
    /\ \A t \in Token : SF_vars(Prompt /\ ServerCloses(t))

FairSpec == Spec /\ Fairness

-----------------------------------------------------------------------------
(* The char-server and the map-server under any login-server.  It admits a *)
(* client whenever it likes, also while the account is being played, asks  *)
(* for it to be kicked whenever it likes, and answers at once; its own     *)
(* databases play no part.  What holds here holds with any policy of the   *)
(* login-server.                                                           *)

Answered == fromChar[Self] = << >>

Answer(m) ==
    CASE m.type = "auth" -> <<[type |-> "authAck", acc |-> m.acc, tok |-> m.tok,
                               req |-> m.req, ok |-> TRUE]>>
      [] m.type = "reg2" -> <<m>>
      [] OTHER -> << >>

AnyLoginAnswers ==
    /\ ~Answered
    /\ fromChar' = [fromChar EXCEPT ![Self] = Tail(@)]
    /\ toChar' = [toChar EXCEPT ![Self] = @ \o Answer(Head(fromChar[Self]))]
    /\ UNCHANGED <<loginVars, charVars, mapVars, toMap, fromMap, client, faults>>

AnyLoginAdmits == \E a \in Account, t \in Token :
    /\ client[t].at = "none"
    /\ client' = [client EXCEPT ![t] = [at |-> "login", acc |-> a, char |-> NoChar]]
    /\ UNCHANGED <<loginVars, charVars, mapVars, toChar, fromChar, toMap, fromMap,
                   faults>>

AnyLoginKicks == \E a \in Account :
    /\ toChar[Self] = << >> /\ C!RoomToMap
    /\ toChar' = [toChar EXCEPT ![Self] = <<[type |-> "kick", acc |-> a]>>]
    /\ UNCHANGED <<loginVars, charVars, mapVars, fromChar, toMap, fromMap, client,
                   faults>>

AnyLoginLinkUp ==
    /\ C!CharConnectsLogin
    /\ toChar' = [toChar EXCEPT ![Self] = << >>]
    /\ fromChar' = [fromChar EXCEPT ![Self] = << >>]
    /\ UNCHANGED <<loginVars, mapVars, toMap, fromMap, client, faults>>

AnyLoginLinkBreaks ==
    /\ Fault("loginLink")
    /\ C!CharLoginLost
    /\ toChar' = [toChar EXCEPT ![Self] = << >>]
    /\ fromChar' = [fromChar EXCEPT ![Self] = << >>]
    /\ UNCHANGED <<loginVars, mapVars, toMap, fromMap, client>>

AnyLoginNext ==
    \/ AnyLoginAnswers
    \/ /\ Answered
       /\ \/ AnyLoginAdmits \/ AnyLoginKicks
          \/ \E t \in Token : \/ ConnectChar(t) \/ SelectChar(t) \/ ConnectMap(t)
                              \/ RequestCharSelect(t) \/ Leave(t)
                              \/ ClosesConnection(t) \/ ServerCloses(t)
          \/ CharSelectAck
          \/ CharHandles \/ CharTimers
          \/ MapHandles \/ MapTimers \/ MapPlays
          \/ AnyLoginLinkUp \/ AnyLoginLinkBreaks
          \/ MapLinkUp \/ MapLinkBreaks
          \/ CharCrash \/ MapCrash

AnyLoginSpec == Init /\ [][AnyLoginNext]_vars

-----------------------------------------------------------------------------
(* Properties. *)

\* The packets between the char-server and the map-server.
FromMapMsg ==
         [type : {"maps"}]
    \cup [type : {"users"}, users : SUBSET [acc : Account, char : Char]]
    \cup [type : {"save"}, acc : Account, char : Char, ver : Nat, final : BOOLEAN]
    \cup [type : {"charSelect"}, acc : Account, tok : Token]
    \cup [type : {"auth"}, acc : Account, char : Char, tok : Token]
    \cup [type : {"offline", "regReq"}, acc : Account, char : Char]

ToMapMsg ==
         [type : {"connectAck", "mapsAck"}]
    \cup [type : {"disconnect", "selectAck"}, acc : Account]
    \cup [type : {"saveAck"}, acc : Account, char : Char]
    \cup [type : {"authOk"}, acc : Account, char : Char, tok : Token, ver : Nat]
    \cup [type : {"authFail"}, acc : Account, char : Char, tok : Token]
    \cup [type : {"regs"}, part : M!RegPart, acc : Account, char : Char]

\* Every database and every packet is well formed.
TypeOK ==
    /\ L!TypeOK /\ C!CharTypeOK /\ M!MapTypeOK
    /\ toMap \in Seq(ToMapMsg) /\ fromMap \in Seq(FromMapMsg)
    /\ client \in [Token -> [at : ClientPlace, acc : Account,
                             char : Char \cup {NoChar}]]
    /\ faults \in 0..MaxFaults

\* A character in play has the last version of its data that was ever made: it
\* was not loaded from the tables while a later version was on its way there,
\* and nothing was loaded over it.
NoRollback == \A a \in DOMAIN pc : pc[a].ver = latest[pc[a].char]

\* No change made in the game is lost, whichever links break and whenever the
\* char-server dies: it is in the tables, or in play, or in the map-server's
\* auth_db until the tables have it.  (The death of the map-server loses what
\* it did not save: latest is set back.)
NothingLost ==
    \A c \in Char :
        \/ sql[c] = latest[c]
        \/ \E a \in DOMAIN pc : pc[a].char = c /\ pc[a].ver = latest[c]
        \/ \E a \in DOMAIN mapAuth : /\ mapAuth[a].state = "logout"
                                     /\ mapAuth[a].char = c
                                     /\ mapAuth[a].ver = latest[c]

\* chrif.c:293 (chrif_save), "Failed to set up player %d:%d for proper
\* quitting!" and pc.c (pc_reg_received), "Failed to properly remove player
\* from logging db!" do not happen: no account is in play and in auth_db.
PlayingOrInAuthDb == DOMAIN pc \cap DOMAIN mapAuth = {}

\* session_data (struct map_session_data) is freed with whichever of the socket,
\* the node and the character owns it last: no node that logs in and no
\* character in play points at the data of a session that was closed, and no
\* open session is left with neither, waiting for an answer that cannot come.
SessionData ==
    /\ \A a \in Account :
          /\ M!LoggingIn(a) => mapAuth[a].fd \in DOMAIN mapSess
          /\ a \in DOMAIN pc => pc[a].fd \in DOMAIN mapSess \cup {NoToken}
    /\ \A t \in DOMAIN mapSess :
          LET a == mapSess[t].acc
          IN  mapSess[t].eof \/ M!Plays(t, a) \/ (M!LoggingIn(a) /\ mapAuth[a].fd = t)

\* A session the char-server works for, and a character in play, belong to a
\* login the login-server confirmed: not to one that timed out, or that a later
\* login of the account replaced, while its client was on its way.
AuthedWasGranted ==
    /\ \A t \in DOMAIN charSess : charSess[t].auth => granted[t] = 1
    /\ \A a \in DOMAIN pc : granted[pc[a].tok] = 1

\* char.c:2185, "There's already a connection from this account that hasn't
\* picked a char yet": an account has one session that is let in.
OneAuthedSession ==
    \A t, u \in DOMAIN charSess :
        (charSess[t].auth /\ charSess[u].auth /\ charSess[t].acc = charSess[u].acc)
            => t = u

\* login.c:1284, "schedule deletion of this node".
AuthNodeExpires == L!AuthNodeExpires

\* A character that left is not kept in auth_db for ever: the last save of its
\* data is acknowledged, whatever fails on the way.
LeftIsSaved == \A a \in Account : M!LoggingOut(a) ~> ~M!LoggingOut(a)

\* login.c:1226-1240, a player who is refused because the account is online
\* somewhere, and keeps trying, gets in: a kick reaches the server that has the
\* account, or a timer gives it up, though saves and reports that are on their
\* way may mark it online again.
Refuses(a) == Prompt /\ LoginStep /\ UNCHANGED client /\ L!LoginRefused(a)
AtCharServer(a) == a \in DOMAIN onlineDb /\ onlineDb[a].server \in ServerId

RetriedGetsIn ==
    \A a \in Account : SF_vars(Refuses(a)) => []<>~AtCharServer(a)

\* What the two servers promise about characters: see CharacterLedger.
InPlay(c) == Owner[c] \in DOMAIN pc /\ pc[Owner[c]].char = c
Left(c)   == M!LoggingOut(Owner[c]) /\ mapAuth[Owner[c]].char = c

Ledger == INSTANCE CharacterLedger WITH
    table <- sql,
    where <- [c \in Char |-> IF InPlay(c) THEN "inPlay"
                             ELSE IF Left(c) THEN "left" ELSE "away"],
    held  <- [c \in Char |-> IF InPlay(c) THEN pc[Owner[c]].ver
                             ELSE IF Left(c) THEN mapAuth[Owner[c]].ver
                             ELSE sql[c]]

KeepsLedger == Ledger!LedgerSpec
=============================================================================
