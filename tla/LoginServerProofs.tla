------------------------- MODULE LoginServerProofs -------------------------
(***************************************************************************)
(* Theorems about the login-server among arbitrary char-servers, for every *)
(* set of accounts, tokens and char-servers and every queue bound.         *)
(***************************************************************************)
EXTENDS LoginServer, TLAPS

\* Storing an entry of the right kind keeps a database well formed.
LEMMA IdbPutType ==
    ASSUME NEW db, NEW K, NEW V, IsIdb(db, K, V), NEW k \in K, NEW v \in V
    PROVE  IsIdb(IdbPut(db, k, v), K, V)
BY DEF IsIdb, IdbPut

\* So does removing one.
LEMMA IdbRemoveType ==
    ASSUME NEW db, NEW K, NEW V, IsIdb(db, K, V), NEW k
    PROVE  IsIdb(IdbRemove(db, k), K, V)
BY DEF IsIdb, IdbRemove

\* So does marking the accounts of a char-server as lost.
LEMMA SetServerOfflineType ==
    ASSUME NEW db, NEW s, IsIdb(db, Int, OnlineEntry)
    PROVE  IsIdb(SetServerOffline(db, s), Int, OnlineEntry)
<1> DEFINE new == SetServerOffline(db, s)
<1>1. DOMAIN new = DOMAIN db
  BY DEF SetServerOffline
<1>2. ASSUME NEW a \in DOMAIN db
      PROVE  new[a] \in OnlineEntry
  <2>1. db[a] \in OnlineEntry
    BY DEF IsIdb
  <2>2. [db[a] EXCEPT !.server = ServerLost] \in OnlineEntry
    BY <2>1 DEF OnlineEntry, ServerLost
  <2> QED
    BY <2>1, <2>2 DEF SetServerOffline
<1>3. new = [a \in DOMAIN db |-> new[a]]
  BY DEF SetServerOffline
<1> QED
  BY <1>1, <1>2, <1>3 DEF IsIdb

\* The two halves of an integer are integers.
LEMMA HalvesType ==
    ASSUME NEW n \in Int
    PROVE  /\ Signed16(Low16(n)) \in Int
           /\ High16(n) \in Int
<1>1. n % 65536 \in Int /\ n \div 65536 \in Int
  OBVIOUS
<1>2. (n \div 65536) % 65536 \in Int
  BY <1>1
<1> QED
  BY <1>1, <1>2 DEF Low16, High16, Signed16

\* An id read from a list is an integer, whatever was sent.
LEMMA IdReadType ==
    ASSUME NEW ids \in Seq(Account), NEW i \in DOMAIN ids
    PROVE  IdRead(ids, i) \in Int
<1> DEFINE high == Signed16(Low16(ids[i]))
           low  == IF i = 1 THEN 0 ELSE High16(ids[i - 1])
<1>1. ids[i] \in Account /\ (i # 1 => ids[i - 1] \in Account)
  OBVIOUS
<1>2. ids[i] \in Int /\ (i # 1 => ids[i - 1] \in Int)
  BY <1>1, AccountAssumption DEF AccountAssumption
<1>3. high \in Int
  BY <1>2, HalvesType
<1>4. low \in Int
  <2>1. CASE i = 1
    BY <2>1
  <2>2. CASE i # 1
    BY <1>2, <2>2, HalvesType
  <2> QED
    BY <2>1, <2>2
<1>5. IdRead(ids, i) = high * 65536 + low
  BY DEF IdRead
<1> HIDE DEF high, low
<1> QED
  BY <1>3, <1>4, <1>5

\* A packet that is being handled is one of those char-servers send.
LEMMA HeadType ==
    ASSUME TypeOK, NEW s \in ServerId, fromChar[s] # << >>
    PROVE  /\ Head(fromChar[s]) \in FromCharMsg
           /\ Tail(fromChar[s]) \in Seq(FromCharMsg)
BY DEF TypeOK

\* Handling a packet keeps the queue of the rest well formed.
LEMMA SkipType ==
    ASSUME TypeOK, NEW s \in ServerId, fromChar[s] # << >>, Skip(s)
    PROVE  fromChar' \in [ServerId -> Seq(FromCharMsg)]
BY HeadType DEF TypeOK, Skip

\* So does answering with a packet of the login-server.
LEMMA ReplyType ==
    ASSUME TypeOK, NEW s \in ServerId, NEW m \in ToCharMsg, Reply(s, m)
    PROVE  toChar' \in [ServerId -> Seq(ToCharMsg)]
BY DEF TypeOK, Reply

-----------------------------------------------------------------------------
(* The type invariant. *)

LEMMA InitTypeOK == Init => TypeOK
BY DEF Init, LoginInit, LoginLinksInit, TypeOK, NoEntries, IsIdb

\* The initial history and the packets sent at each kind of step are typed.
LEMMA NextTypeOK == TypeOK /\ [Next]_vars => TypeOK'
<1> SUFFICES ASSUME TypeOK, [Next]_vars
             PROVE  TypeOK'
  OBVIOUS
<1> USE DEF TypeOK
<1>1. ASSUME NEW a \in Account, LoginRefused(a)
      PROVE  TypeOK'
  <2>1. IsIdb(onlineDb', Int, OnlineEntry)
    <3>1. onlineDb[a] \in OnlineEntry /\ DOMAIN onlineDb' = DOMAIN onlineDb
      BY <1>1 DEF LoginRefused, IsIdb
    <3>2. [onlineDb[a] EXCEPT !.timer = TRUE] \in OnlineEntry
      BY <3>1 DEF OnlineEntry
    <3> QED
      BY <1>1, <3>1, <3>2 DEF LoginRefused, IsIdb
  <2>2. [type |-> "kick", acc |-> a] \in ToCharMsg
    BY DEF ToCharMsg
  <2>3. toChar' \in [ServerId -> Seq(ToCharMsg)]
    BY <1>1, <2>2 DEF LoginRefused, SendAll
  <2> QED
    BY <1>1, <2>1, <2>3 DEF LoginRefused, loginHistory
<1>2. ASSUME NEW a \in Account, NEW t \in Token, LoginAccepted(a, t)
      PROVE  TypeOK'
  <2>1. IsIdb(authDb', Account, Token)
    BY <1>2, IdbPutType DEF LoginAccepted
  <2>2. [server |-> NotAtCharServer, timer |-> TRUE] \in OnlineEntry
    BY DEF OnlineEntry
  <2>3. IsIdb(onlineDb', Int, OnlineEntry)
    BY <1>2, <2>2, IdbPutType, AccountAssumption
       DEF LoginAccepted, AccountAssumption
  <2> QED
    BY <1>2, <2>1, <2>3 DEF LoginAccepted
<1>3. ASSUME NEW a \in Account, LoginNoCharServer(a)
      PROVE  TypeOK'
  BY <1>3, IdbRemoveType DEF LoginNoCharServer, loginHistory
<1>4. ASSUME NEW a \in DOMAIN onlineDb, WaitingDisconnect(a)
      PROVE  TypeOK'
  BY <1>4, IdbRemoveType DEF WaitingDisconnect, loginHistory
<1>5. ASSUME LoginOnlineDataCleanup
      PROVE  TypeOK'
  BY <1>5 DEF LoginOnlineDataCleanup, loginHistory, IsIdb
<1>6. ASSUME NEW s \in ServerId, FromChar(s)
      PROVE  TypeOK'
  <2> DEFINE m == Head(fromChar[s])
  <2>0. fromChar[s] # << >>
    BY <1>6 DEF FromChar, Receives, FromCharParseAuth,
         FromCharParseAccountOnline, FromCharParseAccountOffline,
         FromCharParseWrongPincode, FromCharParseOnlineAccounts,
         FromCharParseAllOffline, FromCharParseRequestAccountReg2
  <2>1. m \in FromCharMsg
    BY <2>0, HeadType
  <2>2. CASE FromCharParseAuth(s)
    <3>1. m.acc \in Account /\ m.tok \in Token /\ m.req \in RequestId
      BY <2>1, <2>2 DEF FromCharMsg, FromCharParseAuth, Receives
    <3>2. \A ok \in BOOLEAN :
             [type |-> "authAck", acc |-> m.acc, tok |-> m.tok,
              req |-> m.req, ok |-> ok] \in ToCharMsg
      BY <3>1 DEF ToCharMsg
    <3>3. toChar' \in [ServerId -> Seq(ToCharMsg)]
      BY <2>2, <3>2, ReplyType DEF FromCharParseAuth
    <3>4. IsIdb(authDb', Account, Token)
      BY <2>2, IdbRemoveType DEF FromCharParseAuth
    <3>5. granted' \in [Token -> Nat]
      BY <2>2, <3>1 DEF FromCharParseAuth
    <3>6. fromChar' \in [ServerId -> Seq(FromCharMsg)]
      BY <2>0, <2>2, SkipType DEF FromCharParseAuth
    <3> QED
      BY <2>2, <3>3, <3>4, <3>5, <3>6 DEF FromCharParseAuth
  <2>3. CASE FromCharParseAccountOnline(s)
    <3>1. m.acc \in Int
      BY <2>1, <2>3, AccountAssumption
         DEF FromCharMsg, FromCharParseAccountOnline, Receives, AccountAssumption
    <3>2. [server |-> s, timer |-> FALSE] \in OnlineEntry
      BY DEF OnlineEntry
    <3>3. IsIdb(onlineDb', Int, OnlineEntry)
      BY <2>3, <3>1, <3>2, IdbPutType DEF FromCharParseAccountOnline, AddOnlineUser
    <3>4. fromChar' \in [ServerId -> Seq(FromCharMsg)]
      BY <2>0, <2>3, SkipType DEF FromCharParseAccountOnline
    <3> QED
      BY <2>3, <3>3, <3>4 DEF FromCharParseAccountOnline, loginHistory
  <2>4. CASE FromCharParseAccountOffline(s) \/ FromCharParseWrongPincode(s)
    <3>1. IsIdb(onlineDb', Int, OnlineEntry)
      BY <2>4, IdbRemoveType
         DEF FromCharParseAccountOffline, FromCharParseWrongPincode
    <3>2. fromChar' \in [ServerId -> Seq(FromCharMsg)]
      BY <2>0, <2>4, SkipType
         DEF FromCharParseAccountOffline, FromCharParseWrongPincode
    <3> QED
      BY <2>4, <3>1, <3>2
         DEF FromCharParseAccountOffline, FromCharParseWrongPincode, loginHistory
  <2>5. CASE FromCharParseOnlineAccounts(s)
    <3> DEFINE ids  == m.ids
               read == {IdRead(ids, i) : i \in DOMAIN ids}
               rest == SetServerOffline(onlineDb, s)
    <3>1. ids \in Seq(Account)
      BY <2>1, <2>5, AccountListAssumption
         DEF FromCharMsg, FromCharParseOnlineAccounts, Receives,
             AccountListAssumption
    <3>2. read \subseteq Int
      BY <3>1, IdReadType
    <3>3. IsIdb(rest, Int, OnlineEntry)
      BY SetServerOfflineType
    <3>4. [server |-> s, timer |-> FALSE] \in OnlineEntry
      BY DEF OnlineEntry
    <3>5. onlineDb' = [a \in DOMAIN rest \cup read |->
                          IF a \in read THEN [server |-> s, timer |-> FALSE]
                                        ELSE rest[a]]
      BY <2>5 DEF FromCharParseOnlineAccounts
    <3>6. IsIdb(onlineDb', Int, OnlineEntry)
      <4> HIDE DEF rest, read
      <4> QED
        BY <3>2, <3>3, <3>4, <3>5 DEF IsIdb
    <3>7. fromChar' \in [ServerId -> Seq(FromCharMsg)]
      BY <2>0, <2>5, SkipType DEF FromCharParseOnlineAccounts
    <3> QED
      BY <2>5, <3>6, <3>7 DEF FromCharParseOnlineAccounts, loginHistory
  <2>6. CASE FromCharParseAllOffline(s)
    <3>1. IsIdb(onlineDb', Int, OnlineEntry)
      BY <2>6, SetServerOfflineType DEF FromCharParseAllOffline
    <3>2. fromChar' \in [ServerId -> Seq(FromCharMsg)]
      BY <2>0, <2>6, SkipType DEF FromCharParseAllOffline
    <3> QED
      BY <2>6, <3>1, <3>2 DEF FromCharParseAllOffline, loginHistory
  <2>7. CASE FromCharParseRequestAccountReg2(s)
    <3>1. m \in ToCharMsg
      BY <2>1, <2>7 DEF FromCharMsg, ToCharMsg, FromCharParseRequestAccountReg2,
                        Receives
    <3>2. toChar' \in [ServerId -> Seq(ToCharMsg)]
      BY <2>7, <3>1, ReplyType DEF FromCharParseRequestAccountReg2
    <3>3. fromChar' \in [ServerId -> Seq(FromCharMsg)]
      BY <2>0, <2>7, SkipType DEF FromCharParseRequestAccountReg2
    <3> QED
      BY <2>7, <3>2, <3>3 DEF FromCharParseRequestAccountReg2, loginHistory
  <2> QED
    BY <1>6, <2>2, <2>3, <2>4, <2>5, <2>6, <2>7 DEF FromChar
<1>7. ASSUME NEW s \in ServerId, ParseRequestConnection(s)
      PROVE  TypeOK'
  <2>1. <<[type |-> "connected"]>> \in Seq(ToCharMsg)
    BY DEF ToCharMsg
  <2> QED
    BY <1>7, <2>1 DEF ParseRequestConnection, loginHistory
<1>8. ASSUME NEW s \in ServerId, ChrifOnDisconnect(s)
      PROVE  TypeOK'
  BY <1>8, SetServerOfflineType DEF ChrifOnDisconnect, loginHistory
<1>9. ASSUME NEW s \in ServerId, CharServerReads(s)
      PROVE  TypeOK'
  BY <1>9 DEF CharServerReads, loginVars
<1>10. ASSUME NEW s \in ServerId, NEW m \in FromCharMsg, CharServerSends(s, m)
       PROVE  TypeOK'
  BY <1>10 DEF CharServerSends, loginVars
<1>11. CASE UNCHANGED vars
  BY <1>11 DEF vars, loginVars, loginLinks
<1> QED
  BY <1>1, <1>2, <1>3, <1>4, <1>5, <1>6, <1>7, <1>8, <1>9, <1>10, <1>11
     DEF Next, Client

\* The databases and links of the login-server stay well formed in every
\* behaviour, whatever the char-servers send.
THEOREM LoginServerTypeOK == Spec => []TypeOK
BY InitTypeOK, NextTypeOK, PTL DEF Spec

-----------------------------------------------------------------------------
(* Session keys are accepted once, and only the latest of an account.      *)

\* The inductive strengthening of GrantedOnce and AuthIsNewest: a key that is
\* still accepted was handed out, to one account, and confirmed to nobody.
GrantInv ==
    /\ \A a \in DOMAIN authDb : /\ authDb[a] \in issued
                                /\ granted[authDb[a]] = 0
                                /\ authDb[a] = newest[a]
    /\ \A a, b \in DOMAIN authDb : authDb[a] = authDb[b] => a = b
    /\ \A t \in Token : /\ granted[t] <= 1
                        /\ granted[t] > 0 => t \in issued

LEMMA InitGrantInv == Init => GrantInv
BY DEF Init, LoginInit, GrantInv, NoEntries

\* Entries that leave auth_db, and nothing else, cannot break it.
LEMMA GrantInvShrinks ==
    ASSUME TypeOK, GrantInv, UNCHANGED loginHistory,
           NEW a, authDb' = IdbRemove(authDb, a)
    PROVE  GrantInv'
BY DEF GrantInv, IdbRemove, loginHistory, TypeOK, IsIdb

LEMMA NextGrantInv == TypeOK /\ GrantInv /\ [Next]_vars => GrantInv'
<1> SUFFICES ASSUME TypeOK, GrantInv, [Next]_vars
             PROVE  GrantInv'
  OBVIOUS
<1>0. ASSUME UNCHANGED <<authDb, loginHistory>>
      PROVE  GrantInv'
  BY <1>0 DEF GrantInv, loginHistory
<1>1. ASSUME NEW a \in Account, NEW t \in Token, LoginAccepted(a, t)
      PROVE  GrantInv'
  <2>1. t \notin issued /\ granted[t] = 0
    BY <1>1 DEF LoginAccepted, GrantInv, TypeOK
  <2>2. DOMAIN authDb' = DOMAIN authDb \cup {a} /\ authDb'[a] = t
    BY <1>1 DEF LoginAccepted, IdbPut
  <2>3. \A b \in DOMAIN authDb : b # a => authDb'[b] = authDb[b]
    BY <1>1 DEF LoginAccepted, IdbPut
  <2>4. /\ newest'[a] = t
        /\ \A b \in Account : b # a => newest'[b] = newest[b]
    BY <1>1 DEF LoginAccepted, TypeOK
  <2>5. issued' = issued \cup {t} /\ granted' = granted
    BY <1>1 DEF LoginAccepted
  <2>6. DOMAIN authDb \subseteq Account
    BY DEF TypeOK, IsIdb
  <2>7. ASSUME NEW b \in DOMAIN authDb'
        PROVE  /\ authDb'[b] \in issued'
               /\ granted'[authDb'[b]] = 0
               /\ authDb'[b] = newest'[b]
    <3>1. CASE b = a
      BY <2>1, <2>2, <2>4, <2>5, <3>1
    <3>2. CASE b # a
      BY <2>2, <2>3, <2>4, <2>5, <2>6, <3>2 DEF GrantInv
    <3> QED
      BY <3>1, <3>2
  <2>8. ASSUME NEW b \in DOMAIN authDb', NEW c \in DOMAIN authDb',
               authDb'[b] = authDb'[c]
        PROVE  b = c
    <3>1. \A d \in DOMAIN authDb : authDb[d] # t
      BY <2>1 DEF GrantInv
    <3> QED
      BY <2>2, <2>3, <2>8, <3>1 DEF GrantInv
  <2> QED
    BY <2>5, <2>7, <2>8 DEF GrantInv
<1>2. ASSUME NEW a \in Account, LoginRefused(a) \/ LoginNoCharServer(a)
      PROVE  GrantInv'
  BY <1>0, <1>2, GrantInvShrinks DEF LoginRefused, LoginNoCharServer
<1>3. ASSUME NEW a \in DOMAIN onlineDb, WaitingDisconnect(a)
      PROVE  GrantInv'
  BY <1>3, GrantInvShrinks DEF WaitingDisconnect
<1>4. CASE LoginOnlineDataCleanup
  BY <1>0, <1>4 DEF LoginOnlineDataCleanup
<1>5. ASSUME NEW s \in ServerId, FromCharParseAuth(s)
      PROVE  GrantInv'
  <2> DEFINE m == Head(fromChar[s])
  <2>1. CASE ~ (m.acc \in DOMAIN authDb /\ authDb[m.acc] = m.tok)
    BY <1>0, <1>5, <2>1 DEF FromCharParseAuth, loginHistory
  <2>2. CASE m.acc \in DOMAIN authDb /\ authDb[m.acc] = m.tok
    <3>1. /\ authDb' = IdbRemove(authDb, m.acc)
          /\ granted' = [granted EXCEPT ![m.tok] = @ + 1]
          /\ issued' = issued /\ newest' = newest
      BY <1>5, <2>2 DEF FromCharParseAuth
    <3>2. m.tok \in Token /\ granted[m.tok] = 0 /\ m.tok \in issued
      BY <2>2 DEF GrantInv, TypeOK, IsIdb
    <3>3. /\ granted'[m.tok] = 1
          /\ \A t \in Token : t # m.tok => granted'[t] = granted[t]
      BY <3>1, <3>2 DEF TypeOK
    <3>4. /\ DOMAIN authDb' = DOMAIN authDb \ {m.acc}
          /\ \A b \in DOMAIN authDb' : authDb'[b] = authDb[b]
      BY <3>1 DEF IdbRemove
    <3>5. \A b \in DOMAIN authDb' : authDb[b] \in Token /\ authDb[b] # m.tok
      BY <2>2, <3>4 DEF GrantInv, TypeOK, IsIdb
    <3>6. \A b \in DOMAIN authDb' : /\ authDb'[b] \in issued'
                                    /\ granted'[authDb'[b]] = 0
                                    /\ authDb'[b] = newest'[b]
      BY <3>1, <3>3, <3>4, <3>5 DEF GrantInv
    <3>7. \A t \in Token : /\ granted'[t] <= 1
                           /\ granted'[t] > 0 => t \in issued'
      BY <3>1, <3>2, <3>3 DEF GrantInv
    <3>8. \A b, c \in DOMAIN authDb' : authDb'[b] = authDb'[c] => b = c
      BY <3>4 DEF GrantInv
    <3> QED
      BY <3>6, <3>7, <3>8 DEF GrantInv
  <2> QED
    BY <2>1, <2>2
<1>6. ASSUME NEW s \in ServerId, FromChar(s), ~ FromCharParseAuth(s)
      PROVE  GrantInv'
  BY <1>0, <1>6
     DEF FromChar, FromCharParseAccountOnline, FromCharParseAccountOffline,
         FromCharParseWrongPincode, FromCharParseOnlineAccounts,
         FromCharParseAllOffline, FromCharParseRequestAccountReg2
<1>7. ASSUME NEW s \in ServerId,
             ParseRequestConnection(s) \/ ChrifOnDisconnect(s)
      PROVE  GrantInv'
  BY <1>0, <1>7 DEF ParseRequestConnection, ChrifOnDisconnect
<1>8. ASSUME NEW s \in ServerId, CharServerReads(s)
      PROVE  GrantInv'
  BY <1>0, <1>8 DEF CharServerReads, loginVars, loginHistory
<1>9. ASSUME NEW s \in ServerId, NEW m \in FromCharMsg, CharServerSends(s, m)
      PROVE  GrantInv'
  BY <1>0, <1>9 DEF CharServerSends, loginVars, loginHistory
<1>10. CASE UNCHANGED vars
  BY <1>0, <1>10 DEF vars, loginVars, loginHistory
<1> QED
  BY <1>1, <1>2, <1>3, <1>4, <1>5, <1>6, <1>7, <1>8, <1>9, <1>10
     DEF Next, Client

LEMMA GrantsStay == Spec => []GrantInv
BY InitGrantInv, NextGrantInv, LoginServerTypeOK, PTL DEF Spec

\* No session key is ever confirmed twice (login_fromchar_parse_auth removes its node),
\* whatever the char-servers ask for and however often.
THEOREM LoginServerGrantedOnce == Spec => []GrantedOnce
<1>1. GrantInv => GrantedOnce
  BY DEF GrantInv, GrantedOnce
<1> QED
  BY <1>1, GrantsStay, PTL

\* The only key of an account that is accepted is that of its latest login: the put in
\* login_auth_ok replaces the earlier one, and nothing brings that back.
THEOREM LoginServerAuthIsNewest == Spec => []AuthIsNewest
<1>1. GrantInv => AuthIsNewest
  BY DEF GrantInv, AuthIsNewest
<1> QED
  BY <1>1, GrantsStay, PTL

-----------------------------------------------------------------------------
(* Accounts are held by connected char-servers only.                       *)

LEMMA NextHeldByConnected ==
    TypeOK /\ HeldByConnected /\ [Next]_vars => HeldByConnected'
<1> SUFFICES ASSUME TypeOK, HeldByConnected, [Next]_vars
             PROVE  HeldByConnected'
  OBVIOUS
<1>0. NotAtCharServer \notin ServerId /\ ServerLost \notin ServerId
  BY ServerIdAssumption DEF ServerIdAssumption, NotAtCharServer, ServerLost
<1>1. ASSUME server' = server,
             \A a \in DOMAIN onlineDb' :
                \/ a \in DOMAIN onlineDb
                   /\ onlineDb'[a].server = onlineDb[a].server
                \/ onlineDb'[a].server \notin ServerId
                \/ server[onlineDb'[a].server]
      PROVE  HeldByConnected'
  BY <1>1 DEF HeldByConnected
<1>2. ASSUME NEW k, server' = server, onlineDb' = IdbRemove(onlineDb, k)
      PROVE  HeldByConnected'
  BY <1>2 DEF HeldByConnected, IdbRemove
<1>3. ASSUME NEW s, NEW a \in DOMAIN SetServerOffline(onlineDb, s)
      PROVE  /\ a \in DOMAIN onlineDb
             /\ \/ SetServerOffline(onlineDb, s)[a] = onlineDb[a]
                   /\ onlineDb[a].server # s
                \/ SetServerOffline(onlineDb, s)[a].server = ServerLost
  <2>1. a \in DOMAIN onlineDb /\ onlineDb[a] \in OnlineEntry
    BY <1>3 DEF SetServerOffline, TypeOK, IsIdb
  <2>2. [onlineDb[a] EXCEPT !.server = ServerLost].server = ServerLost
    BY <2>1 DEF OnlineEntry
  <2> QED
    BY <2>1, <2>2 DEF SetServerOffline
<1>4. ASSUME NEW a \in Account, LoginRefused(a)
      PROVE  HeldByConnected'
  <2>1. /\ DOMAIN onlineDb' = DOMAIN onlineDb
        /\ \A b \in DOMAIN onlineDb : onlineDb'[b].server = onlineDb[b].server
    BY <1>4 DEF LoginRefused, TypeOK, IsIdb, OnlineEntry
  <2> QED
    BY <1>1, <1>4, <2>1 DEF LoginRefused
<1>5. ASSUME NEW a \in Account, NEW t \in Token, LoginAccepted(a, t)
      PROVE  HeldByConnected'
  BY <1>0, <1>1, <1>5 DEF LoginAccepted, IdbPut
<1>6. ASSUME NEW a \in Account, LoginNoCharServer(a)
      PROVE  HeldByConnected'
  BY <1>2, <1>6 DEF LoginNoCharServer
<1>7. ASSUME NEW a \in DOMAIN onlineDb, WaitingDisconnect(a)
      PROVE  HeldByConnected'
  BY <1>2, <1>7 DEF WaitingDisconnect
<1>8. CASE LoginOnlineDataCleanup
  BY <1>1, <1>8 DEF LoginOnlineDataCleanup
<1>9. ASSUME NEW s \in ServerId, FromChar(s)
      PROVE  HeldByConnected'
  <2>1. CASE FromCharParseAuth(s) \/ FromCharParseRequestAccountReg2(s)
    BY <1>1, <2>1 DEF FromCharParseAuth, FromCharParseRequestAccountReg2
  <2>2. CASE FromCharParseAccountOnline(s)
    BY <1>1, <2>2 DEF FromCharParseAccountOnline, AddOnlineUser, IdbPut, Receives
  <2>3. CASE FromCharParseAccountOffline(s) \/ FromCharParseWrongPincode(s)
    BY <1>2, <2>3 DEF FromCharParseAccountOffline, FromCharParseWrongPincode
  <2>4. CASE FromCharParseOnlineAccounts(s)
    <3> DEFINE ids  == Head(fromChar[s]).ids
               read == {IdRead(ids, i) : i \in DOMAIN ids}
               rest == SetServerOffline(onlineDb, s)
    <3>1. /\ server' = server /\ server[s]
          /\ onlineDb' = [a \in DOMAIN rest \cup read |->
                             IF a \in read THEN [server |-> s, timer |-> FALSE]
                                           ELSE rest[a]]
      BY <2>4 DEF FromCharParseOnlineAccounts, Receives
    <3>2. \A a \in DOMAIN rest :
             a \in DOMAIN onlineDb /\ (\/ rest[a] = onlineDb[a]
                                       \/ rest[a].server \notin ServerId)
      BY <1>0, <1>3
    <3> HIDE DEF rest, read
    <3> QED
      BY <1>1, <3>1, <3>2
  <2>5. CASE FromCharParseAllOffline(s)
    BY <1>0, <1>1, <1>3, <2>5 DEF FromCharParseAllOffline
  <2> QED
    BY <1>9, <2>1, <2>2, <2>3, <2>4, <2>5 DEF FromChar
<1>10. ASSUME NEW s \in ServerId, ParseRequestConnection(s)
       PROVE  HeldByConnected'
  BY <1>10 DEF ParseRequestConnection, HeldByConnected, TypeOK, IsIdb, OnlineEntry
<1>11. ASSUME NEW s \in ServerId, ChrifOnDisconnect(s)
       PROVE  HeldByConnected'
  <2>1. /\ onlineDb' = SetServerOffline(onlineDb, s)
        /\ \A r \in ServerId : r # s => server'[r] = server[r]
    BY <1>11 DEF ChrifOnDisconnect, TypeOK
  <2> QED
    BY <1>0, <1>3, <2>1 DEF HeldByConnected
<1>12. ASSUME NEW s \in ServerId, CharServerReads(s)
       PROVE  HeldByConnected'
  BY <1>1, <1>12 DEF CharServerReads, loginVars
<1>13. ASSUME NEW s \in ServerId, NEW m \in FromCharMsg, CharServerSends(s, m)
       PROVE  HeldByConnected'
  BY <1>1, <1>13 DEF CharServerSends, loginVars
<1>14. CASE UNCHANGED vars
  BY <1>1, <1>14 DEF vars, loginVars
<1> QED
  BY <1>4, <1>5, <1>6, <1>7, <1>8, <1>9, <1>10, <1>11, <1>12, <1>13, <1>14
     DEF Next, Client

\* No account is ever held by a char-server that is not connected: nothing
\* else can free it, because only its char-server would report it offline.
THEOREM LoginServerHeldByConnected == Spec => []HeldByConnected
<1>1. Init => HeldByConnected
  BY DEF Init, LoginInit, HeldByConnected, NoEntries
<1> QED
  BY <1>1, NextHeldByConnected, LoginServerTypeOK, PTL DEF Spec
=============================================================================
