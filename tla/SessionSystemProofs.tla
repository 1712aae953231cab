------------------------ MODULE SessionSystemProofs ------------------------
(***************************************************************************)
(* Theorems about the three servers, for every set of accounts, characters *)
(* and tokens, every bound and every fault, with the login-server of the   *)
(* model and with any:                                                     *)
(*   - who owns what in the map-server: sessions of clients, nodes in      *)
(*     auth_db and active characters; no step but the map-server's own     *)
(*     touches the three databases;                                        *)
(*   - every database and every packet is well formed.                     *)
(* And, with the login-server of the model: nobody plays with a key that   *)
(* it did not confirm.                                                     *)
(***************************************************************************)
EXTENDS SessionSystem, TLAPS, FiniteSetTheorems

-----------------------------------------------------------------------------
(* Who owns what in the map-server.                                        *)

\* The records of the three databases have the fields their structures have.
IsNode(n) == n = [state |-> n.state, char |-> n.char, tok |-> n.tok,
                  fd |-> n.fd, ver |-> n.ver, regs |-> n.regs]
IsPlayer(p) == p = [char |-> p.char, tok |-> p.tok, fd |-> p.fd, ver |-> p.ver]
IsSession(s) == s = [acc |-> s.acc, char |-> s.char, eof |-> s.eof]

Shape ==
    /\ DOMAIN mapSess \subseteq Token
    /\ \A t \in DOMAIN mapSess : IsSession(mapSess[t])
    /\ \A a \in DOMAIN mapAuth : IsNode(mapAuth[a])
    /\ \A a \in DOMAIN pc : IsPlayer(pc[a])

\* A node that logs in has a session, opened for that account and character.
NodeHasSession ==
    \A a \in DOMAIN mapAuth :
        mapAuth[a].state = "login" =>
            /\ mapAuth[a].fd \in DOMAIN mapSess
            /\ mapSess[mapAuth[a].fd].acc = a
            /\ mapSess[mapAuth[a].fd].char = mapAuth[a].char

\* A character in play has one opened for its account, or none.
PlayerHasSession ==
    \A a \in DOMAIN pc :
        \/ pc[a].fd = NoToken
        \/ pc[a].fd \in DOMAIN mapSess /\ mapSess[pc[a].fd].acc = a

\* An open session has a node that logs in or a character in play.
SessionHasOwner ==
    \A t \in DOMAIN mapSess :
        LET a == mapSess[t].acc
        IN  \/ mapSess[t].eof
            \/ a \in DOMAIN pc /\ pc[a].fd = t
            \/ a \in DOMAIN mapAuth /\ mapAuth[a].state = "login"
                                    /\ mapAuth[a].fd = t

\* The inductive invariant: it says of all three databases at once what
\* PlayingOrInAuthDb and SessionData say of two.
Ownership ==
    /\ Shape
    /\ PlayingOrInAuthDb
    /\ NodeHasSession
    /\ PlayerHasSession
    /\ SessionHasOwner

owned == <<mapAuth, pc, mapSess>>

-----------------------------------------------------------------------------
(* What the map-server's operations do to the three databases.             *)

\* Steps that touch none of them.
LEMMA OwnershipStutters ==
    ASSUME Ownership, UNCHANGED owned
    PROVE  Ownership'
BY DEF Ownership, Shape, PlayingOrInAuthDb, NodeHasSession, PlayerHasSession,
       SessionHasOwner, owned

\* Marking a session as closed disturbs nobody's claim to it.
LEMMA CloseSession ==
    ASSUME Ownership, NEW t \in DOMAIN mapSess,
           mapSess' = [mapSess EXCEPT ![t].eof = TRUE],
           UNCHANGED <<mapAuth, pc>>
    PROVE  Ownership'
<1>1. /\ DOMAIN mapSess' = DOMAIN mapSess
      /\ \A u \in DOMAIN mapSess : /\ mapSess'[u].acc = mapSess[u].acc
                                   /\ mapSess'[u].char = mapSess[u].char
                                   /\ IsSession(mapSess'[u])
                                   /\ mapSess[u].eof => mapSess'[u].eof
  <2> SUFFICES ASSUME NEW u \in DOMAIN mapSess
               PROVE  /\ mapSess'[u].acc = mapSess[u].acc
                      /\ mapSess'[u].char = mapSess[u].char
                      /\ IsSession(mapSess'[u])
                      /\ mapSess[u].eof => mapSess'[u].eof
    OBVIOUS
  <2>1. IsSession(mapSess[u])
    BY DEF Ownership, Shape
  <2>2. CASE u = t
    BY <2>1, <2>2 DEF IsSession
  <2>3. CASE u # t
    BY <2>1, <2>3 DEF IsSession
  <2> QED
    BY <2>2, <2>3
<1>2. Shape' /\ PlayingOrInAuthDb'
  BY <1>1 DEF Ownership, Shape, PlayingOrInAuthDb
<1>3. NodeHasSession' /\ PlayerHasSession'
  BY <1>1 DEF Ownership, NodeHasSession, PlayerHasSession
<1>4. SessionHasOwner'
  <2>1. mapSess'[t].eof
    BY DEF Ownership, Shape, IsSession
  <2> QED
    BY <1>1, <2>1 DEF Ownership, SessionHasOwner
<1> QED
  BY <1>2, <1>3, <1>4 DEF Ownership

\* A database without one of its entries.
LEMMA IdbRemoveFacts ==
    ASSUME NEW db, NEW k
    PROVE  /\ DOMAIN M!IdbRemove(db, k) = DOMAIN db \ {k}
           /\ \A x \in DOMAIN db \ {k} : M!IdbRemove(db, k)[x] = db[x]
BY DEF M!IdbRemove

\* A database with one more entry, or with one replaced.
LEMMA IdbPutFacts ==
    ASSUME NEW db, NEW k, NEW v
    PROVE  /\ DOMAIN M!IdbPut(db, k, v) = DOMAIN db \cup {k}
           /\ M!IdbPut(db, k, v)[k] = v
           /\ \A x \in DOMAIN db \ {k} : M!IdbPut(db, k, v)[x] = db[x]
BY DEF M!IdbPut

\* A node that logs in goes together with its session.
LEMMA AuthDeleteOwnership ==
    ASSUME Ownership, NEW a, M!LoggingIn(a), M!AuthDelete(a), UNCHANGED pc
    PROVE  Ownership'
<1> DEFINE fd == mapAuth[a].fd
<1>1. /\ a \in DOMAIN mapAuth /\ a \notin DOMAIN pc
      /\ fd \in DOMAIN mapSess /\ mapSess[fd].acc = a
  BY DEF Ownership, NodeHasSession, PlayingOrInAuthDb, M!LoggingIn
<1>2. /\ DOMAIN mapAuth' = DOMAIN mapAuth \ {a}
      /\ \A b \in DOMAIN mapAuth' : mapAuth'[b] = mapAuth[b]
  BY IdbRemoveFacts DEF M!AuthDelete
<1>3. /\ DOMAIN mapSess' = DOMAIN mapSess \ {fd}
      /\ \A t \in DOMAIN mapSess' : mapSess'[t] = mapSess[t]
  BY IdbRemoveFacts DEF M!AuthDelete
<1> HIDE DEF fd
<1>4. Shape' /\ PlayingOrInAuthDb'
  BY <1>2, <1>3 DEF Ownership, Shape, PlayingOrInAuthDb
<1>5. NodeHasSession'
  BY <1>1, <1>2, <1>3 DEF Ownership, NodeHasSession
<1>6. PlayerHasSession'
  BY <1>1, <1>3 DEF Ownership, PlayerHasSession
<1>7. SessionHasOwner'
  BY <1>1, <1>2, <1>3 DEF Ownership, SessionHasOwner, fd
<1> QED
  BY <1>4, <1>5, <1>6, <1>7 DEF Ownership

\* A session without an owner, or one whose owner goes with it, may be freed.
LEMMA FreeSession ==
    ASSUME Ownership, NEW t \in DOMAIN mapSess,
           mapSess' = M!IdbRemove(mapSess, t),
           \A a \in DOMAIN mapAuth :
               mapAuth[a].state = "login" => mapAuth[a].fd # t,
           \A a \in DOMAIN pc : pc[a].fd # t,
           UNCHANGED <<mapAuth, pc>>
    PROVE  Ownership'
<1>1. /\ DOMAIN mapSess' = DOMAIN mapSess \ {t}
      /\ \A u \in DOMAIN mapSess' : mapSess'[u] = mapSess[u]
  BY IdbRemoveFacts
<1>2. Shape' /\ PlayingOrInAuthDb'
  BY <1>1 DEF Ownership, Shape, PlayingOrInAuthDb
<1>3. NodeHasSession' /\ PlayerHasSession'
  BY <1>1 DEF Ownership, NodeHasSession, PlayerHasSession
<1>4. SessionHasOwner'
  BY <1>1 DEF Ownership, SessionHasOwner
<1> QED
  BY <1>2, <1>3, <1>4 DEF Ownership

\* A character that leaves becomes a node; its session, when it has one, is
\* freed in the same step.
LEMMA MapQuitOwnership ==
    ASSUME Ownership, NEW a \in DOMAIN pc, M!MapQuit(a),
           \/ pc[a].fd = NoToken /\ mapSess' = mapSess
           \/ pc[a].fd # NoToken /\ mapSess' = M!IdbRemove(mapSess, pc[a].fd)
    PROVE  Ownership'
<1> DEFINE node == [state |-> "logout", char |-> pc[a].char, tok |-> pc[a].tok,
                    fd |-> NoToken, ver |-> pc[a].ver, regs |-> {}]
<1>1. a \notin DOMAIN mapAuth
  BY DEF Ownership, PlayingOrInAuthDb
<1>2. /\ DOMAIN mapAuth' = DOMAIN mapAuth \cup {a}
      /\ mapAuth'[a] = node
      /\ \A b \in DOMAIN mapAuth : mapAuth'[b] = mapAuth[b]
  <2>1. mapAuth' = M!IdbPut(mapAuth, a, node)
    BY DEF M!MapQuit
  <2>2. /\ DOMAIN M!IdbPut(mapAuth, a, node) = DOMAIN mapAuth \cup {a}
        /\ M!IdbPut(mapAuth, a, node)[a] = node
        /\ \A b \in DOMAIN mapAuth \ {a} :
               M!IdbPut(mapAuth, a, node)[b] = mapAuth[b]
    BY DEF M!IdbPut
  <2> HIDE DEF node
  <2> QED
    BY <1>1, <2>1, <2>2
<1>3. /\ DOMAIN pc' = DOMAIN pc \ {a}
      /\ \A b \in DOMAIN pc' : pc'[b] = pc[b]
  BY IdbRemoveFacts DEF M!MapQuit
<1>4. /\ DOMAIN mapSess' = DOMAIN mapSess \ {pc[a].fd}
      /\ \A t \in DOMAIN mapSess' : mapSess'[t] = mapSess[t]
  <2>1. CASE pc[a].fd = NoToken /\ mapSess' = mapSess
    BY <2>1, NoTokenAssumption DEF Ownership, Shape
  <2>2. CASE mapSess' = M!IdbRemove(mapSess, pc[a].fd)
    BY <2>2, IdbRemoveFacts
  <2> QED
    BY <2>1, <2>2
<1>5. IsNode(node) /\ node.state = "logout"
  BY DEF IsNode
<1> HIDE DEF node
<1>6. Shape' /\ PlayingOrInAuthDb'
  BY <1>2, <1>3, <1>4, <1>5 DEF Ownership, Shape, PlayingOrInAuthDb
<1>7. NodeHasSession'
  <2> SUFFICES ASSUME NEW b \in DOMAIN mapAuth', mapAuth'[b].state = "login"
               PROVE  /\ mapAuth'[b].fd \in DOMAIN mapSess'
                      /\ mapSess'[mapAuth'[b].fd].acc = b
                      /\ mapSess'[mapAuth'[b].fd].char = mapAuth'[b].char
    BY DEF NodeHasSession
  <2>1. b # a /\ b \in DOMAIN mapAuth /\ mapAuth'[b] = mapAuth[b]
    BY <1>2, <1>5
  <2>2. /\ mapAuth[b].fd \in DOMAIN mapSess
        /\ mapSess[mapAuth[b].fd].acc = b
        /\ mapSess[mapAuth[b].fd].char = mapAuth[b].char
    BY <2>1 DEF Ownership, NodeHasSession
  <2>3. mapAuth[b].fd # pc[a].fd
    BY <2>1, <2>2, NoTokenAssumption DEF Ownership, Shape, PlayerHasSession
  <2> QED
    BY <1>4, <2>1, <2>2, <2>3
<1>8. PlayerHasSession'
  <2> SUFFICES ASSUME NEW b \in DOMAIN pc', pc'[b].fd # NoToken
               PROVE  pc'[b].fd \in DOMAIN mapSess' /\ mapSess'[pc'[b].fd].acc = b
    BY DEF PlayerHasSession
  <2>1. b # a /\ b \in DOMAIN pc /\ pc'[b] = pc[b]
    BY <1>3
  <2>2. pc[b].fd \in DOMAIN mapSess /\ mapSess[pc[b].fd].acc = b
    BY <2>1 DEF Ownership, PlayerHasSession
  <2>3. pc[b].fd # pc[a].fd
    BY <2>1, <2>2 DEF Ownership, PlayerHasSession
  <2> QED
    BY <1>4, <2>1, <2>2, <2>3
<1>9. SessionHasOwner'
  <2> SUFFICES ASSUME NEW t \in DOMAIN mapSess', ~mapSess'[t].eof,
                      NEW b, b = mapSess'[t].acc
               PROVE  \/ b \in DOMAIN pc' /\ pc'[b].fd = t
                      \/ b \in DOMAIN mapAuth' /\ mapAuth'[b].state = "login"
                                               /\ mapAuth'[b].fd = t
    BY DEF SessionHasOwner
  <2>1. t \in DOMAIN mapSess /\ t # pc[a].fd /\ mapSess'[t] = mapSess[t]
    BY <1>4
  <2>2. \/ b \in DOMAIN pc /\ pc[b].fd = t
        \/ b \in DOMAIN mapAuth /\ mapAuth[b].state = "login"
                                /\ mapAuth[b].fd = t
    BY <2>1 DEF Ownership, SessionHasOwner
  <2> QED
    BY <1>2, <1>3, <2>1, <2>2
<1> QED
  BY <1>6, <1>7, <1>8, <1>9 DEF Ownership

-----------------------------------------------------------------------------
(* The actions of the map-server.                                          *)

\* A client connects: its session is new, so nobody owns it yet, and a node is
\* made for it only if its account has none and does not play.
LEMMA WantToConnectionOwnership ==
    ASSUME Ownership, NEW t \in Token, NEW a, NEW c, M!WantToConnection(t, a, c)
    PROVE  Ownership'
<1> DEFINE asks == a \notin DOMAIN mapAuth /\ chrif = "ready"
           sess == [acc |-> a, char |-> c, eof |-> ~asks]
           node == [state |-> "login", char |-> c, tok |-> t,
                    fd |-> t, ver |-> M!Blank, regs |-> {}]
<1>1. t \notin DOMAIN mapSess /\ a \notin DOMAIN pc /\ UNCHANGED pc
  BY DEF M!WantToConnection
<1>2. /\ DOMAIN mapSess' = DOMAIN mapSess \cup {t}
      /\ mapSess'[t] = sess
      /\ \A u \in DOMAIN mapSess : mapSess'[u] = mapSess[u]
  <2>1. mapSess' = M!IdbPut(mapSess, t, sess)
    BY DEF M!WantToConnection
  <2> HIDE DEF sess
  <2> QED
    BY <1>1, <2>1 DEF M!IdbPut
<1>3. CASE asks
  <2>1. mapAuth' = M!IdbPut(mapAuth, a, node)
    BY <1>3 DEF M!WantToConnection
  <2>2. /\ a \notin DOMAIN mapAuth
        /\ DOMAIN mapAuth' = DOMAIN mapAuth \cup {a}
        /\ mapAuth'[a] = node
        /\ \A b \in DOMAIN mapAuth : mapAuth'[b] = mapAuth[b]
    <3> HIDE DEF node
    <3> QED
      BY <1>3, <2>1 DEF M!IdbPut
  <2>3. IsNode(node) /\ node.state = "login" /\ node.fd = t /\ node.char = c
    BY DEF IsNode
  <2>4. IsSession(sess) /\ sess.acc = a /\ sess.char = c
    BY DEF IsSession
  <2> HIDE DEF node, sess
  <2>5. Shape' /\ PlayingOrInAuthDb'
    BY <1>1, <1>2, <2>2, <2>3, <2>4 DEF Ownership, Shape, PlayingOrInAuthDb
  <2>6. NodeHasSession'
    BY <1>2, <2>2, <2>3, <2>4 DEF Ownership, NodeHasSession
  <2>7. PlayerHasSession'
    BY <1>1, <1>2 DEF Ownership, PlayerHasSession
  <2>8. SessionHasOwner'
    <3> SUFFICES ASSUME NEW u \in DOMAIN mapSess', ~mapSess'[u].eof,
                        NEW b, b = mapSess'[u].acc
                 PROVE  \/ b \in DOMAIN pc' /\ pc'[b].fd = u
                        \/ b \in DOMAIN mapAuth' /\ mapAuth'[b].state = "login"
                                                 /\ mapAuth'[b].fd = u
      BY DEF SessionHasOwner
    <3>1. CASE u = t
      BY <1>2, <2>2, <2>3, <2>4, <3>1
    <3>2. CASE u # t
      BY <1>1, <1>2, <2>2, <3>2 DEF Ownership, SessionHasOwner
    <3> QED
      BY <3>1, <3>2
  <2> QED
    BY <2>5, <2>6, <2>7, <2>8 DEF Ownership
<1>4. CASE ~asks
  <2>1. mapAuth' = mapAuth
    BY <1>4 DEF M!WantToConnection
  <2>2. IsSession(sess) /\ sess.eof
    BY <1>4 DEF IsSession
  <2> HIDE DEF sess, asks
  <2>3. Shape' /\ PlayingOrInAuthDb'
    BY <1>1, <1>2, <2>1, <2>2 DEF Ownership, Shape, PlayingOrInAuthDb
  <2>4. NodeHasSession' /\ PlayerHasSession'
    BY <1>1, <1>2, <2>1 DEF Ownership, NodeHasSession, PlayerHasSession
  <2>5. SessionHasOwner'
    BY <1>1, <1>2, <2>1, <2>2 DEF Ownership, SessionHasOwner
  <2> QED
    BY <2>3, <2>4, <2>5 DEF Ownership
<1> QED
  BY <1>3, <1>4

\* A session at its end whose character leaves now.
LEMMA ClifParseEofQuitOwnership ==
    ASSUME Ownership, NEW t \in Token, M!ClifParseEofQuit(t)
    PROVE  Ownership'
<1> DEFINE a == mapSess[t].acc
<1>1. /\ a \in DOMAIN pc /\ pc[a].fd = t /\ M!MapQuit(a)
      /\ mapSess' = M!IdbRemove(mapSess, t)
  BY DEF M!ClifParseEofQuit, M!Plays
<1> HIDE DEF a
<1> QED
  BY <1>1, MapQuitOwnership, NoTokenAssumption

\* The same while the character may not leave yet: it has no session now.
LEMMA ClifParseEofDelayedOwnership ==
    ASSUME Ownership, NEW t \in Token, M!ClifParseEofDelayed(t)
    PROVE  Ownership'
<1> DEFINE a == mapSess[t].acc
<1>1. /\ t \in DOMAIN mapSess /\ a \in DOMAIN pc /\ pc[a].fd = t
      /\ mapSess' = M!IdbRemove(mapSess, t)
      /\ pc' = [pc EXCEPT ![a].fd = NoToken]
      /\ UNCHANGED mapAuth
  BY DEF M!ClifParseEofDelayed, M!Plays
<1>2. /\ DOMAIN mapSess' = DOMAIN mapSess \ {t}
      /\ \A u \in DOMAIN mapSess' : mapSess'[u] = mapSess[u]
  BY <1>1, IdbRemoveFacts
<1>3. /\ DOMAIN pc' = DOMAIN pc
      /\ IsPlayer(pc'[a]) /\ pc'[a].fd = NoToken
      /\ \A b \in DOMAIN pc \ {a} : pc'[b] = pc[b]
  <2>1. IsPlayer(pc[a])
    BY <1>1 DEF Ownership, Shape
  <2> HIDE DEF a
  <2> QED
    BY <1>1, <2>1 DEF IsPlayer
<1>4. Shape' /\ PlayingOrInAuthDb'
  <2> HIDE DEF a
  <2> QED
    BY <1>1, <1>2, <1>3 DEF Ownership, Shape, PlayingOrInAuthDb
<1>5. NodeHasSession'
  <2>1. \A b \in DOMAIN mapAuth : mapAuth[b].state = "login" => mapAuth[b].fd # t
    BY <1>1 DEF Ownership, NodeHasSession, PlayingOrInAuthDb
  <2> QED
    BY <1>1, <1>2, <2>1 DEF Ownership, NodeHasSession
<1>6. PlayerHasSession'
  <2>1. \A b \in DOMAIN pc \ {a} : pc[b].fd # t
    BY <1>1, NoTokenAssumption DEF Ownership, PlayerHasSession
  <2> HIDE DEF a
  <2> QED
    BY <1>2, <1>3, <2>1 DEF Ownership, PlayerHasSession
<1>7. SessionHasOwner'
  <2> HIDE DEF a
  <2> QED
    BY <1>1, <1>2, <1>3 DEF Ownership, SessionHasOwner
<1> QED
  BY <1>4, <1>5, <1>6, <1>7 DEF Ownership

\* A session at its end that is not active: the node of its character, when it
\* still logs in, takes the node's own session with it.
LEMMA ClifParseEofInactiveOwnership ==
    ASSUME Ownership, NEW t \in Token, M!ClifParseEofInactive(t)
    PROVE  Ownership'
<1> DEFINE a == mapSess[t].acc
<1>1. /\ t \in DOMAIN mapSess /\ mapSess[t].eof /\ UNCHANGED pc
      /\ \A b \in DOMAIN pc : pc[b].fd # t
  <2>1. t \in DOMAIN mapSess /\ mapSess[t].eof /\ UNCHANGED pc /\ ~M!Plays(t, a)
    BY DEF M!ClifParseEofInactive
  <2> QED
    BY <2>1, NoTokenAssumption DEF Ownership, PlayerHasSession, M!Plays
<1>2. CASE M!AuthCheck(a, mapSess[t].char, "login")
  <2> DEFINE fd == mapAuth[a].fd
  <2>1. /\ a \in DOMAIN mapAuth /\ mapAuth[a].state = "login"
        /\ a \notin DOMAIN pc
        /\ fd \in DOMAIN mapSess /\ mapSess[fd].acc = a
    BY <1>2 DEF Ownership, NodeHasSession, PlayingOrInAuthDb, M!AuthCheck
  <2>2. /\ mapAuth' = M!IdbRemove(mapAuth, a)
        /\ mapSess' = M!IdbRemove(M!IdbRemove(mapSess, fd), t)
    BY <1>2 DEF M!ClifParseEofInactive
  <2>3. /\ DOMAIN mapAuth' = DOMAIN mapAuth \ {a}
        /\ \A b \in DOMAIN mapAuth' : mapAuth'[b] = mapAuth[b]
    BY <2>2, IdbRemoveFacts
  <2>4. /\ DOMAIN mapSess' = DOMAIN mapSess \ {fd, t}
        /\ \A u \in DOMAIN mapSess' : mapSess'[u] = mapSess[u]
    BY <2>2 DEF M!IdbRemove
  <2>5. Shape' /\ PlayingOrInAuthDb'
    BY <1>1, <2>3, <2>4 DEF Ownership, Shape, PlayingOrInAuthDb
  <2>6. NodeHasSession'
    <3> SUFFICES ASSUME NEW b \in DOMAIN mapAuth', mapAuth'[b].state = "login"
                 PROVE  /\ mapAuth'[b].fd \in DOMAIN mapSess'
                        /\ mapSess'[mapAuth'[b].fd].acc = b
                        /\ mapSess'[mapAuth'[b].fd].char = mapAuth'[b].char
      BY DEF NodeHasSession
    <3>1. b # a /\ b \in DOMAIN mapAuth /\ mapAuth'[b] = mapAuth[b]
      BY <2>3
    <3>2. /\ mapAuth[b].fd \in DOMAIN mapSess
          /\ mapSess[mapAuth[b].fd].acc = b
          /\ mapSess[mapAuth[b].fd].char = mapAuth[b].char
      BY <3>1 DEF Ownership, NodeHasSession
    <3> QED
      BY <2>1, <2>4, <3>1, <3>2
  <2>7. PlayerHasSession'
    BY <1>1, <2>1, <2>4 DEF Ownership, PlayerHasSession
  <2>8. SessionHasOwner'
    BY <1>1, <2>3, <2>4 DEF Ownership, SessionHasOwner
  <2> QED
    BY <2>5, <2>6, <2>7, <2>8 DEF Ownership
<1>3. CASE ~M!AuthCheck(a, mapSess[t].char, "login")
  <2>1. mapSess' = M!IdbRemove(mapSess, t) /\ UNCHANGED mapAuth
    BY <1>3 DEF M!ClifParseEofInactive
  <2>2. \A b \in DOMAIN mapAuth : mapAuth[b].state = "login" => mapAuth[b].fd # t
    BY <1>3 DEF Ownership, NodeHasSession, M!AuthCheck
  <2> QED
    BY <1>1, <2>1, <2>2, FreeSession
<1> QED
  BY <1>2, <1>3

\* A character without a session whose delay is over.
LEMMA ClifDelayQuitOwnership ==
    ASSUME Ownership, NEW a, M!ClifDelayQuit(a)
    PROVE  Ownership'
BY MapQuitOwnership DEF M!ClifDelayQuit

\* A change of a character in play.
LEMMA PlayOwnership ==
    ASSUME Ownership, NEW a, M!Play(a)
    PROVE  Ownership'
<1>1. /\ a \in DOMAIN pc /\ UNCHANGED <<mapAuth, mapSess>>
      /\ pc' = [pc EXCEPT ![a].ver = pc[a].ver + 1]
  BY DEF M!Play
<1>2. /\ DOMAIN pc' = DOMAIN pc
      /\ IsPlayer(pc'[a]) /\ pc'[a].fd = pc[a].fd
      /\ \A b \in DOMAIN pc \ {a} : pc'[b] = pc[b]
  <2>1. IsPlayer(pc[a])
    BY <1>1 DEF Ownership, Shape
  <2> QED
    BY <1>1, <2>1 DEF IsPlayer
<1>3. Shape' /\ PlayingOrInAuthDb'
  BY <1>1, <1>2 DEF Ownership, Shape, PlayingOrInAuthDb
<1>4. NodeHasSession'
  BY <1>1 DEF Ownership, NodeHasSession
<1>5. PlayerHasSession'
  BY <1>1, <1>2 DEF Ownership, PlayerHasSession
<1>6. SessionHasOwner'
  BY <1>1, <1>2 DEF Ownership, SessionHasOwner
<1> QED
  BY <1>3, <1>4, <1>5, <1>6 DEF Ownership

\* A node that is too old: saved again, or dropped if it logs in.
LEMMA AuthDbCleanupOwnership ==
    ASSUME Ownership, NEW a, M!AuthDbCleanup(a)
    PROVE  Ownership'
<1>1. UNCHANGED pc
  BY DEF M!AuthDbCleanup
<1>2. CASE UNCHANGED <<mapAuth, mapSess>>
  BY <1>1, <1>2, OwnershipStutters DEF owned
<1>3. CASE M!LoggingIn(a) /\ M!AuthDelete(a)
  BY <1>1, <1>3, AuthDeleteOwnership
<1> QED
  BY <1>2, <1>3 DEF M!AuthDbCleanup

\* The link is ready again: every node that logs in goes with its session.
LEMMA ChrifOnReadyOwnership ==
    ASSUME Ownership, M!ChrifOnReady
    PROVE  Ownership'
<1> DEFINE ins == {a \in DOMAIN mapAuth : M!LoggingIn(a)}
           fds == {mapAuth[a].fd : a \in ins}
<1>1. /\ mapAuth' = [a \in DOMAIN mapAuth \ ins |-> mapAuth[a]]
      /\ mapSess' = [t \in DOMAIN mapSess \ fds |-> mapSess[t]]
      /\ UNCHANGED pc
  BY DEF M!ChrifOnReady
<1>2. /\ DOMAIN mapAuth' = DOMAIN mapAuth \ ins
      /\ \A a \in DOMAIN mapAuth' : mapAuth'[a] = mapAuth[a]
      /\ \A a \in DOMAIN mapAuth' : mapAuth'[a].state # "login"
  BY <1>1 DEF M!LoggingIn
<1>3. /\ DOMAIN mapSess' = DOMAIN mapSess \ fds
      /\ \A t \in DOMAIN mapSess' : mapSess'[t] = mapSess[t]
  BY <1>1
<1>4. \A f \in fds : /\ f \in DOMAIN mapSess
                     /\ mapSess[f].acc \notin DOMAIN pc
  BY DEF Ownership, NodeHasSession, PlayingOrInAuthDb, M!LoggingIn
<1>5. \A a \in DOMAIN mapAuth : mapAuth[a].state = "login" => mapAuth[a].fd \in fds
  BY DEF M!LoggingIn
<1> HIDE DEF ins, fds
<1>6. Shape' /\ PlayingOrInAuthDb'
  BY <1>1, <1>2, <1>3 DEF Ownership, Shape, PlayingOrInAuthDb
<1>7. NodeHasSession'
  BY <1>2 DEF NodeHasSession
<1>8. PlayerHasSession'
  BY <1>1, <1>3, <1>4 DEF Ownership, PlayerHasSession
<1>9. SessionHasOwner'
  BY <1>1, <1>3, <1>5 DEF Ownership, SessionHasOwner
<1> QED
  BY <1>6, <1>7, <1>8, <1>9 DEF Ownership

\* What a node keeps of the character's data, or which registries it has, is
\* not what makes it the owner of its session.
LEMMA UpdateNode ==
    ASSUME Ownership, NEW a \in DOMAIN mapAuth, NEW v,
           \/ mapAuth' = [mapAuth EXCEPT ![a].ver = v]
           \/ mapAuth' = [mapAuth EXCEPT ![a].regs = v],
           UNCHANGED <<pc, mapSess>>
    PROVE  Ownership'
<1>1. /\ DOMAIN mapAuth' = DOMAIN mapAuth
      /\ \A b \in DOMAIN mapAuth : /\ IsNode(mapAuth'[b])
                                   /\ mapAuth'[b].state = mapAuth[b].state
                                   /\ mapAuth'[b].char = mapAuth[b].char
                                   /\ mapAuth'[b].fd = mapAuth[b].fd
  <2>1. \A b \in DOMAIN mapAuth : IsNode(mapAuth[b])
    BY DEF Ownership, Shape
  <2>2. CASE mapAuth' = [mapAuth EXCEPT ![a].ver = v]
    BY <2>1, <2>2 DEF IsNode
  <2>3. CASE mapAuth' = [mapAuth EXCEPT ![a].regs = v]
    BY <2>1, <2>3 DEF IsNode
  <2> QED
    BY <2>2, <2>3
<1>2. Shape' /\ PlayingOrInAuthDb'
  BY <1>1 DEF Ownership, Shape, PlayingOrInAuthDb
<1>3. NodeHasSession'
  BY <1>1 DEF Ownership, NodeHasSession
<1>4. PlayerHasSession'
  BY DEF Ownership, PlayerHasSession
<1>5. SessionHasOwner'
  BY <1>1 DEF Ownership, SessionHasOwner
<1> QED
  BY <1>2, <1>3, <1>4, <1>5 DEF Ownership

\* The char-server's yes: the data is stored, or the node was another's.
LEMMA ChrifAuthOkOwnership ==
    ASSUME Ownership, M!ChrifAuthOk
    PROVE  Ownership'
<1> DEFINE m == Head(toMap)
           a == m.acc
           ok == mapAuth[a].char = m.char /\ mapAuth[a].tok = m.tok
<1>1. UNCHANGED pc
  BY DEF M!ChrifAuthOk
<1>2. CASE a \in DOMAIN pc \/ ~M!LoggingIn(a)
  <2>1. UNCHANGED <<mapAuth, mapSess>>
    BY <1>2 DEF M!ChrifAuthOk
  <2> QED
    BY <1>1, <2>1, OwnershipStutters DEF owned
<1>3. CASE a \notin DOMAIN pc /\ M!LoggingIn(a) /\ ok
  <2>1. /\ mapAuth' = [mapAuth EXCEPT ![a].ver = m.ver]
        /\ UNCHANGED mapSess
    BY <1>3 DEF M!ChrifAuthOk
  <2>2. a \in DOMAIN mapAuth
    BY <1>3 DEF M!LoggingIn
  <2> QED
    BY <1>1, <2>1, <2>2, UpdateNode
<1>4. CASE a \notin DOMAIN pc /\ M!LoggingIn(a) /\ ~ok
  <2>1. \/ M!AuthDelete(a)
        \/ /\ mapSess' = [mapSess EXCEPT ![mapAuth[a].fd].eof = TRUE]
           /\ UNCHANGED mapAuth
    BY <1>4 DEF M!ChrifAuthOk
  <2>2. mapAuth[a].fd \in DOMAIN mapSess
    BY <1>4 DEF Ownership, NodeHasSession, M!LoggingIn
  <2> QED
    BY <1>1, <1>4, <2>1, <2>2, AuthDeleteOwnership, CloseSession
<1> QED
  BY <1>2, <1>3, <1>4

\* The char-server's no.
LEMMA ChrifAuthFailOwnership ==
    ASSUME Ownership, M!ChrifAuthFail
    PROVE  Ownership'
<1> DEFINE a == Head(toMap).acc
<1>1. /\ UNCHANGED pc
      /\ \/ M!LoggingIn(a) /\ M!AuthDelete(a)
         \/ UNCHANGED <<mapAuth, mapSess>>
  BY DEF M!ChrifAuthFail, M!AuthCheck, M!LoggingIn
<1> HIDE DEF a
<1> QED
  BY <1>1, AuthDeleteOwnership, OwnershipStutters DEF owned

\* A last save is confirmed: its node has no session.
LEMMA ChrifSaveAckOwnership ==
    ASSUME Ownership, M!ChrifSaveAck
    PROVE  Ownership'
<1> DEFINE m == Head(toMap)
<1>1. UNCHANGED <<pc, mapSess>>
  BY DEF M!ChrifSaveAck
<1>2. CASE M!AuthCheck(m.acc, m.char, "logout")
  <2>1. /\ DOMAIN mapAuth' = DOMAIN mapAuth \ {m.acc}
        /\ \A b \in DOMAIN mapAuth' : mapAuth'[b] = mapAuth[b]
    BY <1>2, IdbRemoveFacts DEF M!ChrifSaveAck
  <2>2. m.acc \in DOMAIN mapAuth /\ mapAuth[m.acc].state # "login"
    BY <1>2 DEF M!AuthCheck
  <2> HIDE DEF m
  <2>3. Shape' /\ PlayingOrInAuthDb'
    BY <1>1, <2>1 DEF Ownership, Shape, PlayingOrInAuthDb
  <2>4. NodeHasSession' /\ PlayerHasSession'
    BY <1>1, <2>1 DEF Ownership, NodeHasSession, PlayerHasSession
  <2>5. SessionHasOwner'
    BY <1>1, <2>1, <2>2 DEF Ownership, SessionHasOwner
  <2> QED
    BY <2>3, <2>4, <2>5 DEF Ownership
<1>3. CASE ~M!AuthCheck(m.acc, m.char, "logout")
  BY <1>1, <1>3, OwnershipStutters DEF M!ChrifSaveAck, owned
<1> QED
  BY <1>2, <1>3

\* A kick, of whoever is there to be kicked.
LEMMA ChrifDisconnectPlayerOwnership ==
    ASSUME Ownership, M!ChrifDisconnectPlayer
    PROVE  Ownership'
<1> DEFINE a == Head(toMap).acc
<1>1. /\ UNCHANGED pc
      /\ \/ /\ a \in DOMAIN pc /\ pc[a].fd \in DOMAIN mapSess
            /\ mapSess' = [mapSess EXCEPT ![pc[a].fd].eof = TRUE]
            /\ UNCHANGED mapAuth
         \/ M!LoggingIn(a) /\ M!AuthDelete(a)
         \/ UNCHANGED <<mapAuth, mapSess>>
  BY DEF M!ChrifDisconnectPlayer
<1> HIDE DEF a
<1> QED
  BY <1>1, CloseSession, AuthDeleteOwnership, OwnershipStutters DEF owned

\* The last registry: the character takes the session over from its node.
LEMMA IntifParseRegistersOwnership ==
    ASSUME Ownership, M!IntifParseRegisters
    PROVE  Ownership'
<1> DEFINE m == Head(toMap)
           a == m.acc
           node == mapAuth[a]
           all == node.regs \cup {m.part}
           player == [char |-> node.char, tok |-> node.tok,
                      fd |-> node.fd, ver |-> node.ver]
<1>1. UNCHANGED mapSess
  BY DEF M!IntifParseRegisters
<1>2. CASE ~M!AuthCheck(a, m.char, "login")
  BY <1>1, <1>2, OwnershipStutters DEF M!IntifParseRegisters, owned
<1>3. CASE M!AuthCheck(a, m.char, "login") /\ all # M!RegPart
  <2>1. /\ mapAuth' = [mapAuth EXCEPT ![a].regs = all]
        /\ UNCHANGED pc
    BY <1>3 DEF M!IntifParseRegisters
  <2>2. a \in DOMAIN mapAuth
    BY <1>3 DEF M!AuthCheck
  <2> HIDE DEF all, a
  <2> QED
    BY <1>1, <2>1, <2>2, UpdateNode
<1>4. CASE M!AuthCheck(a, m.char, "login") /\ all = M!RegPart
  <2>1. /\ mapAuth' = M!IdbRemove(mapAuth, a)
        /\ pc' = M!IdbPut(pc, a, player)
    BY <1>4 DEF M!IntifParseRegisters
  <2>2. /\ a \in DOMAIN mapAuth /\ a \notin DOMAIN pc
        /\ node.fd \in DOMAIN mapSess /\ mapSess[node.fd].acc = a
    BY <1>4 DEF Ownership, NodeHasSession, PlayingOrInAuthDb, M!AuthCheck
  <2>3. IsPlayer(player) /\ player.fd = node.fd
    BY DEF IsPlayer
  <2> HIDE DEF player, node, a
  <2>4. /\ DOMAIN mapAuth' = DOMAIN mapAuth \ {a}
        /\ \A b \in DOMAIN mapAuth' : mapAuth'[b] = mapAuth[b]
    BY <2>1, IdbRemoveFacts
  <2>5. /\ DOMAIN pc' = DOMAIN pc \cup {a}
        /\ pc'[a] = player
        /\ \A b \in DOMAIN pc : pc'[b] = pc[b]
    BY <2>1, <2>2 DEF M!IdbPut
  <2>6. Shape' /\ PlayingOrInAuthDb'
    BY <1>1, <2>3, <2>4, <2>5 DEF Ownership, Shape, PlayingOrInAuthDb
  <2>7. NodeHasSession'
    BY <1>1, <2>4 DEF Ownership, NodeHasSession
  <2>8. PlayerHasSession'
    BY <1>1, <2>2, <2>3, <2>5 DEF Ownership, PlayerHasSession
  <2>9. SessionHasOwner'
    BY <1>1, <2>2, <2>3, <2>4, <2>5 DEF Ownership, SessionHasOwner, node
  <2> QED
    BY <2>6, <2>7, <2>8, <2>9 DEF Ownership
<1> QED
  BY <1>2, <1>3, <1>4

\* The map-server is started again, or has not started yet: nothing is there.
LEMMA EmptyOwnership ==
    ASSUME mapAuth = M!NoEntries, pc = M!NoEntries, mapSess = M!NoEntries
    PROVE  Ownership
BY DEF M!NoEntries, Ownership, Shape, PlayingOrInAuthDb, NodeHasSession,
       PlayerHasSession, SessionHasOwner

LEMMA MapRestartOwnership ==
    ASSUME NEW saved, M!MapRestart(saved)
    PROVE  Ownership'
BY DEF M!MapRestart, M!NoEntries, Ownership, Shape, PlayingOrInAuthDb,
       NodeHasSession, PlayerHasSession, SessionHasOwner

-----------------------------------------------------------------------------
(* The steps of the system.                                                *)

\* Whatever the clients do.
LEMMA ClientStepOwnership ==
    ASSUME Ownership, NEW t \in Token,
           \/ ConnectChar(t) \/ SelectChar(t) \/ ConnectMap(t)
           \/ RequestCharSelect(t) \/ Leave(t)
           \/ ClosesConnection(t) \/ ServerCloses(t)
    PROVE  Ownership'
<1>1. CASE ConnectChar(t) \/ SelectChar(t) \/ Leave(t)
  BY <1>1, OwnershipStutters
     DEF ConnectChar, SelectChar, Leave, CharStep, mapVars, owned
<1>2. CASE RequestCharSelect(t)
  BY <1>2, OwnershipStutters DEF RequestCharSelect, M!ClifParseRestart, M!mapData, owned
<1>3. CASE ConnectMap(t)
  BY <1>3, WantToConnectionOwnership DEF ConnectMap
<1>4. CASE ClosesConnection(t)
  <2>1. CASE CharStep
    BY <2>1, OwnershipStutters DEF CharStep, mapVars, owned
  <2>2. CASE M!MapClientEof(t)
    BY <2>2, CloseSession DEF M!MapClientEof
  <2> QED
    BY <1>4, <2>1, <2>2 DEF ClosesConnection
<1>5. CASE ServerCloses(t)
  <2>1. CASE CharStep
    BY <2>1, OwnershipStutters DEF CharStep, mapVars, owned
  <2>2. CASE \/ M!ClifParseEofQuit(t) \/ M!ClifParseEofDelayed(t)
             \/ M!ClifParseEofInactive(t)
    BY <2>2, ClifParseEofQuitOwnership, ClifParseEofDelayedOwnership,
       ClifParseEofInactiveOwnership
  <2> QED
    BY <1>5, <2>1, <2>2 DEF ServerCloses
<1> QED
  BY <1>1, <1>2, <1>3, <1>4, <1>5

\* Whatever the map-server does of itself or on a packet.
LEMMA MapServerStepOwnership ==
    ASSUME Ownership,
           MapHandles \/ CharSelectAck \/ MapTimers \/ MapPlays
    PROVE  Ownership'
<1>1. CASE MapHandles
  <2>1. CASE M!ChrifConnectAck
    BY <2>1, OwnershipStutters DEF M!ChrifConnectAck, M!mapData, owned
  <2> QED
    BY <1>1, <2>1, ChrifOnReadyOwnership, ChrifAuthOkOwnership,
       ChrifAuthFailOwnership, ChrifSaveAckOwnership,
       ChrifDisconnectPlayerOwnership, IntifParseRegistersOwnership
       DEF MapHandles
<1>2. CASE CharSelectAck
  BY <1>2, OwnershipStutters DEF CharSelectAck, M!ChrifCharSelectAck, M!mapData, owned
<1>3. CASE MapTimers
  BY <1>3, ClifDelayQuitOwnership, AuthDbCleanupOwnership DEF MapTimers
<1>4. CASE MapPlays
  <2>1. ASSUME NEW a \in Account, M!AutoSave(a)
        PROVE  Ownership'
    BY <2>1, OwnershipStutters DEF M!AutoSave, M!mapData, owned
  <2> QED
    BY <1>4, <2>1, PlayOwnership DEF MapPlays
<1> QED
  BY <1>1, <1>2, <1>3, <1>4

\* Links and processes: only the death of the map-server touches its state.
LEMMA LinkStepOwnership ==
    ASSUME Ownership,
           \/ LoginLinkUp \/ LoginLinkBreaks \/ MapLinkUp \/ MapLinkBreaks
           \/ CharCrash \/ MapCrash
    PROVE  Ownership'
<1>1. CASE MapCrash
  BY <1>1, MapRestartOwnership DEF MapCrash
<1>2. CASE \/ LoginLinkUp \/ LoginLinkBreaks \/ MapLinkUp \/ MapLinkBreaks
           \/ CharCrash
  <2>1. UNCHANGED owned
    BY <1>2 DEF LoginLinkUp, LoginLinkBreaks, MapLinkUp, MapLinkBreaks, CharCrash,
                M!ChrifConnect, M!ChrifLost, M!mapData, mapVars, owned
  <2> QED
    BY <2>1, OwnershipStutters
<1> QED
  BY <1>1, <1>2

LEMMA InitOwnership == Init => Ownership
BY EmptyOwnership DEF Init, M!MapInit

LEMMA NextOwnership ==
    ASSUME Ownership, [Next]_vars
    PROVE  Ownership'
<1>1. CASE LoginHandles \/ CharHandles \/ LoginTimers \/ CharTimers
  BY <1>1, OwnershipStutters
     DEF LoginHandles, CharHandles, CharHandlesLogin, CharHandlesMap, LoginTimers,
         CharTimers, LoginStep, CharStep, mapVars, owned
<1>2. CASE \E a \in Account : LogIn(a)
  BY <1>2, OwnershipStutters DEF LogIn, LoginStep, mapVars, owned
<1>3. CASE UNCHANGED vars
  BY <1>3, OwnershipStutters DEF vars, mapVars, owned
<1> QED
  BY <1>1, <1>2, <1>3, ClientStepOwnership, MapServerStepOwnership,
     LinkStepOwnership
     DEF Next, Handlers, Others

LEMMA AnyLoginNextOwnership ==
    ASSUME Ownership, [AnyLoginNext]_vars
    PROVE  Ownership'
<1>1. CASE \/ AnyLoginAnswers \/ AnyLoginAdmits \/ AnyLoginKicks
           \/ AnyLoginLinkUp \/ AnyLoginLinkBreaks
  BY <1>1, OwnershipStutters
     DEF AnyLoginAnswers, AnyLoginAdmits, AnyLoginKicks, AnyLoginLinkUp,
         AnyLoginLinkBreaks, mapVars, owned
<1>2. CASE CharHandles \/ CharTimers
  BY <1>2, OwnershipStutters
     DEF CharHandles, CharHandlesLogin, CharHandlesMap, CharTimers, CharStep,
         mapVars, owned
<1>3. CASE UNCHANGED vars
  BY <1>3, OwnershipStutters DEF vars, mapVars, owned
<1> QED
  BY <1>1, <1>2, <1>3, ClientStepOwnership, MapServerStepOwnership,
     LinkStepOwnership
     DEF AnyLoginNext

LEMMA OwnershipImplies == Ownership => PlayingOrInAuthDb /\ SessionData
<1> SUFFICES ASSUME Ownership PROVE SessionData
  BY DEF Ownership
<1>1. \A a \in Account :
         /\ M!LoggingIn(a) => mapAuth[a].fd \in DOMAIN mapSess
         /\ a \in DOMAIN pc => pc[a].fd \in DOMAIN mapSess \cup {NoToken}
  BY DEF Ownership, NodeHasSession, PlayerHasSession, M!LoggingIn
<1>2. \A t \in DOMAIN mapSess :
         LET a == mapSess[t].acc
         IN  \/ mapSess[t].eof
             \/ M!Plays(t, a)
             \/ M!LoggingIn(a) /\ mapAuth[a].fd = t
  BY DEF Ownership, SessionHasOwner, M!LoggingIn, M!Plays
<1> QED
  BY <1>1, <1>2 DEF SessionData

\* In the system of the three servers no account is ever in play and in
\* auth_db at once (chrif_save, pc_reg_received).
THEOREM PlayingOrInAuthDbHolds == Spec => []PlayingOrInAuthDb
<1>1. Init => Ownership
  BY InitOwnership
<1>2. Ownership /\ [Next]_vars => Ownership'
  BY NextOwnership
<1>3. Ownership => PlayingOrInAuthDb
  BY OwnershipImplies
<1> QED
  BY <1>1, <1>2, <1>3, PTL DEF Spec

\* In the system of the three servers the data of a session always has exactly
\* the owners it needs (map_quit, chrif_auth_delete, clif_parse).
THEOREM SessionDataHolds == Spec => []SessionData
<1>1. Init => Ownership
  BY InitOwnership
<1>2. Ownership /\ [Next]_vars => Ownership'
  BY NextOwnership
<1>3. Ownership => SessionData
  BY OwnershipImplies
<1> QED
  BY <1>1, <1>2, <1>3, PTL DEF Spec

\* Both hold whatever the login-server does: its policy of admitting and
\* kicking is not what protects the map-server.
THEOREM AnyLoginOwnership == AnyLoginSpec => [](PlayingOrInAuthDb /\ SessionData)
<1>1. Init => Ownership
  BY InitOwnership
<1>2. Ownership /\ [AnyLoginNext]_vars => Ownership'
  BY AnyLoginNextOwnership
<1>3. Ownership => PlayingOrInAuthDb /\ SessionData
  BY OwnershipImplies
<1> QED
  BY <1>1, <1>2, <1>3, PTL DEF AnyLoginSpec

-----------------------------------------------------------------------------
(* Every database and every packet is well formed.                         *)

\* The parts of TypeOK that change together, and what a client knows: it goes
\* to the map-server only with a character it selected.
LoginData ==
    /\ IsIdb(authDb, Account, Token)
    /\ IsIdb(onlineDb, Int, L!OnlineEntry)
    /\ server \in [ServerId -> BOOLEAN]
    /\ issued \subseteq Token
    /\ newest \in [Account -> Token \cup {NoToken}]
    /\ granted \in [Token -> Nat]

ToCharLink   == toChar \in [ServerId -> Seq(L!ToCharMsg)]
FromCharLink == fromChar \in [ServerId -> Seq(L!FromCharMsg)]
MapLink      == toMap \in Seq(ToMapMsg) /\ fromMap \in Seq(FromMapMsg)

CharSession == [acc : Account, auth : BOOLEAN, eof : BOOLEAN]
CharAuthNode == [char : Char \cup {NoChar}, tok : Token]
CharData ==
    /\ loginFd \in {"lost", "none", "open"}
    /\ mapFd \in {"none", "noMaps", "ready"}
    /\ IsIdb(charAuth, Account, CharAuthNode)
    /\ IsIdb(onlineChar, Account, C!OnlineCharEntry)
    /\ IsIdb(charSess, Token, CharSession)
    /\ sql \in [Char -> Nat]

Player == [char : Char, tok : Token, ver : Nat, fd : Token \cup {NoToken}]
MapSession == [acc : Account, char : Char, eof : BOOLEAN]
MapData ==
    /\ chrif \in {"down", "wait", "ready"}
    /\ IsIdb(mapAuth, Account, M!AuthNode)
    /\ IsIdb(pc, Account, Player)
    /\ IsIdb(mapSess, Token, MapSession)
    /\ latest \in [Char -> Nat]

Client == [at : ClientPlace, acc : Account, char : Char \cup {NoChar}]
Clients == /\ client \in [Token -> Client]
           /\ \A t \in Token :
                 client[t].at \in {"toMap", "map"} => client[t].char \in Char

FaultCount == faults \in 0..MaxFaults

Typed == /\ LoginData /\ ToCharLink /\ FromCharLink
         /\ CharData /\ MapLink /\ MapData /\ Clients /\ FaultCount

LEMMA TypedIsTypeOK == Typed => TypeOK
BY DEF Typed, TypeOK, LoginData, ToCharLink, FromCharLink, CharData, CharSession,
       CharAuthNode, MapLink, MapData, Player, MapSession, Clients, Client, FaultCount,
       L!TypeOK, C!CharTypeOK, M!MapTypeOK, L!IsIdb, C!IsIdb, M!IsIdb, IsIdb

-----------------------------------------------------------------------------
(* Databases.                                                              *)

LEMMA NoneTyped == ASSUME NEW K, NEW V PROVE IsIdb(NoEntries, K, V)
BY DEF IsIdb, NoEntries

LEMMA PutTyped ==
    ASSUME NEW K, NEW V, NEW db, IsIdb(db, K, V), NEW k \in K, NEW v \in V
    PROVE  IsIdb(IdbPut(db, k, v), K, V)
BY DEF IsIdb, IdbPut

LEMMA RemoveTyped ==
    ASSUME NEW K, NEW V, NEW db, IsIdb(db, K, V), NEW k
    PROVE  IsIdb(IdbRemove(db, k), K, V)
BY DEF IsIdb, IdbRemove

LEMMA RestrictTyped ==
    ASSUME NEW K, NEW V, NEW db, IsIdb(db, K, V), NEW D, D \subseteq DOMAIN db
    PROVE  IsIdb([x \in D |-> db[x]], K, V)
BY DEF IsIdb

LEMMA ExceptTyped ==
    ASSUME NEW K, NEW V, NEW db, IsIdb(db, K, V), NEW k, NEW v,
           k \in DOMAIN db => v \in V
    PROVE  IsIdb([db EXCEPT ![k] = v], K, V)
BY DEF IsIdb

LEMMA EntryTyped ==
    ASSUME NEW K, NEW V, NEW db, IsIdb(db, K, V), NEW k \in DOMAIN db
    PROVE  k \in K /\ db[k] \in V
BY DEF IsIdb

\* The servers' copies of the operators are the operators.
LEMMA SamePut == \A db, k, v : /\ L!IdbPut(db, k, v) = IdbPut(db, k, v)
                               /\ C!IdbPut(db, k, v) = IdbPut(db, k, v)
                               /\ M!IdbPut(db, k, v) = IdbPut(db, k, v)
BY DEF L!IdbPut, C!IdbPut, M!IdbPut, IdbPut

LEMMA SameRemove == \A db, k : /\ L!IdbRemove(db, k) = IdbRemove(db, k)
                               /\ C!IdbRemove(db, k) = IdbRemove(db, k)
                               /\ M!IdbRemove(db, k) = IdbRemove(db, k)
BY DEF L!IdbRemove, C!IdbRemove, M!IdbRemove, IdbRemove

LEMMA SameNone == /\ L!NoEntries = NoEntries /\ C!NoEntries = NoEntries
                  /\ M!NoEntries = NoEntries
BY DEF L!NoEntries, C!NoEntries, M!NoEntries, NoEntries

-----------------------------------------------------------------------------
(* The login-server.                                                       *)

\* login_online_db_setoffline.
LEMMA SetServerOfflineTyped ==
    ASSUME NEW s, IsIdb(onlineDb, Int, L!OnlineEntry)
    PROVE  IsIdb(L!SetServerOffline(onlineDb, s), Int, L!OnlineEntry)
<1> DEFINE new == L!SetServerOffline(onlineDb, s)
<1>1. DOMAIN new = DOMAIN onlineDb /\ new = [a \in DOMAIN new |-> new[a]]
  BY DEF L!SetServerOffline
<1>2. ASSUME NEW a \in DOMAIN onlineDb
      PROVE  new[a] \in L!OnlineEntry
  <2>1. onlineDb[a] \in L!OnlineEntry
    BY EntryTyped
  <2>2. [onlineDb[a] EXCEPT !.server = L!ServerLost] \in L!OnlineEntry
    BY <2>1 DEF L!OnlineEntry, L!ServerLost
  <2> QED BY <2>1, <2>2 DEF L!SetServerOffline
<1> QED BY <1>1, <1>2 DEF IsIdb

\* An id read from a list is an integer, whatever was sent.
LEMMA IdReadTyped ==
    ASSUME NEW ids \in Seq(Account), NEW i \in DOMAIN ids
    PROVE  L!IdRead(ids, i) \in Int
<1> DEFINE high == L!Signed16(L!Low16(ids[i]))
           low  == IF i = 1 THEN 0 ELSE L!High16(ids[i - 1])
<1>0. \A n \in Int : n % 65536 \in Int /\ (n \div 65536) % 65536 \in Int
  OBVIOUS
<1>1. ids[i] \in Int /\ (i # 1 => ids[i - 1] \in Int)
  <2>1. ids[i] \in Account /\ (i # 1 => ids[i - 1] \in Account)
    OBVIOUS
  <2> QED BY <2>1, AccountAssumption DEF AccountAssumption
<1>2. high \in Int
  BY <1>0, <1>1 DEF L!Low16, L!Signed16
<1>3. low \in Int
  <2>1. CASE i = 1
    BY <2>1
  <2>2. CASE i # 1
    BY <1>0, <1>1, <2>2 DEF L!High16
  <2> QED BY <2>1, <2>2
<1>4. L!IdRead(ids, i) = high * 65536 + low
  BY DEF L!IdRead
<1> HIDE DEF high, low
<1> QED BY <1>2, <1>3, <1>4

\* What follows from a packet having been taken from a link, or put on it.
LEMMA TailTyped ==
    ASSUME NEW S, NEW q \in Seq(S), q # << >>
    PROVE  Head(q) \in S /\ Tail(q) \in Seq(S)
OBVIOUS

LEMMA JoinTyped ==
    ASSUME NEW S, NEW q \in Seq(S), NEW ms \in Seq(S)
    PROVE  q \o ms \in Seq(S)
OBVIOUS

LEMMA LogInTyped ==
    ASSUME Typed, NEW a \in Account, LogIn(a)
    PROVE  LoginData' /\ ToCharLink' /\ FromCharLink' /\ Clients'
<1> USE DEF LoginData, ToCharLink, FromCharLink
<1>1. CASE L!LoginRefused(a) /\ UNCHANGED client
  <2>1. a \in DOMAIN onlineDb
    BY <1>1 DEF L!LoginRefused
  <2>2. [onlineDb[a] EXCEPT !.timer = TRUE] \in L!OnlineEntry
    <3>1. onlineDb[a] \in L!OnlineEntry
      BY <2>1, EntryTyped DEF Typed
    <3> QED BY <3>1 DEF L!OnlineEntry
  <2>3. IsIdb(onlineDb', Int, L!OnlineEntry)
    BY <1>1, <2>2, ExceptTyped DEF Typed, L!LoginRefused
  <2>4. [type |-> "kick", acc |-> a] \in L!ToCharMsg
    BY DEF L!ToCharMsg
  <2>5. toChar' \in [ServerId -> Seq(L!ToCharMsg)]
    BY <1>1, <2>4 DEF Typed, L!LoginRefused, L!SendAll
  <2> QED BY <1>1, <2>3, <2>5 DEF Typed, Clients, L!LoginRefused, L!loginHistory
<1>2. CASE L!LoginNoCharServer(a) /\ UNCHANGED client
  <2>1. IsIdb(authDb', Account, Token) /\ IsIdb(onlineDb', Int, L!OnlineEntry)
    BY <1>2, SameRemove, RemoveTyped DEF Typed, L!LoginNoCharServer
  <2> QED BY <1>2, <2>1 DEF Typed, Clients, L!LoginNoCharServer, L!loginHistory
<1>3. ASSUME NEW t \in Token, L!LoginAccepted(a, t),
             client' = [client EXCEPT ![t] = [at |-> "login", acc |-> a, char |-> NoChar]]
      PROVE  LoginData' /\ ToCharLink' /\ FromCharLink' /\ Clients'
  <2>1. IsIdb(authDb', Account, Token)
    BY <1>3, SamePut, PutTyped DEF Typed, L!LoginAccepted
  <2>2. [server |-> L!NotAtCharServer, timer |-> TRUE] \in L!OnlineEntry
    BY DEF L!OnlineEntry
  <2>3. IsIdb(onlineDb', Int, L!OnlineEntry)
    BY <1>3, <2>2, SamePut, PutTyped, AccountAssumption
       DEF Typed, L!LoginAccepted, AccountAssumption
  <2>4. Clients'
    BY <1>3 DEF Typed, Clients, Client, ClientPlace
  <2> QED BY <1>3, <2>1, <2>3, <2>4 DEF Typed, L!LoginAccepted
<1> QED BY <1>1, <1>2, <1>3 DEF LogIn

LEMMA LoginHandlesTyped ==
    ASSUME Typed, L!FromChar(Self)
    PROVE  LoginData' /\ ToCharLink' /\ FromCharLink'
<1> USE SelfAssumption DEF SelfAssumption
<1> DEFINE m == Head(fromChar[Self])
<1>1. /\ fromChar[Self] # << >> /\ fromChar' = [fromChar EXCEPT ![Self] = Tail(@)]
      /\ UNCHANGED <<server, issued, newest>>
  BY DEF L!FromChar, L!Receives, L!Skip, L!FromCharParseAuth,
         L!FromCharParseAccountOnline, L!FromCharParseAccountOffline,
         L!FromCharParseWrongPincode, L!FromCharParseOnlineAccounts,
         L!FromCharParseAllOffline, L!FromCharParseRequestAccountReg2, L!loginHistory
<1>2. fromChar[Self] \in Seq(L!FromCharMsg)
  BY DEF Typed, FromCharLink
<1>3. m \in L!FromCharMsg /\ Tail(fromChar[Self]) \in Seq(L!FromCharMsg)
  BY <1>1, <1>2
<1>4. FromCharLink'
  BY <1>1, <1>3 DEF Typed, FromCharLink
<1>5. /\ server' \in [ServerId -> BOOLEAN] /\ issued' \subseteq Token
      /\ newest' \in [Account -> Token \cup {NoToken}]
  BY <1>1 DEF Typed, LoginData
<1>6. ASSUME NEW x \in L!ToCharMsg, L!Reply(Self, x)
      PROVE  ToCharLink'
  BY <1>6 DEF L!Reply, Typed, ToCharLink
<1>7. toChar' = toChar => ToCharLink'
  BY DEF Typed, ToCharLink
<1> HIDE DEF m
<1>8. CASE L!FromCharParseAuth(Self)
  <2>1. m.acc \in Account /\ m.tok \in Token /\ m.req \in Token
    BY <1>3, <1>8 DEF L!FromCharMsg, L!FromCharParseAuth, L!Receives, m
  <2>2. \A ok \in BOOLEAN :
           [type |-> "authAck", acc |-> m.acc, tok |-> m.tok, req |-> m.req, ok |-> ok]
               \in L!ToCharMsg
    BY <2>1 DEF L!ToCharMsg
  <2>3. ToCharLink'
    BY <1>6, <1>8, <2>2 DEF L!FromCharParseAuth, m
  <2>4. IsIdb(authDb', Account, Token)
    BY <1>8, SameRemove, RemoveTyped DEF L!FromCharParseAuth, Typed, LoginData
  <2>5. granted' \in [Token -> Nat] /\ onlineDb' = onlineDb
    BY <1>8, <2>1 DEF L!FromCharParseAuth, Typed, LoginData, m
  <2> QED BY <1>4, <1>5, <2>3, <2>4, <2>5 DEF LoginData, Typed
<1>9. CASE L!FromCharParseRequestAccountReg2(Self)
  <2>1. m \in L!ToCharMsg
    BY <1>3, <1>9 DEF L!FromCharMsg, L!ToCharMsg, L!FromCharParseRequestAccountReg2,
                      L!Receives, m
  <2>2. ToCharLink'
    BY <1>6, <1>9, <2>1 DEF L!FromCharParseRequestAccountReg2, m
  <2> QED BY <1>4, <1>5, <1>9, <2>2
          DEF LoginData, Typed, L!FromCharParseRequestAccountReg2, L!loginHistory
<1>10. ASSUME IsIdb(onlineDb', Int, L!OnlineEntry), UNCHANGED <<authDb, granted, toChar>>
       PROVE  LoginData' /\ ToCharLink' /\ FromCharLink'
  BY <1>4, <1>5, <1>7, <1>10 DEF LoginData, Typed
<1>11. CASE L!FromCharParseAccountOnline(Self)
  <2>1. m.acc \in Int
    BY <1>3, <1>11, AccountAssumption
       DEF L!FromCharMsg, L!FromCharParseAccountOnline, L!Receives, AccountAssumption, m
  <2>2. [server |-> Self, timer |-> FALSE] \in L!OnlineEntry
    BY DEF L!OnlineEntry
  <2>3. IsIdb(onlineDb', Int, L!OnlineEntry)
    BY <1>11, <2>1, <2>2, SamePut, PutTyped
       DEF L!FromCharParseAccountOnline, L!AddOnlineUser, Typed, LoginData, m
  <2> QED BY <1>10, <1>11, <2>3 DEF L!FromCharParseAccountOnline, L!loginHistory
<1>12. CASE L!FromCharParseAccountOffline(Self) \/ L!FromCharParseWrongPincode(Self)
  <2>1. IsIdb(onlineDb', Int, L!OnlineEntry)
    BY <1>12, SameRemove, RemoveTyped
       DEF L!FromCharParseAccountOffline, L!FromCharParseWrongPincode, Typed, LoginData
  <2> QED BY <1>10, <1>12, <2>1
          DEF L!FromCharParseAccountOffline, L!FromCharParseWrongPincode, L!loginHistory
<1>13. CASE L!FromCharParseAllOffline(Self)
  <2>1. IsIdb(onlineDb', Int, L!OnlineEntry)
    BY <1>13, SetServerOfflineTyped DEF L!FromCharParseAllOffline, Typed, LoginData
  <2> QED BY <1>10, <1>13, <2>1 DEF L!FromCharParseAllOffline, L!loginHistory
<1>14. CASE L!FromCharParseOnlineAccounts(Self)
  <2> DEFINE ids  == m.ids
             read == {L!IdRead(ids, i) : i \in DOMAIN ids}
             rest == L!SetServerOffline(onlineDb, Self)
  <2>1. ids \in Seq(Account)
    BY <1>3, <1>14, AccountListAssumption
       DEF L!FromCharMsg, L!FromCharParseOnlineAccounts, L!Receives,
           AccountListAssumption, m
  <2>2. read \subseteq Int
    BY <2>1, IdReadTyped
  <2>3. IsIdb(rest, Int, L!OnlineEntry)
    BY SetServerOfflineTyped DEF Typed, LoginData
  <2>4. [server |-> Self, timer |-> FALSE] \in L!OnlineEntry
    BY DEF L!OnlineEntry
  <2>5. onlineDb' = [a \in DOMAIN rest \cup read |->
                        IF a \in read THEN [server |-> Self, timer |-> FALSE] ELSE rest[a]]
    BY <1>14 DEF L!FromCharParseOnlineAccounts, m
  <2> HIDE DEF rest, read
  <2>6. IsIdb(onlineDb', Int, L!OnlineEntry)
    BY <2>2, <2>3, <2>4, <2>5 DEF IsIdb
  <2> QED BY <1>10, <1>14, <2>6 DEF L!FromCharParseOnlineAccounts, L!loginHistory
<1> QED BY <1>8, <1>9, <1>11, <1>12, <1>13, <1>14 DEF L!FromChar

LEMMA LoginTimersTyped ==
    ASSUME Typed, LoginTimers
    PROVE  LoginData' /\ ToCharLink' /\ FromCharLink'
<1>1. UNCHANGED <<server, issued, newest, granted, toChar, fromChar>>
  BY DEF LoginTimers, L!WaitingDisconnect, L!LoginOnlineDataCleanup, L!loginHistory
<1>2. IsIdb(authDb', Account, Token)
  BY SameRemove, RemoveTyped
     DEF LoginTimers, L!WaitingDisconnect, L!LoginOnlineDataCleanup, Typed, LoginData
<1>3. IsIdb(onlineDb', Int, L!OnlineEntry)
  BY SameRemove, RemoveTyped, RestrictTyped
     DEF LoginTimers, L!WaitingDisconnect, L!LoginOnlineDataCleanup, Typed, LoginData
<1> QED BY <1>1, <1>2, <1>3 DEF Typed, LoginData, ToCharLink, FromCharLink


-----------------------------------------------------------------------------
(* The char-server.                                                        *)

CharSide == CharData /\ ToCharLink /\ FromCharLink /\ MapLink

\* What it sends.
LEMMA ToLoginTyped ==
    ASSUME Typed, NEW ms \in Seq(L!FromCharMsg), C!ToLogin(ms)
    PROVE  FromCharLink'
<1>1. fromChar[Self] \o ms \in Seq(L!FromCharMsg)
  BY SelfAssumption DEF SelfAssumption, Typed, FromCharLink
<1> QED BY <1>1 DEF C!ToLogin, Typed, FromCharLink

LEMMA ToMapServerTyped ==
    ASSUME Typed, NEW ms \in Seq(ToMapMsg), C!ToMapServer(ms)
    PROVE  toMap' \in Seq(ToMapMsg)
BY DEF C!ToMapServer, Typed, MapLink

LEMMA SentTyped ==
    ASSUME NEW a \in Account
    PROVE  /\ << >> \in Seq(L!FromCharMsg) /\ << >> \in Seq(ToMapMsg)
           /\ <<C!OnlineMsg(a)>> \in Seq(L!FromCharMsg)
           /\ <<C!OfflineMsg(a)>> \in Seq(L!FromCharMsg)
           /\ <<C!DisconnectMsg(a)>> \in Seq(ToMapMsg)
           /\ \A db, c : C!OfflineNotice(db, c, a) \in Seq(L!FromCharMsg)
           /\ \A db, s : C!OnlineConflict(db, s, a) \in Seq(ToMapMsg)
<1>1. C!OnlineMsg(a) \in L!FromCharMsg /\ C!OfflineMsg(a) \in L!FromCharMsg
  BY DEF C!OnlineMsg, C!OfflineMsg, L!FromCharMsg
<1>2. C!DisconnectMsg(a) \in ToMapMsg
  BY DEF C!DisconnectMsg, ToMapMsg
<1> QED BY <1>1, <1>2 DEF C!OfflineNotice, C!OnlineConflict

LEMMA AccountsMsgTyped ==
    ASSUME Typed
    PROVE  <<C!AccountsMsg>> \in Seq(L!FromCharMsg)
<1> DEFINE S == {a \in DOMAIN onlineChar : onlineChar[a].server = C!MapServerId}
<1>1. S \in SUBSET Account
  BY DEF Typed, CharData, IsIdb
<1>2. C!SetToSeq(S) \in AccountList
  BY <1>1, AccountListAssumption DEF AccountListAssumption
<1>3. C!AccountsMsg = [type |-> "accounts", ids |-> C!SetToSeq(S)]
  BY DEF C!AccountsMsg
<1> HIDE DEF S
<1>4. C!AccountsMsg \in L!FromCharMsg
  BY <1>2, <1>3 DEF L!FromCharMsg
<1> QED BY <1>4

\* online_char_db.
OnlineDb(db) == IsIdb(db, Account, C!OnlineCharEntry)

LEMMA OnlineDataTyped ==
    ASSUME NEW db, OnlineDb(db), NEW a \in Account
    PROVE  C!OnlineData(db, a) \in C!OnlineCharEntry
<1>1. CASE a \in DOMAIN db
  BY <1>1, EntryTyped DEF OnlineDb, C!OnlineData
<1>2. CASE a \notin DOMAIN db
  BY <1>2 DEF C!OnlineData, C!OnlineCharEntry
<1> QED BY <1>1, <1>2

LEMMA SetCharCharselectTyped ==
    ASSUME NEW db, OnlineDb(db), NEW a \in Account
    PROVE  OnlineDb(C!SetCharCharselect(db, a))
<1> DEFINE e == C!OnlineData(db, a)
           f == [e EXCEPT !.char = NoChar, !.server = C!NoMapServer, !.timer = FALSE]
<1>1. e \in C!OnlineCharEntry
  BY OnlineDataTyped
<1> HIDE DEF e
<1>2. f \in C!OnlineCharEntry
  BY <1>1 DEF C!OnlineCharEntry
<1>3. C!SetCharCharselect(db, a) = IdbPut(db, a, f)
  BY SamePut DEF C!SetCharCharselect, e
<1> HIDE DEF f
<1> QED BY <1>2, <1>3, PutTyped DEF OnlineDb

LEMMA SetCharOnlineTyped ==
    ASSUME NEW db, OnlineDb(db), NEW a \in Account, NEW c \in Char,
           NEW s \in {C!MapServerId, C!NoMapServer, C!UnknownMapServer}
    PROVE  OnlineDb(C!SetCharOnline(db, s, c, a))
<1> DEFINE e == C!OnlineData(db, a)
           f == [e EXCEPT !.char = c, !.server = s, !.timer = FALSE]
<1>1. e \in C!OnlineCharEntry
  BY OnlineDataTyped
<1> HIDE DEF e
<1>2. f \in C!OnlineCharEntry
  BY <1>1 DEF C!OnlineCharEntry
<1>3. C!SetCharOnline(db, s, c, a) = IdbPut(db, a, f)
  BY SamePut DEF C!SetCharOnline, e
<1> HIDE DEF f
<1> QED BY <1>2, <1>3, PutTyped DEF OnlineDb

LEMMA SetCharOfflineTyped ==
    ASSUME NEW db, OnlineDb(db), NEW a, NEW c
    PROVE  OnlineDb(C!SetCharOffline(db, c, a))
<1>1. CASE a \notin DOMAIN db
  BY <1>1 DEF C!SetCharOffline
<1>2. CASE a \in DOMAIN db
  <2> DEFINE e == db[a]
             f == [e EXCEPT !.char = NoChar, !.server = C!NoMapServer, !.timer = FALSE]
             g == [e EXCEPT !.timer = FALSE]
             h == IF e.char = c THEN f ELSE g
  <2>1. e \in C!OnlineCharEntry
    BY <1>2, EntryTyped DEF OnlineDb
  <2>2. C!SetCharOffline(db, c, a) = [db EXCEPT ![a] = h]
    BY <1>2 DEF C!SetCharOffline
  <2> HIDE DEF e
  <2>3. h \in C!OnlineCharEntry
    BY <2>1 DEF C!OnlineCharEntry
  <2> HIDE DEF h
  <2>4. IsIdb(db, Account, C!OnlineCharEntry)
    BY DEF OnlineDb
  <2>5. IsIdb([db EXCEPT ![a] = h], Account, C!OnlineCharEntry)
    BY <2>3, <2>4, ExceptTyped
  <2> QED BY <2>2, <2>5 DEF OnlineDb
<1> QED BY <1>1, <1>2

LEMMA SetMapServerOfflineTyped ==
    ASSUME NEW db, OnlineDb(db)
    PROVE  OnlineDb(C!SetMapServerOffline(db))
<1> DEFINE new == C!SetMapServerOffline(db)
<1>1. DOMAIN new = DOMAIN db /\ new = [a \in DOMAIN new |-> new[a]]
  BY DEF C!SetMapServerOffline
<1>2. ASSUME NEW a \in DOMAIN db
      PROVE  new[a] \in C!OnlineCharEntry
  <2>1. db[a] \in C!OnlineCharEntry
    BY EntryTyped DEF OnlineDb
  <2>2. [db[a] EXCEPT !.server = C!UnknownMapServer] \in C!OnlineCharEntry
    BY <2>1 DEF C!OnlineCharEntry
  <2> QED BY <2>1, <2>2 DEF C!SetMapServerOffline
<1> QED BY <1>1, <1>2 DEF IsIdb, OnlineDb

\* The timer of an entry is started.
LEMMA EntryTimerTyped ==
    ASSUME NEW db, OnlineDb(db), NEW a
    PROVE  OnlineDb([db EXCEPT ![a].timer = TRUE])
<1>1. CASE a \notin DOMAIN db
  <2>1. [db EXCEPT ![a].timer = TRUE] = db
    BY <1>1 DEF OnlineDb, IsIdb
  <2> QED BY <2>1
<1>2. CASE a \in DOMAIN db
  <2>1. db[a] \in C!OnlineCharEntry
    BY <1>2, EntryTyped DEF OnlineDb
  <2>2. [db[a] EXCEPT !.timer = TRUE] \in C!OnlineCharEntry
    BY <2>1 DEF C!OnlineCharEntry
  <2> QED BY <2>2, ExceptTyped DEF OnlineDb
<1> QED BY <1>1, <1>2

\* An entry gets a session, or loses it.
LEMMA EntryFdTyped ==
    ASSUME NEW db, OnlineDb(db), NEW a, NEW t \in Token \cup {NoToken}
    PROVE  OnlineDb([db EXCEPT ![a].fd = t])
<1>1. CASE a \notin DOMAIN db
  <2>1. [db EXCEPT ![a].fd = t] = db
    BY <1>1 DEF OnlineDb, IsIdb
  <2> QED BY <2>1
<1>2. CASE a \in DOMAIN db
  <2>1. db[a] \in C!OnlineCharEntry
    BY <1>2, EntryTyped DEF OnlineDb
  <2>2. [db[a] EXCEPT !.fd = t] \in C!OnlineCharEntry
    BY <2>1 DEF C!OnlineCharEntry
  <2> QED BY <2>2, ExceptTyped DEF OnlineDb
<1> QED BY <1>1, <1>2

\* char_auth_ok.
LEMMA AuthOkTyped ==
    ASSUME Typed, NEW t \in Token, NEW a \in Account, NEW sess,
           IsIdb(sess, Token, CharSession), t \in DOMAIN sess, C!AuthOk(t, a, sess)
    PROVE  /\ IsIdb(charSess', Token, CharSession) /\ OnlineDb(onlineChar')
           /\ FromCharLink' /\ toMap' \in Seq(ToMapMsg)
<1>0. OnlineDb(onlineChar)
  BY DEF Typed, CharData, OnlineDb
<1> DEFINE db == IF a \in DOMAIN onlineChar THEN [onlineChar EXCEPT ![a].fd = t]
                 ELSE onlineChar
<1>1. OnlineDb([onlineChar EXCEPT ![a].timer = TRUE]) /\ OnlineDb(db)
  BY <1>0, EntryTimerTyped, EntryFdTyped
<1>2. IsIdb([sess EXCEPT ![t].auth = TRUE], Token, CharSession)
  <2>1. sess[t] \in CharSession
    BY EntryTyped
  <2>2. [sess[t] EXCEPT !.auth = TRUE] \in CharSession
    BY <2>1 DEF CharSession
  <2> QED BY <2>2, ExceptTyped
<1>3. charSess' = sess \/ charSess' = [sess EXCEPT ![t].auth = TRUE]
  BY DEF C!AuthOk
<1>4. \/ onlineChar' = onlineChar
      \/ onlineChar' = [onlineChar EXCEPT ![a].timer = TRUE]
      \/ onlineChar' = C!SetCharCharselect(db, a)
  BY DEF C!AuthOk
<1> HIDE DEF db
<1>5. OnlineDb(onlineChar')
  BY <1>0, <1>1, <1>4, SetCharCharselectTyped
<1>6. \/ C!ToLogin(<< >>)
      \/ C!ToLogin(<<C!OnlineMsg(a)>>)
  BY DEF C!AuthOk
<1>7. \/ C!ToMapServer(<< >>)
      \/ C!ToMapServer(<<C!DisconnectMsg(a)>>)
  BY DEF C!AuthOk
<1>8. FromCharLink' /\ toMap' \in Seq(ToMapMsg)
  BY <1>6, <1>7, SentTyped, ToLoginTyped, ToMapServerTyped
<1> QED BY <1>2, <1>3, <1>5, <1>8

LEMMA CharConnectTyped ==
    ASSUME Typed, NEW t \in Token, NEW a \in Account, C!CharConnect(t, a)
    PROVE  CharSide'
<1> DEFINE new  == [acc |-> a, auth |-> FALSE, eof |-> FALSE]
           sess == IdbPut(charSess, t, new)
<1>1. IsIdb(sess, Token, CharSession) /\ t \in DOMAIN sess
  <2>1. new \in CharSession
    BY DEF CharSession
  <2> HIDE DEF new
  <2> QED BY <2>1, PutTyped DEF Typed, CharData, IdbPut
<1>2. UNCHANGED <<loginFd, mapFd, sql, toChar, fromMap>>
  BY DEF C!CharConnect
<1>3. CASE /\ charAuth' = IdbRemove(charAuth, a)
           /\ C!AuthOk(t, a, sess)
  <2>1. IsIdb(charAuth', Account, CharAuthNode)
    BY <1>3, RemoveTyped DEF Typed, CharData
  <2> HIDE DEF sess
  <2> QED BY <1>1, <1>2, <1>3, <2>1, AuthOkTyped
          DEF Typed, CharSide, CharData, OnlineDb, ToCharLink, MapLink
<1>4. CASE /\ charSess' = sess
           /\ C!ToLogin(<<[type |-> "auth", acc |-> a, tok |-> t, req |-> t]>>)
           /\ UNCHANGED <<charAuth, onlineChar, toMap>>
  <2>1. [type |-> "auth", acc |-> a, tok |-> t, req |-> t] \in L!FromCharMsg
    BY DEF L!FromCharMsg
  <2>2. <<[type |-> "auth", acc |-> a, tok |-> t, req |-> t]>> \in Seq(L!FromCharMsg)
    BY <2>1
  <2>3. FromCharLink'
    BY <1>4, <2>2, ToLoginTyped
  <2> HIDE DEF sess
  <2> QED BY <1>1, <1>2, <1>4, <2>3 DEF Typed, CharSide, CharData, ToCharLink, MapLink
<1>5. \/ charAuth' = IdbRemove(charAuth, a) /\ C!AuthOk(t, a, sess)
      \/ /\ charSess' = sess
         /\ C!ToLogin(<<[type |-> "auth", acc |-> a, tok |-> t, req |-> t]>>)
         /\ UNCHANGED <<charAuth, onlineChar, toMap>>
  BY SamePut, SameRemove DEF C!CharConnect
<1> QED BY <1>3, <1>4, <1>5


LEMMA CharSelectTyped ==
    ASSUME Typed, NEW t \in Token, NEW c \in Char, C!CharSelect(t, c)
    PROVE  CharSide'
<1> DEFINE a == charSess[t].acc
<1>1. t \in DOMAIN charSess /\ charSess[t] \in CharSession
  <2>1. t \in DOMAIN charSess
    BY DEF C!CharSelect
  <2> QED BY <2>1, EntryTyped DEF Typed, CharData
<1>2. a \in Account
  BY <1>1 DEF CharSession
<1>3. /\ onlineChar' = C!SetCharOnline(onlineChar, C!UnknownMapServer, c, a)
      /\ C!ToMapServer(C!OnlineConflict(onlineChar, C!UnknownMapServer, a))
      /\ C!ToLogin(<<C!OnlineMsg(a)>>)
      /\ charAuth' = IdbPut(charAuth, a, [char |-> c, tok |-> t])
      /\ UNCHANGED <<loginFd, mapFd, charSess, sql, toChar, fromMap>>
  BY SamePut DEF C!CharSelect
<1> HIDE DEF a
<1>4. OnlineDb(onlineChar')
  BY <1>2, <1>3, SetCharOnlineTyped DEF OnlineDb, Typed, CharData
<1>5. IsIdb(charAuth', Account, CharAuthNode)
  <2>1. [char |-> c, tok |-> t] \in CharAuthNode
    BY DEF CharAuthNode
  <2> QED BY <1>2, <1>3, <2>1, PutTyped DEF Typed, CharData
<1>6. FromCharLink' /\ toMap' \in Seq(ToMapMsg)
  BY <1>2, <1>3, SentTyped, ToLoginTyped, ToMapServerTyped
<1> QED BY <1>3, <1>4, <1>5, <1>6
        DEF Typed, CharSide, CharData, OnlineDb, ToCharLink, MapLink

LEMMA SessionEndsTyped ==
    ASSUME Typed, NEW t
    PROVE  IsIdb([charSess EXCEPT ![t].eof = TRUE], Token, CharSession)
<1>0. IsIdb(charSess, Token, CharSession)
  BY DEF Typed, CharData
<1>1. CASE t \notin DOMAIN charSess
  <2>1. [charSess EXCEPT ![t].eof = TRUE] = charSess
    BY <1>0, <1>1 DEF IsIdb
  <2> QED BY <1>0, <2>1
<1>2. CASE t \in DOMAIN charSess
  <2>1. charSess[t] \in CharSession
    BY <1>0, <1>2, EntryTyped
  <2>2. [charSess[t] EXCEPT !.eof = TRUE] \in CharSession
    BY <2>1 DEF CharSession
  <2> QED BY <1>0, <2>2, ExceptTyped
<1> QED BY <1>1, <1>2

LEMMA CharClientEofTyped ==
    ASSUME Typed, NEW t, C!CharClientEof(t)
    PROVE  CharSide'
BY SessionEndsTyped
   DEF C!CharClientEof, Typed, CharSide, CharData, ToCharLink, FromCharLink, MapLink

LEMMA CharParseEofTyped ==
    ASSUME Typed, NEW t \in Token, C!CharParseEof(t)
    PROVE  CharSide'
<1> DEFINE a  == charSess[t].acc
           db == IF charSess[t].auth /\ a \in DOMAIN onlineChar /\ onlineChar[a].fd = t
                 THEN [onlineChar EXCEPT ![a].fd = NoToken] ELSE onlineChar
<1>1. t \in DOMAIN charSess /\ charSess[t] \in CharSession
  <2>1. t \in DOMAIN charSess
    BY DEF C!CharParseEof
  <2> QED BY <2>1, EntryTyped DEF Typed, CharData
<1>2. a \in Account
  BY <1>1 DEF CharSession
<1>3. /\ charSess' = IdbRemove(charSess, t)
      /\ onlineChar' = C!SetCharOffline(db, NoChar, a) \/ onlineChar' = db
      /\ C!ToLogin(<<C!OfflineMsg(a)>>) \/ C!ToLogin(<< >>)
      /\ UNCHANGED <<loginFd, mapFd, charAuth, sql, toChar, toMap, fromMap>>
  BY SameRemove DEF C!CharParseEof
<1>4. OnlineDb(db)
  <2>1. OnlineDb(onlineChar)
    BY DEF Typed, CharData, OnlineDb
  <2> QED BY <2>1, EntryFdTyped
<1> HIDE DEF a, db
<1>5. OnlineDb(onlineChar')
  BY <1>3, <1>4, SetCharOfflineTyped
<1>6. FromCharLink'
  BY <1>2, <1>3, SentTyped, ToLoginTyped
<1>7. IsIdb(charSess', Token, CharSession)
  BY <1>3, RemoveTyped DEF Typed, CharData
<1> QED BY <1>3, <1>5, <1>6, <1>7
        DEF Typed, CharSide, CharData, OnlineDb, ToCharLink, MapLink

\* A packet of the login-server.
LEMMA FromLoginTyped ==
    ASSUME Typed, NEW type, C!FromLogin(type)
    PROVE  /\ Head(toChar[Self]) \in L!ToCharMsg /\ Head(toChar[Self]).type = type
           /\ ToCharLink'
<1>1. toChar[Self] \in Seq(L!ToCharMsg) /\ toChar[Self] # << >>
  BY SelfAssumption DEF SelfAssumption, Typed, ToCharLink, C!FromLogin
<1>2. Head(toChar[Self]) \in L!ToCharMsg /\ Tail(toChar[Self]) \in Seq(L!ToCharMsg)
  BY <1>1
<1> QED BY <1>2 DEF C!FromLogin, Typed, ToCharLink

LEMMA CharHandlesLoginTyped ==
    ASSUME Typed, CharHandlesLogin
    PROVE  CharSide'
<1> DEFINE m == Head(toChar[Self])
<1>0. OnlineDb(onlineChar)
  BY DEF Typed, CharData, OnlineDb
<1>1. CASE C!FromLoginConnected
  <2>1. ToCharLink'
    BY <1>1, FromLoginTyped DEF C!FromLoginConnected
  <2>2. FromCharLink'
    BY <1>1, ToLoginTyped, AccountsMsgTyped DEF C!FromLoginConnected
  <2> QED BY <1>1, <2>1, <2>2
          DEF C!FromLoginConnected, C!charVars, C!charData, Typed, CharSide, CharData, MapLink
<1>2. CASE C!FromLoginAuthState
  <2>1. ToCharLink' /\ m \in L!ToCharMsg /\ m.type = "authAck"
    BY <1>2, FromLoginTyped DEF C!FromLoginAuthState
  <2>2. m.acc \in Account /\ m.req \in Token
    <3> HIDE DEF m
    <3> QED BY <2>1 DEF L!ToCharMsg
  <2>3. UNCHANGED <<loginFd, mapFd, charAuth, sql, fromMap>>
    BY <1>2 DEF C!FromLoginAuthState
  <2>4. CASE m.req \in DOMAIN charSess /\ C!AuthOk(m.req, m.acc, charSess)
    <3> HIDE DEF m
    <3>1. IsIdb(charSess, Token, CharSession)
      BY DEF Typed, CharData
    <3>2. /\ IsIdb(charSess', Token, CharSession) /\ OnlineDb(onlineChar')
          /\ FromCharLink' /\ toMap' \in Seq(ToMapMsg)
      BY <2>2, <2>4, <3>1, AuthOkTyped
    <3> QED BY <2>1, <2>3, <3>2 DEF Typed, CharSide, CharData, OnlineDb, MapLink
  <2>5. CASE UNCHANGED <<charSess, onlineChar, fromChar, toMap>>
    BY <2>1, <2>3, <2>5 DEF Typed, CharSide, CharData, FromCharLink, MapLink
  <2> QED BY <1>2, <2>4, <2>5 DEF C!FromLoginAuthState
<1>3. CASE C!FromLoginKick
  <2>1. ToCharLink' /\ m \in L!ToCharMsg /\ m.type = "kick"
    BY <1>3, FromLoginTyped DEF C!FromLoginKick
  <2>2. m.acc \in Account
    <3> HIDE DEF m
    <3> QED BY <2>1 DEF L!ToCharMsg
  <2> DEFINE a == m.acc
  <2>3. /\ UNCHANGED <<loginFd, mapFd, sql, fromMap>>
        /\ charAuth' = IdbRemove(charAuth, a)
    BY <1>3, SameRemove DEF C!FromLoginKick
  <2>4. /\ \/ onlineChar' = onlineChar
           \/ onlineChar' = [onlineChar EXCEPT ![a].timer = TRUE]
           \/ onlineChar' = C!SetCharOffline(onlineChar, NoChar, a)
        /\ \/ charSess' = charSess
           \/ \E t \in DOMAIN charSess : charSess' = [charSess EXCEPT ![t].eof = TRUE]
        /\ fromChar' = fromChar \/ C!ToLogin(<<C!OfflineMsg(a)>>)
        /\ toMap' = toMap \/ C!ToMapServer(<<C!DisconnectMsg(a)>>)
    BY <1>3 DEF C!FromLoginKick
  <2> HIDE DEF m
  <2>5. OnlineDb(onlineChar')
    <3>1. \A b : OnlineDb([onlineChar EXCEPT ![b].timer = TRUE])
      BY <1>0, EntryTimerTyped
    <3> HIDE DEF a
    <3> QED BY <1>0, <2>4, <3>1, SetCharOfflineTyped
  <2>6. IsIdb(charSess', Token, CharSession)
    BY <2>4, SessionEndsTyped DEF Typed, CharData
  <2>7. FromCharLink' /\ toMap' \in Seq(ToMapMsg)
    <3>1. fromChar' = fromChar => FromCharLink'
      BY DEF Typed, FromCharLink
    <3>2. toMap' = toMap => toMap' \in Seq(ToMapMsg)
      BY DEF Typed, MapLink
    <3> QED BY <2>2, <2>4, <3>1, <3>2, SentTyped, ToLoginTyped, ToMapServerTyped
  <2>8. IsIdb(charAuth', Account, CharAuthNode)
    BY <2>3, RemoveTyped DEF Typed, CharData
  <2> QED BY <2>1, <2>3, <2>5, <2>6, <2>7, <2>8
          DEF Typed, CharSide, CharData, OnlineDb, MapLink
<1>4. CASE C!FromLoginAccountReg2
  <2>1. ToCharLink' /\ m \in L!ToCharMsg /\ m.type = "reg2"
    BY <1>4, FromLoginTyped DEF C!FromLoginAccountReg2
  <2> DEFINE x == [type |-> "regs", part |-> "acc2", acc |-> m.acc, char |-> m.char]
  <2>2. C!ToMapServer(<<x>>) /\ UNCHANGED <<C!charVars, fromChar, fromMap>>
    BY <1>4 DEF C!FromLoginAccountReg2
  <2> HIDE DEF m
  <2>3. m.acc \in Account /\ m.char \in Char
    BY <2>1 DEF L!ToCharMsg
  <2>4. x \in ToMapMsg
    BY <2>3 DEF ToMapMsg, M!RegPart
  <2> HIDE DEF x
  <2>5. <<x>> \in Seq(ToMapMsg)
    BY <2>4
  <2>6. toMap' \in Seq(ToMapMsg)
    BY <2>2, <2>5, ToMapServerTyped
  <2> QED BY <2>1, <2>2, <2>6
          DEF C!charVars, C!charData, Typed, CharSide, CharData, FromCharLink, MapLink
<1> QED BY <1>1, <1>2, <1>3, <1>4 DEF CharHandlesLogin


\* A packet of the map-server.
LEMMA FromMapTyped ==
    ASSUME Typed, NEW type, C!FromMap(type)
    PROVE  /\ Head(fromMap) \in FromMapMsg /\ Head(fromMap).type = type
           /\ fromMap' \in Seq(FromMapMsg)
<1>1. fromMap \in Seq(FromMapMsg) /\ fromMap # << >>
  BY DEF Typed, MapLink, C!FromMap
<1>2. Head(fromMap) \in FromMapMsg /\ Tail(fromMap) \in Seq(FromMapMsg)
  BY <1>1
<1> QED BY <1>2 DEF C!FromMap

\* What the packet holds.
LEMMA FromMapFields ==
    ASSUME NEW m \in FromMapMsg
    PROVE  /\ m.type \in {"save", "charSelect", "auth", "offline", "regReq"} => m.acc \in Account
           /\ m.type \in {"save", "auth", "offline", "regReq"} => m.char \in Char
           /\ m.type \in {"charSelect", "auth"} => m.tok \in Token
           /\ m.type = "save" => m.ver \in Nat /\ m.final \in BOOLEAN
           /\ m.type = "users" => m.users \in SUBSET [acc : Account, char : Char]
BY DEF FromMapMsg

LEMMA FromMapSetUsersTyped ==
    ASSUME Typed, C!FromMapSetUsers
    PROVE  CharSide'
<1> DEFINE users == Head(fromMap).users
           rest == C!SetMapServerOffline(onlineChar)
           here == {u.acc : u \in users}
           CharOf(a) == (CHOOSE u \in users : u.acc = a).char
           entry(a) == [C!OnlineData(rest, a) EXCEPT !.server = C!MapServerId,
                                                     !.char = CharOf(a)]
<1>1. users \in SUBSET [acc : Account, char : Char] /\ fromMap' \in Seq(FromMapMsg)
  BY FromMapTyped, FromMapFields DEF C!FromMapSetUsers
<1>2. /\ onlineChar' = [a \in DOMAIN rest \cup here |->
                           IF a \in here THEN entry(a) ELSE rest[a]]
      /\ UNCHANGED <<loginFd, mapFd, charAuth, charSess, sql, toChar, fromChar, toMap>>
  BY DEF C!FromMapSetUsers
<1> HIDE DEF users
<1>3. OnlineDb(rest)
  BY SetMapServerOfflineTyped DEF Typed, CharData, OnlineDb
<1>4. here \subseteq Account
  BY <1>1
<1>5. ASSUME NEW a \in here
      PROVE  entry(a) \in C!OnlineCharEntry
  <2>1. CharOf(a) \in Char
    <3>1. \E u \in users : u.acc = a
      OBVIOUS
    <3>2. (CHOOSE u \in users : u.acc = a) \in users
      BY <3>1
    <3> QED BY <1>1, <3>2
  <2>2. a \in Account
    BY <1>4
  <2>3. C!OnlineData(rest, a) \in C!OnlineCharEntry
    BY <1>3, <2>2, OnlineDataTyped
  <2> HIDE DEF CharOf
  <2> QED BY <2>1, <2>3 DEF C!OnlineCharEntry
<1>6. \A a \in DOMAIN rest : a \in Account /\ rest[a] \in C!OnlineCharEntry
  BY <1>3, EntryTyped DEF OnlineDb
<1> HIDE DEF rest, here, entry
<1>7. IsIdb(onlineChar', Account, C!OnlineCharEntry)
  BY <1>2, <1>4, <1>5, <1>6 DEF IsIdb
<1> QED BY <1>1, <1>2, <1>7
        DEF Typed, CharSide, CharData, ToCharLink, FromCharLink, MapLink

LEMMA FromMapSaveCharacterTyped ==
    ASSUME Typed, C!FromMapSaveCharacter
    PROVE  CharSide'
<1> DEFINE m == Head(fromMap)
<1>0. OnlineDb(onlineChar)
  BY DEF Typed, CharData, OnlineDb
<1>1. /\ m.acc \in Account /\ m.char \in Char /\ m.ver \in Nat
      /\ fromMap' \in Seq(FromMapMsg)
  BY FromMapTyped, FromMapFields DEF C!FromMapSaveCharacter
<1>2. UNCHANGED <<loginFd, mapFd, charAuth, charSess, toChar>>
  BY DEF C!FromMapSaveCharacter
<1>3. /\ sql' = [sql EXCEPT ![m.char] = m.ver] \/ sql' = sql
      /\ \/ onlineChar' = onlineChar
         \/ onlineChar' = C!SetCharOffline(onlineChar, m.char, m.acc)
         \/ onlineChar' = C!SetCharOnline(onlineChar, C!MapServerId, m.char, m.acc)
      /\ \/ fromChar' = fromChar
         \/ C!ToLogin(C!OfflineNotice(onlineChar, m.char, m.acc))
         \/ C!ToLogin(<<C!OnlineMsg(m.acc)>>)
      /\ \/ toMap' = toMap
         \/ C!ToMapServer(<<[type |-> "saveAck", acc |-> m.acc, char |-> m.char]>>)
  BY DEF C!FromMapSaveCharacter
<1> HIDE DEF m
<1>4. sql' \in [Char -> Nat]
  BY <1>1, <1>3 DEF Typed, CharData
<1>5. OnlineDb(onlineChar')
  BY <1>0, <1>1, <1>3, SetCharOfflineTyped, SetCharOnlineTyped
<1>6. FromCharLink'
  <2>1. fromChar' = fromChar => FromCharLink'
    BY DEF Typed, FromCharLink
  <2> QED BY <1>1, <1>3, <2>1, SentTyped, ToLoginTyped
<1>7. toMap' \in Seq(ToMapMsg)
  <2>1. toMap' = toMap => toMap' \in Seq(ToMapMsg)
    BY DEF Typed, MapLink
  <2>2. [type |-> "saveAck", acc |-> m.acc, char |-> m.char] \in ToMapMsg
    BY <1>1 DEF ToMapMsg
  <2>3. <<[type |-> "saveAck", acc |-> m.acc, char |-> m.char]>> \in Seq(ToMapMsg)
    BY <2>2
  <2> QED BY <1>3, <2>1, <2>3, ToMapServerTyped
<1> QED BY <1>1, <1>2, <1>4, <1>5, <1>6, <1>7
        DEF Typed, CharSide, CharData, OnlineDb, ToCharLink, MapLink

LEMMA FromMapCharSelectReqTyped ==
    ASSUME Typed, C!FromMapCharSelectReq
    PROVE  CharSide'
<1> DEFINE m == Head(fromMap)
<1>1. m.acc \in Account /\ m.tok \in Token /\ fromMap' \in Seq(FromMapMsg)
  BY FromMapTyped, FromMapFields DEF C!FromMapCharSelectReq
<1>2. /\ charAuth' = IdbPut(charAuth, m.acc, [char |-> NoChar, tok |-> m.tok])
      /\ onlineChar' = C!SetCharCharselect(onlineChar, m.acc)
      /\ C!ToLogin(<<C!OnlineMsg(m.acc)>>)
      /\ C!ToMapServer(<<[type |-> "selectAck", acc |-> m.acc]>>)
      /\ UNCHANGED <<loginFd, mapFd, charSess, sql, toChar>>
  BY SamePut DEF C!FromMapCharSelectReq
<1> HIDE DEF m
<1>3. IsIdb(charAuth', Account, CharAuthNode)
  <2>1. [char |-> NoChar, tok |-> m.tok] \in CharAuthNode
    BY <1>1 DEF CharAuthNode
  <2> QED BY <1>1, <1>2, <2>1, PutTyped DEF Typed, CharData
<1>4. OnlineDb(onlineChar')
  BY <1>1, <1>2, SetCharCharselectTyped DEF OnlineDb, Typed, CharData
<1>5. toMap' \in Seq(ToMapMsg)
  <2>1. [type |-> "selectAck", acc |-> m.acc] \in ToMapMsg
    BY <1>1 DEF ToMapMsg
  <2>2. <<[type |-> "selectAck", acc |-> m.acc]>> \in Seq(ToMapMsg)
    BY <2>1
  <2> QED BY <1>2, <2>2, ToMapServerTyped
<1>6. FromCharLink'
  BY <1>1, <1>2, SentTyped, ToLoginTyped
<1> QED BY <1>1, <1>2, <1>3, <1>4, <1>5, <1>6
        DEF Typed, CharSide, CharData, OnlineDb, ToCharLink, MapLink

LEMMA FromMapAuthRequestTyped ==
    ASSUME Typed, C!FromMapAuthRequest
    PROVE  CharSide'
<1> DEFINE m == Head(fromMap)
           yes == [type |-> "authOk", acc |-> m.acc, char |-> m.char,
                   tok |-> m.tok, ver |-> sql[m.char]]
           no == [type |-> "authFail", acc |-> m.acc, char |-> m.char, tok |-> m.tok]
<1>1. /\ m.acc \in Account /\ m.char \in Char /\ m.tok \in Token
      /\ fromMap' \in Seq(FromMapMsg)
  BY FromMapTyped, FromMapFields DEF C!FromMapAuthRequest
<1>2. /\ UNCHANGED <<loginFd, mapFd, charSess, sql, toChar>>
      /\ \/ /\ C!ToMapServer(<<yes>>)
            /\ charAuth' = IdbRemove(charAuth, m.acc)
            /\ onlineChar' = C!SetCharOnline(onlineChar, C!MapServerId, m.char, m.acc)
            /\ C!ToLogin(<<C!OnlineMsg(m.acc)>>)
         \/ /\ C!ToMapServer(<<no>>)
            /\ UNCHANGED <<charAuth, onlineChar, fromChar>>
  BY SameRemove DEF C!FromMapAuthRequest
<1> HIDE DEF m
<1>3. yes \in ToMapMsg /\ no \in ToMapMsg
  <2>1. sql[m.char] \in Nat
    BY <1>1 DEF Typed, CharData
  <2> QED BY <1>1, <2>1 DEF ToMapMsg
<1> HIDE DEF yes, no
<1>4. <<yes>> \in Seq(ToMapMsg) /\ <<no>> \in Seq(ToMapMsg)
  BY <1>3
<1>5. toMap' \in Seq(ToMapMsg)
  BY <1>2, <1>4, ToMapServerTyped
<1>6. IsIdb(charAuth', Account, CharAuthNode)
  BY <1>2, RemoveTyped DEF Typed, CharData
<1>7. OnlineDb(onlineChar')
  BY <1>1, <1>2, SetCharOnlineTyped DEF OnlineDb, Typed, CharData
<1>8. FromCharLink'
  <2>1. fromChar' = fromChar => FromCharLink'
    BY DEF Typed, FromCharLink
  <2> QED BY <1>1, <1>2, <2>1, SentTyped, ToLoginTyped
<1> QED BY <1>1, <1>2, <1>5, <1>6, <1>7, <1>8
        DEF Typed, CharSide, CharData, OnlineDb, ToCharLink, MapLink

LEMMA CharHandlesMapTyped ==
    ASSUME Typed, CharHandlesMap
    PROVE  CharSide'
<1> DEFINE m == Head(fromMap)
<1>1. CASE C!FromMapMapNames
  <2>1. fromMap' \in Seq(FromMapMsg)
    BY <1>1, FromMapTyped DEF C!FromMapMapNames
  <2>2. <<[type |-> "mapsAck"]>> \in Seq(ToMapMsg)
    BY DEF ToMapMsg
  <2>3. toMap' \in Seq(ToMapMsg)
    BY <1>1, <2>2, ToMapServerTyped DEF C!FromMapMapNames
  <2> QED BY <1>1, <2>1, <2>3
          DEF C!FromMapMapNames, C!charData, Typed, CharSide, CharData, ToCharLink,
              FromCharLink, MapLink
<1>2. CASE C!FromMapSetCharOffline
  <2>1. m.acc \in Account /\ fromMap' \in Seq(FromMapMsg)
    BY <1>2, FromMapTyped, FromMapFields DEF C!FromMapSetCharOffline
  <2>2. /\ onlineChar' = C!SetCharOffline(onlineChar, m.char, m.acc)
        /\ C!ToLogin(C!OfflineNotice(onlineChar, m.char, m.acc))
        /\ UNCHANGED <<loginFd, mapFd, charAuth, charSess, sql, toChar, toMap>>
    BY <1>2 DEF C!FromMapSetCharOffline
  <2> HIDE DEF m
  <2>3. OnlineDb(onlineChar')
    BY <2>2, SetCharOfflineTyped DEF OnlineDb, Typed, CharData
  <2>4. FromCharLink'
    BY <2>1, <2>2, SentTyped, ToLoginTyped
  <2> QED BY <2>1, <2>2, <2>3, <2>4
          DEF Typed, CharSide, CharData, OnlineDb, ToCharLink, MapLink
<1>3. CASE C!FromMapRegistryRequest
  <2> DEFINE x == [type |-> "regs", part |-> "local", acc |-> m.acc, char |-> m.char]
             y == [type |-> "reg2", acc |-> m.acc, char |-> m.char]
  <2>1. m.acc \in Account /\ m.char \in Char /\ fromMap' \in Seq(FromMapMsg)
    BY <1>3, FromMapTyped, FromMapFields DEF C!FromMapRegistryRequest
  <2>2. C!ToMapServer(<<x>>) /\ C!ToLogin(<<y>>) /\ UNCHANGED <<C!charVars, toChar>>
    BY <1>3 DEF C!FromMapRegistryRequest
  <2> HIDE DEF m
  <2>3. x \in ToMapMsg /\ y \in L!FromCharMsg
    BY <2>1 DEF ToMapMsg, M!RegPart, L!FromCharMsg
  <2> HIDE DEF x, y
  <2>4. <<x>> \in Seq(ToMapMsg) /\ <<y>> \in Seq(L!FromCharMsg)
    BY <2>3
  <2>5. toMap' \in Seq(ToMapMsg) /\ FromCharLink'
    BY <2>2, <2>4, ToMapServerTyped, ToLoginTyped
  <2> QED BY <2>1, <2>2, <2>5
          DEF C!charVars, C!charData, Typed, CharSide, CharData, ToCharLink, MapLink
<1> QED BY <1>1, <1>2, <1>3, FromMapSetUsersTyped, FromMapSaveCharacterTyped,
           FromMapCharSelectReqTyped, FromMapAuthRequestTyped
        DEF CharHandlesMap


LEMMA CharTimersTyped ==
    ASSUME Typed, CharTimers
    PROVE  CharSide'
<1>0. OnlineDb(onlineChar)
  BY DEF Typed, CharData, OnlineDb
<1>1. ASSUME NEW a \in Account, C!CharWaitingDisconnect(a)
      PROVE  CharSide'
  <2>1. /\ onlineChar' = C!SetCharOffline(onlineChar, onlineChar[a].char, a)
        /\ C!ToLogin(C!OfflineNotice(onlineChar, onlineChar[a].char, a))
        /\ UNCHANGED <<loginFd, mapFd, charAuth, charSess, sql, toChar, toMap, fromMap>>
    BY <1>1 DEF C!CharWaitingDisconnect
  <2>2. OnlineDb(onlineChar')
    BY <1>0, <2>1, SetCharOfflineTyped
  <2>3. FromCharLink'
    BY <2>1, SentTyped, ToLoginTyped
  <2> QED BY <2>1, <2>2, <2>3 DEF Typed, CharSide, CharData, OnlineDb, ToCharLink, MapLink
<1>2. CASE C!CharOnlineDataCleanup
  <2> DEFINE idle == {a \in DOMAIN onlineChar : onlineChar[a].fd = NoToken}
             lost == {a \in idle : onlineChar[a].server = C!UnknownMapServer}
             gone == {a \in idle : onlineChar[a].server # C!MapServerId}
             order == C!SetToSeq(lost)
             ms == [i \in DOMAIN order |-> C!OfflineMsg(order[i])]
  <2>1. /\ onlineChar' = [a \in DOMAIN onlineChar \ gone |-> onlineChar[a]]
        /\ C!ToLogin(ms)
        /\ UNCHANGED <<loginFd, mapFd, charAuth, charSess, sql, toChar, toMap, fromMap>>
    BY <1>2 DEF C!CharOnlineDataCleanup
  <2>2. lost \in SUBSET Account
    BY <1>0 DEF OnlineDb, IsIdb
  <2>3. order \in Seq(Account)
    BY <2>2, AccountListAssumption DEF AccountListAssumption
  <2> HIDE DEF order
  <2>4. ms \in Seq(L!FromCharMsg)
    <3>1. \A i \in DOMAIN order : C!OfflineMsg(order[i]) \in L!FromCharMsg
      BY <2>3 DEF C!OfflineMsg, L!FromCharMsg
    <3>2. DOMAIN order = 1..Len(order) /\ Len(order) \in Nat
      BY <2>3
    <3> QED BY <3>1, <3>2
  <2> HIDE DEF ms, gone
  <2>5. FromCharLink'
    BY <2>1, <2>4, ToLoginTyped
  <2>6. OnlineDb(onlineChar')
    BY <1>0, <2>1, RestrictTyped DEF OnlineDb
  <2> QED BY <2>1, <2>5, <2>6 DEF Typed, CharSide, CharData, OnlineDb, ToCharLink, MapLink
<1>3. CASE C!CharSendAccounts
  <2>1. FromCharLink'
    BY <1>3, ToLoginTyped, AccountsMsgTyped DEF C!CharSendAccounts
  <2> QED BY <1>3, <2>1
          DEF C!CharSendAccounts, C!charVars, C!charData, Typed, CharSide, CharData,
              ToCharLink, MapLink
<1>4. CASE C!CheckConnectFails
  BY <1>4 DEF C!CheckConnectFails, C!charData, Typed, CharSide, CharData,
              ToCharLink, FromCharLink, MapLink
<1> QED BY <1>1, <1>2, <1>3, <1>4 DEF CharTimers

-----------------------------------------------------------------------------
(* The map-server.                                                         *)

MapSide == MapData /\ MapLink

LEMMA SendTyped ==
    ASSUME Typed, NEW ms \in Seq(FromMapMsg), M!Send(ms)
    PROVE  fromMap' \in Seq(FromMapMsg)
BY DEF M!Send, Typed, MapLink

LEMMA OneTyped ==
    ASSUME NEW x \in FromMapMsg
    PROVE  <<x>> \in Seq(FromMapMsg)
OBVIOUS

LEMMA SaveMsgTyped ==
    ASSUME NEW a \in Account, NEW c \in Char, NEW v \in Nat, NEW final \in BOOLEAN
    PROVE  /\ M!SaveMsg(a, c, v, final) \in FromMapMsg
           /\ M!CharOfflineMsg(a, c) \in FromMapMsg
BY DEF M!SaveMsg, M!CharOfflineMsg, FromMapMsg

LEMMA NodeTyped ==
    ASSUME Typed, NEW a \in DOMAIN mapAuth
    PROVE  /\ a \in Account /\ mapAuth[a] \in M!AuthNode
           /\ mapAuth[a].char \in Char /\ mapAuth[a].tok \in Token
           /\ mapAuth[a].fd \in Token \cup {NoToken} /\ mapAuth[a].ver \in Nat
           /\ mapAuth[a].regs \in SUBSET M!RegPart
<1>1. a \in Account /\ mapAuth[a] \in M!AuthNode
  BY EntryTyped DEF Typed, MapData
<1> QED BY <1>1 DEF M!AuthNode

LEMMA PlayerTyped ==
    ASSUME Typed, NEW a \in DOMAIN pc
    PROVE  /\ a \in Account /\ pc[a] \in Player
           /\ pc[a].char \in Char /\ pc[a].tok \in Token
           /\ pc[a].fd \in Token \cup {NoToken} /\ pc[a].ver \in Nat
<1>1. a \in Account /\ pc[a] \in Player
  BY EntryTyped DEF Typed, MapData
<1> QED BY <1>1 DEF Player

LEMMA SessionTyped ==
    ASSUME Typed, NEW t \in DOMAIN mapSess
    PROVE  /\ t \in Token /\ mapSess[t] \in MapSession
           /\ mapSess[t].acc \in Account /\ mapSess[t].char \in Char
<1>1. t \in Token /\ mapSess[t] \in MapSession
  BY EntryTyped DEF Typed, MapData
<1> QED BY <1>1 DEF MapSession

\* A session is marked as closed, one is freed, or a node goes with its session.
LEMMA MapSessionEndsTyped ==
    ASSUME Typed, NEW t
    PROVE  IsIdb([mapSess EXCEPT ![t].eof = TRUE], Token, MapSession)
<1>0. IsIdb(mapSess, Token, MapSession)
  BY DEF Typed, MapData
<1>1. CASE t \notin DOMAIN mapSess
  <2>1. [mapSess EXCEPT ![t].eof = TRUE] = mapSess
    BY <1>0, <1>1 DEF IsIdb
  <2> QED BY <1>0, <2>1
<1>2. CASE t \in DOMAIN mapSess
  <2>1. mapSess[t] \in MapSession
    BY <1>2, SessionTyped
  <2>2. [mapSess[t] EXCEPT !.eof = TRUE] \in MapSession
    BY <2>1 DEF MapSession
  <2> QED BY <1>0, <2>2, ExceptTyped
<1> QED BY <1>1, <1>2

LEMMA AuthDeleteTyped ==
    ASSUME Typed, NEW a, M!AuthDelete(a)
    PROVE  /\ IsIdb(mapAuth', Account, M!AuthNode)
           /\ IsIdb(mapSess', Token, MapSession)
BY SameRemove, RemoveTyped DEF M!AuthDelete, Typed, MapData

LEMMA MapQuitTyped ==
    ASSUME Typed, NEW a \in DOMAIN pc, M!MapQuit(a)
    PROVE  /\ IsIdb(mapAuth', Account, M!AuthNode) /\ IsIdb(pc', Account, Player)
           /\ fromMap' \in Seq(FromMapMsg)
<1> DEFINE node == [state |-> "logout", char |-> pc[a].char, tok |-> pc[a].tok,
                    fd |-> NoToken, ver |-> pc[a].ver, regs |-> {}]
           x == M!SaveMsg(a, pc[a].char, pc[a].ver, TRUE)
<1>1. /\ mapAuth' = IdbPut(mapAuth, a, node) /\ pc' = IdbRemove(pc, a)
      /\ M!Send(<<x>>)
  BY SamePut, SameRemove DEF M!MapQuit
<1>2. node \in M!AuthNode
  BY PlayerTyped DEF M!AuthNode
<1>3. x \in FromMapMsg
  BY PlayerTyped, SaveMsgTyped
<1> HIDE DEF node, x
<1>4. fromMap' \in Seq(FromMapMsg)
  BY <1>1, <1>3, OneTyped, SendTyped
<1> QED BY <1>1, <1>2, <1>4, PlayerTyped, PutTyped, RemoveTyped DEF Typed, MapData

LEMMA WantToConnectionTyped ==
    ASSUME Typed, NEW t \in Token, NEW a \in Account, NEW c \in Char,
           M!WantToConnection(t, a, c)
    PROVE  MapSide'
<1> DEFINE asks == a \notin DOMAIN mapAuth /\ chrif = "ready"
           sess == [acc |-> a, char |-> c, eof |-> ~asks]
           node == [state |-> "login", char |-> c, tok |-> t,
                    fd |-> t, ver |-> M!Blank, regs |-> {}]
           x == [type |-> "auth", acc |-> a, char |-> c, tok |-> t]
<1>1. /\ mapSess' = IdbPut(mapSess, t, sess)
      /\ mapAuth' = IdbPut(mapAuth, a, node) \/ mapAuth' = mapAuth
      /\ M!Send(<<x>>) \/ M!Send(<< >>)
      /\ UNCHANGED <<chrif, pc, latest, toMap>>
  BY SamePut DEF M!WantToConnection
<1>2. sess \in MapSession
  BY DEF MapSession
<1>3. node \in M!AuthNode
  BY DEF M!AuthNode, M!Blank
<1>4. x \in FromMapMsg
  BY DEF FromMapMsg
<1> HIDE DEF sess, node, x
<1>5. fromMap' \in Seq(FromMapMsg)
  <2>1. << >> \in Seq(FromMapMsg)
    OBVIOUS
  <2> QED BY <1>1, <1>4, <2>1, OneTyped, SendTyped
<1>6. IsIdb(mapSess', Token, MapSession) /\ IsIdb(mapAuth', Account, M!AuthNode)
  BY <1>1, <1>2, <1>3, PutTyped DEF Typed, MapData
<1> QED BY <1>1, <1>5, <1>6 DEF Typed, MapData, MapSide, MapLink

\* A session at its end, of each of the three kinds.
LEMMA MapServerClosesTyped ==
    ASSUME Typed, NEW t \in Token,
           M!ClifParseEofQuit(t) \/ M!ClifParseEofDelayed(t) \/ M!ClifParseEofInactive(t)
    PROVE  MapSide'
<1> DEFINE a == mapSess[t].acc
<1>0. IsIdb(mapSess, Token, MapSession)
  BY DEF Typed, MapData
<1>1. CASE M!ClifParseEofQuit(t)
  <2>1. /\ a \in DOMAIN pc /\ M!MapQuit(a) /\ mapSess' = IdbRemove(mapSess, t)
        /\ UNCHANGED <<chrif, latest, toMap>>
    BY <1>1, SameRemove DEF M!ClifParseEofQuit, M!Plays
  <2> HIDE DEF a
  <2>2. IsIdb(mapSess', Token, MapSession)
    BY <1>0, <2>1, RemoveTyped
  <2> QED BY <2>1, <2>2, MapQuitTyped DEF Typed, MapData, MapSide, MapLink
<1>2. CASE M!ClifParseEofDelayed(t)
  <2>1. /\ a \in DOMAIN pc /\ mapSess' = IdbRemove(mapSess, t)
        /\ pc' = [pc EXCEPT ![a].fd = NoToken]
        /\ UNCHANGED <<chrif, mapAuth, latest, toMap, fromMap>>
    BY <1>2, SameRemove DEF M!ClifParseEofDelayed, M!Plays
  <2> HIDE DEF a
  <2>2. IsIdb(mapSess', Token, MapSession)
    BY <1>0, <2>1, RemoveTyped
  <2>3. [pc[a] EXCEPT !.fd = NoToken] \in Player
    <3>1. pc[a] \in Player
      BY <2>1, PlayerTyped
    <3> QED BY <3>1 DEF Player
  <2>4. IsIdb(pc', Account, Player)
    BY <2>1, <2>3, ExceptTyped DEF Typed, MapData
  <2> QED BY <2>1, <2>2, <2>4 DEF Typed, MapData, MapSide, MapLink
<1>3. CASE M!ClifParseEofInactive(t)
  <2>1. /\ mapAuth' = IdbRemove(mapAuth, a) \/ mapAuth' = mapAuth
        /\ \/ mapSess' = IdbRemove(IdbRemove(mapSess, mapAuth[a].fd), t)
           \/ mapSess' = IdbRemove(mapSess, t)
        /\ UNCHANGED <<chrif, pc, latest, toMap, fromMap>>
    BY <1>3, SameRemove DEF M!ClifParseEofInactive
  <2> HIDE DEF a
  <2>2. IsIdb(mapSess', Token, MapSession)
    BY <1>0, <2>1, RemoveTyped
  <2>3. IsIdb(mapAuth', Account, M!AuthNode)
    BY <2>1, RemoveTyped DEF Typed, MapData
  <2> QED BY <2>1, <2>2, <2>3 DEF Typed, MapData, MapSide, MapLink
<1> QED BY <1>1, <1>2, <1>3

LEMMA MapClientTyped ==
    ASSUME Typed, NEW t \in Token, NEW a \in Account,
           M!MapClientEof(t) \/ M!ClifParseRestart(t, a)
    PROVE  MapSide'
<1>1. CASE M!MapClientEof(t)
  <2>1. IsIdb(mapSess', Token, MapSession)
    BY <1>1, MapSessionEndsTyped DEF M!MapClientEof
  <2> QED BY <1>1, <2>1 DEF M!MapClientEof, Typed, MapData, MapSide, MapLink
<1>2. CASE M!ClifParseRestart(t, a)
  <2>1. [type |-> "charSelect", acc |-> a, tok |-> t] \in FromMapMsg
    BY DEF FromMapMsg
  <2>2. fromMap' \in Seq(FromMapMsg)
    BY <1>2, <2>1, OneTyped, SendTyped DEF M!ClifParseRestart
  <2> QED BY <1>2, <2>2 DEF M!ClifParseRestart, M!mapData, Typed, MapData, MapSide, MapLink
<1> QED BY <1>1, <1>2


LEMMA MapTimersTyped ==
    ASSUME Typed, MapTimers
    PROVE  MapSide'
<1>1. ASSUME NEW a \in Account, M!ClifDelayQuit(a)
      PROVE  MapSide'
  BY <1>1, MapQuitTyped DEF M!ClifDelayQuit, Typed, MapData, MapSide, MapLink
<1>2. ASSUME NEW a \in Account, M!AuthDbCleanup(a)
      PROVE  MapSide'
  <2>1. /\ a \in DOMAIN mapAuth
        /\ \/ /\ M!Send(<<M!SaveMsg(a, mapAuth[a].char, mapAuth[a].ver, TRUE)>>)
              /\ UNCHANGED <<mapAuth, mapSess>>
           \/ /\ M!Send(<<M!CharOfflineMsg(a, mapAuth[a].char)>>)
              /\ M!AuthDelete(a)
        /\ UNCHANGED <<chrif, pc, latest, toMap>>
    BY <1>2 DEF M!AuthDbCleanup
  <2>2. /\ M!SaveMsg(a, mapAuth[a].char, mapAuth[a].ver, TRUE) \in FromMapMsg
        /\ M!CharOfflineMsg(a, mapAuth[a].char) \in FromMapMsg
    BY <2>1, NodeTyped, SaveMsgTyped
  <2>3. fromMap' \in Seq(FromMapMsg)
    BY <2>1, <2>2, OneTyped, SendTyped
  <2>4. IsIdb(mapAuth', Account, M!AuthNode) /\ IsIdb(mapSess', Token, MapSession)
    <3>1. CASE UNCHANGED <<mapAuth, mapSess>>
      BY <3>1 DEF Typed, MapData
    <3>2. CASE M!AuthDelete(a)
      BY <3>2, AuthDeleteTyped
    <3> QED BY <2>1, <3>1, <3>2
  <2> QED BY <2>1, <2>3, <2>4 DEF Typed, MapData, MapSide, MapLink
<1> QED BY <1>1, <1>2 DEF MapTimers

LEMMA MapPlaysTyped ==
    ASSUME Typed, MapPlays
    PROVE  MapSide'
<1>1. ASSUME NEW a \in Account, M!Play(a)
      PROVE  MapSide'
  <2>1. /\ a \in DOMAIN pc /\ pc' = [pc EXCEPT ![a].ver = pc[a].ver + 1]
        /\ latest' = [latest EXCEPT ![pc[a].char] = pc[a].ver + 1]
        /\ UNCHANGED <<chrif, mapAuth, mapSess, toMap, fromMap>>
    BY <1>1 DEF M!Play
  <2>2. pc[a] \in Player /\ pc[a].ver + 1 \in Nat
    BY <2>1, PlayerTyped
  <2>3. [pc[a] EXCEPT !.ver = pc[a].ver + 1] \in Player
    BY <2>2 DEF Player
  <2>4. IsIdb(pc', Account, Player)
    BY <2>1, <2>3, ExceptTyped DEF Typed, MapData
  <2>5. latest' \in [Char -> Nat]
    BY <2>1, <2>2 DEF Typed, MapData
  <2> QED BY <2>1, <2>4, <2>5 DEF Typed, MapData, MapSide, MapLink
<1>2. ASSUME NEW a \in Account, M!AutoSave(a)
      PROVE  MapSide'
  <2>1. a \in DOMAIN pc /\ M!Send(<<M!SaveMsg(a, pc[a].char, pc[a].ver, FALSE)>>)
        /\ UNCHANGED <<chrif, M!mapData, toMap>>
    BY <1>2 DEF M!AutoSave
  <2>2. M!SaveMsg(a, pc[a].char, pc[a].ver, FALSE) \in FromMapMsg
    BY <2>1, PlayerTyped, SaveMsgTyped
  <2>3. fromMap' \in Seq(FromMapMsg)
    BY <2>1, <2>2, OneTyped, SendTyped
  <2> QED BY <2>1, <2>3 DEF M!mapData, Typed, MapData, MapSide, MapLink
<1> QED BY <1>1, <1>2 DEF MapPlays

\* A packet of the char-server.
LEMMA FromCharServerTyped ==
    ASSUME Typed, NEW type, M!FromCharServer(type)
    PROVE  /\ Head(toMap) \in ToMapMsg /\ Head(toMap).type = type
           /\ toMap' \in Seq(ToMapMsg)
<1>1. toMap \in Seq(ToMapMsg) /\ toMap # << >>
  BY DEF Typed, MapLink, M!FromCharServer
<1>2. Head(toMap) \in ToMapMsg /\ Tail(toMap) \in Seq(ToMapMsg)
  BY <1>1
<1> QED BY <1>2 DEF M!FromCharServer

\* What the packet holds.
LEMMA ToMapFields ==
    ASSUME NEW m \in ToMapMsg
    PROVE  /\ m.type \in {"disconnect", "selectAck", "saveAck", "authOk", "authFail", "regs"}
                  => m.acc \in Account
           /\ m.type \in {"saveAck", "authOk", "authFail", "regs"} => m.char \in Char
           /\ m.type \in {"authOk", "authFail"} => m.tok \in Token
           /\ m.type = "authOk" => m.ver \in Nat
           /\ m.type = "regs" => m.part \in M!RegPart
BY DEF ToMapMsg

LEMMA ChrifOnReadyTyped ==
    ASSUME Typed, M!ChrifOnReady
    PROVE  MapSide'
<1> DEFINE users == {[acc |-> a, char |-> pc[a].char] : a \in DOMAIN pc}
           ins   == {a \in DOMAIN mapAuth : M!LoggingIn(a)}
           MsgOf(a) == IF a \in ins THEN M!CharOfflineMsg(a, mapAuth[a].char)
                       ELSE M!SaveMsg(a, mapAuth[a].char, mapAuth[a].ver, TRUE)
           first == [type |-> "users", users |-> users]
           fds == {mapAuth[a].fd : a \in ins}
<1>0. M!Cardinality(DOMAIN mapAuth) = Cardinality(DOMAIN mapAuth)
  BY DEF M!Cardinality, Cardinality
<1>1. PICK order \in [1..M!Cardinality(DOMAIN mapAuth) -> DOMAIN mapAuth] :
         fromMap' = Append(fromMap, first) \o [i \in DOMAIN order |-> MsgOf(order[i])]
  BY DEF M!ChrifOnReady
<1>2. /\ chrif' = "ready"
      /\ mapAuth' = [a \in DOMAIN mapAuth \ ins |-> mapAuth[a]]
      /\ mapSess' = [t \in DOMAIN mapSess \ fds |-> mapSess[t]]
      /\ UNCHANGED <<pc, latest>>
  BY DEF M!ChrifOnReady
<1>3. toMap' \in Seq(ToMapMsg)
  BY FromCharServerTyped DEF M!ChrifOnReady
<1>4. first \in FromMapMsg
  <2>1. users \in SUBSET [acc : Account, char : Char]
    BY PlayerTyped
  <2> HIDE DEF users
  <2> QED BY <2>1 DEF FromMapMsg
<1>5. \A a \in DOMAIN mapAuth : MsgOf(a) \in FromMapMsg
  BY NodeTyped, SaveMsgTyped
<1>6. Cardinality(DOMAIN mapAuth) \in Nat
  <2>1. DOMAIN mapAuth \subseteq Account
    BY DEF Typed, MapData, IsIdb
  <2>2. IsFiniteSet(DOMAIN mapAuth)
    BY <2>1, AccountAssumption, FS_Subset DEF AccountAssumption
  <2> QED BY <2>2, FS_CardinalityType
<1> HIDE DEF MsgOf, first, ins, fds
<1>7. [i \in DOMAIN order |-> MsgOf(order[i])] \in Seq(FromMapMsg)
  <2>1. DOMAIN order = 1..Cardinality(DOMAIN mapAuth)
    BY <1>0
  <2>2. \A i \in DOMAIN order : MsgOf(order[i]) \in FromMapMsg
    BY <1>5
  <2> QED BY <1>6, <2>1, <2>2
<1>8. fromMap' \in Seq(FromMapMsg)
  <2>1. Append(fromMap, first) \in Seq(FromMapMsg)
    BY <1>4 DEF Typed, MapLink
  <2> HIDE DEF MsgOf
  <2> QED BY <1>1, <1>7, <2>1, JoinTyped
<1>9. IsIdb(mapAuth', Account, M!AuthNode) /\ IsIdb(mapSess', Token, MapSession)
  BY <1>2, RestrictTyped DEF Typed, MapData
<1> QED BY <1>2, <1>3, <1>8, <1>9 DEF Typed, MapData, MapSide, MapLink

LEMMA ChrifAuthOkTyped ==
    ASSUME Typed, M!ChrifAuthOk
    PROVE  MapSide'
<1> DEFINE m == Head(toMap)
           a == m.acc
           x == [type |-> "regReq", acc |-> a, char |-> m.char]
           y == M!CharOfflineMsg(a, mapAuth[a].char)
<1>1. m.acc \in Account /\ m.char \in Char /\ m.ver \in Nat /\ toMap' \in Seq(ToMapMsg)
  BY FromCharServerTyped, ToMapFields DEF M!ChrifAuthOk
<1>2. /\ \/ UNCHANGED <<mapAuth, mapSess, fromMap>>
         \/ /\ a \in DOMAIN mapAuth
            /\ mapAuth' = [mapAuth EXCEPT ![a].ver = m.ver]
            /\ M!Send(<<x>>)
            /\ UNCHANGED mapSess
         \/ /\ a \in DOMAIN mapAuth /\ M!Send(<<y>>)
            /\ \/ M!AuthDelete(a)
               \/ /\ mapSess' = [mapSess EXCEPT ![mapAuth[a].fd].eof = TRUE]
                  /\ UNCHANGED mapAuth
      /\ UNCHANGED <<chrif, pc, latest>>
  BY DEF M!ChrifAuthOk, M!LoggingIn
<1> HIDE DEF m
<1>3. x \in FromMapMsg
  BY <1>1 DEF FromMapMsg
<1>4. a \in DOMAIN mapAuth => y \in FromMapMsg
  BY NodeTyped, SaveMsgTyped
<1> HIDE DEF x, y
<1>5. fromMap' \in Seq(FromMapMsg)
  <2>1. fromMap' = fromMap => fromMap' \in Seq(FromMapMsg)
    BY DEF Typed, MapLink
  <2> QED BY <1>2, <1>3, <1>4, <2>1, OneTyped, SendTyped
<1>6. IsIdb(mapAuth', Account, M!AuthNode) /\ IsIdb(mapSess', Token, MapSession)
  <2>0. IsIdb(mapAuth, Account, M!AuthNode) /\ IsIdb(mapSess, Token, MapSession)
    BY DEF Typed, MapData
  <2>1. CASE UNCHANGED <<mapAuth, mapSess>>
    BY <2>0, <2>1
  <2>2. CASE /\ a \in DOMAIN mapAuth
             /\ mapAuth' = [mapAuth EXCEPT ![a].ver = m.ver]
             /\ UNCHANGED mapSess
    <3>1. [mapAuth[a] EXCEPT !.ver = m.ver] \in M!AuthNode
      <4>1. mapAuth[a] \in M!AuthNode
        BY <2>2, NodeTyped
      <4> QED BY <1>1, <4>1 DEF M!AuthNode
    <3> QED BY <2>0, <2>2, <3>1, ExceptTyped
  <2>3. CASE M!AuthDelete(a)
    BY <2>3, AuthDeleteTyped
  <2>4. CASE /\ mapSess' = [mapSess EXCEPT ![mapAuth[a].fd].eof = TRUE]
             /\ UNCHANGED mapAuth
    <3>1. \A t : IsIdb([mapSess EXCEPT ![t].eof = TRUE], Token, MapSession)
      BY MapSessionEndsTyped
    <3> QED BY <2>0, <2>4, <3>1
  <2> QED BY <1>2, <2>1, <2>2, <2>3, <2>4
<1> QED BY <1>1, <1>2, <1>5, <1>6 DEF Typed, MapData, MapSide, MapLink

LEMMA IntifParseRegistersTyped ==
    ASSUME Typed, M!IntifParseRegisters
    PROVE  MapSide'
<1> DEFINE m == Head(toMap)
           a == m.acc
           node == mapAuth[a]
           all == node.regs \cup {m.part}
           player == [char |-> node.char, tok |-> node.tok,
                      fd |-> node.fd, ver |-> node.ver]
<1>1. m.part \in M!RegPart /\ toMap' \in Seq(ToMapMsg)
  BY FromCharServerTyped, ToMapFields DEF M!IntifParseRegisters
<1>2. /\ \/ UNCHANGED <<mapAuth, pc>>
         \/ /\ a \in DOMAIN mapAuth
            /\ mapAuth' = [mapAuth EXCEPT ![a].regs = all]
            /\ UNCHANGED pc
         \/ /\ a \in DOMAIN mapAuth
            /\ mapAuth' = IdbRemove(mapAuth, a)
            /\ pc' = IdbPut(pc, a, player)
      /\ UNCHANGED <<chrif, mapSess, latest, fromMap>>
  BY SamePut, SameRemove DEF M!IntifParseRegisters, M!AuthCheck
<1>3. IsIdb(mapAuth, Account, M!AuthNode) /\ IsIdb(pc, Account, Player)
  BY DEF Typed, MapData
<1> HIDE DEF m
<1>4. IsIdb(mapAuth', Account, M!AuthNode) /\ IsIdb(pc', Account, Player)
  <2>1. CASE UNCHANGED <<mapAuth, pc>>
    BY <1>3, <2>1
  <2>2. CASE /\ a \in DOMAIN mapAuth
             /\ mapAuth' = [mapAuth EXCEPT ![a].regs = all]
             /\ UNCHANGED pc
    <3>1. [mapAuth[a] EXCEPT !.regs = all] \in M!AuthNode
      <4>1. mapAuth[a] \in M!AuthNode /\ all \in SUBSET M!RegPart
        BY <1>1, <2>2, NodeTyped
      <4> HIDE DEF all, a
      <4> QED BY <4>1 DEF M!AuthNode
    <3> QED BY <1>3, <2>2, <3>1, ExceptTyped
  <2>3. CASE /\ a \in DOMAIN mapAuth
             /\ mapAuth' = IdbRemove(mapAuth, a)
             /\ pc' = IdbPut(pc, a, player)
    <3>1. a \in Account /\ player \in Player
      BY <2>3, NodeTyped DEF Player
    <3> HIDE DEF player, a
    <3> QED BY <1>3, <2>3, <3>1, PutTyped, RemoveTyped
  <2> QED BY <1>2, <2>1, <2>2, <2>3
<1> QED BY <1>1, <1>2, <1>4 DEF Typed, MapData, MapSide, MapLink

LEMMA MapHandlesTyped ==
    ASSUME Typed, MapHandles
    PROVE  MapSide'
<1> DEFINE a == Head(toMap).acc
<1>0. IsIdb(mapAuth, Account, M!AuthNode) /\ IsIdb(mapSess, Token, MapSession)
  BY DEF Typed, MapData
<1>1. CASE M!ChrifConnectAck
  <2>1. toMap' \in Seq(ToMapMsg)
    BY <1>1, FromCharServerTyped DEF M!ChrifConnectAck
  <2>2. [type |-> "maps"] \in FromMapMsg
    BY DEF FromMapMsg
  <2>3. fromMap' \in Seq(FromMapMsg)
    BY <1>1, <2>2 DEF M!ChrifConnectAck, Typed, MapLink
  <2> QED BY <1>1, <2>1, <2>3 DEF M!ChrifConnectAck, M!mapData, Typed, MapData, MapSide, MapLink
<1>2. CASE M!ChrifAuthFail
  <2>1. toMap' \in Seq(ToMapMsg)
    BY <1>2, FromCharServerTyped DEF M!ChrifAuthFail
  <2>2. IsIdb(mapAuth', Account, M!AuthNode) /\ IsIdb(mapSess', Token, MapSession)
    BY <1>0, <1>2, AuthDeleteTyped DEF M!ChrifAuthFail
  <2> QED BY <1>2, <2>1, <2>2 DEF M!ChrifAuthFail, Typed, MapData, MapSide, MapLink
<1>3. CASE M!ChrifSaveAck
  <2>1. toMap' \in Seq(ToMapMsg)
    BY <1>3, FromCharServerTyped DEF M!ChrifSaveAck
  <2>2. IsIdb(mapAuth', Account, M!AuthNode)
    BY <1>0, <1>3, SameRemove, RemoveTyped DEF M!ChrifSaveAck
  <2> QED BY <1>3, <2>1, <2>2 DEF M!ChrifSaveAck, Typed, MapData, MapSide, MapLink
<1>4. CASE M!ChrifDisconnectPlayer
  <2>1. toMap' \in Seq(ToMapMsg)
    BY <1>4, FromCharServerTyped DEF M!ChrifDisconnectPlayer
  <2>2. /\ \/ /\ mapSess' = [mapSess EXCEPT ![pc[a].fd].eof = TRUE]
              /\ UNCHANGED mapAuth
           \/ M!AuthDelete(a)
           \/ UNCHANGED <<mapAuth, mapSess>>
        /\ UNCHANGED <<chrif, pc, latest, fromMap>>
    BY <1>4 DEF M!ChrifDisconnectPlayer
  <2>3. \A t : IsIdb([mapSess EXCEPT ![t].eof = TRUE], Token, MapSession)
    BY MapSessionEndsTyped
  <2> HIDE DEF a
  <2>4. IsIdb(mapAuth', Account, M!AuthNode) /\ IsIdb(mapSess', Token, MapSession)
    BY <1>0, <2>2, <2>3, AuthDeleteTyped
  <2> QED BY <2>1, <2>2, <2>4 DEF Typed, MapData, MapSide, MapLink
<1> QED BY <1>1, <1>2, <1>3, <1>4, ChrifOnReadyTyped, ChrifAuthOkTyped,
           IntifParseRegistersTyped DEF MapHandles


-----------------------------------------------------------------------------
(* The steps of the system.                                                *)

\* Steps that leave the clients where they are.
LEMMA SameClients == ASSUME Typed, UNCHANGED client PROVE Clients'
BY DEF Typed, Clients

LEMMA MovesTyped ==
    ASSUME Typed, NEW t \in Token, NEW place \in ClientPlace, MovesTo(t, place),
           place \in {"toMap", "map"} => client[t].at \in {"toMap", "map"}
    PROVE  Clients'
<1>1. client' = [client EXCEPT ![t] = [client[t] EXCEPT !.at = place]]
  BY DEF MovesTo
<1>2. client \in [Token -> Client] /\ client[t] \in Client
  BY DEF Typed, Clients
<1> DEFINE d == [client[t] EXCEPT !.at = place]
<1>3. d \in Client /\ d.char = client[t].char /\ d.at = place
  BY <1>2 DEF Client
<1> HIDE DEF d
<1>4. client' \in [Token -> Client] /\ client'[t] = d
      /\ \A u \in Token \ {t} : client'[u] = client[u]
  BY <1>1, <1>2, <1>3 DEF d
<1>5. ASSUME NEW u \in Token, client'[u].at \in {"toMap", "map"}
      PROVE  client'[u].char \in Char
  <2>1. CASE u = t
    BY <1>3, <1>4, <1>5, <2>1 DEF Typed, Clients
  <2>2. CASE u # t
    BY <1>4, <1>5, <2>2 DEF Typed, Clients
  <2> QED BY <2>1, <2>2
<1> QED BY <1>4, <1>5 DEF Clients

LEMMA CharStepTyped ==
    ASSUME Typed, CharSide', Clients', CharStep
    PROVE  Typed'
BY DEF CharStep, loginVars, mapVars, CharSide, Typed, LoginData, MapData, FaultCount

LEMMA MapStepTyped ==
    ASSUME Typed, MapSide', Clients', MapStep
    PROVE  Typed'
BY DEF MapStep, loginVars, charVars, MapSide, Typed, LoginData, CharData,
       ToCharLink, FromCharLink, FaultCount

LEMMA LoginStepTyped ==
    ASSUME Typed, LoginData', ToCharLink', FromCharLink', Clients', LoginStep
    PROVE  Typed'
BY DEF LoginStep, charVars, mapVars, Typed, CharData, MapData, MapLink, FaultCount

\* Whatever the clients do, and what a server does of a session at its end.
LEMMA ClientStepTyped ==
    ASSUME Typed, NEW t \in Token,
           \/ ConnectChar(t) \/ SelectChar(t) \/ ConnectMap(t)
           \/ RequestCharSelect(t) \/ Leave(t)
           \/ ClosesConnection(t) \/ ServerCloses(t)
    PROVE  Typed'
<1>0. /\ client \in [Token -> Client] /\ client[t] \in Client /\ client[t].acc \in Account
      /\ client[t].at \in {"toMap", "map"} => client[t].char \in Char
  <2>1. client[t] \in Client
    BY DEF Typed, Clients
  <2> QED BY <2>1 DEF Typed, Clients, Client
<1>1. CASE ConnectChar(t)
  <2>1. CharSide'
    BY <1>0, <1>1, CharConnectTyped DEF ConnectChar
  <2>2. Clients'
    BY <1>1, MovesTyped DEF ConnectChar, ClientPlace
  <2> QED BY <1>1, <2>1, <2>2, CharStepTyped DEF ConnectChar
<1>2. CASE SelectChar(t)
  <2>1. PICK c \in Char : /\ C!CharSelect(t, c)
                          /\ client' = [client EXCEPT ![t].at = "toMap", ![t].char = c]
    BY <1>2 DEF SelectChar
  <2> DEFINE d == [client[t] EXCEPT !.at = "toMap", !.char = c]
  <2>2. d \in Client /\ d.char \in Char
    BY <1>0 DEF Client, ClientPlace
  <2>3. client' = [client EXCEPT ![t] = d]
    BY <1>0, <2>1
  <2> HIDE DEF d
  <2>4. Clients'
    <3>1. client' \in [Token -> Client] /\ client'[t] = d
          /\ \A u \in Token \ {t} : client'[u] = client[u]
      BY <1>0, <2>2, <2>3
    <3>2. ASSUME NEW u \in Token, client'[u].at \in {"toMap", "map"}
          PROVE  client'[u].char \in Char
      <4>1. CASE u = t
        BY <2>2, <3>1, <4>1
      <4>2. CASE u # t
        BY <3>1, <3>2, <4>2 DEF Typed, Clients
      <4> QED BY <4>1, <4>2
    <3> QED BY <3>1, <3>2 DEF Clients
  <2>5. CharSide'
    BY <2>1, CharSelectTyped
  <2> QED BY <1>2, <2>4, <2>5, CharStepTyped DEF SelectChar
<1>3. CASE ConnectMap(t)
  <2>1. MapSide'
    BY <1>0, <1>3, WantToConnectionTyped DEF ConnectMap
  <2>2. Clients'
    BY <1>3, MovesTyped DEF ConnectMap, ClientPlace
  <2> QED BY <1>3, <2>1, <2>2, MapStepTyped DEF ConnectMap
<1>4. CASE RequestCharSelect(t)
  BY <1>0, <1>4, MapClientTyped, SameClients, MapStepTyped DEF RequestCharSelect
<1>5. CASE Leave(t)
  <2>1. Clients'
    BY <1>5, MovesTyped DEF Leave, ClientPlace
  <2> QED BY <1>5, <2>1
          DEF Leave, loginVars, charVars, mapVars, Typed, LoginData, CharData, MapData,
              ToCharLink, FromCharLink, MapLink, FaultCount
<1>6. CASE ClosesConnection(t)
  <2>1. CASE C!CharClientEof(t) /\ CharStep /\ UNCHANGED client
    BY <2>1, CharClientEofTyped, SameClients, CharStepTyped
  <2>2. CASE M!MapClientEof(t) /\ MapStep /\ UNCHANGED client
    BY <1>0, <2>2, MapClientTyped, SameClients, MapStepTyped
  <2> QED BY <1>6, <2>1, <2>2 DEF ClosesConnection
<1>7. CASE ServerCloses(t)
  <2>1. CASE C!CharParseEof(t) /\ CharStep /\ UNCHANGED client
    BY <2>1, CharParseEofTyped, SameClients, CharStepTyped
  <2>2. CASE /\ \/ M!ClifParseEofQuit(t) \/ M!ClifParseEofDelayed(t)
                \/ M!ClifParseEofInactive(t)
             /\ MapStep /\ UNCHANGED client
    BY <2>2, MapServerClosesTyped, SameClients, MapStepTyped
  <2> QED BY <1>7, <2>1, <2>2 DEF ServerCloses
<1> QED BY <1>1, <1>2, <1>3, <1>4, <1>5, <1>6, <1>7

\* Whatever the char-server and the map-server do of themselves or on a packet.
LEMMA ServerStepTyped ==
    ASSUME Typed,
           CharHandles \/ CharTimers \/ MapHandles \/ CharSelectAck \/ MapTimers \/ MapPlays
    PROVE  Typed'
<1>1. CASE CharHandles
  BY <1>1, CharHandlesLoginTyped, CharHandlesMapTyped, SameClients, CharStepTyped
     DEF CharHandles, CharHandlesLogin, CharHandlesMap
<1>2. CASE CharTimers
  BY <1>2, CharTimersTyped, SameClients, CharStepTyped DEF CharTimers
<1>3. CASE MapHandles
  BY <1>3, MapHandlesTyped, SameClients, MapStepTyped DEF MapHandles
<1>4. CASE MapTimers
  BY <1>4, MapTimersTyped, SameClients, MapStepTyped DEF MapTimers
<1>5. CASE MapPlays
  BY <1>5, MapPlaysTyped, SameClients, MapStepTyped DEF MapPlays
<1>6. CASE CharSelectAck
  <2>1. M!ChrifCharSelectAck /\ MapStep
    BY <1>6 DEF CharSelectAck
  <2>2. MapSide'
    BY <2>1, FromCharServerTyped
       DEF M!ChrifCharSelectAck, M!mapData, Typed, MapData, MapLink, MapSide
  <2>3. Clients'
    <3> DEFINE a == Head(toMap).acc
               moved(t) == [client[t] EXCEPT !.at = "toChar"]
    <3>1. client' = [t \in Token |-> IF M!Plays(t, a) /\ client[t].at = "map"
                                     THEN moved(t) ELSE client[t]]
      BY <1>6 DEF CharSelectAck
    <3>2. ASSUME NEW t \in Token
          PROVE  moved(t) \in Client /\ moved(t).at = "toChar"
      <4>1. client[t] \in Client
        BY DEF Typed, Clients
      <4> QED BY <4>1 DEF Client, ClientPlace
    <3> HIDE DEF a, moved
    <3> QED BY <3>1, <3>2 DEF Typed, Clients
  <2> QED BY <2>1, <2>2, <2>3, MapStepTyped
<1> QED BY <1>1, <1>2, <1>3, <1>4, <1>5, <1>6

LEMMA FaultTyped ==
    ASSUME Typed, NEW kind, Fault(kind) \/ UNCHANGED faults
    PROVE  FaultCount'
BY MaxFaultsAssumption DEF Fault, Typed, FaultCount, MaxFaultsAssumption

\* Links and processes, but for the link to the login-server.
LEMMA LinkStepTyped ==
    ASSUME Typed, MapLinkUp \/ MapLinkBreaks \/ CharCrash \/ MapCrash
    PROVE  Typed'
<1>0. <<[type |-> "connectAck"]>> \in Seq(ToMapMsg)
      /\ << >> \in Seq(ToMapMsg) /\ << >> \in Seq(FromMapMsg)
  BY DEF ToMapMsg
<1>1. CASE MapLinkUp
  BY <1>0, <1>1, SameClients
     DEF MapLinkUp, M!ChrifConnect, M!mapData, C!LoginMapServer, C!charData, loginVars,
         Typed, LoginData, CharData, MapData, ToCharLink, FromCharLink, MapLink, FaultCount
<1>2. CASE MapLinkBreaks
  <2>1. FaultCount'
    BY <1>2, FaultTyped DEF MapLinkBreaks, ClosesLink
  <2>2. MapLink'
    BY <1>0, <1>2 DEF MapLinkBreaks, Typed, MapLink
  <2>3. Clients' /\ LoginData' /\ ToCharLink' /\ FromCharLink'
    BY <1>2, SameClients
       DEF MapLinkBreaks, loginVars, Typed, LoginData, ToCharLink, FromCharLink
  <2>4. CASE M!ChrifLost /\ UNCHANGED charVars
    BY <2>1, <2>2, <2>3, <2>4
       DEF M!ChrifLost, M!mapData, charVars, Typed, CharData, MapData
  <2>5. CASE C!MapifOnDisconnect /\ UNCHANGED mapVars
    <3>1. OnlineDb(onlineChar')
      BY <2>5, SetMapServerOfflineTyped DEF C!MapifOnDisconnect, Typed, CharData, OnlineDb
    <3> QED BY <2>1, <2>2, <2>3, <2>5, <3>1
            DEF C!MapifOnDisconnect, mapVars, Typed, CharData, MapData, OnlineDb
  <2> QED BY <1>2, <2>4, <2>5 DEF MapLinkBreaks
<1>3. CASE CharCrash
  <2>1. FaultCount'
    BY <1>3, FaultTyped DEF CharCrash
  <2>2. CharData'
    BY <1>3, SameNone, NoneTyped DEF CharCrash, C!CharRestart, Typed, CharData
  <2> QED BY <1>0, <1>3, <2>1, <2>2, SameClients
          DEF CharCrash, loginVars, mapVars, Typed, LoginData, MapData,
              ToCharLink, FromCharLink, MapLink
<1>4. CASE MapCrash
  <2>1. FaultCount'
    BY <1>4, FaultTyped DEF MapCrash
  <2>2. MapData'
    BY <1>4, SameNone, NoneTyped DEF MapCrash, M!MapRestart, Typed, CharData, MapData
  <2> QED BY <1>0, <1>4, <2>1, <2>2, SameClients
          DEF MapCrash, loginVars, charVars, Typed, LoginData, CharData,
              ToCharLink, FromCharLink, MapLink
<1> QED BY <1>1, <1>2, <1>3, <1>4

\* The link to the login-server.
LEMMA LoginLinkTyped ==
    ASSUME Typed, LoginLinkUp \/ LoginLinkBreaks
    PROVE  Typed'
<1> USE SelfAssumption DEF SelfAssumption
<1>0. /\ <<[type |-> "connected"]>> \in Seq(L!ToCharMsg)
      /\ << >> \in Seq(L!ToCharMsg) /\ << >> \in Seq(L!FromCharMsg)
  BY DEF L!ToCharMsg
<1>1. CASE LoginLinkUp
  <2>1. ToCharLink' /\ FromCharLink' /\ LoginData'
    BY <1>0, <1>1 DEF LoginLinkUp, L!ParseRequestConnection, L!loginHistory,
                      Typed, LoginData, ToCharLink, FromCharLink
  <2>2. CharData'
    BY <1>1 DEF LoginLinkUp, C!CharConnectsLogin, C!charData, Typed, CharData
  <2> QED BY <1>1, <2>1, <2>2, SameClients
          DEF LoginLinkUp, mapVars, Typed, MapData, MapLink, FaultCount
<1>2. CASE LoginLinkBreaks
  <2>1. FaultCount'
    BY <1>2, FaultTyped DEF LoginLinkBreaks, ClosesLink
  <2>2. Clients' /\ MapData' /\ MapLink'
    BY <1>2, SameClients DEF LoginLinkBreaks, mapVars, Typed, MapData, MapLink
  <2>3. CASE L!ChrifOnDisconnect(Self) /\ UNCHANGED charVars
    <3>1. IsIdb(onlineDb', Int, L!OnlineEntry)
      BY <2>3, SetServerOfflineTyped DEF L!ChrifOnDisconnect, Typed, LoginData
    <3>2. ToCharLink' /\ FromCharLink' /\ LoginData'
      BY <1>0, <2>3, <3>1 DEF L!ChrifOnDisconnect, L!loginHistory,
                              Typed, LoginData, ToCharLink, FromCharLink
    <3> QED BY <2>1, <2>2, <2>3, <3>2 DEF charVars, Typed, CharData
  <2>4. CASE /\ C!CharLoginLost
             /\ toChar' = [toChar EXCEPT ![Self] = << >>]
             /\ fromChar' = [fromChar EXCEPT ![Self] = IF server[Self] THEN @ ELSE << >>]
             /\ UNCHANGED loginVars
    <3>1. ToCharLink' /\ FromCharLink'
      BY <1>0, <2>4 DEF Typed, ToCharLink, FromCharLink
    <3>2. CharData'
      BY <2>4 DEF C!CharLoginLost, C!charData, Typed, CharData
    <3> QED BY <2>1, <2>2, <2>4, <3>1, <3>2 DEF loginVars, Typed, LoginData
  <2> QED BY <1>2, <2>3, <2>4 DEF LoginLinkBreaks
<1> QED BY <1>1, <1>2

LEMMA InitTyped == Init => Typed
<1> SUFFICES ASSUME Init PROVE Typed
  OBVIOUS
<1>1. LoginData /\ ToCharLink /\ FromCharLink
  BY SameNone, NoneTyped
     DEF Init, L!LoginInit, L!LoginLinksInit, LoginData, ToCharLink, FromCharLink
<1>2. CharData /\ MapData /\ MapLink
  BY SameNone, NoneTyped
     DEF Init, C!CharInit, M!MapInit, CharData, MapData, MapLink
<1>3. Owner[CHOOSE c \in Char : TRUE] \in Account
  BY CharAssumption, OwnerAssumption DEF CharAssumption, OwnerAssumption
<1>4. Clients
  BY <1>3 DEF Init, Clients, Client, ClientPlace
<1>5. FaultCount
  BY MaxFaultsAssumption DEF Init, FaultCount, MaxFaultsAssumption
<1> QED BY <1>1, <1>2, <1>4, <1>5 DEF Typed

LEMMA NextTyped ==
    ASSUME Typed, [Next]_vars
    PROVE  Typed'
<1>1. CASE LoginHandles
  BY <1>1, LoginHandlesTyped, SameClients, LoginStepTyped DEF LoginHandles
<1>2. CASE LoginTimers
  BY <1>2, LoginTimersTyped, SameClients, LoginStepTyped DEF LoginTimers
<1>3. CASE \E a \in Account : LogIn(a)
  BY <1>3, LogInTyped, LoginStepTyped DEF LogIn
<1>4. CASE UNCHANGED vars
  BY <1>4, SameClients
     DEF vars, loginVars, charVars, mapVars, Typed, LoginData, CharData, MapData,
         ToCharLink, FromCharLink, MapLink, FaultCount
<1> QED BY <1>1, <1>2, <1>3, <1>4, ClientStepTyped, ServerStepTyped, LinkStepTyped,
           LoginLinkTyped
        DEF Next, Handlers, Others

\* In the system of the three servers every database and every packet stays well formed:
\* what one server sends is what the others expect, whatever fails on the way.
THEOREM SessionSystemTypeOK == Spec => []TypeOK
<1>1. Typed /\ [Next]_vars => Typed'
  BY NextTyped
<1> QED BY InitTyped, <1>1, TypedIsTypeOK, PTL DEF Spec


-----------------------------------------------------------------------------
(* Under any login-server.                                                 *)

\* Its answer to a packet is a list of packets the char-server expects.
LEMMA AnyLoginAnswersTyped ==
    ASSUME Typed, AnyLoginAnswers
    PROVE  Typed'
<1> DEFINE m == Head(fromChar[Self])
<1>1. fromChar[Self] \in Seq(L!FromCharMsg) /\ fromChar[Self] # << >>
      /\ toChar[Self] \in Seq(L!ToCharMsg)
  BY SelfAssumption
     DEF SelfAssumption, AnyLoginAnswers, Answered, Typed, ToCharLink, FromCharLink
<1>2. m \in L!FromCharMsg /\ Tail(fromChar[Self]) \in Seq(L!FromCharMsg)
  BY <1>1
<1>3. Answer(m) \in Seq(L!ToCharMsg)
  <2> DEFINE x == [type |-> "authAck", acc |-> m.acc, tok |-> m.tok, req |-> m.req,
                   ok |-> TRUE]
  <2>1. CASE m.type = "auth"
    <3>1. Answer(m) = <<x>>
      BY <2>1 DEF Answer
    <3> HIDE DEF m
    <3>2. x \in L!ToCharMsg
      BY <1>2, <2>1 DEF L!FromCharMsg, L!ToCharMsg
    <3> HIDE DEF x
    <3>3. <<x>> \in Seq(L!ToCharMsg)
      BY <3>2
    <3> QED BY <3>1, <3>3
  <2>2. CASE m.type = "reg2"
    <3>1. Answer(m) = <<m>>
      BY <2>2 DEF Answer
    <3> HIDE DEF m
    <3>2. m \in L!ToCharMsg
      BY <1>2, <2>2 DEF L!FromCharMsg, L!ToCharMsg
    <3>3. <<m>> \in Seq(L!ToCharMsg)
      BY <3>2
    <3> QED BY <3>1, <3>3
  <2>3. CASE m.type \notin {"auth", "reg2"}
    <3> HIDE DEF m
    <3>1. Answer(m) = << >>
      BY <2>3 DEF Answer
    <3>2. << >> \in Seq(L!ToCharMsg)
      OBVIOUS
    <3> QED BY <3>1, <3>2
  <2> QED BY <2>1, <2>2, <2>3
<1>4. toChar[Self] \o Answer(m) \in Seq(L!ToCharMsg)
  <2> HIDE DEF m
  <2> QED BY <1>1, <1>3
<1>5. ToCharLink'
  BY <1>4 DEF AnyLoginAnswers, Typed, ToCharLink
<1>6. FromCharLink'
  BY <1>2 DEF AnyLoginAnswers, Typed, FromCharLink
<1> QED BY <1>5, <1>6, SameClients
        DEF AnyLoginAnswers, loginVars, charVars, mapVars, Typed, LoginData, CharData,
            MapData, MapLink, FaultCount

LEMMA AnyLoginActsTyped ==
    ASSUME Typed,
           AnyLoginAdmits \/ AnyLoginKicks \/ AnyLoginLinkUp \/ AnyLoginLinkBreaks
    PROVE  Typed'
<1> USE SelfAssumption DEF SelfAssumption
<1>0. << >> \in Seq(L!ToCharMsg) /\ << >> \in Seq(L!FromCharMsg)
  OBVIOUS
<1>1. CASE AnyLoginAdmits
  <2>1. PICK a \in Account, t \in Token :
           client' = [client EXCEPT ![t] = [at |-> "login", acc |-> a, char |-> NoChar]]
    BY <1>1 DEF AnyLoginAdmits
  <2>2. Clients'
    BY <2>1 DEF Typed, Clients, Client, ClientPlace
  <2> QED BY <1>1, <2>2
          DEF AnyLoginAdmits, loginVars, charVars, mapVars, Typed, LoginData, CharData,
              MapData, ToCharLink, FromCharLink, MapLink, FaultCount
<1>2. CASE AnyLoginKicks
  <2>1. PICK a \in Account :
           toChar' = [toChar EXCEPT ![Self] = <<[type |-> "kick", acc |-> a]>>]
    BY <1>2 DEF AnyLoginKicks
  <2>2. <<[type |-> "kick", acc |-> a]>> \in Seq(L!ToCharMsg)
    BY DEF L!ToCharMsg
  <2>3. ToCharLink'
    BY <2>1, <2>2 DEF Typed, ToCharLink
  <2> QED BY <1>2, <2>3, SameClients
          DEF AnyLoginKicks, loginVars, charVars, mapVars, Typed, LoginData, CharData,
              MapData, FromCharLink, MapLink, FaultCount
<1>3. CASE AnyLoginLinkUp
  <2>1. ToCharLink' /\ FromCharLink'
    BY <1>0, <1>3 DEF AnyLoginLinkUp, Typed, ToCharLink, FromCharLink
  <2>2. CharData'
    BY <1>3 DEF AnyLoginLinkUp, C!CharConnectsLogin, C!charData, Typed, CharData
  <2> QED BY <1>3, <2>1, <2>2, SameClients
          DEF AnyLoginLinkUp, loginVars, mapVars, Typed, LoginData, MapData, MapLink,
              FaultCount
<1>4. CASE AnyLoginLinkBreaks
  <2>1. ToCharLink' /\ FromCharLink'
    BY <1>0, <1>4 DEF AnyLoginLinkBreaks, Typed, ToCharLink, FromCharLink
  <2>2. CharData'
    BY <1>4 DEF AnyLoginLinkBreaks, C!CharLoginLost, C!charData, Typed, CharData
  <2>3. FaultCount'
    BY <1>4, FaultTyped DEF AnyLoginLinkBreaks
  <2> QED BY <1>4, <2>1, <2>2, <2>3, SameClients
          DEF AnyLoginLinkBreaks, loginVars, mapVars, Typed, LoginData, MapData, MapLink
<1> QED BY <1>1, <1>2, <1>3, <1>4

LEMMA AnyLoginNextTyped ==
    ASSUME Typed, [AnyLoginNext]_vars
    PROVE  Typed'
<1>1. CASE UNCHANGED vars
  BY <1>1, SameClients
     DEF vars, loginVars, charVars, mapVars, Typed, LoginData, CharData, MapData,
         ToCharLink, FromCharLink, MapLink, FaultCount
<1> QED BY <1>1, AnyLoginAnswersTyped, AnyLoginActsTyped, ClientStepTyped, ServerStepTyped,
           LinkStepTyped
        DEF AnyLoginNext

\* The same under any login-server: nothing it answers, admits or kicks puts what the
\* char-server and the map-server do not expect into their databases and packets.
THEOREM AnyLoginTypeOK == AnyLoginSpec => []TypeOK
<1>1. Typed /\ [AnyLoginNext]_vars => Typed'
  BY AnyLoginNextTyped
<1> QED BY InitTyped, <1>1, TypedIsTypeOK, PTL DEF AnyLoginSpec


-----------------------------------------------------------------------------
(***************************************************************************)
(* Nobody gets to the character list, or into the game, with a key that    *)
(* the login-server did not confirm: AuthedWasGranted, in every behaviour  *)
(* of the three servers in which the registries are prompt.                *)
(*                                                                         *)
(* A confirmation travels: from the login-server's answer to the session   *)
(* on the char-server, from there to the entry that lets the account into  *)
(* the map-server, to the data sent to it, to the node it is waiting in,   *)
(* to the character, and with the character's token back to the list.  The *)
(* invariant says that each stage holds confirmed keys only.  The node of  *)
(* a client that was not answered yet is the exception: nothing on the     *)
(* way to the map-server can make it a character.                          *)
(***************************************************************************)

Confirmed(t) == granted[t] = 1

\* The keys that can still be confirmed were not, and no two accounts share one.
Keys ==
    /\ \A a \in DOMAIN authDb : authDb[a] \in issued /\ granted[authDb[a]] = 0
    /\ \A a, b \in DOMAIN authDb : authDb[a] = authDb[b] => a = b
    /\ \A t \in Token : granted[t] \in {0, 1} /\ (granted[t] = 1 => t \in issued)

\* Packets that speak of confirmed keys only.
SureToChar  == {m \in L!ToCharMsg : (m.type = "authAck" /\ m.ok) => Confirmed(m.tok)}
SureToMap   == {m \in ToMapMsg : m.type = "authOk" => Confirmed(m.tok)}
SureFromMap == {m \in FromMapMsg : m.type = "charSelect" => Confirmed(m.tok)}

Links == /\ toChar[Self] \in Seq(SureToChar)
         /\ toMap \in Seq(SureToMap)
         /\ fromMap \in Seq(SureFromMap)

\* Packets that do not belong to the registries of account a.
QuietToChar(a)   == {m \in L!ToCharMsg : m.type = "reg2" => m.acc # a}
QuietFromChar(a) == {m \in L!FromCharMsg : m.type = "reg2" => m.acc # a}
QuietToMap(a)    == {m \in ToMapMsg : m.type = "regs" => m.acc # a}
QuietFromMap(a)  == {m \in FromMapMsg : m.type = "regReq" => m.acc # a}

Still(a) == /\ toChar[Self] \in Seq(QuietToChar(a))
            /\ fromChar[Self] \in Seq(QuietFromChar(a))
            /\ toMap \in Seq(QuietToMap(a))
            /\ fromMap \in Seq(QuietFromMap(a))

CharList == /\ \A t \in DOMAIN charSess : charSess[t].auth => Confirmed(t)
            /\ \A a \in DOMAIN charAuth : Confirmed(charAuth[a].tok)

Players == \A a \in DOMAIN pc : /\ Confirmed(pc[a].tok)
                                /\ pc[a].fd \in {NoToken, pc[a].tok}

\* A node is of a confirmed key, or nothing of its registries is there or comes.
SureNode(a) == \/ Confirmed(mapAuth[a].tok)
               \/ Still(a) /\ mapAuth[a].regs = {}

Waits == \A a \in DOMAIN mapAuth :
            M!LoggingIn(a) => mapAuth[a].fd = mapAuth[a].tok /\ SureNode(a)

Grants == Keys /\ Links /\ CharList /\ Players /\ Waits

LEMMA GrantsImply == Typed /\ Grants => AuthedWasGranted
BY DEF Grants, CharList, Players, Confirmed, AuthedWasGranted

-----------------------------------------------------------------------------
(* Packets that bear on neither: most steps take some off a link and put   *)
(* only such packets on it.                                                *)

PlainToChar   == {m \in L!ToCharMsg : m.type \notin {"authAck", "reg2"}}
PlainFromChar == {m \in L!FromCharMsg : m.type # "reg2"}
PlainToMap    == {m \in ToMapMsg : m.type \notin {"authOk", "regs"}}
PlainFromMap  == {m \in FromMapMsg : m.type \notin {"charSelect", "regReq"}}

Keeps(q, r, P) == \A S : q \in Seq(S) => r \in Seq(S \cup P)

CalmToChar   == Keeps(toChar[Self], toChar'[Self], PlainToChar)
CalmFromChar == Keeps(fromChar[Self], fromChar'[Self], PlainFromChar)
CalmToMap    == Keeps(toMap, toMap', PlainToMap)
CalmFromMap  == Keeps(fromMap, fromMap', PlainFromMap)

LEMMA KeepsSame == ASSUME NEW q, NEW P PROVE Keeps(q, q, P)
<1> SUFFICES ASSUME NEW S, q \in Seq(S) PROVE q \in Seq(S \cup P)
  BY DEF Keeps
<1> QED OBVIOUS

LEMMA KeepsTail ==
    ASSUME NEW q, NEW P, q # << >>
    PROVE  Keeps(q, Tail(q), P)
<1> SUFFICES ASSUME NEW S, q \in Seq(S) PROVE Tail(q) \in Seq(S \cup P)
  BY DEF Keeps
<1>1. Tail(q) \in Seq(S)
  OBVIOUS
<1> QED BY <1>1

LEMMA KeepsJoin ==
    ASSUME NEW q, NEW P, NEW ms \in Seq(P)
    PROVE  Keeps(q, q \o ms, P)
<1> SUFFICES ASSUME NEW S, q \in Seq(S) PROVE q \o ms \in Seq(S \cup P)
  BY DEF Keeps
<1>1. q \in Seq(S \cup P) /\ ms \in Seq(S \cup P)
  OBVIOUS
<1> QED BY <1>1

LEMMA KeepsAppend ==
    ASSUME NEW q, NEW P, NEW m \in P
    PROVE  Keeps(q, Append(q, m), P)
<1> SUFFICES ASSUME NEW S, q \in Seq(S) PROVE Append(q, m) \in Seq(S \cup P)
  BY DEF Keeps
<1>1. q \in Seq(S \cup P)
  OBVIOUS
<1> QED BY <1>1

LEMMA KeepsOnly ==
    ASSUME NEW q, NEW P, NEW ms \in Seq(P)
    PROVE  Keeps(q, ms, P)
<1> SUFFICES ASSUME NEW S PROVE ms \in Seq(S \cup P)
  BY DEF Keeps
<1> QED OBVIOUS

LEMMA KeepsWithin ==
    ASSUME NEW q, NEW r, NEW P, Keeps(q, r, P), NEW S, q \in Seq(S), P \subseteq S
    PROVE  r \in Seq(S)
<1>1. S \cup P = S
  OBVIOUS
<1> QED BY <1>1 DEF Keeps

LEMMA CalmLinks ==
    ASSUME Links, UNCHANGED granted
    PROVE  /\ CalmToChar => (toChar[Self] \in Seq(SureToChar))'
           /\ CalmToMap => (toMap \in Seq(SureToMap))'
           /\ CalmFromMap => (fromMap \in Seq(SureFromMap))'
<1>1. SureToChar' = SureToChar /\ SureToMap' = SureToMap /\ SureFromMap' = SureFromMap
  BY DEF SureToChar, SureToMap, SureFromMap, Confirmed
<1>2. /\ PlainToChar \subseteq SureToChar
      /\ PlainToMap \subseteq SureToMap
      /\ PlainFromMap \subseteq SureFromMap
  BY DEF PlainToChar, PlainToMap, PlainFromMap, SureToChar, SureToMap, SureFromMap
<1>3. ASSUME CalmToChar PROVE toChar'[Self] \in Seq(SureToChar)
  BY <1>2, <1>3, KeepsWithin DEF CalmToChar, Links
<1>4. ASSUME CalmToMap PROVE toMap' \in Seq(SureToMap)
  BY <1>2, <1>4, KeepsWithin DEF CalmToMap, Links
<1>5. ASSUME CalmFromMap PROVE fromMap' \in Seq(SureFromMap)
  BY <1>2, <1>5, KeepsWithin DEF CalmFromMap, Links
<1> QED BY <1>1, <1>3, <1>4, <1>5

LEMMA CalmQuiet ==
    ASSUME NEW a, Still(a)
    PROVE  /\ CalmToChar => toChar'[Self] \in Seq(QuietToChar(a))
           /\ CalmFromChar => fromChar'[Self] \in Seq(QuietFromChar(a))
           /\ CalmToMap => toMap' \in Seq(QuietToMap(a))
           /\ CalmFromMap => fromMap' \in Seq(QuietFromMap(a))
<1>1. /\ PlainToChar \subseteq QuietToChar(a)
      /\ PlainFromChar \subseteq QuietFromChar(a)
      /\ PlainToMap \subseteq QuietToMap(a)
      /\ PlainFromMap \subseteq QuietFromMap(a)
  BY DEF PlainToChar, PlainFromChar, PlainToMap, PlainFromMap,
         QuietToChar, QuietFromChar, QuietToMap, QuietFromMap
<1>2. ASSUME CalmToChar PROVE toChar'[Self] \in Seq(QuietToChar(a))
  BY <1>1, <1>2, KeepsWithin DEF CalmToChar, Still
<1>3. ASSUME CalmFromChar PROVE fromChar'[Self] \in Seq(QuietFromChar(a))
  BY <1>1, <1>3, KeepsWithin DEF CalmFromChar, Still
<1>4. ASSUME CalmToMap PROVE toMap' \in Seq(QuietToMap(a))
  BY <1>1, <1>4, KeepsWithin DEF CalmToMap, Still
<1>5. ASSUME CalmFromMap PROVE fromMap' \in Seq(QuietFromMap(a))
  BY <1>1, <1>5, KeepsWithin DEF CalmFromMap, Still
<1> QED BY <1>2, <1>3, <1>4, <1>5

\* What the servers put on their links in most steps.
LEMMA CalmSame ==
    /\ UNCHANGED toChar => CalmToChar
    /\ UNCHANGED fromChar => CalmFromChar
    /\ UNCHANGED toMap => CalmToMap
    /\ UNCHANGED fromMap => CalmFromMap
BY KeepsSame DEF CalmToChar, CalmFromChar, CalmToMap, CalmFromMap

LEMMA CalmToLogin ==
    ASSUME Typed, NEW ms \in Seq(PlainFromChar), C!ToLogin(ms)
    PROVE  CalmFromChar
<1>1. CASE fromChar' = fromChar
  BY <1>1, CalmSame
<1>2. CASE fromChar' = [fromChar EXCEPT ![Self] = @ \o ms]
  <2>1. fromChar'[Self] = fromChar[Self] \o ms
    BY <1>2, SelfAssumption DEF SelfAssumption, Typed, FromCharLink
  <2> QED BY <2>1, KeepsJoin DEF CalmFromChar
<1> QED BY <1>1, <1>2 DEF C!ToLogin

LEMMA CalmToMapServer ==
    ASSUME NEW ms \in Seq(PlainToMap), C!ToMapServer(ms)
    PROVE  CalmToMap
BY KeepsJoin, KeepsSame DEF C!ToMapServer, CalmToMap

LEMMA CalmSend ==
    ASSUME NEW ms \in Seq(PlainFromMap), M!Send(ms)
    PROVE  CalmFromMap
BY KeepsJoin, KeepsSame DEF M!Send, CalmFromMap

LEMMA CalmFromLogin ==
    ASSUME Typed, NEW type, C!FromLogin(type)
    PROVE  CalmToChar
<1>1. toChar'[Self] = Tail(toChar[Self]) /\ toChar[Self] # << >>
  BY SelfAssumption DEF SelfAssumption, Typed, ToCharLink, C!FromLogin
<1> QED BY <1>1, KeepsTail DEF CalmToChar

LEMMA HushFrom ==
    /\ \A type : C!FromMap(type) => CalmFromMap
    /\ \A type : M!FromCharServer(type) => CalmToMap
BY KeepsTail DEF C!FromMap, M!FromCharServer, CalmFromMap, CalmToMap

LEMMA PlainSent ==
    ASSUME NEW a \in Account
    PROVE  /\ << >> \in Seq(PlainFromChar) /\ << >> \in Seq(PlainToMap)
           /\ << >> \in Seq(PlainFromMap)
           /\ <<C!OnlineMsg(a)>> \in Seq(PlainFromChar)
           /\ <<C!OfflineMsg(a)>> \in Seq(PlainFromChar)
           /\ <<C!DisconnectMsg(a)>> \in Seq(PlainToMap)
           /\ \A db, c : C!OfflineNotice(db, c, a) \in Seq(PlainFromChar)
           /\ \A db, s : C!OnlineConflict(db, s, a) \in Seq(PlainToMap)
<1>1. C!OnlineMsg(a) \in PlainFromChar /\ C!OfflineMsg(a) \in PlainFromChar
  BY DEF C!OnlineMsg, C!OfflineMsg, L!FromCharMsg, PlainFromChar
<1>2. C!DisconnectMsg(a) \in PlainToMap
  BY DEF C!DisconnectMsg, ToMapMsg, PlainToMap
<1> QED BY <1>1, <1>2 DEF C!OfflineNotice, C!OnlineConflict

LEMMA PlainAccounts ==
    ASSUME Typed
    PROVE  <<C!AccountsMsg>> \in Seq(PlainFromChar)
<1> DEFINE S == {a \in DOMAIN onlineChar : onlineChar[a].server = C!MapServerId}
<1>1. S \in SUBSET Account
  BY DEF Typed, CharData, IsIdb
<1>2. C!SetToSeq(S) \in AccountList
  BY <1>1, AccountListAssumption DEF AccountListAssumption
<1>3. C!AccountsMsg = [type |-> "accounts", ids |-> C!SetToSeq(S)]
  BY DEF C!AccountsMsg
<1> HIDE DEF S
<1>4. C!AccountsMsg \in PlainFromChar
  BY <1>2, <1>3 DEF L!FromCharMsg, PlainFromChar
<1> QED BY <1>4

LEMMA PlainFromMapServer ==
    ASSUME NEW a \in Account, NEW c \in Char
    PROVE  /\ M!CharOfflineMsg(a, c) \in PlainFromMap
           /\ \A v \in Nat, final \in BOOLEAN : M!SaveMsg(a, c, v, final) \in PlainFromMap
           /\ \A t \in Token : [type |-> "auth", acc |-> a, char |-> c, tok |-> t]
                                   \in PlainFromMap
BY DEF M!CharOfflineMsg, M!SaveMsg, FromMapMsg, PlainFromMap

-----------------------------------------------------------------------------
(* What a step of each server has to keep.                                 *)

StillKept == \A a : Still(a) => Still(a)'

Grow == \A t \in Token : Confirmed(t) => Confirmed(t)'

LEMMA TokensTyped ==
    ASSUME Typed
    PROVE  /\ DOMAIN charSess \subseteq Token
           /\ \A a \in DOMAIN charAuth : charAuth[a].tok \in Token
           /\ \A a \in DOMAIN pc : pc[a].tok \in Token
           /\ \A a \in DOMAIN mapAuth : mapAuth[a].tok \in Token
<1>1. DOMAIN charSess \subseteq Token
  BY DEF Typed, CharData, IsIdb
<1>2. ASSUME NEW a \in DOMAIN charAuth PROVE charAuth[a].tok \in Token
  <2>1. charAuth[a] \in CharAuthNode
    BY EntryTyped DEF Typed, CharData
  <2> QED BY <2>1 DEF CharAuthNode
<1>3. ASSUME NEW a \in DOMAIN pc PROVE pc[a].tok \in Token
  <2>1. pc[a] \in Player
    BY EntryTyped DEF Typed, MapData
  <2> QED BY <2>1 DEF Player
<1>4. ASSUME NEW a \in DOMAIN mapAuth PROVE mapAuth[a].tok \in Token
  <2>1. mapAuth[a] \in M!AuthNode
    BY EntryTyped DEF Typed, MapData
  <2> QED BY <2>1 DEF M!AuthNode
<1> QED BY <1>1, <1>2, <1>3, <1>4

LEMMA SureGrows ==
    ASSUME Grow
    PROVE  SureToChar \subseteq SureToChar' /\ SureToMap \subseteq SureToMap'
           /\ SureFromMap \subseteq SureFromMap'
<1>1. ASSUME NEW m \in SureToChar PROVE m \in SureToChar'
  <2>1. m \in L!ToCharMsg /\ ((m.type = "authAck" /\ m.ok) => Confirmed(m.tok))
    BY DEF SureToChar
  <2>2. m.type = "authAck" => m.tok \in Token
    BY <2>1 DEF L!ToCharMsg
  <2> QED BY <2>1, <2>2 DEF Grow, SureToChar
<1>2. ASSUME NEW m \in SureToMap PROVE m \in SureToMap'
  <2>1. m \in ToMapMsg /\ (m.type = "authOk" => Confirmed(m.tok))
    BY DEF SureToMap
  <2>2. m.type = "authOk" => m.tok \in Token
    BY <2>1 DEF ToMapMsg
  <2> QED BY <2>1, <2>2 DEF Grow, SureToMap
<1>3. ASSUME NEW m \in SureFromMap PROVE m \in SureFromMap'
  <2>1. m \in FromMapMsg /\ (m.type = "charSelect" => Confirmed(m.tok))
    BY DEF SureFromMap
  <2>2. m.type = "charSelect" => m.tok \in Token
    BY <2>1 DEF FromMapMsg
  <2> QED BY <2>1, <2>2 DEF Grow, SureFromMap
<1> QED BY <1>1, <1>2, <1>3

LEMMA LoginSideGrants ==
    ASSUME Typed, Grants, LoginStep, Grow, Keys', StillKept,
           (toChar[Self] \in Seq(SureToChar))'
    PROVE  Grants'
<1>1. Links'
  BY SureGrows DEF Grants, Links, LoginStep
<1>2. CharList'
  BY TokensTyped DEF Grants, CharList, Grow, LoginStep, charVars
<1>3. Players'
  BY TokensTyped DEF Grants, Players, Grow, LoginStep, mapVars
<1>4. Waits'
  BY TokensTyped
     DEF Grants, Waits, SureNode, StillKept, Grow, LoginStep, mapVars, M!LoggingIn
<1> QED BY <1>1, <1>2, <1>3, <1>4 DEF Grants

LEMMA CharSideGrants ==
    ASSUME Grants, CharStep, Links', CharList', StillKept
    PROVE  Grants'
<1>1. Keys'
  BY DEF Grants, Keys, CharStep, loginVars
<1>2. Players'
  BY DEF Grants, Players, Confirmed, CharStep, loginVars, mapVars
<1>3. Waits'
  BY DEF Grants, Waits, SureNode, StillKept, Confirmed, CharStep, loginVars, mapVars,
         M!LoggingIn
<1> QED BY <1>1, <1>2, <1>3 DEF Grants

LEMMA MapSideGrants ==
    ASSUME Grants, MapStep, Links', Players', Waits'
    PROVE  Grants'
<1>1. Keys' /\ CharList'
  BY DEF Grants, Keys, CharList, Confirmed, MapStep, loginVars, charVars
<1> QED BY <1>1 DEF Grants

\* A step of the char-server that neither confirms nor looks for a registry.
LEMMA CalmCharStep ==
    ASSUME Grants, CharStep, CharList', CalmToChar, CalmFromChar, CalmToMap, CalmFromMap
    PROVE  Grants'
<1>1. Links'
  BY CalmLinks DEF Grants, Links, CharStep, loginVars
<1>2. StillKept
  BY CalmQuiet DEF StillKept, Still
<1> QED BY <1>1, <1>2, CharSideGrants

\* The same of the map-server: its nodes and players are of the ones it had.
LEMMA CalmMapStep ==
    ASSUME Grants, MapStep, CalmToMap, CalmFromMap, Players',
           \A a \in DOMAIN mapAuth' : mapAuth'[a].state = "login" =>
               a \in DOMAIN mapAuth /\ mapAuth'[a] = mapAuth[a]
    PROVE  Grants'
<1>1. Links' /\ StillKept /\ UNCHANGED granted
  <2>1. UNCHANGED <<granted, toChar, fromChar>>
    BY DEF MapStep, loginVars
  <2>2. Links'
    BY <2>1, CalmLinks, CalmSame DEF Grants, Links
  <2>3. StillKept
    BY <2>1, CalmQuiet, CalmSame DEF StillKept, Still
  <2> QED BY <2>1, <2>2, <2>3
<1>2. Waits'
  BY <1>1 DEF Grants, Waits, SureNode, StillKept, Confirmed, M!LoggingIn
<1> QED BY <1>1, <1>2, MapSideGrants

-----------------------------------------------------------------------------
(* The login-server.                                                       *)

LEMMA LogInGrants ==
    ASSUME Typed, Grants, NEW a \in Account, LogIn(a)
    PROVE  Grants'
<1>1. LoginStep /\ UNCHANGED <<granted, fromChar>>
  BY DEF LogIn, L!LoginRefused, L!LoginNoCharServer, L!LoginAccepted, L!loginHistory
<1>2. CalmToChar
  <2>1. CASE L!LoginRefused(a)
    <3> DEFINE kick == [type |-> "kick", acc |-> a]
    <3>1. kick \in PlainToChar
      BY DEF L!ToCharMsg, PlainToChar
    <3> HIDE DEF kick
    <3>2. toChar'[Self] = IF server[Self] THEN Append(toChar[Self], kick) ELSE toChar[Self]
      BY <2>1, SelfAssumption DEF SelfAssumption, L!LoginRefused, L!SendAll, kick
    <3> QED BY <3>1, <3>2, KeepsAppend, KeepsSame DEF CalmToChar
  <2>2. CASE L!LoginNoCharServer(a) \/ \E t \in Token : L!LoginAccepted(a, t)
    BY <2>2, CalmSame DEF L!LoginNoCharServer, L!LoginAccepted
  <2> QED BY <2>1, <2>2 DEF LogIn
<1>3. (toChar[Self] \in Seq(SureToChar))'
  BY <1>1, <1>2, CalmLinks DEF Grants
<1>4. StillKept
  BY <1>1, <1>2, CalmQuiet, CalmSame DEF StillKept, Still, LoginStep
<1>5. Keys'
  <2>1. CASE L!LoginRefused(a)
    BY <2>1 DEF Grants, Keys, L!LoginRefused, L!loginHistory
  <2>2. CASE L!LoginNoCharServer(a)
    <3>1. /\ authDb' = IdbRemove(authDb, a)
          /\ UNCHANGED <<issued, granted>>
      BY <2>2, SameRemove DEF L!LoginNoCharServer, L!loginHistory
    <3> QED BY <3>1 DEF Grants, Keys, IdbRemove
  <2>3. ASSUME NEW t \in Token, L!LoginAccepted(a, t) PROVE Keys'
    <3>1. /\ authDb' = IdbPut(authDb, a, t)
          /\ issued' = issued \cup {t}
          /\ t \notin issued
          /\ UNCHANGED granted
      BY <2>3, SamePut DEF L!LoginAccepted
    <3>2. granted[t] = 0
      BY <3>1 DEF Grants, Keys
    <3> QED BY <3>1, <3>2 DEF Grants, Keys, IdbPut
  <2> QED BY <2>1, <2>2, <2>3 DEF LogIn
<1>6. Grow
  BY <1>1 DEF Grow, Confirmed
<1> QED BY <1>1, <1>3, <1>4, <1>5, <1>6, LoginSideGrants

LEMMA LoginTimersGrants ==
    ASSUME Typed, Grants, LoginTimers
    PROVE  Grants'
<1>1. LoginStep /\ UNCHANGED <<issued, granted, toChar, fromChar>>
  BY DEF LoginTimers, L!WaitingDisconnect, L!LoginOnlineDataCleanup, L!loginHistory
<1>2. authDb' = authDb \/ \E a \in Account : authDb' = IdbRemove(authDb, a)
  BY SameRemove DEF LoginTimers, L!WaitingDisconnect, L!LoginOnlineDataCleanup
<1>3. Keys'
  <2>1. \A a \in DOMAIN authDb' : a \in DOMAIN authDb /\ authDb'[a] = authDb[a]
    BY <1>2 DEF IdbRemove
  <2> QED BY <1>1, <2>1 DEF Grants, Keys
<1>4. Grow /\ StillKept /\ (toChar[Self] \in Seq(SureToChar))'
  BY <1>1 DEF Grow, Confirmed, StillKept, Still, Grants, Links, SureToChar, LoginStep
<1> QED BY <1>1, <1>3, <1>4, LoginSideGrants

\* 0x2712: the answer to a key is a yes only when the key is confirmed by it.
LEMMA ParseAuthGrants ==
    ASSUME Typed, Grants, LoginStep, L!FromCharParseAuth(Self)
    PROVE  Grants'
<1> DEFINE m   == Head(fromChar[Self])
           ok  == m.acc \in DOMAIN authDb /\ authDb[m.acc] = m.tok
           ack == [type |-> "authAck", acc |-> m.acc, tok |-> m.tok, req |-> m.req,
                   ok |-> ok]
<1>1. /\ toChar' = [toChar EXCEPT ![Self] = Append(@, ack)]
      /\ authDb' = IF ok THEN IdbRemove(authDb, m.acc) ELSE authDb
      /\ granted' = IF ok THEN [granted EXCEPT ![m.tok] = @ + 1] ELSE granted
      /\ fromChar' = [fromChar EXCEPT ![Self] = Tail(@)]
      /\ UNCHANGED issued
      /\ fromChar[Self] # << >> /\ m.type = "auth"
  BY SameRemove DEF L!FromCharParseAuth, L!Reply, L!Skip, L!Receives
<1>2. /\ toChar[Self] \in Seq(L!ToCharMsg) /\ fromChar[Self] \in Seq(L!FromCharMsg)
      /\ Self \in DOMAIN toChar /\ Self \in DOMAIN fromChar
  BY SelfAssumption DEF SelfAssumption, Typed, ToCharLink, FromCharLink
<1>3. m.acc \in Account /\ m.tok \in Token /\ m.req \in Token
  <2>1. m \in L!FromCharMsg
    BY <1>1, <1>2
  <2> HIDE DEF m
  <2> QED BY <1>1, <2>1 DEF L!FromCharMsg
<1> HIDE DEF m
<1>4. granted \in [Token -> Nat]
  BY DEF Typed, LoginData
<1>5. ok => /\ granted[m.tok] = 0 /\ m.tok \in issued
            /\ granted'[m.tok] = 1
            /\ \A t \in Token \ {m.tok} : granted'[t] = granted[t]
  BY <1>1, <1>3, <1>4 DEF Grants, Keys
<1>6. ~ok => granted' = granted /\ authDb' = authDb
  BY <1>1
<1>7. Grow
  BY <1>5, <1>6 DEF Grow, Confirmed
<1>8. Keys'
  <2>1. CASE ok
    <3>1. \A b \in DOMAIN authDb' : b \in DOMAIN authDb /\ b # m.acc
                                    /\ authDb'[b] = authDb[b]
      BY <1>1, <2>1 DEF IdbRemove
    <3>2. \A b \in DOMAIN authDb' : authDb'[b] # m.tok /\ authDb'[b] \in Token
      <4>1. \A b \in DOMAIN authDb : authDb[b] \in Token
        BY DEF Typed, LoginData, IsIdb
      <4> QED BY <2>1, <3>1, <4>1 DEF Grants, Keys
    <3> QED BY <1>1, <1>5, <2>1, <3>1, <3>2 DEF Grants, Keys
  <2>2. CASE ~ok
    BY <1>1, <1>6, <2>2 DEF Grants, Keys
  <2> QED BY <2>1, <2>2
<1>9. ack \in L!ToCharMsg /\ ack.type = "authAck" /\ ack.tok = m.tok
      /\ (ack.ok => granted'[ack.tok] = 1)
  <2>1. ok \in BOOLEAN
    BY Zenon
  <2>2. ok => granted'[m.tok] = 1
    BY <1>5
  <2> HIDE DEF ok
  <2> QED BY <1>3, <2>1, <2>2 DEF L!ToCharMsg
<1>10. toChar'[Self] = Append(toChar[Self], ack)
  BY <1>1, <1>2
<1>11. (toChar[Self] \in Seq(SureToChar))'
  <2>1. ack \in SureToChar'
    <3> HIDE DEF ack
    <3> QED BY <1>9 DEF SureToChar, Confirmed
  <2>2. toChar[Self] \in Seq(SureToChar')
    <3>1. toChar[Self] \in Seq(SureToChar) /\ SureToChar \subseteq SureToChar'
      BY <1>7, SureGrows DEF Grants, Links
    <3> QED BY <3>1
  <2> HIDE DEF ack
  <2> QED BY <1>10, <2>1, <2>2
<1>12. StillKept
  <2> SUFFICES ASSUME NEW a, Still(a) PROVE Still(a)'
    BY DEF StillKept
  <2>1. ack \in QuietToChar(a)
    BY <1>9 DEF QuietToChar
  <2> HIDE DEF ack
  <2>2. toChar'[Self] \in Seq(QuietToChar(a))
    BY <1>10, <2>1 DEF Still
  <2>3. fromChar'[Self] = Tail(fromChar[Self])
    BY <1>1, <1>2
  <2>4. fromChar'[Self] \in Seq(QuietFromChar(a))
    BY <1>1, <2>3 DEF Still
  <2> QED BY <2>2, <2>4 DEF Still, LoginStep
<1> QED BY <1>7, <1>8, <1>11, <1>12, LoginSideGrants

\* 0x272e: the registry is sent to the one that asked for it.
LEMMA ParseReg2Grants ==
    ASSUME Typed, Grants, LoginStep, L!FromCharParseRequestAccountReg2(Self)
    PROVE  Grants'
<1> DEFINE m == Head(fromChar[Self])
<1>1. /\ toChar' = [toChar EXCEPT ![Self] = Append(@, m)]
      /\ fromChar' = [fromChar EXCEPT ![Self] = Tail(@)]
      /\ UNCHANGED <<authDb, issued, granted>>
      /\ fromChar[Self] # << >> /\ m.type = "reg2"
  BY DEF L!FromCharParseRequestAccountReg2, L!Reply, L!Skip, L!Receives, L!loginHistory
<1>2. /\ toChar[Self] \in Seq(L!ToCharMsg) /\ fromChar[Self] \in Seq(L!FromCharMsg)
      /\ Self \in DOMAIN toChar /\ Self \in DOMAIN fromChar
  BY SelfAssumption DEF SelfAssumption, Typed, ToCharLink, FromCharLink
<1>3. m \in L!ToCharMsg
  <2>1. m \in L!FromCharMsg
    BY <1>1, <1>2
  <2> HIDE DEF m
  <2> QED BY <1>1, <2>1 DEF L!FromCharMsg, L!ToCharMsg
<1>4. toChar'[Self] = Append(toChar[Self], m) /\ fromChar'[Self] = Tail(fromChar[Self])
  BY <1>1, <1>2
<1>5. Keys' /\ Grow
  BY <1>1 DEF Grants, Keys, Grow, Confirmed
<1>6. (toChar[Self] \in Seq(SureToChar))'
  <2>1. SureToChar' = SureToChar
    BY <1>1 DEF SureToChar, Confirmed
  <2> HIDE DEF m
  <2>2. m \in SureToChar
    BY <1>1, <1>3 DEF SureToChar
  <2> QED BY <1>4, <2>1, <2>2 DEF Grants, Links
<1>7. StillKept
  <2> SUFFICES ASSUME NEW a, Still(a) PROVE Still(a)'
    BY DEF StillKept
  <2>1. m \in QuietFromChar(a) /\ Tail(fromChar[Self]) \in Seq(QuietFromChar(a))
    BY <1>1 DEF Still
  <2> HIDE DEF m
  <2>2. m \in QuietToChar(a)
    BY <1>1, <1>3, <2>1 DEF QuietFromChar, QuietToChar
  <2>3. toChar'[Self] \in Seq(QuietToChar(a)) /\ fromChar'[Self] \in Seq(QuietFromChar(a))
    BY <1>4, <2>1, <2>2 DEF Still
  <2> QED BY <2>3 DEF Still, LoginStep
<1> QED BY <1>5, <1>6, <1>7, LoginSideGrants

LEMMA LoginHandlesGrants ==
    ASSUME Typed, Grants, LoginHandles
    PROVE  Grants'
<1>1. LoginStep
  BY DEF LoginHandles
<1>2. CASE L!FromCharParseAuth(Self)
  BY <1>1, <1>2, ParseAuthGrants
<1>3. CASE L!FromCharParseRequestAccountReg2(Self)
  BY <1>1, <1>3, ParseReg2Grants
<1>4. CASE \/ L!FromCharParseAccountOnline(Self)  \/ L!FromCharParseAccountOffline(Self)
           \/ L!FromCharParseWrongPincode(Self)   \/ L!FromCharParseOnlineAccounts(Self)
           \/ L!FromCharParseAllOffline(Self)
  <2>1. /\ UNCHANGED <<authDb, issued, granted, toChar>>
        /\ fromChar[Self] # << >>
        /\ fromChar' = [fromChar EXCEPT ![Self] = Tail(@)]
    BY <1>4 DEF L!FromCharParseAccountOnline, L!FromCharParseAccountOffline,
                L!FromCharParseWrongPincode, L!FromCharParseOnlineAccounts,
                L!FromCharParseAllOffline, L!Receives, L!Skip, L!loginHistory
  <2>2. fromChar'[Self] = Tail(fromChar[Self])
    BY <2>1, SelfAssumption DEF SelfAssumption, Typed, FromCharLink
  <2>3. CalmFromChar
    BY <2>1, <2>2, KeepsTail DEF CalmFromChar
  <2>4. Keys' /\ Grow
    BY <2>1 DEF Grants, Keys, Grow, Confirmed
  <2>5. (toChar[Self] \in Seq(SureToChar))'
    BY <2>1, CalmSame, CalmLinks DEF Grants
  <2>6. StillKept
    BY <1>1, <2>1, <2>3, CalmQuiet, CalmSame DEF StillKept, Still, LoginStep
  <2> QED BY <1>1, <2>4, <2>5, <2>6, LoginSideGrants
<1> QED BY <1>2, <1>3, <1>4 DEF LoginHandles, L!FromChar

-----------------------------------------------------------------------------
(* The char-server.                                                        *)

SureSessions == \A u \in DOMAIN charSess' : charSess'[u].auth => Confirmed(u)
SureEntries  == \A b \in DOMAIN charAuth' : Confirmed(charAuth'[b].tok)

LEMMA CharListKept ==
    ASSUME Grants, CharStep
    PROVE  /\ SureSessions /\ SureEntries => CharList'
           /\ UNCHANGED charSess => SureSessions
           /\ UNCHANGED charAuth => SureEntries
           /\ \A a : charAuth' = C!IdbRemove(charAuth, a) => SureEntries
           /\ \A a, e : charAuth' = C!IdbPut(charAuth, a, e) /\ Confirmed(e.tok)
                           => SureEntries
<1>1. SureSessions /\ SureEntries => CharList'
  BY DEF CharStep, loginVars, CharList, SureSessions, SureEntries, Confirmed
<1>2. UNCHANGED charSess => SureSessions
  BY DEF Grants, CharList, SureSessions
<1>3. UNCHANGED charAuth => SureEntries
  BY DEF Grants, CharList, SureEntries
<1>4. ASSUME NEW a, charAuth' = C!IdbRemove(charAuth, a) PROVE SureEntries
  BY <1>4 DEF Grants, CharList, SureEntries, C!IdbRemove
<1>5. ASSUME NEW a, NEW e, charAuth' = C!IdbPut(charAuth, a, e), Confirmed(e.tok)
      PROVE  SureEntries
  BY <1>5 DEF Grants, CharList, SureEntries, C!IdbPut
<1> QED BY <1>1, <1>2, <1>3, <1>4, <1>5

\* A session that is put at its end, or gets another, is no more authed than before.
LEMMA SessionsKept ==
    ASSUME Grants
    PROVE  /\ \A t : charSess' = [charSess EXCEPT ![t].eof = TRUE] => SureSessions
           /\ \A t : charSess' = C!IdbRemove(charSess, t) => SureSessions
<1>1. ASSUME NEW t, charSess' = [charSess EXCEPT ![t].eof = TRUE] PROVE SureSessions
  <2>1. ASSUME NEW u \in DOMAIN charSess', charSess'[u].auth
        PROVE  u \in DOMAIN charSess /\ charSess[u].auth
    <3>1. CASE u = t
      <4> DEFINE e == [charSess[t] EXCEPT !.eof = TRUE]
      <4>1. charSess'[u] = e /\ u \in DOMAIN charSess
        BY <1>1, <3>1
      <4>2. e.auth = charSess[t].auth
        OBVIOUS
      <4> QED BY <2>1, <3>1, <4>1, <4>2
    <3>2. CASE u # t
      BY <1>1, <2>1, <3>2
    <3> QED BY <3>1, <3>2
  <2> QED BY <2>1 DEF Grants, CharList, SureSessions
<1>2. ASSUME NEW t, charSess' = C!IdbRemove(charSess, t) PROVE SureSessions
  BY <1>2 DEF Grants, CharList, SureSessions, C!IdbRemove
<1> QED BY <1>1, <1>2

\* char_auth_ok for a session with a confirmed key.
LEMMA AuthOkGrants ==
    ASSUME Typed, NEW t \in Token, NEW a \in Account, NEW sess,
           IsIdb(sess, Token, CharSession), C!AuthOk(t, a, sess), Confirmed(t),
           \A u \in DOMAIN sess : sess[u].auth => Confirmed(u)
    PROVE  SureSessions /\ CalmFromChar /\ CalmToMap
<1>1. /\ charSess' = sess \/ charSess' = [sess EXCEPT ![t].auth = TRUE]
      /\ C!ToLogin(<< >>) \/ C!ToLogin(<<C!OnlineMsg(a)>>)
      /\ C!ToMapServer(<< >>) \/ C!ToMapServer(<<C!DisconnectMsg(a)>>)
  BY DEF C!AuthOk
<1>2. SureSessions
  <2>1. CASE charSess' = sess
    BY <2>1 DEF SureSessions
  <2>2. CASE charSess' = [sess EXCEPT ![t].auth = TRUE]
    BY <2>2 DEF SureSessions
  <2> QED BY <1>1, <2>1, <2>2
<1> QED BY <1>1, <1>2, PlainSent, CalmToLogin, CalmToMapServer

LEMMA CharConnectGrants ==
    ASSUME Typed, Grants, CharStep, NEW t \in Token, NEW a \in Account, C!CharConnect(t, a)
    PROVE  Grants'
<1> DEFINE new  == [acc |-> a, auth |-> FALSE, eof |-> FALSE]
           sess == C!IdbPut(charSess, t, new)
           ask  == [type |-> "auth", acc |-> a, tok |-> t, req |-> t]
<1>1. IsIdb(sess, Token, CharSession)
  <2>1. IsIdb(charSess, Token, CharSession) /\ new \in CharSession
    BY DEF Typed, CharData, CharSession
  <2> HIDE DEF new
  <2> QED BY <2>1, SamePut, PutTyped
<1>2. \A u \in DOMAIN sess : sess[u].auth => Confirmed(u)
  <2>1. \A u \in DOMAIN sess : \/ u = t /\ sess[u] = new
                               \/ u \in DOMAIN charSess /\ sess[u] = charSess[u]
    <3> HIDE DEF new
    <3> QED BY DEF C!IdbPut
  <2> HIDE DEF sess
  <2> QED BY <2>1 DEF Grants, CharList
<1>3. UNCHANGED <<toChar, fromMap>>
  BY DEF C!CharConnect
<1> HIDE DEF sess
<1>4. CASE /\ a \in DOMAIN charAuth /\ charAuth[a].tok = t
           /\ charAuth' = C!IdbRemove(charAuth, a)
           /\ C!AuthOk(t, a, sess)
  <2>1. Confirmed(t)
    BY <1>4 DEF Grants, CharList
  <2>2. SureSessions /\ CalmFromChar /\ CalmToMap
    BY <1>1, <1>2, <1>4, <2>1, AuthOkGrants
  <2>3. CharList'
    BY <1>4, <2>2, CharListKept
  <2> QED BY <1>3, <2>2, <2>3, CalmSame, CalmCharStep
<1>5. CASE /\ charSess' = sess
           /\ C!ToLogin(<<ask>>)
           /\ UNCHANGED <<charAuth, onlineChar, toMap>>
  <2>1. SureSessions
    BY <1>2, <1>5 DEF SureSessions
  <2>2. ask \in PlainFromChar
    BY DEF PlainFromChar, L!FromCharMsg
  <2> HIDE DEF ask
  <2>3. <<ask>> \in Seq(PlainFromChar)
    BY <2>2
  <2>4. CalmFromChar
    BY <1>5, <2>3, CalmToLogin
  <2>5. CharList'
    BY <1>5, <2>1, CharListKept
  <2> QED BY <1>3, <1>5, <2>4, <2>5, CalmSame, CalmCharStep
<1> QED BY <1>4, <1>5 DEF C!CharConnect, sess

LEMMA CharSelectGrants ==
    ASSUME Typed, Grants, CharStep, NEW t \in Token, NEW c \in Char, C!CharSelect(t, c)
    PROVE  Grants'
<1> DEFINE a == charSess[t].acc
           e == [char |-> c, tok |-> t]
<1>1. /\ t \in DOMAIN charSess /\ charSess[t].auth
      /\ C!ToMapServer(C!OnlineConflict(onlineChar, C!UnknownMapServer, a))
      /\ C!ToLogin(<<C!OnlineMsg(a)>>)
      /\ charAuth' = C!IdbPut(charAuth, a, e)
      /\ UNCHANGED <<charSess, toChar, fromMap>>
  BY DEF C!CharSelect
<1>2. a \in Account
  <2>1. charSess[t] \in CharSession
    BY <1>1, EntryTyped DEF Typed, CharData
  <2> QED BY <2>1 DEF CharSession
<1>3. Confirmed(e.tok)
  BY <1>1 DEF Grants, CharList
<1> HIDE DEF a, e
<1>4. CharList'
  BY <1>1, <1>3, CharListKept
<1>5. CalmFromChar /\ CalmToMap
  BY <1>1, <1>2, PlainSent, CalmToLogin, CalmToMapServer
<1> QED BY <1>1, <1>4, <1>5, CalmSame, CalmCharStep

LEMMA CharEofGrants ==
    ASSUME Typed, Grants, CharStep, NEW t \in Token, C!CharClientEof(t) \/ C!CharParseEof(t)
    PROVE  Grants'
<1>1. CASE C!CharClientEof(t)
  <2>1. /\ charSess' = [charSess EXCEPT ![t].eof = TRUE]
        /\ UNCHANGED <<charAuth, toChar, fromChar, toMap, fromMap>>
    BY <1>1 DEF C!CharClientEof
  <2>2. CharList'
    BY <2>1, SessionsKept, CharListKept
  <2> QED BY <2>1, <2>2, CalmSame, CalmCharStep
<1>2. CASE C!CharParseEof(t)
  <2>1. /\ charSess' = C!IdbRemove(charSess, t)
        /\ t \in DOMAIN charSess
        /\ C!ToLogin(<< >>) \/ C!ToLogin(<<C!OfflineMsg(charSess[t].acc)>>)
        /\ UNCHANGED <<charAuth, toChar, toMap, fromMap>>
    BY <1>2 DEF C!CharParseEof
  <2>2. charSess[t].acc \in Account
    <3>1. charSess[t] \in CharSession
      BY <2>1, EntryTyped DEF Typed, CharData
    <3> QED BY <3>1 DEF CharSession
  <2>3. CharList'
    BY <2>1, SessionsKept, CharListKept
  <2>4. CalmFromChar
    BY <2>1, <2>2, PlainSent, CalmToLogin
  <2> QED BY <2>1, <2>3, <2>4, CalmSame, CalmCharStep
<1> QED BY <1>1, <1>2

\* A packet of any set of packets, put on a link of them.
LEMMA SentWithin ==
    ASSUME Typed, NEW S, NEW m \in S
    PROVE  /\ toMap \in Seq(S) /\ C!ToMapServer(<<m>>) => toMap' \in Seq(S)
           /\ fromChar[Self] \in Seq(S) /\ C!ToLogin(<<m>>) => fromChar'[Self] \in Seq(S)
           /\ fromMap \in Seq(S) /\ M!Send(<<m>>) => fromMap' \in Seq(S)
<1>1. <<m>> \in Seq(S)
  OBVIOUS
<1>2. ASSUME toMap \in Seq(S), C!ToMapServer(<<m>>) PROVE toMap' \in Seq(S)
  <2>1. toMap \o <<m>> \in Seq(S)
    BY <1>1, <1>2
  <2> QED BY <1>2, <2>1 DEF C!ToMapServer
<1>3. ASSUME fromChar[Self] \in Seq(S), C!ToLogin(<<m>>) PROVE fromChar'[Self] \in Seq(S)
  <2>1. fromChar[Self] \o <<m>> \in Seq(S)
    BY <1>1, <1>3
  <2>2. Self \in DOMAIN fromChar
    BY SelfAssumption DEF SelfAssumption, Typed, FromCharLink
  <2> QED BY <1>3, <2>1, <2>2 DEF C!ToLogin
<1>4. ASSUME fromMap \in Seq(S), M!Send(<<m>>) PROVE fromMap' \in Seq(S)
  <2>1. fromMap \o <<m>> \in Seq(S)
    BY <1>1, <1>4
  <2> QED BY <1>4, <2>1 DEF M!Send
<1> QED BY <1>2, <1>3, <1>4

\* 0x2713: the session that asked is authed on a yes, which is of its own key.
LEMMA AuthStateGrants ==
    ASSUME Typed, Grants, CharStep, C!FromLoginAuthState
    PROVE  Grants'
<1> DEFINE m == Head(toChar[Self])
<1>1. CalmToChar /\ UNCHANGED <<charAuth, fromMap>>
  BY CalmFromLogin DEF C!FromLoginAuthState
<1>2. CASE /\ m.req \in DOMAIN charSess /\ m.req = m.tok /\ m.ok
           /\ C!AuthOk(m.req, m.acc, charSess)
  <2>1. toChar[Self] # << >> /\ m.type = "authAck"
    BY DEF C!FromLoginAuthState, C!FromLogin
  <2>2. m \in SureToChar
    BY <2>1 DEF Grants, Links
  <2> HIDE DEF m
  <2>3. m.acc \in Account /\ m.req \in Token /\ Confirmed(m.req)
    BY <1>2, <2>1, <2>2 DEF SureToChar, L!ToCharMsg
  <2>4. IsIdb(charSess, Token, CharSession)
    BY DEF Typed, CharData
  <2>5. \A u \in DOMAIN charSess : charSess[u].auth => Confirmed(u)
    BY DEF Grants, CharList
  <2>6. SureSessions /\ CalmFromChar /\ CalmToMap
    BY <1>2, <2>3, <2>4, <2>5, AuthOkGrants
  <2>7. CharList'
    BY <1>1, <2>6, CharListKept
  <2> QED BY <1>1, <2>6, <2>7, CalmSame, CalmCharStep
<1>3. CASE UNCHANGED <<charSess, onlineChar, fromChar, toMap>>
  <2>1. CharList'
    BY <1>1, <1>3, CharListKept
  <2> QED BY <1>1, <1>3, <2>1, CalmSame, CalmCharStep
<1> QED BY <1>2, <1>3 DEF C!FromLoginAuthState

LEMMA KickGrants ==
    ASSUME Typed, Grants, CharStep, C!FromLoginKick
    PROVE  Grants'
<1> DEFINE m == Head(toChar[Self])
           a == m.acc
<1>1. CalmToChar /\ UNCHANGED fromMap
  BY CalmFromLogin DEF C!FromLoginKick
<1>2. a \in Account
  <2>1. m \in L!ToCharMsg /\ m.type = "kick"
    BY FromLoginTyped DEF C!FromLoginKick
  <2> HIDE DEF m
  <2> QED BY <2>1 DEF L!ToCharMsg
<1>3. /\ charAuth' = C!IdbRemove(charAuth, a)
      /\ \/ charSess' = charSess
         \/ \E t \in DOMAIN charSess : charSess' = [charSess EXCEPT ![t].eof = TRUE]
      /\ fromChar' = fromChar \/ C!ToLogin(<<C!OfflineMsg(a)>>)
      /\ toMap' = toMap \/ C!ToMapServer(<<C!DisconnectMsg(a)>>)
  BY DEF C!FromLoginKick
<1> HIDE DEF a
<1>4. CharList'
  <2>1. SureEntries
    BY <1>3, CharListKept
  <2>2. SureSessions
    BY <1>3, CharListKept, SessionsKept
  <2> QED BY <2>1, <2>2, CharListKept
<1>5. CalmFromChar /\ CalmToMap
  BY <1>2, <1>3, PlainSent, CalmSame, CalmToLogin, CalmToMapServer
<1> QED BY <1>1, <1>4, <1>5, CalmSame, CalmCharStep

\* 0x2729: the registry of an account comes only when it was on its way.
LEMMA AccountReg2Grants ==
    ASSUME Typed, Grants, CharStep, C!FromLoginAccountReg2
    PROVE  Grants'
<1> DEFINE m == Head(toChar[Self])
           x == [type |-> "regs", part |-> "acc2", acc |-> m.acc, char |-> m.char]
<1>1. /\ C!ToMapServer(<<x>>) /\ CalmToChar
      /\ UNCHANGED <<charSess, charAuth, fromChar, fromMap>>
  BY CalmFromLogin DEF C!FromLoginAccountReg2, C!charVars, C!charData
<1>2. toChar[Self] # << >> /\ m.type = "reg2" /\ m \in L!ToCharMsg
  BY FromLoginTyped DEF C!FromLoginAccountReg2, C!FromLogin
<1>3. ASSUME NEW b, Still(b) PROVE m.acc # b
  <2>1. m \in QuietToChar(b)
    BY <1>2, <1>3 DEF Still
  <2> HIDE DEF m
  <2> QED BY <1>2, <2>1 DEF QuietToChar
<1> HIDE DEF m
<1>4. x \in ToMapMsg /\ x.type = "regs" /\ x.acc = m.acc
  BY <1>2 DEF ToMapMsg, M!RegPart, L!ToCharMsg
<1> HIDE DEF x
<1>5. x \in SureToMap /\ \A b : Still(b) => x \in QuietToMap(b)
  BY <1>3, <1>4 DEF SureToMap, QuietToMap
<1>6. CharList'
  BY <1>1, CharListKept
<1>7. Links'
  <2>1. toMap' \in Seq(SureToMap)
    BY <1>1, <1>5, SentWithin DEF Grants, Links
  <2>2. SureToMap' = SureToMap /\ UNCHANGED granted
    BY DEF SureToMap, Confirmed, CharStep, loginVars
  <2> QED BY <1>1, <2>1, <2>2, CalmLinks, CalmSame DEF Grants, Links
<1>8. StillKept
  <2> SUFFICES ASSUME NEW b, Still(b) PROVE Still(b)'
    BY DEF StillKept
  <2>1. toMap' \in Seq(QuietToMap(b))
    BY <1>1, <1>5, SentWithin DEF Still
  <2> QED BY <1>1, <2>1, CalmQuiet, CalmSame DEF Still
<1> QED BY <1>6, <1>7, <1>8, CharSideGrants

LEMMA CharHandlesLoginGrants ==
    ASSUME Typed, Grants, CharStep, CharHandlesLogin
    PROVE  Grants'
<1>1. CASE C!FromLoginConnected
  <2>1. /\ UNCHANGED <<charSess, charAuth, toMap, fromMap>>
        /\ C!ToLogin(<<C!AccountsMsg>>)
        /\ CalmToChar
    BY <1>1, CalmFromLogin DEF C!FromLoginConnected, C!charVars, C!charData
  <2>2. CharList' /\ CalmFromChar
    BY <2>1, CharListKept, PlainAccounts, CalmToLogin
  <2> QED BY <2>1, <2>2, CalmSame, CalmCharStep
<1> QED BY <1>1, AuthStateGrants, KickGrants, AccountReg2Grants DEF CharHandlesLogin

\* Steps on a packet of the map-server that answer with plain packets.
LEMMA FromMapPlainGrants ==
    ASSUME Typed, Grants, CharStep,
           \/ C!FromMapMapNames \/ C!FromMapSetUsers \/ C!FromMapSaveCharacter
           \/ C!FromMapSetCharOffline
    PROVE  Grants'
<1> DEFINE m == Head(fromMap)
<1>1. CalmFromMap /\ UNCHANGED <<charSess, charAuth, toChar>>
  BY HushFrom
     DEF C!FromMapMapNames, C!FromMapSetUsers, C!FromMapSaveCharacter,
         C!FromMapSetCharOffline, C!charData
<1>2. CASE C!FromMapMapNames
  <2>1. <<[type |-> "mapsAck"]>> \in Seq(PlainToMap)
    BY DEF ToMapMsg, PlainToMap
  <2>2. CalmToMap /\ CalmFromChar
    BY <1>2, <2>1, CalmToMapServer, CalmSame DEF C!FromMapMapNames
  <2> QED BY <1>1, <2>2, CharListKept, CalmSame, CalmCharStep
<1>3. CASE C!FromMapSetUsers
  BY <1>1, <1>3, CharListKept, CalmSame, CalmCharStep DEF C!FromMapSetUsers
<1>4. CASE C!FromMapSaveCharacter
  <2> DEFINE ack == [type |-> "saveAck", acc |-> m.acc, char |-> m.char]
  <2>1. m.acc \in Account /\ m.char \in Char
    BY <1>4, FromMapTyped, FromMapFields DEF C!FromMapSaveCharacter
  <2>2. /\ \/ fromChar' = fromChar
           \/ C!ToLogin(C!OfflineNotice(onlineChar, m.char, m.acc))
           \/ C!ToLogin(<<C!OnlineMsg(m.acc)>>)
        /\ toMap' = toMap \/ C!ToMapServer(<<ack>>)
    BY <1>4 DEF C!FromMapSaveCharacter
  <2> HIDE DEF m
  <2>3. ack \in PlainToMap
    BY <2>1 DEF ToMapMsg, PlainToMap
  <2> HIDE DEF ack
  <2>4. <<ack>> \in Seq(PlainToMap)
    BY <2>3
  <2>5. CalmToMap
    BY <2>2, <2>4, CalmToMapServer, CalmSame
  <2>6. CalmFromChar
    BY <2>1, <2>2, PlainSent, CalmToLogin, CalmSame
  <2> QED BY <1>1, <2>5, <2>6, CharListKept, CalmSame, CalmCharStep
<1>5. CASE C!FromMapSetCharOffline
  <2>1. m.acc \in Account
    BY <1>5, FromMapTyped, FromMapFields DEF C!FromMapSetCharOffline
  <2>2. C!ToLogin(C!OfflineNotice(onlineChar, m.char, m.acc)) /\ UNCHANGED toMap
    BY <1>5 DEF C!FromMapSetCharOffline
  <2> HIDE DEF m
  <2>3. CalmFromChar
    BY <2>1, <2>2, PlainSent, CalmToLogin
  <2> QED BY <1>1, <2>2, <2>3, CharListKept, CalmSame, CalmCharStep
<1> QED BY <1>2, <1>3, <1>4, <1>5

\* 0x2b02: the key of the one who comes back was confirmed when it came.
LEMMA CharSelectReqGrants ==
    ASSUME Typed, Grants, CharStep, C!FromMapCharSelectReq
    PROVE  Grants'
<1> DEFINE m == Head(fromMap)
           e == [char |-> NoChar, tok |-> m.tok]
           ack == [type |-> "selectAck", acc |-> m.acc]
<1>1. /\ charAuth' = C!IdbPut(charAuth, m.acc, e)
      /\ C!ToLogin(<<C!OnlineMsg(m.acc)>>)
      /\ C!ToMapServer(<<ack>>)
      /\ CalmFromMap /\ UNCHANGED <<charSess, toChar>>
  BY HushFrom DEF C!FromMapCharSelectReq
<1>2. m.acc \in Account /\ m.type = "charSelect" /\ fromMap # << >>
  BY FromMapTyped, FromMapFields DEF C!FromMapCharSelectReq, C!FromMap
<1>3. m \in SureFromMap
  BY <1>2 DEF Grants, Links
<1> HIDE DEF m
<1>4. Confirmed(e.tok)
  BY <1>2, <1>3 DEF SureFromMap
<1>5. ack \in PlainToMap
  BY <1>2 DEF ToMapMsg, PlainToMap
<1> HIDE DEF e, ack
<1>6. <<ack>> \in Seq(PlainToMap)
  BY <1>5
<1>7. CalmToMap /\ CalmFromChar
  BY <1>1, <1>2, <1>6, PlainSent, CalmToMapServer, CalmToLogin
<1>8. CharList'
  BY <1>1, <1>4, CharListKept
<1> QED BY <1>1, <1>7, <1>8, CalmSame, CalmCharStep

\* 0x2b26: a character is sent to the map-server with the key it was selected with.
LEMMA AuthRequestGrants ==
    ASSUME Typed, Grants, CharStep, C!FromMapAuthRequest
    PROVE  Grants'
<1> DEFINE m == Head(fromMap)
           yes == [type |-> "authOk", acc |-> m.acc, char |-> m.char,
                   tok |-> m.tok, ver |-> sql[m.char]]
           no == [type |-> "authFail", acc |-> m.acc, char |-> m.char, tok |-> m.tok]
<1>1. m.acc \in Account /\ m.char \in Char /\ m.tok \in Token
  BY FromMapTyped, FromMapFields DEF C!FromMapAuthRequest
<1>2. CalmFromMap /\ UNCHANGED <<charSess, toChar>>
  BY HushFrom DEF C!FromMapAuthRequest
<1>3. CASE /\ m.acc \in DOMAIN charAuth
           /\ charAuth[m.acc] = [char |-> m.char, tok |-> m.tok]
           /\ C!ToMapServer(<<yes>>)
           /\ charAuth' = C!IdbRemove(charAuth, m.acc)
           /\ C!ToLogin(<<C!OnlineMsg(m.acc)>>)
  <2>1. Confirmed(m.tok)
    <3>1. charAuth[m.acc].tok = m.tok
      <4> HIDE DEF m
      <4> QED BY <1>3
    <3> HIDE DEF m
    <3> QED BY <1>3, <3>1 DEF Grants, CharList
  <2>2. sql[m.char] \in Nat
    BY <1>1 DEF Typed, CharData
  <2> HIDE DEF m
  <2>3. yes \in ToMapMsg /\ yes.type = "authOk" /\ yes.tok = m.tok
    BY <1>1, <2>2 DEF ToMapMsg
  <2>4. CharList' /\ CalmFromChar
    BY <1>1, <1>2, <1>3, CharListKept, PlainSent, CalmToLogin
  <2> HIDE DEF yes
  <2>5. yes \in SureToMap /\ \A b : yes \in QuietToMap(b)
    BY <2>1, <2>3 DEF SureToMap, QuietToMap
  <2>6. Links'
    <3>1. toMap' \in Seq(SureToMap)
      BY <1>3, <2>5, SentWithin DEF Grants, Links
    <3>2. SureToMap' = SureToMap /\ UNCHANGED granted
      BY DEF SureToMap, Confirmed, CharStep, loginVars
    <3> QED BY <1>2, <3>1, <3>2, CalmLinks, CalmSame DEF Grants, Links
  <2>7. StillKept
    <3> SUFFICES ASSUME NEW b, Still(b) PROVE Still(b)'
      BY DEF StillKept
    <3>1. toMap' \in Seq(QuietToMap(b))
      BY <1>3, <2>5, SentWithin DEF Still
    <3> QED BY <1>2, <2>4, <3>1, CalmQuiet, CalmSame DEF Still
  <2> QED BY <2>4, <2>6, <2>7, CharSideGrants
<1>4. CASE C!ToMapServer(<<no>>) /\ UNCHANGED <<charAuth, fromChar>>
  <2> HIDE DEF m
  <2>1. no \in PlainToMap
    BY <1>1 DEF ToMapMsg, PlainToMap
  <2> HIDE DEF no
  <2>2. <<no>> \in Seq(PlainToMap)
    BY <2>1
  <2>3. CharList' /\ CalmToMap
    BY <1>2, <1>4, <2>2, CharListKept, CalmToMapServer
  <2> QED BY <1>2, <1>4, <2>3, CalmSame, CalmCharStep
<1> QED BY <1>3, <1>4 DEF C!FromMapAuthRequest

\* 0x3005: the registries are sent, and asked for, only on a request.
LEMMA RegistryRequestGrants ==
    ASSUME Typed, Grants, CharStep, C!FromMapRegistryRequest
    PROVE  Grants'
<1> DEFINE m == Head(fromMap)
           x == [type |-> "regs", part |-> "local", acc |-> m.acc, char |-> m.char]
           y == [type |-> "reg2", acc |-> m.acc, char |-> m.char]
<1>1. /\ C!ToMapServer(<<x>>) /\ C!ToLogin(<<y>>) /\ CalmFromMap
      /\ UNCHANGED <<charSess, charAuth, toChar>>
  BY HushFrom DEF C!FromMapRegistryRequest, C!charVars, C!charData
<1>2. /\ m.acc \in Account /\ m.char \in Char
      /\ m.type = "regReq" /\ fromMap # << >>
  BY FromMapTyped, FromMapFields DEF C!FromMapRegistryRequest, C!FromMap
<1>3. ASSUME NEW b, Still(b) PROVE m.acc # b
  <2>1. m \in QuietFromMap(b)
    BY <1>2, <1>3 DEF Still
  <2> HIDE DEF m
  <2> QED BY <1>2, <2>1 DEF QuietFromMap
<1> HIDE DEF m
<1>4. /\ x \in ToMapMsg /\ x.type = "regs" /\ x.acc = m.acc
      /\ y \in L!FromCharMsg /\ y.acc = m.acc
  BY <1>2 DEF ToMapMsg, M!RegPart, L!FromCharMsg
<1> HIDE DEF x, y
<1>5. /\ x \in SureToMap
      /\ \A b : Still(b) => x \in QuietToMap(b) /\ y \in QuietFromChar(b)
  BY <1>3, <1>4 DEF SureToMap, QuietToMap, QuietFromChar
<1>6. CharList'
  BY <1>1, CharListKept
<1>7. Links'
  <2>1. toMap' \in Seq(SureToMap)
    BY <1>1, <1>5, SentWithin DEF Grants, Links
  <2>2. SureToMap' = SureToMap /\ UNCHANGED granted
    BY DEF SureToMap, Confirmed, CharStep, loginVars
  <2> QED BY <1>1, <2>1, <2>2, CalmLinks, CalmSame DEF Grants, Links
<1>8. StillKept
  <2> SUFFICES ASSUME NEW b, Still(b) PROVE Still(b)'
    BY DEF StillKept
  <2>1. toMap' \in Seq(QuietToMap(b)) /\ fromChar'[Self] \in Seq(QuietFromChar(b))
    BY <1>1, <1>5, SentWithin DEF Still
  <2> QED BY <1>1, <2>1, CalmQuiet, CalmSame DEF Still
<1> QED BY <1>6, <1>7, <1>8, CharSideGrants

LEMMA CharHandlesMapGrants ==
    ASSUME Typed, Grants, CharStep, CharHandlesMap
    PROVE  Grants'
BY FromMapPlainGrants, CharSelectReqGrants, AuthRequestGrants, RegistryRequestGrants
   DEF CharHandlesMap

LEMMA CharTimersGrants ==
    ASSUME Typed, Grants, CharStep, CharTimers
    PROVE  Grants'
<1>1. UNCHANGED <<charSess, charAuth, toChar, toMap, fromMap>>
  BY DEF CharTimers, C!CharWaitingDisconnect, C!CharOnlineDataCleanup, C!CharSendAccounts,
         C!CheckConnectFails, C!charVars, C!charData
<1>2. CalmFromChar
  <2>1. ASSUME NEW a \in Account, C!CharWaitingDisconnect(a) PROVE CalmFromChar
    BY <2>1, PlainSent, CalmToLogin DEF C!CharWaitingDisconnect
  <2>2. CASE C!CharOnlineDataCleanup
    <3> DEFINE idle == {a \in DOMAIN onlineChar : onlineChar[a].fd = NoToken}
               lost == {a \in idle : onlineChar[a].server = C!UnknownMapServer}
               order == C!SetToSeq(lost)
               ms == [i \in DOMAIN order |-> C!OfflineMsg(order[i])]
    <3>1. C!ToLogin(ms)
      BY <2>2 DEF C!CharOnlineDataCleanup
    <3>2. lost \in SUBSET Account
      BY DEF Typed, CharData, IsIdb
    <3>3. order \in Seq(Account)
      BY <3>2, AccountListAssumption DEF AccountListAssumption
    <3> HIDE DEF order
    <3>4. ms \in Seq(PlainFromChar)
      <4>1. \A i \in DOMAIN order : C!OfflineMsg(order[i]) \in PlainFromChar
        BY <3>3 DEF C!OfflineMsg, L!FromCharMsg, PlainFromChar
      <4>2. DOMAIN order = 1..Len(order) /\ Len(order) \in Nat
        BY <3>3
      <4> QED BY <4>1, <4>2
    <3> HIDE DEF ms
    <3> QED BY <3>1, <3>4, CalmToLogin
  <2>3. CASE C!CharSendAccounts
    BY <2>3, PlainAccounts, CalmToLogin DEF C!CharSendAccounts
  <2>4. CASE C!CheckConnectFails
    BY <2>4, CalmSame DEF C!CheckConnectFails
  <2> QED BY <2>1, <2>2, <2>3, <2>4 DEF CharTimers
<1> QED BY <1>1, <1>2, CharListKept, CalmSame, CalmCharStep

-----------------------------------------------------------------------------
(* The map-server.                                                         *)

LEMMA ArrivedIsQuiet ==
    ASSUME Typed, NEW a, RegistriesArrived(a)
    PROVE  Still(a)
<1>1. /\ toChar[Self] \in Seq(L!ToCharMsg) /\ fromChar[Self] \in Seq(L!FromCharMsg)
      /\ toMap \in Seq(ToMapMsg) /\ fromMap \in Seq(FromMapMsg)
  BY SelfAssumption DEF SelfAssumption, Typed, ToCharLink, FromCharLink, MapLink
<1>2. /\ \A i \in DOMAIN fromMap : fromMap[i].type = "regReq" => fromMap[i].acc # a
      /\ \A i \in DOMAIN toMap : toMap[i].type = "regs" => toMap[i].acc # a
      /\ \A i \in DOMAIN fromChar[Self] :
            fromChar[Self][i].type = "reg2" => fromChar[Self][i].acc # a
      /\ \A i \in DOMAIN toChar[Self] :
            toChar[Self][i].type = "reg2" => toChar[Self][i].acc # a
  BY DEF RegistriesArrived
<1>3. fromMap \in Seq(QuietFromMap(a))
  BY <1>1, <1>2 DEF QuietFromMap
<1>4. toMap \in Seq(QuietToMap(a))
  BY <1>1, <1>2 DEF QuietToMap
<1>5. fromChar[Self] \in Seq(QuietFromChar(a))
  BY <1>1, <1>2 DEF QuietFromChar
<1>6. toChar[Self] \in Seq(QuietToChar(a))
  BY <1>1, <1>2 DEF QuietToChar
<1> QED BY <1>3, <1>4, <1>5, <1>6 DEF Still

LEMMA PlayersKept ==
    ASSUME Grants, MapStep
    PROVE  /\ UNCHANGED pc => Players'
           /\ \A a : pc' = M!IdbRemove(pc, a) => Players'
           /\ \A a : pc' = [pc EXCEPT ![a].fd = NoToken] => Players'
           /\ \A a : pc' = [pc EXCEPT ![a].ver = @ + 1] => Players'
<1>0. UNCHANGED granted
  BY DEF MapStep, loginVars
<1>1. ASSUME UNCHANGED pc PROVE Players'
  BY <1>0, <1>1 DEF Grants, Players, Confirmed
<1>2. ASSUME NEW a, pc' = M!IdbRemove(pc, a) PROVE Players'
  BY <1>0, <1>2 DEF Grants, Players, Confirmed, M!IdbRemove
<1>3. ASSUME NEW a, pc' = [pc EXCEPT ![a].fd = NoToken] PROVE Players'
  <2> DEFINE e == [pc[a] EXCEPT !.fd = NoToken]
  <2>1. e.tok = pc[a].tok /\ e.fd \in {NoToken, pc[a].fd}
    OBVIOUS
  <2>2. \A b \in DOMAIN pc' : b \in DOMAIN pc /\ pc'[b] = IF b = a THEN e ELSE pc[b]
    BY <1>3
  <2> HIDE DEF e
  <2> QED BY <1>0, <2>1, <2>2 DEF Grants, Players, Confirmed
<1>4. ASSUME NEW a, pc' = [pc EXCEPT ![a].ver = @ + 1] PROVE Players'
  <2> DEFINE e == [pc[a] EXCEPT !.ver = @ + 1]
  <2>1. e.tok = pc[a].tok /\ e.fd = pc[a].fd
    OBVIOUS
  <2>2. \A b \in DOMAIN pc' : b \in DOMAIN pc /\ pc'[b] = IF b = a THEN e ELSE pc[b]
    BY <1>4
  <2> HIDE DEF e
  <2> QED BY <1>0, <2>1, <2>2 DEF Grants, Players, Confirmed
<1> QED BY <1>1, <1>2, <1>3, <1>4

\* A client that is not refused is put into a node while nothing of its registries is
\* on its way.
LEMMA ConnectMapGrants ==
    ASSUME Typed, Grants, MapStep, NEW t \in Token, NEW a \in Account, NEW c \in Char,
           RegistriesArrived(a), M!WantToConnection(t, a, c)
    PROVE  Grants'
<1> DEFINE node == [state |-> "login", char |-> c, tok |-> t, fd |-> t,
                    ver |-> M!Blank, regs |-> {}]
           ask == [type |-> "auth", acc |-> a, char |-> c, tok |-> t]
<1>1. Still(a) /\ UNCHANGED <<toMap, pc>>
  BY ArrivedIsQuiet DEF M!WantToConnection
<1>2. Players'
  BY <1>1, PlayersKept
<1>3. CASE M!Send(<< >>) /\ mapAuth' = mapAuth
  BY <1>1, <1>2, <1>3, PlainSent, CalmSend, CalmSame, CalmMapStep
<1>4. CASE M!Send(<<ask>>) /\ mapAuth' = M!IdbPut(mapAuth, a, node)
  <2>1. ask \in PlainFromMap
    BY PlainFromMapServer
  <2> HIDE DEF ask
  <2>2. <<ask>> \in Seq(PlainFromMap)
    BY <2>1
  <2>3. UNCHANGED <<granted, toChar, fromChar>>
    BY DEF MapStep, loginVars
  <2>4. CalmFromMap
    BY <1>4, <2>2, CalmSend
  <2>5. Links'
    BY <1>1, <2>3, <2>4, CalmLinks, CalmSame DEF Grants, Links
  <2>6. StillKept
    BY <1>1, <2>3, <2>4, CalmQuiet, CalmSame DEF StillKept, Still
  <2>7. Waits'
    <3>1. node.fd = node.tok /\ node.regs = {}
      OBVIOUS
    <3>2. \A b \in DOMAIN mapAuth' : \/ b = a /\ mapAuth'[b] = node
                                     \/ b \in DOMAIN mapAuth /\ mapAuth'[b] = mapAuth[b]
      <4> HIDE DEF node
      <4> QED BY <1>4 DEF M!IdbPut
    <3> HIDE DEF node
    <3> QED BY <1>1, <2>3, <2>6, <3>1, <3>2
            DEF Grants, Waits, SureNode, StillKept, Confirmed, M!LoggingIn
  <2> QED BY <1>2, <2>5, <2>7, MapSideGrants
<1> QED BY <1>3, <1>4 DEF M!WantToConnection

\* Steps of the map-server that take nodes and characters away, or leave them.
LoginNodesKept ==
    \A a \in DOMAIN mapAuth' : mapAuth'[a].state = "login" =>
        a \in DOMAIN mapAuth /\ mapAuth'[a] = mapAuth[a]

LEMMA MapQuitKept ==
    ASSUME Typed, Grants, MapStep, NEW a \in DOMAIN pc, M!MapQuit(a)
    PROVE  LoginNodesKept /\ Players' /\ CalmFromMap
<1> DEFINE node == [state |-> "logout", char |-> pc[a].char, tok |-> pc[a].tok,
                    fd |-> NoToken, ver |-> pc[a].ver, regs |-> {}]
           m == M!SaveMsg(a, pc[a].char, pc[a].ver, TRUE)
<1>1. /\ mapAuth' = M!IdbPut(mapAuth, a, node)
      /\ pc' = M!IdbRemove(pc, a)
      /\ M!Send(<<m>>)
  BY DEF M!MapQuit
<1>2. LoginNodesKept
  <2>1. node.state # "login"
    OBVIOUS
  <2> HIDE DEF node
  <2> QED BY <1>1, <2>1 DEF LoginNodesKept, M!IdbPut
<1>3. m \in PlainFromMap
  BY PlayerTyped, PlainFromMapServer
<1> HIDE DEF m
<1>4. <<m>> \in Seq(PlainFromMap)
  BY <1>3
<1> QED BY <1>1, <1>2, <1>4, CalmSend, PlayersKept

LEMMA NodesKept ==
    /\ UNCHANGED mapAuth => LoginNodesKept
    /\ \A a : mapAuth' = M!IdbRemove(mapAuth, a) => LoginNodesKept
    /\ \A S : mapAuth' = [a \in DOMAIN mapAuth \ S |-> mapAuth[a]] => LoginNodesKept
BY DEF LoginNodesKept, M!IdbRemove

LEMMA CalmMap ==
    ASSUME Grants, MapStep, CalmToMap, CalmFromMap, Players', LoginNodesKept
    PROVE  Grants'
BY CalmMapStep DEF LoginNodesKept

LEMMA MapEofGrants ==
    ASSUME Typed, Grants, MapStep, NEW t \in Token,
           \/ M!MapClientEof(t) \/ M!ClifParseEofQuit(t) \/ M!ClifParseEofDelayed(t)
           \/ M!ClifParseEofInactive(t)
    PROVE  Grants'
<1>1. CASE M!MapClientEof(t)
  BY <1>1, PlayersKept, NodesKept, CalmSame, CalmMap DEF M!MapClientEof
<1>2. CASE M!ClifParseEofQuit(t)
  BY <1>2, MapQuitKept, CalmSame, CalmMap DEF M!ClifParseEofQuit, M!Plays
<1>3. CASE M!ClifParseEofDelayed(t)
  BY <1>3, PlayersKept, NodesKept, CalmSame, CalmMap DEF M!ClifParseEofDelayed
<1>4. CASE M!ClifParseEofInactive(t)
  BY <1>4, PlayersKept, NodesKept, CalmSame, CalmMap DEF M!ClifParseEofInactive
<1> QED BY <1>1, <1>2, <1>3, <1>4

\* Who asks for the character list names its own key.
LEMMA RestartGrants ==
    ASSUME Typed, Grants, MapStep, NEW t \in Token, NEW a, M!ClifParseRestart(t, a)
    PROVE  Grants'
<1> DEFINE m == [type |-> "charSelect", acc |-> a, tok |-> t]
<1>1. /\ a \in DOMAIN pc /\ pc[a].fd = t
      /\ M!Send(<<m>>) /\ UNCHANGED <<mapAuth, pc, toMap>>
  BY DEF M!ClifParseRestart, M!Plays, M!mapData
<1>2. Confirmed(t)
  <2>1. t # NoToken
    BY NoTokenAssumption DEF NoTokenAssumption
  <2> QED BY <1>1, <2>1 DEF Grants, Players
<1>3. a \in Account
  BY <1>1 DEF Typed, MapData, IsIdb
<1>4. m \in SureFromMap /\ \A b : m \in QuietFromMap(b)
  BY <1>2, <1>3 DEF SureFromMap, QuietFromMap, FromMapMsg
<1> HIDE DEF m
<1>5. UNCHANGED <<granted, toChar, fromChar>>
  BY DEF MapStep, loginVars
<1>6. Links'
  <2>1. fromMap' \in Seq(SureFromMap)
    BY <1>1, <1>4, SentWithin DEF Grants, Links
  <2>2. SureFromMap' = SureFromMap
    BY <1>5 DEF SureFromMap, Confirmed
  <2> QED BY <1>1, <1>5, <2>1, <2>2, CalmLinks, CalmSame DEF Grants, Links
<1>7. StillKept
  <2> SUFFICES ASSUME NEW b, Still(b) PROVE Still(b)'
    BY DEF StillKept
  <2>1. fromMap' \in Seq(QuietFromMap(b))
    BY <1>1, <1>4, SentWithin DEF Still
  <2> QED BY <1>1, <1>5, <2>1 DEF Still
<1>8. Waits'
  BY <1>1, <1>5, <1>7 DEF Grants, Waits, SureNode, StillKept, Confirmed, M!LoggingIn
<1> QED BY <1>1, <1>6, <1>8, PlayersKept, MapSideGrants

LEMMA MapTimersGrants ==
    ASSUME Typed, Grants, MapStep, MapTimers
    PROVE  Grants'
<1>1. ASSUME NEW a \in Account, M!ClifDelayQuit(a) PROVE Grants'
  BY <1>1, MapQuitKept, CalmSame, CalmMap DEF M!ClifDelayQuit
<1>2. ASSUME NEW a \in Account, M!AuthDbCleanup(a) PROVE Grants'
  <2> DEFINE save == M!SaveMsg(a, mapAuth[a].char, mapAuth[a].ver, TRUE)
             off  == M!CharOfflineMsg(a, mapAuth[a].char)
  <2>1. /\ a \in DOMAIN mapAuth /\ UNCHANGED <<pc, toMap>>
        /\ mapAuth' = mapAuth \/ mapAuth' = M!IdbRemove(mapAuth, a)
        /\ M!Send(<<save>>) \/ M!Send(<<off>>)
    BY <1>2 DEF M!AuthDbCleanup, M!AuthDelete
  <2>2. save \in PlainFromMap /\ off \in PlainFromMap
    BY <2>1, NodeTyped, PlainFromMapServer
  <2> HIDE DEF save, off
  <2>3. <<save>> \in Seq(PlainFromMap) /\ <<off>> \in Seq(PlainFromMap)
    BY <2>2
  <2> QED BY <2>1, <2>3, CalmSend, PlayersKept, NodesKept, CalmSame, CalmMap
<1> QED BY <1>1, <1>2 DEF MapTimers

LEMMA MapPlaysGrants ==
    ASSUME Typed, Grants, MapStep, MapPlays
    PROVE  Grants'
<1>1. ASSUME NEW a \in Account, M!Play(a) PROVE Grants'
  BY <1>1, PlayersKept, NodesKept, CalmSame, CalmMap DEF M!Play
<1>2. ASSUME NEW a \in Account, M!AutoSave(a) PROVE Grants'
  <2> DEFINE save == M!SaveMsg(a, pc[a].char, pc[a].ver, FALSE)
  <2>1. a \in DOMAIN pc /\ M!Send(<<save>>) /\ UNCHANGED <<mapAuth, pc, toMap>>
    BY <1>2 DEF M!AutoSave, M!mapData
  <2>2. save \in PlainFromMap
    BY <2>1, PlayerTyped, PlainFromMapServer
  <2> HIDE DEF save
  <2>3. <<save>> \in Seq(PlainFromMap)
    BY <2>2
  <2> QED BY <2>1, <2>3, CalmSend, PlayersKept, NodesKept, CalmSame, CalmMap
<1> QED BY <1>1, <1>2 DEF MapPlays

LEMMA OnReadyGrants ==
    ASSUME Typed, Grants, MapStep, M!ChrifOnReady
    PROVE  Grants'
<1> DEFINE users == {[acc |-> a, char |-> pc[a].char] : a \in DOMAIN pc}
           ins   == {a \in DOMAIN mapAuth : M!LoggingIn(a)}
           MsgOf(a) == IF a \in ins THEN M!CharOfflineMsg(a, mapAuth[a].char)
                       ELSE M!SaveMsg(a, mapAuth[a].char, mapAuth[a].ver, TRUE)
           first == [type |-> "users", users |-> users]
<1>0. M!Cardinality(DOMAIN mapAuth) = Cardinality(DOMAIN mapAuth)
  BY DEF M!Cardinality, Cardinality
<1>1. PICK order \in [1..M!Cardinality(DOMAIN mapAuth) -> DOMAIN mapAuth] :
         fromMap' = Append(fromMap, first) \o [i \in DOMAIN order |-> MsgOf(order[i])]
  BY DEF M!ChrifOnReady
<1>2. /\ mapAuth' = [a \in DOMAIN mapAuth \ ins |-> mapAuth[a]]
      /\ UNCHANGED pc /\ CalmToMap
  BY HushFrom DEF M!ChrifOnReady
<1>3. first \in PlainFromMap
  <2>1. users \in SUBSET [acc : Account, char : Char]
    BY PlayerTyped
  <2> HIDE DEF users
  <2> QED BY <2>1 DEF FromMapMsg, PlainFromMap
<1>4. \A a \in DOMAIN mapAuth : MsgOf(a) \in PlainFromMap
  BY NodeTyped, PlainFromMapServer
<1>5. Cardinality(DOMAIN mapAuth) \in Nat
  <2>1. DOMAIN mapAuth \subseteq Account
    BY DEF Typed, MapData, IsIdb
  <2>2. IsFiniteSet(DOMAIN mapAuth)
    BY <2>1, AccountAssumption, FS_Subset DEF AccountAssumption
  <2> QED BY <2>2, FS_CardinalityType
<1> HIDE DEF MsgOf, first, ins
<1> DEFINE rest == [i \in DOMAIN order |-> MsgOf(order[i])]
<1>6. rest \in Seq(PlainFromMap)
  <2>1. DOMAIN order = 1..Cardinality(DOMAIN mapAuth)
    BY <1>0
  <2>2. \A i \in DOMAIN order : MsgOf(order[i]) \in PlainFromMap
    BY <1>4
  <2> QED BY <1>5, <2>1, <2>2
<1>7. fromMap' = Append(fromMap, first) \o rest
  BY <1>1
<1> HIDE DEF rest
<1>8. CalmFromMap
  <2> SUFFICES ASSUME NEW S, fromMap \in Seq(S)
               PROVE  fromMap' \in Seq(S \cup PlainFromMap)
    BY DEF CalmFromMap, Keeps
  <2>1. Append(fromMap, first) \in Seq(S \cup PlainFromMap)
    BY <1>3, KeepsAppend DEF Keeps
  <2>2. rest \in Seq(S \cup PlainFromMap)
    BY <1>6
  <2> QED BY <1>7, <2>1, <2>2
<1> QED BY <1>2, <1>8, PlayersKept, NodesKept, CalmMap

\* 0x2afd: the data of a character comes with the key it was asked for with.
LEMMA AuthOkNodeGrants ==
    ASSUME Typed, Grants, MapStep, M!ChrifAuthOk
    PROVE  Grants'
<1> DEFINE m == Head(toMap)
           a == m.acc
           off == M!CharOfflineMsg(a, mapAuth[a].char)
           req == [type |-> "regReq", acc |-> a, char |-> m.char]
<1>1. CalmToMap /\ UNCHANGED pc
  BY HushFrom DEF M!ChrifAuthOk
<1>2. m \in ToMapMsg /\ m.type = "authOk" /\ toMap # << >>
  BY FromCharServerTyped DEF M!ChrifAuthOk, M!FromCharServer
<1>3. CASE UNCHANGED <<mapAuth, mapSess, fromMap>>
  BY <1>1, <1>3, PlayersKept, NodesKept, CalmSame, CalmMap
<1>4. CASE /\ M!LoggingIn(a) /\ mapAuth[a].tok = m.tok
           /\ mapAuth' = [mapAuth EXCEPT ![a].ver = m.ver]
           /\ M!Send(<<req>>)
  <2>1. m \in SureToMap
    BY <1>2 DEF Grants, Links
  <2> DEFINE e == [mapAuth[a] EXCEPT !.ver = m.ver]
  <2>2. a \in Account /\ m.char \in Char /\ Confirmed(m.tok)
    <3> SUFFICES m.acc \in Account /\ m.char \in Char /\ Confirmed(m.tok)
      OBVIOUS
    <3> HIDE DEF m
    <3> QED BY <1>2, <2>1 DEF SureToMap, ToMapMsg
  <2>3. e.tok = mapAuth[a].tok /\ e.fd = mapAuth[a].fd /\ e.regs = mapAuth[a].regs
        /\ e.state = mapAuth[a].state
    OBVIOUS
  <2>4. \A b \in DOMAIN mapAuth' :
           b \in DOMAIN mapAuth /\ mapAuth'[b] = IF b = a THEN e ELSE mapAuth[b]
    BY <1>4
  <2> HIDE DEF m, a, e
  <2>5. req \in FromMapMsg /\ req.type = "regReq" /\ req.acc = a
    BY <2>2 DEF FromMapMsg
  <2> HIDE DEF req
  <2>6. req \in SureFromMap /\ \A b : b # a => req \in QuietFromMap(b)
    BY <2>5 DEF SureFromMap, QuietFromMap
  <2>7. UNCHANGED <<granted, toChar, fromChar>>
    BY DEF MapStep, loginVars
  <2>8. Links'
    <3>1. fromMap' \in Seq(SureFromMap)
      BY <1>4, <2>6, SentWithin DEF Grants, Links
    <3>2. SureFromMap' = SureFromMap
      BY <2>7 DEF SureFromMap, Confirmed
    <3> QED BY <1>1, <2>7, <3>1, <3>2, CalmLinks, CalmSame DEF Grants, Links
  <2>9. ASSUME NEW b, b # a, Still(b) PROVE Still(b)'
    <3>1. fromMap' \in Seq(QuietFromMap(b))
      BY <1>4, <2>6, <2>9, SentWithin DEF Still
    <3> QED BY <1>1, <2>7, <2>9, <3>1, CalmQuiet, CalmSame DEF Still
  <2>10. Waits'
    <3> SUFFICES ASSUME NEW b \in DOMAIN mapAuth', mapAuth'[b].state = "login"
                 PROVE  mapAuth'[b].fd = mapAuth'[b].tok /\ SureNode(b)'
      BY DEF Waits, M!LoggingIn
    <3>1. CASE b = a
      <4>1. mapAuth'[b] = e /\ e.fd = e.tok /\ Confirmed(e.tok)
        BY <1>4, <2>2, <2>3, <2>4, <3>1 DEF Grants, Waits, M!LoggingIn
      <4> QED BY <2>7, <4>1 DEF SureNode, Confirmed
    <3>2. CASE b # a
      <4>1. b \in DOMAIN mapAuth /\ mapAuth'[b] = mapAuth[b]
        BY <2>4, <3>2
      <4> QED BY <2>7, <2>9, <3>2, <4>1
              DEF Grants, Waits, SureNode, Confirmed, M!LoggingIn
    <3> QED BY <3>1, <3>2
  <2> QED BY <1>1, <2>8, <2>10, PlayersKept, MapSideGrants
<1>5. CASE /\ M!LoggingIn(a) /\ M!Send(<<off>>)
           /\ mapAuth' = mapAuth \/ mapAuth' = M!IdbRemove(mapAuth, a)
  <2> HIDE DEF a
  <2>1. off \in PlainFromMap
    BY <1>5, NodeTyped, PlainFromMapServer DEF M!LoggingIn
  <2> HIDE DEF off
  <2>2. <<off>> \in Seq(PlainFromMap)
    BY <2>1
  <2> QED BY <1>1, <1>5, <2>2, CalmSend, PlayersKept, NodesKept, CalmMap
<1> QED BY <1>3, <1>4, <1>5 DEF M!ChrifAuthOk, M!AuthDelete

\* 0x3804: a registry that comes is of a confirmed key, and so is the character its
\* node becomes.
LEMMA RegistersGrants ==
    ASSUME Typed, Grants, MapStep, M!IntifParseRegisters
    PROVE  Grants'
<1> DEFINE m == Head(toMap)
           a == m.acc
           node == mapAuth[a]
           all == node.regs \cup {m.part}
           char == [char |-> node.char, tok |-> node.tok, fd |-> node.fd, ver |-> node.ver]
<1>1. CalmToMap /\ UNCHANGED fromMap
  BY HushFrom DEF M!IntifParseRegisters
<1>2. m.type = "regs" /\ toMap # << >>
  BY DEF M!IntifParseRegisters, M!FromCharServer
<1>3. ~Still(a)
  <2> SUFFICES ASSUME Still(a) PROVE FALSE
    OBVIOUS
  <2>1. m \in QuietToMap(a)
    BY <1>2 DEF Still
  <2> QED BY <1>2, <2>1 DEF QuietToMap
<1>4. CASE UNCHANGED <<mapAuth, pc>>
  BY <1>1, <1>4, PlayersKept, NodesKept, CalmSame, CalmMap
<1>5. ASSUME M!LoggingIn(a)
      PROVE  Confirmed(node.tok) /\ node.fd = node.tok
  BY <1>3, <1>5 DEF Grants, Waits, SureNode, M!LoggingIn
<1>6. UNCHANGED <<granted, toChar, fromChar>>
  BY DEF MapStep, loginVars
<1>7. Links' /\ StillKept
  <2>1. Links'
    BY <1>1, <1>6, CalmLinks, CalmSame DEF Grants, Links
  <2>2. StillKept
    BY <1>1, <1>6, CalmQuiet, CalmSame DEF StillKept, Still
  <2> QED BY <2>1, <2>2
<1>8. CASE /\ M!LoggingIn(a)
           /\ mapAuth' = [mapAuth EXCEPT ![a].regs = all]
           /\ UNCHANGED pc
  <2> DEFINE e == [mapAuth[a] EXCEPT !.regs = all]
  <2>1. e.tok = node.tok /\ e.fd = node.fd
    OBVIOUS
  <2>2. \A b \in DOMAIN mapAuth' :
           b \in DOMAIN mapAuth /\ mapAuth'[b] = IF b = a THEN e ELSE mapAuth[b]
    BY <1>8
  <2>3. Confirmed(node.tok) /\ node.fd = node.tok
    BY <1>5, <1>8
  <2> HIDE DEF a, node, e
  <2>4. Waits'
    BY <1>6, <1>7, <2>1, <2>2, <2>3
       DEF Grants, Waits, SureNode, StillKept, Confirmed, M!LoggingIn
  <2> QED BY <1>7, <1>8, <2>4, PlayersKept, MapSideGrants
<1>9. CASE /\ M!LoggingIn(a)
           /\ mapAuth' = M!IdbRemove(mapAuth, a)
           /\ pc' = M!IdbPut(pc, a, char)
  <2>1. Confirmed(char.tok) /\ char.fd = char.tok
    BY <1>5, <1>9
  <2> HIDE DEF a, char
  <2>2. Players'
    BY <1>6, <1>9, <2>1 DEF Grants, Players, Confirmed, M!IdbPut
  <2> QED BY <1>1, <1>9, <2>2, NodesKept, CalmSame, CalmMap
<1> QED BY <1>4, <1>8, <1>9 DEF M!IntifParseRegisters, M!AuthCheck, M!LoggingIn

LEMMA MapHandlesGrants ==
    ASSUME Typed, Grants, MapStep, MapHandles \/ M!ChrifCharSelectAck
    PROVE  Grants'
<1>1. CASE M!ChrifConnectAck
  <2>1. fromMap' = Append(fromMap, [type |-> "maps"]) /\ UNCHANGED <<mapAuth, pc>>
        /\ CalmToMap
    BY <1>1, HushFrom DEF M!ChrifConnectAck, M!mapData
  <2>2. [type |-> "maps"] \in PlainFromMap
    BY DEF FromMapMsg, PlainFromMap
  <2>3. CalmFromMap
    BY <2>1, <2>2, KeepsAppend DEF CalmFromMap
  <2> QED BY <2>1, <2>3, PlayersKept, NodesKept, CalmMap
<1>2. CASE M!ChrifAuthFail \/ M!ChrifSaveAck \/ M!ChrifDisconnectPlayer
           \/ M!ChrifCharSelectAck
  <2>1. /\ mapAuth' = mapAuth \/ \E a : mapAuth' = M!IdbRemove(mapAuth, a)
        /\ UNCHANGED <<pc, fromMap>> /\ CalmToMap
    BY <1>2, HushFrom
       DEF M!ChrifAuthFail, M!ChrifSaveAck, M!ChrifDisconnectPlayer, M!ChrifCharSelectAck,
           M!AuthDelete, M!mapData
  <2> QED BY <2>1, PlayersKept, NodesKept, CalmSame, CalmMap
<1> QED BY <1>1, <1>2, OnReadyGrants, AuthOkNodeGrants, RegistersGrants DEF MapHandles

-----------------------------------------------------------------------------
(* Links, processes and clients.                                           *)

\* A link that opens or closes, and a process that dies, leave plain packets only,
\* and take nothing from the stages but all of it.
LEMMA CalmAll ==
    ASSUME Grants, CalmToChar, CalmFromChar, CalmToMap, CalmFromMap,
           UNCHANGED <<authDb, issued, granted>>,
           CharList', Players', LoginNodesKept
    PROVE  Grants'
<1>1. Keys' /\ Links'
  BY CalmLinks DEF Grants, Keys, Links
<1>2. StillKept
  BY CalmQuiet DEF StillKept, Still
<1>3. Waits'
  BY <1>2 DEF Grants, Waits, SureNode, StillKept, Confirmed, M!LoggingIn, LoginNodesKept
<1> QED BY <1>1, <1>3 DEF Grants

LEMMA Unchanged ==
    ASSUME Grants, UNCHANGED granted
    PROVE  /\ UNCHANGED <<charSess, charAuth>> => CharList'
           /\ UNCHANGED pc => Players'
BY DEF Grants, CharList, Players, Confirmed

LEMMA CalmFresh ==
    ASSUME Typed
    PROVE  /\ \A q : toChar' = [toChar EXCEPT ![Self] = q] /\ q \in Seq(PlainToChar)
                        => CalmToChar
           /\ \A q : fromChar' = [fromChar EXCEPT ![Self] = q]
                     /\ q \in Seq(PlainFromChar) => CalmFromChar
           /\ toMap' \in Seq(PlainToMap) => CalmToMap
           /\ fromMap' \in Seq(PlainFromMap) => CalmFromMap
<1>1. ASSUME NEW q \in Seq(PlainToChar), toChar' = [toChar EXCEPT ![Self] = q]
      PROVE  CalmToChar
  <2>1. toChar'[Self] = q
    BY <1>1, SelfAssumption DEF SelfAssumption, Typed, ToCharLink
  <2> QED BY <2>1, KeepsOnly DEF CalmToChar
<1>2. ASSUME NEW q \in Seq(PlainFromChar), fromChar' = [fromChar EXCEPT ![Self] = q]
      PROVE  CalmFromChar
  <2>1. fromChar'[Self] = q
    BY <1>2, SelfAssumption DEF SelfAssumption, Typed, FromCharLink
  <2> QED BY <2>1, KeepsOnly DEF CalmFromChar
<1>3. toMap' \in Seq(PlainToMap) => CalmToMap
  BY KeepsOnly DEF CalmToMap
<1>4. fromMap' \in Seq(PlainFromMap) => CalmFromMap
  BY KeepsOnly DEF CalmFromMap
<1> QED BY <1>1, <1>2, <1>3, <1>4

LEMMA LinkGrants ==
    ASSUME Typed, Grants, LoginLinkUp \/ LoginLinkBreaks \/ MapLinkUp \/ MapLinkBreaks
                          \/ CharCrash \/ MapCrash
    PROVE  Grants'
<1>0. /\ << >> \in Seq(PlainToChar) /\ << >> \in Seq(PlainFromChar)
      /\ << >> \in Seq(PlainToMap) /\ << >> \in Seq(PlainFromMap)
      /\ <<[type |-> "connected"]>> \in Seq(PlainToChar)
      /\ <<[type |-> "connectAck"]>> \in Seq(PlainToMap)
  BY DEF PlainToChar, L!ToCharMsg, PlainToMap, ToMapMsg
<1>1. UNCHANGED <<authDb, issued, granted>>
  BY DEF LoginLinkUp, LoginLinkBreaks, MapLinkUp, MapLinkBreaks, CharCrash, MapCrash,
         L!ParseRequestConnection, L!ChrifOnDisconnect, L!loginHistory, loginVars
<1>2. CASE LoginLinkUp
  <2>1. UNCHANGED <<charSess, charAuth, mapAuth, pc, toMap, fromMap>>
    BY <1>2 DEF LoginLinkUp, C!CharConnectsLogin, C!charData, mapVars
  <2>2. CalmToChar /\ CalmFromChar
    BY <1>0, <1>2, CalmFresh DEF LoginLinkUp, L!ParseRequestConnection
  <2> QED BY <1>1, <2>1, <2>2, Unchanged, NodesKept, CalmSame, CalmAll
<1>3. CASE LoginLinkBreaks
  <2>1. UNCHANGED <<charSess, charAuth, mapAuth, pc, toMap, fromMap>>
    BY <1>3 DEF LoginLinkBreaks, C!CharLoginLost, C!charData, charVars, mapVars
  <2>2. /\ toChar' = [toChar EXCEPT ![Self] = << >>]
        /\ \/ fromChar' = [fromChar EXCEPT ![Self] = << >>]
           \/ fromChar' = [fromChar EXCEPT ![Self] = fromChar[Self]]
    BY <1>3 DEF LoginLinkBreaks, L!ChrifOnDisconnect
  <2>3. [fromChar EXCEPT ![Self] = fromChar[Self]] = fromChar
    BY DEF Typed, FromCharLink
  <2>4. CalmToChar /\ CalmFromChar
    BY <1>0, <2>2, <2>3, CalmFresh, CalmSame
  <2> QED BY <1>1, <2>1, <2>4, Unchanged, NodesKept, CalmSame, CalmAll
<1>4. CASE MapLinkUp
  <2>1. UNCHANGED <<charSess, charAuth, mapAuth, pc, toChar, fromChar>>
    BY <1>4 DEF MapLinkUp, M!ChrifConnect, M!mapData, C!LoginMapServer, C!charData
  <2>2. CalmToMap /\ CalmFromMap
    BY <1>0, <1>4, CalmFresh DEF MapLinkUp
  <2> QED BY <1>1, <2>1, <2>2, Unchanged, NodesKept, CalmSame, CalmAll
<1>5. CASE MapLinkBreaks
  <2>1. UNCHANGED <<charSess, charAuth, mapAuth, pc, toChar, fromChar>>
    BY <1>5 DEF MapLinkBreaks, M!ChrifLost, M!mapData, C!MapifOnDisconnect, charVars, mapVars
  <2>2. toMap' \in {toMap, << >>} /\ fromMap' \in {fromMap, << >>}
    BY <1>5 DEF MapLinkBreaks
  <2>3. CalmToMap /\ CalmFromMap
    BY <1>0, <2>2, CalmFresh, CalmSame
  <2> QED BY <1>1, <2>1, <2>3, Unchanged, NodesKept, CalmSame, CalmAll
<1>6. CASE CharCrash
  <2>1. UNCHANGED <<mapAuth, pc, toChar, fromChar, toMap>> /\ fromMap' = << >>
    BY <1>6 DEF CharCrash, mapVars
  <2>2. DOMAIN charSess' = {} /\ DOMAIN charAuth' = {}
    BY <1>6, SameNone DEF CharCrash, C!CharRestart, NoEntries
  <2>3. CharList'
    BY <2>2 DEF CharList
  <2> QED BY <1>0, <1>1, <2>1, <2>3, Unchanged, NodesKept, CalmFresh, CalmSame, CalmAll
<1>7. CASE MapCrash
  <2>1. /\ UNCHANGED <<charSess, charAuth, toChar, fromChar>>
        /\ toMap' = << >> /\ fromMap' = << >>
    BY <1>7 DEF MapCrash, charVars
  <2>2. DOMAIN pc' = {} /\ DOMAIN mapAuth' = {}
    BY <1>7, SameNone DEF MapCrash, M!MapRestart, NoEntries
  <2>3. Players' /\ LoginNodesKept
    BY <2>2 DEF Players, LoginNodesKept
  <2> QED BY <1>0, <1>1, <2>1, <2>3, Unchanged, CalmFresh, CalmSame, CalmAll
<1> QED BY <1>2, <1>3, <1>4, <1>5, <1>6, <1>7

\* Only ConnectMap needs the registries to be prompt.
LEMMA ClientGrants ==
    ASSUME PromptRegistries, Typed, Grants, NEW t \in Token,
           \/ ConnectChar(t) \/ SelectChar(t) \/ ConnectMap(t)
           \/ RequestCharSelect(t) \/ Leave(t)
           \/ ClosesConnection(t) \/ ServerCloses(t)
    PROVE  Grants'
<1>0. /\ client[t].acc \in Account
      /\ client[t].at \in {"toMap", "map"} => client[t].char \in Char
  <2>1. client[t] \in Client
    BY DEF Typed, Clients
  <2> QED BY <2>1 DEF Typed, Clients, Client
<1>1. CASE ConnectChar(t)
  BY <1>0, <1>1, CharConnectGrants DEF ConnectChar
<1>2. CASE SelectChar(t)
  BY <1>2, CharSelectGrants DEF SelectChar
<1>3. CASE ConnectMap(t)
  BY <1>0, <1>3, ConnectMapGrants DEF ConnectMap
<1>4. CASE RequestCharSelect(t)
  BY <1>4, RestartGrants DEF RequestCharSelect
<1>5. CASE Leave(t)
  <2>1. UNCHANGED <<authDb, issued, granted, charSess, charAuth, mapAuth, pc,
                    toChar, fromChar, toMap, fromMap>>
    BY <1>5 DEF Leave, loginVars, charVars, mapVars
  <2> QED BY <2>1, Unchanged, NodesKept, CalmSame, CalmAll
<1>6. CASE ClosesConnection(t)
  BY <1>6, CharEofGrants, MapEofGrants DEF ClosesConnection
<1>7. CASE ServerCloses(t)
  BY <1>7, CharEofGrants, MapEofGrants DEF ServerCloses
<1> QED BY <1>1, <1>2, <1>3, <1>4, <1>5, <1>6, <1>7

LEMMA InitGrants == Init => Grants
<1> SUFFICES ASSUME Init PROVE Grants
  OBVIOUS
<1>1. /\ DOMAIN authDb = {} /\ DOMAIN charSess = {} /\ DOMAIN charAuth = {}
      /\ DOMAIN pc = {} /\ DOMAIN mapAuth = {}
  BY SameNone DEF Init, L!LoginInit, C!CharInit, M!MapInit, NoEntries
<1>2. \A u \in Token : granted[u] = 0
  BY DEF Init, L!LoginInit
<1>3. Keys
  BY <1>1, <1>2 DEF Keys
<1>4. Links
  BY SelfAssumption DEF SelfAssumption, Init, L!LoginLinksInit, Links
<1> QED BY <1>1, <1>3, <1>4 DEF Grants, CharList, Players, Waits, M!LoggingIn

LEMMA NextGrants ==
    ASSUME PromptRegistries, Typed, Grants, [Next]_vars
    PROVE  Grants'
<1>1. CASE CharHandles \/ CharTimers
  BY <1>1, CharHandlesLoginGrants, CharHandlesMapGrants, CharTimersGrants
     DEF CharHandles, CharHandlesLogin, CharHandlesMap, CharTimers
<1>2. CASE MapHandles \/ CharSelectAck
  BY <1>2, MapHandlesGrants DEF MapHandles, CharSelectAck
<1>3. CASE MapTimers \/ MapPlays
  BY <1>3, MapTimersGrants, MapPlaysGrants DEF MapTimers, MapPlays
<1>4. CASE UNCHANGED vars
  <2>1. UNCHANGED <<authDb, issued, granted, charSess, charAuth, mapAuth, pc,
                    toChar, fromChar, toMap, fromMap>>
    BY <1>4 DEF vars, loginVars, charVars, mapVars
  <2> QED BY <2>1, Unchanged, NodesKept, CalmSame, CalmAll
<1> QED BY <1>1, <1>2, <1>3, <1>4, LoginHandlesGrants, LoginTimersGrants, LogInGrants,
           ClientGrants, LinkGrants
        DEF Next, Handlers, Others

\* Whoever is at the character list or in the game came with a key that the
\* login-server confirmed, whatever faults happen, as long as a client comes to the
\* map-server only after the registries its account asked for earlier arrived.
THEOREM PlayersWereGranted == PromptRegistries => (Spec => []AuthedWasGranted)
<1> SUFFICES ASSUME PromptRegistries PROVE Spec => []AuthedWasGranted
  OBVIOUS
<1>1. Init => Typed /\ Grants
  BY InitTyped, InitGrants
<1>2. (Typed /\ Grants) /\ [Next]_vars => (Typed /\ Grants)'
  BY NextTyped, NextGrants
<1> QED BY <1>1, <1>2, GrantsImply, PTL DEF Spec
=============================================================================
