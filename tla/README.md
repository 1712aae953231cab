# Renewal in TLA+

Renewal (RagEmu, a fork of Hercules) is a server for Ragnarok Online: three
processes written in C that talk over TCP. This directory models them in TLA+,
checks the models with TLC and proves theorems about them with TLAPS. It starts
with what the three processes must agree on and no test of the repository
reaches: who is logged in, who is playing which character, and whether the
character's data is ever lost or put back to an older state. It goes on with what
the players do to each other through the servers: trades, shops and letters, the storage
a guild shares, and parties.

## 1. The system

| Process / library | Source | State it keeps | Operations |
|---|---|---|---|
| login-server | `src/src/login/` | `auth_db` (keys not used yet), `online_db` (char-server of each account, a timer), `server[]`, the account table (SQL), IP bans | log in; answer a char-server's auth request; online / offline / list reports; kicks; timers; account attributes |
| char-server | `src/src/char/` | `online_char_db`, `auth_db`, client sessions, `char_db_` (cache of what was saved), link states, tables (SQL) | connect, select / create / delete characters, PIN code; save, load and hand over characters; parties, guilds, mail, auctions, storage, registries |
| map-server | `src/src/map/` | active characters, `auth_db` (logging in / last save not confirmed), the world, parties, guilds, trades, shops, instances, NPC scripts | enter, play, save, leave; several hundred client packets; timers |
| common | `src/src/common/` | session table and FIFOs, timer heap, databases, entry stores | sockets, timers, `DBMap`, `ers`, plugins, SQL, configuration |

How they interact: every process runs one event loop (`do_sockets`, then
`do_timer`), so a handler is atomic inside its process and all concurrency is
between processes. A client logs in at the login-server and gets a pair of random
numbers, presents it to the char-server (which asks the login-server), chooses a
character (which leaves a node in the char-server's `auth_db`), and presents the
pair to the map-server (which asks the char-server). The map-server then has the
character's data, requests its registries (answered by the char-server and,
through it, the login-server), and the character is in play. It leaves by closing
the connection or going back to the character list; the map-server sends the last
save and keeps the data in its own `auth_db` until the char-server confirms it.
Any server may be asked to kick an account, at any point of this.

What is hard here: packets that cross on a link, answers to questions of a session
that is gone, kicks that meet saves on their way, links that break with packets on
them, processes that are started again with empty databases, timers that stand
for two things. `PROJECT.json` lists each hazard with its line.

What makes each part correct:

* login-server: a key is confirmed once; only an account's newest key counts;
  accounts are held only by char-servers that exist; a refused player gets in.
* char-server: no session is served but for a confirmed login; one session of an
  account at the character list; an account it marks in the game is in the game,
  or is given up in the end; saved data is never replaced by older data.
* map-server: a character has one owner (in play, or a node); session data is
  freed once and used by nobody after; what was played is saved.
* the three together: a ledger of characters (section 3, `CharacterLedger`).
* exchanges (trade, shops, buying stores, storage): items and zeny are conserved,
  what changes hands is what the other side was shown, and what one exchange counts
  on is not taken by another.
* guild storage: one member at a time, and copy and rows agree whoever leaves, is
  expelled, or loses the link.
* mail: what is in a letter is in one place, and the copy of an inbox shows no letter
  as empty that is not.
* auctions: bids are honoured in whatever order they arrive; item, bids and fee are
  conserved between map-server, char-server and letters.
* parties: three copies (map-server, char-server, tables) agree once no message is
  on its way; one leader; every member is a member of one party.
* common: timer ids, databases under iteration, FIFO bounds.

## 2. Plan

| Order | Module | Models | Abstract spec / properties | State |
|---|---|---|---|---|
| 1 | `Idb` | the `idb_` operations | | done |
| 2 | `LoginServer` | login.c | key used once, newest key | done, proved |
| 3 | `CharServer`, `MapServer` | char.c; chrif.c and the entry and exit of a character | | done |
| 4 | `SessionSystem` | the three servers, links, crashes, clients | `CharacterLedger` (refinement), liveness | done; ownership, types, confirmed keys, the ledger and its refinement proved |
| 5 | `Inventory`, `Exchange` | trade.c, vending.c, buyingstore.c, the personal part of storage.c, items of pc.c | conservation, exclusion, as shown | done; types, exclusion and agreement proved |
| 6 | `GuildStorage` | storage.c with int_storage.c, and what of guild.c they need | lock, copy and rows; liveness of the lock | done; every invariant proved |
| 7 | `IntParty`, `Party` | int_party.c; party.c with the link | agreement of copies; liveness of what was asked | done; types and the range of levels proved |
| 8 | `Mail` | mail.c, its half of clif.c and intif.c, int_mail.c, over `Exchange` | conservation across the link, the inbox in sync | done; the inbox in sync and the types proved, and that what is proved of `Exchange` stays true |
| 9 | `Auction` | int_auction.c, its half of clif.c and intif.c, over `Mail` | conservation, bids honoured | done; types and that bids are honoured proved, and that what is proved of `Exchange` and `Mail` stays true |
| 10 | `CharSave` | `char_mmo_char_tosql` section by section | tables = last save | one section (the party of a character) is in `Party` |
| 11 | `Timer`, `Db`, `Ers` | timer.c, db.c, ers.c | id reuse, iteration with removal, free lists | later |
| 12 | `Guild`, `Pincode`, `IpBan`, `Instance`, `Mapreg` | each source | agreement, conservation, life cycles | later |

Theorems still worth proving: the agreement of copies in `Party`, which needs to say what
each message on its way will do to the copies; and the conservation laws of `Exchange`,
`Mail` and `Auction`, which are sums over players, links, letters and slots.

## 3. Modules

* `Idb`: a database is a function whose domain is the set of stored keys.
* `LoginServer`: `authDb`, `onlineDb`, `server` and one action per handler. An
  account is a number, because one packet is read at another offset than it is
  written (`IdRead`). A `Token` is the pair of random numbers of one login; two
  logins never draw the same. `issued`, `newest` and `granted` are history. Its own
  `Spec` puts it among char-servers of which nothing is assumed but the form of
  their packets.
* `CharServer`: `charAuth` (`auth_db`), `onlineChar` (`online_char_db`), `charSess`
  (client sessions), `loginFd`, `mapFd`, and `sql`, the version of each character in
  the tables. Actions have the names of the handlers without `char_parse_`.
* `MapServer`: `pc` (active characters), `mapAuth` (chrif.c's `auth_db`), `mapSess`
  (sockets with `session_data`), `chrif`. `latest` is history: the last version of a
  character's data that the game made.
* `SessionSystem` composes the three, with the links as sequences of packets, a
  client per login, faults and fairness. `Next` is the whole system;
  `AnyLoginNext` replaces the login-server by one that admits and kicks as it
  likes, so that what holds under it does not rest on the login-server's policy.
* `CharacterLedger` is the abstract specification: a character is away, in play, or
  left with its last save unconfirmed; the tables only go forward.
  `SessionSystem!KeepsLedger` is the refinement.
* `Inventory`: what pc.c does to slots and zeny (`PcAddItem`, `PcDelItem`,
  `PcCheckAddItem`, `PcPayZeny`, `PcGetZeny`), as functions from slots to slots. An
  item stands for all that must be equal for two units to share a slot; `Name` is its
  nameid alone, because `pc_checkadditem` looks at that.
* `Exchange`: `sd`, the part of each player's session data that trades, shops,
  buying stores, cart, storage and floor use, and one action per packet handler.
  `shown` is what the clients show of each other's offers, `strayed` who asked for a
  trade out of a chat room while in one: both are history. Leaving the map, or the
  game, ends what a player was doing (`LeftMap`, `Quit`), and who leaves is back at
  once with what it carried. `Emptied` notes which slots of a deal were emptied since
  they were put into it: by `UseUp`, and by an auction, which does not look for trades.
* `Mail` extends `Exchange`: `letter` (what a player encloses in the letter it writes),
  `inbox` (the map-server's copy, with `changed`), `rows` (the table), and the two
  directions of the link. One action per client packet, per request the char-server
  parses and per answer the map-server parses.
* `Auction` extends `Mail`: `offer` (the slot a player would auction), `auctions` and
  `nextAuction`. The char-server keeps its auctions in memory and in a table, and every
  handler changes both in the same way, so one variable stands for both and a restart,
  which reads the table again, changes nothing. What the map-server takes from a seller
  or bidder goes on the link of `Mail`; what an auction gives goes into the letters of
  `Mail`. `ItemsConserved` and `ZenyConserved` count all of it: players, floor, link,
  letters and auctions.
* `GuildStorage`: the map-server's copy of one guild's storage (`opened`, `locked`,
  `dirty`, as in the source), the rows of the database, the members' own items, and
  the two directions of the link. Expelling a member who is offline makes the
  char-server take guild-bound items out of that member's rows; the answer passes
  through the map-server and back. `slips` is history: which of the known gaps of the
  code this behaviour has met (section 4).
* `IntParty`: the char-server's parties (its memory and its rows) and what each
  request does to them. `Party`: the map-server's half (`party_db`, the party fields
  of session data), the link between the two, saves and deletion of characters, loss
  of the link, restart of the char-server. The link here is one queue of requests and
  one of answers; what a loss does to a session is `SessionSystem`'s subject.
* `LoginServerProofs`, `SessionSystemProofs`, `SessionLedgerProofs`,
  `ExchangeProofs`, `PostProofs`, `GuildStorageProofs`, `PartyProofs`: theorems. `FoldTheorems`: what they
  need to know of the folds, sums and extrema of the community modules. `MC*`: instances
  for TLC.

Definitions marked `Mutant:` are faulty variants of the operation that follows
them, used by no specification. They are there to show that a property can fail:
put in place of that operation, each makes the property it was written for fail.

Correspondence worth knowing:

* A handler is one action with every send and every database change it makes.
  A send on a link the program considers closed is dropped, by the sender's own
  test (`chrif_isconnected`, `login_fd > 0`).
* Timers are flags without a clock: one that is set may go off at any later step.
* Data is a version number. 0 (`Blank`) stands for a character whose data never came.
* A link that breaks is noticed by its two sides in two steps. The side that closed
  reads nothing more; the other may still read what was sent to it before.
* A death of the char-server empties its databases and keeps the tables. A death
  of the map-server loses what was not saved, and what it still had in its
  send buffers: both directions of the link are emptied.
* A client connects again when its connection was closed on it, with the same
  token and character, as often as it likes, and leaves at any point.

## 4. Runs

Runs of the sessions: all runs of `SessionSystem` have one account with one character: the databases are
keyed by account, handlers touch one account at a time, and what interferes are
sessions of the same account. One char-server, as in the shipped configuration
(`LoginServer` alone is checked with two), and one map-server, since
`MAX_MAP_SERVERS` is 1.

| Run | Instance | Shows |
|---|---|---|
| `login_server` | 1 account, 2 keys, 2 char-servers, 1 packet per link | `TypeOK`, `GrantedOnce`, `AuthIsNewest`, `HeldByConnected` |
| `relogin` | any login-server, 2 sessions, 2 versions, all timers | `PlayingOrInAuthDb`, `SessionData` |
| `faults` | any login-server, 1 session that comes back, 2 packets, 2 versions, one fault of four kinds, all timers | `TypeOK`, `NoRollback`, `NothingLost`, `KeepsLedger` |
| `three_servers` | all three, 2 logins of one account, links prompt | `AuthedWasGranted` |
| `progress` | all three, fair, 1 login, one fault (link or char-server) | `RetriedGetsIn`, `LeftIsSaved` |
| `exchange` | up to 3 players, 16 setups | `TypeOK`, `PartnersAgree`, `OneExchangeAtATime`, `PostTypeOK`, `InboxInSync`, `ItemsConserved`, `ZenyConserved`, `BidsHonoured`, `TradedAsShown`, `PurchasedAsSeen`, `SoldAsSeen` |
| `guild_storage` | 2 members, 3 setups | `TypeOK`, `OneAtATime`, `CleanIsSaved`, `EveryUnitKept`, `BrokenHasNone`, `LockEnds` |
| `party` | 3 characters, 2 parties, 8 setups | `TypeOK`, `CopiesAgree`, `LeadersAgree`, `DataIsOfMembers`, `SdIsOfParty`, `RowsFollow`, `NobodyTwice`, `ShareInRange`, `MembersAsAsked`, `AskedIsAnswered` |
| `online_list` | login-server alone | violated: `ListMarksOnline` |
| `unused_key` | all three, 2 logins | violated: `AuthNodeExpires` |
| `two_sessions` | all three, 2 logins | violated: `OneAuthedSession` |
| `late_registries` | all three, 1 login, no wait for registries | violated: `NoRollback` |

Bounds, all constants:

* `MaxQueue`: packets on a link before something that no packet called for (a
  client, a timer, the game) sends more. Answers are never held back. With 1, an
  answer and a spontaneous packet still cross; `faults` has 2.
* `MaxVer`: changes to a character; 2 lets an old save and a new one be on the way.
* `MaxFaults`, `Faults`: one fault at a time, at any moment; the reconnection after
  it is no fault. `Timers`: the timers an instance lets go off.
* `PromptLinks`: links whose packets are handled before anything else happens. Only
  `three_servers`, `progress` and the violations use it, for the size of the state
  space; `relogin` and `faults` have packets wait on both links for as long as they
  like, over a login-server that does more than the real one.
* `PromptRegistries`: a client connects to the map-server only once the registry
  answers its account asked for earlier arrived. Without it `NoRollback` fails: that
  is the finding of `late_registries`, and the assumption keeps it from hiding others.
* Token symmetry in the safety runs: tokens are only compared.
* No deadlock is checked: with its keys used up and its clients gone, the bounded
  system rests, and that is a state the program is in every night.

Setups. `Exchange`, `GuildStorage` and `Party` have too many operations for all of
them at once: a setup, chosen in the initial state, says what the players have and
which kinds of handlers they use, so that one run covers several instances and each
kind of handler meets those that share state with it.

* `exchange`: `Partners` (three players ask and answer; one is in a chat room, one
  leaves and warps), `Trading` (two trade items while the world takes from one and a
  third, loaded to the limit, hands it loot), `Purses` (zeny at `MaxZeny`), `Vending`
  (a vendor, a customer with a nearly full bag, shops closed and opened again), `Restocking`
  (a vendor who changes what is in the cart), `Buying`
  (a buying store whose owner spends elsewhere, a seller), `Everything` (all a player
  can have open, at once or one after the other). Two units in a slot, two slots, two
  entries in a deal: enough for an amount to exceed what is left, for a slot to be
  emptied and used again, and for the second entry to fail after the first.
  With mail: `Writing` (one letter can be written; its writer and reader come and go),
  `FullInbox` (more letters than an inbox holds, one of the auction house, more in them
  than can be carried), `Returning` (a letter that can be taken, deleted and returned),
  `Correspondence` (who trades has a letter on its way that comes back). With auctions:
  `Bidding` (three bid for what one of them sells), `Registering` (what is traded is
  auctioned), `Refilling` (so it is while a third player, who carries all it can, hands
  over something that takes the emptied slot), `Relisting` (one who sells as much as it may offers more, drops it, and
  leaves), `Collecting` (who leads one auction bids for another, comes and goes, and opens
  what it gets). A player sells, or leads, one auction at most (`MaxOwn`, 5 in the
  code), two are ever held; a price of 3 leaves room for one bid and a higher one below the price to
  buy at. An inbox holds `MaxInbox` = 2 letters, `MaxMails` = 5 are ever stored, at most `MaxWaiting` = 2 messages
  are on the link when a player does something, the link is lost at most once and only
  where mail or auctions are used. While somebody is away the others only use their mail
  and auctions, and who uses those neither keeps a shop nor leaves otherwise.
* `guild_storage`: `InTurns` (two members on the map, nobody leaves; 3 messages on
  the link before another spontaneous act), `Expulsion` (one member is off-line and
  owns an item of the guild; 2), `Leaving` (both on the map; 1). One unit of each of
  two items, one of them bound to the guild: a unit doubled or lost shows.
* `party`: `Sharing`, `Meeting`, `Leading`, `Quitting`, `Joining`, `Inviting`,
  `Losing`, named for what their players do; 2 messages on the link (3 in `Leading`),
  four levels with a share range of 2 (so that a level can pass the end of the range from
  within), one loss of the link.

Exceptions. A property says what the code promises, and where the code is known to
break the promise in a narrow case, the case is a conjunct of the property or a name
in `slips`, so that the property still binds everywhere else:

* `Exchange`: a trade asked for out of a chat room while in one leaves a partner
  behind (`strayed`); a customer with a full bag pays and gets nothing; zeny above
  `MAX_ZENY` is lost, and so is the tax; the first shop of a server has the id 0,
  which is `vended_id` of who read no list; at the commit of a trade an item the
  other side can no longer carry stays where it is, and what is traded out of a slot
  that was emptied meanwhile, by the world or by an auction of the same item, is what
  the slot holds then (`gone`).
* `Mail`: a letter without a title takes its enclosure with it (`clif_parse_Mail_send`
  removes it first); so does one on the link when the link is lost, and one deleted
  after a request about it was lost; an enclosure that arrives where its player is gone,
  has no slot, or would have more than `MAX_ZENY`, is lost as far as it does not fit. An
  inbox may show an enclosure that was taken out: opening an unread letter asks for the
  inbox before it asks for the enclosure, and the answer is older than the request.
* `Auction`: the fee of an auction is gone; what a refused auction or bid gives back is
  lost where an enclosure would be.
* `GuildStorage`: `destroyed` (`pc_bound_clear` deletes guild items when the storage
  is not loaded or full), `unsaved` and `shut` (a member who leaves closes the storage,
  without saving it, under another member), `overtaken` (what the char-server
  retrieved from rows is ignored by a map-server that has the storage open or dirty, or
  reaches it when a save of the copy without them is already behind it on the link),
  `twice` (a character enters while its rows are being retrieved from), `early` (the
  answer to an older save clears `dirty`), `lost` (the link breaks while the storage
  is locked: the lock stays).
* `Party`: `lost`; `crossed` (an info was sent before the char-server handled a change
  of leader); `doubled` (an info comes to a copy in which two lead); `two` (an invitation is accepted by who is in another party by then);
  `kept` (joined and left between two saves: the save equals the cached copy, the row
  keeps the party); `away` (left while not in the game); `again` and `stale` (the
  char-server was started again, with a row that was not saved); `leapt` (the char-server
  hears of a level that is no neighbour of the one it knew: the range is looked at only
  if the old level was at its end). `DataIsOfMembers`, `LeadersAgree`, `CopiesAgree`,
  `NobodyTwice` and `MembersAsAsked` make more use of these than their first statement
  did, which smaller instances refuted: a char-server started again with a row that
  was not saved adds a member twice or reads one who had left (`stale`), and puts a
  member of two parties in the one the table has (`Divided`: `two` with `again`). The
  setup `Dividing` has the latter. `LeadersAgree` binds after a crossing as well: in no
  case are there two leaders at the char-server or three in a copy, and once the link is
  quiet who leads at the char-server leads in the copy too, if beside the old leader;
  only an info that comes to a copy with two (`doubled`) can leave it the wrong one.

No deadlock is checked in these runs either: with `MaxLosses` and `MaxShops` used up
and everybody gone there may be nothing left to do.

Fairness. `GuildStorage` and `Party` assume that a message on a link that is up is
handled and that a lost link is made again (the event loop, and the interval timer of
chrif.c); nothing is assumed of players. `Party` states fairness of "the first
message is taken off", which is what every handler does, whatever else it does.
In `progress`: the event loop gets to every packet that arrived, every
session at its end and every timer that is set, and lost links are made again by the
interval timers of chrif.c and char.c. Nothing is assumed of clients or of the
game. Weak fairness is enough for packets; timers, sessions at their end and
reconnections have strong fairness because `Prompt` and `MaxQueue`, which bound the
model and not the program, may withhold them again and again. `RetriedGetsIn`
assumes a player who keeps trying: it is a property of the refusals, so it is stated
with the strong fairness of `Refuses`.

## 5. Findings

1. `online_list`: `char_send_accounts_tologin` writes count and ids at offsets 4 (32
   bits) and 8; `login_fromchar_parse_online_accounts` reads them at 4 (16 bits)
   and 6. After a reconnection, and every hour, accounts in the game are not marked
   online, and other keys are.
2. `unused_key`: the timer that is to delete an unused key is deleted by the online
   report of another session of the account; the key stays.
3. `two_sessions`: the first session of an account at the character list is not
   remembered by its socket, so a second one is let in beside it.
4. `late_registries`: answers to registry requests of an earlier connection activate
   a later one before its character's data is there.

The models follow the code in all four; the properties of the passing runs hold in
spite of the first three.

## 6. Proofs

`LoginServerProofs`, for any accounts, keys, char-servers and queue bound:

* `LoginServerTypeOK`: `Spec => []TypeOK`. `TypeOK` is inductive.
* `LoginServerGrantedOnce` and `LoginServerAuthIsNewest`: `Spec => []GrantedOnce` and
  `Spec => []AuthIsNewest`. Neither is inductive: a key might be confirmed, and still be
  in `authDb`, or be drawn again. The invariant `GrantInv` adds that keys in `authDb` were issued and never confirmed,
  and that keys not issued were never confirmed.
* `LoginServerHeldByConnected`: inductive with `TypeOK`.

`SessionSystemProofs`, for any accounts, characters, keys, bounds and faults:

* `PlayingOrInAuthDbHolds` and `SessionDataHolds`: `Spec => []PlayingOrInAuthDb` and
  `Spec => []SessionData`; `AnyLoginOwnership`: both under any login-server.
* The inductive invariant is `Ownership`. `SessionData` alone is not inductive: a
  node's session might be one opened for another account or another character, and
  freeing a node would free the wrong session. `Ownership` adds that the session of
  a node was opened for its account and character, the session of a player for its
  account, and that no account has both (`PlayingOrInAuthDb`). There is one lemma
  per action of the map-server, over lemmas for what several of them do: close a
  session (`CloseSession`), free one (`FreeSession`), drop a node with its session
  (`AuthDeleteOwnership`), turn a player into a node (`MapQuitOwnership`). All other
  steps leave the three databases alone, which the proof of `NextOwnership` shows.

In the same module, what is stored and sent:

* `SessionSystemTypeOK`: `Spec => []TypeOK`; `AnyLoginTypeOK`: `AnyLoginSpec => []TypeOK`.
* `TypeOK` is not inductive: `Typed` adds that a client goes to the map-server only with a
  character it selected, else a node could be made for no character. There are lemmas for
  what is done to a database (`PutTyped`, `RemoveTyped`) and to a link (`SentTyped`,
  `TailTyped`), one per handler over these, and one per group of steps of `Next`.

In the same module, what is confirmed:

* `PlayersWereGranted`: `PromptRegistries => (Spec => []AuthedWasGranted)`. The condition is
  the one under which the run `three_servers` checks the property; without it registries
  that come late activate a player whose key nobody confirmed (finding `late_registries`).
* The property speaks of two servers, and three links lie between them and the
  confirmation. The inductive invariant `Grants` follows a key along its way: `Keys`, those
  still in `authDb` were issued and not confirmed; `Links`, packets that admit somebody speak
  of confirmed keys; `CharList`, so do authed sessions and `charAuth` of the char-server;
  `Players`, so do players; `Waits`, a client that waits for its data holds a confirmed key,
  or none of its account's registries has arrived or is on any link.
* Most handlers only take packets off a link and put on ones that admit nobody
  (`Keeps` and the `Calm` lemmas). The seven steps that confirm a key, carry the
  confirmation on or move registries have lemmas of their own, and the condition is
  used in one of them (`ConnectMap`).
  TLC found `Grants` to hold, with faults, before it was proved.

`SessionLedgerProofs`, over `SessionSystemProofs`:

* `DataIsNotSetBack` and `DataIsNotLost`: `PromptRegistries => (AnyLoginSpec => []NoRollback)`,
  and the same of `NothingLost`. `LedgerIsKept`: `PromptRegistries => (AnyLoginSpec =>
  KeepsLedger)`, the refinement of `CharacterLedger`, which the run `faults` checks.
  `ThreeServersKeepTheLedger`: all three of `Spec`. The condition cannot be dropped: without
  it `NoRollback` is violated (finding `late_registries`). It is used in one step,
  `ConnectMap`, which makes the node that late registries would activate.
* Neither property is inductive: data is old or lost because of what is on a link. A
  request of the map-server waits in `fromMap`, and its answer takes its place at the end of
  `toMap`: the two links are one line, and `Kept` speaks of the order in it. For each account
  some packets open the way into the game (the request to enter, and the data) and some
  close it (the final save, and its acknowledgement). While a node waits for its save to
  be confirmed nothing that closes is behind what opens (`OpenFirst`), else nothing that
  opens is in front of what closes (`CloseFirst`). `Packets` says what a packet may carry
  (a final save has the latest version, data is the latest unless the account is busy),
  `Rising` that saves of a character are in the order they were made, `Nodes` that one who
  enters has fresh data or that none of its registries was asked for.
* `Thins(q, r, P)` says that r is a link after a step that took packets off q and put on
  ones of the kind P: freedom and order of all other kinds stay. The `Follows` lemmas, one
  per handler, reduce each step to it, or to an opening, a closing, a save, a death.
  `Follows` is the invariant after the step together with the ledger's step, so the
  refinement is proved along the way. For `Spec` one more part is needed, `Admitted`: the
  login-server gives no key that a client has. TLC found `Kept` to hold, with faults, before
  it was proved.

`ExchangeProofs`, for any players, items, slots, limits and setups:

* `ExchangePartnersAgree` and `ExchangeOneAtATime`: `Spec => []PartnersAgree` and
  `Spec => []OneExchangeAtATime`.
* The inductive invariant `Honest` has them as parts (`Agree`, `OneOpen`), with the
  fields of session data they read (`Shaped`): without `Flags` a handler could pair a
  player with somebody who is none. Handlers are compositions of functions on session
  data (a purchase may make the vendor quit, which may cancel a trade), so the lemmas
  are about such functions: `Keeps(new, st)` says that `new` is as honest as `st`, and
  it is transitive. `TradesStay` and `PairEnds` are the two ways in which a step keeps
  `Agree`; the other lemmas reduce each handler to them. The two handlers that make a
  pair (`TradeRequestHonest`, `TradeAckHonest`) are proved directly.

* `MailKeepsExchanges`: `MailSpec => [](PartnersAgree /\ OneExchangeAtATime)`, with the same
  invariant. Letters change what a player carries and nothing `Honest` reads
  (`CarriedChanges`), whoever an answer is for; a departure is one of `Exchange`
  (`MailQuitHonest`). `PostKeepsExchanges`: the same of `PostSpec`, the whole system that the
  run `exchange` checks.
* `MailInboxInSync` and `PostInboxInSync`: `MailSpec => []InboxInSync` and
  `PostSpec => []InboxInSync`. The property is about a link with nothing of the player's on
  it; the invariant (`Synced`, claimed while the link was never lost, `InSync`) has to say
  what the messages on their way will make of a copy. `WillAgree` takes the last copy that
  is on its way, or the one the player has, and what comes behind it: unless a letter is
  announced there, what the deletions and returns behind it leave (`Left`) is what the table
  holds; a copy that was full (not all letters fit) agrees with what was listed, or a
  letter is taken out of it behind, which makes the map-server ask again. Or a request for a
  copy is already on the way (`Asking`). What a copy shows of a letter is what the table has,
  except for what was asked for since: `HeldBox` allows an enclosure to be gone early only
  while the request that takes it is on its way, and `SentBox` says that a copy on its way
  is not ahead of the table at all. That the char-server will do what was asked rests on
  `AsksRight`: a request is about a letter of the asker's, or one that is gone (ids are not
  used again, `Rows`), and in front of each `getattach` comes the `read` it depends on.
  One lemma per handler; `AppendAgrees`, `NewBoxAgrees` and `TailAgrees` are the three ways
  in which the link changes. After a loss none of this holds, and neither does the property.

In the same module, the types of the exchanges:

* `ExchangeTypeOK`: `Spec => []TypeOK`. Not inductive: the invariant `WellTyped` adds that a
  player's slots are tidy (`Tidy`: no item is in two slots, and a slot is empty exactly when it is no item's)
  and that no two entries of a buying store's list have the same name. Without the first,
  two entries of a trade could come into one slot together and pass `MAX_AMOUNT`; without the
  second, `buyingstore_trade` would test two entries of an offer against one wish and take
  more than is left of it. Tidiness itself rests on `Carded`: units of one name that have no
  cards share a slot.
* The handlers move several items at once. Each fold is shown to be a run (`FoldRun`), and a
  run stays in a set that each entry of a list leads from and to; the shape of these sets is
  the content: after the first k entries of a purchase or of an offer (`SoldUpTo`) the slots
  and wishes of the entries to come are as they were when they were tested. What is tested
  at once for the whole list (the price of a purchase, the limit of a buying store) bounds
  each entry's part by the laws of sums.

`PostProofs`, over `ExchangeProofs`, the whole system with mail and auctions:

* `PostTypesOK`: `PostSpec => [](TypeOK /\ PostTypeOK)`, the types of the whole system with mail
  and auctions. What a letter, an answer or an auction holds was typed where it was made, so
  the invariant `PostTyped` types the messages on both directions of the link
  (`ToCharTyped`, `ToMapTyped`: what each type of message hands over, and that the copy of an
  inbox on its way has no letter that was not stored). The ids need a count (`IdsLeft`):
  every auction leads to two letters, and so does every request for one; a letter and a bid
  on the link lead to one each. So no handler of the char-server runs out of ids, though
  only the map-server looks at the bound. That nobody sells more than it may, and that an auction going on
  is below its price to buy at, is what the handlers test.
* `PostBidsHonoured`: `PostSpec => BidsHonoured`, an action property over what is a player's
  (`Purse`, `Goods`): what it carries, and sums over its letters, over both directions of the
  link, and over the auctions it sells or leads. A valuation says what an enclosure is worth to
  whom (`ZenyFor`, `UnitsFor`); `RowsWorth`, `LinkWorth` and `HouseWorth` are the worth of the
  letters, of a direction of the link and of the auctions, and they come to the sums of the
  model. `WorthMoves` is the balance of a step of the char-server, which takes one message off
  the link, writes letters and sends news: what it takes off one it puts onto others.
  `HouseSettles` is the balance of the auctions. From these come the three outcomes: an auction
  ends for its leader or for nobody (`AuctionEnds`), is raised (`AuctionRaised`) or is bought
  (`AuctionBought`), whoever was outbid having its bid in a letter; and one lemma per
  handler says which outcome it has (`TimerHonours`, `CancelHonours`, `CloseHonours`,
  `BidHonours`). The property is about steps, so the invariant is `PostTyped`: it has to say
  that who leads an auction does not sell it, and that a bid on the link hands over its bid and
  no item. Every other step leaves the auctions alone, or starts one and so uses an id, and of
  these the property says nothing.

`GuildStorageProofs`, for any items, bounds and setups and any finite set of members:

* `GuildStorageTypeOK`, `GuildStorageOneAtATime`, `GuildStorageBrokenHasNone`,
  `GuildStorageCleanIsSaved` and `GuildStorageEveryUnitKept`: `Spec => []TypeOK`,
  `Spec => []OneAtATime`, `Spec => []BrokenHasNone`, `Spec => []CleanIsSaved`,
  `Spec => []EveryUnitKept`.
* None is inductive. For the first three the invariant `IInv` has four parts. `Shaped`
  types the fields and the messages on both directions of the link. `Session` says of a character, with those
  messages, where it is: who is on its way in is not there and has no save outstanding;
  the last save of who left, or the answer to it, is on the link once, and it is waited
  for. Without it a character could enter while it is there, and the one who has the
  storage open would no longer have it. `Holders` says who may have it open and when the
  storage counts as open. `Breaking` says that once the guild is gone nobody enters as a
  member behind the message that tells so; it makes what is left of a guild stay away.
  TLC found the invariant to hold in the setups of the run `guild_storage` before it was
  proved.
* What the map-server does is written as functions on its state, so the lemmas about
  them come first: those that save (`Calm`) keep who is there and open nothing, those
  that close (`Shut`) close it for all. Then there are two lemmas on what a step keeps of
  each part, and one lemma per action.
* `CleanIsSaved` needs `Clean` beside `IInv`: while nothing named by `slips` has disturbed
  the copy, `Order` holds, which has five parts. A copy that is dirty is loaded. With one
  that is not dirty there is no save on the link and no answer to one, unless an answer was
  taken for that of a later save. What was asked for before the copy was loaded comes in front of every save of it (`LoadsFirst`). Each
  storage on its way is as the rows are, or is followed by one that is, or by the answer to
  the save that changed them (`StoragesAre`). And the last save on the link
  carries what the copy holds, unless rows follow (`CopyIsWritten`). `Settling` and
  `Answering` say what is left to show for a step that sends a save or answers one; there is
  again one lemma per action.
* The proof found what two members cannot show. With three, the rows of two who left may be
  moved one after the other, and the first answer unlocks the storage while the second is
  outstanding. A member may then open it and change it, the answer to an older save clears
  `dirty`, and the rows reach the copy although a save of it without them is on the link:
  the database loses them with the save, and the copy, which has them, is not dirty. The
  history `overtaken` did not name this before; it does now, and an instance with three
  members has no other behaviour of the kind.
* `EveryUnitKept` speaks of a system at rest, and needs a sum that holds on the way there.
  `Held` adds up, per item, what counts of each place: the copy of the storage once it is
  loaded, but the rows while rows are on their way to replace it (`Stock`); of a member the
  session data until its last save has come in, its rows from then on (`Owned`). `Conserved`
  says that this is what there was at first. `Sheet` says why the change from one to the
  other is no change of the sum: the last save of who left is the last, carries what the
  session data says, and is answered; who enters comes with what the rows say. `Merging` says
  when rows on their way will replace the copy rightly: no save of the copy is on its way to
  write over them, and what was changed in the copy is saved, the answer coming in front of
  the rows. While it fails `Conserved` claims nothing; `Order` and what `slips` leaves out
  (`Keeping`) make sure that it does not fail when the rows arrive. A step either leaves
  every place as it is (`Untouched`) or moves units between the storage and one member
  (`Balanced`). At rest every place is its rows.

`PartyProofs`, for any finite sets of players and levels, any parties, bounds and setups:

* `PartyTypeOK` and `PartyShareInRange`: `Spec => []TypeOK`, `Spec => []ShareInRange`.
* The property is about the levels of who is online, but the handlers go by two
  numbers noted with the party, its least and its greatest level, and write them anew
  only when they can have changed. `Bounded` says that they are what they should be,
  `Shares` that who shares is within them, and `StaysBounded` when one place of a party
  may change without a look at the others: what goes is strictly between the two and
  what comes is between them. One lemma per request of the char-server follows from it.
* The proof fails for a level that changes by two or more at once and passes the end
  from within: the code does not notice. The history `leapt` says that
  this has happened, and the property does not speak of such behaviours. With the three
  levels of an earlier instance TLC did not find it; the instance has four now.
* The map-server's handlers are functions on what it has, and most of the work is to show
  that they keep it typed. Two of them fold over the places of a party and one over the
  players (`RecvInfo`, `ChrifOnReady`).

`FoldTheorems`, for any finite set:

* `Induct` is induction with a set in the place of the predicate, which the provers can
  use. From it: a finite set of integers has a greatest element (`MaxIs`), a fold of any
  function has a run (`RunExists`) and what it comes to is found element by element
  (`RunIsIn`), and the laws of sums (`SumOut`, `SumSame`, `SumChange`, and of two sets, images and
  sequences: `SumUnion`, `SumMoved`, `SumJoined`). A fold of the
  community modules is shown to be a run where it is used, because an operator given to it
  cannot be a parameter of a lemma.

The assumptions are those of the modules: accounts are finitely many
integers, and for every set of them there is a list, there is a character, slots and bounds
are naturals, slots are finitely many, a tax is at most the price, units of one name without cards are one item, the members of a guild are finitely many, so are players and their levels, setups are well formed, the letters there are at first have ids that are used up, the auctions there are at first go on and leave ids for the letters they lead to (`AuctionsAssumption`), the highest price of an auction is at least 1 and no more than a purse holds (`PricesAssumption`), `NoToken` is no token, `NoPlayer` no player, each character has an owner.

Only model-checked: the other properties of `Party` (each needs an invariant over what the
messages on all links say); the conservation laws and the `AsShown`/`AsSeen` properties of
`Exchange`, `Mail` and `Auction`, whose operators fold over sequences of offers with several
results at once and sum over all players, where what is proved of bids is about the steps of
the char-server and one player at a time; and liveness, which is out of the prover's reach
under fairness.

## 7. Not modelled

In the modelled handlers: account attributes (ban, expiry, sex, groups), maintenance
and slot restrictions, the PIN code, character creation and deletion, autotrade,
`ST_MAPCHANGE` (one map-server), the user counters, `0x2b18` (all characters
offline), failures of `pc_authok` and of SQL. A character's data is one version: of
the per-section cache of `char_mmo_char_tosql` only the section with the party is
modelled, in `Party`.

Beside the modelled exchanges: items that do not stack (equipment, pets), identified
and damaged items, the weight limit of the cart, rentals, NPC shops, the catalogue of
searchstore.c, and autotraders kept in the database. Of mail and auctions: texts, the
flood timer, the check of towns, the clients' lists and messages, how long an auction
lasts, failures of SQL. In `Exchange`
`UseUp` and the zeny of `World` stand for skills, ammunition and scripts. What a player
can carry never falls below what it carries (in the code an effect that wears off may
make it so), so that the unsigned difference at buyingstore.c:355, which then would wrap
and let the store accept anything, is never negative here.

Beside the guild storage: the 600 slots, failures of SQL,
several map-servers, the 16 bits to which packet 0x3056 cuts a guild's id,
`@cleargstorage`, the removal of items that left the item database. The guild itself
is there as its membership and whether it is broken; saves of characters take effect
at once here, `SessionSystem` is about them.

Beside parties: families (a party of three of different levels that shares because of
marriage and adoption), sharing of items, chat, instances, booking, party names (two
parties never ask for the same), and the requests that no code sends: `BreakParty`,
`CharOnline`, `CharOffline`.

Otherwise: combat, skills and status (formulae), the script engine and NPCs (an
interpreter over data), SQL, configuration, console and logs (input and output),
`HPMHooking` (generated), tools and vendored code. The remaining components of
section 2's plan are listed as `not_modelled` in `PROJECT.json` with their reasons.
