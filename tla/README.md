# Dmail in TLA+

Models, model-checking runs and proofs about Dmail: a Go daemon, `dmaild`, that sends
end-to-end encrypted mail over a libp2p DHT, either for one user (desktop mode) or for
the users of a server (multi-tenant mode, with accounts and server-to-server
federation).  Paths below are relative to the repository.

## The system

| Component | State it keeps | Operations |
|---|---|---|
| Receiving, multi-tenant (`pkg/daemon/multi_tenant.go`, `federation.go`, `api_multi.go`, `pkg/store/store_multi.go`, `pkg/auth/session_cache.go`) | `users`, `pending_packets` and `messages` tables; the in-memory session cache; `ProcessPendingPackets` goroutines; the poll loop | signup, login, `/federation/deliver`, `doPollAll`, `ProcessPendingPackets`, mark read, delete |
| Sending, multi-tenant (same files) | sender's and recipient's `messages` rows, status of the sent copy; send goroutines | `SendMessageForUser` (local and DHT routes), `SendMessageFederated`, read receipts |
| Single-user daemon (`pkg/daemon/daemon.go`, `api.go`, `pkg/store/store.go`) | `messages` table, poll loop, send goroutines | `SendMessage`, `doPoll`, mark read, delete |
| DHT node (`pkg/node/node.go`) | the libp2p host and its in-memory records | `Push`, `Poll`, `RegisterName`, `ResolveName`, two record validators |
| Names (`pkg/names`, and both daemons) | `names` table, DHT name records | register, resolve, cache, list own names |
| Identity (`cmd/dmaild/main.go`, `pkg/store`) | `keypair` table | load, create, restore from a mnemonic |
| Accounts (`pkg/auth`, `api_multi.go`) | `users` table, password hashes, JWTs | signup, login, `requireAuth` |
| Federation (`pkg/daemon/federation.go`) | HTTP requests in flight between two servers | resolve, deliver, the fallback to the DHT |
| Packets, proof of work, cryptography (`pkg/packet`, `pkg/pow`, `pkg/crypto`) | none | build, verify, decrypt, stamp, sign |
| Contacts, threads, search, directory | rows of their own tables | list, save, delete, query |
| Web page (`frontend/src/App.tsx` and below) | React state; the token in the browser's storage | load, login, signup, logout, status poll, views |
| Desktop supervisor (`frontend/electron/main.js`) | the daemon process, restart and kill timers | start, restart, quit |

How they interact: HTTP handlers run concurrently, one goroutine per request; a send or
a name registration goes on in a goroutine after the handler has answered 202, because
the proof of work takes seconds; one poll loop per daemon reads the DHT; all of them
share the SQLite tables, one statement at a time and without transactions.  The session
cache is the only shared memory.  Daemons share the DHT, which has ONE value per
recipient, and servers call each other's `/federation/*` endpoints.

What is hard here is what happens between statements: recording against logging in,
several goroutines working on snapshots of the same rows, statuses written by two
parties, contexts that are cancelled under a goroutine, the same packet seen again and
again, answers lost after the work was done, and a crash anywhere.  `PROJECT.json` lists
each of these under "hazards" with its line and the properties about it.

What makes each component correct:

- receiving: no mail that the server told another server it has is lost, none waits
  while its recipient is logged in, and a copy is filed only in its recipient's mailbox;
- sending: a status never claims what did not happen (a sender can only mark their own
  copy), an accepted mail has its rows, a mail to a local user, by key or name, stays
  local, a federated mail gets out of "sending";
- single-user daemon: a mail is filed at most once, a published one is filed, and what
  is out in the network has left a trace with its sender;
- federation: what the sender is shown as delivered is on the other server, once;
- names: a later claim never displaces an earlier one where that is known, and a
  daemon lists as its own only a name it published;
- desktop application: each launch has one daemon at a time, back after a crash, gone
  after a quit, and always with a key that the data directory keeps;
- accounts: a username has one owner, a token opens an account of its holder, and a
  page shows the account its requests are made for, until another tab changes the token.

## Modules

| Module | What it is |
|---|---|
| `MailContract` | the at-least-once contract of the multi-tenant server |
| `InboundMail` | receiving, multi-tenant; implements `MailContract` |
| `InboundMailProofs` | theorems about `InboundMail` |
| `OutboundMail` | sending, multi-tenant |
| `OutboundMailProofs` | theorems about `OutboundMail` |
| `OnceContract` | the at-most-once contract between single-user daemons |
| `DesktopMail` | single-user daemons and the DHT; implements `OnceContract` |
| `DesktopMailProofs` | theorems about `DesktopMail` |
| `Federation` | two servers: `OutboundMail` here, `InboundMail` there |
| `FederationProofs` | theorems about `Federation`, from those of its two halves |
| `NameRegistry` | registration and lookup of a name by daemons over the DHT |
| `NameRegistryProofs` | theorems about `NameRegistry` |
| `DesktopApp` | the Electron supervisor, its daemon processes and their identity |
| `DesktopAppProofs` | theorems about `DesktopApp` |
| `WebClient` | accounts of a server and the web pages that open them |
| `WebClientProofs` | theorems about `WebClient` |
| `MCInboundMail`, `MCOutboundMail`, `MCDesktopMail`, `MCFederation`, `MCNameRegistry`, `MCDesktopApp`, `MCWebClient` | constants of the instances TLC checks |

A module has one action for each step another goroutine can come between: a store
statement, a look at the session cache, a DHT or HTTP call.  Everything the code does
from one of these to the next is in the same action.  Every call that can fail has a
disjunct for its failure, switched on by a member of `StoreFaults` or `Faults`, so that
a run names the faults it has and a theorem the faults it excludes.  An operator whose
comment begins with "Mutant of" is not part of the model: it is a variant of the next
definition with a plausible mistake in it, used to confirm that a property can fail.

### InboundMail

`registered`, `pending` and `mailbox` are the `users`, `pending_packets` and `messages`
tables; a pending row's id is its index.  `session[u]` is the cached key of u, tagged
with the handler that put it; `dht[u]` the value in u's DHT slot; `task` the request
goroutines with the `ProcessPendingPackets` goroutines they start; `poller` the poll loop.

- `Signup`, `SignupPut`, `Login`, `SessionExpire`: `handleSignup` has two steps, since
  the account is visible before its session is cached; `Login` caches the session and
  starts processing.
- `Deliver`, `DeliverCheck`: `handleFederationDeliver` records the packet; then it
  looks at the session, starts processing if there is one, and answers 200 (`acked`).
- `GetSession`, `Fetch`, `SaveMessage`, `MarkSaved`, `MarkUnreadable`, `Finish`: the
  steps of `ProcessPendingPackets`; the batch is the snapshot it fetched.
- `PollStart`, `PollGet`, `PollRecord`: a round of `doPollAll`; it only records.
- `MarkRead`, `DeleteMessage`; `RemotePush` and `DhtExpire` are the DHT, external;
  `Crash` empties what is in memory.

Two packets in one second have the same `received_at`; the model fetches them in id
order.  A failed `fetch` ends the goroutine, as in the code.

### OutboundMail

`row[<<u, m>>]` is the row with key `u:m`; `pc[m]` says where the handler of a send, or
its goroutine, is.  `published`, `recorded` and `opened` are histories: what reached the
DHT, what another server recorded, what a user opened.  `answered` holds the sends whose
handler has returned: from then on the context that a DHT push of `SendMessageForUser`
runs under is cancelled.

- `SaveSent` begins each route.  Local: `FileLocally`, `CreditLocal`.  DHT: `SpawnPush`,
  `Build`, `Push`, `PutDone`, `CreditSent`.  Federated: `Build`, `DeliverFederated`, then
  `CreditDelivered` or `FallBack` and `CreditSent`.  `Answer` is the 202, concurrent with
  the goroutine.
- `FileForNobody` is what happens if `GetUserByPubkey` fails: its error is dropped and
  it returns a zero user, so the mail is filed under the empty user id.
- `MarkRead` and `Receipt` are the two halves of `handleMTMarkRead`; `DeleteMessage`;
  `Crash`, after which nothing resumes.

Name and host resolution, the session check and address parsing come before the first
write; a send that fails there changes nothing and is not a step.  `ViaHost` are the mails
addressed as `user@host`, with any host: `handleMTSendMessage` does not compare it with
its own, so mail to a local user by this server's own host takes the federated route like
any other.  What arrives of it is filed by `ProcessPendingPackets` under an id of its own,
which no read receipt relates to the sent copy; that half is `InboundMail`.  `Direct` are
the mails that `SendMessageForUser` delivers by itself.

`StatusIsEarned` takes "read" for earned if the recipient opened the mail.  It has to
excuse a sender who marks the sent copy: `handleMTMarkRead` looks for the sender of any
row the caller marks, and finds the caller.

### DesktopMail

`row[n][id]` is the `messages` table of daemon n.  A mail has one packet and one uuid,
so it stands for both.  The row of the sent copy has the SUBJECT as its id, because the
sender cannot decrypt its own packet (`SentId`); only a mail to oneself has the uuid.
`held[p][r]` is the value peer p stores under the routing key of r; `poll[n]` is the poll
loop between its three steps; `stale` holds the mails whose packet is older than
`MaxPastSkew`; `up` the daemons that run.

- `Send`, `Answer`, `Build`, `SaveSent`, `Push`, `PutDone` are a send; `Push` first
  stores in the node itself and stops there if the request is over.
- `PollGet`, `PollCheck`, `PollFile` are a round of `doPoll`: get and verify, look for
  the id, save.
- `Age`, `Drop`, `Repair`, `Crash`, `Restart` are the clock, the DHT and the machine.

The module assumes that a subject is never the uuid of a mail.  Daemons are taken to be
connected to each other; `cmd/dmaild` passes no bootstrap peers, so this holds for
programs and tests that give `node.Config` some.

### Federation

`Here` is `OutboundMail` with every message going to `user@host`; `There` is
`InboundMail` with the messages as packets; users who read and delete are left to the
two modules.  `exchange[m]` says how far the requests for message m have come.  What
`OutboundMail` takes as a choice (refused, recorded but the answer lost, delivered) is
here what the other server did when the wait ended.

- `Resolve`, `Send`: `SendMessageFederated` asks for the key, then saves the sent copy.
- `Post`, `Receive`, `Reply`, `Refuse`: the request, and `handleFederationDeliver`, which
  runs to its end whether the sender waits or not.
- `Heard`, `GiveUp`: the 200 in time, or an error or the 15 seconds, then the DHT push.
- `Spread` lets what was pushed appear in the slot that the other server polls.
- `WorkHere`, `WorkThere`, `Visit`, `Poll`, `Lapse` are actions of one server alone;
  `CrashHere` and `CrashThere` cut what is in flight.

### NameRegistry

Names do not interact, so the module is about one.  A record stands for the
registration that made it; `stamp[r]` is its timestamp, taken when the proof of work
STARTS.  `held[n]` is what peer n stores, `row[n]` and `mine` the row of n's names table.
`reached[r]` is a history: the peers that were offered r and lost nothing since.

- `Register`, `PutHere`, `PutThere`, `PutDone`, `SaveMine`: the stamp, the store in the
  daemon's own node (refused if it has an earlier record), the other peers, the end of
  `PutValue`, the local row.  The single-user `RegisterName` puts under the context of a
  request that ended with its 202, so it never gets past its own node.
- `Miss`, `Find`, `FindNothing`, `Cache`: a lookup that the names table does not answer.
- `Repair`, `Expire`, `Crash`, `Tick`: the DHT, the machines and the clock.

### DesktopApp

`app[i]`, `searching`, `handle[i]`, `restarts[i]`, `timer[i]` and `stopped[i]` are the state
of launch i of the application, `handle` being its `daemonProcess`; `proc`, `key` and `owner`
are the stage of each daemon process, its key, and the launch that started it; `keys` is the
keypair table in rowid order; `served` the keys of daemons that came up.

- `ReadKey`, `StoreKey`, `Serve`, `Die`, `Closed` are a daemon process.  `StoreKey` is an
  INSERT OR REPLACE: a key that is in the table already moves to its end.
- `Launch`, `FirstStart`, `Exited`, `Restart`, `Quit`, `Kill`, `Leave` are `main.js`.  A
  launch first waits for `findFreePort`, and starts its daemon when that has answered, also
  if the user has quit meanwhile.  An exit schedules a restart, which looks again at
  `handle` when it fires; quitting clears `handle` but not the timer.
- `RunByHand`, `StopByHand`: the user runs `dmaild`, with `-mnemonic` or without, whatever
  else runs.

`main.js` takes no single-instance lock, so launches overlap: each has a port, a daemon, a
timer and a budget of restarts, and all of them use one data directory.  The properties of
the supervisor are therefore about each launch, and those of the keys about all daemons at
once.  A `findFreePort` that fails, which leaves an open window without a daemon, is not
modelled.  The supervisor's processes and the launches are used in a fixed order, because
their names carry no meaning.

### WebClient

`account` is the `users` table: who made the account of a username, which stands for id,
password and keys.  `token[b]` and `stale` are the token in b's browser, which all tabs of
the browser share, and whether it has expired; `page[t]` holds the flags of `App` in tab t
and how far its `initApp` is, `form[t]` the signup form.  `moved` is a history: the tabs
whose token another tab has replaced since they used it to ask for their identity.  What a
page shows (`ShowsError`, `AsksLogin`, `Blank`, `ShowsMail`) is computed from the flags in
the order of `App`'s returns, with the `isLoggedIn` of the last rendering: a tab is not told
that another one changed the token, and finds out when it renders the next time.

- `Reload`, `InitAsk`, `InitAnswer`, `PollStatus`, `Logout` are `App`.  The token goes along
  with the request, the answer comes later.  The first request also settles the base URL:
  if the server does not answer it, `resolveBase` turns to the user's own machine for good,
  and only a reload helps (`GoesAstray`).
- `Login`, `SignupCheck`, `SignupCreate`, `SignupAnswer`, `Confirm` are the requests of the
  forms.  A signup looks for the username and inserts later; the token is stored only once
  the phrase was confirmed.
- `Expire`, `Down`, `Start` are the clock and the server.

A page that ran into the missing identity (`Blank`) has crashed in `Onboarding` and is
dead until it is reloaded; a login page gets there if another tab of the browser logs in.
A login is one step, and a signup that is cut off by a reload or by such a crash before its
row is written does not write it.

## Runs

Every property of a passing run has a mutant in `PROJECT.json`: a change of a definition
under which TLC finds the property violated.

| Run | Instance | What it shows |
|---|---|---|
| `inbound_core` | one user; a readable and an undecryptable packet; two goroutines; two pending rows; recording may fail; crashes | `LoggedInUserIsAttended`, `PromiseKept`, `ContractSpec`, `AttendedMailIsProcessed` |
| `inbound_twousers` | two users with a packet each, one goroutine; fetch, save and mark may fail | `TypeOK`, which includes that a goroutine only holds rows of its own user |
| `outbound_routes` | a mail to a local user and one to a user at this server's own host; every fault but those of saves and lookups; crashes | `StatusIsEarned`, `AcceptedMailHasItsRows`, `LocalMailStaysHome` |
| `outbound_faults` | a mail over the DHT and a federated one; saves, lookups, deliveries and answers may fail | `TypeOK`, `SendingMailIsUnderWay`, `FederatedMailSettles` |
| `outbound_cancelled` | a mail over the DHT, no faults | refutes `AcceptedMailIsPublished`: the push runs under a cancelled context, and the mail stays "sending" |
| `desktop_once` | two daemons mail each other with one subject; saves and duplicate checks may fail; crashes | `TypeOK`, `OnceSpec` |
| `desktop_arrives` | Alice mails Bob, Bob mails himself, one subject; builds and puts fail, packets age, records are dropped; crashes | `SenderHasTrace`, `PublishedMailArrives` |
| `federation` | one mail to an account of another server; two goroutines and two pending rows there; refusals, lost answers, failing records; crashes of both servers | `TypeOK`, `DeliveredMailIsKept`, `DeliveredMailCameOnce`, `DeliveredMailIsAttended`, `FederatedMailSettles`, `DeliveredMailIsFiled` |
| `names` | two registrations at a server and one at a single-user daemon, three seconds; puts and saves fail, records expire, daemons crash | `TypeOK`, `EarlierClaimStands`, `LookupFindsEarlierClaim`, `MineIsEarned` |
| `desktop_app` | two launches, at once or not, one restart each; two daemons for them and one run by hand; starts fail, daemons and applications die | `TypeOK`, `OneDaemonAtATime`, `IdentityIsKept`, `NoLaterIdentity`, `OpenAppHasItsDaemon`, `QuitStaysQuit`, `DaemonComesBack`, `QuitEndsDaemon` |
| `desktop_restore` | same, no faults | refutes `RestoredAddressStays`: after a restore the next start takes the older key |
| `web_client` | two people, one with two tabs, two usernames; tokens expire, the server goes down and up | `TypeOK`, `TokenOpensOwnAccount`, `IdentityIsOfToken`, `AccountHolderGetsIn` |

**Bounds.** `MaxRows` bounds the pending table, the one unbounded structure; two rows are
enough for a packet that is recorded twice, for a bad packet before a good one and for a
row appended after another goroutine's snapshot.  Two goroutines are enough for a login
against a delivery and for two overlapping snapshots; the theorems of
`InboundMailProofs` lift both bounds.  One local and one federated mail, or one by each
remote route, give every route and every pair of concurrent writers of a row, as rows of
different mails never touch.  Two daemons and two mails give the races of the DHT slot,
crossing mails with colliding subjects, and a mail to oneself.  In `federation` one mail
meets every order of its two deliveries, by the post and by the DHT; mails of different
exchanges only share the goroutines of `InboundMail`, whose own run has two packets.
Two peers and three registrations, two of them at one daemon, give every order of
stamps and puts with ties (`MaxTime` bounds the clock); the theorems lift the bound.
Two launches, two daemons of theirs and one by hand give two applications at once, a
relaunch while the daemon before it closes, a daemon and its restart, and three daemons at
the table together; the theorems lift the bound.  Two people, three tabs and two names
give the race for one name, also between tabs of one person, a person with two accounts,
and a tab whose token another one changes.

**Deadlock** is checked except in the two runs of `DesktopApp`, where the processes run
out when each has been started once, and in `outbound_faults`, where a send whose saves all failed
leaves no row that a user could still read or delete, and the system rightly stops.
Violation runs state one sentence of the repository each; their findings quote it.

**Fairness.** `InboundMail!FairSpec` is weakly fair for each goroutine,
`OutboundMail!FairSpec` for each send that has begun and its 202, `DesktopMail!FairSpec`
for each send goroutine and for the rounds of a poll loop: the Go scheduler runs a
goroutine that can run, the federation call has a timeout and the poll loop has a ticker.
`Federation!FairSpec` has the same for the goroutines of both servers, and the end of each
wait for an answer; no request has to arrive. `DesktopApp!FairSpec` is weakly fair for
each process and for each launch's events and timers while it lives. Peers, the clock, the
DHT and crashes are never fair, and users only in `WebClient!FairSpec`: requests are
answered, and people reload a page that shows them an error or nothing, log in when they
are asked to and confirm their phrase. The last two are strongly fair, because an outage,
or another tab, takes the form away in between; the property is about one of a person's
tabs, as those may log each other out for ever. The liveness properties leave out what no
fairness can give: a session lost in between (`AttendedMailIsProcessed`), a DHT that fails
too, a send without a copy, or a crash (`FederatedMailSettles`, which counts a "read" of
the sender too, and in `federation` takes builds, pushes and status updates to work), a
packet older than 24 hours, a mail that shares its slot or a recipient that is down
(`PublishedMailArrives`), a sender's own server that crashes or a session that is lost
(the two of `Federation`), used-up restarts or processes (`DaemonComesBack`), a server
that does not stay up or an expired token left in the browser (`AccountHolderGetsIn`).

## Proofs

All theorems are for every value of the constants: any number of users, packets, mails
and goroutines, tables of any size.  They assume only `ConstantsAssumption` of the module
and, where said, that some calls do not fail.

`InboundMailProofs`:

- `Typing`: `TypeOK` is inductive by itself.  The part that needs care is that a batch
  only has rows of the goroutine's user; rows never change owner, so it survives.
- `NoLostWakeup`: `LoggedInUserIsAttended`, if fetching and marking do not fail.  It is
  inductive given `TypeOK`, because it speaks of goroutines in every state between the
  record and the mark: a delivery leaves its own goroutine before the session check, a
  login its own before the fetch, a fetch moves every unprocessed row into the batch,
  and a row leaves a batch only by being marked.
- `AcknowledgedMailIsKept`: `PromiseKept`, if saving a message does not fail.  It follows
  from `FilingInv`: a goroutine at the mark has filed its oldest row, a processed readable
  row was filed, and a packet is answered 200 only after it was recorded.
- `ServerImplementsContract`: from the same invariant, every step of `InboundMail` is a
  step of `MailContract` or changes nothing it sees, so `Spec => ContractSpec`.  The
  packets still owed are the unprocessed rows; a packet recorded twice may be marked in
  one row and stay owed for the other.

`OutboundMailProofs`:

- `Typing`: a status update touches only rows that are there.
- `LocalMailIsKeptHome`: `LocalMailStaysHome`, for mail by key or name, whatever fails, from
  `Routes`: `user@host` never takes the steps of `SendMessageForUser`, and no program
  counter on a route out of the server belongs to other mail for a local user.
- `StatusesAreEarned`: `StatusIsEarned`, if the lookup and the inbox save do not fail.
  `EarnInv` adds what "pushed", "delivered" and "filed" stand for, `RowsPlaced` that there
  is no row of a mail but its sender's and, if it is `Direct`, its recipient's, so only
  these two can be marked.
- `AcceptedMailIsKept`: `AcceptedMailHasItsRows`, if saves and the lookup do not fail.
  `KeptInv` states it from the save on, before the 202.
- `SendingIsUnderWay`: `SendingMailIsUnderWay`, the part of `FederatedMailSettles` that
  needs no fairness, if status updates, builds and pushes do not fail.  It is inductive
  with `FederatedRoute`: a federated send never runs the push whose context its own
  request cancels.

`DesktopMailProofs`:

- `Typing`: a peer holds a packet only under its recipient's key, so a daemon only ever
  handles packets addressed to it.
- `DaemonsImplementOnceContract`: `Spec => OnceSpec`, whatever fails.  It follows from
  `OnceInv`: a poll loop that found no row with the packet's id still finds none when it
  saves, because only this loop writes ids of received mail (a sent copy has an id of its
  own, `SentIdsAreApart`), and a packet that is held or handled belongs to a mail whose
  send has begun.
- `SendersHaveTraces`: `SenderHasTrace`, if saving the sent copy does not fail.
  `TraceInv` says it of the goroutine about to push, of the copies peers hold and of the
  packet in a poll loop; rows never disappear, so a crash cannot undo it.

`NameRegistryProofs`, with `ClaimInv` (types, no stamp before a registration has begun,
`EarlierClaimStands`):

- `Typing` and `ClaimsStand`.  The invariant rests on one fact about the validator,
  `SelectOfTwo`: of two records `Select` gives one whose stamp is at least as early.  So
  an offer leaves a peer with a stamp no later than before and no later than the offer,
  and losing a record empties the history of that peer.
- `LookupsFindEarlier`: an action property from the invariant, as a lookup always sees
  what its own peer holds.
- `MineEarned`: a row is marked own by the last step of a registration alone, and
  `pc` stays "saved" from then on.

`FederationProofs` first shows what lets it use the theorems above: `ServersBehave`, every
behaviour of the composition is one of `OutboundMail` here and of `InboundMail` there.
The lemmas `SameSender` and `SameReceiver` identify the instances inside `Federation` with
those the two proof modules speak of.  What is left is about the exchange between them:

- `Typing`, with `AnswerInv`: a goroutine that has recorded a packet answers an exchange
  that waits for it, and no other goroutine answers the same one.
- `DeliveredIsKept`: `DeliveredMailIsKept`, if saves do not fail there.  `AckedInv` carries
  a 200 from the goroutine that sent it over the exchange and the sender's program counter
  to the status of the sender's copy; `AcknowledgedMailIsKept` does the rest.
- `DeliveredOnce`: `DeliveredMailCameOnce`, whatever fails, from three invariants: what is in
  the DHT or came from it was pushed here (`FromHere`), a received post has exactly one
  row (`PostedOnce`), and a packet that was pushed is never shown as delivered
  (`PushedOrDelivered`).
- `DeliveredIsAttended`: `DeliveredMailIsAttended`, if the store there does not fail.
  `NoLostWakeup` speaks of rows that came by federation; that this is how the row of a
  delivered mail came is what the invariants above say.
- `RecipientKeepsContract`: there, the composition implements `MailContract`.

`DesktopAppProofs`, with `SupervisorInv`, which says of each launch and of the processes it
owns, whatever the others do, that an active process is the handle of its launch unless
that is gone (`OwnedWell`), that a restart is only scheduled for a dead process, and that a
launch that has stopped a daemon has no handle and waits for no port (`LaunchWell`):

- `OneDaemon`: a restart needs the handle to be the process that died, so at that moment
  no other daemon of the launch starts or serves.
- `QuittingIsFinal`: a timer that fires finds no handle.
- `OpenAppMindsItsDaemon`: `OpenAppHasItsDaemon` is inductive with `SupervisorInv`.
- `IdentityStays`: `IdentityIsKept`, whatever fails and however many daemons use the keypair
  table at once.  `KeysInv` says of every process what its key has to do with the table:
  stored, or still to be stored; `StoreKeyAdds` that replacing a row loses no key.
- `IdentityIsMadeFirst`: `NoLaterIdentity`, since a table that a served key is in is not
  empty.
- `Typing`: `TypeOK`, from all of these.

`WebClientProofs`:

- `Typing`.
- `TokensOpenOwnAccounts`: `AccountInv`; accounts are never taken away, and the insertion
  is refused if the name was taken since it was looked for.
- `IdentitiesAreOfTokens`: `IdentityInv` says of every page, also one that waits or shows an
  error, that its identity and the answer under way are accounts of the person, and that of
  the token unless the tab counts as moved (`ToldOwn`, `ToldToken`).  A page that waits or
  asks for a login has no identity (`Orderly`), so a login starts from none, and storing a
  token moves exactly the other tabs of the browser (`StoreFacts`).

The assumptions about faults are needed: `SaveMessageForUser` ignores its error
throughout, and the hazards of `PROJECT.json` show what follows.

**Only model-checked:** the liveness properties (`AttendedMailIsProcessed`, the two
`FederatedMailSettles`, `PublishedMailArrives`, `DeliveredMailIsFiled`, `DaemonComesBack`,
`QuitEndsDaemon`, `AccountHolderGetsIn`), because temporal reasoning with fairness is beyond
the prover's backends.  Four of them have a safety half that is proved: nothing that must
still happen has been forgotten by everybody (`LoggedInUserIsAttended`,
`DeliveredMailIsAttended`, `SendingMailIsUnderWay`, `OpenAppHasItsDaemon`).  The runs that
refute a sentence of the repository have nothing to prove.

## Limits of the code the models show

Some of what the code does is in the models as it is, with properties stated around it.
Some contradict the repository's own words.  Two of these have a run that refutes them:
`outbound_cancelled` (an accepted mail whose push is cancelled with its request) and
`desktop_restore` (the address after a restore).  The others are not refuted by a run:

- a packet is refused after 24 hours, where README.md:16 and docs/USER_GUIDE.md:137 say 7
  days, and two mails to one recipient share a DHT slot, where the second replaces the
  first, so that USER_GUIDE.md:133, "The recipient will see it", does not hold for both;
- in desktop mode the sent copies of mails with equal subjects replace each other, where
  USER_GUIDE.md:133 says that the message appears in the Sent folder;
- `handleMTMarkRead` lets a sender set the status of a mail to "read" by marking the sent
  copy, where api_multi.go:386 speaks of a read receipt;

and the rest is about things the repository does not speak of:

- mail to `user@host` with the server's own host goes out by HTTP, or, if that fails, by the
  DHT, although the recipient is a user of the server;
- a second launch of the application runs a second daemon on the same data directory, and
  two that start on an empty one may each make an identity; which of them the next start
  takes depends on the order of the stores, as `INSERT OR REPLACE` puts a key that is there
  already behind the others;
- a quit while `findFreePort` is waited for may leave a daemon that nothing stops;
- a page goes on showing one account while it sends as another, once another tab of the
  browser has logged in as somebody else; and a page whose first request fails never finds
  the server again until it is reloaded;
- polled mail of a logged-in user waits for the next login or federation delivery, and a
  packet recorded by several poll rounds brings a deleted message back to the inbox;
- "delivered" overwrites "read" if the recipient opens the mail between the two writes;
- a failed recipient lookup files a remote mail for nobody and reports it delivered;
- a single-user registration never leaves its own node and its name is never saved;
- a lookup may clear `is_mine` of an own name, and a cached record is never corrected;
- an expired token left in the browser makes the page blank until it is removed.

## Not modelled

- Threads, folders, search, directory, contacts, read-only handlers: queries, and single
  independent statements.  A thread id is computed from one row at a save.
- The pages below `App`: lists and forms whose state is lost with them.  The compose page
  has one race, a late answer to an older name lookup; it is listed as a hazard.
- Proof of work, cryptography, packet bytes: numeric algorithms over 64-bit nonces and
  hashes.  A packet is readable by its recipient or not, a name valid or not, and
  computing takes time.
- `Close` waiting for goroutines without a limit: its length is that of a proof of work,
  which the models do not have; seen from the tables it is a crash.
- Generated protobuf code, build and deployment scripts.

**What may follow:** the compose page; several names, once something in the code relates
them.
