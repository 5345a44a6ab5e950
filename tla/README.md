# A formal model of VYBE

VYBE is a watch-party server (Go, `src/server`) and its Flutter app (`src/app`).
People join a *room*, the room keeps an append-only event log in Postgres, and
every phone follows the room over a WebSocket that it may lose and reopen at any
time. This directory holds TLA+ modules for the parts of it that are hard to get
right and hard to test, the TLC runs that check them, and TLAPS proofs of the
most important facts. Paths below are relative to the repository, `src/` being
its root.

## 1. The system

| Part | State it keeps | Operations | Talks to |
|---|---|---|---|
| **rooms** (`server/internal/modules/rooms`) | rows `rooms`, `room_participants`, `room_events` | create, join by code, leave, end, transition, get, list | Postgres; after each commit it *publishes* the event to the hub |
| **realtime hub** (`realtime/hub.go`, `wsconn.go`) | sinks per room, a bounded queue per connection | join, leave, publish, drop slow, close all; write pump and read pump | called by the goroutine of the publishing request and by the WebSocket handler |
| **resync protocol** (`realtime/handler.go`, `eventlog.go`) | locals of one RESYNC | HELLO, RESYNC, then DELTA, SNAPSHOT or ERROR; PING and PONG | reads the rooms tables query by query; writes past the queue |
| **room socket** (`app/lib/core/realtime/room_socket.dart`) | lastSeq, dedupe window, channel, disposed | connect, reconnect, one handler per frame, dispose | asks auth for a ticket; emits messages to the controller |
| **room controller** (`app/lib/features/rooms/presentation/rooms_controller.dart`) | the room on the screen | build, fold an event, replace by a snapshot, HTTP mutations | rooms API and room socket |
| **identity** (`modules/identity`) | users, sessions, refresh families and tokens | register, login, refresh with rotation and reuse detection, logout | Postgres |
| **tickets** (`identity/redis_tickets.go`) | one Redis key per ticket, 60 s | mint, redeem once | Redis |
| **app sessions** (`secure_token_store.dart`, `auth_interceptor.dart`) | the stored session, the refresh in flight | refresh once for many 401s, clear | identity |
| **idempotency** (`platform/httpx/idempotency*.go`) | one row per key and actor | reserve, complete, release, purge | Postgres, around POST handlers |
| **room list** (`httpx/cursor.go`, `RoomsForUser`, `rooms_controller.dart`) | the list on the screen, a cursor | first page, next page, refresh | Postgres |
| **ids and join codes** (`ids/uuidv7.go`, `rooms/service.go`) | last millisecond and counter | mint, draw a code | every insert |
| **migrations** (`platform/db/migrate.go`, `cmd/migrate`) | the table of applied migrations | up, down, status | Postgres, under an advisory lock |
| **test doubles** (`roomstest`, `identitytest`) | maps behind a mutex | the repositories' interfaces | the unit tests of the services |
| **clock and timeline** (`clock.go`, `timeline.go`, `sync_clock.dart`), **scoring** | samples, anchor | pure functions | the sync ritual, games |

What is hard in it:

* **Requests interleave.** Every rooms operation reads without a lock, decides,
  and only then opens the transaction that takes the room's row lock.
* **Commit and publication are separate.** A crash, a timeout or mere scheduling
  loses or reorders publications.
* **The hub never waits** for a slow phone; it drops it and trusts that
  reconnecting repairs everything. The *writes* do wait: one mutex of the package
  `realtime` serialises every frame of the process, and is held while a peer does not
  read, up to the write deadline. Close frames and pings go past it.
* **Answers overtake events.** A DELTA or SNAPSHOT is written directly to the
  socket, past the queue the live events wait in.
* **Every await in the app is a window**: for a ticket, for an HTTP response, for
  a backoff, during which the screen may be left or the socket may deliver.

What makes each part correct:

* rooms: gap-free numbers; rows equal to the replay of the log; one host, who is
  in the room; legal lifecycle, `ENDED` final; the cap; each change announced once.
* hub: no event skipped on a connection that lives on, none offered twice, one
  slow phone holds nobody up for longer than a deadline, closed connections forgotten.
* resync: no claim beyond the log, deltas without holes, snapshots no older than
  their label, and a phone that is behind catches up.
* app: each event folded once, gaps noticed, nothing shown goes back in time,
  `dispose` closes, a lost network is not a sign-out.
* identity: a family has at most one token that could be rotated, a revoked family
  is dead, an app whose answers arrive is not taken for a thief, however many calls
  meet one expiry. A name is one account's, a refusal blames the right name, a child
  is not registered; a ticket lets in one socket, of its user, in time.
* idempotency: a key owed a replay is executed once, and nobody is answered with the
  answer of another request.
* list, ids, codes: no room missed or shown twice, ids in the order of creation, a
  code for one live room.
* migrations: after any interruption the database holds and records versions 1 to n.
* doubles: what they answer, Postgres would answer.

`PROJECT.json` lists every part under `components` and every hazard, with its
line and the properties that cover it, under `hazards`.

## 2. Modules

| Module | Models | Builds on |
|---|---|---|
| `RoomRules` | `rooms/state.go`: lifecycle table, caps, succession | |
| `RoomLog` | the abstract promise of ADR-003: a log that grows by the next number | |
| `Rooms` | `rooms/service.go` over `rooms/postgres.go` for one room | `RoomRules`; refines `RoomLog` |
| `RoomsDouble` | `roomstest.Store` beside Postgres, under one service | `Rooms` |
| `RoomsMC`, `RoomsDoubleMC`, `RoomsProofs` | instances for TLC; theorems | `Rooms`; `RoomsDouble` |
| `Hub` | `realtime/hub.go`, `wsconn.go` for one room | |
| `HubMC`, `HubProofs` | instances, history of what each connection is owed, properties; theorems | `Hub` |
| `RoomSync` | `realtime/handler.go`, `eventlog.go`, the socket and the controller | `Hub` |
| `RoomSyncMC`, `RoomSyncProofs` | instances, properties; theorems | `RoomSync` |
| `Sessions` | `identity/service.go`, `refresh.go` over `postgres.go` for one session | |
| `AppSession` | the app's token store, interceptor and sign-out | `Sessions`; implements it |
| `SessionsDouble` | `identitytest.Store` beside Postgres, under one service | `AppSession` |
| `AppSessionMC`, `SessionsDoubleMC`, `SessionsProofs` | instances for TLC; theorems | `AppSession`; `SessionsDouble` |
| `Accounts` | registration: `identity/service.go`, `registration.go` over both repositories | |
| `Tickets` | WebSocket tickets: `ticket.go`, `redis_tickets.go`, the double's store, the upgrade | `Accounts`, composed with it |
| `TicketsMC`, `AdmissionProofs` | an instance for TLC; theorems | `Tickets` |
| `Idempotency` | `httpx/idempotency*.go` over both stores, with the app's `RetryInterceptor` | |
| `IdempotencyMC`, `IdempotencyProofs` | an instance for TLC; theorems | `Idempotency` |
| `Directory` | `ids/uuidv7.go`, join codes, `cursor.go`, `RoomsForUser`, the app's list | |
| `DirectoryMC`, `DirectoryProofs` | an instance for TLC; theorems | `Directory` |
| `Migrate` | `platform/db/migrate.go`, `cmd/migrate` | |
| `MigrateMC`, `MigrateProofs` | an instance for TLC; theorems | `Migrate` |

### Rooms

A request slot (`req[r]`) holds the local variables of one handler goroutine. Its
`pc` says which step comes next: the read of the participants, `NextSeq`, the
transaction, the publication. A transaction is a single action, because its first
statement (`UPDATE rooms SET current_seq = current_seq + 1`) holds the row lock
until commit. A refusal changes nothing: on the first read it is a disabled
action, later it returns the slot to idle. `Abort` drops a request between any
two steps (a gone client, the 30 s timeout, a crash); dropping it at `publish` is
also the case in which the commit succeeded and its answer was lost. The
successor of a leaving host is *any* remaining candidate: the code orders them by
joining time, which no property here depends on.

### Hub

`Publish(n)` copies the registered sinks into `left`; each `Send(n, c)` offers the
event without waiting; refusals go to `slow`, and `DropSlow` runs when the loop
over sinks is over, as in `PublishTo`. The eviction takes the sink out of the hub
and closes it in a later step, so other publications run between. `phase[c]` is
where `ServeHTTP` is. A failing read, a missed pong and a closed peer are all
`ReadPumpEnds`.

The write pump takes an event off the channel (`PumpTakes`, into `hand`) and then calls
`writeJSON`, which takes `writeMu`, the lock of *all* connections (`wsconn.go:171`), and
holds it until the frame is written. `WireBuffer` stands for the socket's buffers. A frame
that finds room there takes and releases the lock in one step (`PumpWrites`); one that
does not keeps it (`PumpWaits`), and then nobody else writes, in this room or another,
until the peer reads, the connection is closed, or `WriteWait` has passed (`PumpFails`).
`Elsewhere` are connections of other rooms, of which only this matters: they too may hold
the lock and wait (`WaitsElsewhere`).

`Conn.Close` writes its close frame without the lock. gorilla/websocket admits one writer
and panics when it notices a second one, so while a frame of `c` waits for its peer an
eviction of `c` may panic (`EvictionPanics`: the rest of the slow sinks are not evicted,
`cut` remembers the publication), and so may the `Close` at the end of `ReadPump`
(`ReadPumpPanics`: `Leave` is not reached). The Recoverer catches both. That the second
writer goes unnoticed is the ordinary step. Left out: the same panic in `CloseAll` at
shutdown, and a ping of the pump beside a frame of the handler, whose panic is in a
goroutine of its own and ends the process; for the room that is `Restart`.

### RoomSync

One phone, on the hub, over the log. Server side: `Accept` (ticket and
`Membership`), `Register` (`hub.Join`), `Hello`, then RESYNC one query at a time:
`ReadMembership`, `ReadFloor`, then `UpToDate`, `ReadEvents` or `ReadSnapshot`, and
`WriteControl`, which needs the hub's `writeMu` and may wait for it; commits, publications
and retention run between. On a connection past its deadline every query fails, on one in
`Faulty` any query may: `Membership`, `OldestRetainedSeq` and `Snapshot` are then answered
with an error, `EventsSince` with a snapshot, as is a delta that `VerifyContiguous` refuses. Phone side: the socket's life (`fetch`, `ticket`, `open`,
`backoff`, `closed`), one action for all frames (`OnFrame`) with an operator per
frame type, and the controller's HTTP mutation. `view` is what the screen shows:
the rows it was last given (`base`, meaning all events up to that number), the
events folded since (`applied`) and the number of the last snapshot. `Restart` is a process crash: connections,
queues and publications not yet made are lost, the log is not. Locals that
no code reads again (HELLO's position once it is written, what a finished `_act` kept) are
reset, which leaves out states that differ in nothing else.

Only the retention of `room_events` (`Purge`) is external: migration 0004
describes it as the detaching of a monthly partition, and no code does it yet.

### Sessions and AppSession

A request reads the clock once (`at`) and then makes one query or transaction per
step: `Load`, `MarkRotated`, `InsertRefreshToken`, `CheckSession`; `RevokeFamily`
and `RevokeSession`; or the three writes of a login, which no transaction joins.
Between any two, `Fails` is a query's error (500) and `Lose` the end of the
process, the connection or the client. Tokens are numbered in the order they are
stored; `overlapUntil` stands for `rotated_at` and `valid_until_overlap`, which are
set together. `Evaluate` is `EvaluateRefresh` branch by branch. `after` in a
request is history: whether its family was revoked when it began. `handed` is the
set of tokens that have left the server, so anyone may present them.

`AppSession` adds one app. A step is what Dart runs between two awaits: `Send`
(`onRequest`), `Accepted` or one of the refusals, `StartsRefresh` or
`JoinsRefresh` (`_refreshOnce`), `Receives` (`refresh()` to its `save`), `Replays`,
`GivesUpSession`. A logout is a call like any other, after which the store is
cleared however it ended. `Misses` is a lost answer, with the request at the
server lost too or still running. `Stolen` presents any token that was handed out,
at any time.

Cryptography and the contents of tokens are left out. Times are
ticks of one clock that never goes back, as in the single process the repository
deploys; the rounding of `timestamptz(3)` to milliseconds is not modelled.

### The test doubles

Most unit tests of the two services run on in-memory stores; what they show of the
code is worth as much as the stores are like Postgres. `RoomsDouble` and
`SessionsDouble` therefore run both repositories under one service: a write of a
request reaches both, reads are compared in `DoubleAnswersAlike`. The rows need not
be equal (the rooms double keeps one participant row per joining, the identity double
copies a family's revocation onto its tokens): what must agree is what the service
reads. In `SessionsDouble` requests interleave; in `RoomsDouble` they come one at a
time, as in the tests, and the comparison ends at the first call that the double
accepts and Postgres refuses (`apart`).

### Accounts and Tickets

`Accounts` is `Register` step by step: the look-ups of the email and of the handle,
the transaction, the start of the session. `CreateUser` is Postgres, where the unique
indexes decide, `dCreateUser` the double; `repository` is chosen in `Init`. A string
is a model value, and whether an address, a handle or a password will do at all is one
choice (`Unfit`). Dates are calendar dates and `completedYears` is the code's
arithmetic; the property counts birthdays instead.

`Tickets` gives tickets to those who were told of an account, and lets requests present them,
more than once if they like. `BeginUpgrade` reads the clock and `Redeem` takes the
entry, so that the clock may run between. Redis may forget all or some entries and
keeps expired ones as long as it likes (`RedisForgets`). `AdmissionSpec` is the
composition: registrations go on while others come in.

### Idempotency

A request goes through `Reserve`, the handler, and `Complete` or `Release`. The
Postgres `Reserve` is one statement and two moments: its snapshot (`seen`) and the
upsert, between which other requests commit. The handler may answer, fail (5xx) or
panic; a statement may fail; `Crash` ends all requests and keeps the rows (the store in
memory is for one process of development); `PurgeExpired` and `Tick` run any time. The client is the
app's interceptor, which retries once after a lost answer. `runs` is history.

### Directory

One generator of ids, a wall clock that moves both ways, rooms created by requests
that read the clock, draw a code and insert in three steps, and the list of one user:
`Build`, `LoadMore`, `List`, `Arrives` and `ListFails` are the app's requests, with a
refresh and a next page under way together. `owed` is history: the rooms that were
there when the first page was read and are on no page yet.

### Migrate

Processes of different builds run `up`, `down` and `status`. A migration is a version
and a checksum, its SQL creates one object and needs others (`Needs`). `Fails` is an
error or a signal, after which the deferred unlock runs, `Dies` the end of the process;
both may leave a COMMIT on its way (`orphans`, `LateCommit`). `mishaps` is history: it
records what the lock does not guard against (a rollback beside another command, a
late COMMIT), which the properties exclude by name.

## 3. Runs

Every cfg says `CHECK_DEADLOCK FALSE`: rooms end, buffers drain and users stop,
so each of these systems may really come to rest.

**Passing**

| Run | Shows | Bounds |
|---|---|---|
| `rooms_sequential` | with requests one at a time, none cut short, all of FR-15, 16, 17 hold, and the double answers as Postgres | 4 users, cap 2 or 3, 9 events |
| `rooms_concurrent` | what the transactions alone guarantee under interleaving and abort; the storage implements `RoomLog`; the inductive invariant | 3 users, 2 requests, 7 events |
| `hub_fanout` | no silent loss except by a panic, nothing offered twice; a phone that reads is served or closed, although others hold the write lock | 2 connections, one healthy, 1 elsewhere, 2 events, buffer 1 |
| `sync_reconnect` | no claim beyond the log, no event folded twice over one snapshot, while the user sends no mutation | 2 connections, 2 events, 1 mutation |
| `sync_retention` | deltas whole or about events that are gone, snapshots no older than their label, while events age out between queries and queries fail | 1 connection, 3 events, 2 purged |
| `sync_catchup` | a phone told that it is behind catches up | 1 connection, 1 elsewhere, 3 events, buffer 2, threshold 1 |
| `sessions` | a family never forks, a revoked one is dead, an app whose answers arrive keeps its session; the double answers as Postgres; the inductive invariant | 2 requests, 2 calls, 3 tokens, 2 ticks, one theft |
| `idempotency` | one execution per key and window, no foreign answers; the inductive invariant | 3 calls, 2 requests, 1 key, window 2 ticks, 3 ticks, 3 executions |
| `migrate` | after any interruption versions 1 to n; starters do not meet | 2 processes, 4 builds, 3 versions, 4 commands |
| `room_list` | a code for one room, a complete list, ids in order | 2 creators, 3 rooms, 3 ids, 1 code, counter 0..1, 2 ms, pages of 1, 2 loads |
| `admission` | whole accounts, true answers, tickets that admit one | 2 registrations, 2 emails, 2 handles, 4 birthdays, 2 tickets, 2 upgrades, 2 ticks |

The bounds are where the cases live. Two requests are enough for every race in
`Rooms`, since each pairs one stale read with one commit; three users fill a cap
of two and overflow it. A buffer of one is the smallest that can be full; in
`sync_catchup` it is two, so that a live event is queued behind another while an answer
passes both. One connection elsewhere is enough to hold the lock. An
eviction panics only when a frame of the same connection waits in a full socket, which takes
a third event, or the HELLO of `sync_retention`, where it happens; that nothing else is lost
then is the theorem of section 5. The second connection is a reconnection, which may overlap the server's view of the
first. With three events one is below the position, one is asked for and one
overtakes. In `sync_catchup` the threshold is 1, so a gap of one event is a delta
and a larger one a snapshot; for larger thresholds see section 4. The
dedupe window holds the whole log of that run: 500 in the code, against a queue of 64
and a delta of at most 200.

In `sessions` two requests race for a token and two calls meet one expiry. An
access token and the overlap last the tick they begin in, a refresh token the next
one too, so that two ticks see each of them end. Three tokens are a login and two
rotations: a token, its successor and the successor's. One theft is enough, since a
family is revoked once. The Dio client of this run throws on a 401
(`ThrowsOn401 = TRUE`), as the one in `auth_interceptor_test.dart` does; the client
that the app builds does not (section 4).

In `idempotency` two calls share the key and one has none; the clock outlives the
window by a tick, so that a key is used again. In `migrate` the builds are the
release, an older one, one with an edited file and one with a file missing; four
commands are an interrupted run, its repetition and one to race each. In `room_list`
a counter of one bit overflows at every second id, one code is always contested, and
pages of one room put a boundary at every row. In `admission` thirteenth and sixteenth
birthdays are today and tomorrow, each name may be shared or not, and a ticket's
lifetime ends one tick before the clock stops.

Symmetry is used for safety only, over users of one tier, request slots, calls,
connections, processes and names, which nothing tells apart.

**Violation.** `idempotency_fresh` checks the sentence of `idempotency_pg.go:85-86`
that the SELECT of `Reserve` "always finds" a row. The statement reads the snapshot it
began with, so the row that its own CTE inserted is not found: the first use of a key is
answered 500, the handler never runs, and retries meet 409 until the row expires
(`findings` in `PROJECT.json`). In the `idempotency` run such a key therefore serves
Postgres only from a second window on; the in-memory store, where every path is open,
is checked beside it, and the theorems cover both.

**Fairness.** `HubMC!Fairness`: goroutines run, so the steps of publications, of `Close`
and of a pump that writes are weakly fair, and so is the end of a write elsewhere: a write
that waits ends at its deadline, if its peer has not read before. That a phone reads, and
that its pump takes the next event, is assumed of `Healthy` alone. A pump that waits for
`writeMu` is enabled only while the lock is free, and others take it again and again; that
it gets the lock in the end is strong fairness of `PumpWriteJSON`, assumed of `Healthy`. The
code justifies it: a `sync.Mutex` that has kept a goroutine waiting for a millisecond is
handed to it directly (starvation mode). Nothing assumes that the others let go early: the
mutant without `SetWriteDeadline` violates `HealthyAreServed`.

`RoomSyncMC!Fairness`: the handler's steps, the phone's event loop, `Close` and a pump that
writes are weakly fair, the handler's write strongly, for the same reason. Tickets, retries,
commits, publications, user actions, network failures, expiry, retention and restarts are
never fair. `CatchUp` is checked of connections whose queries do not fail.

## 4. Other disagreements seen while modelling

The models contain the steps of these, and no run is spent on them. Eight can be seen by
changing a cfg, and the properties they violate are kept in the modules:

* One phone that does not read holds up every connection of the process, for up to
  `WriteWait`: `writeJSON` keeps the package's `writeMu` while the write waits
  (`wsconn.go:171`). Meanwhile the others' buffers fill, and phones that read are evicted.
  `hub.go:19-22` says that a slow sink is disconnected and not waited for, lest "one bad
  phone on a train" become "an outage for the whole room", `hub_test.go:228` that the rest
  are unaffected (its sinks share no lock), and `wsconn.go:174-178` that the write is a
  matter of microseconds. `RestAreUnaffected` as a PROPERTY of `hub_fanout.cfg` with
  `MaxSeq = 3`: a connection refuses an event while its pump has a frame to write and room
  to write it, and only waits for another connection's write. What does hold is
  `HealthyAreServed`: served or closed, after the deadline at the latest.
* Two sinks refuse one event; evicting the first panics, since its close frame is a second
  writer (`wsconn.go:117`, `WriteMessage` without the lock), and the second is never evicted
  and lives on without the event. `hub.go:160-161` says that a drop does not perturb the
  iteration, `wsconn.go:128-131` that two writers show as a corrupted frame rather than a
  panic. `NothingIsSkipped` as an INVARIANT of `hub_fanout.cfg` with `MaxSeq = 3`.
* A delta that names events and has none of them is sent when retention has dropped all
  that were asked for: `VerifyContiguous` looks at the events it is given and not at the
  position told (`eventlog.go:107`), and `OldestRetainedSeq` answers 1 for a log with no
  event left (`rooms/postgres.go:469`). `handler.go:281-283`: "Shipping a delta with a hole
  in it is worse than shipping a snapshot". `DeltaIsWhole` as an INVARIANT of
  `sync_retention.cfg`; `DeltaIsWholeOrGone` says that this is the only hole.

* Two joins count before either is added, and the room exceeds its cap
  (`service.go:346`; `spec.md:76`, "Free-tier rooms MUST cap at 4 participants, enforced
  server-side"): `JoinRespectsCap` as a PROPERTY of `rooms_concurrent.cfg` with
  `MayAbort = FALSE`.
* An event between HELLO's read and the registration is missed (`realtime/handler.go:127`,
  `:152-153`): `QuietMeansCurrent` with `SyncSpec`, two connections, three events,
  `SendBuffer = 3`, `WireBuffer = 1`, `DeltaThreshold = 1`.
* A delta that crossed a live event is requested for ever (`room_socket.dart:314`; `:310`,
  "a snapshot is the only safe answer"): `MisfitEndsInSnapshot` as a PROPERTY of
  `sync_catchup.cfg` with `DeltaThreshold = 3`.
* A retry within the overlap is served without a refresh token; the app keeps the rotated
  one and its next refresh is taken for theft (`identity/service.go:450`; `:387-389`,
  "Without this, every flaky network logs the user out."): `RetryIsForgiven` with
  `AppSpec` (module `AppSessionMC`), one call, `RefreshTokenTTL = 2`.
* Dio as the app builds it does not throw on a 401, so nothing refreshes an expired access
  token (`api_client.dart:83`; `spec.md:388`, EC-7, "no visible interruption"):
  `ExpiryIsSilent`, the same with `ThrowsOn401 = FALSE`.

*Rooms, two requests.* The properties that `rooms_sequential` checks with one
request slot are not kept with two. Like the cap, each breaks on one stale read:

* `JoinedOnce`: two joins of one user both find no membership
  (`service.go:329`); the upsert keeps one row, the log gets two joins.
* `OneRoomEnded`: two ends both read a live room (`service.go:439`).
* A join that resolved its code before the end is added after it, to an ended room
  (`postgres.go:236`).
* `LifecycleIsLegal`: two ARMs both read `LOBBY` (`service.go:486`); `state.go:76-79`
  says what two countdowns do.
* `ResponseReportsItsEvent`: the number reported is read before the transaction
  (`postgres.go:351`).

*Rooms, one request.*

* A leaving host commits `PARTICIPANT_LEFT` and a second event and publishes only
  the second (`service.go:422`).
* The two are two transactions (`service.go:386`, `:396-397`): a leave cut short
  between them leaves a live room whose host is not in it. `HostIsActive` is kept
  only where no request is cut short.
* START is legal in `state.go` and always refused by the CHECK constraint
  `rooms_playing_requires_anchor` (migration 0004:46), since no code writes the
  anchor (`postgres.go:307`); `postgres_integration_test.go:157` expects it to be
  accepted.

*Rooms, the double.* It accepts that START; its `EndRoom` keeps the participants; and
`appendLocked` panics on a gap after the row was changed, though "either both land or
neither does" (`memstore.go:10-12`).

*Resync.*

* FR-30 (`spec.md:100`) asks for a RESYNC on a gap. `_apply` moves `lastSeq` to any
  later number (`room_socket.dart:378`): an event that arrives before an earlier one
  hides it. Two ways lead there: two requests publish in another order than they
  committed, or the hub, having refused an event, accepts the next one before it
  closes the connection (`hub.go:174`).
* A queued event that a snapshot already holds arrives after it and is folded
  again, since the snapshot clears the window (`room_socket.dart:331-334`).
* The 30 s timeout of the router is the context of every later query of a socket
  (`router.go:165`), so a RESYNC on an older connection is answered with an error.
* `Membership` hides ended rooms (`rooms/postgres.go:421`): a phone that was away
  when its room ended is refused at every reconnection and never told.
* A failed write is ignored (`handler.go:258`, `:290`, `:306`): the phone that asked waits
  until the write pump meets the same error at its next event or ping.

*App.*

* `_open` does not look at `_disposed` after it has awaited a ticket
  (`room_socket.dart:207`): a socket disposed meanwhile is opened.
* A ticket request that does not get through counts as signed out
  (`room_socket.dart:208`) and ends the reconnections.
* The mutation's event may be shown before its response
  (`rooms_controller.dart:233-236`), which then puts an older room over it; the
  response of a transition also lists no members (`rooms/handler.go:321`).
* A failed mutation puts back the room from before its call (`rooms_controller.dart:226`),
  over a snapshot that came meanwhile and cleared the window: a late event is then folded a
  second time. `AppliedOnce` is therefore stated of a phone that sends no mutation.
* Nothing but the size of the dedupe window keeps a late copy of an old event from being
  folded again (`room_socket.dart:384`): `AppliedOnce` fails in `sync_reconnect.cfg` with
  one connection, `MaxSeq = 3` and `DedupeCapacity = 1`.

*Sessions.*

* Reuse revokes the family and then the session (`service.go:376`, FR-4): stopped
  between the two, the session and its access tokens live on.
* A token is marked rotated before its successor is stored (`service.go:393`): a
  failure between the two leaves a family without a token to rotate. So do the three
  writes of a login (`service.go:307`) that stop half-way, a session without tokens.
* Any answer but a 200 signs the user out (`secure_token_store.dart:224`), a 500 or
  a 429 included.
* A refresh in flight while the user signs out saves its tokens into the store that
  sign-out has just cleared (`secure_token_store.dart:236`, `auth_controller.dart:231`).
* A logout whose access token has expired clears the phone and leaves the session
  live at the server until it expires.
* Nothing closes the sockets of a revoked session (EC-8, `spec.md:389`), and
  `shouldRefreshSoon` (`secure_token_store.dart:205`) has no caller.

*Registration and tickets.*

* When both names are taken between the look-ups and the insert, Postgres blames the
  handle and the double the email (`identity/postgres.go:47`, `identitytest/memstore.go:89`).
* A registration that fails after `CreateUser` leaves an account whose owner is told
  `EMAIL_TAKEN` on the next attempt (`identity/service.go:201`); logging in does work.
* The identity double drops a refresh token of an unknown family without an error.
* A ticket is spent by an upgrade that then fails the membership check, and a ticket
  outlives the logout of the session it was minted for.

*Idempotency.*

* `logCompleteFailure` says that a retry executes again; the row stays in flight, so a
  retry is answered 409 until it expires. So it is after a panic or the end of a process.
* A retry that meets its own first attempt at work is answered 409, which the app takes
  for final. A 5xx after a committed effect gives the key back, and a retry runs again.
* Of two requests that meet an expired row on Postgres the second is answered from its
  snapshot: the answer of the window before.
* `maxAttempts` of the interceptor is never reached; `docs/BLOCKERS.md:84-110` says that
  the tests against a real database have never run.

*Room list.*

* The query of a first page passes `''` for the id of the cursor, which Postgres refuses
  as a uuid; `postgres_integration_test.go:455-489` expects an answer (`FirstPageFails`).
* A join code that is taken between the look-up and the insert is answered with a
  conflict, not drawn again.

*Migrations.*

* A rollback takes no lock: beside another one it removes a version from the middle.
* A COMMIT that lands after its process and the lock are gone makes the next starter fail
  on objects that exist.

## 5. Proofs

`RoomsProofs` is checked by TLAPS for every set of users and requests, all caps
and every `MaxSeq`, from the assumptions in `RoomRules` and `Rooms` (constants
well typed, user and request sets finite).

* `TypeCorrect`: `Spec => []TypeOK`.
* `Invariant`: `Spec => []IInv`. The conjuncts of `IInv` need one another.
  `LogGapFree` alone is not inductive, nor is `RowIsReplay`: a row is written by
  a request that read it earlier, so one must know what requests in flight hold
  (`InFlight`), that nothing exists before the room does (`NothingBeforeCreate`),
  and that the CHECK constraints held (`ChecksHold`), which is what makes `ENDED`
  final.
* `LogIsGapFree`, `RowsReplay`, `HostsAgree`, `PublicationsAreDurable`: its
  consequences for a reader of the log.
* `EndedStays`: `Spec => EndedIsFinal`, the action property.
* `RoomsImplementRoomLog`: every step is an append or a stutter of `RoomLog`.

The argument has one idea. Each step leaves the room's rows alone, or creates the
room, or *commits* one event with the next number that announces exactly the row
changes of its transaction (`Commits(n)`); that a commit preserves the durable
part of `IInv` is proved once, and every action is shown to be one of the three.
What a request holds is a second, smaller induction.

What needs requests not to overlap is proved under the hypothesis `OneByOne`, one request
slot and no abort, as in `rooms_sequential`: `OwnerIsPresent`, `EndIsToldOnce`,
`NobodyJoinsTwice`, `LogTellsALifecycle`, `ResponsesAreTrue`, `CapIsKept`. Its invariant
`SoloInv` adds to `IInv` that what the request has read still is so, and what it was allowed
to do it still is (`Agrees`); that a room which has not ended announced no end (`EndedOnce`);
and that whoever was admitted and is gone was seen to leave since (`LeftSince`), without
which a second joining could not be told from a double one. Section 4 lists how
overlapping requests break these, which is why they stand apart from `IInv`.

The double. `DoubleUsesTheService`: with it at its side the service does nothing that it
does not do alone (`DoubleSpec => Spec`), so what is proved of `Rooms` holds there.
`DoubleInvariant` says how far two ways of keeping a room agree: the row is the same row,
the double's list of events is the log with each event at the index of its number
(`SameLog`), and its *connected* participant rows are the members, one row each, of whatever
many rows a user has who left and came back (`Stands`). `DoubleAnswersAsPostgres` follows,
until the double accepts what Postgres refuses (`apart`).

`SessionsProofs` is checked for every set of requests, every overlap and lifetime,
and every bound on tokens and time, from `SessionsAssumption` (naturals, and
`Never` is not one).

* `SessionsInvariant`, `TypeCorrect`: `Spec => []IInv`, `Spec => []TypeOK`.
* `FamilyNeverForks`: `Spec => []OneCurrent`. Alone it is not inductive: a request
  that has marked a token rotated will store another, so `OneBranch` adds that at
  most one request is about to store a token, and none while a token can be rotated.
* `LateRefreshGetsNowhere`: `Spec => []LateIsRefused`. It rests on the clocks:
  `ClocksBehind` (no stored instant is ahead of the clock) and `LateComesLater` (so
  a request that begins after a revocation reads a clock not behind it).
* `FamilyEndsWithSession`: a revoked session has a revoked family.
* `AppUsesService`: `AppSpec => Spec`. The app implements an arbitrary client of
  the service, because what it stores has been handed out (`AppInvariant`); what is
  proved of the service holds under the app, as `AppFamilyNeverForks` spells out.

Each action replaces one request's entry by one in order (`InOrder`) and keeps the
rows in order; that this is enough is proved once (`ReplaceEntry`), and three lemmas
say how a step may keep `OneBranch`: start nothing, take the only token, store the
only one. The order in which the five steps of a refresh interleave with others then
needs no case analysis.

* `AppKeepsItsSession`: `AppSpec => []KeepsItsSession`, whatever number of calls meet one
  expiry. Here the whole path of a token is in the invariant (`Alone`): the app awaits at
  most one login or refresh, every other request at the server is over or a logout that has
  done its work on the family; the awaited one carries, at each of its steps, a token the
  server would still rotate (`Carries`); and what is stored, when nothing is awaited, is
  such a token. All of it holds as long as no answer was lost and no token stolen
  (`mishap`), which is what the property is about.
* `DoubleAnswersAsPostgres`, `DoubleUsesApp`: the identity double answers as Postgres
  while requests interleave. Each token of the double, onto which it copies a revocation of
  the family, is what Postgres reads when it joins the token to its family (`Alike`).

`IdempotencyProofs` is checked for every set of calls, keys and requests, both stores,
and every `Timeout < TTL`, from `IdempotencyAssumption`. `Invariant` is
`Spec => []IInv`; `KeyedRunsOnce`, `NoForeignAnswer` and `ReservationIsOwn` follow. The
heart of it is `OwnReservation`: a request at work ends before its window does, hence
nobody reclaims its row and `Complete` and `Release`, which name only the key, touch no
other. `WindowHeld` keeps the key of an execution that did not fail, `TellsOf` says that
a row, or the stale copy of it in a snapshot, tells of the execution it names. The
assumption `Timeout < TTL` is the router's 30 s against 24 h.

`HubProofs` is checked for every set of connections, here and elsewhere, number of events
and size of the buffers, whoever holds the write lock. `HubInvariant`: an event on its way
to a connection is in one place (still to be offered, queued, in the pump's hand, or
written), who has not joined is owed nothing, and what is owed is on its way unless the
connection is doomed or the publication panicked. `StillOwed` says once what a step must
show; `NothingIsLostSilently` and `EventsAreOfferedOnce` are its consequences.

`RoomSyncProofs` is checked for every set of connections, length of the log, buffer,
threshold and window, over the hub, retention, restarts and a phone that mutates.
`Invariant` is one idea: nothing anywhere is ahead of the log. Every number in a queue, on
the wire in either direction, in a handler's or a RESYNC's locals, in the socket, on the
screen or in the room that a mutation keeps is within 1 to `seq`; what is within n is within
n + 1 (`Grows`), so a commit needs no more than that; `PhoneIsNeverAhead` follows. Two
relations are kept with it. A snapshot's rows are no older than its label, hence
`SnapshotsCover`. And `Fits`, hence `DeltasAreWholeOrGone`: a delta in a handler's hands or
on the wire has every event from the position asked from to the position told, or has none
and all of them are older than the first event retained. `DeltaIsFrame` is where the code
earns it: `last < cur` by `DecideResync`, retention drops a prefix, and of an interval that
starts at `last + 1` nothing is missing before `cur`; `FramesAge` says that it stays so
while the delta waits and more events age out.

`EventsAreAppliedOnce` has the hypothesis `MaxSeq <= DedupeCapacity`: a log that the window
holds, 500 events in the code. Publications come arbitrarily late in the model, as they may
in the code, and one later than the window is folded again (section 4), so some bound is
needed. The invariant (`Once`): the window has no duplicates, and holds what the screen has
folded since the last snapshot. Since distinct events of a log of n are at most n
(`DistinctFit`), the window never drops one; a snapshot clears both sides at once.

`AdmissionProofs` is checked for all registrations, names, dates of birth, days, tickets
and upgrades, for both repositories and both ticket stores. `AdmissionInvariant` ties
rows to the registration that wrote them (`RowsAreOfRequests`), and tickets to the
upgrade that spent them (`TicketsAreSpent`). From it: `AccountsStayWhole`;
`AnswersStayTrue`, with the lemma that `completedYears` counts birthdays; and
`TicketAdmitsOneOnly`, for which it matters that an account is never taken back and that a
ticket is drawn once.

`DirectoryProofs` is checked for every counter size, page size and number of requests:
`CodesNameOneRoom`; `IdsSortByCreation`, an action property; and
`NoRoomIsMissedOrRepeated`, with rooms created, joined and ended between the pages and a
refresh beside a next page. Its invariant (`ListInv`) says when a list and its cursor
*cover* the user's rooms: it is newest first, nothing on it is older than the cursor, and
of the rooms that were there only those past the cursor are owed. A page is taken by a
request onto the list it started from, so the same is said of the list of every request
under way, alone and with its page. The lemmas are about the order: it is transitive, also
across equal creation times (`OlderIsTransitive`), and a page read below a cursor continues
a list that ends there. In the model a sorted result is *any* listing of its rows in order.
That there is exactly one is not proved; a finite strict order has one, and the run
would show it if a page could not be listed.

`MigrateProofs` is checked for every set of processes and builds and any number of
commands, from `MigrateAssumption`: files are finitely many, versions positive, and a
file refers to earlier versions only. The invariant has three layers. `Shape`, always:
what a command holds at each place in the code, and that the lock is held through a
whole run. `Quiet`, as long as no rollback ran beside another command: one transaction
is open at a time, and it adds the next version or removes the last (`TxFits`), since
DDL waits for the open one and finds its objects once it has landed; hence
`DatabaseIsAPrefix`, whatever dies or commits late, and without the lock. `Serial`, as
long as no COMMIT outlives its session either: with the lock, what a run has read is
the table, hence `RunsAreSerial`.

Every invariant and every action property of a passing run is a theorem. Two remain with
TLC alone, the liveness properties `HealthyAreServed` and `CatchUp`: liveness under
fairness, and `ENABLED`, are beyond this prover. So is induction over data, for which reason
no proved module computes with a recursive definition: what the code sorts or filters is
described there by the order and the members of the result.

## 6. Not modelled

Formatting, decoding, tracing, configuration, cryptography, screens, the tables no code
uses, operators' tools: no protocol state. The clock estimation and the shared timeline
(`clock.go`, `timeline.go`, `sync_clock.dart`) and game scoring are functions on numbers,
without shared state, that no handler calls yet; the app's cache is a comparison of
times.

In the modules above: the recipients filter and `CloseRoom` (no callers), PING and PONG,
the delay and attempt counter of the backoff, membership lost by leaving while
connected (the room's end behaves alike at `Membership`), the reaper and host
grace, which no job runs; a second sign-in of the app, the keystore write as a step of
its own, rehashing a password at login; the injected failures and the assertion helpers
of the doubles, and the double's own list of rooms.

What a next step would add, in this order: `Rooms` composed with `Hub`, so that the order
of publications comes from `Rooms` and not from `Commit`, with several phones; a bound
on how late an event comes, in place of one on the log, for `EventsAreAppliedOnce`; the
timeline and the drift consensus against reference functions.
