# Verification of fa-server

fa-server (fa below) is the backend of a face-recognition dashboard. The recognition itself is
done by another system, Specter: fa keeps users and camera assignments (in Supabase), and for
everything else asks Specter's HTTP API with a service token, follows Specter's events over NATS,
relays live video, and decides who may see what. This directory holds TLA+ models of the parts of
fa where order, time and failure matter, the TLC runs that check them, and TLAPS proofs.

fa is one Node.js process. Code runs without interruption between two awaits, so an action of a
module is the code from one await (or callback, or request) to the next.

## Inventory

| Component | State | Operations | What makes it correct |
|---|---|---|---|
| Specter catalog (`specter/specterCatalog.ts`) | cached promise, time of the load, loads in flight | `read`, `load`, `invalidate`, expiry | names never older than the last processed event or the time to live; a failure is not cached; every read ends |
| Specter event stream (`specter/specterEventStream.ts`, `specterEventParser.ts`) | connection, stopped flag, one loop per stream, retry delays | `start`, `stop`, `connectWithRetry`, `follow`, `dispatch` | no event twice or out of order; latest statuses always arrive; one handler's failure hides nothing; `stop` stops |
| Notification rooms and relay (`notifications/`) | Socket.IO rooms, connection handlers in flight | connect, subscribe, unsubscribe, relay of each event kind | events reach those who may see the camera; nobody misses a new camera or is dropped silently |
| Live tickets (`live/liveVideoRelay.ts`, `liveController.ts`) | ids of used tickets | issue, redeem, forget | one socket per ticket, for its camera, in time; bounded memory |
| Live relay (`live/liveVideoRelay.ts`) | two sockets, messages waiting | relay, open, close, error | order, no loss, legal close codes, both ends end |
| Specter HTTP client (`specter/specterHttpClient.ts`) | token | `send`, `readToken`, `unwrap` | a replaced token is picked up; an operation is performed at most once; the status told to the client is true |
| Cameras (`cameras/`) | rows in Supabase, cameras and metadata in Specter | create, read, update, delete, start, stop, assign, list, zones, rules | only permitted changes; no lost metadata; no dangling access |
| Alerts API (`alerts/`) | none (Specter's alerts) | list, summarise, read, review, snapshot | only alerts of accessible cameras |
| Notification contents (`notifications/notificationFactory.ts`, `specterEventParser.ts`) | none | parse, label, rate | what gets through is typed; levels and names are those of the catalog; the API says the same |
| Authentication (`auth/`, `core/middlewares/authMiddleware.ts`) | pending verifications | register, verify, resend, log in, Google sign-in | a code works once, in time, for its registration; a token names an account that was there |
| Users (`users/`) | rows in Supabase | create, update, delete | unique names; only permitted changes |
| Startup and shutdown (`index.ts`) | HTTP server, timers | signals | the process ends, whatever hangs |
| Watchlists (`watchlists/`), dashboard (`dashboard/`) | none | pass-through | each call is one of Specter's operations, with the ids and answer that the contract says |
| Email, vector store, Swagger, rate limiter, logging, scripts | none | I/O | not modelled |

How they interact. `index.ts` registers two handlers with the event stream, in this order: the
one that invalidates the catalog and the relay. The relay and the alerts API await the catalog's
names; a catalog load is a number of HTTP requests. The relay sends to Socket.IO rooms, which
connections join according to what `CameraService.listAccessibleCameras` says (Specter's cameras,
filtered with Supabase's assignments). Tickets are issued after the same access check, and the
live relay opens its socket to Specter with the HTTP client's token. At shutdown `index.ts` stops
the stream, the sockets and the HTTP server in turn.

What is hard: answers of overlapping requests in any order; events that come between two awaits
of a handler, or never; the clock moving while a handler runs; a stop, restart or disconnection
in the middle of something. `PROJECT.json` lists each such hazard with the line where it bites
and the properties that watch it.

## Modules

| Module | Models | Composed with |
|---|---|---|
| `LabelContract` | abstract: what the catalog promises its callers | |
| `SpecterCatalog` | `specterCatalog.ts` with its callers, the events and the clock | EXTENDS `LabelContract`, implements it |
| `SpecterCatalogProofs` | theorems about it | EXTENDS `SpecterCatalog` |
| `LiveTickets` | issuing and redeeming tickets, restarts | |
| `LiveRelay` | the two sockets of one viewer | follows `LiveTickets!OpenSocket` |
| `Shutdown` | `gracefulShutdown` of `index.ts` | EXTENDS `LiveRelay`, whose viewer holds it up |
| `LiveVideoProofs` | theorems about the three | EXTENDS `LiveTickets` and `Shutdown` |
| `NotificationRooms` | rooms, connection handlers, relay | |
| `NotificationRoomsProofs` | theorems about it | EXTENDS `NotificationRooms` |
| `EventFeed` | abstract: what the event stream promises its handlers | |
| `SpecterEventStream` | connection, loops, dispatch, stop | implements `EventFeed`; feeds `SpecterCatalog!Invalidate` and `NotificationRooms`' relay |
| `SpecterEventStreamProofs` | theorems about it, and the safety of the refinement | EXTENDS `SpecterEventStream` |
| `SpecterEvents` | the schemas of the messages, and `parseSpecterEvent` | |
| `Notifications` | what is made of a message, and of an alert | EXTENDS `SpecterEvents` and `LabelContract` |
| `NotificationsProofs` | theorems about them, and of `LabelContract` | EXTENDS `Notifications` |
| `SpecterApi` | the operations of Specter, the calls of fa's services, its routes | |
| `SpecterRequests` | the HTTP client's token, retry, timeouts and answers | EXTENDS `SpecterApi` |
| `SpecterRequestsProofs` | theorems about it | EXTENDS `SpecterRequests` |
| `CameraAccess` | who may do what with a camera | |
| `CameraRequests` | the requests about cameras and their settings, one call at a time | EXTENDS `CameraAccess` |
| `AlertRequests` | the requests about alerts | EXTENDS `CameraRequests`, interleaved with it |
| `CameraRequestsProofs` | theorems about both | EXTENDS `AlertRequests` |
| `Accounts` | registration, sign-in, verification, users | |
| `AccountsProofs` | theorems about it | EXTENDS `Accounts` |
| `MC...` | the instances for TLC | |

### SpecterCatalog

Specter's configuration is a version number. `AnswerList` records the version at which Specter
answered a list of a load; a load is the two lists requested at once and then the targets (one
part stands for the target lists of all watchlists, which are requested together). `snapshot` is
the cached promise, i.e. the load it belongs to, `loadedAt` its time, `waitsFor` the promise that a
caller of `read` awaits. A superseded load runs on and its callers still get it. A load nobody refers
to is forgotten, so its identity can be used for a new one (`Loads` bounds the loads alive together).
`processed` and `delivered` count the events handled and the events handled or missed; the events
of the fa process reach `invalidate` before anything else (the first handler of `index.ts`).
The clock is in units in which a load may last longer or shorter than a tick.

`LabelContract` says the same without a cache: when a read is called it gets a floor, the later of the
last processed event and the version of one time-to-live ago, and ends with labels between
the floor and the present, or with none. `KeepsContract` is the refinement: the variables that both
modules have are the same, the cache's are hidden.

### LiveTickets, LiveRelay and Shutdown

A ticket is a signed token: only its camera and expiry matter. The upgrade handler reads the clock
twice with no await in between (`jwt.verify` and `forgetExpiredTickets`), so no other code of fa runs
between `Verify` and `Redeem` or `Refuse` but `ClockTick` may (at most `MaxPause` seconds begin
in between; the module assumes 0 or 1, and the proof needs it). Times are whole seconds, as in the code. After the await
of the token the socket opens or the viewer gets a 503 (`TokenUnavailable`), the ticket being spent.

`LiveRelay` begins in the callback of `handleUpgrade`. Its actions are the handlers of the two
sockets; the `ws` library is external and is seen through `readyState`. Messages are numbered.

`Shutdown` puts the process around it: each signal runs through `stage[i]` (stopping the stream, closing
the server), and its timer may end the process at any time (`TimerArmed`). Node's server and Socket.IO
are seen through the connections they hold. Nothing in `index.ts` closes a viewer's WebSocket: with an open
live video the server never drains, so such a shutdown ends by the timer, with exit code 1.

### NotificationRooms

`pc[s]` is where a connection's handler is: `connected`, `listing` (the request to Specter),
`filtering` (the one to Supabase), `joining` (one room per step), `ready`. `ListingFails` is the
catch block of both handlers. A disconnected socket's handler goes on without effect, so the
connection is simply `gone`. `config` is the queue of configuration events on their way;
`relaying` holds the cameras of alerts that await the catalog. `emitted` is the emission of the last
step, with the connections that get it. `announced`, `unlisted`, `left` and `mayHear` are history
variables, used by properties only. Alerts, rule alerts and statuses are handled alike and
are one action pair; enrollment events wait for the catalog as alerts do and go to two rooms of roles.
`TypeOK` of this and of other modules that no run lists has been checked with TLC like the others and is
proved (`RoomTypes`, `RequestTypes`, `CameraTypes`, `NotificationTypes`), and the runs spend their time on the properties that code could break.

### SpecterEventStream

Messages are numbers into a log per stream, valid or not for `parseSpecterEvent`. `todo[s]` is what
the current consumer has still to yield; `Backlog` is the delivery policy: nothing for `New`, the latest
message of each subject for `LastPerSubject`. `pc[s]` is where `follow` is. `Fault` bounds what goes wrong by itself: the
server becomes unreachable, `connect` rejects, a consumer cannot be had, a consumption breaks.
The NATS client is external: while the server is unreachable it keeps its connection and its ordered
consumers. `Yield` may hand over a message during an outage, as the client may have received it before;
that it also may for one published since is more than can happen, and no property depends on it.

`EventFeed` is the same without connections, consumers and retries. A handler is given a message only after
the handlers before it, an alert at most once and in order, a status never after a newer one; and while the
stream is up, the latest status of every camera is delivered (its only fairness). `ImplementsFeed` is the
refinement, with `up` mapped to "reachable, declared and not stopped" and `seen` to `handled`.

### SpecterEvents and Notifications

A message is a subject and a record of fields with JSON values; `Schema` has, for each kind, the
fields with their values, and which are required. Values are members of small sets, with wrong ones of each JSON
type (`Odd`). `Notifications` lets one message arrive, usual or with one field changed, removed or
added, or on another subject, parses it, waits for the names and sends. The catalog is `LabelContract`: a read serves
each list as of any version the contract allows, so all that `SpecterCatalog` may answer is included; the clock may
tick at any time, also while the names are read. `AlertResponse` and
`enrich` are the same alert as the API gives it (`NamesAgree`). When the catalog cannot be read the
kind of the watchlist is unknown and a blacklist match is sent with the level "warning"; that is what the code
does, no document says otherwise, and `BlacklistMatchesAreCritical` is about matches whose names could be read.

### SpecterApi and SpecterRequests

`SpecterApi` has Specter's contract as data: each operation's verb, path ids, success status and kind of
answer; `Uses` is what each method of fa's services calls and makes of the answer, `Routes` the routes with their roles and
the ids they check. `ASSUME CallsKeepTheContract`, which TLC evaluates in the run `requests`, says that they
agree: services use answers as the contract gives them, a GET of fa only reads, what creates answers 201, and
every id in a path is checked before it is used.

`SpecterRequests` is one action per await of `send`, `sendWithToken` and `readToken`: a read of the file takes its content
in one step and stores it in `this.token` in a later one, so overlapping reloads can store the older one last.
`Handshake` is the upgrade of a live video with the same token, which it never reloads. Two histories
say what happened since a request began: `disturbed`, that the tokens were rotated (the accepted one was revoked or the
file was out of date), and `overwritten`, that another request stored a token that is accepted no longer. Only the first excuses a request
that is rejected after its retry, which sends what it has read itself; a handshake, which sends what others stored,
is excused by either. Specter may perform an
operation whose answer is then lost, late or broken. `told` is the status of `errorHandler`.

### CameraAccess, CameraRequests and AlertRequests

A request is found (its camera read from Specter), checked (assignments read from Supabase) and acted on,
one step per await, and may fail at each, in Specter also after the effect. Other applications create and delete
cameras and change their metadata. `permitted` and `existed` record what held at some time since the request began.
The metadata are fa's `created_by` and one key of another application, a counter. Alerts are those of the
cameras that ever existed; what a request is given of them is the set of their cameras. An empty list of
cameras is "all" for Specter and "none" for fa (`AsksSpecter`).

### Accounts

Rows of the users table, the pending verifications in memory, registrations and sign-ins one step per await.
Codes are numbered in the order of their generation. `UserChange` is the users API with its middlewares: an
admin creates users of any role and an operator viewers (`requireCreationRole`), and an update may set any field
that `updateUserRequestSchema` has, the role too (one field in a step). Behind `PUT /users/:id` is
`canAccessUser` only, so users may change the role of their own row, although `requireCreationRole` speaks of
"creating/promoting" and guards the creation alone; the model has the update as it is. `authenticateToken`
trusts the role in a token until it expires, so what a token says of the role is that of its time.

`Addresses` are the addresses as Google may write them and `LowerCase` what `emailSchema` makes of them. A
registration, a creation and an update come with an address in lower case, as their schemas make it. A sign-in
with Google looks for the address in lower case (`Key`) and inserts it as it is (`Create`). That contradicts "If
the user exists (by email) → return them" (`googleStrategy.ts:11-12`): a user whose address Google writes with
capitals gets a row (`googleStrategy.ts:122`) that the lookup (`userService.ts:47` with `userSchemas.ts:14`)
does not find at the next sign-in, which creates another row, or fails where the table keeps addresses unique.
Two sign-ins one after the other show it, so no run is spent on it; `ChecksWereTrue` is about the address in
lower case and says no more than that.

`existed` are the rows that the table ever held, `seen` those since a request began, `missed` the requests for
which the table did not hold one row, at a time since they began, of the value they look for.
`TokensNameTheirUsers` is about `seen` for what a request gives, and about `existed` for `verifyCode`, which
gives the token that the registration had signed, however the row was changed since. The repository has no
schema of the table, so `unique` is either both columns or none. `findOne` is Supabase's `single()`: several
rows are answered like none. What the model makes visible, without contradicting a document: a password that is
changed through the users API is stored as its text, so that no log in succeeds with it (`userService.ts:71`);
without a unique constraint two racing registrations leave two rows that nobody can log in to; a registration
whose insert loses its answer leaves a user without a pending verification; `verifyCode` gives the token of a
registration also when its row has been changed or deleted; and a restart loses all pending verifications.

## Runs

| Run | Instance | Shows |
|---|---|---|
| `catalog` | 2 readers, 2 loads, 3 lists, time to live 1 of 2 ticks, 1 change | the catalog's safety, its liveness and the refinement |
| `tickets` | 2 tickets, 2 cameras, 3 requests, lifetime 2, 5 seconds | one socket per ticket, in time, bounded memory |
| `tickets_restart` | the same with restarts | **violated**: used ids do not survive a restart |
| `live_relay` | 4 messages each way, 1 client, 1 request, 2 signals | order, no loss, close codes, both sockets end; the process ends |
| `rooms` | an admin and a viewer, 1 camera, 2 events on their way | rooms and relay; connections become usable |
| `rooms_unassign` | as `rooms` | **violated**: a removed assignment leaves the room as it is |
| `stream` | 2 streams (one per policy), 2 subjects, 2 handlers, 2 messages, 2 faults | implements `EventFeed`; `stop` ends the loops |
| `stream_stop` | 1 subject, 1 message, 1 fault | **violated**: `stop` during a pending connection |
| `notifications` | 1 change of the configuration, 1 tick, 7 wrong values, every field of every kind | parsing, shape, level, names, nothing held back |
| `requests` | an upload and a read, 2 tokens, 2 changes | performed at most once, true answers, explained rejections, every request ends |
| `cameras` | an admin, an operator and a viewer, 1 camera, 2 requests of 11 operations, 1 change by others | access, refusals, metadata, orphans |
| `accounts` | 2 names, 1 address in 2 spellings, 2 requests, 2 users, 1 change, 2 codes, 2 times, restarts | tokens, checks, codes |

Why the bounds are enough. Catalog: two loads give every overlap of an old load with a newer one
(its rejection handler compares with one snapshot only), two readers a caller of each, and with two ticks a snapshot is
both fresh and expired; one change is what separates before from after. Tickets: a lifetime of 2
within 5 seconds lets a ticket be used, expire and be forgotten while a second one lives; three requests
are two for one ticket and one for the other. Rooms: cameras' rooms are independent of each other,
so one camera with its whole life (created, listed, joined, deleted) and two events
on their way meet every order; users matter by role only. Stream: two messages and two faults give a
message before and one during or after an outage, in either stream, and a second consumer; three streams differ by policy only, and there are two
policies. The delays are 2 and at most 5, so doubling meets the limit. Notifications: a message is looked at by itself, and only the version of its names and the
clock can change around it. Requests: the first token is replaced and revoked, in either order, with both requests at any point; more
tokens give more of the same. Cameras: cameras do not influence each other; two requests are one that checks and one that
changes what was checked; the eleven operations have one of each way through the services. Accounts: one request
looks and another creates while a row is changed; two codes are a code and the one that replaces it. `MCBound` keeps a second code and the
clock apart from changes of the table and sign-ins with Google: what is pending does not depend on the table, and the one code
that is left beside them lets `verifyCode` give the token of a changed row. One address, in two spellings, is enough because
pending verifications of two addresses never meet, and to the table a change of address is like one of name. Deadlock checking is off where the system may come to rest (used
tickets, closed sockets, a stopped stream, an ended process, served requests) and on for the catalog and the requests to Specter.

### Three disagreements

- `tickets_restart`: "Each ticket opens one WebSocket" (`liveVideoRelay.ts:32`) holds for one
  life of the process; a restart within a ticket's minute forgets that it was used. What still holds then is
  proved (`OneSocketAtATime` and the theorems after it).
- `rooms_unassign`: the relay sends alerts "only to the users allowed to see" them
  (`specterEventRelay.ts:4-6`) holds for the access at the time of joining the room
  (`AlertsStayInside`), not for the present one: nothing removes a connection from a room when an
  assignment is removed.
- `stream_stop`: after `stop()` the stream should not be connected (`specterEventStream.test.ts:43`),
  but a `connect()` that was pending stores its connection later and nothing closes it.

## Fairness

- Catalog: each load goes on and its callers continue (`SpecterHttpClient` aborts every request after
  `requestTimeoutMs`). Nothing is assumed of readers, events or the clock.
- Live relay: `ws` ends an aborted handshake at once and a close handshake by a timer; no
  message, opening or first close is assumed.
- Rooms: the requests a connection waits for end, for the same reason.
- Stream: timers fire, the client's requests get an answer or a timeout, handlers return,
  `connect` succeeds if the server stays reachable, and a closing connection closes. Faults, stops and recovery are never
  forced; that the server stays reachable is the weak fairness of `EventFeed`'s `Deliver`, which asks nothing while it is not.
- Shutdown: timers fire. That the stream stops, clients leave or the server drains is not assumed.
- Notifications: a read of the catalog is answered (`ReadsEnd` of the run `catalog`) and the relay goes on.
- Requests: reading a file ends, and a request to Specter ends by its answer or its timeout. Nothing is assumed of the rotation.

## Proofs

All theorems are for every value of the constants allowed by the modules' assumptions. Each specification has
one inductive invariant, defined in its module and checked with TLC on the instances of the runs, one lemma or
step for each action, and theorems that follow from the invariant. The assumptions say that bounds are natural numbers,
that the value for "none" is not one of the values it stands in for, and what each module says of its own (a
pause of at most a second, roles of users, at least one handler, the catalog's three lists).

`SpecterCatalogProofs`. `ReadsAreFresh` is not inductive: what a reader gets depends on what its load has
read. `CatalogInvariant` adds that all lists read so far by the load a caller waits for are at least as new as
the caller's floor, and that those of the cached load are at least as new as the last processed event and as
the version at `loadedAt`. The second is what makes the first true of a caller that joins a load in flight,
and it survives an invalidation because an invalidated load is no longer cached. `asOf` is monotone, so the
age check gives the time-to-live part of the floor. From it follow `TypeOK`, `ReadsAreFresh`,
`FailureIsNotCached`, the action property `OldFailureSparesNewer` and, step by step, the refinement
`ImplementsContract`.

`LiveVideoProofs`. `TicketInvariant` adds to `OneSocketPerTicket` that the id of a redeemed ticket is
remembered or its ticket has expired before the current second, and that the ticket being redeemed had not
expired at the first reading of the clock. As at most one second begins between the two readings, forgetting
ids only when `expiresAt < nowSeconds` keeps each id for long enough; forgetting them when `expiresAt <=
nowSeconds` would not, as the mutant of this property shows. `OpensItsCameraInTime` and `ForgetsExpiredIds`
use the same bound on the pause. The run `tickets_restart` shows what restarts break; `RestartInvariant` says
what they do not: it has the same clauses for live sockets only, which a restart ends, so that over any number
of restarts a ticket never has two sockets at the same time (`OneSocketAtATime`), gets no other camera and no
further time (`OpensInTimeAfterRestarts`), and the table of used ids holds the tickets of one lifetime
(`RemembersOneLifetime`).

Of the relay, `RelayInvariant` is that what was sent to a socket, followed by what waits for it, is the
first of the numbers that the other socket has said, that nothing waits for an open socket, and that codes are
legal. It is proved for the relay alone and with `Shutdown` around it, where `Exit` closes both sockets at
once without disturbing what was sent.

`SpecterRequestsProofs`. `PerformedAtMostOnce` is not inductive, since the model may perform a request
whenever it is sent. `AnswersMatchEffects` adds that nothing is performed before the answer, and that a 401,
the only answer after which fa sends again, has performed nothing. For `RejectionsAreExplained`, `Undisturbed`
says what a request knows that ran while the tokens were not rotated: the file holds an accepted token, and what it has read
itself, and sends on a retry, is accepted, in whatever order the reloads of others store theirs. It says nothing
of the shared token, which others may have overwritten; `NotOverwritten` adds that for the handshake.

`NotificationRoomsProofs`. `RoomInvariant` has two halves. Of an admin: until the handlers are registered the
listing asks for everything, and a camera announced meanwhile is either in what was listed or in the rooms by
way of the role's room. Of the others: the cameras of a filtered listing, and those whose rooms they are in,
are among those they could see since they connected. `NobodyInSilence` uses only the truth of the events on
their way.

`CameraRequestsProofs`, for `AlertRequests`, whose steps interleave with those about cameras.
`CameraInvariant` says of each request what it carries from step to step: a camera it has found existed since
it began, one it may change was permitted, the creator it has read is still the creator, and its copy of the
metadata is current or was outdated by a later write. A step is one request's, or an outsider's;
`ChangeOfOneRequest` deals with all other requests once. `MetadataIsKept` had to be corrected for the proof:
an earlier form blamed only the changes of other applications themselves, which is false for several requests
of fa: one reads a change, a second undoes it with an older copy, a third copies what is left, the first
writes the change back with its own patch, and the third undoes it again although no application changed
anything since its copy. `overtaken` now has every request whose copy any later write outdated.

`SpecterEventStreamProofs`. `StreamInvariant` says that, while a message is dispatched, the handlers before
the turn have been given it and the others know what all knew before, and that what a consumer still yields
comes after what was given: of the same subject where a stream starts with the latest statuses, of any subject
where it starts with new messages. That todo is empty when no consumer runs makes it survive a new consumer,
whose backlog is at or after what was given. `StreamImplementsFeed` is the refinement of `EventFeed` without
its fairness: the end of each handler is `Give`, all other steps publish, change `up`, or stutter. From it follows
`NothingComesAgain` (no alert twice or out of order, no status after a newer one), and from the invariant
`EarlierHandlersKnowMore`: the relay is never given a change before the catalog is invalidated for it, which is
what `SpecterCatalog` takes for granted of `processed`.

`AccountsProofs`. `AccountsInvariant` has three parts that different steps disturb: the table (ids below the
next one, unique columns), the pending verifications, and the requests. `KnowsItsCode` says that a pending
verification has the last code of its address, unspent, with its time, which gives `CodesVerifyOnce`; and that
where there is none, the last code is spent or too old, which gives the converse, `LatestCodeWorks`.
`FollowsItsWay` says that a request carries a row that it has seen, or was missed before it creates one: the
check and the act of `ChecksWereTrue` in two awaits. `ComesFromItsRow` says that a pending verification carries a viewer's
row that existed, whatever became of it, for `verifyCode`'s part of `TokensNameTheirUsers`. The table's `unique` is any of the
two, `LowerCase` any map that leaves addresses in lower case alone, and rows may change, in role too, or go at any time.

`NotificationsProofs`. `ContractKeepsFloors` is about `LabelContract` alone: its `LabelInvariant` gives a read
only versions from its floor to the present. Every step of
`Notifications` is one of the contract or leaves it alone (`NamesComeFromTheContract`), so that the proofs
about contents use of the catalog what `SpecterCatalogProofs` proves it to implement and nothing else.
`NotificationsInvariant` says that the event is `Parse` of the message that came, and that what was sent is
`Notification` of the event under the names that were read, which later changes of the configuration and later
events do not touch, as `history` only grows. What is left are lemmas about the parser and the factory, for any
message and any catalog: a parsed message is typed (`ParsedIsTyped`), a field of a newer Specter is left out
(`NewFieldIsLeftOut`), and each notification keeps its shape (`MatchKeepsShape` and its siblings). The theorems
hold for any set of wrong values, any time to live and any number of changes and ticks; TLC's run has seven
values, one change and one tick.

`SpecterRequestsProofs` also proves that successes of Specter's contract are 2xx answers; that calls and routes keep the
contract (`CallsKeepTheContract`) is an assumption without constants, which TLC decides completely in the run
`requests` and no proof uses.

Only model-checked: liveness (`ReadsEnd`, `BothSocketsEnd`, `SignalsEndTheProcess`, `ConnectionsBecomeUsable`,
`StopEndsTheLoops`, `NothingIsHeldBack`, `RequestsEnd`, and the fairness of `ImplementsFeed`), which the
prover does not reach.

## Plan

Modelled: everything in the table of modules. Proved: every invariant and every safety property of the passing
runs, and the safety of both refinements. What remains, in this order:

1. The models: a client's messages before its handlers are registered (`socketServer.ts:69`), a clock that
   steps back, values that a newer 1.x of the contract adds to an enumeration.
2. The proofs: that the step of `NotificationRooms` which relays an event is one that `EventFeed` allows, so
   that what the two modules say of the order of events can be put together.

## Not modelled

Email and the test mailbox, the vector store, Swagger, the rate limiter, logging, dependency injection and
`scripts/syncSpecterContracts.ts` are I/O, configuration, generated or third-party code without state of fa's own.
The schemas of request and response bodies in `openapi.ts` are Specter's to validate; only the fields of an
alert are modelled. The dashboard's arithmetic, the wording of notifications, the redirects of Google's
OAuth, password hashing and the members of the dispatcher and the factory that nothing calls are left out.
A signal during startup finds no HTTP server to close (`index.ts:34`), and the test of the Supabase connection is one logged
call, so startup is left at what it registers. Wall clocks that step back, a NATS connection closed for good by the
client, and what the libraries (`ws`, Socket.IO, NATS, openapi-fetch) do inside are outside the models.
