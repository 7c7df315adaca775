# Truckly backend: a TLA+ verification project

The repository is the NestJS server of a haulage platform: customers book a
transport, drivers near them are offered it, the first who accepts has it.
State lives in Postgres (TypeORM), in Redis (ioredis), in a Bull queue and in
the memory of the socket.io gateways. This directory holds TLA+ models of the
parts whose calls race with each other, the TLC runs that check them and the
proofs, checked by TLAPS, of what matters most in them.

Paths below are relative to `src/src/resources/` unless they say otherwise.

## 1. The system's parts

| Part | State it keeps | Operations | Interacts with |
|---|---|---|---|
| **Booking allocation** `bookings/` | the booking row; in Redis `booking:{id}:pending_drivers`, `:status`, `:lock` and `driver:{id}:pending_request` | create, sendBatchRequest, accept, reject, timeout, updateStatus | matching, queue, sockets, notifications |
| **Timeout queue** `queues/` | one delayed job per booking | add; process and remove, as written, but neither works (section 2) | the processor would call handleTimeout |
| **Booking sockets** `websockets/booking.gateway.ts`, `websockets/gateway.factory.ts` | rooms, the socket a driver is tracked by; in Redis the hash `connected_clients` | connect, join, accept, reject, disconnect, the messages to drivers and customers | calls handleDriverResponse; told by the allocation |
| **Sessions and passwords** `auth/`, `users/` | `users`, `user_sessions` | login, refresh, logout, logout-all, change and reset of a password, register, create, edit, remove | its rows are swept by the cron job |
| **Cleanup of sessions** `src/src/cron/` | a Postgres advisory lock | hourly run in every instance | `user_sessions` |
| **Access tokens** `auth/jwt.strategy.ts`, `auth/jwt-auth.guard.ts`, `auth/roles.guard.ts` | none (a signature) | verify | every request |
| **Audio calls** `websockets/audio/` | the map of active calls | call, answer, ICE candidates, reject, end, disconnect | sockets of both ends |
| **Chat** `chat/`, `websockets/chat.gateway.ts` | conversations, messages and their status; a Redis channel between the instances | send, publish, join, catch up, delivered, read | clients of every instance |
| **Driver location and status** `websockets/location.gateway.ts`, `drivers/driver-status.service.ts` | in Redis a geo index and the status of each driver | go online, go offline, set the status, move, watch | the search reads both |
| **Matching** `transport/`, `bookings/` (findMatchingDrivers) | none (pure) | which vehicles take which cargo, scores, the nearest N | sendBatchRequest |
| **Earnings and payments** `driver-earnings/`, `payments/` | the rows of earnings and payments | create, update, mark as paid, remove; initiate, verify | bookings |
| **Vehicles** `vehicles/` | a vehicle's status | create, update, updateStatus | acceptance reads it |
| **Drivers, fleet owners, documents** | rows | single-statement CRUD | |
| **Notifications** `notifications/` | the device token of a user | register, push | called by the allocation and the gateways |
| **Uploads, HTTP plumbing, migrations** | none of their own | calls of external services, formatting, set-up | |

What makes them correct, and what is hard about it:

* **Booking allocation.** At most one driver gets a booking, the row names him, a
  decided booking is never offered again, one that all drivers have left is cancelled,
  an acceptance stays, and what a decided booking leaves in Redis cannot harm it. It
  is hard because every call awaits a dozen times, each of the calls for one booking
  runs against every other (two acceptances, the last rejection and the timeout it
  handles early, a disconnect, the customer's cancellation, the creation that is still
  sending pushes), the row is read and written back whole without a transaction, the
  Redis keys have lifetimes of their own, an await may reject or the process die
  between any two steps, and the only mutual exclusion is a key that expires.
* **Sessions.** A session that was ended cannot be used again; a change of
  password ends the earlier ones and forces a new login; expired rows disappear.
  Hard: a refresh and a login read first and write later, the tokens of one
  second collide, the cleanup runs in every instance at once and must give back
  a lock that belongs to a pooled connection.
* **Audio calls.** Whoever is in a call learns of every change of it; the ICE
  candidates kept for a party are that party's. Hard: glare (both call at once),
  a disconnect in the middle, a party in several calls.
* **Matching and search.** A booking is offered to the nearest drivers who are
  online and can take it, and where few are about to all of them; a score lies in
  0..100; a lighter load or a requirement less never excludes a vehicle. Hard:
  statuses change between the geo search and their reading one by one, three
  limits cut the list at different points, three places decide what fits, null
  columns and units included.
* **Chat.** A message that was saved reaches every participant who is there or
  comes back; all see the same order; a receipt that is announced is recorded.
  Hard: rows become visible in the order of their commits and not of their
  timestamps, publications and subscriptions are lost, a client's clock has
  milliseconds, receipts overtake each other.
* **Sockets and notifications.** A message to a user reaches every connection he has
  (but those that asked to leave his room) and his device, whatever order his old and
  new sockets come and go in; the list of who is connected is right once Redis has
  caught up. Hard: reconnects, commands in flight while the process dies, a user known
  by two ids.
* **Earnings and payments.** What a call has answered is not undone by one that
  came later; a payment reference a client was given stays good. Hard: `save`
  reads, compares and writes in separate statements; retries.

`PROJECT.json` lists, under `hazards`, each of these dangers at the line where it
bites together with the properties that would notice it.

## 2. Modules

| Module | Models |
|---|---|
| `BookingLifecycle` | what the allocation promises: placed once, decided once, awarded to at most one driver, after the decision |
| `BookingAllocation` | the code: rows, Redis keys, queue, handlers, faults; its properties and its inductive invariant |
| `Sessions` | users, sessions, the requests on them and the cleanup; properties and inductive invariant |
| `VehicleMatching` | pure operators: the table of compatible types, the strategies, `validateVehicle`, the best vehicle of a fleet and the suggestions |
| `DriverSearch` | findMatchingDrivers over findClosestDriver, while drivers move and change status |
| `Presence` | connections, rooms, tracked sockets, `connected_clients`, device tokens, and whom each message reaches |
| `AudioCalls` | the signalling of calls between sockets |
| `Realtime` | composes the two: one process whose sockets go through the handlers of both |
| `Chat` | messages of a conversation across several instances: insertion, publication, catching up, history |
| `Receipts` | delivered and read |
| `Payments` | initiation and verification |
| `Earnings` | load, change and save of an earning |
| `Records` | composes the last three, whose calls interleave freely and share no table |
| `*_proofs` | theorems about `BookingAllocation`, `Sessions`, `DriverSearch` with `VehicleMatching`, `AudioCalls`, `Presence`, `Realtime`, `Chat`, `Records` with its three components |
| `MC*` | the instances for TLC: symmetry, fleets, routes; `MCRecords` lets one component of `Records` act at a time |

### BookingAllocation

State. `row` is the booking in Postgres (its status and `driverId`; `"NONE"`
before it is created). `pending`, `alloc`, `lock`, `request` are the four kinds of
Redis key, an absent key being the empty set, `"none"`, `NoUser` and `NoBooking`.
`job` is the job `booking-timeout-{id}` of the Bull queue. A running async call
is a *handler* `p` with a program counter `pc[p]`, the booking `bk[p]`, the driver
`usr[p]`, the entity it read `ent[p]` and the drivers a loop has still to visit
`todo[p]`. `offered` and `won` are histories, read by the properties; of the two
only `offered` guards an action: a driver answers only what it was sent.

Grain. Node runs one callback at a time, so **what a call does from one await on
shared state to the next is one action**, and all that other calls can do lies
between two of them. The first await is merged with the arrival, since nothing
shared was touched. `Repository.save` of an entity that was read earlier makes
the row the entity: the columns that differ are written, stale ones included (the
SELECT that TypeORM issues to find the difference is part of the same step).
The `SET`s of `setDriverPendingRequest` for all drivers are sent in one tick over
one connection, so `OfferToDrivers` is one step; clearing them afterwards is a
loop of awaits, one iteration a step (`ClearNextRequest`). A `DEL` of several keys
is one step.

| Code | Actions |
|---|---|
| BookingsService.create, sendBatchRequest | `Create`, `SetPendingDrivers`, `SetStatusPending`, `OfferToDrivers`, `AddTimeoutJob` |
| handleDriverResponse, handleAcceptance | `Accept`, `LockBooking`, `ReadBooking`, `ValidateVehicle`, `SaveAcceptance`, `SetStatusAccepted`, `ClearOwnRequest`, `GetOtherDrivers`, `CancelOtherDrivers`, `RemoveTimeoutJob` (which throws); the catch: `UnlockBooking` |
| handleRejection; the gateway's handleDisconnect | `Reject`, `Disconnect`, `RemoveDriver`, `ClearRejectedRequest`, `CountRemaining` |
| handleTimeout, as the last driver to leave runs it | `CheckNotAccepted`, `ReadForTimeout`, `SaveCancellation`, `SetStatusTimeout`, `GetExpiredDrivers`, `ExpireRequests`, `ClearTimedOutBooking` |
| PATCH /bookings/:id/status | `RequestStatus`, `SaveStatus` |
| lifetimes of the keys | `ExpireLock`, `ExpireKeys` |
| a rejected await, a process that dies | `Throw`, `Crash` |

Abstractions. The matching enters as the set of drivers a booking is offered to;
validation of the driver's vehicle as a free choice between fit and unfit. `driverId`
of the row and the driver's user id are one to one and one value here.
`booking:{id}:accepted_driver` and `contacted_drivers` are written and never read, and
left out. What `updateStatus` does besides saving the status is left out: nothing
modelled reads it. `BookingsService.acceptBooking` is called by no route. The branches
for a booking that is not in the database cannot be taken: the invariant
`BookingsExist` of the proofs says why.

The queue is modelled as it is wired, which is not as it is meant. It is registered
and injected by `@nestjs/bull` (`queues/queues.module.ts:2`, `src/src/app.module.ts:5`,
`bookings/booking-allocation.service.ts:13`), hence a queue of the package `bull`. The
processor alone is written for `@nestjs/bullmq` (a `WorkerHost`,
`queues/processes/booking-allocation.processor.ts:1`), whose module nothing imports. Two
things follow. A job that is added is taken by nobody, so that handleTimeout runs only
where the last driver to leave calls it (`CountRemaining`). And a queue of `bull` has no
`remove(jobId)`, so that line 455 of every acceptance throws *after* the row was saved,
the other drivers were told and the customer was notified: the catch frees the lock,
`clearBookingState` and the answer "Booking accepted successfully" are not reached, and
the keys `status` and `pending_drivers` stay until they expire. What of the code's
intentions survives this is what the properties are about. The queue itself is external.

### Sessions

State. `stored` is `users.password` as a plain text and the number of times bcrypt
was applied to it, `sessions` the state of the row of each refresh token. A token
is a JWT of the user and the second it was signed in, hence a pair `<<user,
second>>`: two logins within one second sign the same token. `now` is the clock in
seconds. Requests are handlers as above; `sweep` and `advisory` are the runs of
the cron job and the lock. `opener`, `late`, `old`, `ended` are histories: with
which password a token was obtained, which refreshes came after the end of their
session, and which tokens a change of password that returned has ended. `opener`
also says which tokens exist for a client to present.

| Code | Actions |
|---|---|
| login, createSession | `Login` (read and compare), `SignTokens`, `SaveSession` (the INSERT fails on a duplicate token or a removed user) |
| refreshToken | `Refresh`, `FindSession`, `ExpireSession`, `FindUser`, `TouchSession` |
| logout, logoutAll | `Logout`, `LogoutAll`: one UPDATE each |
| changePassword, resetPassword | `ChangePassword`, `ResetPassword`, `WritePassword`, `RevokeSessions` |
| register; UsersService create, update, remove | `Register`, `CreateUser`, `UpdateUser`, `RemoveUser` |
| handleExpiredSessionsCleanup | `TryLock`, `DeleteBatch`, `FailBatch`, `Unlock`, `Disconnect` (the connection is lost, and the lock with it) |
| a rejected await, a process that dies | `Fail` |
| time | `Tick` |

Abstractions. A request that is refused on arrival changes nothing and is no action.
`last_used_at` is never read. An access token is a signature no state stands for.
`logoutSession` and `cleanupExpiredSessions` are called by nothing. For a `DELETE` of
Postgres `query` returns the deleted rows and their number, two elements, whatever its
type annotation says: the loop of the cleanup takes this for two rows, finds the batch
not full and ends, so that `DeleteBatch` deletes one batch and goes on to the unlock.
An unlock that fails while its connection lives on is not modelled.

### VehicleMatching and DriverSearch

`VehicleMatching` has an operator for each strategy's `canHandleCargo` (`TrailerSuits`
...) and for the points its `matchScore` adds up (`TrailerScore` ...); `MatchScore`
is what all five share: a cargo that does not suit or exceeds the capacity is
refused, otherwise the points are capped. `ValidateVehicle` puts the checks of
`validateVehicle` before it. Numbers that the code divides to compare with a
fraction are compared by multiplication. A null column and an omitted requirement
are 0, as the code tests both for truth. Masses and volumes are whole numbers.

State of `DriverSearch`: `geo` and `status` are the two Redis structures, `vehicle` and
`cargo` the rows. A place is a distance from the pickup, since nothing else about
it is read. The search is one call with a program counter; `at` is the answer of
GEOSEARCH, `near` its drivers in order, `asked` how many statuses have been read.
`steady` and `seen` are histories: who has been ONLINE ever since the search
began, and who has been at some moment.

| Code | Actions |
|---|---|
| goOnline, goOffline, setStatus | `GoOnline`, `GoOffline`, `SetOnTrip` |
| updateLocation | `UpdateLocation` (a driver is never removed from the index) |
| findClosestDriver | `GeoSearch` (ties in either order), `AskStatus` for each driver |
| findMatchingDrivers | `FetchDrivers`, `MatchVehicles`, `Fail` |

`FindBestMatch` and `SuggestVehicles` are findBestVehicle and the suggestions over a
fleet: one is a pass that keeps the first best, the other a stable sort that is
then cut.

Abstractions. The vehicles of the drivers are read in one step: nothing in the
server changes their columns or their assignment while it runs, so the order of
the reads does not show; which of them fail is a free choice. The final sort by
score is left out, as every match is sent the booking whatever its rank.
`FlatbedStrategy` belongs to a type no vehicle has. The weight, in kilograms, that
the bus strategy turns into heads is compared with a capacity in kilograms by
`validateVehicle` first; both comparisons are modelled as they are.

### Presence, AudioCalls and Realtime

State. A socket id is used once: `conn` is "new", "on" or "gone". `rooms` and
`driverSockets` are the memory of the process, `listed` the hash
`connected_clients`, `commands` the calls of the Redis connection that have been
made and not run (a connection runs them in order), `registered` the users with a
device token. `sent` and `events` are what the last step sent, kept until the next;
`lost` and `left` are histories: the sockets whose end no handler could see, and those
whose client has asked to leave the room its own messages go to. `activeCalls` is
the gateway's table, keyed by the pair of sockets.

| Code | Actions |
|---|---|
| handleConnection of the gateways, GatewayFactory | `ConnectWithToken`, `ConnectWithoutToken`, `RefuseToken` |
| handleDisconnect of each | `Disconnect` (with `Untrack`), `HandleDisconnect`; together `SocketEnds` |
| joinRoom, joinDriverRoom, trackDriver; goOnline, goOffline | `JoinRoom`, `GoOnline`, `GoOffline` |
| sendBatchRequest's addDriverToBookingRoom, sendBookingRequest and push | `OfferBooking` |
| sendBookingCancelled, the customer's notifications, removal of the booking's room | `CancelRequest`, `TellAccepted`, `TellTimeout`, `RemoveBookingRoom` |
| registration of device tokens | `RegisterToken`, `RegisterFcmToken`, `ClearToken` |
| AudioCallGateway | `CallUser`, `AnswerCall`, `RejectCall`, `EndCall`, `IceCandidate` |
| Redis runs a command; the process dies | `RunCommand`; `Die` |

`Realtime` runs the handlers of all gateways for one connection, or one end of
one, in one step, since the framework calls them in one turn of the event loop and
none of them awaits before it has changed its state; every other handler belongs
to one of the two, and leaves the other's state alone (`Elsewhere`).

What the code does and the model shows: a driver's old socket, when it goes, takes
the entry of his new one with it (`Untrack`), so that he is tracked by nothing and
his socket does not enter the booking's room; nothing is emitted to such a room, and
messages go to the room of the user, so he misses nothing (`MessageReaches`).
`sendBookingCancelled` is given the id of the user and looks for a profile under it,
so that it never pushes. `unregister-token` updates a column with `undefined`, which
TypeORM leaves out, so the token stays (`ClearToken` changes nothing). Clients whose
token is refused, and those connected when the process dies, may stay in
`connected_clients` for ever (`lost`). `goOffline` leaves the room `driver_<id>` of
whatever id the client sends; if it is that of the user, which the documents let his
app join (IMPLEMENTATION_SUMMARY.md:241), his messages no longer reach this socket
(`left`). The text of a push needs cargo requirements, a price and both coordinates
of the booking (`described`), and a booking need not have any of them: making it then
throws, and no push is sent.

Abstractions. Which rooms clients ask to join and to leave is a constant (`Asked`);
payloads, offers and answers are not told apart. `broadcastBookingUpdate` and the
channel `booking-events` are published to by nothing. Positions sent to those who
track a driver change no state.

### Chat and Receipts

State. A message goes from "unsent" over "begun" (its transaction has begun, and
`sentAt` is fixed by `now()`) and "saved" (committed) to "published"; "unpublished"
is a saved one whose publication was refused or whose process died. `channel` is
what Redis has sent an instance and it has not handled. `live` is what a client
got while in the room, `since` a history: from where it caught up last without its
instance having lost the subscription since.

| Code | Actions |
|---|---|
| sendMessage, saveMessage, publish | `BeginSave`, `CommitSave`, `Publish`, `PublishFails` |
| the handler of the channel | `HandleChannel` |
| joinChat, leaveChat or the end of the socket | `JoinChat`, `LeaveChat` |
| syncMessages, getMessages | `SyncMessages`, `GetMessages` |
| markDelivered, markRead | `Ask`, `Update`, `UpdateFails`, `Emit` |
| faults | `LoseSubscription`, `Resubscribe`, `Crash` |

Time counts the microseconds of the database; `Floor` cuts a client's timestamp to
milliseconds as `toISOString` does. The calls of `Receipts` are a set, as each runs on
whatever connection of the pool is free; the event of a receipt reaches clients of
the same instance only, as in the code. The handlers look neither at who asks nor at
the ids: anybody may mark any message, from outside the room too, and ids of no message
(`Unknown`) are announced like the others. `told` is what anybody but the caller was
told. Typing indicators change nothing.
`createConversation`, a find followed by an insert, is reached only from
`BookingsService.acceptBooking`, which no route calls; `getUnreadCount` is called by
nothing.

### Payments and Earnings

`Payments`: the one-to-one relation makes the database refuse a second payment of a
booking; the provider is simulated by the code and always says that it was paid. A
verification without a reference, which nothing refuses, finds an arbitrary payment
(`FindAnyPayment`): to TypeORM an undefined condition is none. The body of an
initiation is taken to have the fields of its DTO and no others.
`Earnings`: `save` is two statements, `Reload` (the SELECT TypeORM makes to find what
differs) and `WriteColumns` or, if the row has gone, `InsertRow`. The columns that are
always set together are one; a value is named by the call that wrote it. `since` is a
history: for each call, those under way when it began and those begun later. Two calls
that are each in the other's overlapped. `Records` puts the two and `Receipts` side by
side.

| Code | Actions |
|---|---|
| initiatePayment, verifyPayment | `InitiatePayment`; `FindPayment`, `FindAnyPayment` (both are `FindAmong`), `SavePayment`; `Fails` |
| create, update, markAsPaid, remove | `Create`; `FindOne`, `Reload`, `WriteColumns`, `InsertRow`, `Delete`; `Fail` |

## 3. What the runs check

### Bookings

* **`alloc_race`** - one booking, two drivers, three calls at a time; every answer,
  disconnect, early timeout and cancellation by the customer in every order, any await
  may reject, any process die, `pending_drivers` and `status` run out at any moment.
  Invariants `SingleWinner`, `RowNamesWinner` and the inductive `ClaimInv`;
  `AwardedOnceDecided`, that is, **BookingAllocation implements BookingLifecycle**
  under the refinement mapping `phase <- Phase`, `winners <- won`.
* **`alloc_two`** - two bookings whose drivers overlap, so that the one
  `pending_request` of a driver is overwritten by the second booking, and may run
  out, without faults: `AcceptedHasWinner`, `PendingIsUnlocked`, and
  `LeftoversAreHarmless`, what a decided booking leaves in Redis cannot undo it.
* **`alloc_live`** - one booking, two drivers, three calls, without faults, under
  fairness: `SettledAcceptanceStays`, once the calls beside an acceptance have
  returned, nothing takes it back; `LastToLeaveDecides` (liveness), a booking that all
  drivers have left is cancelled, also when the last two leave at once.
* `alloc_unanswered`, `alloc_late_timeout` - what the documents and a comment say and
  the code does not do; see section 6.

Bounds. Two drivers are enough for every race of two acceptances, of an
acceptance with a rejection, and for a loop over the other drivers; a third
would repeat the second. Three handlers allow two acceptances against the last
rejection and its timeout, or an acceptance and a rejection against a creation still
in progress, which is all of the kinds of calls that a lock or a status can
separate. A second booking
matters only through the drivers the two share, hence its own run, with two
handlers. The theorems need no such bounds. `StatusRequests` is {CANCELLED} in
`alloc_race`, the customer's cancellation, and empty where a run is about the other
calls. A request for PENDING would reopen a decided booking by asking for it: it is
left out, and "decided once" (`AwardedOnceDecided`) is said of all other saves.
`SlowAcceptance` is FALSE: a lock outlives its acceptance, and what happens otherwise
is not caught by these runs but shown by `alloc_slow_lock`. In `alloc_live` and
`alloc_two` no `status` or `pending_drivers` expires: the first is set anew, with its
300 s, by every acceptance, and so outlives the second.

### Sessions

* **`sessions_race`** - one user, two passwords, tokens with a lifetime of one second,
  which are refused when the next has passed, two requests at a time, edits and
  removal, the cleanup, one fault: `EndedIsRefused`, `ChangeEndsSessions`, the
  inductive `SessionInv` and the action property `NeverRevived`.
* **`sessions_sweep`** - runs of the cleanup in two instances, batches of one row, one
  failure or lost connection: `LockNamesSweeper`, and `ExpiredIsSwept` (liveness):
  although a run deletes one batch only, the runs to come delete what it left.
* `sessions_register` - see section 6.

Bounds. A lifetime of one and a clock that stops at 2 or 3 stand for seven days:
a token can be fresh, at its last instant and past it, and tokens of different
seconds coexist. A batch of one stands for 1000: with two expired rows one run leaves
the second to the next. `MaxFaults` bounds the failures; `MaxTime` and the clock
are a bound of the model. One user suffices because no statement reads or writes
rows of two users; the theorems hold for any number.

### Search

* **`search`** - the properties of `DriverSearch`, from three kinds of start.
  *Races*: three drivers at any places, with or without a truck, who make two moves
  at any moments of the search, for a booking with or without requirements. *Pairs*:
  one driver next to the pickup with every kind of vehicle (five types, null or
  set columns) against every kind of cargo, on both sides of each limit.
  `OfferedWereOnline`, `NearestFirst` and `FewAreAllOffered` are about the first;
  `LighterStillFits`, `DemandsOnlyRestrict` and the range of a score about the second.
  A tipper is the one vehicle that a requirement *less* may exclude: it takes
  packaged goods only if they are to be dumped. *Mixed fleets*: three vehicles that
  suit some goods equally or differently, in every order: `BestIsSuggestedFirst`.

Bounds. The limits 10, 3 and 5 become 2, 1 and 2: three drivers exceed each of the
first two, and whatever passes the second passes the third, as in the code. The
radius of 1 among the distances 0, 1, 2 has a driver inside, on the border and
outside. Two moves let one driver go and return, or two drivers change places,
during one search. One vehicle may fail to be fetched. Weights 0, 2, 80 and 101
lie at and around one head of a bus, a light truck's capacity and the heavy
one's; the theorems hold for all.

### Sockets and calls

* **`realtime`** - `Realtime` with two sockets, each a driver's, a customer's or
  nobody's, who come and go in any order, call each other and are sent messages of
  one booking, while the process may die at any moment. `TrackedIsLive`, `RoomsHold`,
  `ListedAtRest` and `MessageReaches` of Presence, `CandidatesMatch` and the action
  property `ChangeIsTold` of AudioCalls, and `GatewaysAgree`: **the process implements
  the specifications of both**, so that what holds of each alone holds of it in the
  process.

Bounds. Two sockets allow the reconnect of one user, the call of two and glare; a
socket id is not used again, so they are two connections in all. Two outstanding
commands of Redis (`MaxLag`) let the entry and the removal of one socket, or of two,
be in flight together. A third socket, which `calls_disconnect.cfg` has, puts one
party in two calls. The theorems need none of these bounds.

### Chat

* **`chat`** - two messages of two clients and two instances, of which one client
  may reach both, with one fault: `OnlyOvertakenMissed` and `SameOrder`, and, under
  fairness, `SentIsReceived`.

Bounds. Two messages are what it takes for one to be stamped earlier and committed
later; two instances for a message that is handled by one and read at the other; a
page of one (`Limit`) cuts the history. Two units of time to a millisecond (`Grain`)
and a clock of two values put two messages into one millisecond or on both sides of
a border. One fault (`MaxFaults`) is a refused publication, a lost subscription or a
crash, at any moment.

### Receipts, payments and earnings

* **`records`** - the three components of `Records` have no variable in common, so that
  an invariant of one says nothing of the others: the run lets one act while the others
  are as they began (`SpecApart`), and `RecordsHold` carries the result over to all
  interleavings. Three calls each: `ReceiptsTrue` (two clients in any rooms, one
  message and an id of none), `ReferencesHold` (two bookings), `LostOnlyToOverlap` (one
  earning).

Bounds. Three calls let one overlap with two others or follow both: what is lost of
the first is then due to one of them. `MaxMarks` is that bound for receipts: three in
flight, of which two may mark the same message with the third about to announce.

### Configurations to run by hand

Seven further configurations ask questions that are refuted like those of section 6,
and are not among the runs of `PROJECT.json`, each by `tlc -config X.cfg M`:
`alloc_refused` and `alloc_slow_lock` (MCBookingAllocation), `sessions_relogin` and
`sessions_batches` (MCSessions), `search_fit` (MCDriverSearch), `offer_push`
(MCRealtime), `calls_disconnect` (MCAudioCalls).

`CHECK_DEADLOCK FALSE` is set everywhere: a server that nobody calls, with all
bookings decided, or a clock at its bound, rightly does nothing.

## 4. Fairness

`BookingAllocation!Fairness`: `WF(HandlerStep(p))`, because Node runs the
continuation of each await that settles and ioredis and Postgres answer or
reject. No fairness brings a job to a worker, as there is none. Nothing is assumed
of drivers, of customers or of faults. `Sessions!Fairness`: the scheduler starts a
run every hour in some instance (`WF(\E i : TryLock(i))`), and the queries of a
run return. `Chat!FairSpec`: a transaction that has begun commits and a publication is
made or refused (`WF(CommitSave(m))`, `WF(Publish(m) \/ PublishFails(m))`), because
Postgres and Redis answer, and an instance handles what Redis has sent it
(`WF(HandleChannel(i))`), because Node runs its callbacks. Nothing is assumed of
clients: they need not join, catch up or stay.

## 5. What is proved

TLAPS checks the theorems for every number of bookings, drivers, users, sockets,
handlers, messages and cleanup runs, for every bound and every subset of
faults and expiring keys; where a theorem needs more, its ASSUME says so.

**The allocation** (`BookingAllocation_proofs`). `OneWinner`, `RowNamesItsWinner`
and `ImplementsLifecycle` are consequences of `ClaimsCorrect`,
`Spec => []ClaimInv`. `SingleWinner` is not inductive: it does not say why a second
acceptance cannot be under way. The argument, in the conjuncts of `ClaimInv`: a
handler between the lock and the save is covered by the lock and alone in that
stretch, *or the booking is already decided* (`LockProtects`), since a timeout or
an expiry may take the lock from a booking, but only after its row was decided;
an acceptance that was saved leaves a decided row (`SaveDecides`), which turns
away everyone who reads it after; hence at most one handler is between its read
and its last step (`OneClaim`); and every entity that is written back stale, by a
timeout or a status update, names no driver other than that one
(`DriversAgree`, `EntitiesDecide`). Assumptions, named in the theorems:

* `~SlowAcceptance`: no acceptance lasts longer than the 30 s of its lock. It is
  necessary: `alloc_slow_lock.cfg` shows two winners without it.
* `"PENDING" \notin StatusRequests`: nobody asks PATCH to put a booking back to
  PENDING, which the endpoint would do. This matters most to `ImplementsLifecycle`: it
  says that no *stale* save reopens a decided booking, the hazard of entities that
  are read, kept over several awaits and written back whole.

**What the calls leave behind** (`BookingAllocation_proofs`, its second half). Every
acceptance throws at the removal of its job, so it never clears its keys; the
properties say why this does no harm. Where no other await rejects and no process dies
(`Faults = {}`; `alloc_race` has what holds with faults), for any number of calls at once:

* `AcceptedForSomebody`: only the save of an acceptance writes ACCEPTED, and a claim
  ends only after the customer was told of the driver, although the driver is then
  answered that he failed (`alloc_refused`). Assumed: no status request writes ACCEPTED,
  as the endpoint would let one do without any driver.
* `OpenIsUnlocked`: the lock of an open booking belongs to an acceptance between its
  lock and its decision, and the only way out of that stretch unlocks (`LockServed`).
  Assumed: no request for PENDING, `~SlowAcceptance`.
* `LeftoversHarmless`: a decided booking is named by no driver's `pending_request`, and
  as long as drivers are listed for it its `status` is ACCEPTED, for which handleTimeout
  looks. Who decides it reads the set of drivers first and clears their requests one by
  one, while drivers leave that set and clear their own. `ResidueInv` says why nothing
  is missed: the offers of a booking precede everything else that is done for it; a
  driver with a request for it is in the set, or is clearing it himself; whoever has
  decided the booking still has before him all requests that are left
  (`DecisionClears`, the cleaners being those of `Clearing`); and a rejection that comes
  late ends at a status that is ACCEPTED (`LateAnswersSpared`).
* `AcceptanceStays`: from the moment the calls beside an acceptance have returned, the
  booking stays ACCEPTED. By `LeftoversHarmless` the booking is then `Settled`, and
  nothing unsettles it (`SettledStep`): no disconnect gives it up, as no request names
  it; an acceptance reads that it is decided; a rejection reads the status ACCEPTED.

The last two assume no status requests (CANCELLED or COMPLETED clear nothing, and take
an acceptance back by asking), `~SlowAcceptance`, and of the expiring keys only the
`pending_request`s: `status` is set with its 300 s at the acceptance and so outlives
`pending_drivers`, and `pending_drivers` does not expire during a call, after which nobody
would know whose requests to clear.

**Why a booking all drivers have left is decided** (`BookingAllocation_proofs`, its end).
The liveness property `LastToLeaveDecides` is TLC's, but what it rests on beside fairness
is proved. `EmptiedAreAttended`: where nothing fails, a booking that was offered, has no
pending driver left and is still open has a call that is about to cancel or to decide it,
as each who leaves counts after he was removed. `CallsEnd`: no step of anybody, faults
included, sends a call back or lengthens its loop, so that a call ends after finitely
many steps. What is left to TLC is that a busy call can take its next step.

**Sessions** (`Sessions_proofs`). `EndedRefused` and `PasswordEndsSessions` follow
from `SessionInv`, `RevokedStaysRevoked` and `SweepersExclude` from types and the
steps. The danger is a token whose row disappears and comes back: a second login
of the same second would insert it again as active. `RowsGoForGood` says that a
row goes only when it has expired or together with its user, whose id is not used
again, so that a token once handed out never gets a second session that could be
used; `LateAreSpent` and `OldAreSpent` carry that to the requests that remember
such a token. No assumption beyond the declared ones is needed.

**Matching and search** (`DriverSearch_proofs`). `LighterOffered`,
`FewerDemandsOffered` and the range of scores in `TypeCorrect` rest on lemmas about
`ValidateVehicle` for every vehicle and cargo, a TLC run having only sampled them.
The others follow from `Invariance`, `Spec => []Inv`, by this argument: `near` is the
ascending list of the closest drivers, and of all if they are few (`NearInv`); a
driver who is still `steady` when asked is ONLINE at that moment, and one found
ONLINE is in `seen` (`HistoryInv`); the first `Closest` of the positions found online
are closed downwards, so a closer steady driver is among them whenever a farther
one is (`FirstDownward`); and exactly the fit ones among those are matched
(`MatchInv`), because the limit of findMatchingDrivers is no less than the one of
findClosestDriver and so never cuts. That `Limit >= Closest` is an assumption of the
module (5 and 3 in the code).

`OptimalIsSuggestedFirst` compares a pass over a fleet with a stable sort of it, for every
fleet. One vehicle is ahead of another by a higher score, or by an earlier place with
the same score; this is a strict order on the vehicles that fit (`AheadOrders`), so that
exactly one has nobody ahead of it (`BestExists`, `BestUnique`). The first of the sorted
list is that one. So is the one the pass has kept after the first n vehicles, among
those n (`PassFindsBest`): at the least n at which it were not, the step from n - 1
would be wrong (`PassStep`).

**Sockets** (`Presence_proofs`). `DriversAreTrackedLive` and `PersonalRoomsHold`
follow from `RoomsInv`, which adds to the two that a socket is somebody's only while
it is connected. Clients join and leave any room they ask for, and the exception the
property makes is for those alone whose own last word on their room was `goOffline`.
`MessagesReach` then says of every step that sends what it reaches. `ListCatchesUp` is
the one that needs more: `ListInv` says of each socket where it stands between its
connection and the list (`Settled`): not listed and not in the queue; its entry queued
and its removal, if it has gone, queued behind it; listed; or lost. That commands run
in the order in which they were made is what keeps it.

**Calls** (`AudioCalls_proofs`). `CandidatesAreOfTheirParty` is inductive by itself,
as a session that is replaced takes its candidates along; `NobodyLeftInCall` is a
statement about steps that needs it, because the two parties of a call are those of
its key.

**The process** (`Realtime_proofs`). `ProcessImplementsGateways` maps every step of the
process to a step or a stutter of each gateway's specification;
`PresenceOfTheProcess`, `CandidatesOfTheProcess`, `ChangesOfTheProcess` and
`ProcessTyped` carry the theorems over.

**Chat** (`Chat_proofs`). `OnlyOvertaken` rests on `Listening`: a client that catches up is
in the room of a subscribed instance, so that what is published after its query is
on the way to it. `OrderInv`, for `LiveInOneOrder`, takes what each client got live
followed by what its instance has still to handle, and the channels themselves: no
message stands twice in one of these sequences, and any two of them order what they
share alike. A publication appends one new message to all channels, and every other
step only cuts the sequences.

**Records** (`Records_proofs`). `ReceiptsAreTrue` adds to the property that a call
which has updated the rows stands for receipts that are there, where its ids have
messages; `ReferencesStay` that a call which verifies has found exactly one booking,
whose payment is still there. `AnsweredUnlessOverlapped` follows from `EarningInv`.
Two calls under way for one earning have met (`MetInv`). Between the SELECT of a save
and its UPDATE, the columns that it will leave alone are as the call wants them,
unless a call it met has answered since (`SavingInv`). Hence what was asked for is
there when the call answers; and whoever could still undo it has met it, or began
later and then either sets the same columns, or removes the earning, or holds an
entity in which the answered call's columns are as that call wrote them
(`AnsweredInv`). `RecordsAreTheirs` maps every step of `Records` to a step or a
stutter of each component, which gives `RecordsTyped` and `RecordsHold`. Assumed, by
name: the marker of an absent value is no value, and the statuses that are asked for
are statuses of the enumeration.

**Model-checked only**: the liveness properties (`LastToLeaveDecides`, `ExpiredIsSwept`,
`SentIsReceived`; fairness and ENABLED are out of the prover's reach) and the
violations. Every invariant and action property that a run checks is also proved.

## 6. Where the code and its words differ

Each is a configuration in which TLC finds the counterexample; the first three are
runs of `PROJECT.json`, the others those of the end of section 3.

1. `alloc_unanswered`: the timeout job of a booking is taken by no worker, so that a
   booking no driver answers stays PENDING (`queues/queues.module.ts:2`,
   `queues/processes/booking-allocation.processor.ts:1`; "Cancel booking after 60s, notify
   customer", src/IMPLEMENTATION_SUMMARY.md:59).
2. `alloc_late_timeout`: a driver who accepts and whose socket closes meanwhile is the
   last to leave; his rejection looks at the allocation status before the acceptance
   has set it and saves CANCELLED over the row the acceptance has saved
   (`bookings/booking-allocation.service.ts:513`; "If already accepted, ignore
   timeout").
3. `sessions_register`: registration hashes the password twice, so that the user
   cannot log in with it.
4. `alloc_refused`: every acceptance throws when it removes its job, and the driver is
   answered that it failed, while the row names him and the customer was told so
   (`bookings/booking-allocation.service.ts:455`; "Booking accepted successfully").
5. `alloc_slow_lock`: an acceptance that outlives its lock shares the booking with
   a second driver (`bookings/booking-state.service.ts:92`; "prevents race
   conditions").
6. `sessions_relogin`: a login that compared the old password before a reset saves
   its session after the reset has revoked all ("force re-login with new
   password").
7. `sessions_batches`: a run of the cleanup ends after its first batch, full or not
   (`src/src/cron/processors/clean-expired-sessions.cron.ts:60`; "exit when batch is not
   full").
8. `offer_push`: a booking without cargo requirements, price or coordinates is offered to
   a driver with a device and without a socket, and making the text of the push throws
   (`notifications/notifications.service.ts:158`; "FCM push notification to
   offline/backgrounded drivers").
9. `search_fit`: the three nearest online drivers are cut off before their
   vehicles are validated, so that a booking finds nobody while a fourth could take
   it (`websockets/location.gateway.ts:114`; "For each nearby ONLINE driver ...
   Select top 3 drivers").
10. `calls_disconnect`: a socket in two calls that goes ends the first found, and
   the other call stays in the table (`websockets/audio/audio-call.gateway.ts:213`;
   "clean up any active calls").

The runs that pass are about what remains true in spite of these: an early timeout may
cancel an accepted booking but never gives it to somebody else, and only while the
calls overlap; an acceptance that throws after its save leaves the row with the driver
it names, and keys that do it no harm; what one cleanup leaves the next deletes; and
the party whose call a disconnect does end is told.

`LastToLeaveDecides` is checked without faults. The code has no recovery for a creation
that dies between the save of the booking and its offers, nor for a rejection that
dies before its timeout: the booking then stays PENDING for ever.

## 7. Not modelled, and why

* **Access tokens**: a signature and an expiry are checked on every request; no
  state.
* **Vehicles**: creation and the queries are one statement each, update and remove
  are stubs that return a text. The status is read and saved by one route and by
  the end of a booking; no acceptance sets it IN_USE and no search reads it.
* **Drivers, fleet owners and documents**: single statements on one row, and nothing
  relates two rows or two calls.
* **Uploads, HTTP plumbing, migrations and seeds**: one call of a storage provider,
  formatting and set-up.
* Of modelled components: update and remove of a booking (stubs), `acceptBooking` of
  BookingsService and the creation of a conversation (no route reaches them), sums
  and reports over earnings (they only read), the last position and the last-seen
  time of a driver in Postgres (no search reads them), typing indicators and the
  forwarding of positions (no state).
* The processor of the timeout queue: nothing runs it.
* Some hazards in `PROJECT.json` have no property, each with its reason: the code
  promises nothing there, has no recovery to check, or does not keep the promise.
