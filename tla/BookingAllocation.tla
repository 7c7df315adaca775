-------------------------- MODULE BookingAllocation --------------------------
(***************************************************************************)
(* The allocation of a booking to a driver: BookingAllocationService with  *)
(* the Redis keys of BookingStateService, the booking row in Postgres, the *)
(* timeout job and the entry points that start work on a booking           *)
(* (BookingsService.create and updateStatus, BookingGateway's acceptBooking*)
(* rejectBooking and handleDisconnect).                                    *)
(*                                                                         *)
(* The queue is as it is wired.  It is registered and injected by          *)
(* @nestjs/bull (queues.module.ts:2, booking-allocation.service.ts:13), so *)
(* that it is a Bull queue; the processor is written for @nestjs/bullmq    *)
(* (booking-allocation.processor.ts:1), whose module nothing imports.  So  *)
(* a job that is added is taken by nobody, and remove(jobId), which a Bull *)
(* queue does not have, throws.                                            *)
(*                                                                         *)
(* Every running async call is a handler with a program counter; what a    *)
(* handler does between two awaits on shared state is one action.  The     *)
(* first await of a call is merged with its arrival, since nothing shared  *)
(* is touched before it.                                                   *)
(***************************************************************************)
EXTENDS Naturals, FiniteSets

CONSTANTS
  Bookings,        \* booking ids
  Users,           \* user ids of drivers
  Handlers,        \* slots for concurrently running async calls
  NoUser,          \* "no driver": a null driverId, an absent lock key
  NoBooking,       \* "no booking": an absent pending_request key
  StatusRequests,  \* statuses that PATCH /bookings/:id/status is asked for
  SlowAcceptance,  \* can an acceptance outlive the 30 s of its lock?
  Expiring,        \* Redis keys whose 300 s TTL may run out
  Faults           \* "throw": an await may reject; "crash": a process may die

Statuses == {"PENDING", "ACCEPTED", "IN_PROGRESS", "COMPLETED", "CANCELLED"}

ASSUME SentinelAssumption == NoUser \notin Users /\ NoBooking \notin Bookings
ASSUME EnvironmentAssumption ==
  /\ StatusRequests \subseteq Statuses
  /\ SlowAcceptance \in BOOLEAN
  /\ Expiring \subseteq {"pending", "status", "request"}
  /\ Faults \subseteq {"throw", "crash"}

VARIABLES
  row,      \* Postgres: status and driver of each booking ("NONE": no row)
  pending,  \* booking:{id}:pending_drivers
  alloc,    \* booking:{id}:status
  lock,     \* booking:{id}:lock
  request,  \* driver:{id}:pending_request
  job,      \* Bull: the job booking-timeout-{id}
  pc, bk, usr, ent, todo,  \* per handler: where it is and what it remembers
  offered,  \* history: drivers who were sent the bookingRequest event
  won       \* history: drivers of whom the customer was told that they accepted

redis == <<pending, alloc, lock, request>>
locals == <<pc, bk, usr, ent, todo>>
history == <<offered, won>>
vars == <<row, redis, job, locals, history>>

NoRow == [status |-> "NONE", driver |-> NoUser]
Rows == [status : Statuses \cup {"NONE"}, driver : Users \cup {NoUser}]

\* The steps of the calls, named after what the handler awaits next.
CreateSteps == {"setPending", "setStatus", "offer", "addJob"}
BeforeSave == {"read", "validate", "save"}
AfterSave == {"setAccepted", "clearOwn", "others", "walk", "removeJob"}
RejectSteps == {"drop", "clearRequest", "count"}
TimeoutSteps == {"tStatus", "tRead", "tSave", "tSetStatus", "tPending", "tWalk", "tClear"}
Steps == {"idle", "lock", "unlock", "uSave"}
           \cup CreateSteps \cup BeforeSave \cup AfterSave \cup RejectSteps \cup TimeoutSteps

TypeOK ==
  /\ row \in [Bookings -> Rows]
  /\ pending \in [Bookings -> SUBSET Users]
  /\ alloc \in [Bookings -> {"none", "PENDING", "ACCEPTED", "TIMEOUT"}]
  /\ lock \in [Bookings -> Users \cup {NoUser}]
  /\ request \in [Users -> Bookings \cup {NoBooking}]
  /\ job \in [Bookings -> {"none", "delayed"}]
  /\ pc \in [Handlers -> Steps]
  /\ bk \in [Handlers -> Bookings \cup {NoBooking}]
  /\ usr \in [Handlers -> Users \cup {NoUser}]
  /\ ent \in [Handlers -> Rows]
  /\ todo \in [Handlers -> SUBSET Users]
  /\ offered \in [Bookings -> SUBSET Users]
  /\ won \in [Bookings -> SUBSET Users]
  \* a handler that is busy works for a booking, a responding one for a driver
  /\ \A p \in Handlers : pc[p] # "idle" => bk[p] \in Bookings
  /\ \A p \in Handlers :
       pc[p] \in {"lock", "unlock"} \cup BeforeSave \cup AfterSave \cup RejectSteps
         => usr[p] \in Users

Init ==
  /\ row = [b \in Bookings |-> NoRow]
  /\ pending = [b \in Bookings |-> {}]
  /\ alloc = [b \in Bookings |-> "none"]
  /\ lock = [b \in Bookings |-> NoUser]
  /\ request = [u \in Users |-> NoBooking]
  /\ job = [b \in Bookings |-> "none"]
  /\ pc = [p \in Handlers |-> "idle"]
  /\ bk = [p \in Handlers |-> NoBooking]
  /\ usr = [p \in Handlers |-> NoUser]
  /\ ent = [p \in Handlers |-> NoRow]
  /\ todo = [p \in Handlers |-> {}]
  /\ offered = [b \in Bookings |-> {}]
  /\ won = [b \in Bookings |-> {}]

----------------------------------------------------------------------------
\* Control of the handlers.

At(p, step) == pc[p] = step

Goto(p, step) == pc' = [pc EXCEPT ![p] = step]

\* The handler awaits `step` next and remembers nothing new.
Continue(p, step) == Goto(p, step) /\ UNCHANGED <<bk, usr, ent, todo>>

Start(p, step, b, u) ==
  /\ pc[p] = "idle"
  /\ Goto(p, step)
  /\ bk' = [bk EXCEPT ![p] = b]
  /\ usr' = [usr EXCEPT ![p] = u]

\* The call returns (or its rejection is swallowed): its locals are gone.
Finish(p) ==
  /\ Goto(p, "idle")
  /\ bk' = [bk EXCEPT ![p] = NoBooking]
  /\ usr' = [usr EXCEPT ![p] = NoUser]
  /\ ent' = [ent EXCEPT ![p] = NoRow]
  /\ todo' = [todo EXCEPT ![p] = {}]

----------------------------------------------------------------------------
\* Bugs this code could have had: each stands in for the definition of the
\* same parameters in a mutation of a run, and is used nowhere else.

\* SET without NX.
LockBooking_Overwrites(p) ==
  /\ At(p, "lock")
  /\ lock' = [lock EXCEPT ![bk[p]] = usr[p]]
  /\ Continue(p, "read")
  /\ UNCHANGED <<row, pending, alloc, request, job, history>>

\* The driver who finds the booking locked throws into the catch that unlocks.
LockBooking_LoserUnlocks(p) ==
  /\ At(p, "lock")
  /\ \/ /\ lock[bk[p]] = NoUser
        /\ lock' = [lock EXCEPT ![bk[p]] = usr[p]]
        /\ Continue(p, "read")
     \/ lock[bk[p]] # NoUser /\ Continue(p, "unlock") /\ UNCHANGED lock
  /\ UNCHANGED <<row, pending, alloc, request, job, history>>

\* The status of the booking that was read is not looked at.
ReadBooking_AnyStatus(p) ==
  /\ At(p, "read")
  /\ ent' = [ent EXCEPT ![p] = row[bk[p]]]
  /\ Goto(p, "validate")
  /\ UNCHANGED <<bk, usr, todo, row, redis, job, history>>

\* An unsuitable vehicle returns instead of throwing.
ValidateVehicle_KeepsLock(p) ==
  /\ At(p, "validate")
  /\ \/ /\ ent' = [ent EXCEPT ![p] = [status |-> "ACCEPTED", driver |-> usr[p]]]
        /\ Goto(p, "save")
        /\ UNCHANGED <<bk, usr, todo>>
     \/ Finish(p)
  /\ UNCHANGED <<row, redis, job, history>>

\* The booking is saved before the vehicle is validated.
SaveAcceptance_ThenValidates(p) ==
  /\ At(p, "save")
  /\ row' = [row EXCEPT ![bk[p]] = ent[p]]
  /\ Continue(p, "setAccepted") \/ Continue(p, "unlock")
  /\ UNCHANGED <<redis, job, history>>

\* The save is forgotten.
SaveAcceptance_Unsaved(p) ==
  At(p, "save") /\ Continue(p, "setAccepted") /\ UNCHANGED <<row, redis, job, history>>

\* The allocation status is left PENDING by an acceptance.
SetStatusAccepted_Forgotten(p) ==
  At(p, "setAccepted") /\ Continue(p, "clearOwn") /\ UNCHANGED <<row, redis, job, history>>

\* The others are looked up where the driver should be who accepted.
GetOtherDrivers_OnlySelf(p) ==
  /\ At(p, "others")
  /\ todo' = [todo EXCEPT ![p] = pending[bk[p]] \cap {usr[p]}]
  /\ Goto(p, "walk")
  /\ UNCHANGED <<bk, usr, ent, row, redis, job, history>>

\* A socket that closes is taken to have a pending booking.
Disconnect_Unchecked(p, u) ==
  /\ Start(p, "drop", request[u], u)
  /\ UNCHANGED <<row, redis, job, history, ent, todo>>

\* The timeout writes the booking back without having cancelled it.
ReadForTimeout_Unchanged(p) ==
  /\ At(p, "tRead")
  /\ ent' = [ent EXCEPT ![p] = row[bk[p]]]
  /\ Goto(p, "tSave")
  /\ UNCHANGED <<bk, usr, todo, row, redis, job, history>>

----------------------------------------------------------------------------
\* BookingsService.create and sendBatchRequest.

\* POST /bookings: the row is saved; the matching drivers D were looked up.
Create(p, b, D) ==
  /\ row[b].status = "NONE"
  /\ row' = [row EXCEPT ![b] = [status |-> "PENDING", driver |-> NoUser]]
  /\ \/ D = {} /\ UNCHANGED locals
     \/ /\ D # {}
        /\ Start(p, "setPending", b, NoUser)
        /\ todo' = [todo EXCEPT ![p] = D]
        /\ UNCHANGED ent
  /\ UNCHANGED <<redis, job, history>>

SetPendingDrivers(p) ==
  /\ At(p, "setPending")
  /\ pending' = [pending EXCEPT ![bk[p]] = @ \cup todo[p]]
  /\ Continue(p, "setStatus")
  /\ UNCHANGED <<row, alloc, lock, request, job, history>>

SetStatusPending(p) ==
  /\ At(p, "setStatus")
  /\ alloc' = [alloc EXCEPT ![bk[p]] = "PENDING"]
  /\ Continue(p, "offer")
  /\ UNCHANGED <<row, pending, lock, request, job, history>>

\* The SETs of all drivers leave in one tick on one connection, before the
\* first bookingRequest event; the FCM pushes are awaited after it.
OfferToDrivers(p) ==
  /\ At(p, "offer")
  /\ request' = [u \in Users |-> IF u \in todo[p] THEN bk[p] ELSE request[u]]
  /\ offered' = [offered EXCEPT ![bk[p]] = todo[p]]
  /\ Continue(p, "addJob")
  /\ UNCHANGED <<row, pending, alloc, lock, job, won>>

\* The delayed job waits for a worker that is never registered.
AddTimeoutJob(p) ==
  /\ At(p, "addJob")
  /\ job' = [job EXCEPT ![bk[p]] = "delayed"]
  /\ Finish(p)
  /\ UNCHANGED <<row, redis, history>>

----------------------------------------------------------------------------
\* handleDriverResponse: a driver answers an offer it has received.  One that
\* is no longer pending is told so and nothing changes.

Accept(p, b, u) ==
  /\ u \in offered[b] \cap pending[b]
  /\ Start(p, "lock", b, u)
  /\ UNCHANGED <<row, redis, job, history, ent, todo>>

Reject(p, b, u) ==
  /\ u \in offered[b] \cap pending[b]
  /\ Start(p, "drop", b, u)
  /\ UNCHANGED <<row, redis, job, history, ent, todo>>

\* handleAcceptance: SET NX on the lock key.
LockBooking(p) ==
  /\ At(p, "lock")
  /\ \/ /\ lock[bk[p]] = NoUser
        /\ lock' = [lock EXCEPT ![bk[p]] = usr[p]]
        /\ Continue(p, "read")
     \/ /\ lock[bk[p]] # NoUser
        /\ Finish(p)
        /\ UNCHANGED lock
  /\ UNCHANGED <<row, pending, alloc, request, job, history>>

\* The booking is read; if it is not PENDING the call returns, lock and all.
ReadBooking(p) ==
  /\ At(p, "read")
  /\ \/ /\ row[bk[p]].status = "PENDING"
        /\ ent' = [ent EXCEPT ![p] = row[bk[p]]]
        /\ Goto(p, "validate")
        /\ UNCHANGED <<bk, usr, todo>>
     \/ /\ row[bk[p]].status # "PENDING"
        /\ Finish(p)
  /\ UNCHANGED <<row, redis, job, history>>

\* The driver's vehicle can take the cargo, or the call throws.
ValidateVehicle(p) ==
  /\ At(p, "validate")
  /\ \/ /\ ent' = [ent EXCEPT ![p] = [status |-> "ACCEPTED", driver |-> usr[p]]]
        /\ Goto(p, "save")
        /\ UNCHANGED <<bk, usr, todo>>
     \/ Continue(p, "unlock")
  /\ UNCHANGED <<row, redis, job, history>>

\* Repository.save: the columns of the row that differ from the entity are
\* written, so the row becomes the entity, stale columns included.
SaveAcceptance(p) ==
  /\ At(p, "save")
  /\ row' = [row EXCEPT ![bk[p]] = ent[p]]
  /\ Continue(p, "setAccepted")
  /\ UNCHANGED <<redis, job, history>>

SetStatusAccepted(p) ==
  /\ At(p, "setAccepted")
  /\ alloc' = [alloc EXCEPT ![bk[p]] = "ACCEPTED"]
  /\ Continue(p, "clearOwn")
  /\ UNCHANGED <<row, pending, lock, request, job, history>>

\* clearDriverPendingRequest, then the customer is told who accepted (errors
\* swallowed).
ClearOwnRequest(p) ==
  /\ At(p, "clearOwn")
  /\ request' = [request EXCEPT ![usr[p]] = NoBooking]
  /\ won' = [won EXCEPT ![bk[p]] = @ \cup {usr[p]}]
  /\ Continue(p, "others")
  /\ UNCHANGED <<row, pending, alloc, lock, job, offered>>

GetOtherDrivers(p) ==
  /\ At(p, "others")
  /\ todo' = [todo EXCEPT ![p] = pending[bk[p]] \ {usr[p]}]
  /\ Goto(p, "walk")
  /\ UNCHANGED <<bk, usr, ent, row, redis, job, history>>

\* One iteration of a loop over drivers that clears their pending_request.
ClearNextRequest(p, next) ==
  /\ \/ /\ todo[p] = {}
        /\ Continue(p, next)
        /\ UNCHANGED request
     \/ \E u \in todo[p] :
          /\ request' = [request EXCEPT ![u] = NoBooking]
          /\ todo' = [todo EXCEPT ![p] = @ \ {u}]
          /\ UNCHANGED <<pc, bk, usr, ent>>
  /\ UNCHANGED <<row, pending, alloc, lock, job, history>>

CancelOtherDrivers(p) == At(p, "walk") /\ ClearNextRequest(p, "removeJob")

\* The injected Bull queue has no remove: the call throws into the catch block,
\* and clearBookingState and the answer of success after it are never reached.
RemoveTimeoutJob(p) ==
  /\ At(p, "removeJob")
  /\ Continue(p, "unlock")
  /\ UNCHANGED <<row, redis, job, history>>

\* The catch block: DEL of the lock, whoever holds it, and rethrow; the gateway
\* answers the driver that the acceptance failed.
UnlockBooking(p) ==
  /\ At(p, "unlock")
  /\ lock' = [lock EXCEPT ![bk[p]] = NoUser]
  /\ Finish(p)
  /\ UNCHANGED <<row, pending, alloc, request, job, history>>

----------------------------------------------------------------------------
\* Rejection, and the automatic rejection of a driver who disconnects: only
\* the booking its pending_request names is given up.

Disconnect(p, u) ==
  /\ request[u] # NoBooking
  /\ Start(p, "drop", request[u], u)
  /\ UNCHANGED <<row, redis, job, history, ent, todo>>

RemoveDriver(p) ==
  /\ At(p, "drop")
  /\ pending' = [pending EXCEPT ![bk[p]] = @ \ {usr[p]}]
  /\ Continue(p, "clearRequest")
  /\ UNCHANGED <<row, alloc, lock, request, job, history>>

ClearRejectedRequest(p) ==
  /\ At(p, "clearRequest")
  /\ request' = [request EXCEPT ![usr[p]] = NoBooking]
  /\ Continue(p, "count")
  /\ UNCHANGED <<row, pending, alloc, lock, job, history>>

\* The last driver to leave ends the allocation early.
CountRemaining(p) ==
  /\ At(p, "count")
  /\ \/ pending[bk[p]] = {} /\ Continue(p, "tStatus")
     \/ pending[bk[p]] # {} /\ Finish(p)
  /\ UNCHANGED <<row, redis, job, history>>

----------------------------------------------------------------------------
\* handleTimeout, which only the last driver to leave runs: the processor's
\* call after 60 s is never made.

CheckNotAccepted(p) ==
  /\ At(p, "tStatus")
  /\ \/ alloc[bk[p]] = "ACCEPTED" /\ Finish(p)
     \/ alloc[bk[p]] # "ACCEPTED" /\ Continue(p, "tRead")
  /\ UNCHANGED <<row, redis, job, history>>

ReadForTimeout(p) ==
  /\ At(p, "tRead")
  /\ ent' = [ent EXCEPT ![p] = [row[bk[p]] EXCEPT !.status = "CANCELLED"]]
  /\ Goto(p, "tSave")
  /\ UNCHANGED <<bk, usr, todo, row, redis, job, history>>

SaveCancellation(p) ==
  /\ At(p, "tSave")
  /\ row' = [row EXCEPT ![bk[p]] = ent[p]]
  /\ Continue(p, "tSetStatus")
  /\ UNCHANGED <<redis, job, history>>

SetStatusTimeout(p) ==
  /\ At(p, "tSetStatus")
  /\ alloc' = [alloc EXCEPT ![bk[p]] = "TIMEOUT"]
  /\ Continue(p, "tPending")
  /\ UNCHANGED <<row, pending, lock, request, job, history>>

GetExpiredDrivers(p) ==
  /\ At(p, "tPending")
  /\ todo' = [todo EXCEPT ![p] = pending[bk[p]]]
  /\ Goto(p, "tWalk")
  /\ UNCHANGED <<bk, usr, ent, row, redis, job, history>>

ExpireRequests(p) == At(p, "tWalk") /\ ClearNextRequest(p, "tClear")

\* clearBookingState: one DEL of three keys.
ClearTimedOutBooking(p) ==
  /\ At(p, "tClear")
  /\ pending' = [pending EXCEPT ![bk[p]] = {}]
  /\ alloc' = [alloc EXCEPT ![bk[p]] = "none"]
  /\ lock' = [lock EXCEPT ![bk[p]] = NoUser]
  /\ Finish(p)
  /\ UNCHANGED <<row, request, job, history>>

----------------------------------------------------------------------------
\* PATCH /bookings/:id/status: any status, no look at the present one.

RequestStatus(p, b, s) ==
  /\ row[b].status # "NONE"
  /\ Start(p, "uSave", b, NoUser)
  /\ ent' = [ent EXCEPT ![p] = [row[b] EXCEPT !.status = s]]
  /\ UNCHANGED <<todo, row, redis, job, history>>

SaveStatus(p) ==
  /\ At(p, "uSave")
  /\ row' = [row EXCEPT ![bk[p]] = ent[p]]
  /\ Finish(p)
  /\ UNCHANGED <<redis, job, history>>

----------------------------------------------------------------------------
\* The environment: TTLs, rejected awaits, processes that die.

\* A handler between its lock and the save that makes the lock superfluous,
\* or about to delete the lock.
Critical(p) == pc[p] \in BeforeSave \cup {"unlock"}

\* The lock's 30 s run out: never under a live acceptance unless it is slow.
ExpireLock(b) ==
  /\ lock[b] # NoUser
  /\ SlowAcceptance \/ \A p \in Handlers : bk[p] = b => ~Critical(p)
  /\ lock' = [lock EXCEPT ![b] = NoUser]
  /\ UNCHANGED <<row, pending, alloc, request, job, locals, history>>

ExpireKeys(b) ==
  /\ \/ /\ "pending" \in Expiring
        /\ pending' = [pending EXCEPT ![b] = {}]
        /\ UNCHANGED <<alloc, request>>
     \/ /\ "status" \in Expiring
        /\ alloc' = [alloc EXCEPT ![b] = "none"]
        /\ UNCHANGED <<pending, request>>
     \/ /\ "request" \in Expiring
        /\ \E u \in Users : request' = [request EXCEPT ![u] = NoBooking]
        /\ UNCHANGED <<pending, alloc>>
  /\ UNCHANGED <<row, lock, job, locals, history>>

\* An await rejects.  handleAcceptance's catch unlocks, then rethrows; all other
\* callers answer with the error or swallow it.
Throw(p) ==
  /\ "throw" \in Faults
  /\ pc[p] # "idle"
  /\ IF pc[p] \in BeforeSave \cup AfterSave THEN Continue(p, "unlock") ELSE Finish(p)
  /\ UNCHANGED <<row, redis, job, history>>

\* The process dies.
Crash(p) ==
  /\ "crash" \in Faults
  /\ pc[p] # "idle"
  /\ Finish(p)
  /\ UNCHANGED <<row, redis, job, history>>

----------------------------------------------------------------------------
\* What reaches an idle slot.
Arrive(p) ==
  \E b \in Bookings :
    \/ \E D \in SUBSET Users : Create(p, b, D)
    \/ \E u \in Users : Accept(p, b, u) \/ Reject(p, b, u)
    \/ \E s \in StatusRequests : RequestStatus(p, b, s)

AcceptanceStep(p) ==
  \/ LockBooking(p) \/ ReadBooking(p) \/ ValidateVehicle(p) \/ SaveAcceptance(p)
  \/ SetStatusAccepted(p) \/ ClearOwnRequest(p) \/ GetOtherDrivers(p)
  \/ CancelOtherDrivers(p) \/ RemoveTimeoutJob(p) \/ UnlockBooking(p)

TimeoutStep(p) ==
  \/ CheckNotAccepted(p) \/ ReadForTimeout(p) \/ SaveCancellation(p)
  \/ SetStatusTimeout(p) \/ GetExpiredDrivers(p) \/ ExpireRequests(p)
  \/ ClearTimedOutBooking(p)

HandlerStep(p) ==
  \/ SetPendingDrivers(p) \/ SetStatusPending(p) \/ OfferToDrivers(p) \/ AddTimeoutJob(p)
  \/ AcceptanceStep(p)
  \/ RemoveDriver(p) \/ ClearRejectedRequest(p) \/ CountRemaining(p)
  \/ TimeoutStep(p)
  \/ SaveStatus(p)

Next ==
  \/ \E p \in Handlers : Arrive(p) \/ \E u \in Users : Disconnect(p, u)
  \/ \E p \in Handlers : HandlerStep(p) \/ Throw(p) \/ Crash(p)
  \/ \E b \in Bookings : ExpireLock(b) \/ ExpireKeys(b)

Spec == Init /\ [][Next]_vars

\* Node runs the continuation of every await that settles; clients and faults
\* owe nothing.
Fairness == \A p \in Handlers : WF_vars(HandlerStep(p))

FairSpec == Spec /\ Fairness

----------------------------------------------------------------------------
\* Properties.

Resolved(b) == row[b].status \notin {"NONE", "PENDING"}

\* No call is running for the booking.
Quiescent(b) == \A p \in Handlers : bk[p] # b

\* "First to accept wins" (booking-allocation.service.ts:206): whatever the
\* interleaving of acceptances, early timeouts, faults and expiring keys, the
\* customer is told of at most one driver that he accepted.
SingleWinner == \A b \in Bookings : \A u, v \in won[b] : u = v

\* How far a booking is for those who only ask whether it can still be had.
Phase ==
  [b \in Bookings |->
     CASE row[b].status = "NONE" -> "absent"
       [] row[b].status = "PENDING" -> "open"
       [] OTHER -> "decided"]

Lifecycle == INSTANCE BookingLifecycle WITH phase <- Phase, winners <- won

\* The allocation implements BookingLifecycle: no save, however stale the entity
\* it writes back, makes a decided booking available again (as long as nobody
\* asks PATCH for the status PENDING), and a booking is awarded to one driver
\* only, after its row was decided.
AwardedOnceDecided == Lifecycle!Spec

\* Drivers who saved an acceptance of which the customer was told or is about to
\* be.
Claimants(b) ==
  won[b] \cup {usr[p] : p \in {q \in Handlers : bk[q] = b /\ pc[q] \in AfterSave}}

\* The driver in a booking's row is the one who claims it: of no other driver was
\* the customer told, or is about to be, that he has it, and no stale save of a
\* timeout or a status update puts an earlier driver back.
RowNamesWinner ==
  \A b \in Bookings :
    row[b].driver # NoUser => \A u \in Claimants(b) : u = row[b].driver

\* A booking is never ACCEPTED for nobody: while its row says so, the customer
\* was told of the driver in it or is about to be.
AcceptedHasWinner ==
  \A b \in Bookings : row[b].status = "ACCEPTED" => row[b].driver \in Claimants(b)

\* When all calls for a booking that still waits for a driver have returned,
\* its lock is free: a failed acceptance never locks the others out.
PendingIsUnlocked ==
  \A b \in Bookings : Quiescent(b) /\ row[b].status = "PENDING" => lock[b] = NoUser

\* What the calls for a decided booking leave in Redis cannot harm it: no driver's
\* pending_request names it, so that no disconnect gives it up, and while drivers
\* are still listed as pending, whose rejections would time it out, its status is
\* ACCEPTED, for which handleTimeout looks.
LeftoversAreHarmless ==
  \A b \in Bookings : Quiescent(b) /\ Resolved(b) =>
    /\ \A u \in Users : request[u] # b
    /\ pending[b] # {} => alloc[b] = "ACCEPTED"

\* An acceptance stays, once the calls that ran beside it have returned: no later
\* answer of a driver, disconnect or second acceptance takes the booking back.
SettledAcceptanceStays ==
  \A b \in Bookings :
    [](Quiescent(b) /\ row[b].status = "ACCEPTED" => [](row[b].status = "ACCEPTED"))

\* A booking that all its drivers have left does not stay PENDING: also when the
\* last ones leave at once, one of them cancels it.
LastToLeaveDecides ==
  \A b \in Bookings :
    (offered[b] # {} /\ pending[b] = {}) ~> (row[b].status # "PENDING")

\* "Cancel booking after 60s" (IMPLEMENTATION_SUMMARY.md:59): a booking whose
\* timeout was scheduled does not stay PENDING.
TimeoutDecides ==
  \A b \in Bookings : (job[b] = "delayed") ~> (row[b].status # "PENDING")

\* "If already accepted, ignore timeout" (booking-allocation.service.ts:516): a
\* booking of which the customer was told that it is accepted is not cancelled.
TimeoutSparesAccepted ==
  \A b \in Bookings : won[b] # {} => row[b].status # "CANCELLED"

\* "Booking accepted successfully" (booking-allocation.service.ts:466): a driver
\* is not answered that his acceptance failed while the row names him.
FailedIsNotAccepted ==
  \A p \in Handlers : pc[p] = "unlock" => row[bk[p]].driver # usr[p]

----------------------------------------------------------------------------
\* Why there is a single winner: the inductive invariant of the safety runs.

\* A handler that read a PENDING booking and has not finished claiming it, and one
\* of whose claim the customer does not know yet.
Claiming(p) == pc[p] \in {"validate", "save"} \cup AfterSave
Untold(p) == pc[p] \in {"validate", "save", "setAccepted", "clearOwn"}

\* A handler about to write a stale copy of the row back.
Rewriting(p) == pc[p] \in {"tSave", "uSave"}

\* A handler that saw its own save decide the booking.
Saved(p) == pc[p] \in AfterSave \cup {"tSetStatus", "tPending", "tWalk", "tClear"}

\* Whoever has claimed the booking, or does so now, is driver d (if any).
Agrees(b, d) ==
  d # NoUser =>
    /\ Resolved(b)
    /\ \A u \in won[b] : u = d
    /\ \A p \in Handlers : Claiming(p) /\ bk[p] = b => usr[p] = d

EntitiesDecide ==
  \A p \in Handlers :
    /\ pc[p] = "save" => ent[p] = [status |-> "ACCEPTED", driver |-> usr[p]]
    /\ Rewriting(p) => ent[p].status \notin {"NONE", "PENDING"}

SaveDecides ==
  /\ \A p \in Handlers : Saved(p) => Resolved(bk[p])
  /\ \A b \in Bookings : won[b] # {} => Resolved(b)

\* While a booking is open, a critical handler is covered by the lock and alone.
LockProtects ==
  /\ \A p \in Handlers : Critical(p) => lock[bk[p]] # NoUser \/ Resolved(bk[p])
  /\ \A p, q \in Handlers :
       Critical(p) /\ Critical(q) /\ bk[p] = bk[q] /\ p # q => Resolved(bk[p])

OneClaim ==
  /\ \A p, q \in Handlers : Claiming(p) /\ Claiming(q) /\ bk[p] = bk[q] => p = q
  /\ \A p \in Handlers : Untold(p) => won[bk[p]] = {}
  /\ \A p \in Handlers : Claiming(p) => won[bk[p]] \subseteq {usr[p]}

DriversAgree ==
  /\ \A b \in Bookings : Agrees(b, row[b].driver)
  /\ \A p \in Handlers : Rewriting(p) => Agrees(bk[p], ent[p].driver)

ClaimInv ==
  EntitiesDecide /\ SaveDecides /\ LockProtects /\ OneClaim /\ SingleWinner /\ DriversAgree

IndInv == TypeOK /\ ClaimInv

\* Nothing refers to a booking that is not in the database, so no call ever
\* finds its booking missing.
Placed(b) == row[b].status # "NONE"

BookingsExist ==
  /\ \A p \in Handlers : pc[p] # "idle" => Placed(bk[p])
  /\ \A b \in Bookings : offered[b] # {} \/ job[b] # "none" => Placed(b)
  /\ \A u \in Users : request[u] # NoBooking => Placed(request[u])

=============================================================================
