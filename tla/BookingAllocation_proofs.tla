----------------------- MODULE BookingAllocation_proofs -----------------------
(***************************************************************************)
(* Machine-checked proofs about BookingAllocation, for any number of       *)
(* bookings, drivers and concurrently running calls: first that no booking *)
(* has two drivers, with whatever fails; then what the calls leave behind  *)
(* where nothing fails.                                                    *)
(***************************************************************************)
EXTENDS BookingAllocation, TLAPS

\* The rows that the calls build are rows.
LEMMA RowTypes ==
  /\ [status |-> "PENDING", driver |-> NoUser] \in Rows
  /\ \A u \in Users : [status |-> "ACCEPTED", driver |-> u] \in Rows
  /\ \A r \in Rows, s \in Statuses : [r EXCEPT !.status = s] \in Rows
  /\ "CANCELLED" \in Statuses
BY DEF Rows, Statuses

\* So is the row of a booking that does not exist yet.
LEMMA NoRowType == NoRow \in Rows
BY DEF NoRow, Rows

----------------------------------------------------------------------------
\* Type correctness.

\* The initial values have their types.
LEMMA TypeInit == Init => TypeOK
BY NoRowType DEF Init, TypeOK, Steps, BeforeSave, AfterSave, RejectSteps

\* One step of any handler keeps every variable in its type.
LEMMA TypeHandlerStep ==
  ASSUME TypeOK, NEW p \in Handlers, HandlerStep(p)
  PROVE  TypeOK'
<1> USE SentinelAssumption, NoRowType DEF TypeOK, At, Goto, Continue, Finish, redis,
       history, Steps, CreateSteps, BeforeSave, AfterSave, RejectSteps, TimeoutSteps
<1>1. CASE SetPendingDrivers(p)
  BY <1>1 DEF SetPendingDrivers
<1>2. CASE SetStatusPending(p)
  BY <1>2 DEF SetStatusPending
<1>3. CASE OfferToDrivers(p)
  BY <1>3 DEF OfferToDrivers
<1>4. CASE AddTimeoutJob(p)
  BY <1>4 DEF AddTimeoutJob
<1>5. CASE LockBooking(p)
  <2>1. CASE lock[bk[p]] = NoUser /\ Continue(p, "read")
    BY <1>5, <2>1 DEF LockBooking
  <2>2. CASE Finish(p) /\ UNCHANGED lock
    <3>1. UNCHANGED <<row, redis, job, history>>
      BY <1>5, <2>2 DEF LockBooking
    <3> QED BY <2>2, <3>1
  <2> QED BY <1>5, <2>1, <2>2 DEF LockBooking
<1>6. CASE ReadBooking(p)
  BY <1>6 DEF ReadBooking
<1>7. CASE ValidateVehicle(p)
  <2>1. [status |-> "ACCEPTED", driver |-> usr[p]] \in Rows
    BY <1>7, RowTypes DEF ValidateVehicle
  <2> QED BY <1>7, <2>1 DEF ValidateVehicle
<1>8. CASE SaveAcceptance(p)
  BY <1>8 DEF SaveAcceptance
<1>9. CASE SetStatusAccepted(p)
  BY <1>9 DEF SetStatusAccepted
<1>10. CASE ClearOwnRequest(p)
  BY <1>10 DEF ClearOwnRequest
<1>11. CASE GetOtherDrivers(p)
  BY <1>11 DEF GetOtherDrivers
<1>12. CASE CancelOtherDrivers(p)
  BY <1>12 DEF CancelOtherDrivers, ClearNextRequest
<1>13. CASE RemoveTimeoutJob(p)
  BY <1>13 DEF RemoveTimeoutJob
<1>15. CASE UnlockBooking(p)
  BY <1>15 DEF UnlockBooking
<1>16. CASE RemoveDriver(p)
  BY <1>16 DEF RemoveDriver
<1>17. CASE ClearRejectedRequest(p)
  BY <1>17 DEF ClearRejectedRequest
<1>18. CASE CountRemaining(p)
  BY <1>18 DEF CountRemaining
<1>19. CASE CheckNotAccepted(p)
  BY <1>19 DEF CheckNotAccepted
<1>20. CASE ReadForTimeout(p)
  BY <1>20, RowTypes DEF ReadForTimeout
<1>21. CASE SaveCancellation(p)
  BY <1>21 DEF SaveCancellation
<1>22. CASE SetStatusTimeout(p)
  BY <1>22 DEF SetStatusTimeout
<1>23. CASE GetExpiredDrivers(p)
  BY <1>23 DEF GetExpiredDrivers
<1>24. CASE ExpireRequests(p)
  BY <1>24 DEF ExpireRequests, ClearNextRequest
<1>25. CASE ClearTimedOutBooking(p)
  BY <1>25 DEF ClearTimedOutBooking
<1>26. CASE SaveStatus(p)
  BY <1>26 DEF SaveStatus
<1> HIDE DEF TypeOK
<1> QED
  BY <1>1, <1>2, <1>3, <1>4, <1>5, <1>6, <1>7, <1>8, <1>9, <1>10, <1>11, <1>12, <1>13,
     <1>15, <1>16, <1>17, <1>18, <1>19, <1>20, <1>21, <1>22, <1>23, <1>24, <1>25, <1>26
     DEF HandlerStep, AcceptanceStep, TimeoutStep

\* What arrives, fails or expires keeps every variable in its type.
LEMMA TypeEnvironment ==
  ASSUME TypeOK
  PROVE  /\ \A p \in Handlers, b \in Bookings, D \in SUBSET Users :
              Create(p, b, D) => TypeOK'
         /\ \A p \in Handlers, b \in Bookings, u \in Users :
              Accept(p, b, u) \/ Reject(p, b, u) => TypeOK'
         /\ \A p \in Handlers, u \in Users : Disconnect(p, u) => TypeOK'
         /\ \A p \in Handlers, b \in Bookings, s \in StatusRequests :
              RequestStatus(p, b, s) => TypeOK'
         /\ \A p \in Handlers : Throw(p) \/ Crash(p) => TypeOK'
         /\ \A b \in Bookings : ExpireLock(b) \/ ExpireKeys(b) => TypeOK'
<1> USE SentinelAssumption, EnvironmentAssumption, NoRowType
    DEF TypeOK, Goto, Continue, Start, Finish, redis, history, locals,
        Steps, CreateSteps, BeforeSave, AfterSave, RejectSteps, TimeoutSteps
<1>1. ASSUME NEW p \in Handlers, NEW b \in Bookings, NEW D \in SUBSET Users,
             Create(p, b, D)
      PROVE  TypeOK'
  <2>1. row' \in [Bookings -> Rows]
    BY <1>1, RowTypes DEF Create
  <2>2. CASE UNCHANGED locals
    BY <1>1, <2>1, <2>2 DEF Create
  <2>3. CASE /\ Start(p, "setPending", b, NoUser)
             /\ todo' = [todo EXCEPT ![p] = D]
             /\ UNCHANGED ent
    BY <1>1, <2>1, <2>3 DEF Create
  <2> QED BY <1>1, <2>2, <2>3 DEF Create
<1>2. ASSUME NEW p \in Handlers, NEW b \in Bookings, NEW u \in Users,
             Accept(p, b, u) \/ Reject(p, b, u)
      PROVE  TypeOK'
  BY <1>2 DEF Accept, Reject
<1>3. ASSUME NEW p \in Handlers, NEW u \in Users, Disconnect(p, u)
      PROVE  TypeOK'
  BY <1>3 DEF Disconnect
<1>4. ASSUME NEW p \in Handlers, NEW b \in Bookings, NEW s \in StatusRequests,
             RequestStatus(p, b, s)
      PROVE  TypeOK'
  BY <1>4, RowTypes DEF RequestStatus
<1>6. ASSUME NEW p \in Handlers, Throw(p) \/ Crash(p)
      PROVE  TypeOK'
  <2>1. UNCHANGED <<row, redis, job, history>>
    BY <1>6 DEF Throw, Crash
  <2>2. CASE Finish(p)
    BY <2>1, <2>2
  <2>3. CASE pc[p] \in BeforeSave \cup AfterSave /\ Continue(p, "unlock")
    BY <2>1, <2>3
  <2> HIDE DEF TypeOK, Finish, Continue, BeforeSave, AfterSave
  <2> QED BY <1>6, <2>2, <2>3 DEF Throw, Crash
<1>7. ASSUME NEW b \in Bookings, ExpireLock(b) \/ ExpireKeys(b)
      PROVE  TypeOK'
  <2>1. CASE ExpireLock(b)
    BY <2>1 DEF ExpireLock
  <2>2. CASE ExpireKeys(b)
    BY <2>2 DEF ExpireKeys
  <2> QED BY <1>7, <2>1, <2>2
<1> HIDE DEF TypeOK
<1> QED BY <1>1, <1>2, <1>3, <1>4, <1>6, <1>7

\* No step of the system leaves the types.
LEMMA TypeNext == TypeOK /\ [Next]_vars => TypeOK'
<1> SUFFICES ASSUME TypeOK, [Next]_vars PROVE TypeOK'
  OBVIOUS
<1>1. CASE Next
  <2>1. ASSUME NEW p \in Handlers, HandlerStep(p) PROVE TypeOK'
    BY <2>1, TypeHandlerStep
  <2> QED BY <1>1, <2>1, TypeEnvironment DEF Next, Arrive
<1>2. CASE UNCHANGED vars
  BY <1>2 DEF vars, redis, locals, history, TypeOK
<1> QED BY <1>1, <1>2

\* Every variable keeps its type, and a busy handler always has the booking
\* and the driver that its next step uses.
THEOREM TypeCorrect == Spec => []TypeOK
<1>1. Init => TypeOK
  BY TypeInit
<1>2. TypeOK /\ [Next]_vars => TypeOK'
  BY TypeNext
<1> QED BY <1>1, <1>2, PTL DEF Spec

----------------------------------------------------------------------------
\* The single winner.

\* Does the step leave p a busy handler of the same booking and driver?
Keeps(p) == bk'[p] = bk[p] /\ usr'[p] = usr[p] /\ ent'[p] = ent[p]

\* p moves to a step that asks no more of it than the one it leaves.
Lowers(p) ==
  /\ pc'[p] = "save" => pc[p] = "save" /\ Keeps(p)
  /\ Rewriting(p)' => Rewriting(p) /\ Keeps(p)
  /\ Saved(p)' => Saved(p) /\ Keeps(p)
  /\ Critical(p)' => (Critical(p) \/ Resolved(bk[p])) /\ Keeps(p)
  /\ Claiming(p)' => Claiming(p) /\ Keeps(p)
  /\ Untold(p)' => Untold(p) /\ Keeps(p)

\* Only handler p moves.
OnlyMoves(p) ==
  \A q \in Handlers \ {p} : pc'[q] = pc[q] /\ Keeps(q)

\* Before the first booking there is nothing to claim.
LEMMA InitClaim == Init => ClaimInv
BY DEF Init, ClaimInv, EntitiesDecide, SaveDecides, LockProtects, OneClaim, SingleWinner,
       DriversAgree, Agrees, Rewriting, Saved, Critical, Claiming, Untold, NoRow, BeforeSave,
       AfterSave

\* A step that touches neither the row, nor the lock, nor the winners, and
\* asks no more of its handler, keeps the invariant.
LEMMA QuietStep ==
  ASSUME IndInv, NEW p \in Handlers, OnlyMoves(p), Lowers(p), TypeOK',
         row' = row, lock' = lock, won' = won
  PROVE  ClaimInv'
<1> USE DEF IndInv, ClaimInv, OnlyMoves, Lowers, Keeps
<1>0. \A b \in Bookings : Resolved(b)' <=> Resolved(b)
  BY DEF Resolved
<1>1. EntitiesDecide'
  BY DEF EntitiesDecide, Rewriting
<1>2. \A q \in Handlers : (Saved(q)' => Saved(q) /\ Keeps(q))
                       /\ (Claiming(q)' => Claiming(q) /\ Keeps(q))
                       /\ (Untold(q)' => Untold(q) /\ Keeps(q))
                       /\ (Rewriting(q)' => Rewriting(q) /\ Keeps(q))
                       /\ (Critical(q)' => (Critical(q) \/ Resolved(bk[q])) /\ Keeps(q))
  BY DEF Saved, Claiming, Untold, Rewriting, Critical
<1>3. SaveDecides'
  BY <1>2 DEF SaveDecides, Resolved
<1>4. LockProtects'
  BY <1>2 DEF LockProtects, Resolved
<1>5. OneClaim'
  BY <1>2 DEF OneClaim
<1>6. \A b \in Bookings, d \in Users \cup {NoUser} : Agrees(b, d) => Agrees(b, d)'
  BY <1>2 DEF Agrees, Resolved
<1>7. DriversAgree'
  <2>1. \A b \in Bookings : row[b].driver \in Users \cup {NoUser}
    BY DEF TypeOK, Rows
  <2>2. \A q \in Handlers : ent[q].driver \in Users \cup {NoUser}
    BY DEF TypeOK, Rows
  <2>3. \A q \in Handlers : Rewriting(q) => bk[q] \in Bookings
    BY DEF TypeOK, Rewriting
  <2>4. \A b \in Bookings : Agrees(b, row[b].driver)'
    BY <1>6, <2>1 DEF DriversAgree
  <2>5. \A q \in Handlers : Rewriting(q)' => Agrees(bk[q], ent[q].driver)'
    BY <1>2, <1>6, <2>2, <2>3 DEF DriversAgree
  <2> QED BY <2>4, <2>5 DEF DriversAgree
<1>8. SingleWinner'
  BY DEF SingleWinner
<1> QED BY <1>1, <1>3, <1>4, <1>5, <1>7, <1>8

\* The handler steps that only write Redis keys or read them are of that kind.
LEMMA QuietActions ==
  ASSUME IndInv, TypeOK', NEW p \in Handlers,
         \/ SetPendingDrivers(p) \/ SetStatusPending(p) \/ OfferToDrivers(p)
         \/ AddTimeoutJob(p) \/ SetStatusAccepted(p)
         \/ GetOtherDrivers(p) \/ CancelOtherDrivers(p) \/ RemoveTimeoutJob(p)
         \/ RemoveDriver(p) \/ ClearRejectedRequest(p) \/ CountRemaining(p)
         \/ CheckNotAccepted(p) \/ SetStatusTimeout(p) \/ GetExpiredDrivers(p)
         \/ ExpireRequests(p)
  PROVE  ClaimInv'
<1>0. /\ pc \in [Handlers -> Steps] /\ bk \in [Handlers -> Bookings \cup {NoBooking}]
      /\ usr \in [Handlers -> Users \cup {NoUser}] /\ ent \in [Handlers -> Rows]
  BY DEF IndInv, TypeOK
<1>a. row' = row /\ lock' = lock /\ won' = won
  BY DEF SetPendingDrivers, SetStatusPending, OfferToDrivers, AddTimeoutJob, SetStatusAccepted,
     GetOtherDrivers, CancelOtherDrivers, RemoveTimeoutJob, RemoveDriver, ClearRejectedRequest,
     CountRemaining, CheckNotAccepted, SetStatusTimeout, GetExpiredDrivers, ExpireRequests,
     ClearNextRequest, redis, history
<1>b. OnlyMoves(p) /\ Lowers(p)
  <2> USE <1>0 DEF OnlyMoves, Lowers, Keeps, Saved, Critical, Claiming, Untold, Rewriting,
          BeforeSave, AfterSave, At, Goto, Continue, Finish
  <2>1. CASE SetPendingDrivers(p)
    BY <2>1 DEF SetPendingDrivers
  <2>2. CASE SetStatusPending(p)
    BY <2>2 DEF SetStatusPending
  <2>3. CASE OfferToDrivers(p)
    BY <2>3 DEF OfferToDrivers
  <2>4. CASE AddTimeoutJob(p)
    BY <2>4 DEF AddTimeoutJob
  <2>5. CASE SetStatusAccepted(p)
    BY <2>5 DEF SetStatusAccepted
  <2>7. CASE GetOtherDrivers(p)
    BY <2>7 DEF GetOtherDrivers
  <2>8. CASE CancelOtherDrivers(p)
    BY <2>8 DEF CancelOtherDrivers, ClearNextRequest
  <2>9. CASE RemoveTimeoutJob(p)
    <3>1. Resolved(bk[p])
      BY <2>9 DEF RemoveTimeoutJob, IndInv, ClaimInv, SaveDecides
    <3> QED BY <2>9, <3>1 DEF RemoveTimeoutJob
  <2>10. CASE RemoveDriver(p)
    BY <2>10 DEF RemoveDriver
  <2>11. CASE ClearRejectedRequest(p)
    BY <2>11 DEF ClearRejectedRequest
  <2>12. CASE CountRemaining(p)
    BY <2>12 DEF CountRemaining
  <2>13. CASE CheckNotAccepted(p)
    BY <2>13 DEF CheckNotAccepted
  <2>14. CASE SetStatusTimeout(p)
    BY <2>14 DEF SetStatusTimeout
  <2>15. CASE GetExpiredDrivers(p)
    BY <2>15 DEF GetExpiredDrivers
  <2>16. CASE ExpireRequests(p)
    BY <2>16 DEF ExpireRequests, ClearNextRequest
  <2> QED BY <2>1, <2>2, <2>3, <2>4, <2>5, <2>7, <2>8, <2>9, <2>10, <2>11, <2>12, <2>13,
             <2>14, <2>15, <2>16
<1> QED BY <1>a, <1>b, QuietStep

\* Taking the lock: nobody else is critical while the booking is open.
LEMMA LockStep ==
  ASSUME IndInv, TypeOK', NEW p \in Handlers, LockBooking(p)
  PROVE  ClaimInv'
<1>0. /\ pc \in [Handlers -> Steps] /\ bk \in [Handlers -> Bookings \cup {NoBooking}]
      /\ usr \in [Handlers -> Users \cup {NoUser}] /\ ent \in [Handlers -> Rows]
      /\ lock \in [Bookings -> Users \cup {NoUser}]
      /\ pc[p] = "lock" /\ bk[p] \in Bookings /\ usr[p] \in Users
  BY DEF IndInv, TypeOK, LockBooking, At
<1>1. CASE lock[bk[p]] # NoUser /\ Finish(p) /\ UNCHANGED lock
  <2>1. row' = row /\ won' = won
    BY DEF LockBooking, history
  <2>2. OnlyMoves(p) /\ Lowers(p)
    BY <1>0, <1>1 DEF OnlyMoves, Lowers, Keeps, Saved, Critical, Claiming, Untold, Rewriting,
       BeforeSave, AfterSave, Finish, Goto
  <2> QED BY <1>1, <2>1, <2>2, QuietStep
<1>2. CASE /\ lock[bk[p]] = NoUser
           /\ lock' = [lock EXCEPT ![bk[p]] = usr[p]]
           /\ Continue(p, "read")
  <2>0. row' = row /\ won' = won /\ bk' = bk /\ usr' = usr /\ ent' = ent
        /\ pc' = [pc EXCEPT ![p] = "read"]
    BY <1>2 DEF LockBooking, history, Continue, Goto
  <2>1. \A b \in Bookings : Resolved(b)' <=> Resolved(b)
    BY <2>0 DEF Resolved
  <2>2. \A q \in Handlers : (Saved(q)' => Saved(q)) /\ (Claiming(q)' => Claiming(q))
                         /\ (Untold(q)' => Untold(q))
                         /\ (Rewriting(q)' => Rewriting(q)) /\ (pc'[q] = "save" => pc[q] = "save")
                         /\ (q # p /\ Critical(q)' => Critical(q))
    BY <1>0, <2>0 DEF Saved, Claiming, Untold, Rewriting, Critical, AfterSave
  <2>3. EntitiesDecide'
    BY <2>0, <2>2 DEF IndInv, ClaimInv, EntitiesDecide
  <2>4. SaveDecides'
    BY <2>0, <2>2 DEF IndInv, ClaimInv, SaveDecides, Resolved
  <2>5. \A q \in Handlers : q # p /\ Critical(q) /\ bk[q] = bk[p] => Resolved(bk[p])
    BY <1>2 DEF IndInv, ClaimInv, LockProtects
  <2>6. \A q \in Handlers : Critical(q)' => lock'[bk'[q]] # NoUser \/ Resolved(bk[q])'
    <3> SUFFICES ASSUME NEW q \in Handlers, Critical(q)'
                 PROVE  lock'[bk[q]] # NoUser \/ Resolved(bk[q])'
      BY <2>0
    <3>1. CASE bk[q] = bk[p]
      BY <3>1, <1>0, <1>2, SentinelAssumption
    <3>2. CASE bk[q] # bk[p]
      <4>1. Critical(q)
        BY <2>2, <3>2
      <4>2. lock[bk[q]] # NoUser \/ Resolved(bk[q])
        BY <4>1 DEF IndInv, ClaimInv, LockProtects
      <4>3. bk[q] \in Bookings
        BY <4>1 DEF IndInv, TypeOK, Critical, BeforeSave
      <4> QED BY <1>0, <1>2, <2>0, <3>2, <4>2, <4>3 DEF Resolved
    <3> QED BY <3>1, <3>2
  <2>7. LockProtects'
    <3>1. \A q, r \in Handlers :
            Critical(q)' /\ Critical(r)' /\ bk[q] = bk[r] /\ q # r => Resolved(bk[q])
      BY <2>2, <2>5 DEF IndInv, ClaimInv, LockProtects
    <3> QED BY <2>0, <2>6, <3>1 DEF LockProtects, Resolved
  <2>8. OneClaim' /\ SingleWinner'
    BY <2>0, <2>2 DEF IndInv, ClaimInv, OneClaim, SingleWinner
  <2>9. DriversAgree'
    BY <2>0, <2>2 DEF IndInv, ClaimInv, DriversAgree, Agrees, Resolved
  <2> QED BY <2>3, <2>4, <2>7, <2>8, <2>9 DEF ClaimInv
<1> QED BY <1>1, <1>2 DEF LockBooking

\* Reading a PENDING row: the lock makes this the only claim.
LEMMA ReadStep ==
  ASSUME IndInv, TypeOK', NEW p \in Handlers, ReadBooking(p)
  PROVE  ClaimInv'
<1>0. /\ pc \in [Handlers -> Steps] /\ bk \in [Handlers -> Bookings \cup {NoBooking}]
      /\ usr \in [Handlers -> Users \cup {NoUser}] /\ ent \in [Handlers -> Rows]
      /\ pc[p] = "read" /\ bk[p] \in Bookings /\ usr[p] \in Users
      /\ row' = row /\ won' = won /\ lock' = lock
  BY DEF IndInv, TypeOK, ReadBooking, At, BeforeSave, redis, history
<1>1. CASE row[bk[p]].status # "PENDING" /\ Finish(p)
  <2>1. OnlyMoves(p) /\ Lowers(p)
    BY <1>0, <1>1 DEF OnlyMoves, Lowers, Keeps, Saved, Critical, Claiming, Untold, Rewriting,
       BeforeSave, AfterSave, Finish, Goto
  <2> QED BY <1>0, <2>1, QuietStep
<1>2. CASE /\ row[bk[p]].status = "PENDING"
           /\ ent' = [ent EXCEPT ![p] = row[bk[p]]]
           /\ Goto(p, "validate")
           /\ UNCHANGED <<bk, usr, todo>>
  <2>0. ~Resolved(bk[p])
    BY <1>2 DEF Resolved
  <2>1. Critical(p)
    BY <1>0 DEF Critical, BeforeSave
  <2>2. \A q \in Handlers : Claiming(q) => bk[q] # bk[p]
    <3> SUFFICES ASSUME NEW q \in Handlers, Claiming(q), bk[q] = bk[p] PROVE FALSE
      OBVIOUS
    <3>1. CASE pc[q] \in AfterSave
      BY <2>0, <3>1 DEF IndInv, ClaimInv, SaveDecides, Saved
    <3>2. CASE pc[q] \in {"validate", "save"}
      <4>1. Critical(q) /\ q # p
        BY <1>0, <3>2 DEF Critical, BeforeSave
      <4> QED BY <2>0, <2>1, <4>1 DEF IndInv, ClaimInv, LockProtects
    <3> QED BY <3>1, <3>2 DEF Claiming
  <2>3. won[bk[p]] = {}
    BY <1>0, <2>0 DEF IndInv, ClaimInv, SaveDecides
  <2>4. \A q \in Handlers : (Saved(q)' => Saved(q)) /\ (q # p /\ Claiming(q)' => Claiming(q))
                         /\ (q # p /\ Untold(q)' => Untold(q))
                         /\ (Rewriting(q)' => Rewriting(q) /\ q # p)
                         /\ (pc'[q] = "save" => pc[q] = "save" /\ q # p)
                         /\ (Critical(q)' => Critical(q))
                         /\ (q # p => ent'[q] = ent[q])
    BY <1>0, <1>2 DEF Saved, Claiming, Untold, Rewriting, Critical, BeforeSave, AfterSave, Goto
  <2>5. EntitiesDecide'
    BY <1>2, <2>4 DEF IndInv, ClaimInv, EntitiesDecide
  <2>6. SaveDecides' /\ LockProtects' /\ SingleWinner'
    BY <1>0, <1>2, <2>4
       DEF IndInv, ClaimInv, SaveDecides, LockProtects, SingleWinner, Resolved
  <2>7. OneClaim'
    BY <1>0, <1>2, <2>2, <2>3, <2>4 DEF IndInv, ClaimInv, OneClaim
  <2>8. \A b \in Bookings, d \in Users \cup {NoUser} : Agrees(b, d) => Agrees(b, d)'
    BY <1>0, <1>2, <2>0, <2>4 DEF Agrees, Resolved
  <2>9. \A b \in Bookings : Agrees(b, row[b].driver)'
    <3>1. \A b \in Bookings : row[b].driver \in Users \cup {NoUser}
      BY DEF IndInv, TypeOK, Rows
    <3> QED BY <1>0, <2>8, <3>1 DEF IndInv, ClaimInv, DriversAgree
  <2>10. \A q \in Handlers : Rewriting(q)' => Agrees(bk[q], ent[q].driver)'
    <3>1. \A q \in Handlers : ent[q].driver \in Users \cup {NoUser}
      BY DEF IndInv, TypeOK, Rows
    <3>2. \A q \in Handlers : Rewriting(q) => bk[q] \in Bookings
      BY DEF IndInv, TypeOK, Rewriting
    <3> QED BY <1>2, <2>4, <2>8, <3>1, <3>2 DEF IndInv, ClaimInv, DriversAgree
  <2> QED BY <2>5, <2>6, <2>7, <2>9, <2>10 DEF ClaimInv, DriversAgree
<1> QED BY <1>1, <1>2 DEF ReadBooking

\* Building the ACCEPTED entity, or giving up and unlocking.
LEMMA ValidateStep ==
  ASSUME IndInv, TypeOK', NEW p \in Handlers, ValidateVehicle(p)
  PROVE  ClaimInv'
<1>0. /\ pc \in [Handlers -> Steps] /\ bk \in [Handlers -> Bookings \cup {NoBooking}]
      /\ usr \in [Handlers -> Users \cup {NoUser}] /\ ent \in [Handlers -> Rows]
      /\ pc[p] = "validate"
      /\ row' = row /\ won' = won /\ lock' = lock
  BY DEF IndInv, TypeOK, ValidateVehicle, At, redis, history
<1>1. CASE Continue(p, "unlock")
  <2>1. OnlyMoves(p) /\ Lowers(p)
    BY <1>0, <1>1 DEF OnlyMoves, Lowers, Keeps, Saved, Critical, Claiming, Untold, Rewriting,
       BeforeSave, AfterSave, Continue, Goto
  <2> QED BY <1>0, <2>1, QuietStep
<1>2. CASE /\ ent' = [ent EXCEPT ![p] = [status |-> "ACCEPTED", driver |-> usr[p]]]
           /\ Goto(p, "save")
           /\ UNCHANGED <<bk, usr, todo>>
  <2>1. \A q \in Handlers : (Saved(q)' => Saved(q)) /\ (Claiming(q)' => Claiming(q))
                         /\ (Untold(q)' => Untold(q))
                         /\ (Rewriting(q)' => Rewriting(q) /\ q # p)
                         /\ (pc'[q] = "save" /\ q # p => pc[q] = "save")
                         /\ (Critical(q)' => Critical(q))
                         /\ (q # p => ent'[q] = ent[q])
    BY <1>0, <1>2 DEF Saved, Claiming, Untold, Rewriting, Critical, BeforeSave, AfterSave, Goto
  <2>2. EntitiesDecide'
    BY <1>0, <1>2, <2>1 DEF IndInv, ClaimInv, EntitiesDecide
  <2>3. SaveDecides' /\ LockProtects' /\ SingleWinner' /\ OneClaim'
    BY <1>0, <1>2, <2>1
       DEF IndInv, ClaimInv, SaveDecides, LockProtects, SingleWinner, OneClaim, Resolved
  <2>4. DriversAgree'
    BY <1>0, <1>2, <2>1 DEF IndInv, ClaimInv, DriversAgree, Agrees, Resolved
  <2> QED BY <2>2, <2>3, <2>4 DEF ClaimInv
<1> QED BY <1>1, <1>2 DEF ValidateVehicle

\* Writing a stale copy of the row back: the driver in it is one that the
\* present claim agrees with, and the status in it is decided.
LEMMA RewriteStep ==
  ASSUME IndInv, TypeOK', NEW p \in Handlers, Rewriting(p), OnlyMoves(p),
         row' = [row EXCEPT ![bk[p]] = ent[p]], lock' = lock, won' = won,
         pc'[p] \in {"idle", "tSetStatus"}, pc'[p] = "tSetStatus" => bk'[p] = bk[p]
  PROVE  ClaimInv'
<1>0. /\ bk[p] \in Bookings /\ row \in [Bookings -> Rows]
      /\ \A q \in Handlers : ent[q].driver \in Users \cup {NoUser}
      /\ \A b \in Bookings : row[b].driver \in Users \cup {NoUser}
      /\ \A q \in Handlers : Rewriting(q) => bk[q] \in Bookings
  BY DEF IndInv, TypeOK, Rewriting, Rows
<1>1. \A b \in Bookings : Resolved(b) \/ b = bk[p] => Resolved(b)'
  <2>1. ent[p].status \notin {"NONE", "PENDING"}
    BY DEF IndInv, ClaimInv, EntitiesDecide
  <2> QED BY <1>0, <2>1 DEF Resolved
<1>2. \A q \in Handlers : /\ Claiming(q)' => Claiming(q) /\ q # p
                          /\ Untold(q)' => Untold(q) /\ q # p
                          /\ Rewriting(q)' => Rewriting(q) /\ q # p
                          /\ pc'[q] = "save" => pc[q] = "save" /\ q # p
                          /\ Critical(q)' => Critical(q) /\ q # p
                          /\ Saved(q)' => (Saved(q) /\ q # p) \/ (q = p /\ bk'[p] = bk[p])
                          /\ q # p => Keeps(q)
  BY DEF OnlyMoves, Claiming, Untold, Rewriting, Critical, Saved, BeforeSave, AfterSave
<1>3. EntitiesDecide'
  BY <1>2 DEF IndInv, ClaimInv, EntitiesDecide, Keeps
<1>4. SaveDecides'
  <2>1. \A q \in Handlers : Saved(q) => bk[q] \in Bookings
    BY DEF IndInv, TypeOK, Saved, AfterSave
  <2>2. ASSUME NEW q \in Handlers, Saved(q)' PROVE Resolved(bk[q])'
    <3>1. bk'[q] = bk[q] /\ bk[q] \in Bookings /\ (Resolved(bk[q]) \/ q = p)
      BY <1>0, <1>2, <2>1, <2>2 DEF IndInv, ClaimInv, SaveDecides, Keeps
    <3>2. \A b \in Bookings : Resolved(b) \/ b = bk[p] => row'[b].status \notin {"NONE", "PENDING"}
      BY <1>1 DEF Resolved
    <3> QED BY <3>1, <3>2 DEF Resolved
  <2>3. \A b \in Bookings : won'[b] # {} => Resolved(b)'
    BY <1>1 DEF IndInv, ClaimInv, SaveDecides
  <2> QED BY <2>2, <2>3 DEF SaveDecides
<1>5. LockProtects'
  <2>1. \A q \in Handlers : Critical(q) => bk[q] \in Bookings
    BY DEF IndInv, TypeOK, Critical, BeforeSave
  <2>2. \A q \in Handlers : Critical(q)' => lock[bk[q]] # NoUser \/ Resolved(bk[q])'
    BY <1>1, <1>2, <2>1 DEF IndInv, ClaimInv, LockProtects, Keeps, Resolved
  <2>3. \A q, r \in Handlers :
          Critical(q)' /\ Critical(r)' /\ bk[q] = bk[r] /\ q # r => Resolved(bk[q])'
    BY <1>1, <1>2, <2>1 DEF IndInv, ClaimInv, LockProtects, Keeps, Resolved
  <2> QED BY <1>2, <2>2, <2>3 DEF LockProtects, Keeps, Resolved
<1>6. OneClaim' /\ SingleWinner'
  BY <1>2 DEF IndInv, ClaimInv, OneClaim, SingleWinner, Keeps
<1>7. \A b \in Bookings, d \in Users \cup {NoUser} : Agrees(b, d) => Agrees(b, d)'
  BY <1>1, <1>2 DEF Agrees, Keeps
<1>8. \A b \in Bookings : Agrees(b, row[b].driver)'
  <2>1. Agrees(bk[p], ent[p].driver)
    BY DEF IndInv, ClaimInv, DriversAgree
  <2>3. ASSUME NEW b \in Bookings PROVE Agrees(b, row[b].driver)'
    <3>1. CASE b = bk[p]
      <4>1. row'[b].driver = ent[p].driver
        BY <1>0, <3>1
      <4> QED BY <1>1, <1>2, <2>1, <3>1, <4>1 DEF Agrees, Keeps
    <3>2. CASE b # bk[p]
      BY <1>0, <1>7, <3>2 DEF IndInv, ClaimInv, DriversAgree
    <3> QED BY <3>1, <3>2
  <2> QED BY <2>3
<1>9. \A q \in Handlers : Rewriting(q)' => Agrees(bk[q], ent[q].driver)'
  BY <1>0, <1>2, <1>7 DEF IndInv, ClaimInv, DriversAgree, Keeps
<1> QED BY <1>3, <1>4, <1>5, <1>6, <1>8, <1>9 DEF ClaimInv, DriversAgree

\* The winner's save.
LEMMA SaveStep ==
  ASSUME IndInv, TypeOK', NEW p \in Handlers, SaveAcceptance(p)
  PROVE  ClaimInv'
<1>0. /\ pc[p] = "save" /\ bk[p] \in Bookings /\ usr[p] \in Users
      /\ row' = [row EXCEPT ![bk[p]] = [status |-> "ACCEPTED", driver |-> usr[p]]]
      /\ pc' = [pc EXCEPT ![p] = "setAccepted"]
      /\ lock' = lock /\ won' = won /\ bk' = bk /\ usr' = usr /\ ent' = ent
      /\ row \in [Bookings -> Rows] /\ pc \in [Handlers -> Steps]
  <2>1. pc[p] = "save"
    BY DEF SaveAcceptance, At
  <2>2. ent[p] = [status |-> "ACCEPTED", driver |-> usr[p]]
    BY <2>1 DEF IndInv, ClaimInv, EntitiesDecide
  <2> QED BY <2>1, <2>2
          DEF SaveAcceptance, IndInv, TypeOK, BeforeSave, Continue, Goto, redis, history
<1>1. \A b \in Bookings : Resolved(b) \/ b = bk[p] => Resolved(b)'
  BY <1>0 DEF Resolved
<1>2. \A q \in Handlers : /\ Claiming(q)' => Claiming(q)
                          /\ Untold(q)' => Untold(q)
                          /\ Rewriting(q)' => Rewriting(q)
                          /\ pc'[q] = "save" => pc[q] = "save" /\ q # p
                          /\ Critical(q)' => Critical(q) /\ q # p
                          /\ Saved(q)' => Saved(q) \/ q = p
  BY <1>0 DEF Claiming, Untold, Rewriting, Critical, Saved, BeforeSave, AfterSave
<1>3. EntitiesDecide'
  BY <1>0, <1>2 DEF IndInv, ClaimInv, EntitiesDecide
<1>4. SaveDecides'
  <2>1. \A q \in Handlers : Saved(q) => bk[q] \in Bookings
    BY DEF IndInv, TypeOK, Saved, AfterSave
  <2>2. \A q \in Handlers : Saved(q)' => Resolved(bk[q])'
    BY <1>0, <1>1, <1>2, <2>1 DEF IndInv, ClaimInv, SaveDecides
  <2> QED BY <1>0, <1>1, <2>2 DEF IndInv, ClaimInv, SaveDecides, Resolved
<1>5. LockProtects'
  <2>1. \A q \in Handlers : Critical(q) => bk[q] \in Bookings
    BY DEF IndInv, TypeOK, Critical, BeforeSave
  <2>2. \A q \in Handlers : Critical(q)' => lock[bk[q]] # NoUser \/ Resolved(bk[q])'
    BY <1>0, <1>1, <1>2, <2>1 DEF IndInv, ClaimInv, LockProtects, Resolved
  <2>3. \A q, r \in Handlers :
          Critical(q)' /\ Critical(r)' /\ bk[q] = bk[r] /\ q # r => Resolved(bk[q])'
    BY <1>0, <1>1, <1>2, <2>1 DEF IndInv, ClaimInv, LockProtects, Resolved
  <2> QED BY <1>0, <2>2, <2>3 DEF LockProtects, Resolved
<1>6. OneClaim' /\ SingleWinner'
  BY <1>0, <1>2 DEF IndInv, ClaimInv, OneClaim, SingleWinner
<1>c. Claiming(p) /\ Untold(p)
  BY <1>0 DEF Claiming, Untold
<1>7. \A b \in Bookings, d \in Users \cup {NoUser} : Agrees(b, d) => Agrees(b, d)'
  BY <1>0, <1>1, <1>2 DEF Agrees, Resolved
<1>8. \A b \in Bookings : Agrees(b, row[b].driver)'
  <2>1. \A b \in Bookings : row[b].driver \in Users \cup {NoUser}
    BY DEF IndInv, TypeOK, Rows
  <2>2. ASSUME NEW b \in Bookings PROVE Agrees(b, row[b].driver)'
    <3>1. CASE b = bk[p]
      <4>1. row'[b].driver = usr[p]
        BY <1>0, <3>1
      <4>2. won'[b] = {}
        BY <1>0, <1>c, <3>1 DEF IndInv, ClaimInv, OneClaim
      <4>3. \A q \in Handlers : Claiming(q)' /\ bk'[q] = b => usr'[q] = usr[p]
        BY <1>0, <1>c, <1>2, <3>1 DEF IndInv, ClaimInv, OneClaim
      <4> QED BY <1>1, <3>1, <4>1, <4>2, <4>3 DEF Agrees
    <3>2. CASE b # bk[p]
      BY <1>0, <1>7, <2>1, <3>2 DEF IndInv, ClaimInv, DriversAgree
    <3> QED BY <3>1, <3>2
  <2> QED BY <2>2
<1>9. \A q \in Handlers : Rewriting(q)' => Agrees(bk[q], ent[q].driver)'
  <2>1. \A q \in Handlers : ent[q].driver \in Users \cup {NoUser}
    BY DEF IndInv, TypeOK, Rows
  <2>2. \A q \in Handlers : Rewriting(q) => bk[q] \in Bookings
    BY DEF IndInv, TypeOK, Rewriting
  <2> QED BY <1>0, <1>2, <1>7, <2>1, <2>2 DEF IndInv, ClaimInv, DriversAgree
<1> QED BY <1>3, <1>4, <1>5, <1>6, <1>8, <1>9 DEF ClaimInv, DriversAgree

\* Telling the customer: the handler is the one that claims the booking.
LEMMA TellStep ==
  ASSUME IndInv, TypeOK', NEW p \in Handlers, ClearOwnRequest(p)
  PROVE  ClaimInv'
<1>0. /\ pc[p] = "clearOwn" /\ pc' = [pc EXCEPT ![p] = "others"] /\ pc \in [Handlers -> Steps]
      /\ bk[p] \in Bookings /\ won \in [Bookings -> SUBSET Users]
      /\ won' = [won EXCEPT ![bk[p]] = @ \cup {usr[p]}]
      /\ row' = row /\ lock' = lock /\ bk' = bk /\ usr' = usr /\ ent' = ent
  BY DEF IndInv, TypeOK, ClearOwnRequest, At, Continue, Goto
<1>1. \A b \in Bookings : Resolved(b)' <=> Resolved(b)
  BY <1>0 DEF Resolved
<1>2. \A q \in Handlers : /\ Claiming(q)' <=> Claiming(q)
                          /\ Untold(q)' => Untold(q) /\ q # p
                          /\ Rewriting(q)' => Rewriting(q)
                          /\ pc'[q] = "save" => pc[q] = "save"
                          /\ Critical(q)' => Critical(q)
                          /\ Saved(q)' => Saved(q)
  BY <1>0 DEF Claiming, Untold, Rewriting, Critical, Saved, BeforeSave, AfterSave
<1>3. Claiming(p) /\ Untold(p) /\ Saved(p)
  BY <1>0 DEF Claiming, Untold, Saved, AfterSave
<1>4. \A b \in Bookings : won'[b] = IF b = bk[p] THEN {usr[p]} ELSE won[b]
  BY <1>0, <1>3 DEF IndInv, ClaimInv, OneClaim
<1>5. EntitiesDecide' /\ LockProtects'
  BY <1>0, <1>2 DEF IndInv, ClaimInv, EntitiesDecide, LockProtects, Resolved
<1>6. SaveDecides'
  <2>1. \A q \in Handlers : Saved(q)' => Resolved(bk[q])'
    BY <1>0, <1>2 DEF IndInv, ClaimInv, SaveDecides, Resolved
  <2>2. \A b \in Bookings : won'[b] # {} => Resolved(b)
    BY <1>3, <1>4 DEF IndInv, ClaimInv, SaveDecides
  <2> QED BY <1>1, <2>1, <2>2 DEF SaveDecides
<1>7. SingleWinner'
  BY <1>4 DEF IndInv, ClaimInv, SingleWinner
<1>8. OneClaim'
  <2>1. \A q, r \in Handlers : Claiming(q)' /\ Claiming(r)' /\ bk'[q] = bk'[r] => q = r
    BY <1>0, <1>2 DEF IndInv, ClaimInv, OneClaim
  <2>2. \A q \in Handlers : Claiming(q) => bk[q] \in Bookings
    BY DEF IndInv, TypeOK, Claiming, AfterSave
  <2>3. ASSUME NEW q \in Handlers, Untold(q)' PROVE won'[bk'[q]] = {}
    <3>1. Untold(q) /\ q # p /\ Claiming(q)
      BY <1>2, <2>3 DEF Untold, Claiming, AfterSave
    <3>2. bk[q] # bk[p]
      BY <1>3, <3>1 DEF IndInv, ClaimInv, OneClaim
    <3> QED BY <1>0, <1>4, <2>2, <3>1, <3>2 DEF IndInv, ClaimInv, OneClaim
  <2>4. ASSUME NEW q \in Handlers, Claiming(q)' PROVE won'[bk'[q]] \subseteq {usr'[q]}
    <3>1. Claiming(q) /\ bk[q] \in Bookings
      BY <1>2, <2>2, <2>4
    <3>2. CASE q = p
      BY <1>0, <1>4, <3>2
    <3>3. CASE q # p
      <4>1. bk[q] # bk[p]
        BY <1>3, <3>1, <3>3 DEF IndInv, ClaimInv, OneClaim
      <4> QED BY <1>0, <1>4, <3>1, <4>1 DEF IndInv, ClaimInv, OneClaim
    <3> QED BY <3>2, <3>3
  <2> QED BY <2>1, <2>3, <2>4 DEF OneClaim
<1>9. \A b \in Bookings, d \in Users \cup {NoUser} : Agrees(b, d) => Agrees(b, d)'
  BY <1>0, <1>1, <1>2, <1>3, <1>4 DEF Agrees
<1>10. DriversAgree'
  <2>1. /\ \A q \in Handlers : ent[q].driver \in Users \cup {NoUser}
        /\ \A b \in Bookings : row[b].driver \in Users \cup {NoUser}
        /\ \A q \in Handlers : Rewriting(q) => bk[q] \in Bookings
    BY DEF IndInv, TypeOK, Rewriting, Rows
  <2>2. \A b \in Bookings : Agrees(b, row[b].driver)'
    BY <1>0, <1>9, <2>1 DEF IndInv, ClaimInv, DriversAgree
  <2>3. \A q \in Handlers : Rewriting(q)' => Agrees(bk[q], ent[q].driver)'
    BY <1>0, <1>2, <1>9, <2>1 DEF IndInv, ClaimInv, DriversAgree
  <2> QED BY <2>2, <2>3 DEF DriversAgree
<1> QED BY <1>5, <1>6, <1>7, <1>8, <1>10 DEF ClaimInv

\* Deleting the lock is harmless once the booking is decided, and a failed
\* acceptance deletes it only when it was the one that the lock covered.
LEMMA UnlockStep ==
  ASSUME IndInv, TypeOK', NEW p \in Handlers, OnlyMoves(p), row' = row, won' = won,
         lock' = [lock EXCEPT ![bk[p]] = NoUser], pc'[p] = "idle", Critical(p) \/ Saved(p)
  PROVE  ClaimInv'
<1>0. bk[p] \in Bookings /\ lock \in [Bookings -> Users \cup {NoUser}]
  BY DEF IndInv, TypeOK, Critical, Saved, BeforeSave, AfterSave
<1>1. \A b \in Bookings : Resolved(b)' <=> Resolved(b)
  BY DEF Resolved
<1>2. \A q \in Handlers : /\ Claiming(q)' => Claiming(q) /\ q # p
                          /\ Untold(q)' => Untold(q) /\ q # p
                          /\ Rewriting(q)' => Rewriting(q) /\ q # p
                          /\ pc'[q] = "save" => pc[q] = "save" /\ q # p
                          /\ Critical(q)' => Critical(q) /\ q # p
                          /\ Saved(q)' => Saved(q) /\ q # p
                          /\ q # p => Keeps(q)
  BY DEF OnlyMoves, Claiming, Untold, Rewriting, Critical, Saved, BeforeSave, AfterSave
<1>3. EntitiesDecide' /\ SaveDecides' /\ OneClaim' /\ SingleWinner'
  BY <1>2 DEF IndInv, ClaimInv, EntitiesDecide, SaveDecides, OneClaim, SingleWinner, Keeps,
     Resolved
<1>4. LockProtects'
  <2>1. \A q \in Handlers : Critical(q) => bk[q] \in Bookings
    BY DEF IndInv, TypeOK, Critical, BeforeSave
  <2>2. ASSUME NEW q \in Handlers, Critical(q)'
        PROVE  lock'[bk[q]] # NoUser \/ Resolved(bk[q])
    <3>1. Critical(q) /\ q # p
      BY <1>2, <2>2
    <3>2. CASE bk[q] = bk[p]
      BY <3>1, <3>2 DEF IndInv, ClaimInv, LockProtects, SaveDecides
    <3>3. CASE bk[q] # bk[p]
      BY <1>0, <2>1, <3>1, <3>3 DEF IndInv, ClaimInv, LockProtects
    <3> QED BY <3>2, <3>3
  <2>3. \A q, r \in Handlers :
          Critical(q)' /\ Critical(r)' /\ bk[q] = bk[r] /\ q # r => Resolved(bk[q])
    BY <1>2 DEF IndInv, ClaimInv, LockProtects
  <2> QED BY <1>2, <2>2, <2>3 DEF LockProtects, Keeps, Resolved
<1>5. \A b \in Bookings, d \in Users \cup {NoUser} : Agrees(b, d) => Agrees(b, d)'
  BY <1>1, <1>2 DEF Agrees, Keeps
<1>6. DriversAgree'
  <2>1. /\ \A q \in Handlers : ent[q].driver \in Users \cup {NoUser}
        /\ \A b \in Bookings : row[b].driver \in Users \cup {NoUser}
        /\ \A q \in Handlers : Rewriting(q) => bk[q] \in Bookings
    BY DEF IndInv, TypeOK, Rewriting, Rows
  <2>2. \A b \in Bookings : Agrees(b, row[b].driver)'
    BY <1>5, <2>1 DEF IndInv, ClaimInv, DriversAgree
  <2>3. \A q \in Handlers : Rewriting(q)' => Agrees(bk[q], ent[q].driver)'
    BY <1>2, <1>5, <2>1 DEF IndInv, ClaimInv, DriversAgree, Keeps
  <2> QED BY <2>2, <2>3 DEF DriversAgree
<1> QED BY <1>3, <1>4, <1>6 DEF ClaimInv

\* Reading the row in order to write it back with a decided status.
LEMMA CopyStep ==
  ASSUME IndInv, TypeOK', NEW p \in Handlers, NEW b \in Bookings, NEW s \in Statuses,
         OnlyMoves(p), row' = row, lock' = lock, won' = won, s # "PENDING",
         bk'[p] = b, pc'[p] \in {"tSave", "uSave"},
         ent'[p] = [row[b] EXCEPT !.status = s]
  PROVE  ClaimInv'
<1>0. row[b] \in Rows /\ s # "NONE"
  BY DEF IndInv, TypeOK, Statuses
<1>1. ent'[p].status = s /\ ent'[p].driver = row[b].driver
  BY <1>0 DEF Rows
<1>2. \A q \in Handlers : /\ Claiming(q)' => Claiming(q) /\ q # p
                          /\ Untold(q)' => Untold(q) /\ q # p
                          /\ Rewriting(q)' => Rewriting(q) \/ q = p
                          /\ pc'[q] = "save" => pc[q] = "save" /\ q # p
                          /\ Critical(q)' => Critical(q) /\ q # p
                          /\ Saved(q)' => Saved(q) /\ q # p
                          /\ q # p => Keeps(q)
  BY DEF OnlyMoves, Claiming, Untold, Rewriting, Critical, Saved, BeforeSave, AfterSave
<1>3. EntitiesDecide'
  <2>1. \A q \in Handlers : pc'[q] = "save" => ent'[q] = [status |-> "ACCEPTED", driver |-> usr'[q]]
    BY <1>2 DEF IndInv, ClaimInv, EntitiesDecide, Keeps
  <2>2. \A q \in Handlers : Rewriting(q)' => ent'[q].status \notin {"NONE", "PENDING"}
    BY <1>0, <1>1, <1>2 DEF IndInv, ClaimInv, EntitiesDecide, Keeps
  <2> QED BY <2>1, <2>2 DEF EntitiesDecide
<1>4. SaveDecides'
  BY <1>2 DEF IndInv, ClaimInv, SaveDecides, Keeps, Resolved
<1>5. LockProtects'
  BY <1>2 DEF IndInv, ClaimInv, LockProtects, Keeps, Resolved
<1>6. OneClaim' /\ SingleWinner'
  BY <1>2 DEF IndInv, ClaimInv, OneClaim, SingleWinner, Keeps
<1>7. \A c \in Bookings, d \in Users \cup {NoUser} : Agrees(c, d) => Agrees(c, d)'
  BY <1>2 DEF Agrees, Keeps, Resolved
<1>8. DriversAgree'
  <2>1. /\ \A q \in Handlers : ent[q].driver \in Users \cup {NoUser}
        /\ \A c \in Bookings : row[c].driver \in Users \cup {NoUser}
        /\ \A q \in Handlers : Rewriting(q) => bk[q] \in Bookings
    BY DEF IndInv, TypeOK, Rewriting, Rows
  <2>2. \A c \in Bookings : Agrees(c, row[c].driver)'
    BY <1>7, <2>1 DEF IndInv, ClaimInv, DriversAgree
  <2>3. ASSUME NEW q \in Handlers, Rewriting(q)' PROVE Agrees(bk[q], ent[q].driver)'
    <3>1. CASE q = p
      BY <1>1, <2>2, <3>1
    <3>2. CASE q # p
      BY <1>2, <1>7, <2>1, <2>3, <3>2 DEF IndInv, ClaimInv, DriversAgree, Keeps
    <3> QED BY <3>1, <3>2
  <2> QED BY <2>2, <2>3 DEF DriversAgree
<1> QED BY <1>3, <1>4, <1>5, <1>6, <1>8 DEF ClaimInv

\* A new booking has no history: the invariant speaks of others only.
LEMMA CreateStep ==
  ASSUME IndInv, TypeOK', NEW p \in Handlers, NEW b \in Bookings, NEW D \in SUBSET Users,
         Create(p, b, D)
  PROVE  ClaimInv'
<1>0. /\ row[b].status = "NONE" /\ row \in [Bookings -> Rows]
      /\ row' = [row EXCEPT ![b] = [status |-> "PENDING", driver |-> NoUser]]
      /\ lock' = lock /\ won' = won /\ ent' = ent
      /\ pc \in [Handlers -> Steps] /\ bk \in [Handlers -> Bookings \cup {NoBooking}]
      /\ usr \in [Handlers -> Users \cup {NoUser}]
  BY DEF IndInv, TypeOK, Create, Start, redis, history, locals
<1>1. \A c \in Bookings : Resolved(c)' <=> Resolved(c)
  BY <1>0 DEF Resolved
<1>2. \A q \in Handlers : /\ Claiming(q)' => Claiming(q)
                          /\ Untold(q)' => Untold(q) /\ Claiming(q)'
                          /\ Rewriting(q)' => Rewriting(q)
                          /\ pc'[q] = "save" => pc[q] = "save"
                          /\ Critical(q)' => Critical(q)
                          /\ Saved(q)' => Saved(q)
                          /\ Claiming(q)' \/ Rewriting(q)' \/ Critical(q)' \/ Saved(q)'
                               => Keeps(q) /\ bk[q] \in Bookings
  <2>1. \/ pc' = pc /\ bk' = bk /\ usr' = usr
        \/ /\ pc[p] = "idle" /\ pc' = [pc EXCEPT ![p] = "setPending"]
           /\ \A q \in Handlers \ {p} : bk'[q] = bk[q] /\ usr'[q] = usr[q]
    BY <1>0 DEF Create, Start, Goto, locals
  <2>2. \A q \in Handlers : pc[q] # "idle" => bk[q] \in Bookings
    BY DEF IndInv, TypeOK
  <2> QED BY <1>0, <2>1, <2>2 DEF Claiming, Untold, Rewriting, Critical, Saved, BeforeSave,
                 AfterSave, Keeps
<1>3. EntitiesDecide'
  <2>1. \A q \in Handlers : pc'[q] = "save" => Claiming(q)'
    BY DEF Claiming
  <2> QED BY <1>0, <1>2, <2>1 DEF IndInv, ClaimInv, EntitiesDecide, Keeps
<1>4. SaveDecides'
  <2>1. \A q \in Handlers : Saved(q)' => Resolved(bk[q])'
    BY <1>0, <1>2 DEF IndInv, ClaimInv, SaveDecides, Keeps, Resolved
  <2> QED BY <1>0, <1>1, <2>1 DEF IndInv, ClaimInv, SaveDecides
<1>5. LockProtects'
  <2>1. \A q \in Handlers : Critical(q)' => lock'[bk'[q]] # NoUser \/ Resolved(bk[q])'
    BY <1>0, <1>2 DEF IndInv, ClaimInv, LockProtects, Keeps, Resolved
  <2>2. \A q, r \in Handlers :
          Critical(q)' /\ Critical(r)' /\ bk'[q] = bk'[r] /\ q # r => Resolved(bk[q])'
    BY <1>0, <1>2 DEF IndInv, ClaimInv, LockProtects, Keeps, Resolved
  <2> QED BY <2>1, <2>2 DEF LockProtects
<1>6. OneClaim' /\ SingleWinner'
  BY <1>0, <1>2 DEF IndInv, ClaimInv, OneClaim, SingleWinner, Keeps
<1>7. \A c \in Bookings, d \in Users \cup {NoUser} : Agrees(c, d) => Agrees(c, d)'
  BY <1>0, <1>1, <1>2 DEF Agrees, Keeps
<1>8. DriversAgree'
  <2>1. /\ \A q \in Handlers : ent[q].driver \in Users \cup {NoUser}
        /\ \A c \in Bookings : row[c].driver \in Users \cup {NoUser}
    BY DEF IndInv, TypeOK, Rows
  <2>2. ASSUME NEW c \in Bookings PROVE Agrees(c, row[c].driver)'
    <3>1. CASE c = b
      <4>1. row'[c].driver = NoUser
        BY <1>0, <3>1
      <4> QED BY <4>1 DEF Agrees
    <3>2. CASE c # b
      <4>1. row'[c] = row[c]
        BY <1>0, <3>2
      <4> QED BY <1>7, <2>1, <4>1 DEF IndInv, ClaimInv, DriversAgree
    <3> QED BY <3>1, <3>2
  <2>3. \A q \in Handlers : Rewriting(q)' => Agrees(bk[q], ent[q].driver)'
    BY <1>0, <1>2, <1>7, <2>1 DEF IndInv, ClaimInv, DriversAgree, Keeps
  <2> QED BY <2>2, <2>3 DEF DriversAgree
<1> QED BY <1>3, <1>4, <1>5, <1>6, <1>8 DEF ClaimInv

\* The steps of the calls, one by one.
LEMMA ClaimHandlerStep ==
  ASSUME IndInv, TypeOK', NEW p \in Handlers, HandlerStep(p)
  PROVE  ClaimInv'
<1>0. /\ pc \in [Handlers -> Steps] /\ bk \in [Handlers -> Bookings \cup {NoBooking}]
      /\ usr \in [Handlers -> Users \cup {NoUser}] /\ ent \in [Handlers -> Rows]
  BY DEF IndInv, TypeOK
<1>1. CASE \/ SetPendingDrivers(p) \/ SetStatusPending(p) \/ OfferToDrivers(p)
           \/ AddTimeoutJob(p) \/ SetStatusAccepted(p)
           \/ GetOtherDrivers(p) \/ CancelOtherDrivers(p) \/ RemoveTimeoutJob(p)
           \/ RemoveDriver(p) \/ ClearRejectedRequest(p) \/ CountRemaining(p)
           \/ CheckNotAccepted(p) \/ SetStatusTimeout(p) \/ GetExpiredDrivers(p)
           \/ ExpireRequests(p)
  BY <1>1, QuietActions
<1>2. CASE LockBooking(p)
  BY <1>2, LockStep
<1>3. CASE ReadBooking(p)
  BY <1>3, ReadStep
<1>4. CASE ValidateVehicle(p)
  BY <1>4, ValidateStep
<1>5. CASE SaveAcceptance(p)
  BY <1>5, SaveStep
<1>6. CASE ClearOwnRequest(p)
  BY <1>6, TellStep
<1>7. CASE UnlockBooking(p)
  <2>1. OnlyMoves(p) /\ Critical(p) /\ pc'[p] = "idle" /\ row' = row /\ won' = won
    BY <1>0, <1>7 DEF UnlockBooking, At, Critical, Finish, Goto, OnlyMoves, Keeps, history
  <2>2. lock' = [lock EXCEPT ![bk[p]] = NoUser]
    BY <1>7 DEF UnlockBooking
  <2> QED BY <2>1, <2>2, UnlockStep
<1>8. CASE ClearTimedOutBooking(p)
  <2>1. OnlyMoves(p) /\ Saved(p) /\ pc'[p] = "idle" /\ row' = row /\ won' = won
    BY <1>0, <1>8
       DEF ClearTimedOutBooking, At, Saved, AfterSave, Finish, Goto, OnlyMoves, Keeps, history
  <2>2. lock' = [lock EXCEPT ![bk[p]] = NoUser]
    BY <1>8 DEF ClearTimedOutBooking
  <2> QED BY <2>1, <2>2, UnlockStep
<1>9. CASE ReadForTimeout(p)
  <2>1. OnlyMoves(p) /\ pc'[p] = "tSave" /\ bk' = bk /\ row' = row /\ lock' = lock /\ won' = won
    BY <1>0, <1>9 DEF ReadForTimeout, Goto, OnlyMoves, Keeps, redis, history
  <2>2. ent'[p] = [row[bk[p]] EXCEPT !.status = "CANCELLED"]
    BY <1>0, <1>9 DEF ReadForTimeout
  <2>3. bk[p] \in Bookings
    BY <1>9 DEF ReadForTimeout, At, IndInv, TypeOK
  <2> QED BY <2>1, <2>2, <2>3, CopyStep DEF Statuses
<1>10. CASE SaveCancellation(p)
  <2>1. /\ OnlyMoves(p) /\ Rewriting(p) /\ pc'[p] = "tSetStatus" /\ bk' = bk
        /\ row' = [row EXCEPT ![bk[p]] = ent[p]] /\ lock' = lock /\ won' = won
    BY <1>0, <1>10
       DEF SaveCancellation, At, Continue, Goto, Rewriting, OnlyMoves, Keeps, redis, history
  <2> QED BY <2>1, RewriteStep
<1>11. CASE SaveStatus(p)
  <2>1. /\ OnlyMoves(p) /\ Rewriting(p) /\ pc'[p] = "idle"
        /\ row' = [row EXCEPT ![bk[p]] = ent[p]] /\ lock' = lock /\ won' = won
    BY <1>0, <1>11
       DEF SaveStatus, At, Finish, Goto, Rewriting, OnlyMoves, Keeps, redis, history
  <2> QED BY <2>1, RewriteStep
<1> QED
  BY <1>1, <1>2, <1>3, <1>4, <1>5, <1>6, <1>7, <1>8, <1>9, <1>10, <1>11
     DEF HandlerStep, AcceptanceStep, TimeoutStep

\* New calls, faults and expiring keys.
LEMMA ClaimEnvironment ==
  ASSUME IndInv, TypeOK', "PENDING" \notin StatusRequests, ~SlowAcceptance
  PROVE  /\ \A p \in Handlers, b \in Bookings, u \in Users :
              Accept(p, b, u) \/ Reject(p, b, u) => ClaimInv'
         /\ \A p \in Handlers, u \in Users : Disconnect(p, u) => ClaimInv'
         /\ \A p \in Handlers, b \in Bookings, s \in StatusRequests :
              RequestStatus(p, b, s) => ClaimInv'
         /\ \A p \in Handlers : Throw(p) \/ Crash(p) => ClaimInv'
         /\ \A b \in Bookings : ExpireLock(b) \/ ExpireKeys(b) => ClaimInv'
<1>0. /\ pc \in [Handlers -> Steps] /\ bk \in [Handlers -> Bookings \cup {NoBooking}]
      /\ usr \in [Handlers -> Users \cup {NoUser}] /\ ent \in [Handlers -> Rows]
      /\ lock \in [Bookings -> Users \cup {NoUser}]
  BY DEF IndInv, TypeOK
<1>1. ASSUME NEW p \in Handlers,
             row' = row, lock' = lock, won' = won, OnlyMoves(p),
             pc'[p] \in {"lock", "drop", "idle"}
      PROVE  ClaimInv'
  <2>1. Lowers(p)
    BY <1>1 DEF Lowers, Saved, Critical, Claiming, Untold, Rewriting, BeforeSave, AfterSave
  <2> QED BY <1>1, <2>1, QuietStep
<1>2. ASSUME NEW p \in Handlers, NEW b \in Bookings, NEW u \in Users,
             Accept(p, b, u) \/ Reject(p, b, u)
      PROVE  ClaimInv'
  <2>1. /\ row' = row /\ lock' = lock /\ won' = won /\ OnlyMoves(p)
        /\ pc'[p] \in {"lock", "drop"}
    BY <1>0, <1>2 DEF Accept, Reject, Start, Goto, OnlyMoves, Keeps, redis, history
  <2> QED BY <1>1, <2>1
<1>3. ASSUME NEW p \in Handlers, NEW u \in Users, Disconnect(p, u)
      PROVE  ClaimInv'
  <2>1. /\ row' = row /\ lock' = lock /\ won' = won /\ OnlyMoves(p)
        /\ pc'[p] = "drop"
    BY <1>0, <1>3 DEF Disconnect, Start, Goto, OnlyMoves, Keeps, redis, history
  <2> QED BY <1>1, <2>1
<1>4. ASSUME NEW p \in Handlers, NEW b \in Bookings, NEW s \in StatusRequests,
             RequestStatus(p, b, s)
      PROVE  ClaimInv'
  <2>1. /\ row' = row /\ lock' = lock /\ won' = won /\ OnlyMoves(p)
        /\ pc'[p] = "uSave" /\ bk'[p] = b
        /\ ent'[p] = [row[b] EXCEPT !.status = s]
    BY <1>0, <1>4 DEF RequestStatus, Start, Goto, OnlyMoves, Keeps, redis, history
  <2> QED BY <2>1, CopyStep, EnvironmentAssumption
<1>6. ASSUME NEW p \in Handlers, Throw(p) \/ Crash(p)
      PROVE  ClaimInv'
  <2>1. row' = row /\ lock' = lock /\ won' = won
    BY <1>6 DEF Throw, Crash, redis, history
  <2>2. CASE Finish(p)
    <3>1. OnlyMoves(p) /\ pc'[p] = "idle"
      BY <1>0, <2>2 DEF Finish, Goto, OnlyMoves, Keeps
    <3> QED BY <1>1, <2>1, <3>1
  <2>3. CASE pc[p] \in BeforeSave \cup AfterSave /\ Continue(p, "unlock")
    <3>1. Critical(p) \/ Resolved(bk[p])
      BY <2>3 DEF Critical, IndInv, ClaimInv, SaveDecides, Saved
    <3>2. OnlyMoves(p) /\ Lowers(p)
      BY <1>0, <2>3, <3>1 DEF Continue, Goto, OnlyMoves, Keeps, Lowers, Saved, Critical,
         Claiming, Untold, Rewriting, BeforeSave, AfterSave
    <3> QED BY <2>1, <3>2, QuietStep
  <2> QED BY <1>6, <2>2, <2>3 DEF Throw, Crash
<1>7. ASSUME NEW b \in Bookings, ExpireLock(b)
      PROVE  ClaimInv'
  <2>1. /\ lock' = [lock EXCEPT ![b] = NoUser] /\ UNCHANGED <<row, won, pc, bk, usr, ent>>
        /\ \A p \in Handlers : bk[p] = b => ~Critical(p)
    BY <1>7 DEF ExpireLock, locals, history
  <2>2. EntitiesDecide' /\ SaveDecides' /\ OneClaim' /\ SingleWinner' /\ DriversAgree'
    BY <2>1 DEF IndInv, ClaimInv, EntitiesDecide, SaveDecides, OneClaim, SingleWinner,
       DriversAgree, Agrees, Claiming, Untold, Rewriting, Saved, Resolved
  <2>3. \A p \in Handlers : Critical(p) => bk[p] \in Bookings
    BY DEF IndInv, TypeOK, Critical, BeforeSave
  <2>4. \A p \in Handlers : Critical(p) => lock'[bk[p]] # NoUser \/ Resolved(bk[p])
    BY <1>0, <2>1, <2>3 DEF IndInv, ClaimInv, LockProtects
  <2>5. LockProtects'
    BY <2>1, <2>4 DEF IndInv, ClaimInv, LockProtects, Critical, Resolved
  <2> QED BY <2>2, <2>5 DEF ClaimInv
<1>8. ASSUME NEW b \in Bookings, ExpireKeys(b)
      PROVE  ClaimInv'
  <2>1. UNCHANGED <<row, lock, won, pc, bk, usr, ent>>
    BY <1>8 DEF ExpireKeys, locals, history
  <2> QED BY <2>1 DEF IndInv, ClaimInv, EntitiesDecide, SaveDecides, LockProtects, OneClaim,
     SingleWinner, DriversAgree, Agrees, Claiming, Untold, Rewriting, Saved, Critical, Resolved
<1> QED BY <1>2, <1>3, <1>4, <1>6, <1>7, <1>8

\* Every step of the system preserves the invariant.
LEMMA ClaimNext ==
  ASSUME IndInv, [Next]_vars, "PENDING" \notin StatusRequests, ~SlowAcceptance
  PROVE  IndInv'
<1>1. TypeOK'
  BY TypeNext DEF IndInv
<1>2. CASE Next
  <2>1. ASSUME NEW p \in Handlers, HandlerStep(p) PROVE ClaimInv'
    BY <1>1, <2>1, ClaimHandlerStep
  <2>2. ASSUME NEW p \in Handlers, NEW b \in Bookings, NEW D \in SUBSET Users, Create(p, b, D)
        PROVE  ClaimInv'
    BY <1>1, <2>2, CreateStep
  <2>3. ClaimInv'
    BY <1>1, <1>2, <2>1, <2>2, ClaimEnvironment DEF Next, Arrive
  <2> QED BY <1>1, <2>3 DEF IndInv
<1>3. CASE UNCHANGED vars
  <2>1. UNCHANGED <<row, lock, won, pc, bk, usr, ent>>
    BY <1>3 DEF vars, redis, locals, history
  <2>2. ClaimInv'
    BY <2>1 DEF IndInv, ClaimInv, EntitiesDecide, SaveDecides, LockProtects, OneClaim,
       SingleWinner, DriversAgree, Agrees, Claiming, Untold, Rewriting, Saved, Critical, Resolved
  <2> QED BY <1>1, <2>2 DEF IndInv
<1> QED BY <1>2, <1>3

----------------------------------------------------------------------------
\* The theorems.  Two assumptions about the environment: no status request
\* asks for PENDING, and an acceptance reaches its save (or its unlock) within
\* the 30 s of its lock.

\* The inductive invariant holds in every reachable state.
LEMMA Invariance ==
  ASSUME "PENDING" \notin StatusRequests, ~SlowAcceptance
  PROVE  Spec => []IndInv
<1>1. Init => IndInv
  BY TypeInit, InitClaim DEF IndInv
<1>2. IndInv /\ [Next]_vars => IndInv'
  BY ClaimNext
<1> QED BY <1>1, <1>2, PTL DEF Spec

\* From the lock of an acceptance to its end the lock or the decided row keeps
\* every other acceptance of the booking out, and every entity that is written
\* back names no other driver than the claimant.
THEOREM ClaimsCorrect ==
  ASSUME "PENDING" \notin StatusRequests, ~SlowAcceptance
  PROVE  Spec => []ClaimInv
<1>1. Spec => []IndInv
  BY Invariance
<1>2. IndInv => ClaimInv
  BY DEF IndInv
<1> QED BY <1>1, <1>2, PTL

\* The customer is told of at most one driver that he accepted, whatever rejects,
\* times out, throws, crashes or expires around the acceptances.
THEOREM OneWinner ==
  ASSUME "PENDING" \notin StatusRequests, ~SlowAcceptance
  PROVE  Spec => []SingleWinner
<1>1. Spec => []IndInv
  BY Invariance
<1>2. IndInv => SingleWinner
  BY DEF IndInv, ClaimInv
<1> QED BY <1>1, <1>2, PTL

\* The driver in the row of a booking is its only claimant.
THEOREM RowNamesItsWinner ==
  ASSUME "PENDING" \notin StatusRequests, ~SlowAcceptance
  PROVE  Spec => []RowNamesWinner
<1>1. Spec => []IndInv
  BY Invariance
<1>2. IndInv => RowNamesWinner
  <2> SUFFICES ASSUME IndInv, NEW b \in Bookings, row[b].driver # NoUser, NEW u \in Claimants(b)
               PROVE  u = row[b].driver
    BY DEF RowNamesWinner
  <2>1. Agrees(b, row[b].driver)
    BY DEF IndInv, ClaimInv, DriversAgree
  <2>2. \A p \in Handlers : pc[p] \in AfterSave => Claiming(p)
    BY DEF Claiming
  <2> QED BY <2>1, <2>2 DEF Agrees, Claimants
<1> QED BY <1>1, <1>2, PTL

\* Rows change in create and in the saves only.
LEMMA RowUnchanged ==
  ASSUME IndInv, Next
  PROVE  \/ row' = row
         \/ \E p \in Handlers : SaveAcceptance(p) \/ SaveCancellation(p) \/ SaveStatus(p)
         \/ \E p \in Handlers, c \in Bookings, D \in SUBSET Users : Create(p, c, D)
<1>1. ASSUME NEW p \in Handlers, HandlerStep(p)
      PROVE  row' = row \/ SaveAcceptance(p) \/ SaveCancellation(p) \/ SaveStatus(p)
  BY <1>1 DEF HandlerStep, AcceptanceStep, TimeoutStep, SetPendingDrivers, SetStatusPending,
     OfferToDrivers, AddTimeoutJob, LockBooking, ReadBooking, ValidateVehicle,
     SetStatusAccepted, ClearOwnRequest, GetOtherDrivers, CancelOtherDrivers,
     ClearNextRequest, RemoveTimeoutJob, UnlockBooking, RemoveDriver,
     ClearRejectedRequest, CountRemaining, CheckNotAccepted, ReadForTimeout,
     SetStatusTimeout, GetExpiredDrivers, ExpireRequests, ClearTimedOutBooking
<1>2. ASSUME NEW p \in Handlers, Throw(p) \/ Crash(p) PROVE row' = row
  BY <1>2 DEF Throw, Crash
<1>3. ASSUME NEW c \in Bookings, ExpireLock(c) \/ ExpireKeys(c) PROVE row' = row
  BY <1>3 DEF ExpireLock, ExpireKeys
<1>5. ASSUME NEW p \in Handlers, NEW c \in Bookings, NEW u \in Users,
             Accept(p, c, u) \/ Reject(p, c, u)
      PROVE  row' = row
  BY <1>5 DEF Accept, Reject
<1>6. ASSUME NEW p \in Handlers, NEW c \in Bookings, NEW s \in StatusRequests,
             RequestStatus(p, c, s)
      PROVE  row' = row
  BY <1>6 DEF RequestStatus
<1>7. ASSUME NEW p \in Handlers, NEW u \in Users, Disconnect(p, u) PROVE row' = row
  BY <1>7 DEF Disconnect
<1> QED
  BY <1>1, <1>2, <1>3, <1>5, <1>6, <1>7 DEF Next, Arrive

\* The saves write a decided status.
LEMMA SavedRow ==
  ASSUME IndInv, NEW p \in Handlers,
         SaveAcceptance(p) \/ SaveCancellation(p) \/ SaveStatus(p)
  PROVE  /\ won' = won /\ bk[p] \in Bookings /\ pc[p] # "idle"
         /\ row' = [row EXCEPT ![bk[p]] = ent[p]]
         /\ ent[p].status \notin {"NONE", "PENDING"}
<1>1. pc[p] = "save" \/ Rewriting(p)
  BY DEF SaveAcceptance, SaveCancellation, SaveStatus, At, Rewriting
<1>2. ent[p].status \notin {"NONE", "PENDING"}
  <2>1. CASE pc[p] = "save"
    <3>1. ent[p] = [status |-> "ACCEPTED", driver |-> usr[p]]
      BY <2>1 DEF IndInv, ClaimInv, EntitiesDecide
    <3> QED BY <3>1
  <2>2. CASE Rewriting(p)
    BY <2>2 DEF IndInv, ClaimInv, EntitiesDecide
  <2> QED BY <1>1, <2>1, <2>2
<1>3. pc[p] # "idle" /\ bk[p] \in Bookings
  BY <1>1 DEF IndInv, TypeOK, Rewriting
<1>4. row' = [row EXCEPT ![bk[p]] = ent[p]] /\ won' = won
  BY DEF SaveAcceptance, SaveCancellation, SaveStatus, history
<1> QED BY <1>2, <1>3, <1>4

\* So a decided booking stays decided, and a placed one placed.
LEMMA RowStep ==
  ASSUME IndInv, Next, NEW b \in Bookings
  PROVE  (Resolved(b) => Resolved(b)') /\ (Placed(b) => Placed(b)')
<1>0. row \in [Bookings -> Rows]
  BY DEF IndInv, TypeOK
<1>1. ASSUME NEW p \in Handlers, SaveAcceptance(p) \/ SaveCancellation(p) \/ SaveStatus(p)
      PROVE  (Resolved(b) => Resolved(b)') /\ (Placed(b) => Placed(b)')
  BY <1>0, <1>1, SavedRow DEF Resolved, Placed
<1>2. ASSUME NEW p \in Handlers, NEW c \in Bookings, NEW D \in SUBSET Users, Create(p, c, D)
      PROVE  (Resolved(b) => Resolved(b)') /\ (Placed(b) => Placed(b)')
  BY <1>0, <1>2 DEF Create, Resolved, Placed
<1>3. CASE row' = row
  BY <1>3 DEF Resolved, Placed
<1> QED BY <1>1, <1>2, <1>3, RowUnchanged

----------------------------------------------------------------------------
\* The allocation implements BookingLifecycle.

\* What a handler step does to the variables that refer to bookings.
LEMMA HandlerReferences ==
  ASSUME IndInv, BookingsExist, NEW p \in Handlers, HandlerStep(p)
  PROVE  /\ \A q \in Handlers : pc'[q] # "idle" => pc[q] # "idle" /\ bk'[q] = bk[q]
         /\ \A b \in Bookings : (offered'[b] # {} => offered[b] # {} \/ Placed(b))
                             /\ (job'[b] # "none" => job[b] # "none" \/ Placed(b))
         /\ \A u \in Users : request'[u] # NoBooking =>
              request'[u] = request[u] \/ (request'[u] \in Bookings /\ Placed(request'[u]))
<1>0. /\ pc \in [Handlers -> Steps] /\ bk \in [Handlers -> Bookings \cup {NoBooking}]
      /\ offered \in [Bookings -> SUBSET Users]
      /\ request \in [Users -> Bookings \cup {NoBooking}]
      /\ job \in [Bookings -> {"none", "delayed"}]
  BY DEF IndInv, TypeOK
<1>1. pc[p] # "idle" => bk[p] \in Bookings /\ Placed(bk[p])
  BY DEF IndInv, TypeOK, BookingsExist
<1> USE <1>0 DEF At, Goto, Continue, Finish, history, redis
<1>2. CASE OfferToDrivers(p)
  BY <1>1, <1>2 DEF OfferToDrivers
<1>3. CASE AddTimeoutJob(p)
  BY <1>1, <1>3 DEF AddTimeoutJob
<1>4. CASE SetPendingDrivers(p) \/ SetStatusPending(p) \/ SaveStatus(p)
  BY <1>4 DEF SetPendingDrivers, SetStatusPending, SaveStatus
<1>5. CASE LockBooking(p) \/ ReadBooking(p) \/ UnlockBooking(p)
  BY <1>5 DEF LockBooking, ReadBooking, UnlockBooking
<1>6. CASE ValidateVehicle(p) \/ SaveAcceptance(p) \/ SetStatusAccepted(p) \/ GetOtherDrivers(p)
  BY <1>6 DEF ValidateVehicle, SaveAcceptance, SetStatusAccepted, GetOtherDrivers
<1>7. CASE ClearOwnRequest(p) \/ ClearRejectedRequest(p) \/ RemoveDriver(p) \/ CountRemaining(p)
  BY <1>7 DEF ClearOwnRequest, ClearRejectedRequest, RemoveDriver, CountRemaining
<1>8. CASE CancelOtherDrivers(p) \/ ExpireRequests(p)
  BY <1>8 DEF CancelOtherDrivers, ExpireRequests, ClearNextRequest
<1>9. CASE RemoveTimeoutJob(p)
  BY <1>9 DEF RemoveTimeoutJob
<1>10. CASE CheckNotAccepted(p) \/ ClearTimedOutBooking(p)
  BY <1>10 DEF CheckNotAccepted, ClearTimedOutBooking
<1>11. CASE ReadForTimeout(p) \/ SaveCancellation(p) \/ SetStatusTimeout(p) \/ GetExpiredDrivers(p)
  BY <1>11 DEF ReadForTimeout, SaveCancellation, SetStatusTimeout, GetExpiredDrivers
<1> QED
  BY <1>2, <1>3, <1>4, <1>5, <1>6, <1>7, <1>8, <1>9, <1>10, <1>11
     DEF HandlerStep, AcceptanceStep, TimeoutStep

\* Every call, offer, job and pending request belongs to a booking that is in
\* the database: the "not found" branches of the calls are never taken.
LEMMA ExistNext ==
  ASSUME IndInv, BookingsExist, [Next]_vars
  PROVE  BookingsExist'
<1>0. /\ pc \in [Handlers -> Steps] /\ bk \in [Handlers -> Bookings \cup {NoBooking}]
      /\ row \in [Bookings -> Rows]
      /\ request \in [Users -> Bookings \cup {NoBooking}]
      /\ job \in [Bookings -> {"none", "delayed"}]
      /\ \A p \in Handlers : pc[p] # "idle" => bk[p] \in Bookings
  BY DEF IndInv, TypeOK
<1>1. CASE UNCHANGED vars
  BY <1>1 DEF vars, redis, locals, history, BookingsExist, Placed
<1>2. CASE Next
  <2>0. \A b \in Bookings : Placed(b) => Placed(b)'
    BY <1>2, RowStep
  <2>1. ASSUME NEW p \in Handlers, HandlerStep(p)
        PROVE  BookingsExist'
    BY <1>0, <2>0, <2>1, HandlerReferences DEF BookingsExist, Placed
  <2>2. ASSUME NEW p \in Handlers, Throw(p) \/ Crash(p)
        PROVE  BookingsExist'
    BY <1>0, <2>0, <2>2
       DEF Throw, Crash, Continue, Finish, Goto, redis, history, BookingsExist, Placed
  <2>3. ASSUME NEW b \in Bookings, ExpireLock(b) \/ ExpireKeys(b)
        PROVE  BookingsExist'
    BY <1>0, <2>3 DEF ExpireLock, ExpireKeys, locals, history, BookingsExist, Placed
  <2>5. ASSUME NEW p \in Handlers, NEW u \in Users, Disconnect(p, u)
        PROVE  BookingsExist'
    BY <1>0, <2>5 DEF Disconnect, Start, Goto, redis, history, BookingsExist, Placed
  <2>6. ASSUME NEW p \in Handlers, NEW b \in Bookings, NEW u \in Users,
               Accept(p, b, u) \/ Reject(p, b, u)
        PROVE  BookingsExist'
    BY <1>0, <2>6 DEF Accept, Reject, Start, Goto, redis, history, BookingsExist, Placed
  <2>7. ASSUME NEW p \in Handlers, NEW b \in Bookings, NEW s \in StatusRequests,
               RequestStatus(p, b, s)
        PROVE  BookingsExist'
    BY <1>0, <2>7 DEF RequestStatus, Start, Goto, redis, history, BookingsExist, Placed
  <2>8. ASSUME NEW p \in Handlers, NEW b \in Bookings, NEW D \in SUBSET Users, Create(p, b, D)
        PROVE  BookingsExist'
    BY <1>0, <2>0, <2>8 DEF Create, Start, Goto, redis, locals, history, BookingsExist, Placed
  <2> QED
    BY <1>2, <2>1, <2>2, <2>3, <2>5, <2>6, <2>7, <2>8 DEF Next, Arrive
<1> QED BY <1>1, <1>2

\* The winners change when the customer is told who accepted.
LEMMA WonUnchanged ==
  ASSUME Next
  PROVE  won' = won \/ \E p \in Handlers : ClearOwnRequest(p)
<1>1. ASSUME NEW p \in Handlers, HandlerStep(p)
      PROVE  won' = won \/ ClearOwnRequest(p)
  BY <1>1 DEF HandlerStep, AcceptanceStep, TimeoutStep, SetPendingDrivers, SetStatusPending,
     OfferToDrivers, AddTimeoutJob, LockBooking, ReadBooking, ValidateVehicle, SaveAcceptance,
     SetStatusAccepted, GetOtherDrivers, CancelOtherDrivers,
     ClearNextRequest, RemoveTimeoutJob, UnlockBooking, RemoveDriver,
     ClearRejectedRequest, CountRemaining, CheckNotAccepted, ReadForTimeout, SaveCancellation,
     SetStatusTimeout, GetExpiredDrivers, ExpireRequests, ClearTimedOutBooking, SaveStatus,
     history
<1>2. ASSUME NEW p \in Handlers, Throw(p) \/ Crash(p) PROVE won' = won
  BY <1>2 DEF Throw, Crash, history
<1>3. ASSUME NEW b \in Bookings, ExpireLock(b) \/ ExpireKeys(b) PROVE won' = won
  BY <1>3 DEF ExpireLock, ExpireKeys, history
<1>4. ASSUME NEW p \in Handlers, NEW b \in Bookings,
             \/ \E D \in SUBSET Users : Create(p, b, D)
             \/ \E u \in Users : Accept(p, b, u) \/ Reject(p, b, u)
             \/ \E s \in StatusRequests : RequestStatus(p, b, s)
      PROVE won' = won
  BY <1>4 DEF Create, Accept, Reject, RequestStatus, history
<1>5. ASSUME NEW p \in Handlers, NEW u \in Users, Disconnect(p, u) PROVE won' = won
  BY <1>5 DEF Disconnect, history
<1> QED BY <1>1, <1>2, <1>3, <1>4, <1>5 DEF Next, Arrive

\* Each step is a step of the lifecycle of one booking or leaves all of them alone.
LEMMA LifecycleStep ==
  ASSUME IndInv, BookingsExist, [Next]_vars
  PROVE  [Lifecycle!Next]_<<Phase, won>>
<1>0. row \in [Bookings -> Rows] /\ won \in [Bookings -> SUBSET Users]
  BY DEF IndInv, TypeOK
<1>1. ASSUME row' = row PROVE Phase' = Phase
  BY <1>1 DEF Phase
<1>2. CASE UNCHANGED vars
  BY <1>1, <1>2 DEF vars, history
<1>3. ASSUME NEW p \in Handlers, SaveAcceptance(p) \/ SaveCancellation(p) \/ SaveStatus(p)
      PROVE  [Lifecycle!Next]_<<Phase, won>>
  <2>1. /\ won' = won /\ bk[p] \in Bookings /\ Placed(bk[p])
        /\ row' = [row EXCEPT ![bk[p]] = ent[p]]
        /\ ent[p].status \notin {"NONE", "PENDING"}
    BY <1>3, SavedRow DEF BookingsExist
  <2>2. Phase' = [Phase EXCEPT ![bk[p]] = "decided"]
    BY <1>0, <2>1 DEF Phase
  <2>3. CASE Phase[bk[p]] = "open"
    BY <2>1, <2>2, <2>3 DEF Lifecycle!Next, Lifecycle!Decide
  <2>4. CASE Phase[bk[p]] = "decided"
    <3>1. Phase' = Phase
      BY <2>2, <2>4 DEF Phase
    <3> QED BY <2>1, <3>1
  <2>5. Phase[bk[p]] \in {"open", "decided"}
    BY <2>1 DEF Phase, Placed
  <2> QED BY <2>3, <2>4, <2>5
<1>4. ASSUME NEW p \in Handlers, NEW b \in Bookings, NEW D \in SUBSET Users, Create(p, b, D)
      PROVE  [Lifecycle!Next]_<<Phase, won>>
  <2>1. /\ Phase[b] = "absent" /\ won' = won
        /\ row' = [row EXCEPT ![b] = [status |-> "PENDING", driver |-> NoUser]]
    BY <1>4 DEF Create, Phase, history
  <2>2. Phase' = [Phase EXCEPT ![b] = "open"]
    BY <1>0, <2>1 DEF Phase
  <2> QED BY <2>1, <2>2 DEF Lifecycle!Next, Lifecycle!Place
<1>5. ASSUME NEW p \in Handlers, ClearOwnRequest(p)
      PROVE  [Lifecycle!Next]_<<Phase, won>>
  <2>1. /\ pc[p] \in AfterSave /\ Saved(p) /\ Untold(p) /\ row' = row
        /\ won' = [won EXCEPT ![bk[p]] = @ \cup {usr[p]}]
    BY <1>5 DEF ClearOwnRequest, At, AfterSave, Saved, Untold
  <2>2. bk[p] \in Bookings /\ usr[p] \in Users
    BY <2>1 DEF IndInv, TypeOK, AfterSave
  <2>3. Resolved(bk[p]) /\ won[bk[p]] = {}
    BY <2>1 DEF IndInv, ClaimInv, SaveDecides, OneClaim
  <2>4. Phase[bk[p]] = "decided"
    BY <2>2, <2>3 DEF Phase, Resolved
  <2>5. won' = [won EXCEPT ![bk[p]] = {usr[p]}]
    BY <2>1, <2>3
  <2> QED BY <1>1, <2>1, <2>2, <2>3, <2>4, <2>5 DEF Lifecycle!Next, Lifecycle!Award
<1>6. CASE Next /\ row' = row /\ won' = won
  BY <1>1, <1>6
<1>7. CASE Next
  BY <1>3, <1>4, <1>5, <1>6, <1>7, RowUnchanged, WonUnchanged
<1> QED BY <1>2, <1>7

\* The allocation implements its abstract specification, for any number of
\* bookings, drivers and concurrent calls.
THEOREM ImplementsLifecycle ==
  ASSUME "PENDING" \notin StatusRequests, ~SlowAcceptance
  PROVE  Spec => AwardedOnceDecided
<1>1. Init => BookingsExist /\ Lifecycle!Init
  BY DEF Init, BookingsExist, Lifecycle!Init, Phase, NoRow
<1>2. Spec => []IndInv
  BY Invariance
<1>3. IndInv /\ BookingsExist /\ [Next]_vars => BookingsExist'
  BY ExistNext
<1>4. IndInv /\ BookingsExist /\ [Next]_vars => [Lifecycle!Next]_<<Phase, won>>
  BY LifecycleStep
<1> QED BY <1>1, <1>2, <1>3, <1>4, PTL DEF Spec, AwardedOnceDecided, Lifecycle!Spec

----------------------------------------------------------------------------
\* What the calls for a booking leave behind when nothing fails.

\* Then only calls, clients and lifetimes of keys change anything.
LEMMA FaultFreeStep ==
  ASSUME Next, Faults = {}
  PROVE  \/ \E p \in Handlers : HandlerStep(p) \/ Arrive(p)
         \/ \E p \in Handlers, u \in Users : Disconnect(p, u)
         \/ \E b \in Bookings : ExpireLock(b) \/ ExpireKeys(b)
BY DEF Next, Throw, Crash

\* An acceptance whose driver the customer has been told of.
Told(p) == pc[p] \in {"others", "walk", "removeJob"}

\* The entities that are about to be written, and the claims that are known.
ClaimsKnown ==
  \A p \in Handlers :
    /\ pc[p] = "save" => ent[p] = [status |-> "ACCEPTED", driver |-> usr[p]]
    /\ Rewriting(p) => ent[p].status # "ACCEPTED"
    /\ Told(p) => usr[p] \in won[bk[p]]

\* An ACCEPTED row and every entity about to become one have a driver of whom the
\* customer is, or will be, told.
WinnerInv == AcceptedHasWinner /\ ClaimsKnown

\* Handler p goes on with the booking and the driver it has claimed, or the
\* customer has been told of him.
KeepsClaim(p) ==
  pc[p] \in AfterSave =>
    \/ pc'[p] \in AfterSave /\ bk'[p] = bk[p] /\ usr'[p] = usr[p]
    \/ usr[p] \in won'[bk[p]]

\* Claims are only dropped once the customer was told.
LEMMA ClaimantsStay ==
  ASSUME TypeOK, NEW b \in Bookings, \A p \in Handlers : KeepsClaim(p),
         \A c \in Bookings : won[c] \subseteq won'[c]
  PROVE  Claimants(b) \subseteq Claimants(b)'
<1> SUFFICES ASSUME NEW u \in Claimants(b) PROVE u \in Claimants(b)'
  OBVIOUS
<1>1. CASE u \in won[b]
  BY <1>1 DEF Claimants
<1>2. ASSUME NEW p \in Handlers, bk[p] = b, pc[p] \in AfterSave, u = usr[p]
      PROVE  u \in Claimants(b)'
  BY <1>2 DEF Claimants, KeepsClaim
<1> QED BY <1>1, <1>2 DEF Claimants

\* What a step does to the handlers and rows that WinnerInv speaks of, unless it
\* saves an acceptance.
WinnerQuiet ==
  /\ \A q \in Handlers : KeepsClaim(q)
  /\ \A c \in Bookings : won[c] \subseteq won'[c]
  /\ \A c \in Bookings : row'[c].status = "ACCEPTED" => row'[c] = row[c]
  /\ ClaimsKnown'

\* Such a step keeps it.
LEMMA WinnerQuietStep ==
  ASSUME TypeOK, WinnerInv, WinnerQuiet
  PROVE  WinnerInv'
<1>1. AcceptedHasWinner'
  <2> SUFFICES ASSUME NEW b \in Bookings, row'[b].status = "ACCEPTED"
               PROVE  row'[b].driver \in Claimants(b)'
    BY DEF AcceptedHasWinner
  <2>1. row'[b] = row[b]
    BY DEF WinnerQuiet
  <2>2. row[b].driver \in Claimants(b)
    BY <2>1 DEF WinnerInv, AcceptedHasWinner
  <2>3. Claimants(b) \subseteq Claimants(b)'
    BY ClaimantsStay DEF WinnerQuiet
  <2> QED BY <2>1, <2>2, <2>3
<1> QED BY <1>1 DEF WinnerInv, WinnerQuiet

\* The steps of the calls.
LEMMA WinnerHandlerStep ==
  ASSUME TypeOK, WinnerInv, NEW p \in Handlers, HandlerStep(p)
  PROVE  WinnerInv'
<1>0. /\ pc \in [Handlers -> Steps] /\ bk \in [Handlers -> Bookings \cup {NoBooking}]
      /\ usr \in [Handlers -> Users \cup {NoUser}] /\ ent \in [Handlers -> Rows]
      /\ row \in [Bookings -> Rows] /\ won \in [Bookings -> SUBSET Users]
      /\ \A q \in Handlers : pc[q] # "idle" => bk[q] \in Bookings
      /\ \A q \in Handlers :
           /\ pc[q] = "save" => ent[q] = [status |-> "ACCEPTED", driver |-> usr[q]]
           /\ Rewriting(q) => ent[q].status # "ACCEPTED"
           /\ Told(q) => usr[q] \in won[bk[q]]
  BY DEF TypeOK, WinnerInv, ClaimsKnown
<1>1. CASE SaveAcceptance(p)
  <2>1. /\ pc[p] = "save" /\ bk[p] \in Bookings /\ won' = won
        /\ row' = [row EXCEPT ![bk[p]] = ent[p]]
        /\ pc' = [pc EXCEPT ![p] = "setAccepted"] /\ UNCHANGED <<bk, usr, ent>>
    BY <1>0, <1>1 DEF SaveAcceptance, At, Continue, Goto, history
  <2>2. \A q \in Handlers : KeepsClaim(q)
    BY <1>0, <2>1 DEF KeepsClaim, AfterSave
  <2>3. AcceptedHasWinner'
    <3> SUFFICES ASSUME NEW b \in Bookings, row'[b].status = "ACCEPTED"
                 PROVE  row'[b].driver \in Claimants(b)'
      BY DEF AcceptedHasWinner
    <3>1. CASE b = bk[p]
      <4>1. row'[b].driver = usr'[p] /\ bk'[p] = b /\ pc'[p] \in AfterSave
        BY <1>0, <2>1, <3>1 DEF AfterSave
      <4> QED BY <4>1 DEF Claimants
    <3>2. CASE b # bk[p]
      <4>1. row[b].driver \in Claimants(b) /\ row'[b] = row[b]
        BY <1>0, <2>1, <3>2 DEF WinnerInv, AcceptedHasWinner
      <4>2. Claimants(b) \subseteq Claimants(b)'
        BY <2>1, <2>2, ClaimantsStay
      <4> QED BY <4>1, <4>2
    <3> QED BY <3>1, <3>2
  <2>4. ClaimsKnown'
    BY <1>0, <2>1 DEF ClaimsKnown, Rewriting, Told
  <2> QED BY <2>3, <2>4 DEF WinnerInv
<1>2. CASE SaveCancellation(p) \/ SaveStatus(p)
  <2>1. /\ Rewriting(p) /\ bk[p] \in Bookings /\ won' = won
        /\ row' = [row EXCEPT ![bk[p]] = ent[p]] /\ OnlyMoves(p)
        /\ pc'[p] \in {"idle", "tSetStatus"} /\ pc[p] \notin AfterSave
    BY <1>0, <1>2 DEF SaveCancellation, SaveStatus, At, Rewriting, OnlyMoves, Keeps, AfterSave,
       Continue, Finish, Goto, history
  <2> QED BY <1>0, <2>1, WinnerQuietStep
       DEF WinnerQuiet, ClaimsKnown, KeepsClaim, OnlyMoves, Keeps, Rewriting, Told
<1>3. CASE ClearOwnRequest(p)
  <2>1. /\ pc[p] = "clearOwn" /\ bk[p] \in Bookings /\ row' = row
        /\ won' = [won EXCEPT ![bk[p]] = @ \cup {usr[p]}]
        /\ pc' = [pc EXCEPT ![p] = "others"] /\ UNCHANGED <<bk, usr, ent>>
    BY <1>0, <1>3 DEF ClearOwnRequest, At, Continue, Goto
  <2>2. \A c \in Bookings : won[c] \subseteq won'[c]
    BY <1>0, <2>1
  <2>3. ASSUME NEW q \in Handlers, Told(q)' PROVE usr'[q] \in won'[bk'[q]]
    <3>1. CASE q = p
      BY <1>0, <2>1, <3>1
    <3>2. CASE q # p
      <4>1. Told(q) /\ bk[q] \in Bookings
        BY <1>0, <2>1, <2>3, <3>2 DEF Told
      <4> QED BY <1>0, <2>1, <2>2, <4>1
    <3> QED BY <3>1, <3>2
  <2>4. ClaimsKnown'
    BY <1>0, <2>1, <2>3 DEF ClaimsKnown, Rewriting
  <2>5. \A q \in Handlers : KeepsClaim(q)
    BY <1>0, <2>1 DEF KeepsClaim, AfterSave
  <2> QED BY <2>1, <2>2, <2>4, <2>5, WinnerQuietStep DEF WinnerQuiet
<1>4. CASE ValidateVehicle(p)
  <2>1. WinnerQuiet
    BY <1>0, <1>4 DEF WinnerQuiet, ClaimsKnown, KeepsClaim, ValidateVehicle, At, Rewriting,
       Told, AfterSave, Continue, Goto, history
  <2> QED BY <2>1, WinnerQuietStep
<1>5. CASE ReadForTimeout(p)
  <2>1. /\ OnlyMoves(p) /\ pc[p] \notin AfterSave /\ pc'[p] = "tSave"
        /\ row' = row /\ won' = won
    BY <1>0, <1>5 DEF ReadForTimeout, OnlyMoves, Keeps, At, AfterSave, Goto, history
  <2>2. ent'[p].status = "CANCELLED"
    BY <1>0, <1>5 DEF ReadForTimeout, At, Rows
  <2> QED BY <1>0, <2>1, <2>2, WinnerQuietStep
       DEF WinnerQuiet, ClaimsKnown, KeepsClaim, OnlyMoves, Keeps, Rewriting, Told, AfterSave
<1>6. ASSUME OnlyMoves(p), row' = row, won' = won, KeepsClaim(p),
             pc'[p] \notin {"save", "tSave", "uSave"}, Told(p)' => Told(p) /\ Keeps(p)
      PROVE  WinnerInv'
  BY <1>0, <1>6, WinnerQuietStep
     DEF WinnerQuiet, ClaimsKnown, OnlyMoves, Keeps, KeepsClaim, Rewriting, Told
<1>15. CASE RemoveTimeoutJob(p)
  <2>1. /\ Told(p) /\ OnlyMoves(p) /\ pc'[p] = "unlock" /\ row' = row /\ won' = won
    BY <1>0, <1>15 DEF RemoveTimeoutJob, At, Told, OnlyMoves, Keeps, Continue, Goto, history
  <2>2. KeepsClaim(p)
    BY <1>0, <2>1 DEF KeepsClaim
  <2>3. ~Told(p)'
    BY <2>1 DEF Told
  <2> QED BY <1>6, <2>1, <2>2, <2>3
<1> USE <1>0 DEF OnlyMoves, Keeps, KeepsClaim, Told, AfterSave, At, Goto, Continue, Finish, history
<1>7. CASE SetPendingDrivers(p) \/ SetStatusPending(p) \/ OfferToDrivers(p) \/ AddTimeoutJob(p)
  BY <1>6, <1>7 DEF SetPendingDrivers, SetStatusPending, OfferToDrivers, AddTimeoutJob
<1>8. CASE LockBooking(p) \/ UnlockBooking(p) \/ CheckNotAccepted(p) \/ ClearTimedOutBooking(p)
  BY <1>6, <1>8 DEF LockBooking, UnlockBooking, CheckNotAccepted, ClearTimedOutBooking
<1>9. CASE ReadBooking(p)
  BY <1>6, <1>9 DEF ReadBooking
<1>10. CASE SetStatusAccepted(p) \/ GetOtherDrivers(p)
  BY <1>6, <1>10 DEF SetStatusAccepted, GetOtherDrivers
<1>11. CASE CancelOtherDrivers(p)
  BY <1>6, <1>11 DEF CancelOtherDrivers, ClearNextRequest
<1>12. CASE ExpireRequests(p)
  BY <1>6, <1>12 DEF ExpireRequests, ClearNextRequest
<1>13. CASE RemoveDriver(p) \/ ClearRejectedRequest(p) \/ CountRemaining(p)
  BY <1>6, <1>13 DEF RemoveDriver, ClearRejectedRequest, CountRemaining
<1>14. CASE SetStatusTimeout(p) \/ GetExpiredDrivers(p)
  BY <1>6, <1>14 DEF SetStatusTimeout, GetExpiredDrivers
<1> QED
  BY <1>1, <1>2, <1>3, <1>4, <1>5, <1>7, <1>8, <1>9, <1>10, <1>11, <1>12, <1>13, <1>14, <1>15
     DEF HandlerStep, AcceptanceStep, TimeoutStep

\* A booking that is ACCEPTED is so for a driver of whom the customer was told or is
\* about to be, though the driver is answered that he failed, and
\* whatever timeouts, rejections, expiring keys and locks come in between: of all
\* saves only that of an acceptance writes the status.
THEOREM AcceptedForSomebody ==
  ASSUME Faults = {}, "ACCEPTED" \notin StatusRequests
  PROVE  Spec => []AcceptedHasWinner
<1>1. Init => WinnerInv
  BY DEF Init, WinnerInv, AcceptedHasWinner, ClaimsKnown, NoRow, Rewriting, Told
<1>2. ASSUME TypeOK, WinnerInv, Next PROVE WinnerInv'
  <2>0. /\ pc \in [Handlers -> Steps] /\ bk \in [Handlers -> Bookings \cup {NoBooking}]
        /\ usr \in [Handlers -> Users \cup {NoUser}] /\ ent \in [Handlers -> Rows]
        /\ row \in [Bookings -> Rows] /\ won \in [Bookings -> SUBSET Users]
        /\ \A q \in Handlers :
             /\ pc[q] = "save" => ent[q] = [status |-> "ACCEPTED", driver |-> usr[q]]
             /\ Rewriting(q) => ent[q].status # "ACCEPTED"
             /\ Told(q) => usr[q] \in won[bk[q]]
    BY <1>2 DEF TypeOK, WinnerInv, ClaimsKnown
  <2>1. ASSUME NEW p \in Handlers, NEW b \in Bookings, NEW s \in StatusRequests,
               RequestStatus(p, b, s)
        PROVE  WinnerQuiet
    <3>1. OnlyMoves(p) /\ pc[p] = "idle" /\ pc'[p] = "uSave" /\ row' = row /\ won' = won
      BY <2>0, <2>1 DEF RequestStatus, Start, Goto, OnlyMoves, Keeps, history
    <3>2. ent'[p].status = s
      BY <2>0, <2>1 DEF RequestStatus, Start, Rows
    <3> QED BY <2>0, <3>1, <3>2
         DEF WinnerQuiet, ClaimsKnown, Told, OnlyMoves, Keeps, KeepsClaim, AfterSave, Rewriting
  <2>2. ASSUME NEW p \in Handlers, NEW b \in Bookings, NEW u \in Users,
               Accept(p, b, u) \/ Reject(p, b, u)
        PROVE  WinnerQuiet
    BY <2>0, <2>2 DEF Accept, Reject, Start, Goto, WinnerQuiet, ClaimsKnown, Told, KeepsClaim, AfterSave,
       Rewriting, history
  <2>3. ASSUME NEW p \in Handlers, NEW b \in Bookings, NEW D \in SUBSET Users, Create(p, b, D)
        PROVE  WinnerQuiet
    <3>1. /\ row' = [row EXCEPT ![b] = [status |-> "PENDING", driver |-> NoUser]] /\ won' = won
          /\ ent' = ent
      BY <2>3 DEF Create, locals, history
    <3>2. CASE UNCHANGED locals
      BY <2>0, <3>1, <3>2 DEF locals, WinnerQuiet, ClaimsKnown, Told, KeepsClaim, Rewriting
    <3>3. CASE Start(p, "setPending", b, NoUser)
      BY <2>0, <3>1, <3>3 DEF Start, Goto, WinnerQuiet, ClaimsKnown, Told, KeepsClaim, AfterSave, Rewriting
    <3> QED BY <2>3, <3>2, <3>3 DEF Create
  <2>4. ASSUME NEW p \in Handlers, NEW u \in Users, Disconnect(p, u)
        PROVE  WinnerQuiet
    BY <2>0, <2>4 DEF Disconnect, Start, Goto, WinnerQuiet, ClaimsKnown, Told, KeepsClaim, AfterSave,
       Rewriting, history
  <2>6. ASSUME NEW b \in Bookings, ExpireLock(b) \/ ExpireKeys(b)
        PROVE  WinnerQuiet
    <3>1. UNCHANGED <<row, locals, history>>
      BY <2>6 DEF ExpireLock, ExpireKeys
    <3> QED BY <2>0, <3>1 DEF locals, history, WinnerQuiet, ClaimsKnown, Told, KeepsClaim, Rewriting
  <2>7. ASSUME NEW p \in Handlers, HandlerStep(p)
        PROVE  WinnerInv'
    BY <1>2, <2>7, WinnerHandlerStep
  <2> QED
    BY <1>2, <2>1, <2>2, <2>3, <2>4, <2>6, <2>7, FaultFreeStep, WinnerQuietStep DEF Arrive
<1>3. TypeOK /\ WinnerInv /\ [Next]_vars => WinnerInv'
  <2>1. ASSUME WinnerInv, UNCHANGED vars PROVE WinnerInv'
    BY <2>1 DEF vars, locals, history, WinnerInv, AcceptedHasWinner, ClaimsKnown, Told, Claimants, Rewriting
  <2> QED BY <1>2, <2>1
<1>4. WinnerInv => AcceptedHasWinner
  BY DEF WinnerInv
<1> QED BY <1>1, <1>3, <1>4, TypeCorrect, PTL DEF Spec

\* A lock whose booking is open belongs to an acceptance that will release it.
LockServed ==
  \A b \in Bookings : lock[b] # NoUser =>
    Resolved(b) \/ \E p \in Handlers : Critical(p) /\ bk[p] = b

\* A step that takes no lock, and after which its handler is as critical as before.
LEMMA ServedQuietStep ==
  ASSUME IndInv, LockServed, Next, NEW p \in Handlers, OnlyMoves(p),
         Critical(p) => Critical(p)' /\ bk'[p] = bk[p],
         \A b \in Bookings : lock'[b] # NoUser => lock[b] # NoUser
  PROVE  LockServed'
<1> SUFFICES ASSUME NEW b \in Bookings, lock'[b] # NoUser, ~Resolved(b)'
             PROVE  \E q \in Handlers : Critical(q)' /\ bk'[q] = b
  BY DEF LockServed
<1>1. ~Resolved(b)
  BY RowStep
<1>2. PICK q \in Handlers : Critical(q) /\ bk[q] = b
  BY <1>1 DEF LockServed
<1>3. Critical(q)' /\ bk'[q] = b
  BY <1>2 DEF OnlyMoves, Keeps, Critical
<1> QED BY <1>3

\* The steps of the calls.
LEMMA ServedHandlerStep ==
  ASSUME IndInv, BookingsExist, LockServed, Next, NEW p \in Handlers, HandlerStep(p)
  PROVE  LockServed'
<1>0. /\ pc \in [Handlers -> Steps] /\ bk \in [Handlers -> Bookings \cup {NoBooking}]
      /\ usr \in [Handlers -> Users \cup {NoUser}] /\ ent \in [Handlers -> Rows]
      /\ lock \in [Bookings -> Users \cup {NoUser}] /\ row \in [Bookings -> Rows]
      /\ (pc[p] # "idle" => bk[p] \in Bookings)
  BY DEF IndInv, TypeOK
<1>1. ASSUME NEW c \in Bookings, c = bk[p], OnlyMoves(p),
             \A b \in Bookings \ {c} : lock'[b] = lock[b],
             Resolved(c)' \/ lock'[c] = NoUser
      PROVE  LockServed'
  <2> SUFFICES ASSUME NEW b \in Bookings, lock'[b] # NoUser, ~Resolved(b)'
               PROVE  \E q \in Handlers : Critical(q)' /\ bk'[q] = b
    BY DEF LockServed
  <2>1. b # c /\ ~Resolved(b)
    BY <1>1, RowStep
  <2>2. PICK q \in Handlers : Critical(q) /\ bk[q] = b
    BY <1>1, <2>1 DEF LockServed
  <2>3. Critical(q)' /\ bk'[q] = b
    BY <1>1, <2>1, <2>2 DEF OnlyMoves, Keeps, Critical
  <2> QED BY <2>3
<1>2. ASSUME OnlyMoves(p), Critical(p) => Critical(p)' /\ bk'[p] = bk[p],
             \A b \in Bookings : lock'[b] # NoUser => lock[b] # NoUser
      PROVE  LockServed'
  BY <1>2, ServedQuietStep
<1> USE <1>0 DEF OnlyMoves, Keeps, At, Goto, Continue, Finish, history, redis, Critical,
        BeforeSave
<1>3. CASE LockBooking(p)
  <2>1. CASE lock[bk[p]] # NoUser
    BY <1>2, <1>3, <2>1 DEF LockBooking
  <2>2. CASE lock[bk[p]] = NoUser
    <3>1. /\ \A b \in Bookings \ {bk[p]} : lock'[b] = lock[b] /\ OnlyMoves(p)
          /\ pc'[p] = "read" /\ bk' = bk /\ pc[p] = "lock"
      BY <1>3, <2>2 DEF LockBooking
    <3> SUFFICES ASSUME NEW b \in Bookings, lock'[b] # NoUser, ~Resolved(b)'
                 PROVE  \E q \in Handlers : Critical(q)' /\ bk'[q] = b
      BY DEF LockServed
    <3>2. CASE b = bk[p]
      BY <3>1, <3>2
    <3>3. CASE b # bk[p]
      <4>1. ~Resolved(b) /\ lock[b] # NoUser
        BY <3>1, <3>3, RowStep
      <4>2. PICK q \in Handlers : Critical(q) /\ bk[q] = b
        BY <4>1 DEF LockServed
      <4>3. Critical(q)' /\ bk'[q] = b
        BY <3>1, <3>3, <4>2
      <4> QED BY <4>3
    <3> QED BY <3>2, <3>3
  <2> QED BY <2>1, <2>2
<1>4. CASE ReadBooking(p)
  <2>1. CASE row[bk[p]].status = "PENDING"
    BY <1>2, <1>4, <2>1 DEF ReadBooking
  <2>2. CASE row[bk[p]].status # "PENDING"
    <3>1. PICK c \in Bookings : c = bk[p]
      BY <1>4 DEF ReadBooking
    <3>2. Resolved(c)
      BY <1>4, <2>2, <3>1 DEF ReadBooking, BookingsExist, Placed, Resolved
    <3>3. Resolved(c)'
      BY <3>2, RowStep
    <3> QED BY <1>1, <1>4, <3>1, <3>3 DEF ReadBooking
  <2> QED BY <2>1, <2>2
<1>5. CASE SaveAcceptance(p)
  <2>1. PICK c \in Bookings : c = bk[p]
    BY <1>5 DEF SaveAcceptance
  <2>2. Resolved(c)'
    BY <1>0, <1>5, <2>1, SavedRow DEF Resolved
  <2> QED BY <1>1, <1>5, <2>1, <2>2 DEF SaveAcceptance
<1>6. CASE ValidateVehicle(p)
  BY <1>2, <1>6 DEF ValidateVehicle
<1>7. CASE UnlockBooking(p)
  <2>1. bk[p] \in Bookings /\ OnlyMoves(p) /\ lock' = [lock EXCEPT ![bk[p]] = NoUser]
    BY <1>7 DEF UnlockBooking
  <2> QED BY <1>0, <1>1, <2>1
<1>8. CASE ClearTimedOutBooking(p)
  BY <1>2, <1>8 DEF ClearTimedOutBooking
<1>9. CASE SetPendingDrivers(p) \/ SetStatusPending(p) \/ OfferToDrivers(p) \/ AddTimeoutJob(p)
  BY <1>2, <1>9 DEF SetPendingDrivers, SetStatusPending, OfferToDrivers, AddTimeoutJob
<1>10. CASE SetStatusAccepted(p) \/ ClearOwnRequest(p) \/ GetOtherDrivers(p) \/ RemoveTimeoutJob(p)
  BY <1>2, <1>10 DEF SetStatusAccepted, ClearOwnRequest, GetOtherDrivers, RemoveTimeoutJob
<1>11. CASE CancelOtherDrivers(p) \/ ExpireRequests(p)
  BY <1>2, <1>11 DEF CancelOtherDrivers, ExpireRequests, ClearNextRequest
<1>12. CASE RemoveDriver(p) \/ ClearRejectedRequest(p) \/ CountRemaining(p) \/ CheckNotAccepted(p)
  BY <1>2, <1>12 DEF RemoveDriver, ClearRejectedRequest, CountRemaining, CheckNotAccepted
<1>13. CASE ReadForTimeout(p) \/ SaveCancellation(p) \/ SetStatusTimeout(p) \/ GetExpiredDrivers(p)
  BY <1>2, <1>13 DEF ReadForTimeout, SaveCancellation, SetStatusTimeout, GetExpiredDrivers
<1>14. CASE SaveStatus(p)
  BY <1>2, <1>14 DEF SaveStatus
<1> QED
  BY <1>3, <1>4, <1>5, <1>6, <1>7, <1>8, <1>9, <1>10, <1>11, <1>12, <1>13, <1>14
     DEF HandlerStep, AcceptanceStep, TimeoutStep

\* Every call, offer, job and request belongs to a booking in the database.
LEMMA BookingsExistAlways ==
  ASSUME "PENDING" \notin StatusRequests, ~SlowAcceptance
  PROVE  Spec => []BookingsExist
<1>1. Init => BookingsExist
  BY DEF Init, BookingsExist
<1>2. Spec => []IndInv
  BY Invariance
<1>3. IndInv /\ BookingsExist /\ [Next]_vars => BookingsExist'
  BY ExistNext
<1> QED BY <1>1, <1>2, <1>3, PTL DEF Spec

\* When all calls for an open booking have returned, its lock is free, so that a
\* failed acceptance never keeps the other drivers out: between taking the lock
\* and deciding the booking an acceptance has no way out but the one that unlocks.
THEOREM OpenIsUnlocked ==
  ASSUME "PENDING" \notin StatusRequests, ~SlowAcceptance, Faults = {}
  PROVE  Spec => []PendingIsUnlocked
<1>1. Init => LockServed
  BY DEF Init, LockServed
<1>2. ASSUME IndInv, BookingsExist, LockServed, Next PROVE LockServed'
  <2>0. /\ pc \in [Handlers -> Steps] /\ bk \in [Handlers -> Bookings \cup {NoBooking}]
        /\ usr \in [Handlers -> Users \cup {NoUser}] /\ ent \in [Handlers -> Rows]
        /\ lock \in [Bookings -> Users \cup {NoUser}]
    BY <1>2 DEF IndInv, TypeOK
  <2>1. ASSUME NEW p \in Handlers, HandlerStep(p) PROVE LockServed'
    BY <1>2, <2>1, ServedHandlerStep
  <2>2. ASSUME NEW p \in Handlers, ~Critical(p), lock' = lock, OnlyMoves(p)
        PROVE  LockServed'
    <3> SUFFICES ASSUME NEW b \in Bookings, lock'[b] # NoUser, ~Resolved(b)'
                 PROVE  \E q \in Handlers : Critical(q)' /\ bk'[q] = b
      BY DEF LockServed
    <3>1. ~Resolved(b)
      BY <1>2, RowStep
    <3>2. PICK q \in Handlers : Critical(q) /\ bk[q] = b
      BY <1>2, <2>2, <3>1 DEF LockServed
    <3>3. Critical(q)' /\ bk'[q] = b
      BY <2>2, <3>2 DEF OnlyMoves, Keeps, Critical
    <3> QED BY <3>3
  <2>3. ASSUME NEW p \in Handlers, Arrive(p) PROVE LockServed'
    <3>1. ASSUME NEW b \in Bookings, NEW D \in SUBSET Users, Create(p, b, D)
          PROVE  LockServed'
      <4>1. CASE UNCHANGED locals
        <5>1. pc' = pc /\ bk' = bk /\ lock' = lock
          BY <3>1, <4>1 DEF Create, locals, redis
        <5> SUFFICES ASSUME NEW c \in Bookings, lock'[c] # NoUser, ~Resolved(c)'
                     PROVE  \E q \in Handlers : Critical(q)' /\ bk'[q] = c
          BY DEF LockServed
        <5>2. ~Resolved(c)
          BY <1>2, RowStep
        <5>3. PICK q \in Handlers : Critical(q) /\ bk[q] = c
          BY <1>2, <5>1, <5>2 DEF LockServed
        <5> QED BY <5>1, <5>3 DEF Critical
      <4>2. CASE Start(p, "setPending", b, NoUser)
        <5>1. ~Critical(p) /\ lock' = lock /\ OnlyMoves(p)
          BY <2>0, <3>1, <4>2 DEF Create, Start, Goto, OnlyMoves, Keeps, Critical, BeforeSave,
             redis, history, locals
        <5> QED BY <2>2, <5>1
      <4> QED BY <3>1, <4>1, <4>2 DEF Create
    <3>2. ASSUME NEW b \in Bookings, NEW u \in Users, Accept(p, b, u) \/ Reject(p, b, u)
          PROVE  ~Critical(p) /\ lock' = lock /\ OnlyMoves(p)
      BY <2>0, <3>2 DEF Accept, Reject, Start, Goto, OnlyMoves, Keeps, Critical, BeforeSave,
         redis, history
    <3>3. ASSUME NEW b \in Bookings, NEW s \in StatusRequests, RequestStatus(p, b, s)
          PROVE  ~Critical(p) /\ lock' = lock /\ OnlyMoves(p)
      BY <2>0, <3>3 DEF RequestStatus, Start, Goto, OnlyMoves, Keeps, Critical, BeforeSave,
         redis, history,
         IndInv, TypeOK
    <3> QED BY <2>2, <2>3, <3>1, <3>2, <3>3 DEF Arrive
  <2>4. ASSUME NEW p \in Handlers, NEW u \in Users, Disconnect(p, u) PROVE LockServed'
    <3>1. ~Critical(p) /\ lock' = lock /\ OnlyMoves(p)
      BY <2>0, <2>4 DEF Disconnect, Start, Goto, OnlyMoves, Keeps, Critical, BeforeSave, redis
    <3> QED BY <2>2, <3>1
  <2>6. ASSUME NEW b \in Bookings, ExpireLock(b) \/ ExpireKeys(b)
        PROVE  LockServed'
    <3>1. row' = row /\ pc' = pc /\ bk' = bk
      BY <2>6 DEF ExpireLock, ExpireKeys, locals
    <3>2. \A c \in Bookings : lock'[c] # NoUser => lock[c] # NoUser
      BY <2>0, <2>6 DEF ExpireLock, ExpireKeys
    <3> QED BY <1>2, <3>1, <3>2 DEF LockServed, Resolved, Critical
  <2> QED BY <1>2, <2>1, <2>3, <2>4, <2>6, FaultFreeStep
<1>3. IndInv /\ BookingsExist /\ LockServed /\ [Next]_vars => LockServed'
  <2>1. ASSUME LockServed, UNCHANGED vars PROVE LockServed'
    BY <2>1 DEF vars, redis, locals, LockServed, Resolved, Critical
  <2> QED BY <1>2, <2>1
<1>4. LockServed => PendingIsUnlocked
  BY DEF LockServed, PendingIsUnlocked, Quiescent, Resolved
<1> QED BY <1>1, <1>3, <1>4, Invariance, BookingsExistAlways, PTL DEF Spec

----------------------------------------------------------------------------
\* What the calls for a decided booking leave in Redis when nothing fails.

\* A handler that is still to send the offers of its booking.
Offering(p) == pc[p] \in {"setPending", "setStatus", "offer"}

\* A driver whose rejection is about to clear his pending_request.
Leaving(b, u) ==
  \E p \in Handlers : bk[p] = b /\ usr[p] = u /\ pc[p] \in {"drop", "clearRequest"}

\* Nothing but the call that offers it knows of the booking yet.
Unknown(b) ==
  ~Resolved(b) /\ job[b] = "none" /\ offered[b] = {} /\ \A u \in Users : request[u] # b

\* While a booking is being offered, nothing else is going on for it.
OffersFirst ==
  /\ \A p \in Handlers : pc[p] = "idle" => bk[p] = NoBooking
  /\ \A p \in Handlers : pc[p] # "uSave"
  /\ \A p \in Handlers : Offering(p) =>
       Unknown(bk[p]) /\ \A q \in Handlers \ {p} : bk[q] # bk[p]
  /\ \A p \in Handlers :
       pc[p] \in {"setStatus", "offer"} => todo[p] \subseteq pending[bk[p]]

\* Whoever has a pending request is in the set of the booking, or leaving it.
RequestsPending ==
  \A b \in Bookings, u \in Users : request[u] = b => u \in pending[b] \/ Leaving(b, u)

\* What a handler that cleans up has still to clear is in front of it.
WalksCover ==
  \A p \in Handlers :
    /\ pc[p] \in {"others", "walk", "removeJob"} => request[usr[p]] # bk[p]
    /\ pc[p] \in {"walk", "tWalk"} =>
         \A u \in Users : request[u] = bk[p] => u \in todo[p] \/ Leaving(bk[p], u)
    /\ pc[p] \in {"removeJob", "tClear"} =>
         \A u \in Users : request[u] = bk[p] => Leaving(bk[p], u)

\* A handler that will make what is left of a decided booking harmless.
Cleaning(p) == pc[p] \in {"setAccepted", "tSetStatus", "tPending", "tWalk", "tClear"}

\* While drivers of a decided booking are listed as pending, handleTimeout is told
\* that it is accepted, or somebody is about to see to it.
LateAnswersSpared ==
  \A b \in Bookings : Resolved(b) /\ pending[b] # {} =>
    alloc[b] = "ACCEPTED" \/ \E p \in Handlers : Cleaning(p) /\ bk[p] = b

\* A handler that will clear the requests of the pending drivers.
Clearing(p) ==
  pc[p] \in {"setAccepted", "clearOwn", "others", "walk", "tSetStatus", "tPending", "tWalk"}

\* No request names a decided booking, unless somebody is about to clear it.
DecisionClears ==
  \A b \in Bookings, u \in Users : Resolved(b) /\ request[u] = b =>
    Leaving(b, u) \/ \E p \in Handlers : Clearing(p) /\ bk[p] = b

\* The allocation status is ACCEPTED only once the row is decided.
AcceptedIsDecided == \A b \in Bookings : alloc[b] = "ACCEPTED" => Resolved(b)

\* A handler on its way to find that nobody is left, and to cancel the booking.
Ending(p) == pc[p] \in {"clearRequest", "count", "tStatus", "tRead", "tSave"}

\* When all drivers have left an open booking, a call is on its way to cancel it.
EmptiedIsAttended ==
  \A b \in Bookings : offered[b] # {} /\ pending[b] = {} /\ ~Resolved(b) =>
    \E p \in Handlers : Ending(p) /\ bk[p] = b

ResidueInv ==
  /\ OffersFirst /\ RequestsPending /\ WalksCover /\ DecisionClears
  /\ LateAnswersSpared /\ AcceptedIsDecided /\ EmptiedIsAttended

\* What still runs for an accepted booking once its acceptance is settled.
Late == {"lock", "read", "drop", "clearRequest", "count", "tStatus"}
LateRejection == {"drop", "clearRequest", "count", "tStatus"}

\* The footprint of a step of handler p, which works for booking c.
Touches(p, c) ==
  /\ bk[p] = c /\ pc[p] # "idle" /\ OnlyMoves(p)
  /\ \A q \in Handlers \ {p} : todo'[q] = todo[q]
  /\ IF pc'[p] = "idle" THEN bk'[p] = NoBooking ELSE bk'[p] = c /\ usr'[p] = usr[p]
  /\ pc'[p] # "uSave"
  /\ \A b \in Bookings \ {c} :
       /\ row'[b] = row[b] /\ pending'[b] = pending[b] /\ alloc'[b] = alloc[b]
       /\ job'[b] = job[b] /\ offered'[b] = offered[b]
  /\ \A u \in Users :
       \/ request'[u] \in {request[u], NoBooking}
       \/ pc[p] = "offer" /\ u \in todo[p] /\ request'[u] = c

\* It offers the booking only to drivers of the pending set.
Offers(p, c) ==
  /\ Offering(p)' =>
       /\ Offering(p) /\ row' = row /\ job' = job /\ offered' = offered /\ request' = request
       /\ pc'[p] \in {"setStatus", "offer"} => todo'[p] \subseteq pending'[c]
  /\ pc[p] = "offer" => pc'[p] = "addJob" /\ pending' = pending

\* It takes a driver out of the pending set only if he leaves, or if the set goes.
Drops(p, c) ==
  /\ pc[p] \in {"drop", "clearRequest"} =>
       pc'[p] = "clearRequest" \/ request'[usr[p]] = NoBooking
  /\ \A u \in pending[c] \ pending'[c] :
       (pc'[p] = "clearRequest" /\ u = usr[p]) \/ pc[p] = "tClear"

\* It walks over all drivers of the pending set.
Walks(p, c) ==
  /\ pc'[p] \in {"others", "walk", "removeJob"} =>
       \/ pc[p] \in {"others", "walk", "removeJob"}
       \/ request'[usr[p]] = NoBooking
  /\ pc'[p] \in {"walk", "tWalk"} =>
       \/ pc[p] = "others" /\ todo'[p] = pending[c] \ {usr[p]}
       \/ pc[p] = "tPending" /\ todo'[p] = pending[c]
       \/ pc[p] = pc'[p] /\ \A u \in todo[p] \ todo'[p] : request'[u] = NoBooking
  /\ pc'[p] \in {"removeJob", "tClear"} =>
       (pc[p] \in {"walk", "tWalk"} /\ todo[p] = {})

\* When it decides the booking it clears the requests, to the end of its walk.
Clears(p, c) ==
  /\ Resolved(c)' => Resolved(c) \/ Clearing(p)'
  /\ Clearing(p) => Clearing(p)' \/ pc'[p] \in {"removeJob", "tClear"}

\* It makes what is left of a decided booking harmless, or leaves it as it was.
Cleans(p, c) ==
  Resolved(c)' /\ pending'[c] # {} =>
    \/ Cleaning(p)' \/ alloc'[c] = "ACCEPTED"
    \/ ~Cleaning(p) /\ Resolved(c) /\ pending[c] # {} /\ alloc'[c] = alloc[c]

\* It takes note that nobody is left, and goes on to cancel the booking.
Ends(p, c) ==
  /\ alloc'[c] = "ACCEPTED" => Resolved(c)
  /\ offered'[c] # {} /\ pending'[c] = {} /\ ~Resolved(c)' =>
       Ending(p)' \/ (~Ending(p) /\ offered[c] # {} /\ pending[c] = {} /\ ~Resolved(c))

\* It is late: the booking is accepted, and it changes nothing of that.
Spares(p, c) ==
  /\ pc[p] \in Late /\ row[c].status = "ACCEPTED"
  /\ pc[p] \in LateRejection => alloc[c] = "ACCEPTED"
  => /\ row' = row /\ alloc' = alloc /\ pending'[c] \subseteq pending[c]
     /\ pc'[p] \in Late \cup {"idle"}
     /\ pc'[p] \in LateRejection => pc[p] \in LateRejection

\* What the proofs about single steps need of the type invariant.
StepTypes(p, c) ==
  /\ pc \in [Handlers -> Steps] /\ bk \in [Handlers -> Bookings \cup {NoBooking}]
  /\ usr \in [Handlers -> Users \cup {NoUser}] /\ ent \in [Handlers -> Rows]
  /\ todo \in [Handlers -> SUBSET Users]
  /\ row \in [Bookings -> Rows] /\ pending \in [Bookings -> SUBSET Users]
  /\ alloc \in [Bookings -> {"none", "PENDING", "ACCEPTED", "TIMEOUT"}]
  /\ request \in [Users -> Bookings \cup {NoBooking}]
  /\ job \in [Bookings -> {"none", "delayed"}]
  /\ offered \in [Bookings -> SUBSET Users]
  /\ NoUser \notin Users /\ NoBooking \notin Bookings
  /\ p \in Handlers /\ c \in Bookings /\ bk[p] = c /\ pc[p] # "uSave"
  /\ pc[p] \in {"drop", "clearRequest", "clearOwn", "others"} => usr[p] \in Users

\* Every step of a call is of this form.
LEMMA StepsTouch ==
  ASSUME NEW p, NEW c, StepTypes(p, c), HandlerStep(p)
  PROVE  Touches(p, c)
<1> USE DEF StepTypes, Touches, OnlyMoves, Keeps, At, Goto, Continue, Finish, history, redis
<1>1. CASE SetPendingDrivers(p) \/ SetStatusPending(p)
  BY <1>1 DEF SetPendingDrivers, SetStatusPending
<1>2. CASE OfferToDrivers(p)
  BY <1>2 DEF OfferToDrivers
<1>3. CASE AddTimeoutJob(p)
  BY <1>3 DEF AddTimeoutJob
<1>4. CASE LockBooking(p)
  BY <1>4 DEF LockBooking
<1>5. CASE ReadBooking(p)
  BY <1>5 DEF ReadBooking
<1>6. CASE ValidateVehicle(p)
  BY <1>6 DEF ValidateVehicle
<1>7. CASE SaveAcceptance(p)
  BY <1>7 DEF SaveAcceptance
<1>8. CASE SetStatusAccepted(p) \/ ClearOwnRequest(p)
  BY <1>8 DEF SetStatusAccepted, ClearOwnRequest
<1>9. CASE GetOtherDrivers(p)
  BY <1>9 DEF GetOtherDrivers
<1>10. CASE CancelOtherDrivers(p)
  BY <1>10 DEF CancelOtherDrivers, ClearNextRequest
<1>11. CASE RemoveTimeoutJob(p)
  BY <1>11 DEF RemoveTimeoutJob
<1>13. CASE UnlockBooking(p)
  BY <1>13 DEF UnlockBooking
<1>14. CASE RemoveDriver(p) \/ ClearRejectedRequest(p)
  BY <1>14 DEF RemoveDriver, ClearRejectedRequest
<1>15. CASE CountRemaining(p)
  BY <1>15 DEF CountRemaining
<1>16. CASE CheckNotAccepted(p)
  BY <1>16 DEF CheckNotAccepted
<1>17. CASE ReadForTimeout(p)
  BY <1>17 DEF ReadForTimeout
<1>18. CASE SaveCancellation(p) \/ SetStatusTimeout(p)
  BY <1>18 DEF SaveCancellation, SetStatusTimeout
<1>19. CASE GetExpiredDrivers(p)
  BY <1>19 DEF GetExpiredDrivers
<1>20. CASE ExpireRequests(p)
  BY <1>20 DEF ExpireRequests, ClearNextRequest
<1>21. CASE ClearTimedOutBooking(p)
  BY <1>21 DEF ClearTimedOutBooking
<1>22. CASE SaveStatus(p)
  BY <1>22 DEF SaveStatus
<1> QED
  BY <1>1, <1>2, <1>3, <1>4, <1>5, <1>6, <1>7, <1>8, <1>9, <1>10, <1>11, <1>13, <1>14,
     <1>15, <1>16, <1>17, <1>18, <1>19, <1>20, <1>21, <1>22
     DEF HandlerStep, AcceptanceStep, TimeoutStep

\* A call offers the booking as Offers says.
LEMMA StepsOffer ==
  ASSUME NEW p, NEW c, StepTypes(p, c), HandlerStep(p),
         pc[p] \in {"setStatus", "offer"} => todo[p] \subseteq pending[c]
  PROVE  Offers(p, c)
<1> USE DEF Offers, Offering, StepTypes, At, Goto, Continue,
            Finish, history, redis
<1>1. CASE SetPendingDrivers(p)
  BY <1>1 DEF SetPendingDrivers
<1>2. CASE SetStatusPending(p)
  BY <1>2 DEF SetStatusPending
<1>3. CASE OfferToDrivers(p) \/ AddTimeoutJob(p)
  BY <1>3 DEF OfferToDrivers, AddTimeoutJob
<1>4. CASE LockBooking(p) \/ ReadBooking(p) \/ ValidateVehicle(p)
  BY <1>4 DEF LockBooking, ReadBooking, ValidateVehicle
<1>5. CASE SaveAcceptance(p) \/ SetStatusAccepted(p) \/ ClearOwnRequest(p)
  BY <1>5 DEF SaveAcceptance, SetStatusAccepted, ClearOwnRequest
<1>6. CASE GetOtherDrivers(p) \/ CancelOtherDrivers(p)
  BY <1>6 DEF GetOtherDrivers, CancelOtherDrivers, ClearNextRequest
<1>7. CASE RemoveTimeoutJob(p) \/ UnlockBooking(p)
  BY <1>7 DEF RemoveTimeoutJob, UnlockBooking
<1>8. CASE RemoveDriver(p) \/ ClearRejectedRequest(p) \/ CountRemaining(p)
  BY <1>8 DEF RemoveDriver, ClearRejectedRequest, CountRemaining
<1>9. CASE CheckNotAccepted(p) \/ ReadForTimeout(p) \/ SaveCancellation(p)
  BY <1>9 DEF CheckNotAccepted, ReadForTimeout, SaveCancellation
<1>10. CASE SetStatusTimeout(p) \/ GetExpiredDrivers(p) \/ ExpireRequests(p)
  BY <1>10 DEF SetStatusTimeout, GetExpiredDrivers, ExpireRequests, ClearNextRequest
<1>11. CASE ClearTimedOutBooking(p) \/ SaveStatus(p)
  BY <1>11 DEF ClearTimedOutBooking, SaveStatus
<1> QED
  BY <1>1, <1>2, <1>3, <1>4, <1>5, <1>6, <1>7, <1>8, <1>9, <1>10, <1>11
     DEF HandlerStep, AcceptanceStep, TimeoutStep

\* A call takes drivers out of the pending set as Drops says.
LEMMA StepsDrop ==
  ASSUME NEW p, NEW c, StepTypes(p, c), HandlerStep(p)
  PROVE  Drops(p, c)
<1> USE DEF Drops, StepTypes, At, Goto, Continue,
            Finish, history, redis
<1>1. CASE SetPendingDrivers(p)
  BY <1>1 DEF SetPendingDrivers
<1>2. CASE SetStatusPending(p)
  BY <1>2 DEF SetStatusPending
<1>3. CASE OfferToDrivers(p) \/ AddTimeoutJob(p)
  BY <1>3 DEF OfferToDrivers, AddTimeoutJob
<1>4. CASE LockBooking(p) \/ ReadBooking(p) \/ ValidateVehicle(p)
  BY <1>4 DEF LockBooking, ReadBooking, ValidateVehicle
<1>5. CASE SaveAcceptance(p) \/ SetStatusAccepted(p) \/ ClearOwnRequest(p)
  BY <1>5 DEF SaveAcceptance, SetStatusAccepted, ClearOwnRequest
<1>6. CASE GetOtherDrivers(p) \/ CancelOtherDrivers(p)
  BY <1>6 DEF GetOtherDrivers, CancelOtherDrivers, ClearNextRequest
<1>7. CASE RemoveTimeoutJob(p) \/ UnlockBooking(p)
  BY <1>7 DEF RemoveTimeoutJob, UnlockBooking
<1>8. CASE RemoveDriver(p) \/ ClearRejectedRequest(p) \/ CountRemaining(p)
  BY <1>8 DEF RemoveDriver, ClearRejectedRequest, CountRemaining
<1>9. CASE CheckNotAccepted(p) \/ ReadForTimeout(p) \/ SaveCancellation(p)
  BY <1>9 DEF CheckNotAccepted, ReadForTimeout, SaveCancellation
<1>10. CASE SetStatusTimeout(p) \/ GetExpiredDrivers(p) \/ ExpireRequests(p)
  BY <1>10 DEF SetStatusTimeout, GetExpiredDrivers, ExpireRequests, ClearNextRequest
<1>11. CASE ClearTimedOutBooking(p) \/ SaveStatus(p)
  BY <1>11 DEF ClearTimedOutBooking, SaveStatus
<1> QED
  BY <1>1, <1>2, <1>3, <1>4, <1>5, <1>6, <1>7, <1>8, <1>9, <1>10, <1>11
     DEF HandlerStep, AcceptanceStep, TimeoutStep

\* A call walks over the pending drivers as Walks says.
LEMMA StepsWalk ==
  ASSUME NEW p, NEW c, StepTypes(p, c), HandlerStep(p)
  PROVE  Walks(p, c)
<1> USE DEF Walks, StepTypes, At, Goto, Continue,
            Finish, history, redis
<1>1. CASE SetPendingDrivers(p)
  BY <1>1 DEF SetPendingDrivers
<1>2. CASE SetStatusPending(p)
  BY <1>2 DEF SetStatusPending
<1>3. CASE OfferToDrivers(p) \/ AddTimeoutJob(p)
  BY <1>3 DEF OfferToDrivers, AddTimeoutJob
<1>4. CASE LockBooking(p) \/ ReadBooking(p) \/ ValidateVehicle(p)
  BY <1>4 DEF LockBooking, ReadBooking, ValidateVehicle
<1>5. CASE SaveAcceptance(p) \/ SetStatusAccepted(p) \/ ClearOwnRequest(p)
  BY <1>5 DEF SaveAcceptance, SetStatusAccepted, ClearOwnRequest
<1>6. CASE GetOtherDrivers(p) \/ CancelOtherDrivers(p)
  BY <1>6 DEF GetOtherDrivers, CancelOtherDrivers, ClearNextRequest
<1>7. CASE RemoveTimeoutJob(p) \/ UnlockBooking(p)
  BY <1>7 DEF RemoveTimeoutJob, UnlockBooking
<1>8. CASE RemoveDriver(p) \/ ClearRejectedRequest(p) \/ CountRemaining(p)
  BY <1>8 DEF RemoveDriver, ClearRejectedRequest, CountRemaining
<1>9. CASE CheckNotAccepted(p) \/ ReadForTimeout(p) \/ SaveCancellation(p)
  BY <1>9 DEF CheckNotAccepted, ReadForTimeout, SaveCancellation
<1>10. CASE SetStatusTimeout(p) \/ GetExpiredDrivers(p) \/ ExpireRequests(p)
  BY <1>10 DEF SetStatusTimeout, GetExpiredDrivers, ExpireRequests, ClearNextRequest
<1>11. CASE ClearTimedOutBooking(p) \/ SaveStatus(p)
  BY <1>11 DEF ClearTimedOutBooking, SaveStatus
<1> QED
  BY <1>1, <1>2, <1>3, <1>4, <1>5, <1>6, <1>7, <1>8, <1>9, <1>10, <1>11
     DEF HandlerStep, AcceptanceStep, TimeoutStep

\* A call clears the requests of the drivers as Clears says.
LEMMA StepsClear ==
  ASSUME NEW p, NEW c, StepTypes(p, c), HandlerStep(p)
  PROVE  Clears(p, c)
<1> USE DEF Clears, Clearing, Resolved, StepTypes, At, Goto, Continue,
            Finish, history, redis
<1>1. CASE SetPendingDrivers(p)
  BY <1>1 DEF SetPendingDrivers
<1>2. CASE SetStatusPending(p)
  BY <1>2 DEF SetStatusPending
<1>3. CASE OfferToDrivers(p) \/ AddTimeoutJob(p)
  BY <1>3 DEF OfferToDrivers, AddTimeoutJob
<1>4. CASE LockBooking(p) \/ ReadBooking(p)
  BY <1>4 DEF LockBooking, ReadBooking
<1>5. CASE ValidateVehicle(p)
  BY <1>5 DEF ValidateVehicle
<1>6. CASE SaveAcceptance(p)
  BY <1>6 DEF SaveAcceptance
<1>7. CASE SetStatusAccepted(p) \/ ClearOwnRequest(p)
  BY <1>7 DEF SetStatusAccepted, ClearOwnRequest
<1>8. CASE GetOtherDrivers(p) \/ CancelOtherDrivers(p)
  BY <1>8 DEF GetOtherDrivers, CancelOtherDrivers, ClearNextRequest
<1>9. CASE RemoveTimeoutJob(p) \/ UnlockBooking(p)
  BY <1>9 DEF RemoveTimeoutJob, UnlockBooking
<1>10. CASE RemoveDriver(p)
  BY <1>10 DEF RemoveDriver
<1>11. CASE ClearRejectedRequest(p) \/ CountRemaining(p)
  BY <1>11 DEF ClearRejectedRequest, CountRemaining
<1>12. CASE CheckNotAccepted(p) \/ ReadForTimeout(p)
  BY <1>12 DEF CheckNotAccepted, ReadForTimeout
<1>13. CASE SaveCancellation(p)
  BY <1>13 DEF SaveCancellation
<1>14. CASE SetStatusTimeout(p) \/ GetExpiredDrivers(p)
  BY <1>14 DEF SetStatusTimeout, GetExpiredDrivers
<1>15. CASE ExpireRequests(p)
  BY <1>15 DEF ExpireRequests, ClearNextRequest
<1>16. CASE ClearTimedOutBooking(p)
  BY <1>16 DEF ClearTimedOutBooking
<1>17. CASE SaveStatus(p)
  BY <1>17 DEF SaveStatus
<1> QED
  BY <1>1, <1>2, <1>3, <1>4, <1>5, <1>6, <1>7, <1>8, <1>9, <1>10, <1>11, <1>12, <1>13,
     <1>14, <1>15, <1>16, <1>17
     DEF HandlerStep, AcceptanceStep, TimeoutStep

\* A call cleans up as Cleans says.
LEMMA StepsClean ==
  ASSUME NEW p, NEW c, StepTypes(p, c), HandlerStep(p),
         Offering(p) => ~Resolved(c)
  PROVE  Cleans(p, c)
<1> USE DEF Cleans, Cleaning, Offering, Resolved, StepTypes, At, Goto, Continue,
            Finish, history, redis
<1>1. CASE SetPendingDrivers(p)
  BY <1>1 DEF SetPendingDrivers
<1>2. CASE SetStatusPending(p)
  BY <1>2 DEF SetStatusPending
<1>3. CASE OfferToDrivers(p) \/ AddTimeoutJob(p)
  BY <1>3 DEF OfferToDrivers, AddTimeoutJob
<1>4. CASE LockBooking(p) \/ ReadBooking(p)
  BY <1>4 DEF LockBooking, ReadBooking
<1>5. CASE ValidateVehicle(p)
  BY <1>5 DEF ValidateVehicle
<1>6. CASE SaveAcceptance(p)
  BY <1>6 DEF SaveAcceptance
<1>7. CASE SetStatusAccepted(p) \/ ClearOwnRequest(p)
  BY <1>7 DEF SetStatusAccepted, ClearOwnRequest
<1>8. CASE GetOtherDrivers(p) \/ CancelOtherDrivers(p)
  BY <1>8 DEF GetOtherDrivers, CancelOtherDrivers, ClearNextRequest
<1>9. CASE RemoveTimeoutJob(p) \/ UnlockBooking(p)
  BY <1>9 DEF RemoveTimeoutJob, UnlockBooking
<1>10. CASE RemoveDriver(p)
  BY <1>10 DEF RemoveDriver
<1>11. CASE ClearRejectedRequest(p) \/ CountRemaining(p)
  BY <1>11 DEF ClearRejectedRequest, CountRemaining
<1>12. CASE CheckNotAccepted(p) \/ ReadForTimeout(p)
  BY <1>12 DEF CheckNotAccepted, ReadForTimeout
<1>13. CASE SaveCancellation(p)
  BY <1>13 DEF SaveCancellation
<1>14. CASE SetStatusTimeout(p) \/ GetExpiredDrivers(p)
  BY <1>14 DEF SetStatusTimeout, GetExpiredDrivers
<1>15. CASE ExpireRequests(p)
  BY <1>15 DEF ExpireRequests, ClearNextRequest
<1>16. CASE ClearTimedOutBooking(p)
  BY <1>16 DEF ClearTimedOutBooking
<1>17. CASE SaveStatus(p)
  BY <1>17 DEF SaveStatus
<1> QED
  BY <1>1, <1>2, <1>3, <1>4, <1>5, <1>6, <1>7, <1>8, <1>9, <1>10, <1>11, <1>12, <1>13,
     <1>14, <1>15, <1>16, <1>17
     DEF HandlerStep, AcceptanceStep, TimeoutStep

\* A call attends to a booking without drivers as Ends says.
LEMMA StepsEnd ==
  ASSUME NEW p, NEW c, StepTypes(p, c), HandlerStep(p),
         Saved(p) => Resolved(c), alloc[c] = "ACCEPTED" => Resolved(c),
         pc[p] = "offer" => todo[p] \subseteq pending[c],
         pc[p] = "save" \/ Rewriting(p) => ent[p].status \notin {"NONE", "PENDING"}
  PROVE  Ends(p, c)
<1> USE DEF Ends, Ending, Saved, AfterSave, Rewriting, Resolved, StepTypes, At, Goto, Continue,
            Finish, history, redis
<1>1. CASE SetPendingDrivers(p)
  BY <1>1 DEF SetPendingDrivers
<1>2. CASE SetStatusPending(p)
  BY <1>2 DEF SetStatusPending
<1>3. CASE OfferToDrivers(p) \/ AddTimeoutJob(p)
  BY <1>3 DEF OfferToDrivers, AddTimeoutJob
<1>4. CASE LockBooking(p) \/ ReadBooking(p)
  BY <1>4 DEF LockBooking, ReadBooking
<1>5. CASE ValidateVehicle(p)
  BY <1>5 DEF ValidateVehicle
<1>6. CASE SaveAcceptance(p)
  BY <1>6 DEF SaveAcceptance
<1>7. CASE SetStatusAccepted(p) \/ ClearOwnRequest(p)
  BY <1>7 DEF SetStatusAccepted, ClearOwnRequest
<1>8. CASE GetOtherDrivers(p) \/ CancelOtherDrivers(p)
  BY <1>8 DEF GetOtherDrivers, CancelOtherDrivers, ClearNextRequest
<1>9. CASE RemoveTimeoutJob(p) \/ UnlockBooking(p)
  BY <1>9 DEF RemoveTimeoutJob, UnlockBooking
<1>10. CASE RemoveDriver(p)
  BY <1>10 DEF RemoveDriver
<1>11. CASE ClearRejectedRequest(p) \/ CountRemaining(p)
  BY <1>11 DEF ClearRejectedRequest, CountRemaining
<1>12. CASE CheckNotAccepted(p) \/ ReadForTimeout(p)
  BY <1>12 DEF CheckNotAccepted, ReadForTimeout
<1>13. CASE SaveCancellation(p)
  BY <1>13 DEF SaveCancellation
<1>14. CASE SetStatusTimeout(p) \/ GetExpiredDrivers(p)
  BY <1>14 DEF SetStatusTimeout, GetExpiredDrivers
<1>15. CASE ExpireRequests(p)
  BY <1>15 DEF ExpireRequests, ClearNextRequest
<1>16. CASE ClearTimedOutBooking(p)
  BY <1>16 DEF ClearTimedOutBooking
<1>17. CASE SaveStatus(p)
  BY <1>17 DEF SaveStatus
<1> QED
  BY <1>1, <1>2, <1>3, <1>4, <1>5, <1>6, <1>7, <1>8, <1>9, <1>10, <1>11, <1>12, <1>13,
     <1>14, <1>15, <1>16, <1>17
     DEF HandlerStep, AcceptanceStep, TimeoutStep

\* A late call spares the accepted booking.
LEMMA StepsSpare ==
  ASSUME NEW p, NEW c, StepTypes(p, c), HandlerStep(p)
  PROVE  Spares(p, c)
<1> USE DEF Spares, Late, LateRejection, StepTypes, At, Goto, Continue, Finish, history, redis
<1>1. CASE SetPendingDrivers(p)
  BY <1>1 DEF SetPendingDrivers
<1>2. CASE SetStatusPending(p)
  BY <1>2 DEF SetStatusPending
<1>3. CASE OfferToDrivers(p) \/ AddTimeoutJob(p)
  BY <1>3 DEF OfferToDrivers, AddTimeoutJob
<1>4. CASE LockBooking(p) \/ ReadBooking(p)
  BY <1>4 DEF LockBooking, ReadBooking
<1>5. CASE ValidateVehicle(p)
  BY <1>5 DEF ValidateVehicle
<1>6. CASE SaveAcceptance(p)
  BY <1>6 DEF SaveAcceptance
<1>7. CASE SetStatusAccepted(p) \/ ClearOwnRequest(p)
  BY <1>7 DEF SetStatusAccepted, ClearOwnRequest
<1>8. CASE GetOtherDrivers(p) \/ CancelOtherDrivers(p)
  BY <1>8 DEF GetOtherDrivers, CancelOtherDrivers, ClearNextRequest
<1>9. CASE RemoveTimeoutJob(p) \/ UnlockBooking(p)
  BY <1>9 DEF RemoveTimeoutJob, UnlockBooking
<1>10. CASE RemoveDriver(p)
  BY <1>10 DEF RemoveDriver
<1>11. CASE ClearRejectedRequest(p) \/ CountRemaining(p)
  BY <1>11 DEF ClearRejectedRequest, CountRemaining
<1>12. CASE CheckNotAccepted(p) \/ ReadForTimeout(p)
  BY <1>12 DEF CheckNotAccepted, ReadForTimeout
<1>13. CASE SaveCancellation(p)
  BY <1>13 DEF SaveCancellation
<1>14. CASE SetStatusTimeout(p) \/ GetExpiredDrivers(p)
  BY <1>14 DEF SetStatusTimeout, GetExpiredDrivers
<1>15. CASE ExpireRequests(p)
  BY <1>15 DEF ExpireRequests, ClearNextRequest
<1>16. CASE ClearTimedOutBooking(p)
  BY <1>16 DEF ClearTimedOutBooking
<1>17. CASE SaveStatus(p)
  BY <1>17 DEF SaveStatus
<1> QED
  BY <1>1, <1>2, <1>3, <1>4, <1>5, <1>6, <1>7, <1>8, <1>9, <1>10, <1>11, <1>12, <1>13,
     <1>14, <1>15, <1>16, <1>17
     DEF HandlerStep, AcceptanceStep, TimeoutStep

\* A call for booking c begins: one that creates and offers it, or one that comes
\* of its having been offered.
Begins(p, c) ==
  /\ pc[p] = "idle" /\ OnlyMoves(p) /\ bk'[p] = c
  /\ \A q \in Handlers \ {p} : todo'[q] = todo[q]
  /\ request' = request /\ pending' = pending /\ alloc' = alloc /\ offered' = offered
  /\ \A b \in Bookings \ {c} : row'[b] = row[b] /\ job'[b] = job[b]
  /\ \/ pc'[p] = "setPending" /\ ~Placed(c) /\ ~Resolved(c)' /\ job' = job
     \/ /\ pc'[p] \in {"lock", "drop"} /\ ~Unknown(c) /\ row' = row
        /\ pending[c] # {} \/ \E u \in Users : request[u] = c

\* No call moves: a key expires, or a booking is created that nobody can drive.
Stays ==
  /\ UNCHANGED <<pc, bk, usr, todo, pending, alloc, job, offered>>
  /\ \A b \in Bookings : row[b].status # "NONE" => row'[b] = row[b]
  /\ \A b \in Bookings : Resolved(b)' <=> Resolved(b)
  /\ \A u \in Users : request'[u] \in {request[u], NoBooking}

Works(p, c) ==
  /\ Touches(p, c) /\ Offers(p, c) /\ Drops(p, c) /\ Walks(p, c)
  /\ Clears(p, c) /\ Cleans(p, c) /\ Ends(p, c) /\ Spares(p, c)

\* The types of what the residue is about.
ResidueTypes ==
  /\ \A p \in Handlers : pc[p] # "idle" => bk[p] \in Bookings
  /\ \A p \in Handlers : pc[p] \in AfterSave => usr[p] \in Users
  /\ pending \in [Bookings -> SUBSET Users]
  /\ request \in [Users -> Bookings \cup {NoBooking}]
  /\ todo \in [Handlers -> SUBSET Users]
  /\ NoBooking \notin Bookings

\* Where nothing fails, every step is one of the three.
LEMMA StepKinds ==
  ASSUME IndInv, BookingsExist, OffersFirst, AcceptedIsDecided, Next,
         StatusRequests = {}, Faults = {}, Expiring \subseteq {"request"}
  PROVE  Stays \/ \E p \in Handlers, c \in Bookings : Begins(p, c) \/ Works(p, c)
<1>0. /\ pc \in [Handlers -> Steps] /\ bk \in [Handlers -> Bookings \cup {NoBooking}]
      /\ usr \in [Handlers -> Users \cup {NoUser}] /\ ent \in [Handlers -> Rows]
      /\ todo \in [Handlers -> SUBSET Users] /\ row \in [Bookings -> Rows]
      /\ alloc \in [Bookings -> {"none", "PENDING", "ACCEPTED", "TIMEOUT"}]
      /\ request \in [Users -> Bookings \cup {NoBooking}]
      /\ job \in [Bookings -> {"none", "delayed"}]
  BY DEF IndInv, TypeOK
<1>1. ASSUME NEW p \in Handlers, HandlerStep(p)
      PROVE  \E c \in Bookings : Works(p, c)
  <2>1. PICK c \in Bookings : c = bk[p]
    <3>1. pc[p] # "idle"
      BY <1>1 DEF HandlerStep, AcceptanceStep, TimeoutStep, At, SetPendingDrivers,
         SetStatusPending, OfferToDrivers, AddTimeoutJob, LockBooking, ReadBooking,
         ValidateVehicle, SaveAcceptance, SetStatusAccepted, ClearOwnRequest,
         GetOtherDrivers, CancelOtherDrivers, RemoveTimeoutJob,
         UnlockBooking, RemoveDriver, ClearRejectedRequest, CountRemaining,
         CheckNotAccepted, ReadForTimeout, SaveCancellation, SetStatusTimeout,
         GetExpiredDrivers, ExpireRequests, ClearTimedOutBooking, SaveStatus
    <3> QED BY <3>1 DEF IndInv, TypeOK
  <2>2. StepTypes(p, c)
    BY <2>1, SentinelAssumption DEF StepTypes, IndInv, TypeOK, OffersFirst, AfterSave, RejectSteps
  <2>3. pc[p] \in {"setStatus", "offer"} => todo[p] \subseteq pending[c]
    BY <2>1 DEF OffersFirst
  <2>4. Offering(p) => ~Resolved(c)
    BY <2>1 DEF OffersFirst, Unknown
  <2>5. Touches(p, c) /\ Offers(p, c)
    BY <1>1, <2>2, <2>3, StepsTouch, StepsOffer
  <2>6. Drops(p, c) /\ Walks(p, c) /\ Clears(p, c) /\ Cleans(p, c)
    BY <1>1, <2>2, <2>4, StepsDrop, StepsWalk, StepsClear, StepsClean
  <2>7. Saved(p) => Resolved(c)
    BY <2>1 DEF IndInv, ClaimInv, SaveDecides
  <2>8. pc[p] = "save" \/ Rewriting(p) => ent[p].status \notin {"NONE", "PENDING"}
    <3>1. pc[p] = "save" => ent[p].status = "ACCEPTED"
      <4>1. pc[p] = "save" => ent[p] = [status |-> "ACCEPTED", driver |-> usr[p]]
        BY DEF IndInv, ClaimInv, EntitiesDecide
      <4> QED BY <4>1
    <3>2. Rewriting(p) => ent[p].status \notin {"NONE", "PENDING"}
      BY DEF IndInv, ClaimInv, EntitiesDecide
    <3> QED BY <3>1, <3>2
  <2>9. Ends(p, c)
    BY <1>1, <2>2, <2>3, <2>7, <2>8, StepsEnd DEF AcceptedIsDecided
  <2>10. Spares(p, c)
    BY <1>1, <2>2, StepsSpare
  <2> QED BY <2>5, <2>6, <2>9, <2>10 DEF Works
<1>2. ASSUME NEW p \in Handlers, NEW c \in Bookings, NEW D \in SUBSET Users, Create(p, c, D)
      PROVE  Stays \/ Begins(p, c)
  <2>1. ~Placed(c) /\ ~Resolved(c) /\ ~Resolved(c)'
    BY <1>0, <1>2 DEF Create, Placed, Resolved
  <2>2. \A b \in Bookings \ {c} : row'[b] = row[b]
    BY <1>0, <1>2 DEF Create
  <2>3. CASE UNCHANGED locals
    <3>1. \A b \in Bookings : row[b].status # "NONE" => row'[b] = row[b]
      BY <1>2, <2>2 DEF Create
    <3> QED BY <1>2, <2>1, <2>2, <2>3, <3>1 DEF Create, Stays, Resolved, locals, redis, history
  <2>4. CASE D # {} /\ Start(p, "setPending", c, NoUser)
    BY <1>0, <1>2, <2>1, <2>2, <2>4 DEF Create, Begins, Start, Goto, OnlyMoves, Keeps,
       redis, history, locals
  <2> QED BY <1>2, <2>3, <2>4 DEF Create
<1>3. ASSUME NEW p \in Handlers, NEW c \in Bookings, NEW u \in Users,
             Accept(p, c, u) \/ Reject(p, c, u)
      PROVE  Begins(p, c)
  <2>1. ~Unknown(c)
    BY <1>3 DEF Accept, Reject, Unknown
  <2> QED BY <1>0, <1>3, <2>1 DEF Accept, Reject, Begins, Start, Goto, OnlyMoves, Keeps,
       redis, history
<1>4. ASSUME NEW p \in Handlers, NEW u \in Users, Disconnect(p, u)
      PROVE  \E c \in Bookings : Begins(p, c)
  <2>1. PICK c \in Bookings : c = request[u]
    BY <1>0, <1>4 DEF Disconnect
  <2>2. ~Unknown(c)
    BY <2>1 DEF Unknown
  <2>3. Begins(p, c)
    BY <1>0, <1>4, <2>1, <2>2 DEF Disconnect, Begins, Start, Goto, OnlyMoves, Keeps,
       redis, history
  <2> QED BY <2>3
<1>6. ASSUME NEW b \in Bookings, ExpireLock(b) \/ ExpireKeys(b)
      PROVE  Stays
  BY <1>0, <1>6 DEF ExpireLock, ExpireKeys, Stays, Resolved, locals, history
<1> QED BY <1>1, <1>2, <1>3, <1>4, <1>6, FaultFreeStep DEF Arrive

\* What a step of a call does not touch stays, and a new request is an offer.
LEMMA RequestFrom ==
  ASSUME ResidueTypes, NEW p, NEW c, Touches(p, c),
         NEW b \in Bookings, NEW u \in Users, request'[u] = b
  PROVE  request[u] = b \/ (pc[p] = "offer" /\ u \in todo[p] /\ b = c)
BY DEF ResidueTypes, Touches

\* A driver who leaves a booking leaves it until his request is cleared.
LEMMA LeavingStays ==
  ASSUME ResidueTypes, NEW p, NEW c, Touches(p, c), Drops(p, c),
         NEW b \in Bookings, NEW u \in Users, request'[u] = b, Leaving(b, u)
  PROVE  Leaving(b, u)'
<1>1. PICK q \in Handlers : bk[q] = b /\ usr[q] = u /\ pc[q] \in {"drop", "clearRequest"}
  BY DEF Leaving
<1>2. CASE q = p
  <2>1. pc'[q] = "clearRequest"
    BY <1>1, <1>2 DEF Drops, ResidueTypes
  <2> QED BY <1>1, <1>2, <2>1 DEF Touches, Leaving
<1>3. CASE q # p
  BY <1>1, <1>3 DEF Touches, OnlyMoves, Keeps, Leaving
<1> QED BY <1>2, <1>3

\* While a booking is offered nothing else happens to it.
LEMMA OffersKept ==
  ASSUME ResidueTypes, OffersFirst, NEW p \in Handlers, NEW c \in Bookings,
         Touches(p, c), Offers(p, c)
  PROVE  OffersFirst'
<1>1. ASSUME NEW q \in Handlers, pc'[q] = "idle" PROVE bk'[q] = NoBooking
  BY <1>1 DEF OffersFirst, Touches, OnlyMoves, Keeps
<1>2. ASSUME NEW q \in Handlers PROVE pc'[q] # "uSave"
  BY DEF OffersFirst, Touches, OnlyMoves
<1>3. ASSUME NEW q \in Handlers, Offering(q)'
      PROVE  Unknown(bk[q])' /\ \A r \in Handlers \ {q} : bk'[r] # bk'[q]
  <2>1. CASE q = p
    <3>1. Offering(p) /\ bk'[p] = c /\ bk[p] = c
      BY <1>3, <2>1 DEF Offers, Touches, Offering
    <3>2. Unknown(c) /\ \A r \in Handlers \ {p} : bk[r] # c
      BY <3>1 DEF OffersFirst
    <3>3. row' = row /\ job' = job /\ offered' = offered /\ request' = request
      BY <1>3, <2>1 DEF Offers
    <3> QED BY <2>1, <3>1, <3>2, <3>3 DEF Unknown, Resolved, Touches, OnlyMoves, Keeps
  <2>2. CASE q # p
    <3>1. Offering(q) /\ bk'[q] = bk[q] /\ bk[q] \in Bookings
      BY <1>3, <2>2 DEF Touches, OnlyMoves, Keeps, Offering, ResidueTypes
    <3>2. Unknown(bk[q]) /\ \A r \in Handlers \ {q} : bk[r] # bk[q]
      BY <3>1 DEF OffersFirst
    <3>3. bk[q] # c /\ bk'[p] \in {c, NoBooking}
      BY <2>2, <3>2 DEF Touches
    <3>4. \A r \in Handlers \ {q} : bk'[r] # bk'[q]
      BY <3>1, <3>2, <3>3 DEF Touches, OnlyMoves, Keeps, ResidueTypes
    <3>5. ASSUME NEW u \in Users PROVE request'[u] # bk[q]
      BY <3>1, <3>2, <3>3 DEF Touches, Unknown, ResidueTypes
    <3> QED BY <3>1, <3>2, <3>3, <3>4, <3>5 DEF Unknown, Resolved, Touches
  <2> QED BY <2>1, <2>2
<1>4. ASSUME NEW q \in Handlers, pc'[q] \in {"setStatus", "offer"}
      PROVE  todo'[q] \subseteq pending'[bk'[q]]
  <2>1. CASE q = p
    BY <1>4, <2>1 DEF Offers, Offering, Touches
  <2>2. CASE q # p
    <3>1. Offering(q) /\ bk'[q] = bk[q] /\ bk[q] \in Bookings /\ pc'[q] = pc[q]
      BY <1>4, <2>2 DEF Touches, OnlyMoves, Keeps, Offering, ResidueTypes
    <3>2. bk[q] # c
      BY <2>2, <3>1 DEF OffersFirst, Touches
    <3>3. pending'[bk[q]] = pending[bk[q]] /\ todo'[q] = todo[q]
      BY <2>2, <3>1, <3>2 DEF Touches
    <3> QED BY <1>4, <3>1, <3>3 DEF OffersFirst
  <2> QED BY <2>1, <2>2
<1> QED BY <1>1, <1>2, <1>3, <1>4 DEF OffersFirst

\* A driver with a pending request stays in the set, or leaves.
LEMMA RequestsKept ==
  ASSUME ResidueTypes, OffersFirst, RequestsPending, WalksCover,
         NEW p \in Handlers, NEW c \in Bookings, Works(p, c)
  PROVE  RequestsPending'
<1> USE DEF Works
<1> SUFFICES ASSUME NEW b \in Bookings, NEW u \in Users, request'[u] = b,
                    ~Leaving(b, u)'
             PROVE  u \in pending'[b]
  BY DEF RequestsPending
<1>1. CASE request[u] = b
  <2>1. ~Leaving(b, u)
    BY LeavingStays
  <2>2. u \in pending[b]
    BY <1>1, <2>1 DEF RequestsPending
  <2>3. CASE b # c
    BY <2>2, <2>3 DEF Touches
  <2>4. CASE b = c /\ u \notin pending'[c]
    <3>1. CASE pc'[p] = "clearRequest" /\ u = usr[p]
      <4>1. bk'[p] = b /\ usr'[p] = u
        BY <2>4, <3>1 DEF Touches
      <4> QED BY <3>1, <4>1 DEF Leaving
    <3>2. CASE pc[p] = "tClear"
      <4>1. bk[p] = b
        BY <2>4 DEF Touches
      <4> QED BY <1>1, <2>1, <3>2, <4>1 DEF WalksCover
    <3> QED BY <2>2, <2>4, <3>1, <3>2 DEF Drops
  <2> QED BY <2>2, <2>3, <2>4
<1>2. CASE pc[p] = "offer" /\ u \in todo[p] /\ b = c
  <2>1. u \in pending[c]
    BY <1>2 DEF OffersFirst, Touches
  <2>2. u \in pending'[c]
    BY <1>2, <2>1 DEF Offers
  <2> QED BY <1>2, <2>2
<1> QED BY <1>1, <1>2, RequestFrom

\* What is left to clear stays in front of those who clear it.
LEMMA WalksKept ==
  ASSUME ResidueTypes, OffersFirst, RequestsPending, WalksCover,
         NEW p \in Handlers, NEW c \in Bookings, Works(p, c)
  PROVE  WalksCover'
<1> USE DEF Works
<1> DEFINE Cleanup == {"others", "walk", "removeJob", "tWalk", "tClear"}
<1>0. ASSUME NEW q \in Handlers, pc'[q] \in Cleanup
      PROVE  bk[q] \in Bookings /\ bk'[q] = bk[q] /\ usr'[q] = usr[q]
  <2>1. CASE q = p
    BY <1>0, <2>1 DEF Touches
  <2>2. CASE q # p
    BY <1>0, <2>2 DEF Touches, OnlyMoves, Keeps, ResidueTypes
  <2> QED BY <2>1, <2>2
<1> SUFFICES ASSUME NEW q \in Handlers, NEW b \in Bookings, b = bk[q], bk'[q] = b,
                    usr'[q] = usr[q], pc'[q] \in Cleanup
             PROVE  /\ pc'[q] \in {"others", "walk", "removeJob"}
                         => request'[usr'[q]] # b
                    /\ pc'[q] \in {"walk", "tWalk"} =>
                         \A u \in Users : request'[u] = b => u \in todo'[q] \/ Leaving(b, u)'
                    /\ pc'[q] \in {"removeJob", "tClear"} =>
                         \A u \in Users : request'[u] = b => Leaving(b, u)'
  BY <1>0 DEF WalksCover, Leaving
<1>1. b = bk[q] /\ usr'[q] = usr[q]
  OBVIOUS
\* nobody is offered the booking any more
<1>2. ASSUME NEW u \in Users, request'[u] = b PROVE request[u] = b
  <2>1. CASE pc[p] = "offer" /\ b = c
    <3>0. bk[p] = bk[q] /\ Offering(p)
      BY <1>1, <2>1 DEF Offering, Touches
    <3>1. q = p
      BY <3>0 DEF OffersFirst
    <3>2. FALSE
      BY <2>1, <3>1 DEF Offers
    <3> QED BY <3>2
  <2> QED BY <1>2, <2>1, RequestFrom
<1>3. ASSUME NEW u \in Users, request'[u] = b, Leaving(b, u) PROVE Leaving(b, u)'
  BY <1>3, LeavingStays
<1>4. ASSUME q # p PROVE pc'[q] = pc[q] /\ todo'[q] = todo[q]
  BY <1>4 DEF Touches, OnlyMoves
<1>5. ASSUME pc'[q] \in {"others", "walk", "removeJob"}
      PROVE  request'[usr'[q]] # b
  <2>2. CASE pc[q] \in {"others", "walk", "removeJob"}
    <3>1. usr[q] \in Users
      BY <2>2 DEF ResidueTypes, AfterSave
    <3> QED BY <1>1, <1>2, <2>2, <3>1 DEF WalksCover
  <2>1. CASE pc[q] \notin {"others", "walk", "removeJob"}
    <3>1. q = p /\ request'[usr[q]] = NoBooking
      BY <1>4, <1>5, <2>1 DEF Walks
    <3> QED BY <1>1, <3>1 DEF ResidueTypes
  <2> QED BY <2>1, <2>2
<1>6. ASSUME pc'[q] \in {"walk", "tWalk"}, NEW u \in Users, request'[u] = b, ~Leaving(b, u)'
      PROVE  u \in todo'[q]
  <2>0. request[u] = b /\ ~Leaving(b, u)
    BY <1>2, <1>3, <1>6
  <2>1. u \in pending[b]
    BY <2>0 DEF RequestsPending
  <2>2. CASE q # p
    BY <1>1, <1>4, <1>6, <2>0, <2>2 DEF WalksCover
  <2>3. CASE q = p /\ pc[p] = "others" /\ todo'[p] = pending[c] \ {usr[p]}
    <3>1. request[usr[p]] # b /\ c = b
      BY <1>1, <2>3 DEF WalksCover, Touches
    <3> QED BY <2>0, <2>1, <2>3, <3>1
  <2>4. CASE q = p /\ pc[p] = "tPending" /\ todo'[p] = pending[c]
    BY <1>1, <2>1, <2>4 DEF Touches
  <2>5. CASE q = p /\ pc[p] = pc'[p] /\ \A v \in todo[p] \ todo'[p] : request'[v] = NoBooking
    <3>1. u \in todo[p]
      BY <1>1, <1>6, <2>0, <2>5 DEF WalksCover
    <3> QED BY <1>6, <2>5, <3>1 DEF ResidueTypes
  <2> QED BY <1>6, <2>2, <2>3, <2>4, <2>5 DEF Walks
<1>7. ASSUME pc'[q] \in {"removeJob", "tClear"}, NEW u \in Users,
             request'[u] = b
      PROVE  Leaving(b, u)'
  <2>0. request[u] = b
    BY <1>2, <1>7
  <2>1. CASE pc[q] \in {"removeJob", "tClear"}
    BY <1>1, <1>3, <1>7, <2>0, <2>1 DEF WalksCover
  <2>2. CASE q = p /\ pc[p] \in {"walk", "tWalk"} /\ todo[p] = {}
    <3>1. Leaving(b, u)
      BY <1>1, <2>0, <2>2 DEF WalksCover
    <3> QED BY <1>3, <1>7, <3>1
  <2>3. CASE q = p
    BY <1>7, <2>1, <2>2, <2>3 DEF Walks
  <2> QED BY <1>4, <1>7, <2>1, <2>3
<1> QED BY <1>1, <1>5, <1>6, <1>7

\* No request of a decided booking is forgotten.
LEMMA ClearsKept ==
  ASSUME ResidueTypes, OffersFirst, WalksCover, DecisionClears,
         NEW p \in Handlers, NEW c \in Bookings, Works(p, c)
  PROVE  DecisionClears'
<1> USE DEF Works
<1> SUFFICES ASSUME NEW b \in Bookings, NEW u \in Users, Resolved(b)', request'[u] = b,
                    ~Leaving(b, u)'
             PROVE  \E q \in Handlers : Clearing(q)' /\ bk'[q] = b
  BY DEF DecisionClears
<1>1. ASSUME Resolved(b), request[u] = b
      PROVE  \E q \in Handlers : Clearing(q)' /\ bk'[q] = b
  <2>1. ~Leaving(b, u)
    BY LeavingStays
  <2>2. PICK q \in Handlers : Clearing(q) /\ bk[q] = b
    BY <1>1, <2>1 DEF DecisionClears
  <2>3. CASE q # p
    BY <2>2, <2>3 DEF Touches, OnlyMoves, Keeps, Clearing
  <2>4. CASE q = p
    <3>1. b = c
      BY <2>2, <2>4 DEF Touches
    <3>2. pc'[p] \notin {"removeJob", "tClear"}
      BY <1>1, <2>1, <2>2, <2>4 DEF Walks, WalksCover
    <3>3. Clearing(p)'
      BY <2>2, <2>4, <3>2 DEF Clears
    <3> QED BY <3>1, <3>3 DEF Touches, Clearing
  <2> QED BY <2>3, <2>4
<1>2. CASE b # c
  <2>1. Resolved(b)
    BY <1>2 DEF Touches, Resolved
  <2>2. request[u] = b
    BY <1>2, RequestFrom
  <2> QED BY <1>1, <2>1, <2>2
<1>3. CASE b = c
  <2>1. CASE Clearing(p)'
    BY <1>3, <2>1 DEF Touches, Clearing
  <2>2. CASE ~Clearing(p)'
    <3>1. Resolved(b)
      BY <1>3, <2>2 DEF Clears
    <3>2. pc[p] # "offer"
      BY <1>3, <3>1 DEF OffersFirst, Offering, Unknown, Touches
    <3> QED BY <1>1, <3>1, <3>2, RequestFrom
  <2> QED BY <2>1, <2>2
<1> QED BY <1>2, <1>3

\* Late answers stay without effect.
LEMMA SparedKept ==
  ASSUME ResidueTypes, LateAnswersSpared,
         NEW p \in Handlers, NEW c \in Bookings, Works(p, c)
  PROVE  LateAnswersSpared'
<1> USE DEF Works
<1> SUFFICES ASSUME NEW b \in Bookings, Resolved(b)', pending'[b] # {}, alloc'[b] # "ACCEPTED"
             PROVE  \E q \in Handlers : Cleaning(q)' /\ bk'[q] = b
  BY DEF LateAnswersSpared
<1>1. CASE b = c /\ Cleaning(p)'
  BY <1>1 DEF Touches, Cleaning
<1>2. CASE b # c \/ ~Cleaning(p)'
  <2>1. Resolved(b) /\ pending[b] # {} /\ alloc[b] # "ACCEPTED" /\ (b = c => ~Cleaning(p))
    BY <1>2 DEF Cleans, Touches, Resolved
  <2>2. PICK q \in Handlers : Cleaning(q) /\ bk[q] = b
    BY <2>1 DEF LateAnswersSpared
  <2>3. q # p
    BY <2>1, <2>2 DEF Touches
  <2> QED BY <2>2, <2>3 DEF Touches, OnlyMoves, Keeps, Cleaning
<1> QED BY <1>1, <1>2

\* So does what ends a booking without drivers.
LEMMA AttendedKept ==
  ASSUME ResidueTypes, AcceptedIsDecided, EmptiedIsAttended,
         \A b \in Bookings : Resolved(b) => Resolved(b)',
         NEW p \in Handlers, NEW c \in Bookings, Works(p, c)
  PROVE  AcceptedIsDecided' /\ EmptiedIsAttended'
<1> USE DEF Works
<1>1. AcceptedIsDecided'
  <2> SUFFICES ASSUME NEW b \in Bookings, alloc'[b] = "ACCEPTED" PROVE Resolved(b)
    BY DEF AcceptedIsDecided
  <2> QED BY DEF AcceptedIsDecided, Ends, Touches
<1>2. EmptiedIsAttended'
  <2> SUFFICES ASSUME NEW b \in Bookings, offered'[b] # {}, pending'[b] = {}, ~Resolved(b)'
               PROVE  \E q \in Handlers : Ending(q)' /\ bk'[q] = b
    BY DEF EmptiedIsAttended
  <2>1. CASE b = c /\ Ending(p)'
    BY <2>1 DEF Touches, Ending
  <2>2. CASE b # c \/ ~Ending(p)'
    <3>1. offered[b] # {} /\ pending[b] = {} /\ ~Resolved(b) /\ (b = c => ~Ending(p))
      BY <2>2 DEF Ends, Touches
    <3>2. PICK q \in Handlers : Ending(q) /\ bk[q] = b
      BY <3>1 DEF EmptiedIsAttended
    <3>3. q # p
      BY <3>1, <3>2 DEF Touches
    <3> QED BY <3>2, <3>3 DEF Touches, OnlyMoves, Keeps, Ending
  <2> QED BY <2>1, <2>2
<1> QED BY <1>1, <1>2

\* A call that begins disturbs none of this.
LEMMA ResidueBegin ==
  ASSUME ResidueTypes, BookingsExist, ResidueInv, NEW p \in Handlers, NEW c \in Bookings,
         Begins(p, c)
  PROVE  ResidueInv'
<1>0. /\ bk[p] = NoBooking /\ pc[p] = "idle" /\ bk'[p] = c /\ c # NoBooking
      /\ pc'[p] \in {"setPending", "lock", "drop"}
      /\ \A q \in Handlers \ {p} :
           /\ pc'[q] = pc[q] /\ bk'[q] = bk[q] /\ usr'[q] = usr[q] /\ todo'[q] = todo[q]
      /\ request' = request /\ pending' = pending /\ alloc' = alloc /\ offered' = offered
  BY DEF Begins, OnlyMoves, Keeps, ResidueInv, OffersFirst, ResidueTypes
<1>1. ASSUME NEW b \in Bookings, Unknown(b), b # c PROVE Unknown(b)'
  BY <1>0, <1>1 DEF Unknown, Begins, Resolved
<1>2. ASSUME NEW b \in Bookings, NEW u \in Users, Leaving(b, u) PROVE Leaving(b, u)'
  BY <1>0, <1>2 DEF Leaving
<1>3. OffersFirst'
  <2>1. ASSUME NEW q \in Handlers PROVE (pc'[q] = "idle" => bk'[q] = NoBooking) /\ pc'[q] # "uSave"
    BY <1>0 DEF ResidueInv, OffersFirst
  <2>2. ASSUME NEW q \in Handlers, Offering(q)'
        PROVE  Unknown(bk[q])' /\ \A r \in Handlers \ {q} : bk'[r] # bk'[q]
    <3>1. CASE q = p
      <4>1. pc'[p] = "setPending" /\ ~Placed(c) /\ ~Resolved(c)' /\ job' = job
        BY <1>0, <2>2, <3>1 DEF Begins, Offering
      <4>2. job[c] = "none" /\ offered[c] = {} /\ \A u \in Users : request[u] # c
        BY <1>0, <4>1 DEF BookingsExist
      <4>3. \A r \in Handlers : bk[r] # c
        BY <1>0, <4>1 DEF BookingsExist, ResidueInv, OffersFirst
      <4> QED BY <1>0, <3>1, <4>1, <4>2, <4>3 DEF Unknown
    <3>2. CASE q # p
      <4>1. Offering(q) /\ bk[q] \in Bookings /\ bk'[q] = bk[q]
        BY <1>0, <2>2, <3>2 DEF Offering, ResidueTypes
      <4>2. Unknown(bk[q]) /\ \A r \in Handlers \ {q} : bk[r] # bk[q]
        BY <4>1 DEF ResidueInv, OffersFirst
      <4>3. bk[q] # c
        <5>1. CASE pc'[p] = "setPending"
          <6>1. ~Placed(c) /\ Placed(bk[q])
            BY <1>0, <4>1, <5>1 DEF Begins, BookingsExist, Offering
          <6> QED BY <6>1
        <5>2. CASE pc'[p] \in {"lock", "drop"}
          BY <4>2, <5>2 DEF Begins
        <5> QED BY <1>0, <5>1, <5>2
      <4>4. PICK b \in Bookings : b = bk[q]
        BY <4>1
      <4>5. Unknown(b)'
        BY <1>1, <4>2, <4>3, <4>4
      <4> QED BY <1>0, <4>1, <4>2, <4>3, <4>4, <4>5 DEF Unknown, Resolved
    <3> QED BY <3>1, <3>2
  <2>3. ASSUME NEW q \in Handlers, pc'[q] \in {"setStatus", "offer"}
        PROVE  todo'[q] \subseteq pending'[bk'[q]]
    BY <1>0, <2>3 DEF ResidueInv, OffersFirst
  <2> QED BY <2>1, <2>2, <2>3 DEF OffersFirst
<1>4. RequestsPending'
  BY <1>0, <1>2 DEF ResidueInv, RequestsPending
<1>5. WalksCover'
  <2> SUFFICES ASSUME NEW q \in Handlers, q # p, pc[q] # "idle"
               PROVE  /\ pc[q] \in {"others", "walk", "removeJob"}
                           => request[usr[q]] # bk[q]
                      /\ pc[q] \in {"walk", "tWalk"} => \A u \in Users :
                           request[u] = bk[q] => u \in todo[q] \/ Leaving(bk[q], u)
                      /\ pc[q] \in {"removeJob", "tClear"} => \A u \in Users :
                           request[u] = bk[q] => Leaving(bk[q], u)
    BY <1>0, <1>2 DEF WalksCover, Leaving, ResidueTypes
  <2> QED BY DEF ResidueInv, WalksCover
<1>6. \A b \in Bookings : Resolved(b)' <=> Resolved(b)
  <2>1. CASE row' = row
    BY <2>1 DEF Resolved
  <2>2. CASE ~Placed(c) /\ ~Resolved(c)'
    BY <2>2 DEF Begins, Resolved, Placed
  <2> QED BY <2>1, <2>2 DEF Begins
<1>7. DecisionClears' /\ LateAnswersSpared' /\ AcceptedIsDecided' /\ EmptiedIsAttended'
  <2>1. \A q \in Handlers : Cleaning(q) \/ Ending(q) \/ Clearing(q) => q # p
    BY <1>0 DEF Cleaning, Ending, Clearing
  <2>2. \A q \in Handlers : /\ Cleaning(q) => Cleaning(q)' /\ bk'[q] = bk[q]
                            /\ Ending(q) => Ending(q)' /\ bk'[q] = bk[q]
                            /\ Clearing(q) => Clearing(q)' /\ bk'[q] = bk[q]
    BY <1>0, <2>1 DEF Cleaning, Ending, Clearing
  <2>6. DecisionClears'
    BY <1>0, <1>2, <1>6, <2>2 DEF ResidueInv, DecisionClears
  <2>3. LateAnswersSpared'
    BY <1>0, <1>6, <2>2 DEF ResidueInv, LateAnswersSpared
  <2>4. AcceptedIsDecided'
    BY <1>0, <1>6 DEF ResidueInv, AcceptedIsDecided
  <2>5. EmptiedIsAttended'
    BY <1>0, <1>6, <2>2 DEF ResidueInv, EmptiedIsAttended
  <2> QED BY <2>3, <2>4, <2>5, <2>6
<1> QED BY <1>3, <1>4, <1>5, <1>7 DEF ResidueInv

\* Nor do the keys that may expire.
LEMMA ResidueStay ==
  ASSUME ResidueTypes, ResidueInv, Stays
  PROVE  ResidueInv'
<1>0. /\ pc' = pc /\ bk' = bk /\ usr' = usr /\ todo' = todo /\ pending' = pending
      /\ alloc' = alloc /\ job' = job /\ offered' = offered
      /\ \A b \in Bookings : Resolved(b)' <=> Resolved(b)
      /\ \A b \in Bookings, u \in Users : request'[u] = b => request[u] = b
  BY DEF Stays, ResidueTypes
<1>1. \A b, u : Leaving(b, u)' <=> Leaving(b, u)
  BY <1>0 DEF Leaving
<1>2. OffersFirst'
  <2>1. ASSUME NEW q \in Handlers, Offering(q)' PROVE Unknown(bk[q])'
    <3>1. PICK b \in Bookings : b = bk[q]
      BY <1>0, <2>1 DEF Offering, ResidueTypes
    <3>2. Unknown(b)
      BY <1>0, <2>1, <3>1 DEF ResidueInv, OffersFirst, Offering
    <3>3. Unknown(b)'
      BY <1>0, <3>2 DEF Unknown
    <3> QED BY <1>0, <3>1, <3>3 DEF Unknown, Resolved
  <2> QED BY <1>0, <2>1 DEF ResidueInv, OffersFirst, Offering
<1>3. RequestsPending'
  BY <1>0, <1>1 DEF ResidueInv, RequestsPending
<1>4. WalksCover'
  <2> SUFFICES ASSUME NEW q \in Handlers, NEW b \in Bookings, b = bk[q], pc[q] # "idle"
               PROVE  /\ pc[q] \in {"others", "walk", "removeJob"}
                           => request'[usr[q]] # b
                      /\ pc[q] \in {"walk", "tWalk"} =>
                           \A u \in Users : request'[u] = b => u \in todo[q] \/ Leaving(b, u)
                      /\ pc[q] \in {"removeJob", "tClear"} =>
                           \A u \in Users : request'[u] = b => Leaving(b, u)
    BY <1>0, <1>1 DEF WalksCover, Leaving, ResidueTypes
  <2>1. pc[q] \in {"others", "walk", "removeJob"} => usr[q] \in Users
    BY DEF ResidueTypes, AfterSave
  <2> QED BY <1>0, <2>1 DEF ResidueInv, WalksCover
<1>6. DecisionClears'
  BY <1>0, <1>1 DEF ResidueInv, DecisionClears, Clearing
<1>5. LateAnswersSpared' /\ AcceptedIsDecided' /\ EmptiedIsAttended'
  BY <1>0 DEF ResidueInv, LateAnswersSpared, AcceptedIsDecided, EmptiedIsAttended, Cleaning, Ending
<1> QED BY <1>2, <1>3, <1>4, <1>5, <1>6 DEF ResidueInv

\* The invariant about what the calls leave behind.
LEMMA ResidueAlways ==
  ASSUME StatusRequests = {}, Faults = {}, Expiring \subseteq {"request"}, ~SlowAcceptance
  PROVE  Spec => [](IndInv /\ BookingsExist /\ ResidueInv)
<1>1. Init => ResidueInv
  BY SentinelAssumption DEF Init, ResidueInv, OffersFirst, RequestsPending, WalksCover,
     DecisionClears, LateAnswersSpared, AcceptedIsDecided, EmptiedIsAttended, Offering, Leaving,
     NoRow, Resolved
<1>2. ASSUME IndInv, BookingsExist, ResidueInv, [Next]_vars PROVE ResidueInv'
  <2>1. ResidueTypes
    BY <1>2, SentinelAssumption DEF IndInv, TypeOK, ResidueTypes
  <2>2. CASE UNCHANGED vars
    <3>1. /\ row' = row /\ pending' = pending /\ alloc' = alloc /\ request' = request
          /\ job' = job /\ offered' = offered
          /\ pc' = pc /\ bk' = bk /\ usr' = usr /\ todo' = todo
      BY <2>2 DEF vars, redis, locals, history
    <3>2. OffersFirst' /\ RequestsPending' /\ WalksCover' /\ DecisionClears'
      BY <1>2, <3>1 DEF ResidueInv, OffersFirst, RequestsPending, WalksCover, DecisionClears,
         Clearing, Offering, Leaving, Unknown, Resolved
    <3>3. LateAnswersSpared' /\ AcceptedIsDecided' /\ EmptiedIsAttended'
      BY <1>2, <3>1 DEF ResidueInv, LateAnswersSpared, AcceptedIsDecided, EmptiedIsAttended,
         Cleaning, Ending, Resolved
    <3> QED BY <3>2, <3>3 DEF ResidueInv
  <2>3. CASE Next
    <3>1. Stays \/ \E p \in Handlers, c \in Bookings : Begins(p, c) \/ Works(p, c)
      BY <1>2, <2>3, StepKinds DEF ResidueInv
    <3>2. ASSUME NEW p \in Handlers, NEW c \in Bookings, Works(p, c) PROVE ResidueInv'
      <4>1. OffersFirst'
        BY <1>2, <2>1, <3>2, OffersKept DEF ResidueInv, Works
      <4>2. RequestsPending' /\ WalksCover' /\ DecisionClears' /\ LateAnswersSpared'
        BY <1>2, <2>1, <3>2, RequestsKept, WalksKept, ClearsKept, SparedKept DEF ResidueInv
      <4>3. \A b \in Bookings : Resolved(b) => Resolved(b)'
        BY <1>2, <2>3, RowStep
      <4>4. AcceptedIsDecided' /\ EmptiedIsAttended'
        BY <1>2, <2>1, <3>2, <4>3, AttendedKept DEF ResidueInv
      <4> QED BY <4>1, <4>2, <4>4 DEF ResidueInv
    <3> QED BY <1>2, <2>1, <3>1, <3>2, ResidueStay, ResidueBegin
  <2> QED BY <1>2, <2>2, <2>3
<1>3. IndInv /\ BookingsExist /\ ResidueInv /\ [Next]_vars => ResidueInv'
  BY <1>2
<1>4. "PENDING" \notin StatusRequests
  OBVIOUS
<1> QED BY <1>1, <1>3, <1>4, Invariance, BookingsExistAlways, PTL DEF Spec

\* What the calls for a decided booking leave in Redis is harmless, whatever
\* acceptances, rejections, disconnections and early timeouts came together on it:
\* offers precede them, whoever has a pending request is in the pending set or
\* clearing his own, whoever decides the booking walks over that set, and the set
\* itself goes or is guarded by the status ACCEPTED.
THEOREM LeftoversHarmless ==
  ASSUME StatusRequests = {}, Faults = {}, Expiring \subseteq {"request"}, ~SlowAcceptance
  PROVE  Spec => []LeftoversAreHarmless
<1>1. ASSUME ResidueInv, NEW b \in Bookings, Quiescent(b), Resolved(b)
      PROVE  (\A u \in Users : request[u] # b) /\ (pending[b] # {} => alloc[b] = "ACCEPTED")
  <2>1. ASSUME NEW u \in Users PROVE request[u] # b
    BY <1>1 DEF ResidueInv, DecisionClears, Leaving, Quiescent
  <2>2. ASSUME pending[b] # {} PROVE alloc[b] = "ACCEPTED"
    BY <1>1, <2>2 DEF ResidueInv, LateAnswersSpared, Quiescent
  <2> QED BY <2>1, <2>2
<1>2. ResidueInv => LeftoversAreHarmless
  BY <1>1 DEF LeftoversAreHarmless
<1> QED BY <1>2, ResidueAlways, PTL

\* When all drivers have left a booking that is still open, a call is on its way to
\* cancel it: also when the last ones leave at once.  With the fairness of the
\* calls, which all end (CallsAdvance), this is why LastToLeaveDecides holds.
THEOREM EmptiedAreAttended ==
  ASSUME StatusRequests = {}, Faults = {}, Expiring \subseteq {"request"}, ~SlowAcceptance
  PROVE  Spec => []EmptiedIsAttended
<1>1. ResidueInv => EmptiedIsAttended
  BY DEF ResidueInv
<1> QED BY <1>1, ResidueAlways, PTL

\* An acceptance beside which nothing runs any more but what comes too late.
Settled(b) ==
  /\ row[b].status = "ACCEPTED"
  /\ \A u \in Users : request[u] # b
  /\ \A p \in Handlers : bk[p] = b => pc[p] \in Late
  /\ pending[b] # {} \/ (\E p \in Handlers : bk[p] = b /\ pc[p] \in LateRejection)
       => alloc[b] = "ACCEPTED"

\* Nothing unsettles it.
LEMMA SettledStep ==
  ASSUME IndInv, BookingsExist, ResidueInv, NEW b \in Bookings, Settled(b), [Next]_vars,
         StatusRequests = {}, Faults = {}, Expiring \subseteq {"request"}
  PROVE  Settled(b)'
<1>0. ResidueTypes
  BY SentinelAssumption DEF IndInv, TypeOK, ResidueTypes
<1>1. CASE UNCHANGED vars
  BY <1>1 DEF vars, redis, locals, Settled
<1>2. CASE Stays
  BY <1>0, <1>2 DEF Stays, Settled, ResidueTypes
<1>3. ASSUME NEW p \in Handlers, NEW c \in Bookings, Begins(p, c) PROVE Settled(b)'
  <2>1. row'[b] = row[b]
    BY <1>3 DEF Begins, Settled, Placed
  <2>2. /\ request' = request /\ pending' = pending /\ alloc' = alloc /\ bk'[p] = c
        /\ \A q \in Handlers \ {p} : pc'[q] = pc[q] /\ bk'[q] = bk[q]
    BY <1>3 DEF Begins, OnlyMoves, Keeps
  <2>3. CASE b # c
    BY <2>1, <2>2, <2>3 DEF Settled
  <2>4. CASE b = c
    <3>1. pc'[p] \in {"lock", "drop"} /\ pending[b] # {}
      BY <1>3, <2>4 DEF Begins, Settled, Placed, Resolved
    <3>2. alloc[b] = "ACCEPTED"
      BY <3>1 DEF Settled
    <3> QED BY <2>1, <2>2, <2>4, <3>1, <3>2 DEF Settled, Late
  <2> QED BY <2>3, <2>4
<1>4. ASSUME NEW p \in Handlers, NEW c \in Bookings, Works(p, c) PROVE Settled(b)'
  <2>1. bk[p] = c /\ \A q \in Handlers \ {p} : pc'[q] = pc[q] /\ bk'[q] = bk[q]
    BY <1>4 DEF Works, Touches, OnlyMoves, Keeps
  <2>2. CASE b # c
    <3>1. /\ row'[b] = row[b] /\ pending'[b] = pending[b] /\ alloc'[b] = alloc[b]
          /\ bk'[p] # b
      BY <1>0, <1>4, <2>2 DEF Works, Touches, ResidueTypes
    <3>2. \A u \in Users : request'[u] # b
      BY <1>0, <1>4, <2>2 DEF Works, Touches, ResidueTypes, Settled
    <3> QED BY <2>1, <2>2, <3>1, <3>2 DEF Settled
  <2>3. CASE b = c
    <3>1. pc[p] \in Late /\ (pc[p] \in LateRejection => alloc[c] = "ACCEPTED")
      BY <2>1, <2>3 DEF Settled
    <3>2. /\ row' = row /\ alloc' = alloc /\ pending'[c] \subseteq pending[c]
          /\ pc'[p] \in Late \cup {"idle"}
          /\ pc'[p] \in LateRejection => pc[p] \in LateRejection
      BY <1>4, <2>3, <3>1 DEF Works, Spares, Settled
    <3>3. \A u \in Users : request'[u] # b
      BY <1>0, <1>4, <2>3, <3>1 DEF Works, Touches, ResidueTypes, Settled, Late
    <3>4. bk'[p] = b => pc'[p] \in Late
      BY <1>0, <1>4, <2>3, <3>2 DEF Works, Touches, ResidueTypes
    <3>5. \A q \in Handlers : bk'[q] = b => pc'[q] \in Late
      BY <2>1, <3>4 DEF Settled
    <3>6. ASSUME pending'[b] # {} \/ \E q \in Handlers : bk'[q] = b /\ pc'[q] \in LateRejection
          PROVE  alloc[b] = "ACCEPTED"
      <4>1. CASE pending'[b] # {}
        BY <2>3, <3>2, <4>1 DEF Settled
      <4>2. ASSUME NEW q \in Handlers, bk'[q] = b, pc'[q] \in LateRejection
            PROVE  alloc[b] = "ACCEPTED"
        BY <2>1, <2>3, <3>1, <3>2, <4>2 DEF Settled
      <4> QED BY <3>6, <4>1, <4>2
    <3> QED BY <3>2, <3>3, <3>5, <3>6 DEF Settled
  <2> QED BY <2>2, <2>3
<1>5. CASE Next
  <2>1. Stays \/ \E p \in Handlers, c \in Bookings : Begins(p, c) \/ Works(p, c)
    BY <1>5, StepKinds DEF ResidueInv
  <2> QED BY <1>2, <1>3, <1>4, <2>1
<1> QED BY <1>1, <1>5

\* An acceptance stays once the calls that ran beside it have returned: what comes
\* later finds the row decided, no pending request that names the booking, and the
\* status ACCEPTED at the end of every rejection.
THEOREM AcceptanceStays ==
  ASSUME StatusRequests = {}, Faults = {}, Expiring \subseteq {"request"}, ~SlowAcceptance
  PROVE  Spec => SettledAcceptanceStays
<1>1. ASSUME NEW b \in Bookings
      PROVE  Spec => [](Quiescent(b) /\ row[b].status = "ACCEPTED"
                          => [](row[b].status = "ACCEPTED"))
  <2>1. IndInv /\ BookingsExist /\ ResidueInv /\ Settled(b) /\ [Next]_vars => Settled(b)'
    BY SettledStep
  <2>2. LeftoversAreHarmless /\ Quiescent(b) /\ row[b].status = "ACCEPTED" => Settled(b)
    BY DEF LeftoversAreHarmless, Quiescent, Resolved, Settled
  <2>3. Settled(b) => row[b].status = "ACCEPTED"
    BY DEF Settled
  <2> QED BY <2>1, <2>2, <2>3, ResidueAlways, LeftoversHarmless, PTL DEF Spec
<1> QED BY <1>1 DEF SettledAcceptanceStays

----------------------------------------------------------------------------
\* Every call ends.

\* How many awaits a call has before it at most, an iteration of its loop not counted.
Left(step) ==
  CASE step = "idle" -> 0
    [] step \in {"uSave", "unlock", "addJob", "tClear"} -> 1
    [] step \in {"offer", "removeJob", "tWalk"} -> 2
    [] step \in {"setStatus", "walk", "tPending"} -> 3
    [] step \in {"setPending", "others", "tSetStatus"} -> 4
    [] step \in {"clearOwn", "tSave"} -> 5
    [] step \in {"setAccepted", "tRead"} -> 6
    [] step \in {"save", "tStatus"} -> 7
    [] step \in {"validate", "count"} -> 8
    [] step \in {"read", "clearRequest"} -> 9
    [] step \in {"lock", "drop"} -> 10

\* A call comes closer to its end by an await or by an iteration of its loop.
Advances(p) ==
  \/ Left(pc'[p]) < Left(pc[p])
  \/ pc'[p] = pc[p] /\ todo'[p] \subseteq todo[p] /\ todo'[p] # todo[p]

\* No step of another call, of a client or of a fault sends a call back
\* or gives its loop more drivers to visit: whatever happens around it, every call
\* ends after finitely many steps of its own.
CallsAdvance ==
  [][\A p \in Handlers : pc[p] # "idle" =>
       (pc'[p] = pc[p] /\ todo'[p] = todo[p]) \/ Advances(p)]_vars

\* A handler's own step brings its call closer to the end.
LEMMA StepsAdvance ==
  ASSUME TypeOK, NEW p \in Handlers, HandlerStep(p)
  PROVE  /\ Advances(p)
         /\ \A q \in Handlers \ {p} : pc'[q] = pc[q] /\ todo'[q] = todo[q]
<1>0. /\ pc \in [Handlers -> Steps] /\ bk \in [Handlers -> Bookings \cup {NoBooking}]
      /\ todo \in [Handlers -> SUBSET Users]
  BY DEF TypeOK
<1> USE <1>0 DEF Advances, Left, At, Goto, Continue, Finish
<1>1. CASE SetPendingDrivers(p) \/ SetStatusPending(p) \/ OfferToDrivers(p) \/ AddTimeoutJob(p)
  BY <1>1 DEF SetPendingDrivers, SetStatusPending, OfferToDrivers, AddTimeoutJob
<1>2. CASE LockBooking(p) \/ ReadBooking(p) \/ ValidateVehicle(p) \/ SaveAcceptance(p)
  BY <1>2 DEF LockBooking, ReadBooking, ValidateVehicle, SaveAcceptance
<1>3. CASE SetStatusAccepted(p) \/ ClearOwnRequest(p) \/ GetOtherDrivers(p)
  BY <1>3 DEF SetStatusAccepted, ClearOwnRequest, GetOtherDrivers
<1>4. CASE CancelOtherDrivers(p) \/ ExpireRequests(p)
  <2>1. CASE \E u \in todo[p] : todo' = [todo EXCEPT ![p] = @ \ {u}] /\ pc' = pc
    BY <2>1
  <2>2. CASE Continue(p, "removeJob") /\ pc[p] = "walk"
    BY <2>2
  <2>3. CASE Continue(p, "tClear") /\ pc[p] = "tWalk"
    BY <2>3
  <2> QED BY <1>4, <2>1, <2>2, <2>3 DEF CancelOtherDrivers, ExpireRequests, ClearNextRequest
<1>5. CASE RemoveTimeoutJob(p) \/ UnlockBooking(p)
  BY <1>5 DEF RemoveTimeoutJob, UnlockBooking
<1>6. CASE RemoveDriver(p) \/ ClearRejectedRequest(p) \/ CountRemaining(p)
  BY <1>6 DEF RemoveDriver, ClearRejectedRequest, CountRemaining
<1>7. CASE CheckNotAccepted(p) \/ ReadForTimeout(p) \/ SaveCancellation(p)
  BY <1>7 DEF CheckNotAccepted, ReadForTimeout, SaveCancellation
<1>8. CASE SetStatusTimeout(p) \/ GetExpiredDrivers(p) \/ ClearTimedOutBooking(p)
  BY <1>8 DEF SetStatusTimeout, GetExpiredDrivers, ClearTimedOutBooking
<1>9. CASE SaveStatus(p)
  BY <1>9 DEF SaveStatus
<1> QED
  BY <1>1, <1>2, <1>3, <1>4, <1>5, <1>6, <1>7, <1>8, <1>9
     DEF HandlerStep, AcceptanceStep, TimeoutStep

\* Every step of the system leaves a busy call where it is or closer to its end,
\* with any fault and any expiring key: no call runs for ever.
THEOREM CallsEnd == Spec => CallsAdvance
<1>1. ASSUME TypeOK, Next, NEW q \in Handlers, pc[q] # "idle"
      PROVE  (pc'[q] = pc[q] /\ todo'[q] = todo[q]) \/ Advances(q)
  <2>0. /\ pc \in [Handlers -> Steps] /\ todo \in [Handlers -> SUBSET Users]
    BY <1>1 DEF TypeOK
  <2>1. ASSUME NEW p \in Handlers, HandlerStep(p)
        PROVE  (pc'[q] = pc[q] /\ todo'[q] = todo[q]) \/ Advances(q)
    BY <1>1, <2>1, StepsAdvance
  <2>2. ASSUME NEW p \in Handlers, Throw(p) \/ Crash(p)
        PROVE  (pc'[q] = pc[q] /\ todo'[q] = todo[q]) \/ Advances(q)
    <3>1. CASE pc[p] \in BeforeSave \cup AfterSave /\ Continue(p, "unlock")
      BY <2>0, <3>1 DEF Continue, Goto, Advances, Left, BeforeSave, AfterSave
    <3>2. CASE Finish(p)
      <4>1. \A s \in Steps \ {"idle"} : Left("idle") < Left(s)
        BY DEF Left, Steps, CreateSteps, BeforeSave, AfterSave, RejectSteps, TimeoutSteps
      <4> QED BY <1>1, <2>0, <3>2, <4>1 DEF Finish, Goto, Advances
    <3> QED BY <2>2, <3>1, <3>2 DEF Throw, Crash
  <2>3. ASSUME NEW p \in Handlers, NEW b \in Bookings, NEW D \in SUBSET Users, Create(p, b, D)
        PROVE  pc'[q] = pc[q] /\ todo'[q] = todo[q]
    BY <1>1, <2>0, <2>3 DEF Create, Start, Goto, locals
  <2>4. ASSUME NEW p \in Handlers, NEW b \in Bookings,
               \/ \E u \in Users : Accept(p, b, u) \/ Reject(p, b, u)
               \/ \E s \in StatusRequests : RequestStatus(p, b, s)
        PROVE  pc'[q] = pc[q] /\ todo'[q] = todo[q]
    BY <1>1, <2>0, <2>4 DEF Accept, Reject, RequestStatus, Start, Goto
  <2>5. ASSUME NEW p \in Handlers, NEW u \in Users, Disconnect(p, u)
        PROVE  pc'[q] = pc[q] /\ todo'[q] = todo[q]
    BY <1>1, <2>0, <2>5 DEF Disconnect, Start, Goto
  <2>6. ASSUME NEW b \in Bookings, ExpireLock(b) \/ ExpireKeys(b)
        PROVE  pc'[q] = pc[q] /\ todo'[q] = todo[q]
    BY <2>6 DEF ExpireLock, ExpireKeys, locals
  <2> QED BY <1>1, <2>1, <2>2, <2>3, <2>4, <2>5, <2>6 DEF Next, Arrive
<1>2. TypeOK /\ [Next]_vars =>
        [\A p \in Handlers : pc[p] # "idle" =>
           (pc'[p] = pc[p] /\ todo'[p] = todo[p]) \/ Advances(p)]_vars
  BY <1>1
<1> QED BY <1>2, TypeCorrect, PTL DEF Spec, CallsAdvance

=============================================================================
