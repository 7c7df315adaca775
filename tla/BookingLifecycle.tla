--------------------------- MODULE BookingLifecycle ---------------------------
(***************************************************************************)
(* What the allocation promises about a booking, whatever runs              *)
(* concurrently: it is placed once, decided once and for all, and awarded   *)
(* to at most one driver, of whom the customer is told after the decision   *)
(* is in the database.  BookingAllocation implements this specification.    *)
(***************************************************************************)
CONSTANTS Bookings, Users

VARIABLES
  phase,   \* how far each booking is
  winners  \* the drivers of whom the customer was told

Init ==
  /\ phase = [b \in Bookings |-> "absent"]
  /\ winners = [b \in Bookings |-> {}]

Place(b) ==
  /\ phase[b] = "absent"
  /\ phase' = [phase EXCEPT ![b] = "open"]
  /\ UNCHANGED winners

Decide(b) ==
  /\ phase[b] = "open"
  /\ phase' = [phase EXCEPT ![b] = "decided"]
  /\ UNCHANGED winners

Award(b, u) ==
  /\ phase[b] = "decided"
  /\ winners[b] = {}
  /\ winners' = [winners EXCEPT ![b] = {u}]
  /\ UNCHANGED phase

Next == \E b \in Bookings : Place(b) \/ Decide(b) \/ \E u \in Users : Award(b, u)

Spec == Init /\ [][Next]_<<phase, winners>>
=============================================================================
