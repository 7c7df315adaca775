------------------------------- MODULE Payments -------------------------------
(***************************************************************************)
(* PaymentsService: initiatePayment and verifyPayment, called by anybody, any  *)
(* number of times, at the same time.  The relation of a payment to its        *)
(* booking is one-to-one, so the database refuses a second payment of one      *)
(* booking.  The provider is simulated by the code: whatever it is asked about *)
(* was paid.                                                                  *)
(***************************************************************************)
CONSTANTS
  Bookings,
  Calls       \* calls of the service; an initiation's reference is its own

Rows == [reference : Calls, status : {"PENDING", "SUCCESS"}]

\* No row.
NoPayment == [status |-> "none"]

VARIABLES
  payment,    \* the row of each booking
  pc,         \* per call
  subject,    \* per call, the booking of the row it found, if any
  handedOut   \* references answered to a client, with the booking

paymentVars == <<payment, pc, subject, handedOut>>

TypeOK ==
  /\ payment \in [Bookings -> Rows \cup {NoPayment}]
  /\ pc \in [Calls -> {"idle", "found", "done", "failed"}]
  /\ subject \in [Calls -> SUBSET Bookings]
  /\ handedOut \in SUBSET (Calls \X Bookings)

Init ==
  /\ payment = [b \in Bookings |-> NoPayment]
  /\ pc = [k \in Calls |-> "idle"]
  /\ subject = [k \in Calls |-> {}]
  /\ handedOut = {}

\* The bookings of the rows with this reference.
Referred(r) == {b \in Bookings : payment[b] # NoPayment /\ payment[b].reference = r}

Answer(k, how) == pc' = [pc EXCEPT ![k] = how]

----------------------------------------------------------------------------
\* A bug this code could have had: it stands in for the definition of the same
\* parameters in a mutation of a run, and is used nowhere else.

\* A new initiation takes the place of the old one.
InitiatePayment_Upserts(k, b) ==
  /\ pc[k] = "idle"
  /\ payment' = [payment EXCEPT ![b] = [reference |-> k, status |-> "PENDING"]]
  /\ handedOut' = handedOut \cup {<<k, b>>}
  /\ Answer(k, "done")
  /\ UNCHANGED subject

----------------------------------------------------------------------------
\* initiatePayment: the insertion, and the answer if the booking had no payment.
InitiatePayment(k, b) ==
  /\ pc[k] = "idle"
  /\ \/ /\ payment[b] = NoPayment
        /\ payment' = [payment EXCEPT ![b] = [reference |-> k, status |-> "PENDING"]]
        /\ handedOut' = handedOut \cup {<<k, b>>}
        /\ Answer(k, "done")
     \/ /\ payment[b] # NoPayment
        /\ Answer(k, "failed")
        /\ UNCHANGED <<payment, handedOut>>
  /\ UNCHANGED subject

\* verifyPayment: one of these rows is found, or there is none.
FindAmong(k, found) ==
  /\ pc[k] = "idle"
  /\ \/ /\ \E b \in found : subject' = [subject EXCEPT ![k] = {b}]
        /\ Answer(k, "found")
     \/ /\ found = {}
        /\ Answer(k, "failed")
        /\ UNCHANGED subject
  /\ UNCHANGED <<payment, handedOut>>

\* With a reference the client was given, or with another.
FindPayment(k, r) == FindAmong(k, Referred(r))

\* With no reference in the body, which nothing validates: a condition that is
\* undefined is none, so that the query finds whichever row comes first.
FindAnyPayment(k) == FindAmong(k, {b \in Bookings : payment[b] # NoPayment})

\* save: the row's status, if it still differs.
SavePayment(k) ==
  /\ pc[k] = "found"
  /\ \E b \in subject[k] : payment' = [payment EXCEPT ![b].status = "SUCCESS"]
  /\ Answer(k, "done")
  /\ UNCHANGED <<subject, handedOut>>

\* A statement fails, or the process dies, before the row is written.
Fails(k) ==
  /\ pc[k] \in {"idle", "found"}
  /\ Answer(k, "failed")
  /\ UNCHANGED <<payment, subject, handedOut>>

Next ==
  \E k \in Calls :
    \/ \E b \in Bookings : InitiatePayment(k, b)
    \/ \E r \in Calls : FindPayment(k, r)
    \/ FindAnyPayment(k)
    \/ SavePayment(k) \/ Fails(k)

Spec == Init /\ [][Next]_paymentVars

----------------------------------------------------------------------------
\* Properties.

\* A reference that a client was given stays that of its booking's payment, so it
\* can be verified at any time later, however often payment of the booking is asked
\* for again; and a call that answered a verification has left its payment paid.
ReferencesHold ==
  /\ \A h \in handedOut : payment[h[2]] # NoPayment /\ payment[h[2]].reference = h[1]
  /\ \A k \in Calls : pc[k] = "done" => \A b \in subject[k] : payment[b].status = "SUCCESS"
=============================================================================
