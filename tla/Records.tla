------------------------------- MODULE Records -------------------------------
(***************************************************************************)
(* Three components that only the database connects, and no table in common:   *)
(* receipts of messages, payments and earnings.  Their calls interleave freely. *)
(***************************************************************************)
CONSTANTS
  Messages, Unknown, Clients, Instances, MaxMarks, \* of Receipts
  Bookings,                                        \* of Payments
  Earnings, Created, Given,                        \* of Earnings
  Calls                                            \* of Payments, and of Earnings

VARIABLES
  status, stamped, room, marks, told,
  payment, paymentPc, subject, handedOut,
  row, earningPc, request, entity, columns, inserts, since

Marking == INSTANCE Receipts
Charging == INSTANCE Payments WITH pc <- paymentPc
Paying == INSTANCE Earnings WITH pc <- earningPc

\* What stands for a missing value in the columns of an earning is not a value.
ASSUME AbsenceAssumption == "none" \notin Calls \cup {Created}
ASSUME GivenAssumption == Given \subseteq Paying!Statuses

receiptVars == <<status, stamped, room, marks, told>>
paymentVars == <<payment, paymentPc, subject, handedOut>>
earningVars == <<row, earningPc, request, entity, columns, inserts, since>>
vars == <<receiptVars, paymentVars, earningVars>>

Init == Marking!Init /\ Charging!Init /\ Paying!Init

Next ==
  \/ Marking!Next /\ UNCHANGED <<paymentVars, earningVars>>
  \/ Charging!Next /\ UNCHANGED <<receiptVars, earningVars>>
  \/ Paying!Next /\ UNCHANGED <<receiptVars, paymentVars>>

Spec == Init /\ [][Next]_vars

----------------------------------------------------------------------------
\* The types of all three.
TypeOK == Marking!TypeOK /\ Charging!TypeOK /\ Paying!TypeOK

\* The properties of each, stated where it is specified.
ReceiptsTrue == Marking!ReceiptsTrue
ReferencesHold == Charging!ReferencesHold
LostOnlyToOverlap == Paying!LostOnlyToOverlap
=============================================================================
