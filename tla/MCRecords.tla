------------------------------ MODULE MCRecords ------------------------------
(***************************************************************************)
(* Records for TLC.  The components share no variable, so that an invariant of  *)
(* one says nothing of the others, and it is enough to let one of them act      *)
(* while the others are as they began.                                        *)
(***************************************************************************)
EXTENDS Records, TLC

NextApart ==
  \/ /\ Charging!Init /\ Paying!Init
     /\ Marking!Next
     /\ UNCHANGED <<paymentVars, earningVars>>
  \/ /\ Marking!Init /\ Paying!Init
     /\ Charging!Next
     /\ UNCHANGED <<receiptVars, earningVars>>
  \/ /\ Marking!Init /\ Charging!Init
     /\ Paying!Next
     /\ UNCHANGED <<receiptVars, paymentVars>>

SpecApart == Init /\ [][NextApart]_vars

\* Calls are alike, and so are clients.
Alike == Permutations(Calls) \cup Permutations(Clients)
=============================================================================
