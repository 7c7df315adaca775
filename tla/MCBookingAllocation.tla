------------------------ MODULE MCBookingAllocation ------------------------
(***************************************************************************)
(* Small instances of BookingAllocation for TLC.                           *)
(***************************************************************************)
EXTENDS BookingAllocation, TLC

\* Drivers are interchangeable, and so are the slots.
Interchangeable == Permutations(Users) \cup Permutations(Handlers)
=============================================================================
