----------------------------- MODULE MCSessions -----------------------------
(***************************************************************************)
(* Small instances of Sessions for TLC.                                    *)
(***************************************************************************)
EXTENDS Sessions, TLC

\* What stands for what without being told apart by name.
Interchangeable ==
  Permutations(Users) \cup Permutations(Passwords)
    \cup Permutations(Handlers) \cup Permutations(Sweepers)
=============================================================================
