------------------------------ MODULE MCRealtime ------------------------------
(* Realtime for TLC: two sockets, each a driver's or a customer's or nobody's. *)
EXTENDS Realtime, TLC
CONSTANTS s1, s2, d1, c1

\* The two call each other.
CallPair == {<<s1, s2>>, <<s2, s1>>}

\* Clients ask for the room that the driver's messages go to: he himself, or others.
SomeRooms == {<<"driver", d1>>}

SocketSymmetry == Permutations({s1, s2})
=============================================================================
