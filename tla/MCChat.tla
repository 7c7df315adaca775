-------------------------------- MODULE MCChat --------------------------------
(* Chat for TLC: the customer is always routed to one instance, the driver to  *)
(* any of two.                                                                *)
EXTENDS Chat
CONSTANTS m1, m2, c1, c2, i1, i2

BothWrite == [m \in {m1, m2} |-> IF m = m1 THEN c1 ELSE c2]
ThreeRoutes == {<<c1, i1>>, <<c2, i1>>, <<c2, i2>>}
=============================================================================
