---------------------------- MODULE MCDriverSearch ----------------------------
(***************************************************************************)
(* Small instances of DriverSearch for TLC.                                *)
(***************************************************************************)
EXTENDS DriverSearch, TLC

CONSTANTS d1, d2, d3

Truck == [type |-> "TRAILER", vehicleCapacity |-> 0, capacity |-> 2, volume |-> 0,
          has |-> {}, seats |-> 0]
Goods == [cargoType |-> "GENERAL", weight |-> 2, volume |-> 0, needs |-> {}]

\* Every fleet of trucks and missing vehicles, every place and status to start
\* from, and drivers that change them during the search.  The vehicles do not
\* matter to a booking without requirements.
Starts ==
  [geo : [Drivers -> Distances \cup {NoPlace}], status : [Drivers -> {"none", "ONLINE"}]]
Orders ==
  [vehicle : [Drivers -> {Truck, NoVehicle}], cargo : {Goods}]
    \cup [vehicle : {[d \in Drivers |-> NoVehicle]}, cargo : {NoCargo}]
Races ==
  {[vehicle |-> o.vehicle, cargo |-> o.cargo, geo |-> s.geo, status |-> s.status,
    moves |-> 2] : o \in Orders, s \in Starts}

\* One driver next to the pickup, and every kind of vehicle and cargo on both
\* sides of each boundary.
SampleVehicles ==
  [type : VehicleTypes, vehicleCapacity : {0, 100}, capacity : {0, 2},
   volume : {0, 10}, has : SUBSET Features, seats : {0, 1}]
SampleCargoes ==
  [cargoType : CargoTypes, weight : {0, 2, 80, 101}, volume : {0, 11},
   needs : SUBSET Demands]
Pairs ==
  [vehicle : {[d \in Drivers |-> IF d = d1 THEN v ELSE NoVehicle] : v \in SampleVehicles},
   cargo : SampleCargoes,
   geo : {[d \in Drivers |-> IF d = d1 THEN 0 ELSE NoPlace]},
   status : {[d \in Drivers |-> "ONLINE"]}, moves : {0}]

\* Three vehicles of any kinds that suit goods equally or differently.
Kinds ==
  {[Truck EXCEPT !.type = t, !.capacity = n] :
     t \in {"TRAILER", "TIPPER_TRUCK", "OTHER"}, n \in {1, 2, 100}}
MixedFleets ==
  [vehicle : [Drivers -> Kinds], cargo : {Goods, [Goods EXCEPT !.cargoType = "PACKAGED"]},
   geo : {[d \in Drivers |-> IF d = d1 THEN 0 ELSE NoPlace]},
   status : {[d \in Drivers |-> "ONLINE"]}, moves : {0}]

AllScenarios == Races \cup Pairs \cup MixedFleets

Interchangeable == Permutations(Drivers \ {d1})
=============================================================================
