---------------------------- MODULE VehicleMatching ----------------------------
(***************************************************************************)
(* Which vehicle takes which cargo, and how well: validateVehicle of        *)
(* LogisticsService over the table of compatible cargo types and the        *)
(* transport strategies.                                                    *)
(*                                                                         *)
(* Masses are whole kilograms, volumes whole cubic metres; 0 stands for a   *)
(* null column or an omitted requirement, which the code treats alike.      *)
(***************************************************************************)
EXTENDS Integers, Sequences, FiniteSets

VehicleTypes == {"TRAILER", "TIPPER_TRUCK", "BUS", "MINING_TRANSPORT", "OTHER"}
CargoTypes == {"BULK", "PACKAGED", "PASSENGERS", "MINING", "GENERAL"}
Features == {"flatbed", "dump"}
Demands == Features \cup {"seats"}

\* The columns of a vehicle, and the requirements of a booking, that count.
Vehicles ==
  [type : VehicleTypes, vehicleCapacity : Nat, capacity : Nat, volume : Nat,
   has : SUBSET Features, seats : Nat]
Cargoes ==
  [cargoType : CargoTypes, weight : Nat, volume : Nat, needs : SUBSET Demands]

\* VEHICLE_CARGO_COMPATIBILITY
Compatible(type) ==
  CASE type = "TRAILER" -> {"PACKAGED", "GENERAL", "BULK"}
    [] type = "TIPPER_TRUCK" -> {"BULK", "MINING", "PACKAGED"}
    [] type = "BUS" -> {"PASSENGERS"}
    [] type = "MINING_TRANSPORT" -> {"MINING", "BULK"}
    [] OTHER -> {"GENERAL", "PACKAGED"}

\* A bus counts heads: the weight over 75 kg, rounded up.
Load(type, c) == IF type = "BUS" THEN (c.weight + 74) \div 75 ELSE c.weight

\* The load is between `low` and `high` per cent of the capacity.
Utilized(load, cap, low, high) == low * cap <= 100 * load /\ 100 * load <= high * cap

Points(cond, n) == IF cond THEN n ELSE 0

----------------------------------------------------------------------------
\* Bugs this code could have had: each stands in for the definition of the
\* same parameters in a mutation of a run, and is used nowhere else.

\* The trailer's test of requiresDump is inverted.
TrailerSuits_Inverted(c) == c.cargoType # "PASSENGERS" /\ "dump" \in c.needs

\* The score is not held down to 100.
Capped_BelowOnly(score) == IF score < 0 THEN 0 ELSE score

\* A vehicle that would be half empty is refused instead of marked down.
MatchScore_RefusesSmallLoads(type, c, cap) ==
  [canHandle |-> c.weight <= cap /\ cap <= 2 * c.weight, matchScore |-> 50]

----------------------------------------------------------------------------
\* The strategy of each type: the cargo it can handle, and the points of a load
\* on a vehicle of capacity `cap` before they are capped.  FlatbedStrategy is
\* left out, as no vehicle has its type.

TrailerSuits(c) == c.cargoType # "PASSENGERS" /\ "dump" \notin c.needs

TrailerScore(c, cap) ==
  75 + Points(c.cargoType = "PACKAGED", 20) + Points(c.cargoType = "GENERAL", 15)
     + Points("flatbed" \in c.needs, -25) + Points(c.cargoType = "BULK", -15)
     + Points(Utilized(c.weight, cap, 75, 95), 10) + Points(100 * c.weight < 40 * cap, -10)

TipperSuits(c) ==
  /\ c.cargoType # "PASSENGERS"
  /\ c.cargoType \in {"BULK", "MINING", "GENERAL"} \/ "dump" \in c.needs

TipperScore(c, cap) ==
  70 + Points(c.cargoType = "BULK", 25) + Points("dump" \in c.needs, 20)
     + Points(c.cargoType = "MINING", 15) + Points("flatbed" \in c.needs, -30)
     + Points(Utilized(c.weight, cap, 80, 95), 10) + Points(100 * c.weight < 50 * cap, -5)

BusSuits(c) == c.cargoType = "PASSENGERS"

BusScore(c, cap) ==
  90 + Points("seats" \in c.needs, 10) + Points(Utilized(Load("BUS", c), cap, 70, 90), 5)

MiningSuits(c) == c.cargoType # "PASSENGERS"

MiningScore(c, cap) ==
  70 + Points(c.cargoType = "MINING", 30) + Points(c.cargoType = "BULK", 20)
     + Points("dump" \in c.needs, 10) + Points(c.weight > 10000, 15)
     + Points(c.cargoType = "PACKAGED", -20) + Points(Utilized(c.weight, cap, 85, 98), 10)

GenericSuits(c) == c.cargoType \in {"GENERAL", "PACKAGED"} /\ c.needs = {}

GenericScore(c, cap) ==
  50 + Points(c.cargoType = "GENERAL", 15) + Points(c.cargoType = "PACKAGED", 10)
     + Points(Utilized(c.weight, cap, 70, 90), 10)

\* createTransport: the strategy of a type; the generic one is the fallback.
Suits(type, c) ==
  CASE type = "TRAILER" -> TrailerSuits(c)
    [] type = "TIPPER_TRUCK" -> TipperSuits(c)
    [] type = "BUS" -> BusSuits(c)
    [] type = "MINING_TRANSPORT" -> MiningSuits(c)
    [] OTHER -> GenericSuits(c)

RawScore(type, c, cap) ==
  CASE type = "TRAILER" -> TrailerScore(c, cap)
    [] type = "TIPPER_TRUCK" -> TipperScore(c, cap)
    [] type = "BUS" -> BusScore(c, cap)
    [] type = "MINING_TRANSPORT" -> MiningScore(c, cap)
    [] OTHER -> GenericScore(c, cap)

Capped(score) == IF score > 100 THEN 100 ELSE IF score < 0 THEN 0 ELSE score

Refused == [canHandle |-> FALSE, matchScore |-> 0]

\* matchScore of the strategy of a type.
MatchScore(type, c, cap) ==
  IF Suits(type, c) /\ Load(type, c) <= cap
  THEN [canHandle |-> TRUE, matchScore |-> Capped(RawScore(type, c, cap))]
  ELSE Refused

\* The capacity the strategies are given: vehicleCapacity || capacity || 5000.
RatedCapacity(v) ==
  CASE v.vehicleCapacity # 0 -> v.vehicleCapacity
    [] v.vehicleCapacity = 0 /\ v.capacity # 0 -> v.capacity
    [] OTHER -> 5000

\* The checks of validateVehicle that come before the strategy.
MeetsRequirements(v, c) ==
  /\ c.cargoType \in Compatible(v.type)
  /\ v.vehicleCapacity # 0 => c.weight <= v.vehicleCapacity
  /\ c.volume # 0 /\ v.volume # 0 => c.volume <= v.volume
  /\ c.needs \cap Features \subseteq v.has
  /\ "seats" \in c.needs => v.seats >= 1

ValidateVehicle(v, c) ==
  IF MeetsRequirements(v, c) THEN MatchScore(v.type, c, RatedCapacity(v)) ELSE Refused

CanHandle(v, c) == ValidateVehicle(v, c).canHandle
Score(v, c) == ValidateVehicle(v, c).matchScore

----------------------------------------------------------------------------
\* Choosing from a fleet, the sequence of vehicles a query has returned.

\* (A bug: of equals the last is taken.)
FindBestMatch_LastOfEquals(fleet, c) ==
  LET best[i \in 0 .. Len(fleet)] ==
        IF i = 0 THEN 0
        ELSE IF CanHandle(fleet[i], c)
                  /\ (best[i - 1] = 0 \/ Score(fleet[i], c) >= Score(fleet[best[i - 1]], c))
             THEN i ELSE best[i - 1]
  IN best[Len(fleet)]

\* findBestMatchFromVehicles, of findOptimalVehicle and findOptimalVehicleGlobal: the
\* position of the best match, 0 if nothing fits.
FindBestMatch(fleet, c) ==
  LET best[i \in 0 .. Len(fleet)] ==
        IF i = 0 THEN 0
        ELSE IF CanHandle(fleet[i], c)
                  /\ (best[i - 1] = 0 \/ Score(fleet[i], c) > Score(fleet[best[i - 1]], c))
             THEN i ELSE best[i - 1]
  IN best[Len(fleet)]

\* suggestVehicles: those that fit, stably sorted by score, the first of them.
SuggestVehicles(fleet, c, limit) ==
  LET fit == {i \in 1 .. Len(fleet) : CanHandle(fleet[i], c)}
      Before(i) ==
        {j \in fit : \/ Score(fleet[j], c) > Score(fleet[i], c)
                     \/ Score(fleet[j], c) = Score(fleet[i], c) /\ j < i}
  IN [r \in 1 .. (IF Cardinality(fit) < limit THEN Cardinality(fit) ELSE limit) |->
        CHOOSE i \in fit : Cardinality(Before(i)) = r - 1]

=============================================================================
