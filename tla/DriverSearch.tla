----------------------------- MODULE DriverSearch -----------------------------
(***************************************************************************)
(* The search for drivers of a new booking: findMatchingDrivers over        *)
(* LocationGateway.findClosestDriver, while drivers move, go online and     *)
(* offline.  The set it returns is the one BookingAllocation offers the     *)
(* booking to.                                                              *)
(*                                                                         *)
(* The place of a driver is its distance from the pickup of the booking.    *)
(* Vehicles do not change while the server runs: nothing calls an update    *)
(* of their columns or of their assignment.                                 *)
(***************************************************************************)
EXTENDS VehicleMatching

CONSTANTS
  Drivers,      \* ids of Driver entities
  Distances,    \* from the pickup, in km
  Radius,       \* of GEOSEARCH: 10 km
  Count,        \* COUNT of GEOSEARCH: 10
  Closest,      \* drivers that findClosestDriver returns: 3
  Limit,        \* of findMatchingDrivers: 5
  MaxFailures,  \* bound on the vehicles that cannot be fetched
  NoPlace, NoVehicle, NoCargo,  \* absent values
  Scenarios     \* fleets, bookings and places of the drivers to start from

Statuses == {"none", "ONLINE", "ON_TRIP"}

ASSUME SearchAssumption ==
  /\ IsFiniteSet(Drivers) /\ Distances \subseteq Nat /\ Radius \in Nat
  /\ Count \in Nat \ {0} /\ Closest \in Nat \ {0} /\ MaxFailures \in Nat
  /\ Limit \in Nat /\ Limit >= Closest
ASSUME AbsenceAssumption ==
  NoPlace \notin Distances /\ NoVehicle \notin Vehicles /\ NoCargo \notin Cargoes
ASSUME ScenariosAssumption ==
  \A s \in Scenarios :
    /\ s.vehicle \in [Drivers -> Vehicles \cup {NoVehicle}]
    /\ s.cargo \in Cargoes \cup {NoCargo}
    /\ s.geo \in [Drivers -> Distances \cup {NoPlace}]
    /\ s.status \in [Drivers -> Statuses]
    /\ s.moves \in Nat

VARIABLES
  geo,      \* Redis: driver-locations
  status,   \* Redis: driver-status
  vehicle,  \* Postgres: the vehicle assigned to each driver
  cargo,    \* cargoRequirements of the booking
  moves,    \* bound: what the drivers may still do
  pc,       \* where the search is
  at,       \* where GEOSEARCH saw each driver
  near,     \* the drivers it returned, closest first
  asked,    \* how many of them were asked for their status
  online,   \* positions in near of those that were ONLINE when asked
  matches,  \* what the search returns
  failed,   \* drivers whose vehicle could not be fetched
  steady,   \* history: drivers ONLINE ever since the search began
  seen      \* history: drivers ONLINE at some moment since then

presence == <<geo, status, moves>>
booking == <<vehicle, cargo>>
search == <<pc, at, near, asked, online, matches, failed>>
vars == <<presence, booking, search, steady, seen>>

Matches == [driver : Drivers, distance : Distances, matchScore : 0 .. 100]

TypeOK ==
  /\ geo \in [Drivers -> Distances \cup {NoPlace}]
  /\ status \in [Drivers -> Statuses]
  /\ vehicle \in [Drivers -> Vehicles \cup {NoVehicle}]
  /\ cargo \in Cargoes \cup {NoCargo}
  /\ moves \in Nat
  /\ pc \in {"idle", "ask", "rows", "match", "done", "failed"}
  /\ at \in [Drivers -> Distances \cup {NoPlace}]
  /\ near \in Seq(Drivers)
  /\ asked \in 0 .. Len(near)
  /\ online \in SUBSET (1 .. asked)
  /\ matches \in SUBSET Matches
  /\ failed \in SUBSET Drivers
  /\ steady \in SUBSET Drivers /\ seen \in SUBSET Drivers

Init ==
  /\ \E s \in Scenarios :
       /\ geo = s.geo /\ status = s.status /\ moves = s.moves
       /\ vehicle = s.vehicle /\ cargo = s.cargo
  /\ pc = "idle"
  /\ at = [d \in Drivers |-> NoPlace]
  /\ near = <<>> /\ asked = 0 /\ online = {}
  /\ matches = {} /\ failed = {}
  /\ steady = {} /\ seen = {}

InRadius(place) == {d \in Drivers : place[d] # NoPlace /\ place[d] <= Radius}

\* (A bug: the last numbers are taken instead of the first.)
First_Last(n, N) == {k \in N : Cardinality({j \in N : j > k}) < n}

\* The first n numbers of a set of them.
First(n, N) == {k \in N : Cardinality({j \in N : j < k}) < n}

\* The drivers that findClosestDriver returns.
Considered == {near[k] : k \in First(Closest, online)}

\* A driver who can take the booking.
Fit(d) == cargo = NoCargo \/ (vehicle[d] # NoVehicle /\ CanHandle(vehicle[d], cargo))

Offered == {m.driver : m \in matches}

----------------------------------------------------------------------------
\* Bugs this code could have had: each stands in for the definition of the
\* same parameters in a mutation of a run, and is used nowhere else.

\* Whoever has a status is taken to be available.
AskStatus_Any ==
  /\ pc = "ask"
  /\ asked' = asked + 1
  /\ online' = IF status[near[asked']] = "none" THEN online ELSE online \cup {asked'}
  /\ pc' = CASE asked' < Len(near) -> "ask"
             [] asked' = Len(near) /\ online' = {} -> "done"
             [] OTHER -> "rows"
  /\ UNCHANGED <<presence, booking, at, near, matches, failed, steady, seen>>

\* The loop ends one driver early.
AskStatus_SkipsLast ==
  /\ pc = "ask"
  /\ asked' = asked + 1
  /\ online' = IF status[near[asked']] = "ONLINE" THEN online \cup {asked'} ELSE online
  /\ pc' = CASE asked' + 1 < Len(near) -> "ask"
             [] asked' + 1 >= Len(near) /\ online' = {} -> "done"
             [] OTHER -> "rows"
  /\ UNCHANGED <<presence, booking, at, near, matches, failed, steady, seen>>

----------------------------------------------------------------------------
\* What drivers do: goOnline, goOffline, setStatus, updateLocation.

PutStatus(d, s) ==
  /\ moves > 0
  /\ moves' = moves - 1
  /\ status' = [status EXCEPT ![d] = s]
  /\ steady' = IF s = "ONLINE" THEN steady ELSE steady \ {d}
  /\ seen' = IF s = "ONLINE" THEN seen \cup {d} ELSE seen
  /\ UNCHANGED <<geo, booking, search>>

GoOnline(d) == PutStatus(d, "ONLINE")

GoOffline(d) == PutStatus(d, "none")

\* setStatus; OFFLINE removes the field, ONLINE is GoOnline.
SetOnTrip(d) == PutStatus(d, "ON_TRIP")

\* GEOADD; a driver that goes offline or disconnects stays in the index.
UpdateLocation(d, km) ==
  /\ moves > 0
  /\ moves' = moves - 1
  /\ geo' = [geo EXCEPT ![d] = km]
  /\ UNCHANGED <<status, booking, search, steady, seen>>

----------------------------------------------------------------------------
\* The search.

\* The closest Count drivers S of those in the radius, in either order of
\* equal distances.
ClosestSets ==
  {S \in SUBSET InRadius(geo) :
     /\ Cardinality(S) <= Count
     /\ S # InRadius(geo) => Cardinality(S) = Count
     /\ \A d \in S, e \in InRadius(geo) \ S : geo[d] <= geo[e]}

Ascending(S) ==
  {s \in [1 .. Cardinality(S) -> S] :
     \A i, j \in 1 .. Cardinality(S) : i < j => s[i] # s[j] /\ geo[s[i]] <= geo[s[j]]}

GeoSearch ==
  /\ pc = "idle"
  /\ \E S \in ClosestSets : near' \in Ascending(S)
  /\ at' = geo
  /\ pc' = IF near' = <<>> THEN "done" ELSE "ask"
  /\ steady' = {d \in Drivers : status[d] = "ONLINE"}
  /\ seen' = steady'
  /\ UNCHANGED <<presence, booking, asked, online, matches, failed>>

\* HGET of the next driver's status; after the last, the first are returned.
AskStatus ==
  /\ pc = "ask"
  /\ asked' = asked + 1
  /\ online' = IF status[near[asked']] = "ONLINE" THEN online \cup {asked'} ELSE online
  /\ pc' = CASE asked' < Len(near) -> "ask"
             [] asked' = Len(near) /\ online' = {} -> "done"
             [] OTHER -> "rows"
  /\ UNCHANGED <<presence, booking, at, near, matches, failed, steady, seen>>

Match(d, score) == [driver |-> d, distance |-> at[d], matchScore |-> score]

\* The rows of the drivers, in no particular order.  A booking without
\* requirements is offered to all of them.
FetchDrivers ==
  /\ pc = "rows"
  /\ \/ /\ cargo = NoCargo
        /\ pc' = "done"
        /\ \E D \in SUBSET Considered :
             /\ Cardinality(D) <= Limit
             /\ D # Considered => Cardinality(D) = Limit
             /\ matches' = {Match(d, 100) : d \in D}
     \/ cargo # NoCargo /\ pc' = "match" /\ UNCHANGED matches
  /\ UNCHANGED <<presence, booking, at, near, asked, online, failed, steady, seen>>

\* The vehicle of each driver is fetched and validated; one that cannot be
\* fetched is passed over.  The order of the result is of no consequence, as
\* all drivers are sent the booking.
MatchVehicles ==
  /\ pc = "match"
  /\ pc' = "done"
  /\ failed' \in {F \in SUBSET Considered : Cardinality(F) <= MaxFailures}
  /\ matches' = {Match(d, ValidateVehicle(vehicle[d], cargo).matchScore) :
                   d \in {e \in Considered \ failed' : Fit(e)}}
  /\ UNCHANGED <<presence, booking, at, near, asked, online, steady, seen>>

\* An await rejects, or a coordinate of the pickup is 0: create goes on
\* without drivers.
Fail ==
  /\ pc \in {"idle", "ask", "rows"}
  /\ pc' = "failed"
  /\ UNCHANGED <<presence, booking, at, near, asked, online, matches, failed, steady, seen>>

Next ==
  \/ \E d \in Drivers : GoOnline(d) \/ GoOffline(d) \/ SetOnTrip(d)
  \/ \E d \in Drivers, km \in Distances : UpdateLocation(d, km)
  \/ GeoSearch \/ AskStatus \/ FetchDrivers \/ MatchVehicles \/ Fail

Spec == Init /\ [][Next]_vars

----------------------------------------------------------------------------
\* Properties.

\* However long the answers of Redis take, a driver that is offered the booking
\* was ONLINE at some moment of the search.
OfferedWereOnline == Offered \subseteq seen

\* No driver is preferred to a closer one who was ONLINE all along and can take
\* the booking, although the statuses are read one after another.
NearestFirst ==
  \A m \in matches, e \in steady \ failed :
    e \in InRadius(at) /\ at[e] < m.distance /\ Fit(e) => e \in Offered

\* Where few drivers are about, none is missed: who was in the radius and ONLINE
\* all along and can take the booking is offered it, if no more drivers are in
\* the radius, or have been ONLINE there, than the search looks at.
FewAreAllOffered ==
  pc = "done" /\ Cardinality(InRadius(at)) <= Count
    /\ Cardinality(InRadius(at) \cap seen) <= Closest
  => \A e \in (steady \cap InRadius(at)) \ failed : Fit(e) => e \in Offered

\* Whether a driver's vehicle is suitable does not depend on how little there
\* is to carry: who is offered a load would be offered a lighter one.
LighterStillFits ==
  cargo # NoCargo =>
    \A d \in Offered : \A w \in 0 .. cargo.weight :
      CanHandle(vehicle[d], [cargo EXCEPT !.weight = w])

\* A requirement less never makes a vehicle unsuitable; but a tipper takes
\* packaged goods only if they are to be dumped.
DemandsOnlyRestrict ==
  cargo # NoCargo =>
    \A d \in Offered : \A N \in SUBSET cargo.needs :
      \/ CanHandle(vehicle[d], [cargo EXCEPT !.needs = N])
      \/ vehicle[d].type = "TIPPER_TRUCK" /\ cargo.cargoType = "PACKAGED"

\* The fleets the vehicles form: any of them that are AVAILABLE, in any order the
\* database returns them in.
Fleets ==
  LET owned == {d \in Drivers : vehicle[d] # NoVehicle}
  IN UNION {{[i \in 1 .. n |-> vehicle[order[i]]] :
               order \in {o \in [1 .. n -> owned] :
                            \A i, j \in 1 .. n : i # j => o[i] # o[j]}} :
            n \in 0 .. Cardinality(owned)}

\* The vehicle found optimal for a booking is the first of those suggested for it,
\* though one is the survivor of a pass over the fleet and the others are sorted:
\* equals are ranked the same way.  Asking for fewer suggestions only cuts the list.
\* As neither vehicles nor requirements change, the beginning of the search will do.
BestIsSuggestedFirst ==
  pc = "idle" /\ cargo # NoCargo =>
    \A fleet \in Fleets :
      LET all == SuggestVehicles(fleet, cargo, Len(fleet))
      IN /\ FindBestMatch(fleet, cargo) = (IF all = <<>> THEN 0 ELSE all[1])
         /\ \A n \in 0 .. Len(fleet) :
              SuggestVehicles(fleet, cargo, n) = SubSeq(all, 1, IF n < Len(all) THEN n ELSE Len(all))

\* "Select top 3 drivers" of those validated (IMPLEMENTATION_SUMMARY.md:146-153):
\* a customer is not told that there is nobody while a driver in the radius
\* was ONLINE all along and can take the booking.
FitDriverIsOffered ==
  pc = "done" /\ matches = {} =>
    \A e \in (steady \cap InRadius(at)) \ failed : ~Fit(e)

=============================================================================
