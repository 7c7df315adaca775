SPECIFICATION Spec
CONSTANTS
  d1 = d1
  d2 = d2
  d3 = d3
  Drivers = {d1, d2, d3}
  Distances = {0, 1, 2}
  Radius = 1
  Count = 2
  Closest = 1
  Limit = 2
  MaxFailures = 1
  NoPlace = NoPlace
  NoVehicle = NoVehicle
  NoCargo = NoCargo
  Scenarios <- AllScenarios
SYMMETRY Interchangeable
INVARIANTS TypeOK OfferedWereOnline NearestFirst FewAreAllOffered LighterStillFits DemandsOnlyRestrict BestIsSuggestedFirst
CHECK_DEADLOCK FALSE
