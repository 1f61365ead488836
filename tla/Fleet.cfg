SPECIFICATION Spec
CONSTANTS
  Drivers = {d1}
  Vehicles = {v1}
  Documents = {p1}
  Owner <- Ownership
  Subject <- About
  Statuses = {"active", "maintenance"}
  Callers = {c1, c2}
  None = None
  Faults = {"db","redis","crash"}
SYMMETRY Symmetry
INVARIANTS TypeOK OnDutyWasCleared FoundWasFit StaleOnlyByRace IndexFollows
PROPERTY DecisionStands
