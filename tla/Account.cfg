SPECIFICATION Spec
CONSTANTS
  Addresses = {a1, a2}
  Callers = {c1, c2}
  Kinds = {"user", "phone", "profile", "addresses", "devices"}
  None = None
  Faults = {"db", "redis", "crash"}
SYMMETRY Symmetry
INVARIANTS TypeOK StaleOnlyByRace WholeAccount OneDefaultUnlessCrossed
