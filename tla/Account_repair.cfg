SPECIFICATION Spec
CONSTANTS
  Addresses = {a1}
  Callers = {c1, c2}
  Kinds = {"profile"}
  None = None
  Faults = {"crash"}
INVARIANT LoginRepairs
