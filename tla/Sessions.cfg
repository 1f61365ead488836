SPECIFICATION Spec
CONSTANTS
  Emails = {e1, e2}
  Roles = {"shipper", "driver"}
  Shipper = "shipper"
  Callers = {t1, t2}
  MaxSessions = 3
  Faults = {"db"}
SYMMETRY Symmetry
INVARIANTS TypeOK OneTokenPerLogin LogoutEnds
PROPERTY RoleIsKept
