SPECIFICATION Spec
CONSTANTS
  Emails = {e1}
  Roles = {"shipper", "driver"}
  Shipper = "shipper"
  Callers = {t1, t2}
  MaxSessions = 4
  Faults = {}
INVARIANT ReuseEndsSessions
