SPECIFICATION FairSpec
CONSTANTS
  Events = {e1, e2}
  Users = {u1}
  Recipients <- Addressed
  Callers = {c1}
  None = None
  MaxUnread = 1
  Prefetch = 2
  Faults = {"db", "redis", "conn", "crash"}
INVARIANTS TypeOK NothingLost StaleOnlyByRace
PROPERTIES TakenInOnce EventSettled CounterConverges
