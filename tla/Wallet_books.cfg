SPECIFICATION Spec
CONSTANTS
  Users = {u1, u2}
  Escrow = escrow
  Seeded = TRUE
  Funds = 1
  Parties = {u1, u2}
  Amounts = {1}
  Refs = {r1, r2}
  NoRef = noref
  Sessions = {s1, s2, s3}
  Scan = TRUE
  Faults = {"db", "search", "crash"}
SYMMETRY Symmetry
INVARIANTS
  TypeOK
  InboxAtomic
  Balanced
  NoLockCycle
PROPERTY
  Serialized
