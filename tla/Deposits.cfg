SPECIFICATION PFairSpec
CONSTANTS
  Users = {u1}
  Payers = {u1}
  Savers = {u1}
  Escrow = escrow
  Seeded = TRUE
  Funds = 1
  Parties = {u1, escrow}
  Amounts = {1}
  Refs = {c1, c2}
  NoRef = noref
  Sessions = {w, s}
  Scan = TRUE
  Faults = {"db", "crash"}
  Worker = w
  Contracts = {c1, c2}
  TransferRefs = {c2}
  Cap = 1
  Rebalances = TRUE
INVARIANTS
  PipelineTypeOK NoneForgotten
PROPERTIES
  Serialized HoldDelivered
