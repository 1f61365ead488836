SPECIFICATION FSpec
CONSTANTS
  Bids = {b1, b2}
  Asks = {a1}
  Prices = {1}
  NoAsk = NoAsk
  Callers = {t1, t2}
  Consumer = cons
  Free = Free
  Lag = 0
  MaxContracts = 2
  Faults = {"db", "ack", "crash"}
  b1 = b1
  b2 = b2
  s1 = s1
  s2 = s2
  Users = {s1, s2}
  Escrow = escrow
  BidsOf <- MyBids
  Funds <- OnePays
  ClientRefs = {r1}
  Cap = 1
INVARIANTS
  TypeOK OneContractPerBid HoldHasContract DepositsCovered
PROPERTY Lifecycle
SYMMETRY Symmetry
