SPECIFICATION Spec
CONSTANTS
  Bids = {b1}
  Asks = {a1, a2}
  Prices = {1, 2}
  NoAsk = NoAsk
  Callers = {t1}
  Consumer = cons
  Free = Free
  Lag = 1
  MaxContracts = 2
  Faults = {"db", "kafka", "ack", "crash"}
INVARIANTS MatchedHasContract PriceWasQuoted DepositRequested
PROPERTY AcceptsCurrentQuote
SYMMETRY Symmetry
