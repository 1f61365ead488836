SPECIFICATION FairSpec
CONSTANTS
  Bids = {b1}
  Asks = {a1, a2}
  Prices = {1}
  NoAsk = NoAsk
  Callers = {t1}
  Consumer = cons
  Free = Free
  Lag = 1
  MaxContracts = 2
  Faults = {"ack", "db"}
PROPERTIES OfferAnswered MutexReleased
