CONSTANTS
  None = None
  w1 = w1
  w2 = w2
  usd = usd
  eur = eur
  Workers = {w1, w2}
  Keys = {usd, eur}
  Batches <- MCBatches
  Deltas <- MCDeltas
  MaxRequests = 4
  MaxResets = 0

\* When every request of the bound has ended nothing is left to do.
CHECK_DEADLOCK FALSE

SPECIFICATION Spec

INVARIANTS
  TypeOK
  StockFollowsDocuments
  NumbersUnique
  KeysUnique

PROPERTIES
  PostingImplementsRegister
