CONSTANTS
  Quantities = {1, 2}
  Prices = {6, 12}
  MaxDeals = 4

\* A history of MaxDeals deals, all undone, goes no further.
CHECK_DEADLOCK FALSE

SPECIFICATION Spec

INVARIANTS
  ReportedProfitStands
