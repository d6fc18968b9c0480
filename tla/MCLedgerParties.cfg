CONSTANTS
  None = None
  ali = ali
  sara = sara
  bank = bank
  till = till
  box = box
  posRial = posRial
  posDirham = posDirham
  equity = equity
  rent = rent
  fee = fee
  rial = rial
  dirham = dirham
  Parties = {ali, sara, bank, till, box, posRial, posDirham, equity, rent, fee}
  KindOf <- MCKindOf
  CurrencyOf <- MCCurrencyOf
  Currencies = {rial, dirham}
  Base = rial
  Quantities = {1}
  Prices = {2}
  Amounts = {1}
  OpeningAmounts <- MCOpeningAmounts
  Days = {1, 2}
  RateValues = {1, 3}
  MaxVouchers = 2
  MaxInactive = 1
  MaxResets = 1

\* With every document of the bound posted and voided nothing is left to do.
CHECK_DEADLOCK FALSE

SYMMETRY CustomerSymmetry

SPECIFICATION Spec

INVARIANTS
  NetWorthMirrored
  
  

PROPERTIES
  InactivePartiesRest
