CONSTANTS
  None = None
  ali = ali
  sara = sara
  bank = bank
  till = till
  box = box
  posRial = posRial
  posDirham = posDirham
  equity = equity
  rent = rent
  fee = fee
  rial = rial
  dirham = dirham
  Parties = {ali, bank, posRial, posDirham, equity}
  KindOf <- MCKindOf
  CurrencyOf <- MCCurrencyOf
  Currencies = {rial, dirham}
  Base = rial
  Quantities = {1}
  Prices = {2, 5}
  Amounts = {1}
  OpeningAmounts <- MCOpeningAmounts
  Days = {1, 2}
  RateValues = {1, 3}
  MaxVouchers = 3
  MaxInactive = 0
  MaxResets = 0

\* With every document of the bound posted and voided nothing is left to do.
CHECK_DEADLOCK FALSE

SPECIFICATION Spec

INVARIANTS
  TypeOK
  NumbersUnique
  VoidIffReversed
  KeysUnique
  BalancesFollowEffect
  InventoryFollowsDeals
  NetWorthExplained
  StatementsFollowEffect

PROPERTIES
  LedgerImplementsRegister
