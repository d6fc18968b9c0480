CONSTANTS
  w1 = w1
  w2 = w2
  sale1 = sale1
  sale2 = sale2
  receipt = receipt
  transfer = transfer
  remittance = remittance
  aliRial = aliRial
  aliDirham = aliDirham
  saraRial = saraRial
  Workers = {w1, w2}
  Deals = {sale1, sale2}
  Payments = {receipt, transfer, remittance}
  Accounts = {aliRial, aliDirham, saraRial}
  Obligations <- MCObligations
  Effect <- MCEffect
  Amounts = {1, 2}
  MaxRequests = 4

\* When every request of the bound has ended nothing is left to do.
CHECK_DEADLOCK FALSE

SYMMETRY WorkerSymmetry

SPECIFICATION Spec

INVARIANTS
  TypeOK
  InvoiceNotExceeded
  PaymentNotExceeded
  AllocationsStand
