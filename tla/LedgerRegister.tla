---------------------------- MODULE LedgerRegister ----------------------------
(***************************************************************************)
(* The ledger seen as a register of numbered documents, without its        *)
(* accounts: the refinement mapping from Ledger to DocumentRegister.       *)
(***************************************************************************)
EXTENDS Ledger

\* The document the register shows for a row.
Shown(row) ==
  [state   |-> IF row.status = "final" THEN "live" ELSE "cancelled",
   cancels |-> IF row.reverses = 0 THEN 0 ELSE voucher[row.reverses].number]

Gone == [state |-> "removed", cancels |-> 0]

\* The document that got number n; its row is gone if it was deleted.
DocumentNumbered(n) ==
  IF \E id \in Rows : voucher[id].number = n
  THEN Shown(voucher[CHOOSE id \in Rows : voucher[id].number = n])
  ELSE Gone

Documents == [n \in 1..sequence |-> DocumentNumbered(n)]

Register == INSTANCE DocumentRegister WITH doc <- Documents

\* Seen as numbered documents, every step of the ledger issues, cancels, removes
\* or clears, or changes nothing: voiding never removes, deleting never touches
\* half of a cancelled pair, and no number is skipped or issued twice.
LedgerImplementsRegister == Register!Spec
=============================================================================
