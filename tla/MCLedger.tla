------------------------------ MODULE MCLedger ------------------------------
(* A small exchange for TLC: customers, accounts in the base currency rial    *)
(* and in the foreign currency dirham, one category of each kind and the      *)
(* system accounts.  A cfg takes the parties its question needs.              *)
EXTENDS Statements, LedgerRegister, TLC

CONSTANTS ali, sara, bank, till, box, posRial, posDirham, equity, rent, fee,
          rial, dirham

MCKindOf ==
  [p \in Parties |->
     CASE p \in {ali, sara}            -> "customer"
       [] p \in {bank, till}           -> "bank"
       [] p = box                      -> "cashbox"
       [] p \in {posRial, posDirham}   -> "position"
       [] p = equity                   -> "equity"
       [] p = rent                     -> "expense"
       [] p = fee                      -> "income"]

MCCurrencyOf ==
  [p \in Parties |->
     CASE p \in {bank, till, posRial} -> rial
       [] p \in {box, posDirham}      -> dirham
       [] OTHER                       -> None]

MCOpeningAmounts == {-1}

\* The two customers differ in nothing; used by safety runs that have both.
CustomerSymmetry == Permutations({ali, sara})
=============================================================================
