---------------------------- MODULE LedgerBalances ----------------------------
(***************************************************************************)
(* ledger/balances.py over the tables of Ledger: no balance is stored, each *)
(* is the sum of the posted lines at the moment it is asked for.  The       *)
(* properties that need such sums or read the audit trail.                  *)
(***************************************************************************)
EXTENDS Ledger, Functions

\* The balance the documents of S alone would make.
BalanceOf(S, p, c) ==
  SumFunctionOnSet([id \in S |-> AccountTotal(voucher[id].lines, p, c)], S)

\* party_balances: what p owes in c (positive) or is owed (negative).
Balance(p, c) == BalanceOf(Rows, p, c)

\* The documents somebody entered, reversals left out.
Entered == {id \in Rows : voucher[id].reverses = 0}

\* A document is in effect unless a document in effect reverses it.
InEffect[id \in Rows] ==
  \A r \in Rows : voucher[r].reverses = id => ~InEffect[r]

\* Every balance is the sum of the entered documents that are in effect: a void
\* takes back exactly what its document did, on every account and in every
\* currency, and voiding the reversal brings exactly that back.
BalancesFollowEffect ==
  \A p \in Parties, c \in Currencies :
    Balance(p, c) = BalanceOf({id \in Entered : InEffect[id]}, p, c)

\* balances.py:7-9 says a voided document and its reversal sum to nothing.
\* void_voucher also accepts a reversal, which puts the voided document's
\* amounts back into every balance while its status stays "void".
VoidedHaveNoEffect ==
  \A p \in Parties, c \in Currencies :
    Balance(p, c) = BalanceOf({id \in Entered : voucher[id].status = "final"}, p, c)

\* The deals in c that still stand.
StandingDeals(c) ==
  {id \in Rows : /\ voucher[id].deal # None
                /\ voucher[id].deal.currency = c
                /\ voucher[id].status = "final"}

\* The one stored running total of the program agrees with the documents: the
\* stock of a currency is what its deals that still stand bought less what they
\* sold, through voids and deletions in any order and short sales.
InventoryFollowsDeals ==
  \A c \in Foreign :
    position[c].quantity =
      SumFunctionOnSet([id \in StandingDeals(c) |-> SignedQuantity(voucher[id].deal)],
                       StandingDeals(c))

-----------------------------------------------------------------------------
(* The trail in the audit log *)

\* The log rows written since the documents were last reset.
SinceReset ==
  {i \in DOMAIN audit : \A j \in DOMAIN audit : audit[j].action = "reset" => j < i}

Logged(action, object) ==
  {i \in SinceReset : audit[i] = Log(action, object)}

\* A missing number can be explained: each number issued since the last reset is
\* either the number of a document or of one logged deletion, never both; and
\* every document has one posting and, if void, one void in the log.
NumbersAccountedFor ==
  /\ \A n \in 1..sequence :
       Cardinality(Logged("delete", n))
         = IF \E id \in Rows : voucher[id].number = n THEN 0 ELSE 1
  /\ \A id \in Rows :
       /\ Cardinality(Logged("post", id)) = 1
       /\ Cardinality(Logged("void", id))
            = IF voucher[id].status = "void" THEN 1 ELSE 0

-----------------------------------------------------------------------------
(* Steps *)

\* A document entered by hand touches no inactive customer, bank, cashbox or
\* category: each operation and its form check is_active on their own.  Reversals
\* and imported balances do touch them, and the system accounts are not checked.
\* (A change of is_active while the request runs is not seen by the service,
\* which asks the object the form has loaded; here the request is one step.)
InactivePartiesRest ==
  [][\A id \in (DOMAIN voucher') \ Rows :
       voucher'[id].reverses = 0 /\ voucher'[id].key = None =>
         \A i \in DOMAIN voucher'[id].lines :
           LET p == voucher'[id].lines[i].party
           IN  p \in active \/ KindOf[p] \in {"position", "equity"}]_vars

=============================================================================
