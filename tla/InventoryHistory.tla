--------------------------- MODULE InventoryHistory ---------------------------
(***************************************************************************)
(* One currency's InventoryPosition over a history of deals that are       *)
(* posted, voided and deleted: what the weighted average and the profit    *)
(* kept on each deal are worth after corrections.  The documents around    *)
(* the deals are in Ledger; here only ledger/services.py:333-399 runs,     *)
(* with quantities and prices large enough to round.                       *)
(***************************************************************************)
EXTENDS InventoryCost, Sequences, Functions

CONSTANTS
  Quantities,   \* quantities of a deal
  Prices,       \* unit prices, in the smallest unit of avg_unit_cost
  MaxDeals      \* bound: deals posted in one history

ASSUME HistoryAssumption ==
  /\ Quantities \subseteq Nat \ {0}
  /\ Prices \subseteq Nat \ {0}
  /\ MaxDeals \in Nat

VARIABLES
  position,   \* the InventoryPosition row
  deals,      \* the Deal rows in the order they were posted
  voided,     \* indices of the deals whose document was voided
  deleted,    \* indices of the deals whose document was deleted
  orderly     \* nothing sold short, corrections latest first, nothing rounded

vars == <<position, deals, voided, deleted, orderly>>

Standing == DOMAIN deals \ (voided \cup deleted)

\* The average of newQty units worth value is a whole number of smallest units.
Divides(newQty, value) == newQty <= 0 \/ value % newQty = 0

-----------------------------------------------------------------------------
Trade(side, quantity, price) ==
  LET applied == ApplyInventory(side, position, quantity, price)
      signed  == IF side = BUY THEN quantity ELSE -quantity
  IN  /\ Len(deals) < MaxDeals
      /\ position' = applied.position
      /\ deals' = Append(deals, [side |-> side, quantity |-> quantity,
                                 price |-> price, cost |-> applied.cost,
                                 realized |-> applied.realized])
      /\ orderly' = /\ orderly
                    /\ position.quantity + signed >= 0
                    /\ side = BUY => Divides(position.quantity + quantity,
                                             position.quantity * position.avg + quantity * price)
      /\ UNCHANGED <<voided, deleted>>

\* What a correction does to the stock.
TakeBack(i) ==
  /\ position' = ReverseInventory(position, deals[i])
  /\ orderly' = (orderly /\ \A j \in Standing : j <= i)
  /\ UNCHANGED deals

\* void_voucher and delete_voucher, each on the document of any standing deal.
Void(i) ==
  /\ TakeBack(i)
  /\ voided' = voided \cup {i}
  /\ UNCHANGED deleted

Delete(i) ==
  /\ TakeBack(i)
  /\ deleted' = deleted \cup {i}
  /\ UNCHANGED voided

Init ==
  /\ position = EmptyPosition
  /\ deals = << >>
  /\ voided = {}
  /\ deleted = {}
  /\ orderly = TRUE

Next ==
  \/ \E side \in Sides, q \in Quantities, p \in Prices : Trade(side, q, p)
  \/ \E i \in Standing : Void(i) \/ Delete(i)

Spec == Init /\ [][Next]_vars

-----------------------------------------------------------------------------
\* What a deal brought into the cash of the base currency, or took out of it.
Cash(deal) ==
  IF deal.side = SELL THEN deal.quantity * deal.price ELSE -(deal.quantity * deal.price)

\* The base currency the standing deals brought in, less what they cost.
CashFlow == SumFunctionOnSet([i \in Standing |-> Cash(deals[i])], Standing)

StockValue == position.quantity * position.avg

Realized(S) == SumFunctionOnSet([i \in S |-> deals[i].realized], S)

\* The deals the profit reports and the dashboard count: all but those of a DRAFT.
Reported == DOMAIN deals \ deleted

\* In an orderly history no profit is invented or lost: what the deals brought in,
\* plus the stock at its average cost, is the profit kept on the deals; through
\* any number of purchases, sales and corrections of the latest standing deal.
ProfitBooked == orderly => CashFlow + StockValue = Realized(Standing)

\* docs/user-guide.md:122 says that the financial effect of a reversed document is
\* cancelled.  reports/views.py filters out only drafts, and a reversal has no deal
\* of its own: the profit of a voided sale stays in every profit report.
ReportedProfitStands == Realized(Reported) = Realized(Standing)

\* The position the standing ones of the first n deals make, one after another.
Made[n \in 0..Len(deals)] ==
  IF n = 0 THEN EmptyPosition
  ELSE IF n \notin Standing THEN Made[n - 1]
  ELSE ApplyInventory(deals[n].side, Made[n - 1], deals[n].quantity, deals[n].price).position

\* In an orderly history corrections leave no trace: the position is the one the standing
\* deals alone would have made.
OrderlyUndoExact == orderly => position = Made[Len(deals)]
=============================================================================
