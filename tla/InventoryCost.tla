---------------------------- MODULE InventoryCost ----------------------------
(***************************************************************************)
(* The weighted-average cost arithmetic of ledger/services.py: what a deal *)
(* does to the InventoryPosition row of its currency, and what voiding or  *)
(* deleting the deal does to it.  Pure operators over a position record    *)
(* [quantity, avg]; Ledger applies them under its actions and              *)
(* InventoryHistory studies them alone.                                    *)
(*                                                                         *)
(* Numbers.  avg and prices count the smallest unit a DecimalField of the  *)
(* source can hold (10^-8); quantities are whole units of the currency.    *)
(* A division is rounded to the nearest unit, ties to even, as Decimal     *)
(* quantisation does when the row is saved.                                *)
(***************************************************************************)
EXTENDS Integers

BUY  == "buy"
SELL == "sell"

Sides == {BUY, SELL}

Position == [quantity : Int, avg : Int]

\* A currency nobody traded yet: get_or_create makes this row on first use.
EmptyPosition == [quantity |-> 0, avg |-> 0]

\* a / b to the nearest integer, ties to the even one (b positive).
RoundHalfEven(a, b) ==
  LET floor == a \div b
      twice == 2 * (a - b * floor)
      up    == twice > b \/ (twice = b /\ floor % 2 = 1)
  IN  IF up THEN floor + 1 ELSE floor

\* Variant for mutation: the plain mean of the old average and the new price.
AverageAfterBuyUnweighted(pos, quantity, price) ==
  IF pos.quantity <= 0 THEN price ELSE RoundHalfEven(pos.avg + price, 2)

\* The average after quantity units at price are bought into pos.
AverageAfterBuy(pos, quantity, price) ==
  LET newQty == pos.quantity + quantity
  IN  IF newQty <= 0 THEN pos.avg
      ELSE IF pos.quantity <= 0 THEN price
      ELSE RoundHalfEven(pos.quantity * pos.avg + quantity * price, newQty)

\* _apply_inventory: the new row, and the cost and profit kept on the deal.
ApplyInventory(side, pos, quantity, price) ==
  IF side = BUY
  THEN [position |-> [quantity |-> pos.quantity + quantity,
                      avg      |-> AverageAfterBuy(pos, quantity, price)],
        cost     |-> pos.avg,
        realized |-> 0]
  ELSE LET cost   == IF pos.quantity > 0 THEN pos.avg ELSE price
           newQty == pos.quantity - quantity
       IN  [position |-> [quantity |-> newQty,
                          avg      |-> IF newQty = 0 THEN 0 ELSE pos.avg],
            cost     |-> cost,
            realized |-> (price - cost) * quantity]

\* Variant for mutation: the average is left as it is.
AverageAfterUnbuyKept(pos, deal) == pos.avg

\* The average left once a purchase is unwound out of pos.
AverageAfterUnbuy(pos, deal) ==
  LET newQty == pos.quantity - deal.quantity
  IN  IF newQty > 0
      THEN RoundHalfEven(pos.quantity * pos.avg - deal.quantity * deal.price, newQty)
      ELSE 0

\* _reverse_inventory: the row after the effect of deal is taken back.
ReverseInventory(pos, deal) ==
  IF deal.side = SELL
  THEN [quantity |-> pos.quantity + deal.quantity,
        avg      |-> IF pos.avg = 0 THEN deal.cost ELSE pos.avg]
  ELSE [quantity |-> pos.quantity - deal.quantity,
        avg      |-> AverageAfterUnbuy(pos, deal)]

\* What a deal adds to the stock of its currency.
SignedQuantity(deal) ==
  IF deal.side = BUY THEN deal.quantity ELSE -deal.quantity
=============================================================================
