------------------------ MODULE InventoryHistoryProofs ------------------------
(***************************************************************************)
(* A history of deals and corrections in one currency, for all quantities  *)
(* and prices and any number of deals.  First one deal, taken back at      *)
(* once; then orderly histories, in which nothing is sold short, no        *)
(* average is rounded and corrections come latest first: there each        *)
(* correction undoes its deal exactly, and profit is booked once.          *)
(***************************************************************************)
EXTENDS InventoryHistory, DataLemmas

-----------------------------------------------------------------------------
(* One deal, and its correction *)

\* The deal _apply_inventory leaves behind, as _reverse_inventory reads it.
DealAfter(side, pos, quantity, price) ==
  [side |-> side, quantity |-> quantity, price |-> price,
   cost |-> ApplyInventory(side, pos, quantity, price).cost]

\* pos after a deal was posted and then voided or deleted at once.
DoneAndUndone(side, pos, quantity, price) ==
  ReverseInventory(ApplyInventory(side, pos, quantity, price).position,
                   DealAfter(side, pos, quantity, price))

\* A sale out of stock, voided or deleted before another deal in its currency,
\* leaves no trace: quantity and average cost are what they were.  The stock
\* must not have been short: voiding a first, short sale leaves its price behind
\* as the average of an empty stock.
THEOREM SaleFromStockUndone ==
  ASSUME NEW pos \in Position, pos.quantity > 0,
         NEW quantity \in Positive, NEW price \in Positive
  PROVE  DoneAndUndone(SELL, pos, quantity, price) = pos
<1> DEFINE sold == ApplyInventory(SELL, pos, quantity, price)
<1>1. pos.quantity \in Int /\ pos.avg \in Int
      /\ pos = [quantity |-> pos.quantity, avg |-> pos.avg]
  BY DEF Position
<1>2. /\ sold.cost = pos.avg
      /\ sold.position.quantity = pos.quantity - quantity
      /\ sold.position.avg \in {0, pos.avg}
  BY <1>1 DEF ApplyInventory, BUY, SELL
<1>3. DoneAndUndone(SELL, pos, quantity, price)
        = [quantity |-> pos.quantity - quantity + quantity, avg |-> pos.avg]
  BY <1>2 DEF DoneAndUndone, DealAfter, ReverseInventory, SELL
<1> QED
  BY <1>1, <1>3 DEF Positive

\* A purchase into stock, undone at once, restores the quantity, and the average
\* up to the rounding of the two divisions: the error times the stock it is
\* spread over never exceeds half a unit per unit held before or after.
THEOREM PurchaseIntoStockUndone ==
  ASSUME NEW pos \in Position, pos.quantity > 0,
         NEW quantity \in Positive, NEW price \in Positive
  PROVE  LET back == DoneAndUndone(BUY, pos, quantity, price)
         IN  /\ back.quantity = pos.quantity
             /\ 2 * (pos.quantity * back.avg - pos.quantity * pos.avg)
                  <= 2 * pos.quantity + quantity
             /\ 2 * (pos.quantity * pos.avg - pos.quantity * back.avg)
                  <= 2 * pos.quantity + quantity
<1> DEFINE newQty == pos.quantity + quantity
           value  == pos.quantity * pos.avg + quantity * price
           avg    == RoundHalfEven(value, newQty)
           back   == RoundHalfEven(newQty * avg - quantity * price, pos.quantity)
<1>1. pos.quantity \in Positive /\ pos.avg \in Int
  BY DEF Position, Positive
<1>2. newQty \in Positive /\ value \in Int /\ quantity * price \in Int
  BY <1>1 DEF Positive
<1>3. /\ avg \in Int
      /\ 2 * (newQty * avg - value) <= newQty
      /\ 2 * (value - newQty * avg) <= newQty
  <2> HIDE DEF newQty, value
  <2> QED
    BY <1>2, RoundHalfEvenNearest
<1>4. newQty * avg - quantity * price \in Int
  <2> HIDE DEF newQty, avg
  <2> QED
    BY <1>2, <1>3 DEF Positive
<1>5. /\ back \in Int
      /\ 2 * (pos.quantity * back - (newQty * avg - quantity * price)) <= pos.quantity
      /\ 2 * ((newQty * avg - quantity * price) - pos.quantity * back) <= pos.quantity
  <2> HIDE DEF newQty, avg
  <2> QED
    BY <1>1, <1>4, RoundHalfEvenNearest
<1>6. ApplyInventory(BUY, pos, quantity, price).position
        = [quantity |-> newQty, avg |-> avg]
  BY <1>1, <1>2 DEF ApplyInventory, AverageAfterBuy, Positive
<1>7. newQty - quantity = pos.quantity /\ pos.quantity > 0
  BY <1>1 DEF Positive
<1>8. DoneAndUndone(BUY, pos, quantity, price)
        = [quantity |-> pos.quantity, avg |-> back]
  <2> HIDE DEF newQty, avg
  <2> QED
    BY <1>6, <1>7 DEF DoneAndUndone, DealAfter, ReverseInventory,
                      AverageAfterUnbuy, BUY, SELL
<1>9. /\ pos.quantity * back \in Int
      /\ newQty * avg \in Int
      /\ pos.quantity * pos.avg \in Int
  <2> HIDE DEF newQty, avg, back
  <2> QED
    BY <1>1, <1>2, <1>3, <1>5 DEF Positive
<1>10. /\ 2 * (pos.quantity * back - pos.quantity * pos.avg) <= 2 * pos.quantity + quantity
       /\ 2 * (pos.quantity * pos.avg - pos.quantity * back) <= 2 * pos.quantity + quantity
  <2> DEFINE A == pos.quantity * back
             B == newQty * avg
             C == pos.quantity * pos.avg
             D == quantity * price
  <2>1. A \in Int /\ B \in Int /\ C \in Int /\ D \in Int
    BY <1>2, <1>9
  <2>2. value = C + D
    OBVIOUS
  <2> HIDE DEF A, B, C, D, avg, back, value
  <2> QED
    BY <1>1, <1>3, <1>5, <2>1, <2>2 DEF A, B, C, D, Positive
<1> QED
  BY <1>8, <1>10

-----------------------------------------------------------------------------
(* Orderly histories *)

DealRow ==
  [side : Sides, quantity : Positive, price : Positive, cost : Int, realized : Int]

HistoryType ==
  /\ position \in Position
  /\ deals \in Seq(DealRow)
  /\ voided \subseteq DOMAIN deals
  /\ deleted \subseteq DOMAIN deals
  /\ orderly \in BOOLEAN

\* A stock that was never short; an empty one has no cost left.
Sound(pos) ==
  /\ pos \in Position
  /\ pos.quantity >= 0
  /\ pos.quantity = 0 => pos.avg = 0

\* deal was booked on pos, and nothing was sold short or rounded.
BookedOn(deal, pos) ==
  LET applied == ApplyInventory(deal.side, pos, deal.quantity, deal.price)
  IN  /\ pos.quantity + SignedQuantity(deal) >= 0
      /\ deal.side = BUY => Divides(pos.quantity + deal.quantity,
                                    pos.quantity * pos.avg + deal.quantity * deal.price)
      /\ deal.cost = applied.cost
      /\ deal.realized = applied.realized

\* ProfitBooked and OrderlyUndoExact, and that every standing deal was booked on
\* what the standing deals before it make today.
Orderly ==
  /\ \A n \in 0..Len(deals) : Sound(Made[n])
  /\ \A i \in Standing : BookedOn(deals[i], Made[i - 1])
  /\ position = Made[Len(deals)]
  /\ CashFlow + StockValue = Realized(Standing)

IInv == HistoryType /\ (orderly => Orderly)

-----------------------------------------------------------------------------
(* One orderly step *)

LEMMA RoundExact ==
  ASSUME NEW k \in Int, NEW b \in Positive
  PROVE  b * k \in Int /\ RoundHalfEven(b * k, b) = k
<1> DEFINE a == b * k
           floor == a \div b
<1>1. a \in Int
  BY DEF Positive
<1>2. floor \in Int /\ b * floor <= a /\ a < b * floor + b
  <2> HIDE DEF a
  <2> QED
    BY <1>1, Division
<1>3. ASSUME NEW m \in Int, m >= 1
      PROVE  b * m \in Int /\ b * m >= b
  <2>1. b * (m - 1) >= 0 /\ b * (m - 1) \in Int
    BY <1>3 DEF Positive
  <2>2. b * m = b * (m - 1) + b
    BY DEF Positive
  <2> QED
    BY <2>1, <2>2 DEF Positive
<1>4. floor = k
  <2>1. CASE floor > k
    <3>1. b * (floor - k) >= b
      BY <1>2, <1>3, <2>1
    <3>2. b * floor = b * (floor - k) + a
      BY <1>2 DEF Positive
    <3>3. b * floor \in Int /\ b * (floor - k) \in Int
      BY <1>2 DEF Positive
    <3> HIDE DEF a, floor
    <3> QED
      BY <1>1, <1>2, <3>1, <3>2, <3>3 DEF Positive
  <2>2. CASE k > floor
    <3>1. b * (k - floor) >= b
      BY <1>2, <1>3, <2>2
    <3>2. a = b * (k - floor) + b * floor
      BY <1>2 DEF Positive
    <3>3. b * floor \in Int /\ b * (k - floor) \in Int
      BY <1>2 DEF Positive
    <3> HIDE DEF a, floor
    <3> QED
      BY <1>1, <1>2, <3>1, <3>2, <3>3 DEF Positive
  <2> QED
    BY <1>2, <2>1, <2>2
<1>5. 2 * (a - b * floor) = 0
  <2>1. a - b * floor = 0
    <3> HIDE DEF floor
    <3> QED
      BY <1>1, <1>4
  <2> QED
    BY <2>1
<1> QED
  BY <1>1, <1>4, <1>5 DEF RoundHalfEven, Positive

LEMMA DividesExactly ==
  ASSUME NEW b \in Positive, NEW a \in Int, Divides(b, a)
  PROVE  \E k \in Int : a = b * k
<1>1. a = b * (a \div b) + (a % b) /\ a \div b \in Int
  BY DEF Positive
<1>2. a % b = 0
  BY DEF Divides, Positive
<1> QED
  BY <1>1, <1>2 DEF Positive

\* A deal that is neither short nor rounded moves what it costs or brings between cash
\* and stock, books the difference as profit, and can be taken back without a trace.
LEMMA PurchaseBooked ==
  ASSUME NEW pos, Sound(pos), NEW deal \in DealRow, deal.side = BUY, BookedOn(deal, pos),
         NEW new, new = ApplyInventory(deal.side, pos, deal.quantity, deal.price).position
  PROVE  /\ Sound(new)
         /\ ReverseInventory(new, deal) = pos
         /\ new.quantity * new.avg + Cash(deal) = pos.quantity * pos.avg + deal.realized
<1> DEFINE q == deal.quantity
           p == deal.price
           newQty == pos.quantity + q
           value == pos.quantity * pos.avg + q * p
<1>1. /\ q \in Positive /\ p \in Positive /\ pos.quantity \in Nat /\ pos.avg \in Int
      /\ pos = [quantity |-> pos.quantity, avg |-> pos.avg]
  BY DEF DealRow, Sound, Position, Positive
<1>2. newQty \in Positive /\ newQty > 0 /\ value \in Int /\ q * p \in Int
      /\ pos.quantity * pos.avg \in Int
  BY <1>1 DEF Positive
<1>3. new = [quantity |-> newQty, avg |-> AverageAfterBuy(pos, q, p)]
  BY DEF ApplyInventory
<1>4. deal.realized = 0
  BY DEF BookedOn, ApplyInventory
<1>5. Cash(deal) = -(q * p)
  BY DEF Cash, BUY, SELL
<1>6. PICK k \in Int : value = newQty * k
  <2>1. Divides(newQty, value)
    BY DEF BookedOn
  <2> HIDE DEF newQty, value
  <2> QED
    BY <1>2, <2>1, DividesExactly
<1>7. new.avg = k
  <2>1. CASE pos.quantity > 0
    <3>1. new.avg = RoundHalfEven(value, newQty)
      BY <1>1, <1>2, <1>3, <2>1 DEF AverageAfterBuy, Positive
    <3>2. RoundHalfEven(newQty * k, newQty) = k
      <4> HIDE DEF newQty
      <4> QED
        BY <1>2, RoundExact
    <3> QED
      BY <1>6, <3>1, <3>2
  <2>2. CASE pos.quantity = 0
    <3>1. new.avg = p /\ newQty = q
      BY <1>1, <1>3, <2>2 DEF AverageAfterBuy, Positive
    <3>2. q * p = q * k
      <4>1. pos.quantity * pos.avg = 0 /\ newQty = q
        BY <1>1, <2>2 DEF Positive
      <4>2. value = q * p
        BY <1>2, <4>1
      <4> HIDE DEF value, newQty
      <4> QED
        BY <1>6, <4>1, <4>2
    <3>3. p = k
      <4>1. q * (p - k) = 0
        BY <1>1, <3>2 DEF Positive
      <4>2. p - k \in Int /\ q \in Int /\ q # 0
        BY <1>1 DEF Positive
      <4> HIDE DEF q, p
      <4> QED
        BY <1>1, <4>1, <4>2 DEF Positive
    <3> QED
      BY <3>1, <3>3
  <2> QED
    BY <1>1, <2>1, <2>2
<1>8. Sound(new)
  BY <1>1, <1>2, <1>3, <1>7 DEF Sound, Position, Positive
<1>9. new.quantity * new.avg = value
  BY <1>3, <1>6, <1>7
<1>10. new.quantity * new.avg + Cash(deal) = pos.quantity * pos.avg + deal.realized
  <2> DEFINE v == q * p
             w == pos.quantity * pos.avg
  <2>1. value = w + v /\ v \in Int /\ w \in Int
    BY <1>2
  <2>2. new.quantity * new.avg + Cash(deal) = (w + v) - v
    BY <1>5, <1>9, <2>1
  <2> HIDE DEF v, w
  <2>3. (w + v) - v = w + 0
    BY <2>1
  <2> QED
    BY <1>4, <2>2, <2>3 DEF w
<1>11. ReverseInventory(new, deal) = pos
  <2>1. /\ ReverseInventory(new, deal).quantity = newQty - q
        /\ ReverseInventory(new, deal).avg = AverageAfterUnbuy(new, deal)
        /\ ReverseInventory(new, deal) =
             [quantity |-> newQty - q, avg |-> AverageAfterUnbuy(new, deal)]
    BY <1>3 DEF ReverseInventory, BUY, SELL
  <2>2. newQty - q = pos.quantity
    BY <1>1 DEF Positive
  <2>3. AverageAfterUnbuy(new, deal) = pos.avg
    <3>1. CASE pos.quantity > 0
      <4>1. value - q * p = pos.quantity * pos.avg
        <5> DEFINE v == q * p
                   w == pos.quantity * pos.avg
        <5>1. v \in Int /\ w \in Int
          BY <1>2
        <5> HIDE DEF v, w
        <5> QED
          BY <5>1 DEF v, w
      <4>2. AverageAfterUnbuy(new, deal) = RoundHalfEven(pos.quantity * pos.avg, pos.quantity)
        BY <1>3, <1>9, <2>2, <3>1, <4>1 DEF AverageAfterUnbuy
      <4> QED
        BY <1>1, <3>1, <4>2, RoundExact DEF Positive
    <3>2. CASE pos.quantity = 0
      <4>1. pos.avg = 0
        BY <3>2 DEF Sound
      <4> QED
        BY <1>3, <2>2, <3>2, <4>1 DEF AverageAfterUnbuy
    <3> QED
      BY <1>1, <3>1, <3>2
  <2> QED
    BY <1>1, <2>1, <2>2, <2>3
<1> QED
  BY <1>8, <1>10, <1>11

LEMMA SaleBooked ==
  ASSUME NEW pos, Sound(pos), NEW deal \in DealRow, deal.side = SELL, BookedOn(deal, pos),
         NEW new, new = ApplyInventory(deal.side, pos, deal.quantity, deal.price).position
  PROVE  /\ Sound(new)
         /\ ReverseInventory(new, deal) = pos
         /\ new.quantity * new.avg + Cash(deal) = pos.quantity * pos.avg + deal.realized
<1> DEFINE q == deal.quantity
           p == deal.price
           newQty == pos.quantity - q
           avg == IF newQty = 0 THEN 0 ELSE pos.avg
<1>1. /\ q \in Positive /\ p \in Positive /\ pos.quantity \in Nat /\ pos.avg \in Int
      /\ pos = [quantity |-> pos.quantity, avg |-> pos.avg]
  BY DEF DealRow, Sound, Position, Positive
<1>2. newQty >= 0 /\ newQty \in Nat /\ pos.quantity > 0
  BY <1>1 DEF BookedOn, SignedQuantity, BUY, SELL, Positive
<1>3. new = [quantity |-> newQty, avg |-> avg]
  BY DEF ApplyInventory, BUY, SELL
<1>4. deal.cost = pos.avg /\ deal.realized = (p - pos.avg) * q
  BY <1>2 DEF BookedOn, ApplyInventory, BUY, SELL
<1>5. Cash(deal) = q * p
  BY DEF Cash
<1>6. Sound(new)
  BY <1>1, <1>2, <1>3 DEF Sound, Position
<1>7. ReverseInventory(new, deal) = pos
  <2>1. ReverseInventory(new, deal) =
          [quantity |-> newQty + q, avg |-> IF avg = 0 THEN pos.avg ELSE avg]
    BY <1>3, <1>4 DEF ReverseInventory
  <2>2. newQty + q = pos.quantity
    BY <1>1 DEF Positive
  <2> QED
    BY <1>1, <2>1, <2>2
<1>8. new.quantity * new.avg + Cash(deal) = pos.quantity * pos.avg + deal.realized
  <2>1. newQty * avg = newQty * pos.avg
    BY <1>1, <1>2
  <2>2. newQty * pos.avg + q * p = pos.quantity * pos.avg + (p - pos.avg) * q
    BY <1>1 DEF Positive
  <2> HIDE DEF newQty, avg
  <2> QED
    BY <1>3, <1>4, <1>5, <2>1, <2>2
<1> QED
  BY <1>6, <1>7, <1>8

LEMMA DealBooked ==
  ASSUME NEW pos, Sound(pos), NEW deal \in DealRow, BookedOn(deal, pos),
         NEW new, new = ApplyInventory(deal.side, pos, deal.quantity, deal.price).position
  PROVE  /\ Sound(new)
         /\ ReverseInventory(new, deal) = pos
         /\ new.quantity * new.avg + Cash(deal) = pos.quantity * pos.avg + deal.realized
<1>1. deal.side = BUY \/ deal.side = SELL
  BY DEF DealRow, Sides
<1> QED
  BY <1>1, PurchaseBooked, SaleBooked

-----------------------------------------------------------------------------
(* What the standing deals make *)

\* f is Made for the deals ds of which those in S stand.
Chain(f, ds, S) ==
  f = [n \in 0..Len(ds) |->
         IF n = 0 THEN EmptyPosition
         ELSE IF n \notin S THEN f[n - 1]
         ELSE ApplyInventory(ds[n].side, f[n - 1], ds[n].quantity, ds[n].price).position]

\* Chain, on the first n deals.
ChainTo(f, ds, S, len) ==
  f = [n \in 0..len |->
         IF n = 0 THEN EmptyPosition
         ELSE IF n \notin S THEN f[n - 1]
         ELSE ApplyInventory(ds[n].side, f[n - 1], ds[n].quantity, ds[n].price).position]

LEMMA ChainExists ==
  ASSUME NEW ds \in Seq(DealRow), NEW S
  PROVE  \E f : Chain(f, ds, S)
<1> DEFINE Good == {n \in 0..Len(ds) : \E f : ChainTo(f, ds, S, n)}
<1>1. 0 \in Good
  <2>1. ChainTo([n \in 0..0 |-> EmptyPosition], ds, S, 0)
    BY DEF ChainTo
  <2> QED
    BY <2>1
<1>2. ASSUME NEW n \in 1..Len(ds), n - 1 \in Good
      PROVE  n \in Good
  <2>1. PICK g : ChainTo(g, ds, S, n - 1)
    BY <1>2
  <2> DEFINE next == IF n \notin S THEN g[n - 1]
                     ELSE ApplyInventory(ds[n].side, g[n - 1], ds[n].quantity, ds[n].price).position
             f == [m \in 0..n |-> IF m = n THEN next ELSE g[m]]
  <2>2. \A m \in 0..(n - 1) : f[m] = g[m]
    OBVIOUS
  <2>3. \A m \in 0..(n - 1) :
          f[m] = IF m = 0 THEN EmptyPosition
                 ELSE IF m \notin S THEN f[m - 1]
                 ELSE ApplyInventory(ds[m].side, f[m - 1], ds[m].quantity, ds[m].price).position
    <3> TAKE m \in 0..(n - 1)
    <3>1. g[m] = IF m = 0 THEN EmptyPosition
                 ELSE IF m \notin S THEN g[m - 1]
                 ELSE ApplyInventory(ds[m].side, g[m - 1], ds[m].quantity, ds[m].price).position
      BY <2>1, Zenon DEF ChainTo
    <3>2. m # 0 => f[m - 1] = g[m - 1]
      BY <2>2
    <3> HIDE DEF f
    <3> QED
      BY <2>2, <3>1, <3>2
  <2>4. f[n] = IF n \notin S THEN f[n - 1]
               ELSE ApplyInventory(ds[n].side, f[n - 1], ds[n].quantity, ds[n].price).position
    <3>1. n - 1 \in 0..(n - 1)
      OBVIOUS
    <3>2. f[n] = next /\ f[n - 1] = g[n - 1]
      BY <2>2, <3>1
    <3> HIDE DEF f
    <3> QED
      BY <3>2
  <2>5. ChainTo(f, ds, S, n)
    <3> DEFINE h == [m \in 0..n |->
                       IF m = 0 THEN EmptyPosition
                       ELSE IF m \notin S THEN f[m - 1]
                       ELSE ApplyInventory(ds[m].side, f[m - 1], ds[m].quantity, ds[m].price).position]
    <3>1. \A m \in 0..n : f[m] = h[m]
      <4> TAKE m \in 0..n
      <4>1. CASE m = n
        <5> HIDE DEF f
        <5> QED
          BY <2>4, <4>1
      <4>2. CASE m # n
        <5>1. m \in 0..(n - 1)
          BY <4>2
        <5> HIDE DEF f
        <5> QED
          BY <2>3, <5>1
      <4> QED
        BY <4>1, <4>2
    <3>2. f = h
      <4>1. f = [m \in 0..n |-> f[m]] /\ h = [m \in 0..n |-> h[m]]
        OBVIOUS
      <4> HIDE DEF f, h
      <4> QED
        BY <3>1, <4>1
    <3> QED
      BY <3>2, Zenon DEF ChainTo
  <2> QED
    BY <2>5
<1>3. Len(ds) \in Good
  <2>1. Len(ds) \in Nat
    OBVIOUS
  <2> HIDE DEF Good
  <2>2. \A n \in 1..Len(ds) : n - 1 \in Good => n \in Good
    BY <1>2
  <2>3. \A n \in 0..Len(ds) : n \in Good
    BY ONLY <1>1, <2>1, <2>2, IntervalInduction, Zenon
  <2> QED
    BY ONLY <2>1, <2>3, SMT
<1> QED
  BY <1>3, Zenon DEF Chain, ChainTo

LEMMA ChainAt ==
  ASSUME NEW f, NEW ds \in Seq(DealRow), NEW S, Chain(f, ds, S)
  PROVE  /\ f[0] = EmptyPosition
         /\ \A n \in 1..Len(ds) : n \notin S => f[n] = f[n - 1]
         /\ \A n \in 1..Len(ds) : n \in S =>
              f[n] = ApplyInventory(ds[n].side, f[n - 1], ds[n].quantity, ds[n].price).position
<1>1. \A n \in 0..Len(ds) :
        f[n] = IF n = 0 THEN EmptyPosition
               ELSE IF n \notin S THEN f[n - 1]
               ELSE ApplyInventory(ds[n].side, f[n - 1], ds[n].quantity, ds[n].price).position
  BY Zenon DEF Chain
<1>2. 0 \in 0..Len(ds) /\ \A n \in 1..Len(ds) : n \in 0..Len(ds) /\ n # 0
  OBVIOUS
<1>3. f[0] = EmptyPosition
  BY <1>1, <1>2
<1>4. ASSUME NEW n \in 1..Len(ds)
      PROVE  f[n] = IF n \notin S THEN f[n - 1]
                    ELSE ApplyInventory(ds[n].side, f[n - 1], ds[n].quantity, ds[n].price).position
  BY <1>1, <1>2
<1> QED
  BY <1>3, <1>4

\* Made satisfies its own definition, now and after a step.
LEMMA MadeChain ==
  ASSUME deals \in Seq(DealRow)
  PROVE  Chain(Made, deals, Standing)
<1>1. \E f : Chain(f, deals, Standing)
  BY ChainExists
<1> QED
  BY <1>1, Zenon DEF Made, Chain

LEMMA MadeChainNext ==
  ASSUME deals' \in Seq(DealRow)
  PROVE  Chain(Made', deals', Standing')
<1>1. \E f : Chain(f, deals', Standing')
  BY ChainExists
<1> QED
  BY <1>1, Zenon DEF Made, Chain

\* What happened later does not matter.
LEMMA ChainsAgree ==
  ASSUME NEW f, NEW ds \in Seq(DealRow), NEW S, Chain(f, ds, S),
         NEW g, NEW es \in Seq(DealRow), NEW T, Chain(g, es, T),
         NEW len \in Nat, len <= Len(ds), len <= Len(es),
         \A n \in 1..len : ds[n] = es[n] /\ (n \in S <=> n \in T)
  PROVE  \A n \in 0..len : f[n] = g[n]
<1> DEFINE Good == {n \in 0..len : f[n] = g[n]}
<1>1. 0 \in Good
  BY ChainAt
<1>2. ASSUME NEW n \in 1..len, n - 1 \in Good
      PROVE  n \in Good
  <2>1. n \in 1..Len(ds) /\ n \in 1..Len(es) /\ f[n - 1] = g[n - 1]
    BY <1>2
  <2>2. CASE n \in S
    <3>1. f[n] = ApplyInventory(ds[n].side, f[n - 1], ds[n].quantity, ds[n].price).position
      BY <2>1, <2>2, ChainAt
    <3>2. g[n] = ApplyInventory(es[n].side, g[n - 1], es[n].quantity, es[n].price).position
      BY <2>1, <2>2, ChainAt
    <3> QED
      BY <2>1, <3>1, <3>2
  <2>3. CASE n \notin S
    <3>1. f[n] = f[n - 1] /\ g[n] = g[n - 1]
      BY <2>1, <2>3, ChainAt
    <3> QED
      BY <2>1, <3>1
  <2> QED
    BY <2>2, <2>3
<1>3. \A n \in 0..len : n \in Good
  <2> HIDE DEF Good
  <2>1. \A n \in 1..len : n - 1 \in Good => n \in Good
    BY <1>2
  <2> QED
    BY <1>1, <2>1, IntervalInduction, Zenon
<1> QED
  BY <1>3

\* After the last deal that stands nothing is made.
LEMMA ChainRests ==
  ASSUME NEW f, NEW ds \in Seq(DealRow), NEW S, Chain(f, ds, S), NEW i \in 0..Len(ds),
         \A j \in 1..Len(ds) : j \in S => j <= i
  PROVE  \A n \in i..Len(ds) : f[n] = f[i]
<1> DEFINE Good == {n \in 0..Len(ds) : n >= i => f[n] = f[i]}
<1>1. 0 \in Good
  <2>1. 0 >= i => i = 0
    OBVIOUS
  <2> QED
    BY <2>1
<1>2. ASSUME NEW n \in 1..Len(ds), n - 1 \in Good
      PROVE  n \in Good
  <2>1. CASE n <= i
    BY <2>1
  <2>2. CASE n > i
    <3>1. n \notin S /\ f[n - 1] = f[i]
      BY <1>2, <2>2
    <3>2. f[n] = f[n - 1]
      BY <3>1, ChainAt
    <3> QED
      BY <3>1, <3>2
  <2> QED
    BY <2>1, <2>2
<1>3. \A n \in 0..Len(ds) : n \in Good
  <2>1. Len(ds) \in Nat
    OBVIOUS
  <2> HIDE DEF Good
  <2>2. \A n \in 1..Len(ds) : n - 1 \in Good => n \in Good
    BY <1>2
  <2> QED
    BY ONLY <1>1, <2>1, <2>2, IntervalInduction, Zenon
<1> QED
  BY <1>3

-----------------------------------------------------------------------------
(* Steps *)

LEMMA StandingFinite ==
  ASSUME HistoryType
  PROVE  IsFiniteSet(Standing) /\ Standing \subseteq 1..Len(deals) /\ Len(deals) \in Nat
<1>1. DOMAIN deals = 1..Len(deals) /\ Len(deals) \in Nat
  BY DEF HistoryType
<1>2. Standing \subseteq 1..Len(deals)
  BY <1>1 DEF Standing
<1>3. IsFiniteSet(1..Len(deals))
  BY <1>1, FS_Interval
<1> QED
  BY <1>1, <1>2, <1>3, FS_Subset

LEMMA RowFacts ==
  ASSUME NEW deal \in DealRow
  PROVE  /\ deal.side \in Sides /\ deal.quantity \in Positive /\ deal.price \in Positive
         /\ deal.cost \in Int /\ deal.realized \in Int /\ Cash(deal) \in Int
<1>1. deal.quantity * deal.price \in Int
  BY DEF DealRow, Positive
<1> QED
  BY <1>1 DEF DealRow, Cash

\* The cash flow and the profit, with one deal more or less.
LEMMA SumsGrow ==
  ASSUME HistoryType, NEW d, d \notin Standing, Standing' = Standing \cup {d},
         deals'[d] \in DealRow, \A i \in Standing : deals'[i] = deals[i]
  PROVE  /\ CashFlow \in Int /\ CashFlow' = CashFlow + Cash(deals'[d])
         /\ Realized(Standing) \in Int
         /\ Realized(Standing)' = Realized(Standing) + deals'[d].realized
<1>1. IsFiniteSet(Standing)
  BY StandingFinite
<1>2. \A i \in Standing : deals[i] \in DealRow
  BY DEF HistoryType, Standing
<1> DEFINE cash == [i \in Standing |-> Cash(deals[i])]
           cash2 == [i \in Standing' |-> Cash(deals'[i])]
           profit == [i \in Standing |-> deals[i].realized]
           profit2 == [i \in Standing' |-> deals'[i].realized]
           T == Standing \cup {d}
<1>3. \A i \in Standing : cash[i] \in Int /\ profit[i] \in Int
  BY <1>2, RowFacts
<1>4. \A i \in T : cash2[i] \in Int /\ profit2[i] \in Int
  <2> TAKE i \in T
  <2>1. deals'[i] \in DealRow
    BY <1>2
  <2> QED
    BY <2>1, RowFacts
<1>5. /\ \A i \in Standing : cash2[i] = cash[i] /\ profit2[i] = profit[i]
      /\ cash2[d] = Cash(deals'[d]) /\ profit2[d] = deals'[d].realized
  OBVIOUS
<1>6. /\ CashFlow = SumFunctionOnSet(cash, Standing) /\ CashFlow' = SumFunctionOnSet(cash2, T)
      /\ Realized(Standing) = SumFunctionOnSet(profit, Standing)
      /\ Realized(Standing)' = SumFunctionOnSet(profit2, T)
  BY Zenon DEF CashFlow, Realized
<1> HIDE DEF cash, cash2, profit, profit2, T
<1>7. /\ SumFunctionOnSet(cash2, T) = SumFunctionOnSet(cash2, Standing) + cash2[d]
      /\ SumFunctionOnSet(profit2, T) = SumFunctionOnSet(profit2, Standing) + profit2[d]
  BY <1>1, <1>4, SumAdd DEF T
<1>8. /\ SumFunctionOnSet(cash2, Standing) = SumFunctionOnSet(cash, Standing)
      /\ SumFunctionOnSet(profit2, Standing) = SumFunctionOnSet(profit, Standing)
  BY <1>1, <1>5, SumEqual
<1>9. SumFunctionOnSet(cash, Standing) \in Int /\ SumFunctionOnSet(profit, Standing) \in Int
  BY <1>1, <1>3, SumInt
<1> QED
  BY <1>5, <1>6, <1>7, <1>8, <1>9

LEMMA SumsShrink ==
  ASSUME HistoryType, NEW d, d \in Standing, Standing' = Standing \ {d}, deals' = deals
  PROVE  /\ CashFlow \in Int /\ CashFlow' = CashFlow - Cash(deals[d])
         /\ Realized(Standing) \in Int
         /\ Realized(Standing)' = Realized(Standing) - deals[d].realized
<1>1. IsFiniteSet(Standing)
  BY StandingFinite
<1>2. \A i \in Standing : deals[i] \in DealRow
  BY DEF HistoryType, Standing
<1> DEFINE cash == [i \in Standing |-> Cash(deals[i])]
           cash2 == [i \in Standing' |-> Cash(deals'[i])]
           profit == [i \in Standing |-> deals[i].realized]
           profit2 == [i \in Standing' |-> deals'[i].realized]
           T == Standing \ {d}
<1>3. \A i \in Standing : cash[i] \in Int /\ profit[i] \in Int
  BY <1>2, RowFacts
<1>4. /\ \A i \in T : cash2[i] = cash[i] /\ profit2[i] = profit[i]
      /\ cash[d] = Cash(deals[d]) /\ profit[d] = deals[d].realized
  OBVIOUS
<1>5. /\ CashFlow = SumFunctionOnSet(cash, Standing) /\ CashFlow' = SumFunctionOnSet(cash2, T)
      /\ Realized(Standing) = SumFunctionOnSet(profit, Standing)
      /\ Realized(Standing)' = SumFunctionOnSet(profit2, T)
  BY Zenon DEF CashFlow, Realized
<1>6. IsFiniteSet(T) /\ d \in Standing /\ \A i \in T : i \in Standing
  BY <1>1, FS_Subset
<1> HIDE DEF cash, cash2, profit, profit2
<1>7. /\ SumFunctionOnSet(cash, Standing) = cash[d] + SumFunctionOnSet(cash, T)
      /\ SumFunctionOnSet(profit, Standing) = profit[d] + SumFunctionOnSet(profit, T)
  BY <1>1, <1>3, SumRemove
<1> HIDE DEF T
<1>8. /\ SumFunctionOnSet(cash2, T) = SumFunctionOnSet(cash, T)
      /\ SumFunctionOnSet(profit2, T) = SumFunctionOnSet(profit, T)
  BY <1>4, <1>6, SumEqual
<1>9. /\ SumFunctionOnSet(cash, Standing) \in Int /\ SumFunctionOnSet(profit, Standing) \in Int
      /\ SumFunctionOnSet(cash, T) \in Int /\ SumFunctionOnSet(profit, T) \in Int
      /\ cash[d] \in Int /\ profit[d] \in Int
  BY <1>1, <1>3, <1>6, SumInt
<1> QED
  BY <1>4, <1>5, <1>7, <1>8, <1>9

LEMMA InitHistory == Init => IInv
<1> SUFFICES ASSUME Init PROVE IInv
  OBVIOUS
<1>1. /\ deals = << >> /\ voided = {} /\ deleted = {} /\ orderly = TRUE
      /\ position = EmptyPosition /\ Len(deals) = 0 /\ deals \in Seq(DealRow)
      /\ Standing = {}
  BY DEF Init, Standing
<1>2. HistoryType
  BY <1>1 DEF HistoryType, EmptyPosition, Position
<1>3. Made[0] = EmptyPosition
  BY <1>1, MadeChain, ChainAt
<1>4. Sound(EmptyPosition) /\ StockValue = 0
  BY <1>1 DEF Sound, EmptyPosition, Position, StockValue
<1>5. CashFlow = 0 /\ Realized(Standing) = 0
  BY <1>1, SumEmpty DEF CashFlow, Realized
<1>6. Orderly
  <2>1. \A n \in 0..Len(deals) : n = 0
    BY <1>1
  <2> QED
    BY <1>1, <1>3, <1>4, <1>5, <2>1 DEF Orderly
<1> QED
  BY <1>2, <1>6 DEF IInv

LEMMA TradeKeeps ==
  ASSUME IInv, NEW side \in Sides, NEW quantity \in Quantities, NEW price \in Prices,
         Trade(side, quantity, price)
  PROVE  IInv'
<1> DEFINE applied == ApplyInventory(side, position, quantity, price)
           deal == [side |-> side, quantity |-> quantity, price |-> price,
                    cost |-> applied.cost, realized |-> applied.realized]
           len == Len(deals)
<1>1. HistoryType /\ (orderly => Orderly) /\ quantity \in Positive /\ price \in Positive
  BY HistoryAssumption DEF IInv, Positive
<1>2. /\ position' = applied.position /\ deals' = Append(deals, deal)
      /\ voided' = voided /\ deleted' = deleted /\ orderly' \in BOOLEAN
      /\ orderly' => /\ orderly /\ position.quantity + SignedQuantity(deal) >= 0
                     /\ side = BUY => Divides(position.quantity + quantity,
                                              position.quantity * position.avg + quantity * price)
  BY DEF Trade, SignedQuantity
<1>3. /\ applied.position \in Position /\ deal \in DealRow
  BY <1>1, ApplyInventoryType DEF HistoryType, DealRow
<1>4. /\ deals \in Seq(DealRow) /\ len \in Nat /\ DOMAIN deals = 1..len
      /\ deals' \in Seq(DealRow) /\ Len(deals') = len + 1 /\ DOMAIN deals' = 1..(len + 1)
      /\ deals'[len + 1] = deal /\ \A i \in 1..len : deals'[i] = deals[i]
  <2>1. deals \in Seq(DealRow) /\ len \in Nat /\ DOMAIN deals = 1..len
    BY <1>1 DEF HistoryType
  <2>2. /\ deals' \in Seq(DealRow) /\ Len(deals') = len + 1
        /\ deals'[len + 1] = deal /\ \A i \in 1..len : deals'[i] = deals[i]
    <3> HIDE DEF deal
    <3> QED
      BY <1>2, <1>3, <2>1, AppendProperties
  <2>3. DOMAIN deals' = 1..(len + 1)
    BY <2>2
  <2> QED
    BY <2>1, <2>2, <2>3
<1>5. Standing \subseteq 1..len /\ Standing' = Standing \cup {len + 1} /\ len + 1 \notin Standing
  BY <1>1, <1>2, <1>4 DEF Standing, HistoryType
<1>6. HistoryType'
  BY <1>1, <1>2, <1>3, <1>4 DEF HistoryType
<1> HIDE DEF deal, applied
<1>7. ASSUME orderly' PROVE Orderly'
  <2>1. Orderly
    BY <1>1, <1>2, <1>7
  <2>2. Chain(Made, deals, Standing) /\ Chain(Made', deals', Standing')
    BY <1>4, MadeChain, MadeChainNext
  <2>3. \A n \in 0..len : Made'[n] = Made[n]
    <3>1. \A n \in 1..len : deals'[n] = deals[n] /\ (n \in Standing' <=> n \in Standing)
      BY <1>4, <1>5
    <3> QED
      BY <1>4, <2>2, <3>1, ChainsAgree
  <2>4. Made'[len] = position /\ Sound(position)
    BY <1>4, <2>1, <2>3 DEF Orderly
  <2>5. Made'[len + 1] = position'
    <3>1. Made'[len + 1] = ApplyInventory(deal.side, Made'[len], deal.quantity, deal.price).position
      <4>1. len + 1 \in 1..Len(deals') /\ len + 1 \in Standing' /\ (len + 1) - 1 = len
        BY <1>4, <1>5
      <4>2. \A n \in 1..Len(deals') : n \in Standing' =>
              Made'[n] = ApplyInventory(deals'[n].side, Made'[n - 1],
                                        deals'[n].quantity, deals'[n].price).position
        BY <1>4, <2>2, ChainAt
      <4>3. Made'[len + 1] = ApplyInventory(deals'[len + 1].side, Made'[(len + 1) - 1],
                                            deals'[len + 1].quantity, deals'[len + 1].price).position
        BY <4>1, <4>2, Zenon
      <4>4. deals'[len + 1] = deal
        BY <1>4
      <4> QED
        BY <4>1, <4>3, <4>4
    <3> QED
      BY <1>2, <2>4, <3>1 DEF deal, applied
  <2>6. BookedOn(deal, position)
    BY <1>2, <1>7 DEF BookedOn, deal, applied
  <2>7. position' = ApplyInventory(deal.side, position, deal.quantity, deal.price).position
    BY <1>2 DEF deal, applied
  <2>8. /\ Sound(position')
        /\ position'.quantity * position'.avg + Cash(deal)
             = position.quantity * position.avg + deal.realized
    BY <1>3, <2>4, <2>6, <2>7, DealBooked
  <2>9. \A n \in 0..Len(deals') : Sound(Made'[n])
    <3>1. \A n \in 0..len : Sound(Made'[n])
      BY <2>1, <2>3 DEF Orderly
    <3>2. \A n \in 0..Len(deals') : n \in 0..len \/ n = len + 1
      BY <1>4
    <3> QED
      BY <2>5, <2>8, <3>1, <3>2
  <2>10. \A i \in Standing' : BookedOn(deals'[i], Made'[i - 1])
    <3>1. ASSUME NEW i \in Standing PROVE BookedOn(deals'[i], Made'[i - 1])
      <4>1. i \in 1..len /\ i - 1 \in 0..len
        BY <1>4, <1>5
      <4> QED
        BY <1>4, <2>1, <2>3, <4>1 DEF Orderly
    <3>2. BookedOn(deals'[len + 1], Made'[(len + 1) - 1])
      BY <1>4, <2>4, <2>6
    <3> QED
      BY <1>5, <3>1, <3>2
  <2>11. (CashFlow + StockValue = Realized(Standing))'
    <3>1. /\ CashFlow \in Int /\ CashFlow' = CashFlow + Cash(deal)
          /\ Realized(Standing) \in Int /\ Realized(Standing)' = Realized(Standing) + deal.realized
      <4>1. \A i \in Standing : deals'[i] = deals[i]
        BY <1>4, <1>5
      <4> QED
        BY <1>1, <1>3, <1>4, <1>5, <4>1, SumsGrow
    <3>2. StockValue \in Int /\ StockValue' \in Int /\ Cash(deal) \in Int /\ deal.realized \in Int
      BY <1>1, <1>3, <1>6, RowFacts DEF HistoryType, Position, StockValue
    <3>3. StockValue' + Cash(deal) = StockValue + deal.realized
      BY <2>8 DEF StockValue
    <3>4. CashFlow + StockValue = Realized(Standing)
      BY <2>1 DEF Orderly
    <3> QED
      BY <3>1, <3>2, <3>3, <3>4
  <2>12. position' = Made'[Len(deals')]
    BY <1>4, <2>5
  <2> QED
    BY <2>9, <2>10, <2>11, <2>12 DEF Orderly
<1> QED
  BY <1>6, <1>7 DEF IInv

LEMMA TakeBackKeeps ==
  ASSUME IInv, NEW i \in Standing, Void(i) \/ Delete(i)
  PROVE  IInv'
<1> DEFINE len == Len(deals)
           deal == deals[i]
<1>1. HistoryType /\ (orderly => Orderly) /\ deals \in Seq(DealRow) /\ len \in Nat
      /\ DOMAIN deals = 1..len /\ Standing \subseteq 1..len /\ i \in 1..len
      /\ deal \in DealRow
  BY DEF IInv, HistoryType, Standing
<1>2. /\ position' = ReverseInventory(position, deal) /\ deals' = deals
      /\ orderly' = (orderly /\ \A j \in Standing : j <= i)
      /\ \/ voided' = voided \cup {i} /\ deleted' = deleted
         \/ voided' = voided /\ deleted' = deleted \cup {i}
  BY DEF Void, Delete, TakeBack
<1>3. Standing' = Standing \ {i}
  BY <1>2 DEF Standing
<1>4. position' \in Position
  <2>1. /\ deal.side \in Sides /\ deal.quantity \in Positive /\ deal.price \in Positive
        /\ deal.cost \in Int /\ position \in Position
    BY <1>1 DEF HistoryType, DealRow
  <2> QED
    BY <1>2, <2>1, ReverseInventoryType
<1>5. HistoryType'
  <2>1. voided' \subseteq DOMAIN deals' /\ deleted' \subseteq DOMAIN deals'
    BY <1>1, <1>2 DEF HistoryType
  <2>2. orderly' \in BOOLEAN
    BY <1>2
  <2> QED
    BY <1>1, <1>2, <1>4, <2>1, <2>2 DEF HistoryType
<1> HIDE DEF deal
<1>6. ASSUME orderly' PROVE Orderly'
  <2>1. Orderly /\ \A j \in Standing : j <= i
    BY <1>1, <1>2, <1>6
  <2>2. Chain(Made, deals, Standing) /\ Chain(Made', deals, Standing')
    BY <1>1, <1>2, MadeChain, MadeChainNext
  <2>3. i - 1 \in 0..len /\ i \in 0..len
    BY <1>1
  <2>4. \A n \in 0..(i - 1) : Made'[n] = Made[n]
    <3>1. \A n \in 1..(i - 1) : n \in Standing' <=> n \in Standing
      BY <1>1, <1>3
    <3>2. i - 1 \in Nat /\ i - 1 <= len
      BY <1>1
    <3> QED
      BY <1>1, <2>2, <3>1, <3>2, ChainsAgree
  <2>5. \A n \in (i - 1)..len : Made'[n] = Made'[i - 1]
    <3>1. \A j \in 1..len : j \in Standing' => j <= i - 1
      BY <1>1, <1>3, <2>1
    <3> QED
      BY <1>1, <2>2, <2>3, <3>1, ChainRests
  <2>6. \A n \in 0..len : Made'[n] = IF n < i THEN Made[n] ELSE Made[i - 1]
    <3> TAKE n \in 0..len
    <3>1. CASE n < i
      BY <1>1, <2>4, <3>1
    <3>2. CASE ~(n < i)
      <4>1. n \in (i - 1)..len /\ i - 1 \in 0..(i - 1)
        BY <1>1, <3>2
      <4> QED
        BY <2>4, <2>5, <3>2, <4>1
    <3> QED
      BY <3>1, <3>2
  <2>7. position = ApplyInventory(deal.side, Made[i - 1], deal.quantity, deal.price).position
    <3>1. Made[len] = Made[i]
      <4>1. len \in i..len /\ \A j \in 1..len : j \in Standing => j <= i
        BY <1>1, <2>1
      <4> QED
        BY <1>1, <2>2, <2>3, <4>1, ChainRests
    <3>2. Made[i] = ApplyInventory(deal.side, Made[i - 1], deal.quantity, deal.price).position
      BY <1>1, <2>2, ChainAt DEF deal
    <3> QED
      BY <2>1, <3>1, <3>2 DEF Orderly
  <2>8. Sound(Made[i - 1]) /\ BookedOn(deal, Made[i - 1])
    BY <2>1, <2>3 DEF Orderly, deal
  <2>9. /\ position' = Made[i - 1]
        /\ position.quantity * position.avg + Cash(deal)
             = position'.quantity * position'.avg + deal.realized
    <3> DEFINE pos == Made[i - 1]
    <3>1. /\ ReverseInventory(position, deal) = pos
          /\ position.quantity * position.avg + Cash(deal) = pos.quantity * pos.avg + deal.realized
      <4> HIDE DEF pos
      <4>1. /\ Sound(pos) /\ BookedOn(deal, pos)
            /\ position = ApplyInventory(deal.side, pos, deal.quantity, deal.price).position
        BY <2>7, <2>8 DEF pos
      <4> QED
        BY <1>1, <4>1, DealBooked
    <3> QED
      BY <1>2, <3>1
  <2>10. \A n \in 0..Len(deals') : Sound(Made'[n])
    BY <1>2, <2>1, <2>3, <2>6 DEF Orderly
  <2>11. \A j \in Standing' : BookedOn(deals'[j], Made'[j - 1])
    <3> TAKE j \in Standing'
    <3>1. j \in Standing /\ j \in 1..len /\ j - 1 \in 0..len /\ j - 1 < i
      BY <1>1, <1>3, <2>1
    <3>2. Made'[j - 1] = Made[j - 1]
      BY <2>6, <3>1
    <3> QED
      BY <1>2, <2>1, <3>1, <3>2 DEF Orderly
  <2>12. position' = Made'[Len(deals')]
    <3>1. len \in 0..len /\ ~(len < i)
      BY <1>1
    <3> QED
      BY <1>2, <2>6, <2>9, <3>1
  <2>13. (CashFlow + StockValue = Realized(Standing))'
    <3>1. /\ CashFlow \in Int /\ CashFlow' = CashFlow - Cash(deal)
          /\ Realized(Standing) \in Int /\ Realized(Standing)' = Realized(Standing) - deal.realized
      BY <1>1, <1>2, <1>3, SumsShrink DEF deal
    <3>2. StockValue \in Int /\ StockValue' \in Int /\ Cash(deal) \in Int /\ deal.realized \in Int
      BY <1>1, <1>5, RowFacts DEF HistoryType, Position, StockValue
    <3>3. StockValue + Cash(deal) = StockValue' + deal.realized
      BY <2>9 DEF StockValue
    <3>4. CashFlow + StockValue = Realized(Standing)
      BY <2>1 DEF Orderly
    <3> QED
      BY <3>1, <3>2, <3>3, <3>4
  <2> QED
    BY <2>10, <2>11, <2>12, <2>13 DEF Orderly
<1> QED
  BY <1>5, <1>6 DEF IInv

LEMMA StutterKeeps == IInv /\ UNCHANGED vars => IInv'
<1> SUFFICES ASSUME IInv, UNCHANGED vars PROVE IInv'
  OBVIOUS
<1>1. /\ deals' = deals /\ position' = position /\ voided' = voided /\ deleted' = deleted
      /\ orderly' = orderly /\ Standing' = Standing
  BY DEF vars, Standing
<1>2. Made' = Made
  BY <1>1 DEF Made
<1> QED
  BY <1>1, <1>2 DEF IInv, HistoryType, Orderly, CashFlow, StockValue, Realized

THEOREM Invariance == Spec => []IInv
<1>1. IInv /\ [Next]_vars => IInv'
  BY TradeKeeps, TakeBackKeeps, StutterKeeps DEF Next
<1> QED
  BY <1>1, InitHistory, PTL DEF Spec

\* Position, deals and corrections keep their types, orderly history or not.
THEOREM TypeCorrect == Spec => []HistoryType
<1>1. IInv => HistoryType
  BY DEF IInv
<1> QED
  BY <1>1, Invariance, PTL

\* _apply_inventory and _reverse_inventory book profit once: whatever was bought, sold
\* and taken back in an orderly history, cash and stock at cost are the booked profit.
THEOREM ProfitIsBooked == Spec => []ProfitBooked
<1>1. IInv => ProfitBooked
  BY DEF IInv, Orderly, ProfitBooked
<1> QED
  BY <1>1, Invariance, PTL

\* In an orderly history _reverse_inventory gives back the position the remaining deals
\* alone would have made, however many deals came and went.
THEOREM CorrectionsLeaveNoTrace == Spec => []OrderlyUndoExact
<1>1. IInv => OrderlyUndoExact
  BY DEF IInv, Orderly, OrderlyUndoExact
<1> QED
  BY <1>1, Invariance, PTL
=============================================================================
