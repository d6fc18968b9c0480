----------------------------- MODULE Statements -----------------------------
(***************************************************************************)
(* What the pages tell about the tables of Ledger: the statement of an     *)
(* account, the reports on cash, customers and profit, and the form that   *)
(* "edit" fills in again.  Nothing here changes a table.                   *)
(*                                                                         *)
(* No operation of the ledger reads the date typed with a document or a    *)
(* rate, so they are no part of the state: a property holds for every      *)
(* choice of them: date maps the documents to their dates, rate the        *)
(* currencies to their latest rate, None where there is none.              *)
(***************************************************************************)
EXTENDS LedgerBalances, FiniteSetsExt

CONSTANTS
  Days,       \* dates a document may bear
  RateValues  \* rates a page or a source may give

ASSUME StatementsAssumption ==
  /\ Days \subseteq Nat /\ Days # {}
  /\ RateValues \subseteq Nat \ {0}

\* Both are tables, and a null is no row of one.
ASSUME TablesAssumption ==
  /\ IsFiniteSet(Parties) /\ IsFiniteSet(Currencies)
  /\ None \notin Parties

-----------------------------------------------------------------------------
(* Dates *)

\* A date filter; None leaves that end open.
Within(day, from, to) == (from # None => from <= day) /\ (to # None => day <= to)

\* Variant for mutation: a reversal bears the day it was made, the last one.
DatingsOfToday ==
  {date \in [Rows -> Days] : \A id \in Rows \ Entered : date[id] = Max(Days)}

\* What dates the documents may bear: any, a reversal that of its original.
Datings ==
  {date \in [Rows -> Days] :
     \A id \in Rows \ Entered : date[id] = date[voucher[id].reverses]}

-----------------------------------------------------------------------------
(* account_statement *)

\* The lines in the table: a document and a row of it.
Places == {k \in Rows \X (1..MaxLines) : k[2] \in DOMAIN voucher[k[1]].lines}

LineAt(k) == voucher[k[1]].lines[k[2]]

\* What the lines of S come to in c.
LinesTotal(S, c) ==
  SumFunctionOnSet([k \in S |-> IF LineAt(k).currency = c THEN LineAt(k).amount ELSE 0], S)

\* The lines of party p in the currencies cs.
LinesOf(p, cs, date, from, to) ==
  {k \in Places : /\ LineAt(k).party = p
                  /\ LineAt(k).currency \in cs
                  /\ Within(date[k[1]], from, to)}

\* By date, then number, then row; the page shows the newest line first.
Precedes(date, j, k) ==
  \/ date[j[1]] < date[k[1]]
  \/ /\ date[j[1]] = date[k[1]]
     /\ \/ voucher[j[1]].number < voucher[k[1]].number
        \/ j[1] = k[1] /\ j[2] < k[2]

\* What was there before the period; nothing when it has no first day.
Opening(p, c, date, from) ==
  IF from = None THEN 0 ELSE BalanceOf({id \in Rows : date[id] < from}, p, c)

\* Each line carries what its currency has come to with it, in that order.
Statement(p, cs, date, from, to) ==
  LET lines == LinesOf(p, cs, date, from, to)
      opening == [c \in cs |-> Opening(p, c, date, from)]
      running(S, c) == opening[c] + LinesTotal(S, c)
  IN  [opening |-> opening,
       closing |-> [c \in cs |-> running(lines, c)],
       rows    |-> [k \in lines |->
                     [currency |-> LineAt(k).currency, amount |-> LineAt(k).amount,
                      running  |-> running({j \in lines : j = k \/ Precedes(date, j, k)},
                                           LineAt(k).currency)]]]

-----------------------------------------------------------------------------
(* core/rates.py *)

\* The rates of each currency in order: the table only grows, and the last row counts.
ManualRate(history, c, r) == [history EXCEPT ![c] = Append(@, r)]

\* A fetch adds a row for each mapped currency whose answer is a positive number; the
\* others are logged and skipped.  With no row at all it raises.
FetchFromSource(history, answers) ==
  [c \in Currencies |->
     IF c \in DOMAIN answers /\ answers[c] > 0 THEN Append(history[c], answers[c])
     ELSE history[c]]

LatestRate(history, c) ==
  IF c = Base THEN 1
  ELSE IF history[c] = << >> THEN None ELSE history[c][Len(history[c])]

LatestRateMap(history) == [c \in Currencies |-> LatestRate(history, c)]

\* Nothing yet, a rate typed in, a fetch on top of it or instead of it.
RateHistories ==
  LET empty == [c \in Currencies |-> << >>]
      typed == {empty} \cup {ManualRate(empty, c, r) : c \in Foreign, r \in RateValues}
      answers == UNION {[mapped -> RateValues \cup {0}] : mapped \in SUBSET Foreign}
  IN  typed \cup {FetchFromSource(h, a) : h \in typed, a \in answers}

RateMaps == {LatestRateMap(history) : history \in RateHistories}

Known(rate) == {c \in Currencies : rate[c] # None}

-----------------------------------------------------------------------------
(* balances.py *)

ValueInBase(amounts, rate) ==
  [total   |-> SumFunctionOnSet([c \in Known(rate) |-> amounts[c] * rate[c]], Known(rate)),
   missing |-> {c \in Currencies \ Known(rate) : amounts[c] # 0}]

TotalOver(S) == [c \in Currencies |-> SumFunctionOnSet([p \in S |-> Balance(p, c)], S)]

OfKind(kinds) == {p \in Parties : KindOf[p] \in kinds}

\* One row for each currency with lines, active banks and cashboxes only.
HouseAccountsSummary ==
  {[party |-> LineAt(k).party, currency |-> LineAt(k).currency,
    amount |-> Balance(LineAt(k).party, LineAt(k).currency)] :
     k \in {place \in Places : LineAt(place).party \in OfKind(HouseKinds) \cap active}}

\* The amounts in the bar on top of every page: inactive accounts, too.
HouseCurrencySnapshot == TotalOver(OfKind(HouseKinds))

\* Customers, active or not, each valued on its own.
CustomersOverview(rate) ==
  [p \in OfKind({"customer"}) |-> ValueInBase([c \in Currencies |-> Balance(p, c)], rate)]

\* Variant for mutation: the cash of the active accounts only.
NetWorthOfActive(rate) ==
  LET net == TotalOver((OfKind(HouseKinds) \cap active) \cup OfKind({"customer"}))
  IN  ValueInBase(net, rate)

\* What the house holds and the customers owe it, less what it owes them.
NetWorthSnapshot(rate) ==
  LET house     == TotalOver(OfKind(HouseKinds))
      customers == TotalOver(OfKind({"customer"}))
  IN  ValueInBase([c \in Currencies |-> house[c] + customers[c]], rate)

DebitCreditTotals(date, from, to) ==
  LET within == {k \in Places : Within(date[k[1]], from, to)}
  IN  [c \in Currencies |->
         [debit  |-> LinesTotal({k \in within : LineAt(k).amount > 0}, c),
          credit |-> -LinesTotal({k \in within : LineAt(k).amount < 0}, c)]]

-----------------------------------------------------------------------------
(* reports/views.py *)

DealsOf(date, from, to) ==
  {id \in Rows : voucher[id].deal # None /\ Within(date[id], from, to)}

OnSide(ids, side) == {id \in ids : voucher[id].deal.side = side}

Quantity(ids) == SumFunctionOnSet([id \in ids |-> voucher[id].deal.quantity], ids)

Turnover(ids) ==
  SumFunctionOnSet([id \in ids |-> voucher[id].deal.quantity * voucher[id].deal.price], ids)

RealizedOf(ids) == SumFunctionOnSet([id \in ids |-> voucher[id].deal.realized], ids)

\* Purchases and sales by day, currency and side.
DailyData(date, from, to) ==
  LET deals == DealsOf(date, from, to)
      key(id) == <<date[id], voucher[id].deal.currency, voucher[id].deal.side>>
  IN  [k \in {key(id) : id \in deals} |->
         LET ids == {id \in deals : key(id) = k}
         IN  [quantity |-> Quantity(ids), total |-> Turnover(ids),
              count |-> Cardinality(ids)]]

\* Profit by day: only a sale realizes any.
DailyProfitData(date, from, to) ==
  LET deals == DealsOf(date, from, to)
      on(day) == {id \in deals : date[id] = day}
      upTo(day) == {id \in deals : date[id] <= day}
  IN  [day \in {date[id] : id \in deals} |->
         [buy |-> Turnover(OnSide(on(day), BUY)), sell |-> Turnover(OnSide(on(day), SELL)),
          profit |-> RealizedOf(OnSide(on(day), SELL)),
          running |-> RealizedOf(OnSide(upTo(day), SELL))]]

\* Variant for mutation: the stock is valued without its cost.
UnrealizedGross(rate) ==
  SumFunctionOnSet([c \in Foreign \cap Known(rate) |-> rate[c] * position[c].quantity],
                   Foreign \cap Known(rate))

\* The stock at the latest rate less its average cost, whatever the period.
Unrealized(rate) ==
  SumFunctionOnSet([c \in Foreign \cap Known(rate) |->
                      (rate[c] - position[c].avg) * position[c].quantity],
                   Foreign \cap Known(rate))

ProfitData(date, from, to, rate) ==
  [realized   |-> RealizedOf(OnSide(DealsOf(date, from, to), SELL)),
   unrealized |-> Unrealized(rate),
   missing    |-> {c \in Foreign \ Known(rate) : position[c].quantity # 0}]

-----------------------------------------------------------------------------
(* The edit page: it deletes the document and fills its data into a form *)

\* Variant for mutation: only parties the lists of the form offer.
FirstActiveOf(lines, kinds) ==
  LET at == {i \in DOMAIN lines : IsActive(lines[i].party, kinds)}
  IN  IF at = {} THEN None ELSE lines[Min(at)].party

FirstOf(lines, kinds) ==
  LET at == {i \in DOMAIN lines : KindOf[lines[i].party] \in kinds}
  IN  IF at = {} THEN None ELSE lines[Min(at)].party

FormAmount(lines) == Max({Max({lines[i].amount, -lines[i].amount}) : i \in DOMAIN lines})

\* The form a document goes back into; the other kinds have none.
EditForm(row) ==
  CASE row.kind = "deal" ->
         [side |-> row.deal.side, counterparty |-> row.deal.counterparty,
          currency |-> row.deal.currency, quantity |-> row.deal.quantity,
          price |-> row.deal.price]
    [] row.kind \in {"receive", "pay"} ->
         [party |-> FirstOf(row.lines, {"customer"}),
          account |-> FirstOf(row.lines, HouseKinds),
          currency |-> Head(row.lines).currency, amount |-> FormAmount(row.lines)]
    [] OTHER -> None

\* The lines that form writes when it is sent as it is.
Resubmitted(kind, form) ==
  CASE kind = "deal" ->
         DealLines(form.side, form.currency, Leg(None, form.counterparty),
                   Leg(None, form.counterparty), form.quantity, form.quantity * form.price)
    [] kind = "receive" -> MoveLines(form.account, form.party, form.currency, form.amount)
    [] kind = "pay"     -> MoveLines(form.party, form.account, form.currency, form.amount)

-----------------------------------------------------------------------------
(* What must hold *)

\* A statement of any period, open at either end or not, counts the entered documents in
\* effect and no other: a void takes its document out of the period it is in, however late
\* it is made.  The period opens with the balance before it and closes with that and its
\* documents; the running balance of the last line of a day is the balance of that day,
\* and the one of the last line of all is the closing balance.
StatementsFollowEffect ==
  LET standing == {id \in Entered : InEffect[id]}
  IN  \A date \in Datings, from, to \in Days \cup {None} :
        LET before == {id \in standing : from # None /\ date[id] < from}
            during == {id \in standing : Within(date[id], from, to)}
            until(day) == {id \in standing : date[id] <= day}
            lastOf(S, k) == \A j \in S : j = k \/ Precedes(date, j, k)
        IN  \A p \in Parties :
              LET s == Statement(p, Currencies, date, from, to)
              IN  \A c \in Currencies :
                    LET opening == s.opening[c]
                        closing == s.closing[c]
                        lines   == {k \in DOMAIN s.rows : LineAt(k).currency = c}
                    IN  /\ opening = BalanceOf(before, p, c)
                        /\ closing = opening + BalanceOf(during, p, c)
                        /\ \A k \in lines :
                             lastOf({j \in lines : date[j[1]] = date[k[1]]}, k) =>
                               s.rows[k].running = BalanceOf(until(date[k[1]]), p, c)
                        /\ IF lines = {} THEN closing = opening
                           ELSE \E k \in lines : lastOf(lines, k) /\ s.rows[k].running = closing

\* The net-worth report leaves the internal accounts out because they mirror the rest
\* (balances.py:300-302): its total is theirs with the sign turned, at any rates, and
\* it is the cash of all accounts plus the customers' report.  An account made inactive
\* leaves the list of the dashboard with its cash, which the bar on top still counts.
NetWorthMirrored ==
  /\ \A rate \in RateMaps :
       LET net == NetWorthSnapshot(rate).total
           customers == CustomersOverview(rate)
       IN  /\ net = -ValueInBase(TotalOver(OfKind({"position", "expense", "income", "equity"})),
                                 rate).total
           /\ net = ValueInBase(HouseCurrencySnapshot, rate).total
                      + SumFunctionOnSet([p \in DOMAIN customers |-> customers[p].total], DOMAIN customers)
  /\ \A c \in Currencies :
       HouseCurrencySnapshot[c]
         = LET listed == {row \in HouseAccountsSummary : row.currency = c}
           IN  SumFunctionOnSet([row \in listed |-> row.amount], listed)
                 + TotalOver(OfKind(HouseKinds) \ active)[c]
  /\ \A date \in Datings, from, to \in Days \cup {None}, c \in Currencies :
       LET total == DebitCreditTotals(date, from, to)[c]
       IN  total.debit = total.credit

\* Documents were only entered since the last reset, and no deal sold what was not there.
Uncorrected == \A i \in SinceReset : audit[i].action # "void" /\ audit[i].action # "delete"

Deals == {id \in Rows : voucher[id].deal # None}

\* What the deals in its currency up to a deal bought less what they sold.
StockAfter(id) ==
  LET upTo == {d \in Deals : /\ d <= id
                            /\ voucher[d].deal.currency = voucher[id].deal.currency}
  IN  SumFunctionOnSet([d \in upTo |-> SignedQuantity(voucher[d].deal)], upTo)

NeverShort == \A id \in Deals : StockAfter(id) >= 0

\* A purchase rounds its average by at most half a unit, and the value of the stock by
\* half a unit for each unit then in stock; not at all when the average comes out even.
RoundedTwice(id) ==
  LET deal  == voucher[id].deal
      value == (StockAfter(id) - deal.quantity) * deal.cost + deal.quantity * deal.price
  IN  IF deal.side = BUY /\ value % StockAfter(id) # 0 THEN StockAfter(id) ELSE 0

\* What documents other than deals brought to the house and its customers.
Brought ==
  LET outside == OfKind(HouseKinds \cup {"customer"})
      others == Rows \ Deals
  IN  [c \in Currencies |->
         SumFunctionOnSet([p \in outside |-> BalanceOf(others, p, c)], outside)]

\* Two reports made from different tables tell one story.  The profit of a period is that
\* of its days; and while nothing was corrected or sold short, the trade of all days is
\* the stock, and the net worth beyond what was brought in is the realized plus the
\* unrealized profit, at any rates, but for what the averages were rounded by.
NetWorthExplained ==
  \A date \in Datings, from, to \in Days :
    LET days == DailyProfitData(date, from, to)
        trade == DailyData(date, from, to)
        ofAllDays == \A id \in Rows : Within(date[id], from, to)
    IN  /\ RealizedOf(OnSide(DealsOf(date, from, to), SELL))
             = SumFunctionOnSet([day \in DOMAIN days |-> days[day].profit], DOMAIN days)
        /\ Uncorrected /\ NeverShort /\ ofAllDays =>
             /\ \A c \in Foreign :
                  position[c].quantity
                    = LET traded == {k \in DOMAIN trade : k[2] = c}
                      IN  SumFunctionOnSet(
                            [k \in traded |-> IF k[3] = BUY THEN trade[k].quantity
                                              ELSE -trade[k].quantity], traded)
             /\ \A rate \in {r \in RateMaps : Known(r) = Currencies} :
                  LET profit == ProfitData(date, from, to, rate)
                      gap == NetWorthSnapshot(rate).total - ValueInBase(Brought, rate).total
                               - (profit.realized + profit.unrealized)
                      rounding == SumFunctionOnSet([id \in Deals |-> RoundedTwice(id)], Deals)
                  IN  2 * gap <= rounding /\ -(2 * gap) <= rounding

\* The form of an edited document, sent as it is, writes the document again, and for a
\* deal exactly when nothing of it was settled or delivered at once: those accounts are
\* not carried over, and the money moves back to the customer's account.
EditRestores ==
  \A id \in Rows :
    LET row == voucher[id]
    IN  EditForm(row) # None =>
          ((Resubmitted(row.kind, EditForm(row)) = row.lines)
             <=> (row.kind = "deal" => FirstOf(row.lines, HouseKinds) = None))
=============================================================================
