----------------------------- MODULE LedgerProofs -----------------------------
(***************************************************************************)
(* The document engine keeps its tables well-formed for every set of       *)
(* parties, currencies and amounts and for every bound: types, numbering,  *)
(* import keys and void pairs are one inductive invariant, IInv; and the   *)
(* ledger implements DocumentRegister.  From it, balances, stock and audit *)
(* trail agree with the documents: a document has at most one reversal,    *)
(* which came later and negates every line of it.                          *)
(***************************************************************************)
EXTENDS LedgerRegister, LedgerBalances, DataLemmas

\* Each part needs the others: a number is fresh because the counter bounds all
\* numbers, a reversal points at a row that exists, and a new primary key is
\* nobody's reversal because every reversal points below nextId.
IInv == TypeOK /\ NumbersUnique /\ VoidIffReversed /\ KeysUnique

-----------------------------------------------------------------------------
(* Types of what the operations build *)

LEMMA SystemParties ==
  /\ \A c \in Currencies : PositionFor(c) \in Parties
  /\ Equity \in Parties
BY PartiesAssumption DEF PositionFor, Equity

LEMMA EntryType ==
  ASSUME NEW p \in Parties, NEW c \in Currencies, NEW a \in Int
  PROVE  Entry(p, c, a) \in Line
BY DEF Entry, Line

LEMMA MoveLinesType ==
  ASSUME NEW to \in Parties, NEW from \in Parties, NEW c \in Currencies, NEW a \in Int
  PROVE  /\ MoveLines(to, from, c, a) \in Seq(Line)
         /\ Len(MoveLines(to, from, c, a)) <= MaxLines
<1>1. Entry(to, c, a) \in Line /\ Entry(from, c, -a) \in Line
  BY EntryType
<1> QED
  BY <1>1 DEF MoveLines, MaxLines

LEMMA DealLinesType ==
  ASSUME NEW side \in Sides, NEW c \in Currencies, NEW p \in Parties, NEW q \in Parties,
         NEW a \in Int, NEW t \in Int
  PROVE  /\ DealLines(side, c, p, q, a, t) \in Seq(Line)
         /\ Len(DealLines(side, c, p, q, a, t)) <= MaxLines
<1>1. PositionFor(c) \in Parties /\ PositionFor(Base) \in Parties /\ Base \in Currencies
  BY SystemParties, PartiesAssumption
<1>2. \A x \in Parties, d \in Currencies, b \in Int : Entry(x, d, b) \in Line
  BY EntryType
<1>3. -a \in Int /\ -t \in Int
  OBVIOUS
<1> QED
  BY <1>1, <1>2, <1>3 DEF DealLines, MaxLines

LEMMA NegatedType ==
  ASSUME NEW lines \in Seq(Line)
  PROVE  /\ Negated(lines) \in Seq(Line)
         /\ Len(Negated(lines)) = Len(lines)
<1>1. \A i \in DOMAIN lines : lines[i] \in Line
  OBVIOUS
<1>2. \A i \in DOMAIN lines : [lines[i] EXCEPT !.amount = -@] \in Line
  BY <1>1 DEF Line
<1>3. Negated(lines) \in [1..Len(lines) -> Line]
  BY <1>2 DEF Negated
<1> QED
  BY <1>3

LEMMA NegatedAmount ==
  ASSUME NEW lines \in Seq(Line), NEW c \in Currencies, NEW i \in Nat
  PROVE  /\ AmountAt(lines, i, c) \in Int
         /\ AmountAt(Negated(lines), i, c) = -AmountAt(lines, i, c)
<1>1. DOMAIN Negated(lines) = DOMAIN lines
  BY DEF Negated
<1>2. CASE i \in DOMAIN lines
  <2>1. lines[i] \in Line
    BY <1>2
  <2>2. /\ Negated(lines)[i].currency = lines[i].currency
        /\ Negated(lines)[i].amount = -lines[i].amount
    BY <1>2, <2>1 DEF Negated, Line
  <2> QED
    BY <1>1, <1>2, <2>1, <2>2 DEF AmountAt, Line
<1>3. CASE i \notin DOMAIN lines
  <2>1. AmountAt(lines, i, c) = 0 /\ AmountAt(Negated(lines), i, c) = 0
    BY <1>1, <1>3 DEF AmountAt
  <2>2. AmountAt(lines, i, c) \in Int
    BY <2>1
  <2>3. -AmountAt(lines, i, c) = 0 - AmountAt(lines, i, c)
    BY ONLY <2>2
  <2> QED
    BY <2>1, <2>3
<1> QED
  BY <1>2, <1>3

LEMMA NegatedAccountAmount ==
  ASSUME NEW lines \in Seq(Line), NEW p \in Parties, NEW c \in Currencies, NEW i \in Nat
  PROVE  /\ AccountAmountAt(lines, i, p, c) \in Int
         /\ AccountAmountAt(Negated(lines), i, p, c) = -AccountAmountAt(lines, i, p, c)
<1>1. DOMAIN Negated(lines) = DOMAIN lines
  BY DEF Negated
<1>2. i \in DOMAIN lines => Negated(lines)[i].party = lines[i].party
  <2> SUFFICES ASSUME i \in DOMAIN lines PROVE Negated(lines)[i].party = lines[i].party
    OBVIOUS
  <2>1. lines[i] \in Line
    OBVIOUS
  <2> QED
    BY <2>1 DEF Negated, Line
<1> QED
  BY <1>1, <1>2, NegatedAmount DEF AccountAmountAt

LEMMA LogType ==
  ASSUME NEW action \in {"post", "void", "delete", "reset"}, NEW object \in Nat
  PROVE  Log(action, object) \in AuditRow
BY DEF Log, AuditRow

\* Taking back a row's deal leaves well-formed inventory rows.
LEMMA PositionWithoutType ==
  ASSUME TypeOK, NEW id \in Rows
  PROVE  PositionWithout(voucher[id]) \in [Foreign -> Position]
<1>1. voucher[id] \in Row /\ position \in [Foreign -> Position]
  BY DEF TypeOK, Rows
<1>2. CASE voucher[id].deal = None
  BY <1>1, <1>2 DEF PositionWithout
<1>3. CASE voucher[id].deal # None
  <2>1. voucher[id].deal \in Deal
    BY <1>1, <1>3 DEF Row
  <2> DEFINE c == voucher[id].deal.currency
  <2>2. c \in Foreign => ReverseInventory(position[c], voucher[id].deal) \in Position
    BY <1>1, <2>1, ReverseInventoryType DEF Deal, Positive
  <2> QED
    BY <1>1, <1>3, <2>2 DEF PositionWithout
<1> QED
  BY <1>2, <1>3

-----------------------------------------------------------------------------
(* Adding a row *)

LEMMA StoredType ==
  ASSUME TypeOK, NEW f \in [Rows -> Row], NEW row \in Row,
         \A i \in Rows : Len(f[i].lines) <= MaxLines, Len(row.lines) <= MaxLines
  PROVE  LET g == Stored(f, nextId, row)
         IN  /\ DOMAIN g = Rows \cup {nextId}
             /\ nextId \notin Rows
             /\ g[nextId] = row
             /\ \A i \in Rows : g[i] = f[i] /\ i # nextId
             /\ DOMAIN g \subseteq 1..nextId
             /\ g \in [DOMAIN g -> Row]
             /\ \A i \in DOMAIN g : Len(g[i].lines) <= MaxLines
<1> DEFINE g == Stored(f, nextId, row)
<1>1. Rows \subseteq 1..(nextId - 1) /\ nextId \in Nat \ {0}
  BY DEF TypeOK
<1>2. nextId \notin Rows /\ Rows \cup {nextId} \subseteq 1..nextId
  BY <1>1
<1>3. DOMAIN f = Rows /\ \A i \in Rows : f[i] \in Row
  OBVIOUS
<1>4. g = [i \in Rows \cup {nextId} |-> IF i = nextId THEN row ELSE f[i]]
  BY <1>3 DEF Stored
<1> HIDE DEF g
<1> QED
  BY <1>2, <1>3, <1>4 DEF g

\* What a posting does to the tables; the row of a reversal comes with a mark on
\* the original, so VoidVoucher has a lemma of its own.
LEMMA PostVoucherEffect ==
  ASSUME TypeOK, NEW row \in Row, PostVoucher(row), Len(row.lines) <= MaxLines
  PROVE  /\ Rows' = Rows \cup {nextId}
         /\ nextId \notin Rows
         /\ voucher'[nextId] = row
         /\ \A i \in Rows : voucher'[i] = voucher[i] /\ i # nextId
         /\ Rows' \subseteq 1..nextId
         /\ voucher' \in [Rows' -> Row]
         /\ \A i \in Rows' : Len(voucher'[i].lines) <= MaxLines
         /\ nextId' = nextId + 1
         /\ sequence' = sequence + 1
         /\ audit' = Append(audit, Log("post", nextId))
         /\ row.key # None => \A id \in Rows : voucher[id].key # row.key
<1>1. /\ voucher' = Stored(voucher, nextId, row)
      /\ nextId' = nextId + 1
      /\ sequence' = sequence + 1
      /\ audit' = Append(audit, Log("post", nextId))
      /\ row.key # None => \A id \in Rows : voucher[id].key # row.key
  BY DEF PostVoucher, Postable
<1>2. /\ voucher \in [Rows -> Row]
      /\ \A i \in Rows : Len(voucher[i].lines) <= MaxLines
  BY DEF TypeOK
<1> QED
  BY <1>1, <1>2, StoredType DEF Rows

\* The step posts row, a well-formed document that reverses nothing.
Posts(row) ==
  /\ row \in Row /\ Len(row.lines) <= MaxLines
  /\ row.status = "final" /\ row.number = sequence + 1 /\ row.reverses = 0
  /\ PostVoucher(row)
  /\ position' \in [Foreign -> Position] /\ active' \subseteq Parties

\* The step posts a deal in c and takes it into the stock of c.
PostsDeal(row, c) ==
  /\ Posts(row)
  /\ row.deal \in Deal /\ row.deal.currency = c
  /\ LET applied == ApplyInventory(row.deal.side, position[c], row.deal.quantity, row.deal.price)
     IN  /\ row.deal.cost = applied.cost /\ row.deal.realized = applied.realized
         /\ position' = [position EXCEPT ![c] = applied.position]

\* The step posts a document without a deal, which leaves every stock alone.
PostsOther(row) == Posts(row) /\ row.deal = None /\ position' = position

\* A posted document, other than a reversal, keeps the invariant.
LEMMA PostKeepsIInv ==
  ASSUME IInv, NEW row, Posts(row)
  PROVE  IInv'
<1> USE DEF IInv, Posts
<1>1. /\ nextId' = nextId + 1
      /\ sequence' = sequence + 1
      /\ audit' = Append(audit, Log("post", nextId))
      /\ row.key # None => \A id \in Rows : voucher[id].key # row.key
  BY PostVoucherEffect
<1>2. nextId \in Nat \ {0} /\ sequence \in Nat /\ Rows \subseteq 1..(nextId - 1)
  BY DEF TypeOK
<1>3. /\ Rows' = Rows \cup {nextId}
      /\ nextId \notin Rows
      /\ voucher'[nextId] = row
      /\ \A i \in Rows : voucher'[i] = voucher[i] /\ i # nextId
      /\ Rows' \subseteq 1..nextId
      /\ voucher' \in [Rows' -> Row]
      /\ \A i \in Rows' : Len(voucher'[i].lines) <= MaxLines
  BY PostVoucherEffect
<1>4. TypeOK'
  <2>1. audit' \in Seq(AuditRow)
    <3>1. Log("post", nextId) \in AuditRow
      BY <1>2, LogType
    <3>2. audit \in Seq(AuditRow)
      BY DEF TypeOK
    <3> QED
      BY <3>1, <3>2, <1>1
  <2>2. nextId' \in Nat \ {0} /\ sequence' \in Nat /\ nextId' - 1 = nextId
    BY <1>1, <1>2
  <2> QED
    BY <1>3, <2>1, <2>2 DEF TypeOK
<1>5. NumbersUnique'
  <2>1. \A i \in Rows : voucher[i].number \in 1..sequence
    BY DEF NumbersUnique
  <2>2. \A i, j \in Rows : voucher[j].number = voucher[i].number => i = j
    BY DEF NumbersUnique
  <2>3. \A i \in Rows : voucher'[i].number \in 1..sequence
                        /\ voucher'[i].number # sequence + 1
    BY <1>2, <1>3, <2>1
  <2>4. voucher'[nextId].number = sequence + 1
    BY <1>3
  <2>5. \A i \in Rows' : voucher'[i].number \in 1..sequence'
    BY <1>1, <1>2, <1>3, <2>3, <2>4
  <2>6. \A i, j \in Rows' : voucher'[j].number = voucher'[i].number => i = j
    BY <1>3, <2>2, <2>3, <2>4
  <2> QED
    BY <2>5, <2>6 DEF NumbersUnique
<1>6. VoidIffReversed'
  <2>1. /\ \A id \in Rows : voucher[id].status = "void" <=> HasReversal(id)
        /\ \A r \in Rows : voucher[r].reverses # 0 => Cancels(r, voucher[r].reverses)
        /\ \A r, s \in Rows :
             voucher[r].reverses # 0 /\ voucher[r].reverses = voucher[s].reverses => r = s
    BY DEF VoidIffReversed
  <2>2. \A r \in Rows : voucher[r].reverses # nextId
    BY <1>2, <1>3, <2>1 DEF Cancels
  <2>3. \A id \in Rows' : HasReversal(id)' <=> \E r \in Rows : voucher[r].reverses = id
    <3>1. \A id \in Rows' : id # 0
      BY <1>2, <1>3
    <3> QED
      BY <1>3, <3>1 DEF HasReversal
  <2>4. \A id \in Rows' : voucher'[id].status = "void" <=> HasReversal(id)'
    BY <1>3, <2>1, <2>2, <2>3 DEF HasReversal
  <2>5. \A r \in Rows, id \in Rows : Cancels(r, id) => Cancels(r, id)'
    BY <1>3 DEF Cancels
  <2>6. \A r \in Rows' : voucher'[r].reverses # 0 => Cancels(r, voucher[r].reverses)'
    <3> SUFFICES ASSUME NEW r \in Rows', voucher'[r].reverses # 0
                 PROVE  Cancels(r, voucher[r].reverses)'
      OBVIOUS
    <3>1. r \in Rows /\ voucher'[r] = voucher[r]
      BY <1>3
    <3>2. Cancels(r, voucher[r].reverses)
      BY <2>1, <3>1
    <3>3. voucher[r].reverses \in Rows
      BY <3>2 DEF Cancels
    <3> QED
      BY <1>3, <3>1, <3>2, <3>3 DEF Cancels
  <2>7. \A r, s \in Rows' :
          voucher'[r].reverses # 0 /\ voucher'[r].reverses = voucher'[s].reverses => r = s
    BY <1>3, <2>1
  <2> QED
    BY <2>4, <2>6, <2>7 DEF VoidIffReversed
<1>7. KeysUnique'
  BY <1>1, <1>3 DEF KeysUnique
<1> QED
  BY <1>4, <1>5, <1>6, <1>7

-----------------------------------------------------------------------------
(* One lemma per operation *)

LEMMA PostDealPosts ==
  ASSUME IInv, NEW side \in Sides, NEW counterparty \in Parties, NEW c \in Foreign,
         NEW quantity \in Quantities, NEW price \in Prices,
         NEW settle \in Parties \cup {None}, NEW delivery \in Parties \cup {None},
         PostDeal(side, counterparty, c, quantity, price, settle, delivery)
  PROVE  \E row : PostsDeal(row, c)
<1> DEFINE applied == ApplyInventory(side, position[c], quantity, price)
           lines == DealLines(side, c, Leg(delivery, counterparty),
                              Leg(settle, counterparty), quantity, quantity * price)
           deal == [side |-> side, counterparty |-> counterparty, currency |-> c,
                    quantity |-> quantity, price |-> price, cost |-> applied.cost,
                    realized |-> applied.realized]
           row == NewRow("deal", None, lines, deal, 0)
<1>1. /\ TypeOK
      /\ quantity \in Positive /\ price \in Positive
      /\ c \in Currencies /\ position[c] \in Position
  BY NumbersAssumption DEF IInv, TypeOK, Foreign, Positive
<1>2. /\ applied.position \in Position
      /\ applied.cost \in Int
      /\ applied.realized \in Int
  BY <1>1, ApplyInventoryType
<1>3. /\ PostVoucher(row)
      /\ position' = [position EXCEPT ![c] = applied.position]
      /\ active' = active
  BY DEF PostDeal
<1>4. Leg(delivery, counterparty) \in Parties /\ Leg(settle, counterparty) \in Parties
  BY DEF Leg
<1>5. quantity * price \in Int /\ quantity \in Int
  BY <1>1 DEF Positive
<1>6. lines \in Seq(Line) /\ Len(lines) <= MaxLines
  <2> HIDE DEF IInv
  <2> QED
    BY <1>1, <1>4, <1>5, DealLinesType
<1>7. deal \in Deal
  <2> HIDE DEF applied
  <2> QED
    BY <1>1, <1>2 DEF Deal, Positive
<1> HIDE DEF lines, deal, applied
<1>8. /\ row \in Row /\ row.status = "final" /\ row.number = sequence + 1
      /\ row.lines = lines /\ row.reverses = 0
  <2>1. /\ "deal" \in VoucherKinds
        /\ None \in (Parties \X Currencies) \cup {None}
        /\ deal \in Deal \cup {None}
        /\ 0 \in Nat
    BY <1>7 DEF VoucherKinds
  <2> QED
    BY <1>1, <1>6, <2>1 DEF NewRow, Row, TypeOK
<1>9. position' \in [Foreign -> Position]
  BY <1>2, <1>3 DEF IInv, TypeOK
<1>10. active' \subseteq Parties
  BY <1>1, <1>3 DEF TypeOK
<1>11. row.deal = deal
  BY DEF NewRow
<1>12. /\ deal.currency = c /\ deal.cost = applied.cost /\ deal.realized = applied.realized
       /\ ApplyInventory(deal.side, position[c], deal.quantity, deal.price) = applied
  BY DEF deal, applied
<1> HIDE DEF row
<1>13. Posts(row)
  BY <1>3, <1>6, <1>8, <1>9, <1>10 DEF Posts
<1> QED
  BY <1>3, <1>7, <1>11, <1>12, <1>13, Zenon DEF PostsDeal

LEMMA PostMovePosts ==
  ASSUME IInv, NEW kind \in VoucherKinds,
         NEW key \in (Parties \X Currencies) \cup {None},
         NEW to \in Parties, NEW from \in Parties, NEW c \in Currencies, NEW amount \in Int,
         PostMove(kind, key, to, from, c, amount)
  PROVE  \E row : PostsOther(row)
<1> DEFINE lines == MoveLines(to, from, c, amount)
           row == NewRow(kind, key, lines, None, 0)
<1>1. TypeOK /\ PostVoucher(row) /\ position' = position /\ active' = active
  BY DEF IInv, PostMove
<1>2. lines \in Seq(Line) /\ Len(lines) <= MaxLines
  BY MoveLinesType
<1> HIDE DEF lines
<1>3. /\ row \in Row /\ row.status = "final" /\ row.number = sequence + 1
      /\ row.lines = lines /\ row.reverses = 0
  BY <1>1, <1>2 DEF NewRow, Row, TypeOK
<1>4. position' \in [Foreign -> Position] /\ active' \subseteq Parties
  BY <1>1 DEF TypeOK
<1>5. row.deal = None
  BY DEF NewRow
<1> HIDE DEF row
<1> QED
  BY <1>1, <1>2, <1>3, <1>4, <1>5 DEF Posts, PostsOther

LEMMA PostBetweenPosts ==
  ASSUME IInv, NEW p \in Parties, NEW q \in Parties, NEW c \in Currencies,
         NEW amount \in Amounts, PostBetween(p, q, c, amount)
  PROVE  \E row : PostsOther(row)
<1>1. amount \in Int /\ None \in (Parties \X Currencies) \cup {None}
  BY NumbersAssumption
<1>2. \E kind \in VoucherKinds, to, from \in Parties : PostMove(kind, None, to, from, c, amount)
  BY DEF PostBetween, PostCashMovement, PostTransfer, PostPartyTransfer,
         PostExpense, PostIncome, VoucherKinds
<1> QED
  BY <1>1, <1>2, PostMovePosts

LEMMA PostOpeningPosts ==
  ASSUME IInv, NEW p \in Parties, NEW c \in Currencies,
         NEW amount \in OpeningAmounts, PostOpening(p, c, amount)
  PROVE  \E row : PostsOther(row)
<1>1. amount \in Int /\ Equity \in Parties /\ "opening" \in VoucherKinds
  BY NumbersAssumption, SystemParties DEF VoucherKinds
<1>2. \E key \in (Parties \X Currencies) \cup {None} :
        PostMove("opening", key, p, Equity, c, amount)
  BY DEF PostOpening, EnterOpeningBalance, ImportOpeningBalance, PostOpeningBalance
<1> QED
  BY <1>1, <1>2, PostMovePosts

LEMMA ToggleActiveKeepsIInv ==
  ASSUME IInv, NEW p \in Parties, ToggleActive(p)
  PROVE  IInv'
<1>1. /\ UNCHANGED <<voucher, nextId, sequence, position, audit>>
      /\ active' \subseteq Parties
  BY DEF IInv, TypeOK, ToggleActive
<1>2. TypeOK'
  BY <1>1 DEF IInv, TypeOK, Rows
<1>3. NumbersUnique' /\ KeysUnique'
  BY <1>1 DEF IInv, NumbersUnique, KeysUnique, Rows
<1>4. VoidIffReversed'
  BY <1>1 DEF IInv, VoidIffReversed, HasReversal, Cancels, Rows
<1> QED
  BY <1>2, <1>3, <1>4 DEF IInv

LEMMA DeleteVoucherKeepsIInv ==
  ASSUME IInv, NEW id \in Rows, DeleteVoucher(id)
  PROVE  IInv'
<1>1. /\ Rows' = Rows \ {id}
      /\ \A i \in Rows' : voucher'[i] = voucher[i]
      /\ nextId' = nextId /\ sequence' = sequence /\ active' = active
      /\ position' = PositionWithout(voucher[id])
      /\ audit' = Append(audit, Log("delete", voucher[id].number))
      /\ ~HasReversal(id) /\ voucher[id].reverses = 0
      /\ voucher' = [i \in Rows \ {id} |-> voucher[i]]
  BY DEF DeleteVoucher, Rows
<1>2. TypeOK'
  <2>1. position' \in [Foreign -> Position]
    BY <1>1, PositionWithoutType DEF IInv
  <2>2. audit' \in Seq(AuditRow)
    <3>1. audit \in Seq(AuditRow) /\ voucher[id].number \in Nat
      BY DEF IInv, TypeOK, Row
    <3> QED
      BY <1>1, <3>1, LogType
  <2>3. voucher' \in [Rows' -> Row]
    BY <1>1 DEF IInv, TypeOK
  <2> QED
    BY <1>1, <2>1, <2>2, <2>3 DEF IInv, TypeOK
<1>3. NumbersUnique' /\ KeysUnique'
  BY <1>1 DEF IInv, NumbersUnique, KeysUnique
<1>4. VoidIffReversed'
  <2>1. /\ \A i \in Rows : voucher[i].status = "void" <=> HasReversal(i)
        /\ \A r \in Rows : voucher[r].reverses # 0 => Cancels(r, voucher[r].reverses)
        /\ \A r, s \in Rows :
             voucher[r].reverses # 0 /\ voucher[r].reverses = voucher[s].reverses => r = s
    BY DEF IInv, VoidIffReversed
  <2>2. \A i \in Rows' : i # 0
    BY <1>1 DEF IInv, TypeOK
  <2>3. \A i \in Rows' : HasReversal(i)' <=> HasReversal(i)
    BY <1>1, <2>2 DEF HasReversal
  <2>4. \A r \in Rows' : voucher'[r].reverses # 0 => Cancels(r, voucher[r].reverses)'
    <3> SUFFICES ASSUME NEW r \in Rows', voucher'[r].reverses # 0
                 PROVE  Cancels(r, voucher[r].reverses)'
      OBVIOUS
    <3>1. r \in Rows /\ voucher'[r] = voucher[r]
      BY <1>1
    <3>2. Cancels(r, voucher[r].reverses)
      BY <2>1, <3>1
    <3>3. voucher[r].reverses \in Rows'
      BY <1>1, <3>1, <3>2 DEF Cancels, HasReversal
    <3> QED
      BY <1>1, <3>1, <3>2, <3>3 DEF Cancels
  <2>5. \A i \in Rows' : voucher'[i].status = "void" <=> HasReversal(i)'
    BY <1>1, <2>1, <2>3
  <2> QED
    BY <1>1, <2>1, <2>4, <2>5 DEF VoidIffReversed
<1> QED
  BY <1>2, <1>3, <1>4 DEF IInv

LEMMA DataResetKeepsIInv ==
  ASSUME IInv, DataReset
  PROVE  IInv'
<1>1. /\ Rows' = {} /\ active' = active /\ nextId' = nextId
      /\ audit' = Append(audit, Log("reset", 0))
      /\ voucher' = [i \in {} |-> None] /\ sequence' = 0
      /\ position' = [c \in Foreign |-> EmptyPosition]
  BY DEF DataReset, Rows
<1>2. audit' \in Seq(AuditRow)
  BY <1>1, LogType DEF IInv, TypeOK
<1>3. position' \in [Foreign -> Position]
  BY <1>1 DEF EmptyPosition, Position
<1>4. TypeOK'
  BY <1>1, <1>2, <1>3 DEF IInv, TypeOK
<1> QED
  BY <1>1, <1>4 DEF IInv, NumbersUnique, VoidIffReversed, KeysUnique

LEMMA InitIInv == Init => IInv
<1> SUFFICES ASSUME Init PROVE IInv
  OBVIOUS
<1>1. Rows = {} /\ audit \in Seq(AuditRow) /\ position \in [Foreign -> Position]
  BY DEF Init, Rows, EmptyPosition, Position
<1>2. TypeOK
  BY <1>1 DEF Init, TypeOK
<1> QED
  BY <1>1, <1>2 DEF IInv, NumbersUnique, VoidIffReversed, KeysUnique

\* What a void does to the tables: the reversal added, the original marked.
LEMMA VoidVoucherEffect ==
  ASSUME IInv, NEW id \in Rows, VoidVoucher(id)
  PROVE  /\ voucher[id].status = "final" /\ ~HasReversal(id)
         /\ Rows' = Rows \cup {nextId}
         /\ nextId \notin Rows
         /\ Rows' \subseteq 1..nextId
         /\ voucher' \in [Rows' -> Row]
         /\ \A i \in Rows' : Len(voucher'[i].lines) <= MaxLines
         /\ voucher'[id].status = "void"
         /\ \A i \in Rows : i # id => voucher'[i] = voucher[i]
         /\ \A i \in Rows : /\ i # nextId
                            /\ voucher'[i].number = voucher[i].number
                            /\ voucher'[i].key = voucher[i].key
                            /\ voucher'[i].kind = voucher[i].kind
                            /\ voucher'[i].reverses = voucher[i].reverses
                            /\ voucher'[i].lines = voucher[i].lines
                            /\ voucher'[i].deal = voucher[i].deal
         /\ voucher'[nextId].status = "final"
         /\ voucher'[nextId].number = sequence + 1
         /\ voucher'[nextId].kind = "adjust"
         /\ voucher'[nextId].key = None
         /\ voucher'[nextId].deal = None
         /\ voucher'[nextId].lines = Negated(voucher[id].lines)
         /\ voucher'[nextId].reverses = id
         /\ nextId' = nextId + 1
         /\ sequence' = sequence + 1
<1> DEFINE original == voucher[id]
           reversal == NewRow("adjust", None, Negated(original.lines), None, id)
           marked == [voucher EXCEPT ![id].status = "void"]
<1>1. /\ original.status = "final" /\ ~HasReversal(id)
      /\ position' = PositionWithout(original)
      /\ voucher' = Stored(marked, nextId, reversal)
      /\ nextId' = nextId + 1 /\ sequence' = sequence + 1 /\ active' = active
      /\ audit' = audit \o <<Log("post", nextId), Log("void", id)>>
  BY DEF VoidVoucher
<1>2. /\ TypeOK /\ voucher \in [Rows -> Row] /\ original \in Row
      /\ Rows \subseteq 1..(nextId - 1) /\ nextId \in Nat \ {0} /\ sequence \in Nat
      /\ original.lines \in Seq(Line) /\ Len(original.lines) <= MaxLines
      /\ id \in Nat \ {0}
  BY DEF IInv, TypeOK, Row
<1>3. /\ marked \in [Rows -> Row]
      /\ \A i \in Rows : i # id => marked[i] = voucher[i]
      /\ marked[id] = [original EXCEPT !.status = "void"]
  BY <1>2 DEF Row
<1>4. /\ marked[id].status = "void"
      /\ \A i \in Rows : /\ marked[i].number = voucher[i].number
                         /\ marked[i].kind = voucher[i].kind
                         /\ marked[i].key = voucher[i].key
                         /\ marked[i].reverses = voucher[i].reverses
                         /\ marked[i].lines = voucher[i].lines
                         /\ marked[i].deal = voucher[i].deal
  BY <1>2, <1>3 DEF Row
<1>5. /\ reversal \in Row /\ reversal.status = "final" /\ reversal.number = sequence + 1
      /\ reversal.kind = "adjust" /\ reversal.key = None /\ reversal.deal = None
      /\ reversal.lines = Negated(original.lines) /\ reversal.reverses = id
      /\ Len(reversal.lines) <= MaxLines
  <2>1. Negated(original.lines) \in Seq(Line) /\ Len(Negated(original.lines)) <= MaxLines
    BY <1>2, NegatedType DEF MaxLines
  <2> HIDE DEF original
  <2> QED
    BY <1>2, <2>1 DEF NewRow, Row, VoucherKinds
<1> HIDE DEF marked, reversal
<1>6. /\ Rows' = Rows \cup {nextId}
      /\ nextId \notin Rows
      /\ voucher'[nextId] = reversal
      /\ \A i \in Rows : voucher'[i] = marked[i] /\ i # nextId
      /\ Rows' \subseteq 1..nextId
      /\ voucher' \in [Rows' -> Row]
      /\ \A i \in Rows' : Len(voucher'[i].lines) <= MaxLines
  <2>1. \A i \in Rows : Len(marked[i].lines) <= MaxLines
    BY <1>4 DEF IInv, TypeOK
  <2> DEFINE g == Stored(marked, nextId, reversal)
  <2>2. /\ DOMAIN g = Rows \cup {nextId}
        /\ nextId \notin Rows
        /\ g[nextId] = reversal
        /\ \A i \in Rows : g[i] = marked[i] /\ i # nextId
        /\ DOMAIN g \subseteq 1..nextId
        /\ g \in [DOMAIN g -> Row]
        /\ \A i \in DOMAIN g : Len(g[i].lines) <= MaxLines
    BY ONLY <1>2, <1>3, <1>5, <2>1, StoredType
  <2> HIDE DEF g
  <2>3. voucher' = g
    BY <1>1 DEF g
  <2> QED
    BY <2>2, <2>3 DEF Rows
<1>7. /\ voucher'[id].status = "void"
      /\ \A i \in Rows : i # id => voucher'[i] = voucher[i]
  BY <1>3, <1>4, <1>6
<1>8. \A i \in Rows : /\ i # nextId
                     /\ voucher'[i].number = voucher[i].number
                     /\ voucher'[i].key = voucher[i].key
                     /\ voucher'[i].kind = voucher[i].kind
                     /\ voucher'[i].reverses = voucher[i].reverses
                     /\ voucher'[i].lines = voucher[i].lines
                     /\ voucher'[i].deal = voucher[i].deal
  BY ONLY <1>4, <1>6
<1> QED
  BY <1>1, <1>5, <1>6, <1>7, <1>8, Zenon

\* Voiding keeps the invariant: both halves of the pair appear in one step.
LEMMA VoidVoucherKeepsIInv ==
  ASSUME IInv, NEW id \in Rows, VoidVoucher(id)
  PROVE  IInv'
<1>1. /\ sequence' = sequence + 1 /\ nextId' = nextId + 1
      /\ Rows' = Rows \cup {nextId} /\ nextId \notin Rows
      /\ Rows' \subseteq 1..nextId
      /\ voucher' \in [Rows' -> Row]
      /\ \A i \in Rows' : Len(voucher'[i].lines) <= MaxLines
  BY VoidVoucherEffect
<1>2. /\ TypeOK /\ sequence \in Nat /\ nextId \in Nat \ {0} /\ id \in Nat \ {0}
      /\ Rows \subseteq 1..(nextId - 1)
  BY DEF IInv, TypeOK
<1>3. /\ voucher'[nextId].number = sequence + 1
      /\ voucher'[nextId].kind = "adjust" /\ voucher'[nextId].key = None
      /\ voucher'[nextId].deal = None /\ voucher'[nextId].reverses = id
      /\ voucher'[nextId].lines = Negated(voucher[id].lines)
  BY VoidVoucherEffect
<1>4. \A i \in Rows : /\ voucher'[i].number = voucher[i].number
                     /\ voucher'[i].key = voucher[i].key
                     /\ voucher'[i].kind = voucher[i].kind
                     /\ voucher'[i].reverses = voucher[i].reverses
                     /\ voucher'[i].lines = voucher[i].lines
                     /\ voucher'[i].deal = voucher[i].deal
  BY VoidVoucherEffect
<1>5. /\ ~HasReversal(id) /\ voucher'[id].status = "void"
      /\ voucher'[nextId].status = "final"
      /\ \A i \in Rows : i # id => voucher'[i].status = voucher[i].status
  BY VoidVoucherEffect
<1>6. TypeOK'
  <2>1. /\ audit' = audit \o <<Log("post", nextId), Log("void", id)>>
        /\ position' = PositionWithout(voucher[id]) /\ active' = active
    BY DEF VoidVoucher
  <2>2. audit' \in Seq(AuditRow)
    <3>1. Log("post", nextId) \in AuditRow /\ Log("void", id) \in AuditRow
      BY <1>2, LogType
    <3>2. audit \in Seq(AuditRow)
      BY DEF IInv, TypeOK
    <3> QED
      BY <3>1, <3>2, <2>1
  <2>3. position' \in [Foreign -> Position]
    BY <1>2, <2>1, PositionWithoutType
  <2>4. nextId' \in Nat \ {0} /\ sequence' \in Nat /\ nextId' - 1 = nextId
    BY <1>1, <1>2
  <2> QED
    BY <1>1, <2>1, <2>2, <2>3, <2>4 DEF IInv, TypeOK
<1>7. NumbersUnique'
  <2>1. /\ \A i \in Rows : voucher[i].number \in 1..sequence
        /\ \A i, j \in Rows : voucher[j].number = voucher[i].number => i = j
    BY DEF IInv, NumbersUnique
  <2>2. \A i \in Rows : /\ voucher'[i].number \in 1..sequence
                        /\ voucher'[i].number # sequence + 1
    BY <1>2, <1>4, <2>1
  <2>3. \A i \in Rows' : voucher'[i].number \in 1..sequence'
    BY <1>1, <1>2, <1>3, <2>2
  <2>4. \A i, j \in Rows' : voucher'[j].number = voucher'[i].number => i = j
    BY <1>1, <1>3, <1>4, <2>1, <2>2
  <2> QED
    BY <2>3, <2>4 DEF NumbersUnique
<1>8. KeysUnique'
  BY <1>1, <1>3, <1>4 DEF IInv, KeysUnique
<1>9. VoidIffReversed'
  <2>1. /\ \A i \in Rows : voucher[i].status = "void" <=> HasReversal(i)
        /\ \A r \in Rows : voucher[r].reverses # 0 => Cancels(r, voucher[r].reverses)
        /\ \A r, s \in Rows :
             voucher[r].reverses # 0 /\ voucher[r].reverses = voucher[s].reverses => r = s
    BY DEF IInv, VoidIffReversed
  <2>2. \A r \in Rows : voucher[r].reverses # nextId
    BY <1>1, <1>2, <2>1 DEF Cancels
  <2>3. \A i \in Rows' : HasReversal(i)' <=> i = id \/ \E r \in Rows : voucher[r].reverses = i
    BY <1>1, <1>3, <1>4 DEF HasReversal
  <2>4. \A i \in Rows' : voucher'[i].status = "void" <=> HasReversal(i)'
    BY <1>1, <1>5, <2>1, <2>2, <2>3 DEF HasReversal
  <2>5. \A r \in Rows' : voucher'[r].reverses # 0 => Cancels(r, voucher[r].reverses)'
    <3> SUFFICES ASSUME NEW r \in Rows', voucher'[r].reverses # 0
                 PROVE  Cancels(r, voucher[r].reverses)'
      OBVIOUS
    <3>1. CASE r = nextId
      <4>1. voucher[id].number \in 1..sequence
        BY DEF IInv, NumbersUnique
      <4>2. voucher'[r].number > voucher'[id].number
        BY <1>2, <1>3, <1>4, <3>1, <4>1
      <4> QED
        BY <1>1, <1>3, <1>4, <3>1, <4>2 DEF Cancels
    <3>2. CASE r # nextId
      <4>1. r \in Rows /\ Cancels(r, voucher[r].reverses)
        BY <1>1, <1>4, <2>1, <3>2
      <4>2. voucher[r].reverses \in Rows
        BY <4>1 DEF Cancels
      <4> QED
        BY <1>1, <1>4, <4>1, <4>2 DEF Cancels
    <3> QED
      BY <3>1, <3>2
  <2>6. \A r, s \in Rows' :
          voucher'[r].reverses # 0 /\ voucher'[r].reverses = voucher'[s].reverses => r = s
    BY <1>1, <1>3, <1>4, <1>5, <2>1 DEF HasReversal
  <2> QED
    BY <2>4, <2>5, <2>6 DEF VoidIffReversed
<1> QED
  BY <1>6, <1>7, <1>8, <1>9 DEF IInv

-----------------------------------------------------------------------------
(* The theorems *)

LEMMA NextKeepsIInv == IInv /\ [Next]_vars => IInv'
<1> SUFFICES ASSUME IInv, [Next]_vars PROVE IInv'
  OBVIOUS
<1>1. CASE PostSomeDeal
  BY <1>1, PostDealPosts, PostKeepsIInv
     DEF PostSomeDeal, Customers, HouseAccounts, PostsDeal
<1>2. CASE \E p, q \in Parties, c \in Currencies, a \in Amounts : PostBetween(p, q, c, a)
  BY <1>2, PostBetweenPosts, PostKeepsIInv DEF PostsOther
<1>3. CASE \E p \in Parties, c \in Currencies, a \in OpeningAmounts : PostOpening(p, c, a)
  BY <1>3, PostOpeningPosts, PostKeepsIInv DEF PostsOther
<1>4. CASE \E id \in Rows : VoidVoucher(id)
  BY <1>4, VoidVoucherKeepsIInv
<1>5. CASE \E id \in Rows : DeleteVoucher(id)
  BY <1>5, DeleteVoucherKeepsIInv
<1>6. CASE DataReset
  BY <1>6, DataResetKeepsIInv
<1>7. CASE \E p \in Parties : ToggleActive(p)
  BY <1>7, ToggleActiveKeepsIInv
<1>8. CASE UNCHANGED vars
  BY <1>8 DEF vars, IInv, TypeOK, NumbersUnique, VoidIffReversed, KeysUnique,
              HasReversal, Cancels, Rows
<1> QED
  BY <1>1, <1>2, <1>3, <1>4, <1>5, <1>6, <1>7, <1>8 DEF Next

THEOREM Invariance == Spec => []IInv
<1>1. IInv /\ [Next]_vars => IInv'
  BY NextKeepsIInv
<1> QED
  BY InitIInv, <1>1, PTL DEF Spec

\* Rows, positions and the audit trail keep their types, and every row has a
\* primary key below the next one.
THEOREM TypeCorrect == Spec => []TypeOK
<1>1. IInv => TypeOK
  BY DEF IInv
<1> QED
  BY Invariance, <1>1, PTL

\* No two documents share a number, whatever was voided, deleted or reset.
THEOREM NumbersAreUnique == Spec => []NumbersUnique
<1>1. IInv => NumbersUnique
  BY DEF IInv
<1> QED
  BY Invariance, <1>1, PTL

\* Void documents and reversals come in pairs that stay whole.
THEOREM VoidsArePaired == Spec => []VoidIffReversed
<1>1. IInv => VoidIffReversed
  BY DEF IInv
<1> QED
  BY Invariance, <1>1, PTL

\* A repeated import posts nothing twice.
THEOREM KeysAreUnique == Spec => []KeysUnique
<1>1. IInv => KeysUnique
  BY DEF IInv
<1> QED
  BY Invariance, <1>1, PTL

-----------------------------------------------------------------------------
(* What the lines of documents add up to *)

\* The trial balance at the head of post_voucher refuses no document of the
\* operations themselves: what they write sums to zero in every currency, for a
\* deal whoever pays or delivers, and for a reversal if its original did.
THEOREM OperationsBalance ==
  /\ \A side \in Sides, c \in Foreign, p, q \in Parties, a, t \in Int :
       Balanced(DealLines(side, c, p, q, a, t))
  /\ \A to, from \in Parties, c \in Currencies, a \in Int :
       Balanced(MoveLines(to, from, c, a))
  /\ \A lines \in Seq(Line) : Balanced(lines) => Balanced(Negated(lines))
<1>1. ASSUME NEW side \in Sides, NEW c \in Foreign, NEW p \in Parties, NEW q \in Parties,
             NEW a \in Int, NEW t \in Int
      PROVE  Balanced(DealLines(side, c, p, q, a, t))
  <2>1. c # Base
    BY DEF Foreign
  <2> QED
    BY <2>1 DEF DealLines, Balanced, CurrencyTotal, AmountAt, Entry, Sides
<1>2. ASSUME NEW to \in Parties, NEW from \in Parties, NEW c \in Currencies, NEW a \in Int
      PROVE  Balanced(MoveLines(to, from, c, a))
  BY DEF MoveLines, Balanced, CurrencyTotal, AmountAt, Entry
<1>3. ASSUME NEW lines \in Seq(Line), Balanced(lines)
      PROVE  Balanced(Negated(lines))
  <2> SUFFICES ASSUME NEW c \in Currencies
               PROVE  CurrencyTotal(Negated(lines), c) = 0
    BY DEF Balanced
  <2>1. \A i \in Nat : /\ AmountAt(lines, i, c) \in Int
                      /\ AmountAt(Negated(lines), i, c) = -AmountAt(lines, i, c)
    BY NegatedAmount
  <2>2. CurrencyTotal(lines, c) = 0
    BY <1>3 DEF Balanced
  <2>3. AmountAt(lines, 1, c) + AmountAt(lines, 2, c)
          + AmountAt(lines, 3, c) + AmountAt(lines, 4, c) = 0
    BY <2>2 DEF CurrencyTotal
  <2>4. CurrencyTotal(Negated(lines), c)
          = (-AmountAt(lines, 1, c)) + (-AmountAt(lines, 2, c))
              + (-AmountAt(lines, 3, c)) + (-AmountAt(lines, 4, c))
    BY <2>1 DEF CurrencyTotal
  <2>5. \A i \in 1..4 : AmountAt(lines, i, c) \in Int
    BY <2>1
  <2> QED
    BY ONLY <2>3, <2>4, <2>5
<1> QED
  BY <1>1, <1>2, <1>3

\* A voided document and its reversal cancel on every account and in every
\* currency, so the pair leaves every balance alone (balances.py:7-9).
ReversalNets ==
  \A r \in Rows, p \in Parties, c \in Currencies :
    voucher[r].reverses # 0 =>
      AccountTotal(voucher[r].lines, p, c)
        + AccountTotal(voucher[voucher[r].reverses].lines, p, c) = 0

\* The pair nets to zero in every reachable state.
THEOREM ReversalsNet == Spec => []ReversalNets
<1>1. IInv => ReversalNets
  <2> SUFFICES ASSUME IInv, NEW r \in Rows, NEW p \in Parties, NEW c \in Currencies,
                      voucher[r].reverses # 0
               PROVE  AccountTotal(voucher[r].lines, p, c)
                        + AccountTotal(voucher[voucher[r].reverses].lines, p, c) = 0
    BY DEF ReversalNets
  <2> DEFINE id == voucher[r].reverses
             lines == voucher[id].lines
  <2>1. id \in Rows /\ voucher[r].lines = Negated(lines)
    BY DEF IInv, VoidIffReversed, Cancels
  <2>2. lines \in Seq(Line)
    BY <2>1 DEF IInv, TypeOK, Row
  <2> HIDE DEF lines
  <2>3. \A i \in Nat : /\ AccountAmountAt(lines, i, p, c) \in Int
                      /\ AccountAmountAt(Negated(lines), i, p, c)
                           = -AccountAmountAt(lines, i, p, c)
    BY <2>2, NegatedAccountAmount
  <2> QED
    BY <2>1, <2>3 DEF AccountTotal, lines
<1> QED
  BY Invariance, <1>1, PTL

-----------------------------------------------------------------------------
(* Which document the register shows under a number, before and after a step *)

\* A document on file is shown by its own row, since numbers are unique.
LEMMA ShownByNumber ==
  ASSUME IInv, NEW id \in Rows, NEW n, voucher[id].number = n
  PROVE  DocumentNumbered(n) = Shown(voucher[id])
<1>1. (CHOOSE i \in Rows : voucher[i].number = n) = id
  BY DEF IInv, NumbersUnique
<1> QED
  BY <1>1 DEF DocumentNumbered

LEMMA ShownByNumberNext ==
  ASSUME IInv', NEW id \in Rows', NEW n, voucher'[id].number = n
  PROVE  DocumentNumbered(n)' = Shown(voucher[id])'
<1>1. (CHOOSE i \in Rows' : voucher'[i].number = n) = id
  BY DEF IInv, NumbersUnique
<1> QED
  BY <1>1 DEF DocumentNumbered

LEMMA GoneOtherwise ==
  ASSUME NEW n, \A id \in Rows : voucher[id].number # n
  PROVE  DocumentNumbered(n) = Gone
BY DEF DocumentNumbered

LEMMA GoneOtherwiseNext ==
  ASSUME NEW n, \A id \in Rows' : voucher'[id].number # n
  PROVE  DocumentNumbered(n)' = Gone
BY DEF DocumentNumbered

\* An old document is shown as before if its row was kept, and the number of the
\* row it reverses with it.
LEMMA ShownAsBefore ==
  ASSUME IInv, IInv', NEW id \in Rows, id \in Rows', NEW n, voucher[id].number = n,
         voucher'[id].number = voucher[id].number,
         voucher'[id].status = voucher[id].status,
         voucher'[id].reverses = voucher[id].reverses,
         voucher[id].reverses # 0 =>
           voucher'[voucher[id].reverses].number = voucher[voucher[id].reverses].number
  PROVE  DocumentNumbered(n)' = DocumentNumbered(n)
<1>1. DocumentNumbered(n) = Shown(voucher[id])
  BY ShownByNumber
<1>2. DocumentNumbered(n)' = Shown(voucher[id])'
  BY ShownByNumberNext
<1>3. Shown(voucher[id])' = Shown(voucher[id])
  BY DEF Shown
<1> QED
  BY <1>1, <1>2, <1>3

LEMMA RegisterFacts ==
  ASSUME IInv
  PROVE  /\ TypeOK /\ sequence \in Nat /\ nextId \notin Rows
         /\ \A i \in Rows : voucher[i].number \in 1..sequence
         /\ \A i, j \in Rows : voucher[j].number = voucher[i].number => i = j
         /\ \A r \in Rows : voucher[r].reverses # 0 => voucher[r].reverses \in Rows
         /\ \A i \in Rows : voucher[i].status \in {"final", "void"}
         /\ \A i \in Rows : voucher[i].status = "void" => HasReversal(i)
BY DEF IInv, TypeOK, NumbersUnique, VoidIffReversed, Cancels, Row

-----------------------------------------------------------------------------
(* One lemma per kind of step *)

\* Posting any document but a reversal issues the next number.
LEMMA PostIssues ==
  ASSUME IInv, IInv', NEW row, Posts(row)
  PROVE  Register!Issue
<1> USE DEF Posts
<1>1. /\ TypeOK /\ sequence \in Nat
      /\ \A i \in Rows : voucher[i].number \in 1..sequence
      /\ \A r \in Rows : voucher[r].reverses # 0 => voucher[r].reverses \in Rows
  BY RegisterFacts
<1>2. /\ Rows' = Rows \cup {nextId} /\ nextId \notin Rows
      /\ voucher'[nextId] = row
      /\ \A i \in Rows : voucher'[i] = voucher[i] /\ i # nextId
      /\ sequence' = sequence + 1
  BY <1>1, PostVoucherEffect
<1>3. \A n \in 1..sequence : DocumentNumbered(n)' = DocumentNumbered(n)
  <2> SUFFICES ASSUME NEW n \in 1..sequence
               PROVE  DocumentNumbered(n)' = DocumentNumbered(n)
    OBVIOUS
  <2>1. CASE \E id \in Rows : voucher[id].number = n
    <3> PICK id \in Rows : voucher[id].number = n
      BY <2>1
    <3> QED
      BY <1>1, <1>2, ShownAsBefore
  <2>2. CASE \A id \in Rows : voucher[id].number # n
    <3>1. \A id \in Rows' : voucher'[id].number # n
      BY <1>1, <1>2, <2>2
    <3> QED
      BY <2>2, <3>1, GoneOtherwise, GoneOtherwiseNext
  <2> QED
    BY <2>1, <2>2
<1>4. ASSUME NEW n, n = sequence + 1
      PROVE  DocumentNumbered(n)' = Register!Fresh(0)
  <2>1. voucher'[nextId].number = n /\ nextId \in Rows'
    BY <1>2, <1>4
  <2>2. PICK i \in Rows' : i = nextId
    BY <2>1
  <2>3. DocumentNumbered(n)' = Shown(voucher[i])'
    BY <2>1, <2>2, ShownByNumberNext
  <2> QED
    BY <1>2, <2>2, <2>3 DEF Shown, Register!Fresh
<1>5. Documents' = Append(Documents, Register!Fresh(0))
  <2>1. Documents' = [n \in 1..(sequence + 1) |-> DocumentNumbered(n)']
    BY <1>2 DEF Documents
  <2>2. /\ DOMAIN Documents' = 1..(sequence + 1)
        /\ Documents' = [n \in 1..(sequence + 1) |-> Documents'[n]]
        /\ \A n \in 1..(sequence + 1) : Documents'[n] = DocumentNumbered(n)'
    BY <2>1
  <2>3. /\ DOMAIN Documents = 1..sequence
        /\ Documents = [n \in 1..sequence |-> Documents[n]]
        /\ \A n \in 1..sequence : Documents'[n] = Documents[n]
    BY <1>1, <1>3, <2>2 DEF Documents
  <2>4. Documents'[sequence + 1] = Register!Fresh(0)
    BY <1>1, <1>4, <2>2
  <2> QED
    BY <1>1, <2>2, <2>3, <2>4, OneLonger
<1>6. /\ Len(Documents') = sequence + 1 /\ Len(Documents) = sequence
      /\ \A n \in 1..sequence : Documents'[n] = Documents[n]
      /\ Documents'[sequence + 1] = Register!Fresh(0)
  BY <1>1, <1>2, <1>3, <1>4 DEF Documents
<1> QED
  BY <1>1, <1>6 DEF Register!Issue

\* Voiding cancels the document of the original and issues the reversal's.
LEMMA VoidCancels ==
  ASSUME IInv, IInv', NEW id \in Rows, VoidVoucher(id), NEW m, m = voucher[id].number
  PROVE  m \in DOMAIN Documents /\ Register!Cancel(m)
<1>1. /\ TypeOK /\ sequence \in Nat
      /\ \A i \in Rows : voucher[i].number \in 1..sequence
      /\ \A i, j \in Rows : voucher[j].number = voucher[i].number => i = j
      /\ \A r \in Rows : voucher[r].reverses # 0 => voucher[r].reverses \in Rows
  BY RegisterFacts
<1>2. /\ voucher[id].status = "final"
      /\ Rows' = Rows \cup {nextId} /\ nextId \notin Rows
      /\ \A i \in Rows : i # id => voucher'[i] = voucher[i]
      /\ \A i \in Rows : /\ voucher'[i].number = voucher[i].number
                         /\ voucher'[i].reverses = voucher[i].reverses
      /\ voucher'[id].status = "void"
      /\ sequence' = sequence + 1
  BY VoidVoucherEffect
<1>3. /\ voucher'[nextId].status = "final"
      /\ voucher'[nextId].number = sequence + 1
      /\ voucher'[nextId].reverses = id
  BY VoidVoucherEffect
<1> DEFINE old == [Documents EXCEPT ![m].state = "cancelled"]
<1>4. m \in 1..sequence /\ DocumentNumbered(m) = Shown(voucher[id])
  BY <1>1, ShownByNumber
<1>5. Documents[m] = [state |-> "live", cancels |-> Shown(voucher[id]).cancels]
  BY <1>2, <1>4 DEF Documents, Shown
<1>6. DocumentNumbered(m)' = [state |-> "cancelled", cancels |-> Shown(voucher[id]).cancels]
  <2>1. DocumentNumbered(m)' = Shown(voucher[id])'
    <3>1. id \in Rows' /\ voucher'[id].number = m
      BY <1>2
    <3> QED
      BY <3>1, ShownByNumberNext
  <2>2. Shown(voucher[id])' = [state |-> "cancelled", cancels |-> Shown(voucher[id]).cancels]
    BY <1>1, <1>2 DEF Shown
  <2> QED
    BY <2>1, <2>2
<1>7. \A n \in 1..sequence : n # m => DocumentNumbered(n)' = DocumentNumbered(n)
  <2> SUFFICES ASSUME NEW n \in 1..sequence, n # m
               PROVE  DocumentNumbered(n)' = DocumentNumbered(n)
    OBVIOUS
  <2>1. CASE \E i \in Rows : voucher[i].number = n
    <3> PICK i \in Rows : voucher[i].number = n
      BY <2>1
    <3>1. i # id /\ i \in Rows'
      BY <1>2
    <3>2. voucher[i].reverses # 0 =>
            voucher'[voucher[i].reverses].number = voucher[voucher[i].reverses].number
      BY <1>1, <1>2
    <3> QED
      BY <1>2, <3>1, <3>2, ShownAsBefore
  <2>2. CASE \A i \in Rows : voucher[i].number # n
    <3>1. \A i \in Rows' : voucher'[i].number # n
      BY <1>1, <1>2, <1>3, <2>2
    <3> QED
      BY <2>2, <3>1, GoneOtherwise, GoneOtherwiseNext
  <2> QED
    BY <2>1, <2>2
<1>8. ASSUME NEW n, n = sequence + 1
      PROVE  DocumentNumbered(n)' = Register!Fresh(m)
  <2>1. PICK i \in Rows' : i = nextId
    BY <1>2
  <2>2. DocumentNumbered(n)' = Shown(voucher[i])'
    BY <1>3, <1>8, <2>1, ShownByNumberNext
  <2>3. voucher'[id].number = m /\ id # 0
    BY <1>1, <1>2 DEF TypeOK
  <2> QED
    BY <1>3, <2>1, <2>2, <2>3 DEF Shown, Register!Fresh
<1>9. Documents' = Append(old, Register!Fresh(m))
  <2>1. Documents' = [n \in 1..(sequence + 1) |-> DocumentNumbered(n)']
    BY <1>2 DEF Documents
  <2>2. /\ Documents' = [n \in 1..(sequence + 1) |-> Documents'[n]]
        /\ \A n \in 1..(sequence + 1) : Documents'[n] = DocumentNumbered(n)'
    BY <2>1
  <2>3. /\ Documents = [n \in 1..sequence |-> Documents[n]]
        /\ \A n \in 1..sequence : Documents[n] = DocumentNumbered(n)
    BY DEF Documents
  <2>4. /\ old = [n \in 1..sequence |-> old[n]]
        /\ old[m] = [state |-> "cancelled", cancels |-> Shown(voucher[id]).cancels]
        /\ \A n \in 1..sequence : n # m => old[n] = Documents[n]
    BY <1>4, <1>5, <2>3
  <2>5. \A n \in 1..sequence : Documents'[n] = old[n]
    BY <1>1, <1>4, <1>6, <1>7, <2>2, <2>3, <2>4
  <2>6. Documents'[sequence + 1] = Register!Fresh(m)
    BY <1>1, <1>8, <2>2
  <2> HIDE DEF old
  <2> QED
    BY <1>1, <2>2, <2>4, <2>5, <2>6, OneLonger
<1>10. m \in DOMAIN Documents
  BY <1>4 DEF Documents
<1>11. Documents[m].state = "live"
  BY <1>5
<1> HIDE DEF Documents
<1> QED
  BY <1>9, <1>10, <1>11 DEF Register!Cancel

\* Deleting removes a live document that cancels nothing.
LEMMA DeleteRemoves ==
  ASSUME IInv, IInv', NEW id \in Rows, DeleteVoucher(id), NEW m, m = voucher[id].number
  PROVE  m \in DOMAIN Documents /\ Register!Remove(m)
<1>1. /\ sequence \in Nat
      /\ \A i \in Rows : voucher[i].number \in 1..sequence
      /\ \A i, j \in Rows : voucher[j].number = voucher[i].number => i = j
      /\ \A r \in Rows : voucher[r].reverses # 0 => voucher[r].reverses \in Rows
      /\ voucher[id].status \in {"final", "void"}
      /\ voucher[id].status = "void" => HasReversal(id)
  BY RegisterFacts
<1>2. /\ ~HasReversal(id) /\ voucher[id].reverses = 0
      /\ Rows' = Rows \ {id}
      /\ \A i \in Rows' : voucher'[i] = voucher[i]
      /\ sequence' = sequence
  BY DEF DeleteVoucher, Rows
<1>3. m \in 1..sequence /\ Documents[m] = Register!Fresh(0)
  <2>1. m \in 1..sequence /\ DocumentNumbered(m) = Shown(voucher[id])
    BY <1>1, ShownByNumber
  <2> QED
    BY <1>1, <1>2, <2>1 DEF Documents, Shown, Register!Fresh
<1>4. DocumentNumbered(m)' = Gone
  <2>1. \A i \in Rows' : voucher'[i].number # m
    BY <1>1, <1>2
  <2> QED
    BY <2>1, GoneOtherwiseNext
<1>5. \A n \in 1..sequence : n # m => DocumentNumbered(n)' = DocumentNumbered(n)
  <2> SUFFICES ASSUME NEW n \in 1..sequence, n # m
               PROVE  DocumentNumbered(n)' = DocumentNumbered(n)
    OBVIOUS
  <2>1. CASE \E i \in Rows : voucher[i].number = n
    <3> PICK i \in Rows : voucher[i].number = n
      BY <2>1
    <3>1. i \in Rows'
      BY <1>2
    <3>2. voucher[i].reverses # 0 =>
            voucher'[voucher[i].reverses].number = voucher[voucher[i].reverses].number
      BY <1>1, <1>2 DEF HasReversal
    <3> QED
      BY <1>2, <3>1, <3>2, ShownAsBefore
  <2>2. CASE \A i \in Rows : voucher[i].number # n
    <3>1. \A i \in Rows' : voucher'[i].number # n
      BY <1>2, <2>2
    <3> QED
      BY <2>2, <3>1, GoneOtherwise, GoneOtherwiseNext
  <2> QED
    BY <2>1, <2>2
<1>6. Documents' = [Documents EXCEPT ![m].state = "removed"]
  <2>1. Documents' = [n \in 1..sequence |-> DocumentNumbered(n)']
    BY <1>2 DEF Documents
  <2>2. Gone = [Documents[m] EXCEPT !.state = "removed"]
    BY <1>3 DEF Gone, Register!Fresh
  <2>3. Documents = [n \in 1..sequence |-> DocumentNumbered(n)]
    BY DEF Documents
  <2> QED
    BY <1>3, <1>4, <1>5, <2>1, <2>2, <2>3
<1> QED
  BY <1>3, <1>6 DEF Register!Remove, Documents

LEMMA DataResetClears ==
  ASSUME IInv, IInv', DataReset
  PROVE  Register!Clear
<1>1. \A n \in DOMAIN Documents : Documents[n].state # "cancelled"
  <2> SUFFICES ASSUME NEW n \in 1..sequence
               PROVE  DocumentNumbered(n).state # "cancelled"
    BY DEF Documents
  <2>1. CASE \E id \in Rows : voucher[id].number = n
    <3> PICK id \in Rows : voucher[id].number = n
      BY <2>1
    <3>1. ~HasReversal(id)
      <4>1. id # 0
        BY DEF IInv, TypeOK
      <4> QED
        BY <4>1 DEF HasReversal, DataReset
    <3>2. voucher[id].status = "final"
      BY <3>1, RegisterFacts
    <3> QED
      BY <3>2, ShownByNumber DEF Shown
  <2>2. CASE \A id \in Rows : voucher[id].number # n
    BY <2>2, GoneOtherwise DEF Gone
  <2> QED
    BY <2>1, <2>2
<1>2. Documents' = << >>
  <2>1. sequence' = 0 /\ 1..0 = {}
    BY DEF DataReset
  <2>2. Documents' = [n \in {} |-> DocumentNumbered(n)']
    BY <2>1 DEF Documents
  <2> QED
    BY <2>2
<1> QED
  BY <1>1, <1>2 DEF Register!Clear

\* Steps that leave the Voucher table and the counter alone.
LEMMA NothingShown ==
  ASSUME UNCHANGED <<voucher, sequence>>
  PROVE  UNCHANGED Documents
BY DEF Documents, DocumentNumbered, Shown, Rows

LEMMA InitRegister == Init => Register!Init
<1> SUFFICES ASSUME Init PROVE Documents = << >>
  BY DEF Register!Init
<1>1. sequence = 0 /\ 1..0 = {}
  BY DEF Init
<1>2. Documents = [n \in {} |-> DocumentNumbered(n)]
  BY <1>1 DEF Documents
<1> QED
  BY <1>2

LEMMA StepRegister ==
  ASSUME IInv, IInv', [Next]_vars
  PROVE  [Register!Next]_Documents
<1>1. CASE PostSomeDeal
  BY <1>1, PostDealPosts, PostIssues
     DEF PostSomeDeal, Customers, HouseAccounts, PostsDeal, Register!Next
<1>2. CASE \E p, q \in Parties, c \in Currencies, a \in Amounts : PostBetween(p, q, c, a)
  BY <1>2, PostBetweenPosts, PostIssues DEF PostsOther, Register!Next
<1>3. CASE \E p \in Parties, c \in Currencies, a \in OpeningAmounts : PostOpening(p, c, a)
  BY <1>3, PostOpeningPosts, PostIssues DEF PostsOther, Register!Next
<1>4. CASE \E id \in Rows : VoidVoucher(id)
  BY <1>4, VoidCancels DEF Register!Next
<1>5. CASE \E id \in Rows : DeleteVoucher(id)
  BY <1>5, DeleteRemoves DEF Register!Next
<1>6. CASE DataReset
  BY <1>6, DataResetClears DEF Register!Next
<1>7. CASE \E p \in Parties : ToggleActive(p)
  BY <1>7, NothingShown DEF ToggleActive
<1>8. CASE UNCHANGED vars
  BY <1>8, NothingShown DEF vars
<1> QED
  BY <1>1, <1>2, <1>3, <1>4, <1>5, <1>6, <1>7, <1>8 DEF Next

\* The document engine implements the register of numbered documents.
THEOREM Refinement == Spec => LedgerImplementsRegister
<1>1. IInv /\ IInv' /\ [Next]_vars => [Register!Next]_Documents
  BY StepRegister
<1> QED
  BY Invariance, InitRegister, <1>1, PTL
     DEF Spec, LedgerImplementsRegister, Register!Spec

-----------------------------------------------------------------------------
(* Balances, stock and the audit trail *)

LEMMA RowsFinite ==
  ASSUME TypeOK
  PROVE  IsFiniteSet(Rows)
<1>1. nextId - 1 \in Int /\ Rows \subseteq 1..(nextId - 1)
  BY DEF TypeOK
<1>2. IsFiniteSet(1..(nextId - 1))
  BY <1>1, FS_Interval
<1> QED
  BY <1>1, <1>2, FS_Subset

LEMMA AccountTotalType ==
  ASSUME NEW lines \in Seq(Line), NEW p \in Parties, NEW c \in Currencies
  PROVE  /\ AccountTotal(lines, p, c) \in Int
         /\ AccountTotal(Negated(lines), p, c) = -AccountTotal(lines, p, c)
<1>1. \A i \in Nat : /\ AccountAmountAt(lines, i, p, c) \in Int
                     /\ AccountAmountAt(Negated(lines), i, p, c)
                          = -AccountAmountAt(lines, i, p, c)
  BY NegatedAccountAmount
<1> QED
  BY <1>1 DEF AccountTotal

-----------------------------------------------------------------------------
(* Which documents are in effect *)

\* E solves the recursion of InEffect on the documents of T.
Effective(E, T) ==
  \A id \in T : id \in E <=> \A r \in Rows : voucher[r].reverses = id => r \notin E

\* With the reversals of its documents.
Closed(T) == \A r \in Rows : voucher[r].reverses \in T => r \in T

\* The recursion has a solution, for a reversal has a higher number than what it
\* reverses: the document with the lowest number is decided last.
LEMMA EffectiveExists ==
  ASSUME IInv
  PROVE  \E E \in SUBSET Rows : Effective(E, Rows)
<1> DEFINE Good == {T \in SUBSET Rows : Closed(T) => \E E \in SUBSET T : Effective(E, T)}
           n == [id \in Rows |-> voucher[id].number]
<1>1. ASSUME NEW T \in SUBSET Rows, \A U \in SUBSET T : U # T => U \in Good
      PROVE  T \in Good
  <2> SUFFICES ASSUME Closed(T) PROVE \E E \in SUBSET T : Effective(E, T)
    OBVIOUS
  <2>1. CASE T = {}
    BY <2>1 DEF Effective
  <2>2. CASE T # {}
    <3>1. \A id \in Rows : n[id] \in Int
      BY DEF IInv, TypeOK, Row
    <3>2. IsFiniteSet(T)
      BY RowsFinite, FS_Subset DEF IInv
    <3>3. PICK m \in T : \A id \in T : n[m] <= n[id]
      <4> HIDE DEF n
      <4> QED
        BY <2>2, <3>1, <3>2, LeastExists
    <3>4. \A r \in Rows : voucher[r].reverses \in Rows => n[r] > n[voucher[r].reverses]
      <4>1. \A id \in Rows : id # 0
        BY DEF IInv, TypeOK
      <4> QED
        BY <4>1 DEF IInv, VoidIffReversed, Cancels
    <3>5. \A r \in Rows : voucher[r].reverses \in T => r \in T /\ r # m
      <4> SUFFICES ASSUME NEW r \in Rows, voucher[r].reverses \in T PROVE r \in T /\ r # m
        OBVIOUS
      <4>1. n[r] > n[voucher[r].reverses] /\ n[m] <= n[voucher[r].reverses]
        BY <3>3, <3>4
      <4>2. n[r] \in Int /\ n[m] \in Int /\ n[voucher[r].reverses] \in Int
        BY <3>1
      <4>3. r # m
        <5> HIDE DEF n
        <5> QED
          BY <4>1, <4>2
      <4> QED
        BY <4>3 DEF Closed
    <3> DEFINE U == T \ {m}
    <3>6. Closed(U)
      BY <3>5 DEF Closed
    <3>7. PICK D \in SUBSET U : Effective(D, U)
      BY <1>1, <3>3, <3>6
    <3> DEFINE E == IF \A r \in Rows : voucher[r].reverses = m => r \notin D
                    THEN D \cup {m} ELSE D
    <3>8. m \in E <=> \A r \in Rows : voucher[r].reverses = m => r \notin D
      BY <3>7
    <3>9. E \in SUBSET T /\ \A id \in U : id \in E <=> id \in D
      BY <3>3, <3>7
    <3> HIDE DEF E
    <3>10. Effective(E, T)
      BY <3>3, <3>5, <3>7, <3>8, <3>9 DEF Effective
    <3> QED
      BY <3>9, <3>10
  <2> QED
    BY <2>1, <2>2
<1>2. Rows \in Good
  <2>1. IsFiniteSet(Rows)
    BY RowsFinite DEF IInv
  <2> HIDE DEF Good
  <2> QED
    BY <1>1, <2>1, SubsetInduction
<1>3. Closed(Rows)
  BY DEF Closed
<1> QED
  BY <1>2, <1>3

\* InEffect satisfies its own definition.
LEMMA InEffectRule ==
  ASSUME IInv
  PROVE  InEffect = [id \in Rows |-> \A r \in Rows : voucher[r].reverses = id => ~InEffect[r]]
<1>1. PICK E \in SUBSET Rows : Effective(E, Rows)
  BY EffectiveExists
<1> DEFINE f == [id \in Rows |-> id \in E]
<1>2. \A id \in Rows : id \in E <=> \A r \in Rows : voucher[r].reverses = id => ~(r \in E)
  BY <1>1, Zenon DEF Effective
<1>3. f = [id \in Rows |-> \A r \in Rows : voucher[r].reverses = id => ~f[r]]
  <2>1. \A id \in Rows : (id \in E) = (\A r \in Rows : voucher[r].reverses = id => ~f[r])
    <3> TAKE id \in Rows
    <3> DEFINE x == id \in E
               y == \A r \in Rows : voucher[r].reverses = id => ~f[r]
    <3>1. x <=> y
      BY <1>2, Zenon
    <3>2. x \in BOOLEAN /\ y \in BOOLEAN
      OBVIOUS
    <3>3. x = y
      <4> HIDE DEF x, y
      <4> QED
        BY <3>1, <3>2
    <3> QED
      BY <3>3 DEF x, y
  <2> QED
    BY <2>1, Zenon
<1>4. \E g : g = [id \in Rows |-> \A r \in Rows : voucher[r].reverses = id => ~g[r]]
  BY <1>3, Zenon
<1> QED
  BY <1>4, Zenon DEF InEffect

LEMMA InEffectAt ==
  ASSUME IInv, NEW id \in Rows
  PROVE  InEffect[id] <=> \A r \in Rows : voucher[r].reverses = id => ~InEffect[r]
<1>1. InEffect[id] = \A r \in Rows : voucher[r].reverses = id => ~InEffect[r]
  BY InEffectRule, Zenon
<1> QED
  BY <1>1, Zenon

-----------------------------------------------------------------------------
(* Balances *)

\* A document with a reversal, and that reversal.
ReversedBy(id) == CHOOSE r \in Rows : voucher[r].reverses = id

LEMMA ReversedByOne ==
  ASSUME IInv, NEW id \in Rows, NEW r \in Rows, voucher[r].reverses = id
  PROVE  /\ ReversedBy(id) = r
         /\ voucher[r].lines = Negated(voucher[id].lines)
         /\ InEffect[id] <=> ~InEffect[r]
<1>1. id # 0
  BY DEF IInv, TypeOK
<1>2. \A s \in Rows : voucher[s].reverses = id => s = r
  BY <1>1 DEF IInv, VoidIffReversed
<1>3. ReversedBy(id) = r
  BY <1>2, Zenon DEF ReversedBy
<1>4. voucher[r].lines = Negated(voucher[id].lines)
  BY <1>1 DEF IInv, VoidIffReversed, Cancels
<1>5. InEffect[id] <=> ~InEffect[r]
  BY <1>2, InEffectAt, Zenon
<1> QED
  BY <1>3, <1>4, <1>5

\* S holds a reversal exactly when it holds what that reverses.
KeepsPairs(S) ==
  /\ S \subseteq Rows
  /\ \A r \in Rows \ Entered : r \in S <=> voucher[r].reverses \in S

\* What the documents of S make of an account follows from the void pairs alone: a
\* document counts as itself when it is in effect, and otherwise as minus its
\* reversal, so all that is left of the sum are the entered documents in effect.
LEMMA EffectMakesBalance ==
  ASSUME IInv, NEW S, KeepsPairs(S), NEW p \in Parties, NEW c \in Currencies
  PROVE  BalanceOf(S, p, c) = BalanceOf({id \in S \cap Entered : InEffect[id]}, p, c)
<1> DEFINE Sum(f, T) == SumFunctionOnSet(f, T)
           total == [id \in Rows |-> IF id \in S THEN AccountTotal(voucher[id].lines, p, c)
                                     ELSE 0]
           counted == [id \in Rows |-> IF InEffect[id] THEN total[id] ELSE 0]
           Reversed == {id \in Rows : HasReversal(id)}
           by == [id \in Rows |-> ReversedBy(id)]
           taken == [id \in Rows |-> IF id \in Reversed THEN counted[by[id]] ELSE 0]
           back == [id \in Rows |-> IF id \in Entered THEN 0 ELSE counted[id]]
           entered == [id \in Rows |-> IF id \in Entered THEN counted[id] ELSE 0]
           Effect == {id \in S \cap Entered : InEffect[id]}
<1>1. IsFiniteSet(Rows) /\ TypeOK
  BY RowsFinite DEF IInv
<1>2. \A id \in Rows : total[id] \in Int /\ counted[id] \in Int
  <2> SUFFICES ASSUME NEW id \in Rows PROVE AccountTotal(voucher[id].lines, p, c) \in Int
    OBVIOUS
  <2>1. voucher[id].lines \in Seq(Line)
    BY <1>1 DEF TypeOK, Row
  <2> QED
    BY <2>1, AccountTotalType
<1>3. \A id \in Rows : taken[id] \in Int /\ total[id] = counted[id] - taken[id]
  <2> TAKE id \in Rows
  <2>1. CASE id \in Reversed
    <3>1. PICK r \in Rows : voucher[r].reverses = id
      BY <2>1 DEF HasReversal
    <3>2. /\ by[id] = r
          /\ voucher[r].lines = Negated(voucher[id].lines)
          /\ InEffect[id] <=> ~InEffect[r]
      BY <3>1, ReversedByOne
    <3>3. voucher[id].lines \in Seq(Line)
      BY <1>1 DEF TypeOK, Row
    <3>4. total[r] = -total[id]
      <4>1. id # 0
        BY <1>1 DEF TypeOK
      <4>2. r \in S <=> id \in S
        BY <3>1, <4>1 DEF KeepsPairs, Entered
      <4>3. AccountTotal(voucher[r].lines, p, c) = -AccountTotal(voucher[id].lines, p, c)
        BY <3>2, <3>3, AccountTotalType
      <4>4. CASE id \in S
        BY <4>2, <4>3, <4>4
      <4>5. CASE id \notin S
        <5>1. total[r] = 0 /\ total[id] = 0
          BY <4>2, <4>5
        <5> HIDE DEF total
        <5>2. total[id] \in Int
          BY <5>1
        <5>3. -total[id] = 0 - total[id]
          BY ONLY <5>2
        <5> QED
          BY <5>1, <5>3
      <4> QED
        BY <4>4, <4>5
    <3>5. taken[id] = counted[r]
      BY <2>1, <3>2
    <3> HIDE DEF total, taken
    <3> QED
      BY <1>2, <3>2, <3>4, <3>5
  <2>2. CASE id \notin Reversed
    <3>1. InEffect[id]
      BY <2>2, InEffectAt DEF HasReversal
    <3>2. taken[id] = 0 /\ counted[id] = total[id]
      BY <2>2, <3>1
    <3> HIDE DEF total, taken, counted
    <3> QED
      BY <1>2, <3>2
  <2> QED
    BY <2>1, <2>2
<1>4. Sum(total, Rows) = Sum(counted, Rows) - Sum(taken, Rows)
  <2> HIDE DEF total, counted, taken
  <2> QED
    BY <1>1, <1>2, <1>3, SumDifference
<1>5. Sum(taken, Rows) = Sum(taken, Reversed)
  <2>1. \A id \in Rows \ Reversed : taken[id] = 0
    OBVIOUS
  <2>2. Reversed \subseteq Rows
    OBVIOUS
  <2> HIDE DEF taken, Reversed
  <2> QED
    BY <1>1, <1>3, <2>1, <2>2, SumIgnore
<1>6. {by[id] : id \in Reversed} = Rows \ Entered
  <2>1. \A id \in Reversed : by[id] \in Rows /\ voucher[by[id]].reverses = id
    BY ReversedByOne DEF HasReversal
  <2>2. \A id \in Reversed : id # 0
    BY <1>1 DEF TypeOK
  <2>3. \A r \in Rows \ Entered : voucher[r].reverses \in Rows
    BY DEF IInv, VoidIffReversed, Cancels, Entered
  <2>4. \A r \in Rows \ Entered : voucher[r].reverses \in Reversed /\ by[voucher[r].reverses] = r
    BY <2>3, ReversedByOne DEF HasReversal
  <2>5. \A id \in Reversed : by[id] \in Rows \ Entered
    BY <2>1, <2>2 DEF Entered
  <2> HIDE DEF by, Reversed
  <2> QED
    BY <2>4, <2>5
<1>7. Sum(taken, Reversed) = Sum(counted, {by[id] : id \in Reversed})
  <2>1. \A id \in Reversed : by[id] \in Rows /\ voucher[by[id]].reverses = id
    BY ReversedByOne DEF HasReversal
  <2>2. \A id \in Reversed : taken[id] = counted[by[id]]
    OBVIOUS
  <2>3. IsFiniteSet(Reversed)
    BY <1>1, FS_Subset
  <2>4. \A x, y \in Reversed : by[x] = by[y] => x = y
    <3> HIDE DEF by, Reversed
    <3> QED
      BY <2>1
  <2> HIDE DEF taken, counted, by, Reversed
  <2> QED
    BY <1>2, <2>1, <2>2, <2>3, <2>4, SumReindex
<1>8. Sum(counted, Rows \ Entered) = Sum(back, Rows \ Entered)
  <2>1. \A id \in Rows \ Entered : counted[id] = back[id]
    OBVIOUS
  <2>2. IsFiniteSet(Rows \ Entered)
    BY <1>1, FS_Subset
  <2> HIDE DEF counted, back
  <2> QED
    BY <2>1, <2>2, SumEqual
<1>9. \A id \in Rows : back[id] \in Int /\ entered[id] \in Int
                      /\ entered[id] = counted[id] - back[id]
  <2> HIDE DEF counted
  <2> QED
    BY <1>2
<1>10. Sum(back, Rows) = Sum(back, Rows \ Entered)
  <2>1. \A id \in Rows : id \notin Rows \ Entered => back[id] = 0
    OBVIOUS
  <2> HIDE DEF back
  <2> QED
    BY <1>1, <1>9, <2>1, SumIgnore
<1>11. Sum(entered, Rows) = Sum(counted, Rows) - Sum(back, Rows)
  <2> HIDE DEF counted, back, entered
  <2> QED
    BY <1>1, <1>2, <1>9, SumDifference
<1>12. Sum(entered, Rows) = Sum(entered, Effect)
  <2>1. \A id \in Rows \ Effect : entered[id] = 0
    <3> SUFFICES ASSUME NEW id \in Rows \ Effect, id \in Entered, InEffect[id]
                 PROVE  entered[id] = 0
      OBVIOUS
    <3>1. id \notin S
      OBVIOUS
    <3> QED
      BY <3>1
  <2>2. Effect \subseteq Rows
    BY DEF Entered
  <2> HIDE DEF entered, Effect
  <2> QED
    BY <1>1, <1>9, <2>1, <2>2, SumIgnore
<1>13. BalanceOf(Effect, p, c) = Sum(entered, Effect)
  <2> DEFINE left == [id \in Effect |-> AccountTotal(voucher[id].lines, p, c)]
  <2>1. \A id \in Effect : left[id] = entered[id]
    BY DEF Entered
  <2>2. IsFiniteSet(Effect)
    BY <1>1, FS_Subset DEF Entered
  <2>3. Sum(left, Effect) = Sum(entered, Effect)
    <3> HIDE DEF left, entered, Effect
    <3> QED
      BY <2>1, <2>2, SumEqual
  <2> QED
    BY <2>3, Zenon DEF BalanceOf
<1>14. BalanceOf(S, p, c) = Sum(total, Rows)
  <2> DEFINE own == [id \in S |-> AccountTotal(voucher[id].lines, p, c)]
  <2>1. S \subseteq Rows /\ IsFiniteSet(S)
    BY <1>1, FS_Subset DEF KeepsPairs
  <2>2. /\ \A id \in Rows \ S : total[id] = 0
        /\ \A id \in S : own[id] = total[id]
    BY <2>1
  <2>3. Sum(total, Rows) = Sum(total, S)
    <3> HIDE DEF total
    <3> QED
      BY <1>1, <1>2, <2>1, <2>2, SumIgnore
  <2>4. Sum(own, S) = Sum(total, S)
    <3> HIDE DEF total, own
    <3> QED
      BY <2>1, <2>2, SumEqual
  <2> QED
    BY <2>3, <2>4, Zenon DEF BalanceOf
<1>15. Sum(taken, Reversed) = Sum(back, Rows)
  <2> HIDE DEF Sum, counted, back, taken, by, Reversed
  <2> QED
    BY <1>6, <1>7, <1>8, <1>10
<1>16. Sum(total, Rows) = Sum(entered, Rows)
  <2> HIDE DEF Sum, total, counted, back, taken, entered, Reversed
  <2> QED
    BY <1>4, <1>5, <1>11, <1>15
<1> QED
  BY <1>12, <1>13, <1>14, <1>16, Zenon

LEMMA EffectMakesBalances ==
  ASSUME IInv
  PROVE  BalancesFollowEffect
<1>1. KeepsPairs(Rows)
  BY DEF KeepsPairs, IInv, VoidIffReversed, Cancels, Entered
<1>2. \A p \in Parties, c \in Currencies :
        BalanceOf(Rows, p, c) = BalanceOf({id \in Rows \cap Entered : InEffect[id]}, p, c)
  BY <1>1, EffectMakesBalance
<1>3. {id \in Rows \cap Entered : InEffect[id]} = {id \in Entered : InEffect[id]}
  BY DEF Entered
<1> QED
  BY <1>2, <1>3, Zenon DEF BalancesFollowEffect, Balance

\* Every balance is the sum of the entered documents in effect, in every
\* reachable state (balances.py:24-55 over what void_voucher leaves).
THEOREM BalancesFollow == Spec => []BalancesFollowEffect
BY Invariance, EffectMakesBalances, PTL

-----------------------------------------------------------------------------
(* Stock *)

\* _apply_inventory adds what the deal bought, or takes off what it sold;
\* _reverse_inventory does the opposite, whatever happened in between.
LEMMA QuantityMoves ==
  ASSUME NEW pos \in Position, NEW deal \in Deal
  PROVE  /\ SignedQuantity(deal) \in Int
         /\ pos.quantity \in Int
         /\ ApplyInventory(deal.side, pos, deal.quantity, deal.price).position.quantity
              = pos.quantity + SignedQuantity(deal)
         /\ ReverseInventory(pos, deal).quantity = pos.quantity - SignedQuantity(deal)
<1>1. deal.side \in {BUY, SELL} /\ BUY # SELL /\ deal.quantity \in Int /\ pos.quantity \in Int
  BY DEF Deal, Position, Sides, BUY, SELL
<1> QED
  BY <1>1 DEF ApplyInventory, ReverseInventory, SignedQuantity

\* What the deals in c that stand bought less what they sold.
Stock(c) ==
  SumFunctionOnSet([id \in StandingDeals(c) |-> SignedQuantity(voucher[id].deal)],
                   StandingDeals(c))

LEMMA StandingType ==
  ASSUME TypeOK, NEW c
  PROVE  /\ IsFiniteSet(StandingDeals(c))
         /\ \A id \in StandingDeals(c) : SignedQuantity(voucher[id].deal) \in Int
<1>1. IsFiniteSet(StandingDeals(c))
  BY RowsFinite, FS_Subset DEF StandingDeals
<1>2. \A id \in StandingDeals(c) : voucher[id].deal \in Deal
  BY DEF StandingDeals, TypeOK, Row
<1>3. \A deal \in Deal : SignedQuantity(deal) \in Int
  BY DEF SignedQuantity, Deal
<1> QED
  BY <1>1, <1>2, <1>3

\* The deals that stand are the same ones.
LEMMA StockKept ==
  ASSUME TypeOK, NEW c, StandingDeals(c)' = StandingDeals(c),
         \A id \in StandingDeals(c) : voucher'[id].deal = voucher[id].deal
  PROVE  Stock(c)' = Stock(c)
<1> DEFINE S == StandingDeals(c)
           f == [id \in S |-> SignedQuantity(voucher[id].deal)]
           g == [id \in S |-> SignedQuantity(voucher'[id].deal)]
<1>1. \A id \in S : f[id] = g[id]
  OBVIOUS
<1>2. IsFiniteSet(S)
  BY StandingType
<1>3. SumFunctionOnSet(f, S) = SumFunctionOnSet(g, S)
  <2> HIDE DEF f, g, S
  <2> QED
    BY <1>1, <1>2, SumEqual
<1>4. Stock(c)' = SumFunctionOnSet(g, S)
  BY Zenon DEF Stock
<1> QED
  BY <1>3, <1>4, Zenon DEF Stock

\* One more deal stands.
LEMMA StockGrows ==
  ASSUME TypeOK, NEW c, NEW d, d \notin StandingDeals(c),
         StandingDeals(c)' = StandingDeals(c) \cup {d}, voucher'[d].deal \in Deal,
         \A id \in StandingDeals(c) : voucher'[id].deal = voucher[id].deal
  PROVE  Stock(c)' = Stock(c) + SignedQuantity(voucher'[d].deal)
<1> DEFINE S == StandingDeals(c)
           T == S \cup {d}
           f == [id \in S |-> SignedQuantity(voucher[id].deal)]
           g == [id \in T |-> SignedQuantity(voucher'[id].deal)]
<1>1. \A id \in S : f[id] = g[id]
  OBVIOUS
<1>2. IsFiniteSet(S) /\ \A id \in S : f[id] \in Int
  BY StandingType
<1>3. SumFunctionOnSet(f, S) = SumFunctionOnSet(g, S)
  <2> HIDE DEF f, g, S
  <2> QED
    BY <1>1, <1>2, SumEqual
<1>4. g[d] = SignedQuantity(voucher'[d].deal) /\ g[d] \in Int
  BY DEF SignedQuantity, Deal
<1>5. \A id \in S \cup {d} : g[id] \in Int
  <2> HIDE DEF f, g
  <2> QED
    BY <1>1, <1>2, <1>4
<1>6. SumFunctionOnSet(g, S \cup {d}) = SumFunctionOnSet(g, S) + g[d]
  <2> HIDE DEF g, S
  <2> QED
    BY <1>2, <1>5, SumAdd DEF S
<1>7. Stock(c)' = SumFunctionOnSet(g, S \cup {d})
  BY Zenon DEF Stock
<1>8. Stock(c) = SumFunctionOnSet(f, S)
  BY Zenon DEF Stock
<1> QED
  <2> HIDE DEF f, g, S
  <2> QED
    BY <1>3, <1>4, <1>6, <1>7, <1>8

\* One deal no longer stands.
LEMMA StockShrinks ==
  ASSUME TypeOK, NEW c, NEW d, d \in StandingDeals(c),
         StandingDeals(c)' = StandingDeals(c) \ {d},
         \A id \in StandingDeals(c) \ {d} : voucher'[id].deal = voucher[id].deal
  PROVE  Stock(c)' = Stock(c) - SignedQuantity(voucher[d].deal)
<1> DEFINE S == StandingDeals(c)
           T == S \ {d}
           f == [id \in S |-> SignedQuantity(voucher[id].deal)]
           g == [id \in T |-> SignedQuantity(voucher'[id].deal)]
<1>1. \A id \in T : f[id] = g[id]
  OBVIOUS
<1>2. IsFiniteSet(S) /\ \A id \in S : f[id] \in Int
  BY StandingType
<1>3. IsFiniteSet(T)
  BY <1>2, FS_Subset
<1>4. SumFunctionOnSet(f, T) = SumFunctionOnSet(g, T)
  <2> HIDE DEF f, g, T
  <2> QED
    BY <1>1, <1>3, SumEqual
<1>5. SumFunctionOnSet(f, S) = f[d] + SumFunctionOnSet(f, S \ {d})
  <2> HIDE DEF f
  <2> QED
    BY <1>2, SumRemove
<1>6. f[d] = SignedQuantity(voucher[d].deal) /\ f[d] \in Int
  BY <1>2
<1>7. SumFunctionOnSet(f, T) \in Int
  <2> HIDE DEF f
  <2> QED
    BY <1>2, <1>3, SumInt
<1>8. Stock(c)' = SumFunctionOnSet(g, T)
  BY Zenon DEF Stock
<1>9. Stock(c) = SumFunctionOnSet(f, S)
  BY Zenon DEF Stock
<1> QED
  <2> HIDE DEF f, g
  <2> QED
    BY <1>4, <1>5, <1>6, <1>7, <1>8, <1>9

\* The inventory invariant in terms of Stock.
LEMMA InventoryIsStock ==
  InventoryFollowsDeals <=> \A c \in Foreign : position[c].quantity = Stock(c)
BY DEF InventoryFollowsDeals, Stock

LEMMA DealKeepsStock ==
  ASSUME IInv, InventoryFollowsDeals, NEW c \in Foreign, NEW row, PostsDeal(row, c)
  PROVE  InventoryFollowsDeals'
<1> SUFFICES ASSUME NEW d \in Foreign PROVE position'[d].quantity = Stock(d)'
  BY DEF InventoryFollowsDeals, Stock
<1>1. /\ row \in Row /\ Len(row.lines) <= MaxLines /\ PostVoucher(row)
      /\ row.status = "final" /\ row.deal \in Deal /\ row.deal.currency = c
      /\ position' = [position EXCEPT ![c] =
                       ApplyInventory(row.deal.side, @, row.deal.quantity,
                                      row.deal.price).position]
  BY DEF PostsDeal, Posts
<1>2. /\ Rows' = Rows \cup {nextId} /\ nextId \notin Rows
      /\ voucher'[nextId] = row
      /\ \A i \in Rows : voucher'[i] = voucher[i]
  BY <1>1, PostVoucherEffect DEF IInv
<1>3. /\ TypeOK /\ position[d] \in Position /\ position[d].quantity = Stock(d)
      /\ position \in [Foreign -> Position]
  BY InventoryIsStock DEF IInv, TypeOK
<1>4. CASE d = c
  <2>1. row.deal # None
    BY <1>1, NullAssumption
  <2>2. StandingDeals(d)' = StandingDeals(d) \cup {nextId} /\ nextId \notin StandingDeals(d)
    BY <1>1, <1>2, <1>4, <2>1 DEF StandingDeals
  <2>3. \A id \in StandingDeals(d) : voucher'[id].deal = voucher[id].deal
    BY <1>2 DEF StandingDeals
  <2>4. Stock(d)' = Stock(d) + SignedQuantity(voucher'[nextId].deal)
    <3>1. voucher'[nextId].deal \in Deal
      BY <1>1, <1>2
    <3> QED
      BY <1>3, <2>2, <2>3, <3>1, StockGrows
  <2>5. position'[d] = ApplyInventory(row.deal.side, position[d], row.deal.quantity,
                                      row.deal.price).position
    BY <1>1, <1>3, <1>4
  <2>6. position'[d].quantity = position[d].quantity + SignedQuantity(row.deal)
    BY <1>1, <1>3, <2>5, QuantityMoves
  <2> QED
    BY <1>2, <1>3, <2>4, <2>6
<1>5. CASE d # c
  <2>1. StandingDeals(d)' = StandingDeals(d)
    BY <1>1, <1>2, <1>5 DEF StandingDeals
  <2>2. \A id \in StandingDeals(d) : voucher'[id].deal = voucher[id].deal
    BY <1>2 DEF StandingDeals
  <2>3. Stock(d)' = Stock(d)
    BY <1>3, <2>1, <2>2, StockKept
  <2>4. position'[d] = position[d]
    BY <1>1, <1>3, <1>5
  <2> QED
    BY <1>3, <2>3, <2>4
<1> QED
  BY <1>4, <1>5

LEMMA OtherKeepsStock ==
  ASSUME IInv, InventoryFollowsDeals, NEW row, PostsOther(row)
  PROVE  InventoryFollowsDeals'
<1> SUFFICES ASSUME NEW d \in Foreign PROVE position'[d].quantity = Stock(d)'
  BY DEF InventoryFollowsDeals, Stock
<1>1. /\ row \in Row /\ Len(row.lines) <= MaxLines /\ PostVoucher(row)
      /\ row.deal = None /\ position' = position
  BY DEF PostsOther, Posts
<1>2. /\ Rows' = Rows \cup {nextId} /\ nextId \notin Rows
      /\ voucher'[nextId] = row
      /\ \A i \in Rows : voucher'[i] = voucher[i]
  BY <1>1, PostVoucherEffect DEF IInv
<1>3. StandingDeals(d)' = StandingDeals(d)
  BY <1>1, <1>2 DEF StandingDeals
<1>4. \A id \in StandingDeals(d) : voucher'[id].deal = voucher[id].deal
  BY <1>2 DEF StandingDeals
<1>5. Stock(d)' = Stock(d)
  BY <1>3, <1>4, StockKept DEF IInv
<1> QED
  BY <1>1, <1>5, InventoryIsStock

\* Once the deal of row id is taken out of the stock and the row no longer stands,
\* by a void or by a deletion, every currency agrees again.
LEMMA TakingBackKeepsStock ==
  ASSUME IInv, InventoryFollowsDeals, NEW id \in Rows, voucher[id].status = "final",
         position' = PositionWithout(voucher[id]),
         \A c \in Foreign : StandingDeals(c)' = StandingDeals(c) \ {id},
         \A i \in Rows \ {id} : voucher'[i].deal = voucher[i].deal
  PROVE  InventoryFollowsDeals'
<1> SUFFICES ASSUME NEW d \in Foreign PROVE position'[d].quantity = Stock(d)'
  BY DEF InventoryFollowsDeals, Stock
<1>1. /\ TypeOK /\ position[d] \in Position /\ position[d].quantity = Stock(d)
      /\ position \in [Foreign -> Position] /\ voucher[id].deal \in Deal \cup {None}
  BY InventoryIsStock DEF IInv, TypeOK, Row
<1>2. \A i \in StandingDeals(d) \ {id} : voucher'[i].deal = voucher[i].deal
  BY DEF StandingDeals
<1>3. CASE id \in StandingDeals(d)
  <2>1. voucher[id].deal \in Deal /\ voucher[id].deal.currency = d /\ voucher[id].deal # None
    BY <1>1, <1>3 DEF StandingDeals
  <2>2. Stock(d)' = Stock(d) - SignedQuantity(voucher[id].deal)
    BY <1>1, <1>2, <1>3, StockShrinks
  <2>3. position'[d] = ReverseInventory(position[d], voucher[id].deal)
    BY <1>1, <2>1 DEF PositionWithout
  <2>4. position'[d].quantity = position[d].quantity - SignedQuantity(voucher[id].deal)
    BY <1>1, <2>1, <2>3, QuantityMoves
  <2> QED
    BY <1>1, <2>2, <2>4
<1>4. CASE id \notin StandingDeals(d)
  <2>1. StandingDeals(d)' = StandingDeals(d)
    BY <1>4
  <2>2. \A i \in StandingDeals(d) : voucher'[i].deal = voucher[i].deal
    BY <1>2, <1>4
  <2>3. Stock(d)' = Stock(d)
    BY <1>1, <2>1, <2>2, StockKept
  <2>4. position'[d] = position[d]
    <3>1. voucher[id].deal # None => voucher[id].deal.currency # d
      BY <1>4 DEF StandingDeals
    <3> QED
      BY <1>1, <3>1 DEF PositionWithout
  <2> QED
    BY <1>1, <2>3, <2>4
<1> QED
  BY <1>3, <1>4

LEMMA VoidKeepsStock ==
  ASSUME IInv, InventoryFollowsDeals, NEW id \in Rows, VoidVoucher(id)
  PROVE  InventoryFollowsDeals'
<1>1. position' = PositionWithout(voucher[id])
  BY DEF VoidVoucher
<1>2. /\ voucher[id].status = "final"
      /\ Rows' = Rows \cup {nextId} /\ nextId \notin Rows
      /\ voucher'[id].status = "void" /\ voucher'[nextId].deal = None
      /\ \A i \in Rows : i # id => voucher'[i] = voucher[i]
  BY VoidVoucherEffect
<1>3. \A c \in Foreign : StandingDeals(c)' = StandingDeals(c) \ {id}
  BY <1>2 DEF StandingDeals
<1> QED
  BY <1>1, <1>2, <1>3, TakingBackKeepsStock

LEMMA DeleteKeepsStock ==
  ASSUME IInv, InventoryFollowsDeals, NEW id \in Rows, DeleteVoucher(id)
  PROVE  InventoryFollowsDeals'
<1>1. /\ position' = PositionWithout(voucher[id]) /\ ~HasReversal(id)
      /\ Rows' = Rows \ {id}
      /\ \A i \in Rows' : voucher'[i] = voucher[i]
  BY DEF DeleteVoucher, Rows
<1>2. voucher[id].status = "final"
  BY <1>1 DEF IInv, TypeOK, Row, VoidIffReversed
<1>3. \A c \in Foreign : StandingDeals(c)' = StandingDeals(c) \ {id}
  BY <1>1 DEF StandingDeals
<1> QED
  BY <1>1, <1>2, <1>3, TakingBackKeepsStock

LEMMA NothingStands ==
  ASSUME Rows = {}, position = [c \in Foreign |-> EmptyPosition]
  PROVE  InventoryFollowsDeals
<1> SUFFICES ASSUME NEW c \in Foreign PROVE position[c].quantity = Stock(c)
  BY InventoryIsStock
<1>1. StandingDeals(c) = {}
  BY DEF StandingDeals
<1>2. Stock(c) = 0
  BY <1>1, SumEmpty DEF Stock
<1> QED
  BY <1>2 DEF EmptyPosition

LEMMA NextKeepsStock ==
  IInv /\ InventoryFollowsDeals /\ [Next]_vars => InventoryFollowsDeals'
<1> SUFFICES ASSUME IInv, InventoryFollowsDeals, [Next]_vars PROVE InventoryFollowsDeals'
  OBVIOUS
<1>1. CASE PostSomeDeal
  BY <1>1, PostDealPosts, DealKeepsStock DEF PostSomeDeal, Customers, HouseAccounts
<1>2. CASE \E p, q \in Parties, c \in Currencies, a \in Amounts : PostBetween(p, q, c, a)
  BY <1>2, PostBetweenPosts, OtherKeepsStock
<1>3. CASE \E p \in Parties, c \in Currencies, a \in OpeningAmounts : PostOpening(p, c, a)
  BY <1>3, PostOpeningPosts, OtherKeepsStock
<1>4. CASE \E id \in Rows : VoidVoucher(id)
  BY <1>4, VoidKeepsStock
<1>5. CASE \E id \in Rows : DeleteVoucher(id)
  BY <1>5, DeleteKeepsStock
<1>6. CASE DataReset
  <2>1. Rows' = {} /\ position' = [c \in Foreign |-> EmptyPosition]
    BY <1>6 DEF DataReset, Rows
  <2>2. \A c \in Foreign : StandingDeals(c)' = {}
    BY <2>1 DEF StandingDeals
  <2>3. \A c \in Foreign : Stock(c)' = 0
    BY <2>2, SumEmpty DEF Stock
  <2> QED
    BY <2>1, <2>3 DEF InventoryFollowsDeals, Stock, EmptyPosition
<1>7. CASE UNCHANGED <<voucher, position>>
  BY <1>7 DEF InventoryFollowsDeals, StandingDeals, Rows
<1>8. CASE \E p \in Parties : ToggleActive(p)
  BY <1>7, <1>8 DEF ToggleActive
<1> QED
  BY <1>1, <1>2, <1>3, <1>4, <1>5, <1>6, <1>7, <1>8 DEF Next, vars

\* The stored stock is what the standing deals make it, through voids and
\* deletions in any order: _apply_inventory and _reverse_inventory take turns on
\* InventoryPosition.quantity and nothing else writes it.
THEOREM InventoryFollows == Spec => []InventoryFollowsDeals
<1>1. Init => IInv /\ InventoryFollowsDeals
  <2> SUFFICES ASSUME Init PROVE InventoryFollowsDeals
    BY InitIInv
  <2>1. Rows = {} /\ position = [c \in Foreign |-> EmptyPosition]
    BY DEF Init, Rows
  <2> QED
    BY <2>1, NothingStands
<1>2. IInv /\ InventoryFollowsDeals /\ [Next]_vars => (IInv /\ InventoryFollowsDeals)'
  BY NextKeepsIInv, NextKeepsStock
<1> QED
  BY <1>1, <1>2, PTL DEF Spec

-----------------------------------------------------------------------------
(* Who appears in a new document *)

\* p may appear in a document entered by hand.
Rested(p) == p \in active \/ KindOf[p] \in {"position", "equity"}

\* The parties of row are active or the system's own, unless it was imported.
RowRests(row) ==
  row.reverses = 0 /\ row.key = None => \A i \in DOMAIN row.lines : Rested(row.lines[i].party)

LEMMA PostedRowRests ==
  ASSUME TypeOK, NEW row, PostVoucher(row), RowRests(row)
  PROVE  \A id \in (DOMAIN voucher') \ Rows : RowRests(voucher'[id])
<1>1. voucher' = Stored(voucher, nextId, row)
  BY DEF PostVoucher
<1>2. DOMAIN voucher' = Rows \cup {nextId} /\ voucher'[nextId] = row
  BY <1>1 DEF Stored, Rows
<1> QED
  BY <1>2

LEMMA SystemRests ==
  /\ \A c \in Currencies : Rested(PositionFor(c))
  /\ Rested(Equity)
BY PartiesAssumption DEF Rested, PositionFor, Equity

LEMMA MoveRests ==
  ASSUME TypeOK, NEW kind, NEW key, NEW to, NEW from, NEW c, NEW amount,
         PostMove(kind, key, to, from, c, amount), key = None => Rested(to) /\ Rested(from)
  PROVE  \A id \in (DOMAIN voucher') \ Rows : RowRests(voucher'[id])
<1> DEFINE lines == MoveLines(to, from, c, amount)
           row == NewRow(kind, key, lines, None, 0)
<1>1. DOMAIN lines = 1..2 /\ lines[1].party = to /\ lines[2].party = from
  BY DEF MoveLines, Entry
<1>2. row.lines = lines /\ row.key = key
  BY DEF NewRow
<1>3. RowRests(row)
  <2> HIDE DEF lines, row
  <2> QED
    BY <1>1, <1>2 DEF RowRests
<1>4. PostVoucher(row)
  BY DEF PostMove
<1> HIDE DEF row
<1> QED
  BY <1>3, <1>4, PostedRowRests

LEMMA DealRests ==
  ASSUME TypeOK, NEW side \in Sides, NEW counterparty, NEW c \in Foreign, NEW quantity,
         NEW price, NEW settle, NEW delivery,
         PostDeal(side, counterparty, c, quantity, price, settle, delivery)
  PROVE  \A id \in (DOMAIN voucher') \ Rows : RowRests(voucher'[id])
<1> DEFINE applied == ApplyInventory(side, position[c], quantity, price)
           lines == DealLines(side, c, Leg(delivery, counterparty),
                              Leg(settle, counterparty), quantity, quantity * price)
           deal == [side |-> side, counterparty |-> counterparty, currency |-> c,
                    quantity |-> quantity, price |-> price, cost |-> applied.cost,
                    realized |-> applied.realized]
           row == NewRow("deal", None, lines, deal, 0)
<1>1. /\ PostVoucher(row)
      /\ IsActive(counterparty, {"customer"})
      /\ settle # None => IsHouseAccount(settle, Base)
      /\ delivery # None => IsHouseAccount(delivery, c)
  BY DEF PostDeal
<1>2. Rested(Leg(delivery, counterparty)) /\ Rested(Leg(settle, counterparty))
  BY <1>1 DEF Leg, IsHouseAccount, IsActive, Rested
<1>3. Rested(PositionFor(c)) /\ Rested(PositionFor(Base))
  BY SystemRests, PartiesAssumption DEF Foreign
<1>4. /\ DOMAIN lines = 1..4
      /\ \A i \in 1..4 : lines[i].party \in {Leg(delivery, counterparty), Leg(settle, counterparty),
                                             PositionFor(c), PositionFor(Base)}
  BY DEF DealLines, Entry
<1>5. row.lines = lines
  BY DEF NewRow
<1>6. RowRests(row)
  <2> HIDE DEF lines, row
  <2> QED
    BY <1>2, <1>3, <1>4, <1>5 DEF RowRests
<1> HIDE DEF row
<1> QED
  BY <1>1, <1>6, PostedRowRests

LEMMA NextRests ==
  ASSUME IInv, Next
  PROVE  \A id \in (DOMAIN voucher') \ Rows : RowRests(voucher'[id])
<1>1. TypeOK
  BY DEF IInv
<1>2. CASE PostSomeDeal
  BY <1>1, <1>2, DealRests DEF PostSomeDeal
<1>3. CASE \E p, q \in Parties, c \in Currencies, a \in Amounts : PostBetween(p, q, c, a)
  <2>1. PICK p \in Parties, q \in Parties, c \in Currencies, a \in Amounts :
          PostBetween(p, q, c, a)
    BY <1>3
  <2>2. /\ p \in active /\ q \in active
        /\ \E kind \in VoucherKinds :
             \/ PostMove(kind, None, p, q, c, a)
             \/ PostMove(kind, None, q, p, c, a)
    BY <2>1 DEF PostBetween, PostCashMovement, PostTransfer, PostPartyTransfer, PostExpense,
                PostIncome, Transferable, CanPay, IsActive, VoucherKinds
  <2> QED
    BY <1>1, <2>2, MoveRests DEF Rested
<1>4. CASE \E p \in Parties, c \in Currencies, a \in OpeningAmounts : PostOpening(p, c, a)
  <2>1. PICK p \in Parties, c \in Currencies, a \in OpeningAmounts : PostOpening(p, c, a)
    BY <1>4
  <2>2. CASE EnterOpeningBalance(p, c, a)
    <3>1. p \in active /\ PostMove("opening", None, p, Equity, c, a)
      BY <2>2 DEF EnterOpeningBalance, PostOpeningBalance
    <3>2. Rested(p) /\ Rested(Equity)
      BY <3>1, SystemRests DEF Rested
    <3> QED
      BY <1>1, <3>1, <3>2, MoveRests
  <2>3. CASE ImportOpeningBalance(p, c, a)
    <3>1. PostMove("opening", <<p, c>>, p, Equity, c, a) /\ <<p, c>> # None
      BY <2>3, PartiesAssumption DEF ImportOpeningBalance, PostOpeningBalance
    <3> QED
      BY <1>1, <3>1, MoveRests
  <2> QED
    BY <2>1, <2>2, <2>3 DEF PostOpening
<1>5. CASE \E id \in Rows : VoidVoucher(id)
  <2>1. PICK id \in Rows : VoidVoucher(id)
    BY <1>5
  <2>2. Rows' = Rows \cup {nextId} /\ voucher'[nextId].reverses = id /\ id # 0
    BY <1>1, <2>1, VoidVoucherEffect DEF TypeOK
  <2> QED
    BY <2>2 DEF RowRests, Rows
<1>6. CASE \E id \in Rows : DeleteVoucher(id)
  BY <1>6 DEF DeleteVoucher
<1>7. CASE DataReset
  BY <1>7 DEF DataReset
<1>8. CASE \E p \in Parties : ToggleActive(p)
  BY <1>8 DEF ToggleActive, Rows
<1> QED
  BY <1>2, <1>3, <1>4, <1>5, <1>6, <1>7, <1>8 DEF Next

\* No step enters a document on an inactive customer, account or category: each
\* operation of services.py keeps its own check (the system accounts and the
\* documents that are imported or reversed apart).
THEOREM InactiveRest == Spec => InactivePartiesRest
<1> DEFINE A == \A id \in (DOMAIN voucher') \ Rows :
                  voucher'[id].reverses = 0 /\ voucher'[id].key = None =>
                    \A i \in DOMAIN voucher'[id].lines :
                      LET p == voucher'[id].lines[i].party
                      IN  p \in active \/ KindOf[p] \in {"position", "equity"}
<1>1. IInv /\ [Next]_vars => [A]_vars
  <2> SUFFICES ASSUME IInv, Next PROVE A
    OBVIOUS
  <2>1. \A id \in (DOMAIN voucher') \ Rows : RowRests(voucher'[id])
    BY NextRests
  <2> QED
    BY <2>1 DEF RowRests, Rested
<1> HIDE DEF A
<1>2. Spec => [][A]_vars
  BY Invariance, <1>1, PTL DEF Spec
<1> QED
  BY <1>2 DEF InactivePartiesRest, A

-----------------------------------------------------------------------------
(* The audit trail *)

\* The rows of the log s that follow its last reset and are row.
Since(s, row) ==
  {i \in DOMAIN s : s[i] = row /\ \A j \in DOMAIN s : s[j].action = "reset" => j < i}

Count(s, row) == Cardinality(Since(s, row))

LEMMA CountLogged ==
  ASSUME NEW action, NEW object
  PROVE  Logged(action, object) = Since(audit, Log(action, object))
BY DEF Logged, SinceReset, Since

LEMMA SinceFinite ==
  ASSUME NEW s \in Seq(AuditRow), NEW row
  PROVE  IsFiniteSet(Since(s, row)) /\ Count(s, row) \in Nat
<1>1. Len(s) \in Int /\ DOMAIN s = 1..Len(s) /\ Since(s, row) \subseteq 1..Len(s)
  BY DEF Since
<1>2. IsFiniteSet(1..Len(s))
  BY <1>1, FS_Interval
<1>3. IsFiniteSet(Since(s, row))
  BY <1>1, <1>2, FS_Subset
<1> QED
  BY <1>3, FS_CardinalityType DEF Count

\* Another row of the log counts once, and only for itself.
LEMMA CountAppend ==
  ASSUME NEW s \in Seq(AuditRow), NEW new \in AuditRow, new.action # "reset", NEW row
  PROVE  Count(Append(s, new), row) = IF row = new THEN Count(s, row) + 1 ELSE Count(s, row)
<1> DEFINE t == Append(s, new)
           last == Len(s) + 1
<1>1. /\ Len(s) \in Nat /\ DOMAIN s = 1..Len(s) /\ DOMAIN t = 1..last
      /\ t[last] = new /\ \A i \in 1..Len(s) : t[i] = s[i]
  OBVIOUS
<1>2. last \notin Since(s, row) /\ last \in DOMAIN t
  BY <1>1 DEF Since
<1>3. DOMAIN t = DOMAIN s \cup {last}
  BY <1>1
<1>4. \A i \in DOMAIN s : i < last
  BY <1>1
<1> HIDE DEF t, last
<1>5. \A i \in DOMAIN t : (\A j \in DOMAIN t : t[j].action = "reset" => j < i)
                            <=> \/ i = last
                                \/ \A j \in DOMAIN s : s[j].action = "reset" => j < i
  BY <1>1, <1>3, <1>4
<1>6. Since(t, row) = IF row = new THEN Since(s, row) \cup {last} ELSE Since(s, row)
  BY <1>1, <1>3, <1>5 DEF Since
<1>7. IsFiniteSet(Since(s, row)) /\ Count(s, row) \in Nat
  BY SinceFinite
<1>8. Cardinality(Since(s, row) \cup {last}) = Cardinality(Since(s, row)) + 1
  BY <1>2, <1>7, FS_AddElement
<1>9. Count(t, row) = IF row = new THEN Count(s, row) + 1 ELSE Count(s, row)
  BY <1>6, <1>8 DEF Count
<1> QED
  BY <1>9 DEF t

\* A reset hides everything before it, and is itself no row since the reset.
LEMMA CountReset ==
  ASSUME NEW s \in Seq(AuditRow), NEW new \in AuditRow, new.action = "reset", NEW row
  PROVE  Count(Append(s, new), row) = 0
<1> DEFINE t == Append(s, new)
           last == Len(s) + 1
<1>1. Len(s) \in Nat /\ DOMAIN t = 1..last /\ t[last] = new
  OBVIOUS
<1>2. last \in DOMAIN t /\ \A i \in DOMAIN t : ~(last < i)
  BY <1>1
<1> HIDE DEF t, last
<1>3. Since(t, row) = {}
  BY <1>1, <1>2 DEF Since
<1>4. Count(t, row) = 0
  BY <1>3, FS_EmptySet DEF Count
<1> QED
  BY <1>4 DEF t

LEMMA LogsDiffer ==
  ASSUME NEW a, NEW b, NEW m, NEW n
  PROVE  /\ Log(a, m) = Log(b, n) <=> a = b /\ m = n
         /\ Log(a, m).action = a
BY DEF Log

Gaps == {n \in 1..sequence : \A id \in Rows : voucher[id].number # n}

\* NumbersAccountedFor, and that the log knows nothing of what is still to come:
\* no deletion of a number not issued, no posting or void of a key not given.
TrailInv ==
  /\ \A n \in Nat : Count(audit, Log("delete", n)) = IF n \in Gaps THEN 1 ELSE 0
  /\ \A id \in Rows : /\ Count(audit, Log("post", id)) = 1
                      /\ Count(audit, Log("void", id))
                           = IF voucher[id].status = "void" THEN 1 ELSE 0
  /\ \A id \in Nat : id >= nextId => /\ Count(audit, Log("post", id)) = 0
                                     /\ Count(audit, Log("void", id)) = 0

LEMMA TrailExplains ==
  ASSUME IInv, TrailInv
  PROVE  NumbersAccountedFor
<1>1. \A n \in 1..sequence :
        Cardinality(Logged("delete", n))
          = IF \E id \in Rows : voucher[id].number = n THEN 0 ELSE 1
  <2> TAKE n \in 1..sequence
  <2>1. n \in Nat
    BY DEF IInv, TypeOK
  <2>2. Cardinality(Logged("delete", n)) = IF n \in Gaps THEN 1 ELSE 0
    BY <2>1, CountLogged DEF TrailInv, Count
  <2> QED
    BY <2>2 DEF Gaps
<1>2. \A id \in Rows :
        /\ Cardinality(Logged("post", id)) = 1
        /\ Cardinality(Logged("void", id)) = IF voucher[id].status = "void" THEN 1 ELSE 0
  BY CountLogged DEF TrailInv, Count
<1> QED
  BY <1>1, <1>2 DEF NumbersAccountedFor

LEMMA PostKeepsTrail ==
  ASSUME IInv, TrailInv, NEW row, Posts(row)
  PROVE  TrailInv'
<1>1. /\ row \in Row /\ Len(row.lines) <= MaxLines /\ PostVoucher(row)
      /\ row.status = "final" /\ row.number = sequence + 1
  BY DEF Posts
<1>2. /\ Rows' = Rows \cup {nextId} /\ nextId \notin Rows
      /\ voucher'[nextId] = row
      /\ \A i \in Rows : voucher'[i] = voucher[i]
      /\ nextId' = nextId + 1 /\ sequence' = sequence + 1
      /\ audit' = Append(audit, Log("post", nextId))
  BY <1>1, PostVoucherEffect DEF IInv
<1>3. /\ nextId \in Nat \ {0} /\ sequence \in Nat /\ audit \in Seq(AuditRow)
      /\ Rows \subseteq 1..(nextId - 1) /\ TypeOK
  BY DEF IInv, TypeOK
<1>4. Log("post", nextId) \in AuditRow
  BY <1>3, LogType
<1>5. \A a, o : Count(audit', Log(a, o)) =
                  IF a = "post" /\ o = nextId THEN Count(audit, Log(a, o)) + 1
                                              ELSE Count(audit, Log(a, o))
  <2> TAKE a, o
  <2> DEFINE new == Log("post", nextId)
  <2>1. Count(Append(audit, new), Log(a, o)) =
          IF Log(a, o) = new THEN Count(audit, Log(a, o)) + 1 ELSE Count(audit, Log(a, o))
    <3>1. new.action # "reset"
      BY LogsDiffer
    <3> HIDE DEF new
    <3> QED
      BY <1>3, <1>4, <3>1, CountAppend DEF new
  <2>2. Log(a, o) = new <=> a = "post" /\ o = nextId
    BY LogsDiffer
  <2> HIDE DEF new
  <2> QED
    BY <1>2, <2>1, <2>2 DEF new
<1>6. Gaps' = Gaps
  <2>1. \A i \in Rows : voucher[i].number \in 1..sequence
    BY DEF IInv, NumbersUnique
  <2>2. \A n : n \in 1..(sequence + 1) <=> n \in 1..sequence \/ n = sequence + 1
    BY <1>3
  <2>3. sequence + 1 \notin 1..sequence
    BY <1>3
  <2> QED
    BY <1>1, <1>2, <2>2, <2>3 DEF Gaps
<1>7. \A n \in Nat : Count(audit', Log("delete", n)) = IF n \in Gaps' THEN 1 ELSE 0
  BY <1>5, <1>6 DEF TrailInv
<1>8. \A id \in Rows' : /\ Count(audit', Log("post", id)) = 1
                       /\ Count(audit', Log("void", id))
                            = IF voucher'[id].status = "void" THEN 1 ELSE 0
  BY <1>1, <1>2, <1>3, <1>5 DEF TrailInv
<1>9. \A id \in Nat : id >= nextId + 1 => /\ Count(audit', Log("post", id)) = 0
                                          /\ Count(audit', Log("void", id)) = 0
  BY <1>3, <1>5 DEF TrailInv
<1> QED
  BY <1>2, <1>7, <1>8, <1>9 DEF TrailInv

LEMMA VoidKeepsTrail ==
  ASSUME IInv, TrailInv, NEW id \in Rows, VoidVoucher(id)
  PROVE  TrailInv'
<1>1. audit' = audit \o <<Log("post", nextId), Log("void", id)>>
  BY DEF VoidVoucher
<1>2. /\ voucher[id].status = "final"
      /\ Rows' = Rows \cup {nextId} /\ nextId \notin Rows
      /\ voucher'[id].status = "void" /\ voucher'[nextId].status = "final"
      /\ voucher'[nextId].number = sequence + 1
      /\ \A i \in Rows : i # id => voucher'[i] = voucher[i]
      /\ \A i \in Rows : voucher'[i].number = voucher[i].number
      /\ nextId' = nextId + 1 /\ sequence' = sequence + 1
  BY VoidVoucherEffect
<1>3. /\ nextId \in Nat \ {0} /\ sequence \in Nat /\ audit \in Seq(AuditRow)
      /\ Rows \subseteq 1..(nextId - 1) /\ id \in Nat
  BY DEF IInv, TypeOK
<1>4. Log("post", nextId) \in AuditRow /\ Log("void", id) \in AuditRow
  BY <1>3, LogType
<1>5. \A a, o : Count(audit', Log(a, o)) =
                  IF (a = "post" /\ o = nextId) \/ (a = "void" /\ o = id)
                  THEN Count(audit, Log(a, o)) + 1
                  ELSE Count(audit, Log(a, o))
  <2> TAKE a, o
  <2>1. PICK post : post = Log("post", nextId)
    OBVIOUS
  <2>2. PICK void : void = Log("void", id)
    OBVIOUS
  <2>3. PICK s : s = Append(audit, post)
    OBVIOUS
  <2>4. s \in Seq(AuditRow) /\ audit' = Append(s, void)
    BY <1>1, <1>3, <1>4, <2>1, <2>2, <2>3
  <2>5. post.action # "reset" /\ void.action # "reset"
    BY <2>1, <2>2, LogsDiffer
  <2>6. PICK row : row = Log(a, o)
    OBVIOUS
  <2>7. Count(s, row) = IF row = post THEN Count(audit, row) + 1 ELSE Count(audit, row)
    BY <1>3, <1>4, <2>1, <2>3, <2>5, CountAppend
  <2>8. Count(audit', row) = IF row = void THEN Count(s, row) + 1 ELSE Count(s, row)
    BY <1>4, <2>2, <2>4, <2>5, CountAppend
  <2>9. /\ row = post <=> a = "post" /\ o = nextId
        /\ row = void <=> a = "void" /\ o = id
    BY <2>1, <2>2, <2>6, LogsDiffer
  <2> QED
    BY <2>6, <2>7, <2>8, <2>9
<1>6. Gaps' = Gaps
  <2>1. \A i \in Rows : voucher[i].number \in 1..sequence
    BY DEF IInv, NumbersUnique
  <2>2. \A n : n \in 1..(sequence + 1) <=> n \in 1..sequence \/ n = sequence + 1
    BY <1>3
  <2>3. sequence + 1 \notin 1..sequence
    BY <1>3
  <2> QED
    BY <1>2, <2>2, <2>3 DEF Gaps
<1>7. \A n \in Nat : Count(audit', Log("delete", n)) = IF n \in Gaps' THEN 1 ELSE 0
  BY <1>5, <1>6 DEF TrailInv
<1>8. \A i \in Rows' : /\ Count(audit', Log("post", i)) = 1
                      /\ Count(audit', Log("void", i))
                           = IF voucher'[i].status = "void" THEN 1 ELSE 0
  BY <1>2, <1>3, <1>5 DEF TrailInv
<1>9. \A i \in Nat : i >= nextId + 1 => /\ Count(audit', Log("post", i)) = 0
                                        /\ Count(audit', Log("void", i)) = 0
  BY <1>3, <1>5 DEF TrailInv
<1> QED
  BY <1>2, <1>7, <1>8, <1>9 DEF TrailInv

LEMMA DeleteKeepsTrail ==
  ASSUME IInv, TrailInv, NEW id \in Rows, DeleteVoucher(id)
  PROVE  TrailInv'
<1>1. /\ Rows' = Rows \ {id}
      /\ \A i \in Rows' : voucher'[i] = voucher[i]
      /\ nextId' = nextId /\ sequence' = sequence
      /\ audit' = Append(audit, Log("delete", voucher[id].number))
  BY DEF DeleteVoucher, Rows
<1>2. PICK number : number = voucher[id].number
  OBVIOUS
<1>3. /\ number \in 1..sequence /\ sequence \in Nat /\ audit \in Seq(AuditRow)
      /\ \A i \in Rows : voucher[i].number = number => i = id
  BY <1>2 DEF IInv, NumbersUnique, TypeOK
<1>4. PICK new : new = Log("delete", number)
  OBVIOUS
<1>5. new \in AuditRow /\ new.action # "reset"
  BY <1>3, <1>4, LogType, LogsDiffer
<1>6. \A a, o : Count(audit', Log(a, o)) =
                  IF a = "delete" /\ o = number THEN Count(audit, Log(a, o)) + 1
                                                ELSE Count(audit, Log(a, o))
  <2> TAKE a, o
  <2>1. PICK row : row = Log(a, o)
    OBVIOUS
  <2>2. Count(audit', row) = IF row = new THEN Count(audit, row) + 1 ELSE Count(audit, row)
    BY <1>1, <1>2, <1>3, <1>4, <1>5, CountAppend
  <2>3. row = new <=> a = "delete" /\ o = number
    BY <1>4, <2>1, LogsDiffer
  <2> QED
    BY <2>1, <2>2, <2>3
<1>7. Gaps' = Gaps \cup {number} /\ number \notin Gaps
  BY <1>1, <1>2, <1>3 DEF Gaps
<1>8. \A n \in Nat : Count(audit', Log("delete", n)) = IF n \in Gaps' THEN 1 ELSE 0
  BY <1>6, <1>7 DEF TrailInv
<1>9. \A i \in Rows' : /\ Count(audit', Log("post", i)) = 1
                      /\ Count(audit', Log("void", i))
                           = IF voucher'[i].status = "void" THEN 1 ELSE 0
  BY <1>1, <1>6 DEF TrailInv
<1>10. \A i \in Nat : i >= nextId => /\ Count(audit', Log("post", i)) = 0
                                     /\ Count(audit', Log("void", i)) = 0
  BY <1>6 DEF TrailInv
<1> QED
  BY <1>1, <1>8, <1>9, <1>10 DEF TrailInv

LEMMA ResetKeepsTrail ==
  ASSUME IInv, TrailInv, DataReset
  PROVE  TrailInv'
<1>1. Rows' = {} /\ sequence' = 0 /\ audit' = Append(audit, Log("reset", 0))
  BY DEF DataReset, Rows
<1>2. PICK new : new = Log("reset", 0)
  OBVIOUS
<1>3. new \in AuditRow /\ new.action = "reset" /\ audit \in Seq(AuditRow)
  BY <1>2, LogType, LogsDiffer DEF IInv, TypeOK
<1>4. \A row : Count(audit', row) = 0
  BY <1>1, <1>2, <1>3, CountReset
<1>5. Gaps' = {}
  BY <1>1 DEF Gaps
<1> QED
  BY <1>1, <1>4, <1>5 DEF TrailInv

LEMMA NextKeepsTrail ==
  IInv /\ TrailInv /\ [Next]_vars => TrailInv'
<1> SUFFICES ASSUME IInv, TrailInv, [Next]_vars PROVE TrailInv'
  OBVIOUS
<1>1. CASE PostSomeDeal
  BY <1>1, PostDealPosts, PostKeepsTrail
     DEF PostSomeDeal, Customers, HouseAccounts, PostsDeal
<1>2. CASE \E p, q \in Parties, c \in Currencies, a \in Amounts : PostBetween(p, q, c, a)
  BY <1>2, PostBetweenPosts, PostKeepsTrail DEF PostsOther
<1>3. CASE \E p \in Parties, c \in Currencies, a \in OpeningAmounts : PostOpening(p, c, a)
  BY <1>3, PostOpeningPosts, PostKeepsTrail DEF PostsOther
<1>4. CASE \E id \in Rows : VoidVoucher(id)
  BY <1>4, VoidKeepsTrail
<1>5. CASE \E id \in Rows : DeleteVoucher(id)
  BY <1>5, DeleteKeepsTrail
<1>6. CASE DataReset
  BY <1>6, ResetKeepsTrail
<1>7. CASE UNCHANGED <<voucher, nextId, sequence, audit>>
  BY <1>7 DEF TrailInv, Gaps, Rows
<1>8. CASE \E p \in Parties : ToggleActive(p)
  BY <1>7, <1>8 DEF ToggleActive
<1> QED
  BY <1>1, <1>2, <1>3, <1>4, <1>5, <1>6, <1>7, <1>8 DEF Next, vars

LEMMA InitTrail == Init => TrailInv
<1> SUFFICES ASSUME Init PROVE TrailInv
  OBVIOUS
<1>1. Rows = {} /\ Gaps = {} /\ DOMAIN audit = {}
  BY DEF Init, Rows, Gaps
<1>2. \A row : Since(audit, row) = {}
  BY <1>1 DEF Since
<1>3. \A row : Count(audit, row) = 0
  BY <1>2, FS_EmptySet DEF Count
<1> QED
  BY <1>1, <1>3 DEF TrailInv

\* Every gap in the numbers has its one deletion in the log, and every document
\* its one posting and its one void, since the last reset.
THEOREM NumbersAccounted == Spec => []NumbersAccountedFor
<1>1. Init => IInv /\ TrailInv
  BY InitIInv, InitTrail
<1>2. IInv /\ TrailInv /\ [Next]_vars => (IInv /\ TrailInv)'
  BY NextKeepsIInv, NextKeepsTrail
<1>3. IInv /\ TrailInv => NumbersAccountedFor
  BY TrailExplains
<1> QED
  BY <1>1, <1>2, <1>3, PTL DEF Spec
=============================================================================
