------------------------------- MODULE Ledger -------------------------------
(***************************************************************************)
(* The document engine of ledger/services.py over the tables of            *)
(* ledger/models.py: every service call is one committed transaction.      *)
(*                                                                         *)
(*   voucher   the Voucher rows by primary key, each with its Entry rows   *)
(*             (lines) and its Deal row (deal); a DRAFT row exists only    *)
(*             inside the transaction that posts it (module Posting)       *)
(*   nextId    the next primary key                                        *)
(*   sequence  Sequence.value, the last document number issued             *)
(*   position  the InventoryPosition rows                                  *)
(*   active    the parties whose is_active is set                          *)
(*   audit     the AuditLog rows about documents, in order                 *)
(*                                                                         *)
(* A call that raises LedgerError leaves the tables as they were, so its   *)
(* conditions are the guards of its action.  Dates, descriptions and       *)
(* locked rates are left out.                                              *)
(***************************************************************************)
EXTENDS Sequences, FiniteSets, InventoryCost

CONSTANTS
  Parties,      \* core.Party rows
  KindOf,       \* Party.kind
  CurrencyOf,   \* Party.currency, None for a party of many currencies
  Currencies,   \* core.Currency rows, all active
  Base,         \* the currency with is_base
  None,         \* the database null
  Quantities,   \* quantities of a deal
  Prices,       \* unit prices of a deal
  Amounts,      \* amounts of the other documents
  OpeningAmounts, \* signed amounts of opening balances
  MaxVouchers,  \* bound: documents posted in one behaviour
  MaxInactive,  \* bound: parties inactive at once
  MaxResets     \* bound: resets in one behaviour

PartyKinds == {"customer", "bank", "cashbox", "position",
               "expense", "income", "equity"}

ASSUME PartiesAssumption ==
  /\ KindOf \in [Parties -> PartyKinds]
  /\ CurrencyOf \in [Parties -> Currencies \cup {None}]
  /\ Base \in Currencies
  /\ None \notin Currencies
  /\ None \notin Parties \X Currencies
  /\ \A c \in Currencies :
       \E p \in Parties : KindOf[p] = "position" /\ CurrencyOf[p] = c
  /\ \E p \in Parties : KindOf[p] = "equity"

ASSUME NumbersAssumption ==
  /\ Quantities \subseteq Nat \ {0}
  /\ Prices \subseteq Nat \ {0}
  /\ Amounts \subseteq Nat \ {0}
  /\ OpeningAmounts \subseteq Int \ {0}
  /\ MaxVouchers \in Nat
  /\ MaxInactive \in Nat
  /\ MaxResets \in Nat

VARIABLES voucher, nextId, sequence, position, active, audit

vars == <<voucher, nextId, sequence, position, active, audit>>

-----------------------------------------------------------------------------
(* Rows *)

Foreign == Currencies \ {Base}

PositionFor(c) ==
  CHOOSE p \in Parties : KindOf[p] = "position" /\ CurrencyOf[p] = c

Equity == CHOOSE p \in Parties : KindOf[p] = "equity"

Line == [party : Parties, currency : Currencies, amount : Int]

Deal == [side : Sides, counterparty : Parties, currency : Currencies,
         quantity : Nat \ {0}, price : Nat \ {0}, cost : Int, realized : Int]

\* A document without a deal has the null in its place.
ASSUME NullAssumption == None \notin Deal

VoucherKinds == {"deal", "receive", "pay", "transfer", "adjust",
                 "opening", "expense", "income"}

Row == [kind : VoucherKinds, status : {"final", "void"}, number : Nat,
        key : (Parties \X Currencies) \cup {None}, reverses : Nat,
        lines : Seq(Line), deal : Deal \cup {None}]

AuditRow == [action : {"post", "void", "delete", "reset"}, object : Nat]

Rows == DOMAIN voucher

HasReversal(id) == \E r \in Rows : voucher[r].reverses = id

-----------------------------------------------------------------------------
(* Sums over lines *)

\* No operation writes more than four rows, a reversal as many as its original.
MaxLines == 4

Entry(p, c, a) == [party |-> p, currency |-> c, amount |-> a]

AmountAt(lines, i, c) ==
  IF i \in DOMAIN lines /\ lines[i].currency = c THEN lines[i].amount ELSE 0

CurrencyTotal(lines, c) ==
  AmountAt(lines, 1, c) + AmountAt(lines, 2, c)
    + AmountAt(lines, 3, c) + AmountAt(lines, 4, c)

AccountAmountAt(lines, i, p, c) ==
  IF i \in DOMAIN lines /\ lines[i].party = p THEN AmountAt(lines, i, c) ELSE 0

AccountTotal(lines, p, c) ==
  AccountAmountAt(lines, 1, p, c) + AccountAmountAt(lines, 2, p, c)
    + AccountAmountAt(lines, 3, p, c) + AccountAmountAt(lines, 4, p, c)

Balanced(lines) == \A c \in Currencies : CurrencyTotal(lines, c) = 0

\* Variant for mutation: the reversal repeats its original.
NegatedNot(lines) == lines

Negated(lines) == [i \in DOMAIN lines |-> [lines[i] EXCEPT !.amount = -@]]

-----------------------------------------------------------------------------
(* post_voucher, shared by every operation *)

\* The row a posting adds; reverses = 0 is the null of the one-to-one field.
NewRow(kind, key, lines, deal, reverses) ==
  [kind |-> kind, status |-> "final", number |-> sequence + 1, key |-> key,
   reverses |-> reverses, lines |-> lines, deal |-> deal]

\* Variant for mutation: the import key is not looked up.
PostableKeyIgnored(row) ==
  /\ nextId <= MaxVouchers
  /\ Balanced(row.lines)
  /\ \A i \in DOMAIN row.lines : row.lines[i].amount # 0

Postable(row) ==
  /\ nextId <= MaxVouchers
  /\ row.key # None => \A id \in Rows : voucher[id].key # row.key
  /\ Balanced(row.lines)
  /\ \A i \in DOMAIN row.lines : row.lines[i].amount # 0

\* The Voucher table f with row stored under primary key id.
Stored(f, id, row) ==
  [i \in DOMAIN f \cup {id} |-> IF i = id THEN row ELSE f[i]]

Log(action, object) == [action |-> action, object |-> object]

PostVoucher(row) ==
  /\ Postable(row)
  /\ voucher' = Stored(voucher, nextId, row)
  /\ nextId' = nextId + 1
  /\ sequence' = sequence + 1
  /\ audit' = Append(audit, Log("post", nextId))

-----------------------------------------------------------------------------
(* Who may appear in a document *)

\* Variant for mutation: only the kind is checked.
IsOfKind(p, kinds) == KindOf[p] \in kinds

IsActive(p, kinds) == p \in active /\ KindOf[p] \in kinds

HouseKinds == {"bank", "cashbox"}

IsHouseAccount(p, c) == IsActive(p, HouseKinds) /\ CurrencyOf[p] = c

\* What the lists of a form offer.
Customers == {p \in Parties : IsActive(p, {"customer"})}

HouseAccounts(c) == {p \in Parties : IsHouseAccount(p, c)}

\* An account takes a currency when it is in that currency or in many.
Accepts(account, c) == CurrencyOf[account] \in {c, None}

\* post_transfer itself only compares the two accounts; the rest is the form's.
Transferable(from, to, c) ==
  /\ from # to
  /\ IsActive(from, HouseKinds) /\ Accepts(from, c)
  /\ IsActive(to, HouseKinds) /\ Accepts(to, c)

\* What pays an expense or takes an income: a customer may, too.
CanPay(account, c) == IsActive(account, HouseKinds \cup {"customer"}) /\ Accepts(account, c)

-----------------------------------------------------------------------------
(* Deals *)

\* The four rows of a deal: two in the foreign currency, two in the base one.
DealLines(side, currency, currencySide, baseSide, quantity, total) ==
  LET pos     == PositionFor(currency)
      basePos == PositionFor(Base)
  IN  IF side = SELL
      THEN <<Entry(pos, currency, quantity),
             Entry(currencySide, currency, -quantity),
             Entry(baseSide, Base, total),
             Entry(basePos, Base, -total)>>
      ELSE <<Entry(currencySide, currency, quantity),
             Entry(pos, currency, -quantity),
             Entry(basePos, Base, total),
             Entry(baseSide, Base, -total)>>

\* Variant for mutation: no fallback to the customer.
LegAsGiven(account, counterparty) == account

\* A leg stays on the customer's account unless it is settled at once.
Leg(account, counterparty) == IF account = None THEN counterparty ELSE account

PostDeal(side, counterparty, currency, quantity, price, settle, delivery) ==
  LET applied == ApplyInventory(side, position[currency], quantity, price)
      lines == DealLines(side, currency, Leg(delivery, counterparty),
                         Leg(settle, counterparty), quantity, quantity * price)
      deal == [side |-> side, counterparty |-> counterparty, currency |-> currency,
               quantity |-> quantity, price |-> price, cost |-> applied.cost,
               realized |-> applied.realized]
  IN  /\ currency # Base
      /\ IsActive(counterparty, {"customer"})
      /\ settle # None => IsHouseAccount(settle, Base)
      /\ delivery # None => IsHouseAccount(delivery, currency)
      /\ position' = [position EXCEPT ![currency] = applied.position]
      /\ PostVoucher(NewRow("deal", None, lines, deal, 0))
      /\ UNCHANGED active

-----------------------------------------------------------------------------
(* Two-row documents *)

\* amount of currency c moves onto account to and off account from.
MoveLines(to, from, c, amount) == <<Entry(to, c, amount), Entry(from, c, -amount)>>

PostMove(kind, key, to, from, c, amount) ==
  /\ PostVoucher(NewRow(kind, key, MoveLines(to, from, c, amount), None, 0))
  /\ UNCHANGED <<position, active>>

PostCashMovement(kind, party, account, c, amount) ==
  /\ IsActive(party, {"customer"})
  /\ IsActive(account, HouseKinds)
  /\ Accepts(account, c)
  /\ IF kind = "receive"
     THEN PostMove("receive", None, account, party, c, amount)
     ELSE PostMove("pay", None, party, account, c, amount)

PostTransfer(from, to, c, amount) ==
  /\ Transferable(from, to, c)
  /\ PostMove("transfer", None, to, from, c, amount)

PostPartyTransfer(from, to, c, amount) ==
  /\ from # to
  /\ IsActive(from, {"customer"})
  /\ IsActive(to, {"customer"})
  /\ PostMove("transfer", None, to, from, c, amount)

PostExpense(category, account, c, amount) ==
  /\ CanPay(account, c)
  /\ IsActive(category, {"expense"})
  /\ PostMove("expense", None, category, account, c, amount)

PostIncome(category, account, c, amount) ==
  /\ CanPay(account, c)
  /\ IsActive(category, {"income"})
  /\ PostMove("income", None, account, category, c, amount)

\* A signed amount: a positive one is owed to the exchange.
PostOpeningBalance(key, party, c, amount) ==
  PostMove("opening", key, party, Equity, c, amount)

\* The opening balance form offers any active party.
EnterOpeningBalance(party, c, amount) ==
  /\ party \in active
  /\ PostOpeningBalance(None, party, c, amount)

\* import_sheet finds the customer by name, active or not, and keys the document.
ImportOpeningBalance(party, c, amount) ==
  /\ KindOf[party] = "customer"
  /\ PostOpeningBalance(<<party, c>>, party, c, amount)

-----------------------------------------------------------------------------
(* Void, delete, reset *)

\* Variant for mutation: the inventory is forgotten.
PositionKept(row) == position

\* The inventory after the deal of row, if it has one, is taken back.
PositionWithout(row) ==
  IF row.deal = None THEN position
  ELSE [position EXCEPT ![row.deal.currency] = ReverseInventory(@, row.deal)]

\* Variant for mutation: the original is not marked.
VoidVoucherUnmarked(id) ==
  LET reversal == NewRow("adjust", None, Negated(voucher[id].lines), None, id)
  IN  /\ voucher[id].status = "final"
      /\ ~HasReversal(id)
      /\ Postable(reversal)
      /\ position' = PositionWithout(voucher[id])
      /\ voucher' = Stored(voucher, nextId, reversal)
      /\ nextId' = nextId + 1
      /\ sequence' = sequence + 1
      /\ audit' = audit \o <<Log("post", nextId), Log("void", id)>>
      /\ UNCHANGED active

VoidVoucher(id) ==
  LET original == voucher[id]
      reversal == NewRow("adjust", None, Negated(original.lines), None, id)
  IN  /\ original.status = "final"
      /\ ~HasReversal(id)
      /\ Postable(reversal)
      /\ position' = PositionWithout(original)
      /\ voucher' = Stored([voucher EXCEPT ![id].status = "void"], nextId, reversal)
      /\ nextId' = nextId + 1
      /\ sequence' = sequence + 1
      /\ audit' = audit \o <<Log("post", nextId), Log("void", id)>>
      /\ UNCHANGED active

\* Variants for mutation: the number of a deleted document is given back; the log
\* names its key; a reversal may be deleted.
DeleteVoucherRenumbering(id) ==
  /\ ~HasReversal(id)
  /\ voucher[id].reverses = 0
  /\ position' = PositionWithout(voucher[id])
  /\ voucher' = [i \in Rows \ {id} |-> voucher[i]]
  /\ sequence' = sequence - 1
  /\ audit' = Append(audit, Log("delete", voucher[id].number))
  /\ UNCHANGED <<nextId, active>>

DeleteVoucherLoggingKey(id) ==
  /\ ~HasReversal(id)
  /\ voucher[id].reverses = 0
  /\ position' = PositionWithout(voucher[id])
  /\ voucher' = [i \in Rows \ {id} |-> voucher[i]]
  /\ audit' = Append(audit, Log("delete", id))
  /\ UNCHANGED <<nextId, sequence, active>>

DeleteVoucherAlsoReversal(id) ==
  /\ ~HasReversal(id)
  /\ position' = PositionWithout(voucher[id])
  /\ voucher' = [i \in Rows \ {id} |-> voucher[i]]
  /\ audit' = Append(audit, Log("delete", voucher[id].number))
  /\ UNCHANGED <<nextId, sequence, active>>

DeleteVoucher(id) ==
  /\ ~HasReversal(id)
  /\ voucher[id].reverses = 0
  /\ position' = PositionWithout(voucher[id])
  /\ voucher' = [i \in Rows \ {id} |-> voucher[i]]
  /\ audit' = Append(audit, Log("delete", voucher[id].number))
  /\ UNCHANGED <<nextId, sequence, active>>

\* Voucher.reverses is PROTECT: with a reversal in the table the bulk delete
\* raises and the whole reset is rolled back.
DataReset ==
  /\ Cardinality({i \in DOMAIN audit : audit[i].action = "reset"}) < MaxResets
  /\ \A id \in Rows : voucher[id].reverses = 0
  /\ voucher' = [i \in {} |-> None]
  /\ position' = [c \in Foreign |-> EmptyPosition]
  /\ sequence' = 0
  /\ audit' = Append(audit, Log("reset", 0))
  /\ UNCHANGED <<nextId, active>>

\* The is_active checkbox of the party form.
ToggleActive(p) ==
  /\ IF p \in active
     THEN /\ Cardinality(Parties \ active) < MaxInactive
          /\ active' = active \ {p}
     ELSE active' = active \cup {p}
  /\ UNCHANGED <<voucher, nextId, sequence, position, audit>>

-----------------------------------------------------------------------------
Init ==
  /\ voucher = [i \in {} |-> None]
  /\ nextId = 1
  /\ sequence = 0
  /\ position = [c \in Foreign |-> EmptyPosition]
  /\ active = Parties
  /\ audit = << >>

\* The deal form offers what the operation accepts.
PostSomeDeal ==
  \E side \in Sides, p \in Customers, c \in Foreign, q \in Quantities, price \in Prices :
    \E settle \in HouseAccounts(Base) \cup {None}, delivery \in HouseAccounts(c) \cup {None} :
      PostDeal(side, p, c, q, price, settle, delivery)

\* A document between two parties, of whatever kind the two admit.
PostBetween(p, q, c, amount) ==
  \/ PostCashMovement("receive", p, q, c, amount)
  \/ PostCashMovement("pay", p, q, c, amount)
  \/ PostTransfer(p, q, c, amount)
  \/ PostPartyTransfer(p, q, c, amount)
  \/ PostExpense(p, q, c, amount)
  \/ PostIncome(p, q, c, amount)

PostOpening(p, c, amount) ==
  \/ EnterOpeningBalance(p, c, amount)
  \/ ImportOpeningBalance(p, c, amount)

Next ==
  \/ PostSomeDeal
  \/ \E p, q \in Parties, c \in Currencies, a \in Amounts : PostBetween(p, q, c, a)
  \/ \E p \in Parties, c \in Currencies, a \in OpeningAmounts : PostOpening(p, c, a)
  \/ \E id \in Rows : VoidVoucher(id)
  \/ \E id \in Rows : DeleteVoucher(id)
  \/ DataReset
  \/ \E p \in Parties : ToggleActive(p)

Spec == Init /\ [][Next]_vars

-----------------------------------------------------------------------------
(* What must hold *)

\* Every row of every table has its type, and primary keys come from nextId.
TypeOK ==
  /\ nextId \in Nat \ {0}
  /\ sequence \in Nat
  /\ Rows \subseteq 1..(nextId - 1)
  /\ voucher \in [Rows -> Row]
  /\ \A id \in Rows : Len(voucher[id].lines) <= MaxLines
  /\ position \in [Foreign -> Position]
  /\ active \subseteq Parties
  /\ audit \in Seq(AuditRow)

\* Two documents never carry the same number, and none carries a number the
\* counter has not issued: across postings, voids, deletions and resets.
NumbersUnique ==
  \A i \in Rows :
    /\ voucher[i].number \in 1..sequence
    /\ \A j \in Rows : voucher[j].number = voucher[i].number => i = j

\* r cancels id: a later adjusting document with every amount of id negated.
Cancels(r, id) ==
  /\ id \in Rows
  /\ voucher[r].number > voucher[id].number
  /\ voucher[r].kind = "adjust"
  /\ voucher[r].deal = None
  /\ voucher[r].lines = Negated(voucher[id].lines)

\* A document is void exactly when one document, and only one, reverses it,
\* and that one undoes it line by line.  void_voucher writes both halves;
\* delete_voucher and data_reset must not take one half away.
VoidIffReversed ==
  /\ \A id \in Rows : voucher[id].status = "void" <=> HasReversal(id)
  /\ \A r \in Rows : voucher[r].reverses # 0 => Cancels(r, voucher[r].reverses)
  /\ \A r, s \in Rows :
       voucher[r].reverses # 0 /\ voucher[r].reverses = voucher[s].reverses => r = s

\* The unique key: an import that runs again never posts the same opening
\* balance twice, also when the first one was voided in between.
KeysUnique ==
  \A i, j \in Rows :
    voucher[i].key # None /\ voucher[i].key = voucher[j].key => i = j
=============================================================================
