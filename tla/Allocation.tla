------------------------------ MODULE Allocation ------------------------------
(***************************************************************************)
(* Settlements and deliveries: parts of a receipt, payment or customer     *)
(* transfer are allocated to what a deal left open on its customer's       *)
(* account, while the same documents may be voided or deleted by others.   *)
(*                                                                         *)
(* InvoiceSettlement and InvoiceDelivery are one relation here: a deal has *)
(* an obligation in the base currency, one in its own currency, or both,   *)
(* each on its own account; a leg settled at once leaves none.  The        *)
(* documents are all posted at the start; a request locks their Voucher    *)
(* rows, looks, and writes in one transaction (READ COMMITTED).            *)
(***************************************************************************)
EXTENDS Integers, FiniteSets, Functions

CONSTANTS
  Workers,      \* threads of the web server
  Deals,        \* documents of deals
  Payments,     \* receipts, payments and transfers between customers
  Accounts,     \* a customer and a currency
  Obligations,  \* open legs of the deals: [deal, account, owed]
  Effect,       \* what a payment does to an account, signed
  Amounts,      \* amounts entered in the form
  MaxRequests   \* bound: requests begun

Documents == Deals \cup Payments

Obligation == [deal : Deals, account : Accounts, owed : Int \ {0}]

ASSUME AllocationAssumption ==
  /\ Deals \cap Payments = {}
  /\ Obligations \subseteq Obligation
  /\ \A o, q \in Obligations : o.deal = q.deal /\ o.account = q.account => o = q
  /\ Effect \in [Payments -> [Accounts -> Int]]
  /\ Amounts \subseteq Nat \ {0}
  /\ MaxRequests \in Nat

VARIABLES
  status,       \* of the documents; a deleted one has no row
  allocations,  \* the committed rows
  request,      \* what each worker is doing
  begun         \* requests begun

vars == <<status, allocations, request, begun>>

Allocated == [to : Obligations, payment : Payments, amount : Amounts]

Request ==
  [step : {"lock", "decide", "commit"},
   action : {"allocate", "void", "delete"},
   target : Documents \cup Allocated]

Idle == [step |-> "idle"]

-----------------------------------------------------------------------------
(* What the forms compute *)

Abs(n) == IF n < 0 THEN -n ELSE n

TotalOf(rows) == SumFunctionOnSet([a \in rows |-> a.amount], rows)

\* Deal.settled_amount and Deal.delivered_quantity; a voided payment counts no more.
Settled(o) == TotalOf({a \in allocations : a.to = o /\ status[a.payment] = "final"})

\* What of payment is taken on an account, by deals that were not voided.
Used(payment, account) ==
  TotalOf({a \in allocations : /\ a.payment = payment
                               /\ a.to.account = account
                               /\ status[a.to.deal] = "final"})

\* The payment moves the account against what is open there.
Offsets(payment, o) == Effect[payment][o.account] * o.owed < 0

\* SettlementForm and DeliveryForm.
Allocatable(a) ==
  /\ status[a.to.deal] = "final"
  /\ status[a.payment] = "final"
  /\ Offsets(a.payment, a.to)
  /\ \A b \in allocations : ~(b.to = a.to /\ b.payment = a.payment)
  /\ a.amount <= Abs(a.to.owed) - Settled(a.to)
  /\ a.amount <= Abs(Effect[a.payment][a.to.account]) - Used(a.payment, a.to.account)

\* Variant for mutation: the rows that refer to a document are not looked at.
DeletableUnprotected(doc) == status[doc] = "final"

\* delete_voucher; payment is PROTECT in both tables, deal is CASCADE.
Deletable(doc) ==
  /\ status[doc] = "final"
  /\ \A a \in allocations : a.payment # doc

Allowed(r) ==
  CASE r.action = "allocate" -> Allocatable(r.target)
    [] r.action = "void"     -> status[r.target] = "final"
    [] r.action = "delete"   -> Deletable(r.target)

-----------------------------------------------------------------------------
(* Requests *)

Begin(w, action, target) ==
  /\ request[w] = Idle
  /\ begun < MaxRequests
  /\ begun' = begun + 1
  /\ request' = [request EXCEPT ![w] =
                   [step |-> "lock", action |-> action, target |-> target]]
  /\ UNCHANGED <<status, allocations>>

BeginAllocation(w, a) ==
  /\ status[a.to.deal] # "deleted"
  /\ Begin(w, "allocate", a)

BeginCorrection(w, action, doc) ==
  /\ status[doc] # "deleted"
  /\ Begin(w, action, doc)

\* Variants for mutation: only the invoice, or only the payment, is locked.
LocksInvoiceOnly(r) == IF r.action = "allocate" THEN {r.target.to.deal} ELSE {r.target}

LocksPaymentOnly(r) == IF r.action = "allocate" THEN {r.target.payment} ELSE {r.target}

\* deal_settlement_add locks the invoice and the payment it is about to share.
Locks(r) ==
  IF r.action = "allocate" THEN {r.target.to.deal, r.target.payment} ELSE {r.target}

Held(w) == IF request[w].step \in {"decide", "commit"} THEN Locks(request[w]) ELSE {}

Lock(w) ==
  /\ request[w].step = "lock"
  /\ \A v \in Workers \ {w} : Held(v) \cap Locks(request[w]) = {}
  /\ request' = [request EXCEPT ![w].step = "decide"]
  /\ UNCHANGED <<status, allocations, begun>>

Decide(w) ==
  /\ request[w].step = "decide"
  /\ request' = [request EXCEPT ![w] =
                   IF Allowed(@) THEN [@ EXCEPT !.step = "commit"] ELSE Idle]
  /\ UNCHANGED <<status, allocations, begun>>

\* Variant for mutation: a void puts the document back to draft.
StatusAfterReopened(r) ==
  CASE r.action = "allocate" -> status
    [] r.action = "void"     -> [status EXCEPT ![r.target] = "draft"]
    [] r.action = "delete"   -> [status EXCEPT ![r.target] = "deleted"]

StatusAfter(r) ==
  CASE r.action = "allocate" -> status
    [] r.action = "void"     -> [status EXCEPT ![r.target] = "void"]
    [] r.action = "delete"   -> [status EXCEPT ![r.target] = "deleted"]

\* The rows of a deleted deal go with it; a void leaves them.
AllocationsAfter(r) ==
  CASE r.action = "allocate" -> allocations \cup {r.target}
    [] r.action = "void"     -> allocations
    [] r.action = "delete"   -> {a \in allocations : a.to.deal # r.target}

Commit(w) ==
  /\ request[w].step = "commit"
  /\ status' = StatusAfter(request[w])
  /\ allocations' = AllocationsAfter(request[w])
  /\ request' = [request EXCEPT ![w] = Idle]
  /\ UNCHANGED begun

\* The process or the connection dies; the database rolls back.
Crash(w) ==
  /\ request[w].step \in {"decide", "commit"}
  /\ request' = [request EXCEPT ![w] = Idle]
  /\ UNCHANGED <<status, allocations, begun>>

Init ==
  /\ status = [doc \in Documents |-> "final"]
  /\ allocations = {}
  /\ request = [w \in Workers |-> Idle]
  /\ begun = 0

Next ==
  \E w \in Workers :
    \/ \E a \in Allocated : BeginAllocation(w, a)
    \/ \E action \in {"void", "delete"}, doc \in Documents : BeginCorrection(w, action, doc)
    \/ Lock(w)
    \/ Decide(w)
    \/ Commit(w)
    \/ Crash(w)

Spec == Init /\ [][Next]_vars

-----------------------------------------------------------------------------
(* What must hold *)

TypeOK ==
  /\ status \in [Documents -> {"final", "void", "deleted"}]
  /\ allocations \subseteq Allocated
  /\ request \in [Workers -> Request \cup {Idle}]
  /\ begun \in 0..MaxRequests

\* No leg of an invoice is settled or delivered beyond what is open on it, whoever
\* allocates, voids and deletes payments at the same time.
InvoiceNotExceeded ==
  \A o \in Obligations : status[o.deal] # "deleted" => Settled(o) <= Abs(o.owed)

\* No payment is spent twice: what standing invoices take of it stays within its
\* amount on the customer's account, each customer of a transfer counted alone.
PaymentNotExceeded ==
  \A p \in Payments, c \in Accounts :
    status[p] # "deleted" => Used(p, c) <= Abs(Effect[p][c])

\* Every row refers to documents that exist and that offset each other, and an
\* invoice takes each payment once.
AllocationsStand ==
  \A a \in allocations :
    /\ status[a.to.deal] # "deleted"
    /\ status[a.payment] # "deleted"
    /\ Offsets(a.payment, a.to)
    /\ \A b \in allocations : b.to = a.to /\ b.payment = a.payment => a = b
=============================================================================
