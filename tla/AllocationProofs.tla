--------------------------- MODULE AllocationProofs ---------------------------
(***************************************************************************)
(* Proofs about Allocation, for any number of threads, documents and       *)
(* accounts.  What the forms compute is a sum over the committed rows; the *)
(* locks of a request keep what it computed true until it commits.         *)
(***************************************************************************)
EXTENDS Allocation, DataLemmas

WellFormed(r) ==
  \/ r = Idle
  \/ /\ r.step \in {"lock", "decide", "commit"}
     /\ \/ r.action = "allocate" /\ r.target \in Allocated
        \/ r.action \in {"void", "delete"} /\ r.target \in Documents

\* No document is locked by two requests.
LocksExclusive == \A v, w \in Workers : v # w => Held(v) \cap Held(w) = {}

\* What a request decided under its locks still holds when it commits.
DecisionsStand == \A w \in Workers : request[w].step = "commit" => Allowed(request[w])

\* The totals, of deleted invoices and payments too: nothing is left of those.
InvoiceTotals == \A o \in Obligations : Settled(o) <= Abs(o.owed)

PaymentTotals ==
  \A p \in Payments, c \in Accounts : Used(p, c) <= Abs(Effect[p][c])

IInv ==
  /\ TypeOK
  /\ IsFiniteSet(allocations)
  /\ \A w \in Workers : WellFormed(request[w])
  /\ LocksExclusive
  /\ DecisionsStand
  /\ InvoiceTotals
  /\ PaymentTotals
  /\ AllocationsStand

-----------------------------------------------------------------------------
(* Totals *)

LEMMA AmountPositive ==
  ASSUME NEW a \in Allocated
  PROVE  a.amount \in Nat \ {0}
<1>1. a.amount \in Amounts
  BY DEF Allocated
<1>2. QED
  BY <1>1, AllocationAssumption

LEMMA TotalInt ==
  ASSUME NEW rows \in SUBSET Allocated, IsFiniteSet(rows)
  PROVE  TotalOf(rows) \in Int
<1>1. \A a \in rows : a.amount \in Int
  BY AmountPositive
<1>2. QED
  BY <1>1, SumInt DEF TotalOf

\* Fewer rows, smaller total.
LEMMA TotalFewer ==
  ASSUME NEW rows \in SUBSET Allocated, IsFiniteSet(rows), NEW some \in SUBSET rows
  PROVE  TotalOf(some) <= TotalOf(rows)
<1> DEFINE f == [a \in rows |-> a.amount]
           g == [a \in some |-> a.amount]
<1>1. \A a \in rows : f[a] \in Nat
  BY AmountPositive
<1>2. IsFiniteSet(some)
  BY FS_Subset
<1>3. \A a \in some : g[a] = f[a]
  OBVIOUS
<1> HIDE DEF f, g
<1>4. SumFunctionOnSet(g, some) = SumFunctionOnSet(f, some)
  BY <1>2, <1>3, SumEqual
<1>5. SumFunctionOnSet(f, some) <= SumFunctionOnSet(f, rows)
  BY <1>1, SumMonotone
<1>6. QED
  BY <1>4, <1>5 DEF TotalOf, f, g

\* One more row adds its amount.
LEMMA TotalOneMore ==
  ASSUME NEW rows \in SUBSET Allocated, IsFiniteSet(rows),
         NEW a \in Allocated, a \notin rows
  PROVE  TotalOf(rows \cup {a}) = TotalOf(rows) + a.amount
<1> DEFINE f == [b \in rows \cup {a} |-> b.amount]
           g == [b \in rows |-> b.amount]
<1>1. \A b \in rows \cup {a} : f[b] \in Int
  BY AmountPositive
<1>2. \A b \in rows : f[b] = g[b]
  OBVIOUS
<1>3. f[a] = a.amount
  OBVIOUS
<1> HIDE DEF f, g
<1>4. SumFunctionOnSet(f, rows \cup {a}) = SumFunctionOnSet(f, rows) + f[a]
  BY <1>1, SumAdd
<1>5. SumFunctionOnSet(f, rows) = SumFunctionOnSet(g, rows)
  BY <1>2, SumEqual
<1>6. QED
  BY <1>3, <1>4, <1>5 DEF TotalOf, f, g

LEMMA TotalNone == TotalOf({}) = 0
BY SumEmpty DEF TotalOf

\* Every document and account a row names is one of the constants'.
LEMMA RowType ==
  ASSUME NEW a \in Allocated
  PROVE  /\ a.to \in Obligations /\ a.to.deal \in Deals /\ a.to.account \in Accounts
         /\ a.payment \in Payments
         /\ a.to.owed \in Int /\ Abs(a.to.owed) \in Nat
         /\ Abs(Effect[a.payment][a.to.account]) \in Nat
<1>1. a.to \in Obligations /\ a.payment \in Payments
  BY DEF Allocated
<1>2. a.to \in Obligation
  BY <1>1, AllocationAssumption
<1>3. a.to.deal \in Deals /\ a.to.account \in Accounts /\ a.to.owed \in Int
  BY <1>2 DEF Obligation
<1>4. Effect[a.payment][a.to.account] \in Int
  BY <1>1, <1>3, AllocationAssumption
<1>5. QED
  BY <1>1, <1>3, <1>4 DEF Abs

LEMMA TotalsInt ==
  ASSUME TypeOK, IsFiniteSet(allocations)
  PROVE  /\ \A o \in Obligations : Settled(o) \in Int
         /\ \A p \in Payments, c \in Accounts : Used(p, c) \in Int
<1>1. \A rows \in SUBSET allocations : TotalOf(rows) \in Int
  BY TotalInt, FS_Subset DEF TypeOK
<1>2. QED
  BY <1>1 DEF Settled, Used

-----------------------------------------------------------------------------
(* What a commit of another request changes *)

LEMMA TablesKept ==
  ASSUME UNCHANGED <<status, allocations>>
  PROVE  /\ \A o : Settled(o)' = Settled(o)
         /\ \A p, c : Used(p, c)' = Used(p, c)
         /\ \A r : Allowed(r)' = Allowed(r)
         /\ InvoiceTotals' = InvoiceTotals
         /\ PaymentTotals' = PaymentTotals
         /\ AllocationsStand' = AllocationsStand
BY DEF Settled, Used, Allowed, Allocatable, Deletable, InvoiceTotals, PaymentTotals,
       AllocationsStand, Offsets

\* Rows that go and documents that are corrected lower the totals.
LEMMA TotalsShrink ==
  ASSUME TypeOK, IsFiniteSet(allocations), allocations' \subseteq allocations,
         \A doc \in Documents : status'[doc] = "final" => status[doc] = "final"
  PROVE  /\ \A o \in Obligations : Settled(o)' \in Int /\ Settled(o)' <= Settled(o)
         /\ \A p \in Payments, c \in Accounts :
              Used(p, c)' \in Int /\ Used(p, c)' <= Used(p, c)
<1>1. allocations \subseteq Allocated
  BY DEF TypeOK
<1>2. \A a \in allocations : a.payment \in Documents /\ a.to.deal \in Documents
  BY <1>1, RowType DEF Documents
<1>3. ASSUME NEW rows \in SUBSET allocations, NEW some \in SUBSET rows
      PROVE  TotalOf(some) \in Int /\ TotalOf(some) <= TotalOf(rows)
  <2>1. IsFiniteSet(rows) /\ IsFiniteSet(some)
    BY <1>3, FS_Subset
  <2>2. QED
    BY <1>1, <1>3, <2>1, TotalInt, TotalFewer
<1>4. ASSUME NEW o \in Obligations
      PROVE  Settled(o)' \in Int /\ Settled(o)' <= Settled(o)
  <2> DEFINE rows == {a \in allocations : a.to = o /\ status[a.payment] = "final"}
             some == {a \in allocations' : a.to = o /\ status'[a.payment] = "final"}
  <2>1. some \subseteq rows /\ rows \subseteq allocations
    BY <1>2
  <2>2. Settled(o) = TotalOf(rows) /\ Settled(o)' = TotalOf(some)
    BY DEF Settled, TotalOf
  <2> HIDE DEF rows, some
  <2>3. QED
    BY <1>3, <2>1, <2>2
<1>5. ASSUME NEW p \in Payments, NEW c \in Accounts
      PROVE  Used(p, c)' \in Int /\ Used(p, c)' <= Used(p, c)
  <2> DEFINE rows == {a \in allocations : /\ a.payment = p
                                          /\ a.to.account = c
                                          /\ status[a.to.deal] = "final"}
             some == {a \in allocations' : /\ a.payment = p
                                           /\ a.to.account = c
                                           /\ status'[a.to.deal] = "final"}
  <2>1. some \subseteq rows /\ rows \subseteq allocations
    BY <1>2
  <2>2. Used(p, c) = TotalOf(rows) /\ Used(p, c)' = TotalOf(some)
    BY DEF Used, TotalOf
  <2> HIDE DEF rows, some
  <2>3. QED
    BY <1>3, <2>1, <2>2
<1>6. QED
  BY <1>4, <1>5

\* A new row adds to one invoice and to one payment on one account.
LEMMA TotalsGrow ==
  ASSUME TypeOK, IsFiniteSet(allocations), NEW a \in Allocated, a \notin allocations,
         status' = status, allocations' = allocations \cup {a},
         status[a.to.deal] = "final", status[a.payment] = "final"
  PROVE  /\ \A o \in Obligations :
              Settled(o)' = IF o = a.to THEN Settled(o) + a.amount ELSE Settled(o)
         /\ \A p \in Payments, c \in Accounts :
              Used(p, c)' = IF p = a.payment /\ c = a.to.account
                            THEN Used(p, c) + a.amount ELSE Used(p, c)
<1>1. \A rows \in SUBSET allocations : TotalOf(rows \cup {a}) = TotalOf(rows) + a.amount
  BY TotalOneMore, FS_Subset DEF TypeOK
<1>2. ASSUME NEW o \in Obligations
      PROVE  Settled(o)' = IF o = a.to THEN Settled(o) + a.amount ELSE Settled(o)
  <2> DEFINE rows == {b \in allocations : b.to = o /\ status[b.payment] = "final"}
             more == {b \in allocations \cup {a} : b.to = o /\ status[b.payment] = "final"}
  <2>1. Settled(o) = TotalOf(rows) /\ Settled(o)' = TotalOf(more)
    BY DEF Settled, TotalOf
  <2>2. more = IF o = a.to THEN rows \cup {a} ELSE rows
    OBVIOUS
  <2>3. rows \in SUBSET allocations
    OBVIOUS
  <2> HIDE DEF rows, more
  <2>4. QED
    BY <1>1, <2>1, <2>2, <2>3
<1>3. ASSUME NEW p \in Payments, NEW c \in Accounts
      PROVE  Used(p, c)' = IF p = a.payment /\ c = a.to.account
                           THEN Used(p, c) + a.amount ELSE Used(p, c)
  <2> DEFINE rows == {b \in allocations : /\ b.payment = p
                                          /\ b.to.account = c
                                          /\ status[b.to.deal] = "final"}
             more == {b \in allocations \cup {a} : /\ b.payment = p
                                                   /\ b.to.account = c
                                                   /\ status[b.to.deal] = "final"}
  <2>1. Used(p, c) = TotalOf(rows) /\ Used(p, c)' = TotalOf(more)
    BY DEF Used, TotalOf
  <2>2. more = IF p = a.payment /\ c = a.to.account THEN rows \cup {a} ELSE rows
    OBVIOUS
  <2>3. rows \in SUBSET allocations
    OBVIOUS
  <2> HIDE DEF rows, more
  <2>4. QED
    BY <1>1, <2>1, <2>2, <2>3
<1>4. QED
  BY <1>2, <1>3

-----------------------------------------------------------------------------
(* Requests by what they are *)

LEMMA AllowedIs ==
  ASSUME NEW r
  PROVE  /\ r.action = "allocate" => (Allowed(r) <=> Allocatable(r.target))
         /\ r.action = "void" => (Allowed(r) <=> status[r.target] = "final")
         /\ r.action = "delete" => (Allowed(r) <=> Deletable(r.target))
BY Zenon DEF Allowed

LEMMA LocksAre ==
  ASSUME NEW r, WellFormed(r), r # Idle
  PROVE  /\ Locks(r) \subseteq Documents
         /\ r.action = "allocate" => /\ r.target \in Allocated
                                     /\ Locks(r) = {r.target.to.deal, r.target.payment}
         /\ r.action \in {"void", "delete"} => /\ r.target \in Documents
                                               /\ Locks(r) = {r.target}
BY RowType DEF WellFormed, Locks, Documents

\* What is allowed depends on the locked documents and on totals that may only fall,
\* and a row that would stand in its way needs a lock of its own.
LEMMA AllowedStaysAllowed ==
  ASSUME NEW r, WellFormed(r), r # Idle, Allowed(r),
         \A doc \in Locks(r) : status'[doc] = status[doc],
         \A a \in allocations' \ allocations :
            a.to.deal \notin Locks(r) /\ a.payment \notin Locks(r),
         r.action = "allocate" =>
            /\ Settled(r.target.to) \in Int /\ Settled(r.target.to)' \in Int
            /\ Settled(r.target.to)' <= Settled(r.target.to)
            /\ LET used == Used(r.target.payment, r.target.to.account)
               IN  used \in Int /\ used' \in Int /\ used' <= used
  PROVE  Allowed(r)'
<1>1. CASE r.action = "allocate"
  <2> DEFINE a == r.target
  <2>1. a \in Allocated /\ Locks(r) = {a.to.deal, a.payment}
    BY <1>1, LocksAre
  <2>2. Allocatable(a)
    BY <1>1, AllowedIs
  <2>3. Abs(a.to.owed) \in Nat /\ Abs(Effect[a.payment][a.to.account]) \in Nat
    BY <2>1, RowType
  <2>4. a.amount \in Nat
    BY <2>1, AmountPositive
  <2>5. /\ Settled(a.to) \in Int /\ Settled(a.to)' \in Int /\ Settled(a.to)' <= Settled(a.to)
        /\ Used(a.payment, a.to.account) \in Int /\ Used(a.payment, a.to.account)' \in Int
        /\ Used(a.payment, a.to.account)' <= Used(a.payment, a.to.account)
    BY <1>1
  <2> HIDE DEF a
  <2>6. /\ a.amount <= Abs(a.to.owed) - Settled(a.to)'
        /\ a.amount <= Abs(Effect[a.payment][a.to.account]) - Used(a.payment, a.to.account)'
    BY <2>2, <2>3, <2>4, <2>5 DEF Allocatable
  <2>7. \A b \in allocations' : ~(b.to = a.to /\ b.payment = a.payment)
    BY <2>1, <2>2 DEF Allocatable
  <2>8. Allocatable(a)'
    BY <2>1, <2>2, <2>6, <2>7 DEF Allocatable, Offsets
  <2>9. QED
    BY <1>1, <2>8, Zenon DEF Allowed, a
<1>2. CASE r.action = "void"
  <2>1. status[r.target] = "final" /\ r.target \in Locks(r)
    BY <1>2, AllowedIs, LocksAre
  <2>2. status'[r.target] = "final"
    BY <2>1
  <2>3. QED
    BY <1>2, <2>2, Zenon DEF Allowed
<1>3. CASE r.action = "delete"
  <2>1. Deletable(r.target) /\ r.target \in Locks(r)
    BY <1>3, AllowedIs, LocksAre
  <2>2. Deletable(r.target)'
    BY <2>1 DEF Deletable
  <2>3. QED
    BY <1>3, <2>2, Zenon DEF Allowed
<1>4. QED
  BY <1>1, <1>2, <1>3 DEF WellFormed

-----------------------------------------------------------------------------
(* Each action keeps the invariant *)

LEMMA InitIInv == Init => IInv
<1> SUFFICES ASSUME Init PROVE IInv
  OBVIOUS
<1>1. TypeOK
  BY AllocationAssumption DEF Init, TypeOK
<1>2. IsFiniteSet(allocations)
  BY FS_EmptySet DEF Init
<1>3. /\ \A w \in Workers : WellFormed(request[w]) /\ Held(w) = {}
      /\ DecisionsStand
  BY DEF Init, WellFormed, Held, Idle, DecisionsStand
<1>4. /\ \A o : Settled(o) = 0
      /\ \A p, c : Used(p, c) = 0
  <2>1. \A o : {a \in allocations : a.to = o /\ status[a.payment] = "final"} = {}
    BY DEF Init
  <2>2. \A p, c : {a \in allocations : /\ a.payment = p /\ a.to.account = c
                                       /\ status[a.to.deal] = "final"} = {}
    BY DEF Init
  <2>3. QED
    BY <2>1, <2>2, TotalNone DEF Settled, Used
<1>5. \A o \in Obligations : Abs(o.owed) \in Nat
  BY AllocationAssumption DEF Obligation, Abs
<1>6. \A p \in Payments, c \in Accounts : Abs(Effect[p][c]) \in Nat
  BY AllocationAssumption DEF Abs
<1>7. InvoiceTotals /\ PaymentTotals
  BY <1>4, <1>5, <1>6 DEF InvoiceTotals, PaymentTotals
<1>8. AllocationsStand
  BY DEF Init, AllocationsStand
<1>9. QED
  BY <1>1, <1>2, <1>3, <1>7, <1>8 DEF IInv, LocksExclusive

\* A step that leaves the tables alone has to keep only what is about requests.
LEMMA RequestStep ==
  ASSUME IInv, UNCHANGED <<status, allocations>>, NEW w \in Workers, NEW r,
         request' = [request EXCEPT ![w] = r],
         begun' \in 0..MaxRequests,
         r \in Request \cup {Idle}, WellFormed(r),
         r.step = "commit" => Allowed(r),
         r.step \in {"decide", "commit"} =>
            \A v \in Workers \ {w} : Held(v) \cap Locks(r) = {}
  PROVE  IInv'
<1>1. TypeOK'
  BY DEF IInv, TypeOK
<1>2. IsFiniteSet(allocations)'
  BY DEF IInv
<1>3. \A v \in Workers : request'[v] = IF v = w THEN r ELSE request[v]
  BY DEF IInv, TypeOK
<1>4. (\A v \in Workers : WellFormed(request[v]))'
  BY <1>3 DEF IInv
<1>5. \A v \in Workers : Held(v)' = IF v = w
                                    THEN IF r.step \in {"decide", "commit"} THEN Locks(r) ELSE {}
                                    ELSE Held(v)
  BY <1>3 DEF Held, Locks
<1>6. LocksExclusive'
  BY <1>5 DEF IInv, LocksExclusive
<1>7. DecisionsStand'
  BY <1>3, TablesKept DEF IInv, DecisionsStand
<1>8. InvoiceTotals' /\ PaymentTotals' /\ AllocationsStand'
  BY TablesKept DEF IInv
<1>9. QED
  BY <1>1, <1>2, <1>4, <1>6, <1>7, <1>8 DEF IInv

LEMMA BeginKeepsIInv ==
  ASSUME IInv, NEW w \in Workers, NEW action, NEW target, Begin(w, action, target),
         WellFormed([step |-> "lock", action |-> action, target |-> target])
  PROVE  IInv'
<1> DEFINE r == [step |-> "lock", action |-> action, target |-> target]
<1>1. UNCHANGED <<status, allocations>> /\ request' = [request EXCEPT ![w] = r]
  BY DEF Begin
<1>2. begun' \in 0..MaxRequests
  BY AllocationAssumption DEF Begin, IInv, TypeOK
<1>3. r \in Request \cup {Idle} /\ r.step = "lock"
  BY DEF WellFormed, Request, Idle
<1> HIDE DEF r
<1>4. QED
  BY <1>1, <1>2, <1>3, RequestStep DEF r

LEMMA LockKeepsIInv ==
  ASSUME IInv, NEW w \in Workers, Lock(w)
  PROVE  IInv'
<1> DEFINE r == [request[w] EXCEPT !.step = "decide"]
<1>1. request[w] \in Request /\ WellFormed(request[w]) /\ request[w].step = "lock"
  BY DEF Lock, IInv, TypeOK, Idle
<1>2. /\ r \in Request /\ WellFormed(r) /\ r.step = "decide"
      /\ r.action = request[w].action /\ r.target = request[w].target
  BY <1>1 DEF Request, WellFormed, Idle
<1>3. Locks(r) = Locks(request[w])
  BY <1>2 DEF Locks
<1>4. UNCHANGED <<status, allocations>> /\ request' = [request EXCEPT ![w] = r]
  BY DEF Lock
<1>5. \A v \in Workers \ {w} : Held(v) \cap Locks(r) = {}
  BY <1>3 DEF Lock
<1>6. begun' \in 0..MaxRequests
  BY DEF Lock, IInv, TypeOK
<1> HIDE DEF r
<1>7. QED
  BY <1>2, <1>4, <1>5, <1>6, RequestStep

LEMMA DecideKeepsIInv ==
  ASSUME IInv, NEW w \in Workers, Decide(w)
  PROVE  IInv'
<1> DEFINE r == [request[w] EXCEPT !.step = "commit"]
           next == IF Allowed(request[w]) THEN r ELSE Idle
<1>1. request[w] \in Request /\ WellFormed(request[w]) /\ request[w].step = "decide"
  BY DEF Decide, IInv, TypeOK, Idle
<1>2. /\ r \in Request /\ WellFormed(r) /\ r.step = "commit"
      /\ r.action = request[w].action /\ r.target = request[w].target
  BY <1>1 DEF Request, WellFormed, Idle
<1>3. Locks(r) = Locks(request[w])
  BY <1>2 DEF Locks
<1>4. Allowed(request[w]) => Allowed(r)
  BY <1>2, Zenon DEF Allowed
<1>5. UNCHANGED <<status, allocations>> /\ request' = [request EXCEPT ![w] = next]
  BY DEF Decide, TypeOK, IInv
<1>6. \A v \in Workers \ {w} : Held(v) \cap Locks(r) = {}
  BY <1>1, <1>3 DEF IInv, LocksExclusive, Held
<1>7. begun' \in 0..MaxRequests
  BY DEF Decide, IInv, TypeOK
<1>8. (next = r /\ Allowed(r)) \/ next = Idle
  BY <1>4
<1>9. WellFormed(Idle) /\ Idle.step = "idle"
  BY DEF WellFormed, Idle
<1> HIDE DEF r, next
<1>10. QED
  BY <1>2, <1>5, <1>6, <1>7, <1>8, <1>9, RequestStep

LEMMA CrashKeepsIInv ==
  ASSUME IInv, NEW w \in Workers, Crash(w)
  PROVE  IInv'
<1>1. WellFormed(Idle) /\ Idle.step = "idle"
  BY DEF WellFormed, Idle
<1>2. UNCHANGED <<status, allocations>> /\ request' = [request EXCEPT ![w] = Idle]
  BY DEF Crash
<1>3. begun' \in 0..MaxRequests
  BY DEF Crash, IInv, TypeOK
<1>4. QED
  BY <1>1, <1>2, <1>3, RequestStep

-----------------------------------------------------------------------------
(* Commits *)

\* What a commit does to everything but the tables.
LEMMA CommitRequests ==
  ASSUME IInv, NEW w \in Workers, Commit(w)
  PROVE  /\ request[w] # Idle /\ WellFormed(request[w]) /\ Allowed(request[w])
         /\ request' \in [Workers -> Request \cup {Idle}]
         /\ begun' \in 0..MaxRequests
         /\ (\A v \in Workers : WellFormed(request[v]))'
         /\ LocksExclusive'
         /\ \A v \in Workers :
              (request[v].step = "commit")' =>
                 /\ v # w /\ request'[v] = request[v] /\ request[v].step = "commit"
                 /\ request[v] # Idle /\ WellFormed(request[v]) /\ Allowed(request[v])
                 /\ Locks(request[v]) \cap Locks(request[w]) = {}
<1>1. request \in [Workers -> Request \cup {Idle}]
  BY DEF IInv, TypeOK
<1>2. request' = [request EXCEPT ![w] = Idle] /\ request[w].step = "commit"
  BY DEF Commit
<1>3. Idle.step = "idle" /\ WellFormed(Idle)
  BY DEF Idle, WellFormed
<1>4. request[w] # Idle /\ WellFormed(request[w]) /\ Allowed(request[w])
  BY <1>2, <1>3 DEF IInv, DecisionsStand
<1>5. \A v \in Workers : request'[v] = IF v = w THEN Idle ELSE request[v]
  BY <1>1, <1>2
<1>6. (\A v \in Workers : WellFormed(request[v]))'
  BY <1>3, <1>5 DEF IInv
<1>7. \A v \in Workers : Held(v)' = IF v = w THEN {} ELSE Held(v)
  BY <1>3, <1>5 DEF Held, Locks
<1>8. LocksExclusive'
  BY <1>7 DEF IInv, LocksExclusive
<1>9. ASSUME NEW v \in Workers, (request[v].step = "commit")'
      PROVE  /\ v # w /\ request'[v] = request[v] /\ request[v].step = "commit"
             /\ request[v] # Idle /\ WellFormed(request[v]) /\ Allowed(request[v])
             /\ Locks(request[v]) \cap Locks(request[w]) = {}
  <2>1. v # w /\ request'[v] = request[v] /\ request[v].step = "commit"
    BY <1>3, <1>5, <1>9
  <2>2. Held(v) = Locks(request[v]) /\ Held(w) = Locks(request[w])
    BY <1>2, <2>1 DEF Held
  <2>3. QED
    BY <1>3, <2>1, <2>2 DEF IInv, DecisionsStand, LocksExclusive
<1>10. begun' \in 0..MaxRequests
  BY DEF Commit, IInv, TypeOK
<1>11. request' \in [Workers -> Request \cup {Idle}]
  BY <1>1, <1>2
<1>12. QED
  BY <1>4, <1>6, <1>8, <1>9, <1>10, <1>11

LEMMA AllocateCommits ==
  ASSUME IInv, NEW w \in Workers, Commit(w), request[w].action = "allocate"
  PROVE  IInv'
<1> DEFINE a == request[w].target
<1>1. a \in Allocated /\ Locks(request[w]) = {a.to.deal, a.payment} /\ Allocatable(a)
  BY CommitRequests, LocksAre, AllowedIs
<1>2. status' = status /\ allocations' = allocations \cup {a}
  <2>1. StatusAfter(request[w]) = status
    BY Zenon DEF StatusAfter
  <2>2. AllocationsAfter(request[w]) = allocations \cup {a}
    BY Zenon DEF AllocationsAfter
  <2>3. QED
    BY <2>1, <2>2 DEF Commit
<1> HIDE DEF a
<1>3. TypeOK /\ IsFiniteSet(allocations) /\ allocations \subseteq Allocated
  BY DEF IInv, TypeOK
<1>4. a \notin allocations /\ status[a.to.deal] = "final" /\ status[a.payment] = "final"
  BY <1>1 DEF Allocatable
<1>5. /\ \A o \in Obligations :
           Settled(o)' = IF o = a.to THEN Settled(o) + a.amount ELSE Settled(o)
      /\ \A p \in Payments, c \in Accounts :
           Used(p, c)' = IF p = a.payment /\ c = a.to.account
                         THEN Used(p, c) + a.amount ELSE Used(p, c)
  BY <1>1, <1>2, <1>3, <1>4, TotalsGrow
<1>6. /\ a.to \in Obligations /\ a.to.deal \in Deals /\ a.to.account \in Accounts
      /\ a.payment \in Payments
      /\ Abs(a.to.owed) \in Nat /\ Abs(Effect[a.payment][a.to.account]) \in Nat
      /\ a.amount \in Nat
  BY <1>1, RowType, AmountPositive
<1>7. /\ \A o \in Obligations : Settled(o) \in Int
      /\ \A p \in Payments, c \in Accounts : Used(p, c) \in Int
  BY <1>3, TotalsInt
<1>8. TypeOK'
  BY <1>1, <1>2, CommitRequests DEF IInv, TypeOK
<1>9. IsFiniteSet(allocations)'
  BY <1>2, <1>3, FS_AddElement
<1>10. InvoiceTotals'
  BY <1>1, <1>5, <1>6, <1>7 DEF IInv, InvoiceTotals, Allocatable
<1>11. PaymentTotals'
  BY <1>1, <1>5, <1>6, <1>7 DEF IInv, PaymentTotals, Allocatable
<1>12. AllocationsStand'
  BY <1>1, <1>2, <1>4 DEF IInv, AllocationsStand, Allocatable, Offsets
<1>13. DecisionsStand'
  <2> SUFFICES ASSUME NEW v \in Workers, (request[v].step = "commit")'
               PROVE  Allowed(request[v])'
    BY DEF DecisionsStand
  <2> PICK r : r = request[v]
    OBVIOUS
  <2>1. /\ request'[v] = r /\ WellFormed(r) /\ r # Idle /\ Allowed(r)
        /\ Locks(r) \cap Locks(request[w]) = {}
    BY CommitRequests
  <2>2. a.to.deal \notin Locks(r) /\ a.payment \notin Locks(r)
    BY <1>1, <2>1
  <2>3. ASSUME r.action = "allocate"
        PROVE  /\ Settled(r.target.to) \in Int
               /\ Settled(r.target.to)' = Settled(r.target.to)
               /\ Used(r.target.payment, r.target.to.account) \in Int
               /\ Used(r.target.payment, r.target.to.account)'
                    = Used(r.target.payment, r.target.to.account)
    <3>1. r.target \in Allocated /\ Locks(r) = {r.target.to.deal, r.target.payment}
      BY <2>1, <2>3, LocksAre
    <3>2. /\ r.target.to \in Obligations /\ r.target.payment \in Payments
          /\ r.target.to.account \in Accounts
      BY <3>1, RowType
    <3>3. r.target.to # a.to /\ r.target.payment # a.payment
      BY <2>2, <3>1
    <3>4. QED
      BY <1>5, <1>7, <3>2, <3>3
  <2>4. QED
    BY <1>2, <2>1, <2>2, <2>3, AllowedStaysAllowed
<1>14. QED
  BY <1>8, <1>9, <1>10, <1>11, <1>12, <1>13, CommitRequests DEF IInv

\* A commit that only removes: the other decisions stand and the totals fall.
LEMMA CorrectionCommits ==
  ASSUME IInv, NEW w \in Workers, Commit(w),
         status' \in [Documents -> {"final", "void", "deleted"}],
         allocations' \subseteq allocations,
         \A doc \in Documents : status'[doc] = "final" => status[doc] = "final",
         \A doc \in Documents \ Locks(request[w]) : status'[doc] = status[doc],
         AllocationsStand'
  PROVE  IInv'
<1>1. TypeOK /\ IsFiniteSet(allocations)
  BY DEF IInv
<1>2. /\ \A o \in Obligations : Settled(o)' \in Int /\ Settled(o)' <= Settled(o)
      /\ \A p \in Payments, c \in Accounts :
           Used(p, c)' \in Int /\ Used(p, c)' <= Used(p, c)
  BY <1>1, TotalsShrink
<1>3. /\ \A o \in Obligations : Settled(o) \in Int
      /\ \A p \in Payments, c \in Accounts : Used(p, c) \in Int
  BY <1>1, TotalsInt
<1>4. TypeOK'
  BY <1>1, CommitRequests DEF TypeOK
<1>5. IsFiniteSet(allocations)'
  BY <1>1, FS_Subset
<1>6. \A o \in Obligations : Abs(o.owed) \in Int
  BY AllocationAssumption DEF Obligation, Abs
<1>7. InvoiceTotals'
  BY <1>2, <1>3, <1>6 DEF IInv, InvoiceTotals
<1>8. \A p \in Payments, c \in Accounts : Abs(Effect[p][c]) \in Int
  BY AllocationAssumption DEF Abs
<1>9. PaymentTotals'
  BY <1>2, <1>3, <1>8 DEF IInv, PaymentTotals
<1>10. DecisionsStand'
  <2> SUFFICES ASSUME NEW v \in Workers, (request[v].step = "commit")'
               PROVE  Allowed(request[v])'
    BY DEF DecisionsStand
  <2> PICK r : r = request[v]
    OBVIOUS
  <2>1. /\ request'[v] = r /\ WellFormed(r) /\ r # Idle /\ Allowed(r)
        /\ Locks(r) \cap Locks(request[w]) = {}
    BY CommitRequests
  <2>2. \A doc \in Locks(r) : status'[doc] = status[doc]
    BY <2>1, LocksAre
  <2>3. ASSUME r.action = "allocate"
        PROVE  /\ r.target.to \in Obligations /\ r.target.payment \in Payments
               /\ r.target.to.account \in Accounts
    BY <2>1, <2>3, LocksAre, RowType
  <2>4. QED
    BY <1>2, <1>3, <2>1, <2>2, <2>3, AllowedStaysAllowed
<1>11. QED
  BY <1>4, <1>5, <1>7, <1>9, <1>10, CommitRequests DEF IInv

LEMMA VoidCommits ==
  ASSUME IInv, NEW w \in Workers, Commit(w), request[w].action = "void"
  PROVE  IInv'
<1> DEFINE doc == request[w].target
<1>1. doc \in Documents /\ Locks(request[w]) = {doc}
  BY CommitRequests, LocksAre
<1>2. status' = [status EXCEPT ![doc] = "void"] /\ allocations' = allocations
  <2>1. StatusAfter(request[w]) = [status EXCEPT ![doc] = "void"]
    BY Zenon DEF StatusAfter
  <2>2. AllocationsAfter(request[w]) = allocations
    BY Zenon DEF AllocationsAfter
  <2>3. QED
    BY <2>1, <2>2 DEF Commit
<1> HIDE DEF doc
<1>3. status \in [Documents -> {"final", "void", "deleted"}] /\ allocations \subseteq Allocated
  BY DEF IInv, TypeOK
<1>4. \A d \in Documents : status'[d] = IF d = doc THEN "void" ELSE status[d]
  BY <1>2, <1>3
<1>5. AllocationsStand'
  <2>1. \A a \in allocations : a.to.deal \in Documents /\ a.payment \in Documents
    BY <1>3, RowType DEF Documents
  <2>2. QED
    BY <1>2, <1>4, <2>1 DEF IInv, AllocationsStand, Offsets
<1>6. QED
  BY <1>1, <1>2, <1>3, <1>4, <1>5, CorrectionCommits

LEMMA DeleteCommits ==
  ASSUME IInv, NEW w \in Workers, Commit(w), request[w].action = "delete"
  PROVE  IInv'
<1> DEFINE doc == request[w].target
<1>1. doc \in Documents /\ Locks(request[w]) = {doc} /\ Deletable(doc)
  BY CommitRequests, LocksAre, AllowedIs
<1>2. /\ status' = [status EXCEPT ![doc] = "deleted"]
      /\ allocations' = {a \in allocations : a.to.deal # doc}
  <2>1. StatusAfter(request[w]) = [status EXCEPT ![doc] = "deleted"]
    BY Zenon DEF StatusAfter
  <2>2. AllocationsAfter(request[w]) = {a \in allocations : a.to.deal # doc}
    BY Zenon DEF AllocationsAfter
  <2>3. QED
    BY <2>1, <2>2 DEF Commit
<1> HIDE DEF doc
<1>3. status \in [Documents -> {"final", "void", "deleted"}] /\ allocations \subseteq Allocated
  BY DEF IInv, TypeOK
<1>4. \A d \in Documents : status'[d] = IF d = doc THEN "deleted" ELSE status[d]
  BY <1>2, <1>3
<1>5. AllocationsStand'
  <2>1. \A a \in allocations : a.to.deal \in Documents /\ a.payment \in Documents
    BY <1>3, RowType DEF Documents
  <2>2. \A a \in allocations' : a \in allocations /\ a.to.deal # doc /\ a.payment # doc
    BY <1>1, <1>2 DEF Deletable
  <2>3. QED
    BY <1>4, <2>1, <2>2 DEF IInv, AllocationsStand, Offsets
<1>6. QED
  BY <1>1, <1>2, <1>3, <1>4, <1>5, CorrectionCommits

LEMMA NextKeepsIInv == IInv /\ [Next]_vars => IInv'
<1> SUFFICES ASSUME IInv, [Next]_vars PROVE IInv'
  OBVIOUS
<1>1. ASSUME NEW w \in Workers, NEW a \in Allocated, BeginAllocation(w, a)
      PROVE  IInv'
  BY <1>1, BeginKeepsIInv DEF BeginAllocation, WellFormed
<1>2. ASSUME NEW w \in Workers, NEW action \in {"void", "delete"}, NEW doc \in Documents,
             BeginCorrection(w, action, doc)
      PROVE  IInv'
  BY <1>2, BeginKeepsIInv DEF BeginCorrection, WellFormed
<1>3. ASSUME NEW w \in Workers, Lock(w) PROVE IInv'
  BY <1>3, LockKeepsIInv
<1>4. ASSUME NEW w \in Workers, Decide(w) PROVE IInv'
  BY <1>4, DecideKeepsIInv
<1>5. ASSUME NEW w \in Workers, Commit(w) PROVE IInv'
  <2>1. request[w].action \in {"allocate", "void", "delete"}
    BY <1>5, CommitRequests DEF WellFormed
  <2>2. QED
    BY <1>5, <2>1, AllocateCommits, VoidCommits, DeleteCommits
<1>6. ASSUME NEW w \in Workers, Crash(w) PROVE IInv'
  BY <1>6, CrashKeepsIInv
<1>7. CASE UNCHANGED vars
  <2>1. UNCHANGED <<status, allocations, request, begun>>
    BY <1>7 DEF vars
  <2>2. (\A w \in Workers : WellFormed(request[w]))' /\ LocksExclusive'
    BY <2>1 DEF IInv, LocksExclusive, Held, Locks
  <2>3. TypeOK' /\ IsFiniteSet(allocations)' /\ DecisionsStand'
    BY <2>1, TablesKept DEF IInv, TypeOK, DecisionsStand
  <2>4. QED
    BY <2>1, <2>2, <2>3, TablesKept DEF IInv
<1>8. QED
  BY <1>1, <1>2, <1>3, <1>4, <1>5, <1>6, <1>7 DEF Next

-----------------------------------------------------------------------------
(* Theorems *)

THEOREM Invariance == Spec => []IInv
BY InitIInv, NextKeepsIInv, PTL DEF Spec

\* Documents, rows and requests keep their types.
THEOREM TypeCorrect == Spec => []TypeOK
<1>1. IInv => TypeOK
  BY DEF IInv
<1>2. QED
  BY <1>1, Invariance, PTL

\* However many threads allocate, void and delete at once, no leg of an invoice is
\* settled or delivered beyond what was open on it.
THEOREM InvoicesNotExceeded == Spec => []InvoiceNotExceeded
<1>1. IInv => InvoiceNotExceeded
  BY DEF IInv, InvoiceTotals, InvoiceNotExceeded
<1>2. QED
  BY <1>1, Invariance, PTL

\* However many threads share a payment among invoices, it is not spent twice.
THEOREM PaymentsNotExceeded == Spec => []PaymentNotExceeded
<1>1. IInv => PaymentNotExceeded
  BY DEF IInv, PaymentTotals, PaymentNotExceeded
<1>2. QED
  BY <1>1, Invariance, PTL

\* No row is left that refers to a deleted document or repeats another.
THEOREM AllocationsAlwaysStand == Spec => []AllocationsStand
<1>1. IInv => AllocationsStand
  BY DEF IInv
<1>2. QED
  BY <1>1, Invariance, PTL
=============================================================================
