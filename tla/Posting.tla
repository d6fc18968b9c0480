------------------------------- MODULE Posting -------------------------------
(***************************************************************************)
(* The transactions behind Ledger, statement by statement: requests served *)
(* by several threads post, void, delete and reset documents against one   *)
(* database.  Ledger treats each call as one step; this module shows which *)
(* locks and constraints make that right, and where they do not.           *)
(*                                                                         *)
(* The database is PostgreSQL at its default READ COMMITTED: a statement   *)
(* sees what is committed when it runs; SELECT FOR UPDATE, UPDATE, DELETE  *)
(* and an insert under a unique index wait for the transaction that holds  *)
(* the row or the key and then see its outcome; locks are held to the end. *)
(* What a transaction writes, its DRAFT voucher included, is its own until *)
(* it commits.  Amounts, parties and lines are in Ledger; a document here  *)
(* has its number, its key, what it reverses and what it adds to stock.    *)
(***************************************************************************)
EXTENDS Integers, Sequences, FiniteSets, Functions

CONSTANTS
  Workers,      \* threads of the web server and the import command
  Keys,         \* external keys of imported documents
  None,         \* the database null
  Batches,      \* sequences of keys that one import transaction posts
  Deltas,       \* what a deal adds to the stock of the one currency
  MaxRequests,  \* bound: requests begun
  MaxResets     \* bound: resets among them

ASSUME PostingAssumption ==
  /\ None \notin Keys
  /\ Batches \subseteq Seq(Keys \cup {None}) \ {<< >>}
  /\ Deltas \subseteq Int \ {0}
  /\ MaxRequests \in Nat
  /\ MaxResets \in Nat

VARIABLES
  row,        \* committed Voucher rows by primary key
  sequence,   \* committed Sequence.value
  stock,      \* committed InventoryPosition.quantity
  nextId,     \* next primary key; not given back on rollback
  requests,   \* kinds of the requests begun
  tx,         \* the transaction of each worker
  held        \* the locks it holds

vars == <<row, sequence, stock, nextId, requests, tx, held>>

-----------------------------------------------------------------------------
Stock     == <<"stock", 0>>
Counter   == <<"sequence", 0>>
RowOf(id) == <<"row", id>>
KeyOf(k)  == <<"key", k>>

Statuses == {"final", "void"}

Document == [number : Nat, status : Statuses, key : Keys \cup {None},
             reverses : Nat, delta : Int]

\* step: the statement that comes next; rows, removed, sequence and stock: what
\* the transaction has written so far.
Idle == [step |-> "idle", kind |-> "none", target |-> 0, delta |-> 0, keys |-> << >>,
         rows |-> << >>, removed |-> {}, sequence |-> 0, stock |-> 0]

Rows == DOMAIN row

HasReversal(id) == \E r \in Rows : row[r].reverses = id

\* The locks the next statement of w waits for.
Wanted(w) ==
  LET t == tx[w]
  IN  CASE t.step = "lockVoucher" -> {RowOf(t.target)}
        [] t.step = "lockStock" -> {Stock}
        [] t.step = "insert" /\ Head(t.keys) # None -> {KeyOf(Head(t.keys))}
        [] t.step = "removeAll" -> {RowOf(id) : id \in Rows}
        [] t.step \in {"number", "zero"} -> {Counter}
        [] OTHER -> {}

Blocks(v, w) == v # w /\ Wanted(w) \cap held[v] # {}

Granted(w) == \A v \in Workers : ~Blocks(v, w)

\* Workers that wait for each other in a cycle.
Deadlock(S) ==
  /\ S # {}
  /\ \A w \in S : \E v \in S : Blocks(v, w)
  /\ \A v \in S : \E w \in S : Blocks(v, w)

Acquire(w, locks) == held' = [held EXCEPT ![w] = @ \cup locks]

\* A table of one row.
Single(id, r) == [i \in {id} |-> r]

\* Table f with the rows of g over it.
Over(g, f) == [i \in DOMAIN f \cup DOMAIN g |-> IF i \in DOMAIN g THEN g[i] ELSE f[i]]

UnchangedTables == UNCHANGED <<row, sequence, stock>>

-----------------------------------------------------------------------------
(* A request begins *)

Begin(w, started) ==
  /\ tx[w].step = "idle"
  /\ Len(requests) < MaxRequests
  /\ requests' = Append(requests, started.kind)
  /\ tx' = [tx EXCEPT ![w] = started]
  /\ UNCHANGED <<row, sequence, stock, nextId, held>>

\* Any document without a deal; an import posts a batch in one transaction.
BeginPost(w, keys) ==
  Begin(w, [Idle EXCEPT !.step = "lookup", !.kind = "post", !.keys = keys])

BeginDeal(w, delta) ==
  Begin(w, [Idle EXCEPT !.step = "lockStock", !.kind = "deal", !.delta = delta,
                        !.keys = <<None>>])

\* The page of document id was open when the button was pressed.
BeginCorrection(w, kind, id) ==
  /\ id \in Rows
  /\ Begin(w, [Idle EXCEPT !.step = "lockVoucher", !.kind = kind, !.target = id])

BeginReset(w) ==
  /\ Cardinality({i \in DOMAIN requests : requests[i] = "reset"}) < MaxResets
  /\ Begin(w, [Idle EXCEPT !.step = "removeAll", !.kind = "reset"])

-----------------------------------------------------------------------------
(* Its statements *)

Correctable(kind, id) ==
  /\ id \in Rows
  /\ ~HasReversal(id)
  /\ IF kind = "void" THEN row[id].status = "final" ELSE row[id].reverses = 0

\* Transaction t once it holds its voucher and the checks passed.
Correcting(t) ==
  [t EXCEPT
     !.step = IF row[t.target].delta # 0 THEN "lockStock"
              ELSE IF t.kind = "void" THEN "insert" ELSE "commit",
     !.delta = -row[t.target].delta,
     !.rows = IF t.kind = "void"
              THEN Single(t.target, [row[t.target] EXCEPT !.status = "void"])
              ELSE << >>,
     !.removed = IF t.kind = "delete" THEN {t.target} ELSE {},
     !.keys = IF t.kind = "void" THEN <<None>> ELSE << >>]

\* Variants for mutation: the row is read without its lock; a void takes the
\* counter along with the row.
LockVoucherUnlocked(w) ==
  LET t == tx[w]
  IN  /\ t.step = "lockVoucher"
      /\ Correctable(t.kind, t.target)
      /\ tx' = [tx EXCEPT ![w] = Correcting(@)]
      /\ UnchangedTables
      /\ UNCHANGED <<nextId, requests, held>>

LockVoucherWithCounter(w) ==
  LET t == tx[w]
  IN  /\ t.step = "lockVoucher"
      /\ Granted(w) /\ \A v \in Workers \ {w} : Counter \notin held[v]
      /\ Correctable(t.kind, t.target)
      /\ Acquire(w, {RowOf(t.target), Counter})
      /\ tx' = [tx EXCEPT ![w] = [Correcting(@) EXCEPT !.sequence = sequence]]
      /\ UnchangedTables
      /\ UNCHANGED <<nextId, requests>>

\* void_voucher and delete_voucher lock the row and only then look at it.
LockVoucher(w) ==
  LET t == tx[w]
  IN  /\ t.step = "lockVoucher"
      /\ Granted(w)
      /\ Correctable(t.kind, t.target)
      /\ Acquire(w, Wanted(w))
      /\ tx' = [tx EXCEPT ![w] = Correcting(@)]
      /\ UnchangedTables
      /\ UNCHANGED <<nextId, requests>>

\* The inventory once it was read as quantity.
WithStock(t, quantity) ==
  [t EXCEPT !.stock = IF t.kind = "reset" THEN 0 ELSE quantity + t.delta,
            !.step = CASE t.kind = "deal"   -> "lookup"
                       [] t.kind = "void"   -> "insert"
                       [] t.kind = "delete" -> "commit"
                       [] t.kind = "reset"  -> "zero"]

\* Variant for mutation: without select_for_update the read waits for nobody.
LockStockUnlocked(w) ==
  /\ tx[w].step = "lockStock"
  /\ Acquire(w, {Stock})
  /\ tx' = [tx EXCEPT ![w] = WithStock(@, stock)]
  /\ UnchangedTables
  /\ UNCHANGED <<nextId, requests>>

\* _apply_inventory and _reverse_inventory, on the locked InventoryPosition row;
\* a reset deletes the row.
LockStock(w) ==
  /\ tx[w].step = "lockStock"
  /\ Granted(w)
  /\ Acquire(w, Wanted(w))
  /\ tx' = [tx EXCEPT ![w] = WithStock(@, stock)]
  /\ UnchangedTables
  /\ UNCHANGED <<nextId, requests>>

KeyTaken(w, key) ==
  \/ \E id \in Rows : row[id].key = key
  \/ \E id \in DOMAIN tx[w].rows : tx[w].rows[id].key = key

\* The next document of the batch, or the end of the transaction.
StepAfter(keys) == IF Len(keys) = 1 THEN "commit" ELSE "lookup"

\* post_voucher asks for an existing key first; an import skips a duplicate.
Lookup(w) ==
  LET key == Head(tx[w].keys)
  IN  /\ tx[w].step = "lookup"
      /\ tx' = IF key # None /\ KeyTaken(w, key)
               THEN [tx EXCEPT ![w].step = StepAfter(tx[w].keys), ![w].keys = Tail(@)]
               ELSE [tx EXCEPT ![w].step = "insert"]
      /\ UnchangedTables
      /\ UNCHANGED <<nextId, requests, held>>

Draft(t) ==
  [number |-> 0, status |-> "final", key |-> Head(t.keys), reverses |-> t.target,
   delta |-> IF t.kind = "deal" THEN t.delta ELSE 0]

WithDraft(t) == [t EXCEPT !.rows = Over(Single(nextId, Draft(t)), @), !.step = "number"]

\* Variant for mutation: external_key without its unique constraint.
InsertUnconstrained(w) ==
  /\ tx[w].step = "insert"
  /\ tx' = [tx EXCEPT ![w] = WithDraft(@)]
  /\ nextId' = nextId + 1
  /\ UnchangedTables
  /\ UNCHANGED <<requests, held>>

\* The insert of the DRAFT waits on the unique index for another's uncommitted key.
\* A key committed since the lookup is an IntegrityError: see Refused.
Insert(w) ==
  LET key == Head(tx[w].keys)
  IN  /\ tx[w].step = "insert"
      /\ Granted(w)
      /\ key # None => ~KeyTaken(w, key)
      /\ Acquire(w, Wanted(w))
      /\ tx' = [tx EXCEPT ![w] = WithDraft(@)]
      /\ nextId' = nextId + 1
      /\ UnchangedTables
      /\ UNCHANGED requests

NextNumber(w) == 1 + IF Counter \in held[w] THEN tx[w].sequence ELSE sequence

NumberTaken(n) == \E id \in Rows : row[id].number = n

\* Transaction t once its DRAFT is saved as final under number n.
WithNumber(t, n) ==
  LET draft == CHOOSE id \in DOMAIN t.rows : t.rows[id].number = 0
  IN  [t EXCEPT !.rows[draft].number = n, !.sequence = n,
                !.step = StepAfter(t.keys), !.keys = Tail(@)]

\* Variant for mutation: the counter is read without its lock.
NumberUnlocked(w) ==
  /\ tx[w].step = "number"
  /\ ~NumberTaken(NextNumber(w))
  /\ Acquire(w, {Counter})
  /\ tx' = [tx EXCEPT ![w] = WithNumber(@, NextNumber(w))]
  /\ UnchangedTables
  /\ UNCHANGED <<nextId, requests>>

\* _next_voucher_number, and the save that makes the DRAFT final.
Number(w) ==
  /\ tx[w].step = "number"
  /\ Granted(w)
  /\ ~NumberTaken(NextNumber(w))
  /\ Acquire(w, Wanted(w))
  /\ tx' = [tx EXCEPT ![w] = WithNumber(@, NextNumber(w))]
  /\ UnchangedTables
  /\ UNCHANGED <<nextId, requests>>

\* data_reset deletes the rows it sees; the deletes wait for rows others hold.
RemoveAll(w) ==
  /\ tx[w].step = "removeAll"
  /\ Granted(w)
  /\ \A id \in Rows : row[id].reverses = 0
  /\ Acquire(w, Wanted(w))
  /\ tx' = [tx EXCEPT ![w].removed = Rows, ![w].step = "lockStock"]
  /\ UnchangedTables
  /\ UNCHANGED <<nextId, requests>>

\* Its last statement sets the counter to zero.
Zero(w) ==
  /\ tx[w].step = "zero"
  /\ Granted(w)
  /\ Acquire(w, Wanted(w))
  /\ tx' = [tx EXCEPT ![w].sequence = 0, ![w].step = "commit"]
  /\ UnchangedTables
  /\ UNCHANGED <<nextId, requests>>

\* Variant for mutation: the locks outlive their transaction.
ReleaseNothing(w) ==
  /\ tx' = [tx EXCEPT ![w] = Idle]
  /\ UNCHANGED <<nextId, requests, held>>

Release(w) ==
  /\ tx' = [tx EXCEPT ![w] = Idle]
  /\ held' = [held EXCEPT ![w] = {}]
  /\ UNCHANGED <<nextId, requests>>

Commit(w) ==
  LET t    == tx[w]
      kept == [id \in Rows \ t.removed |-> row[id]]
  IN  /\ t.step = "commit"
      /\ row' = Over(t.rows, kept)
      /\ sequence' = IF Counter \in held[w] THEN t.sequence ELSE sequence
      /\ stock' = IF Stock \in held[w] THEN t.stock ELSE stock
      /\ Release(w)

-----------------------------------------------------------------------------
(* and its failures *)

\* What LedgerError, IntegrityError and ProtectedError answer.
Refused(w) ==
  LET t == tx[w]
  IN  /\ Granted(w)
      /\ CASE t.step = "lockVoucher" -> ~Correctable(t.kind, t.target)
           [] t.step = "insert" -> Head(t.keys) # None /\ KeyTaken(w, Head(t.keys))
           [] t.step = "number" -> NumberTaken(NextNumber(w))
           [] t.step = "removeAll" -> \E id \in Rows : row[id].reverses # 0
           [] OTHER -> FALSE

Fail(w) == Refused(w) /\ Release(w) /\ UnchangedTables

\* The database finds the cycle and aborts one of its transactions.
Abort(w) ==
  /\ \E S \in SUBSET Workers : w \in S /\ Deadlock(S)
  /\ Release(w)
  /\ UnchangedTables

\* The process dies, or the connection: the database rolls back.
Crash(w) == tx[w].step # "idle" /\ Release(w) /\ UnchangedTables

-----------------------------------------------------------------------------
Init ==
  /\ row = << >>
  /\ sequence = 0
  /\ stock = 0
  /\ nextId = 1
  /\ requests = << >>
  /\ tx = [w \in Workers |-> Idle]
  /\ held = [w \in Workers |-> {}]

Request(w) ==
  \/ \E keys \in Batches : BeginPost(w, keys)
  \/ \E delta \in Deltas : BeginDeal(w, delta)
  \/ \E kind \in {"void", "delete"}, id \in Rows : BeginCorrection(w, kind, id)
  \/ BeginReset(w)

Statement(w) ==
  \/ LockVoucher(w)
  \/ LockStock(w)
  \/ Lookup(w)
  \/ Insert(w)
  \/ Number(w)
  \/ RemoveAll(w)
  \/ Zero(w)
  \/ Commit(w)
  \/ Fail(w)
  \/ Abort(w)

Next == \E w \in Workers : Request(w) \/ Statement(w) \/ Crash(w)

\* A thread runs on, and the database grants a lock to those who wait in turn.
Fairness == \A w \in Workers : SF_vars(Statement(w))

Spec == Init /\ [][Next]_vars /\ Fairness

-----------------------------------------------------------------------------
(* What must hold *)

\* Committed rows are final or void and numbered, and what an open transaction has
\* written of the counter and the stock it holds the lock of.
TypeOK ==
  /\ Rows \subseteq 1..(nextId - 1)
  /\ \A id \in Rows : row[id] \in Document /\ row[id].number > 0
  /\ sequence \in Nat
  /\ stock \in Int
  /\ \A w \in Workers :
       /\ tx[w].sequence # 0 => Counter \in held[w]
       /\ tx[w].step = "idle" => held[w] = {}

\* The stock row is what the documents in force add up to, whoever posted, voided
\* and deleted deals at the same time and wherever a process died.
StockFollowsDocuments ==
  stock = SumFunctionOnSet([id \in Rows |-> row[id].delta],
                           {id \in Rows : row[id].status = "final"})

\* Two threads never number two documents alike.
NumbersUnique ==
  \A i, j \in Rows : row[i].number = row[j].number => i = j

\* Two imports running at once do not both post an opening balance.
KeysUnique ==
  \A i, j \in Rows : row[i].key # None /\ row[i].key = row[j].key => i = j

\* data_reset announces that numbers start from 1 again (maintenance/views.py:170),
\* so no document left may carry a number the counter has yet to issue.  It sets the
\* counter after deleting: a posting that committed in between keeps its number.
NumbersIssued == \A id \in Rows : row[id].number <= sequence

\* Requests of the web never wait for each other in a cycle, because each takes
\* voucher, stock and counter in this order, a reset all its rows first; no posting
\* or void is lost to the deadlock detector.  Imports can: a batch holds the counter
\* from its first document on and still takes the keys of the next ones.
OnlyImportsDeadlock ==
  \A S \in SUBSET Workers :
    Deadlock(S) => \A w \in S : tx[w].kind = "post" /\ Head(tx[w].keys) # None

\* Whatever it waits for, a transaction ends, and its locks with it.
TransactionsEnd ==
  \A w \in Workers : tx[w].step # "idle" ~> tx[w].step = "idle"

-----------------------------------------------------------------------------
(* The register the transactions implement, when none is a reset *)

Shown(r) ==
  [state   |-> IF r.status = "final" THEN "live" ELSE "cancelled",
   cancels |-> IF r.reverses = 0 THEN 0 ELSE row[r.reverses].number]

Gone == [state |-> "removed", cancels |-> 0]

DocumentNumbered(n) ==
  IF \E id \in Rows : row[id].number = n
  THEN Shown(row[CHOOSE id \in Rows : row[id].number = n])
  ELSE Gone

Documents == [n \in 1..sequence |-> DocumentNumbered(n)]

Register == INSTANCE DocumentRegister WITH doc <- Documents

\* Each commit is one step of the register and nothing else is visible: numbers
\* without gaps or repeats, a document cancelled once, no half of a void.
PostingImplementsRegister == Register!Spec
=============================================================================
