----------------------------- MODULE PostingProofs -----------------------------
(***************************************************************************)
(* Proofs about Posting, for any number of threads, any batches and keys.  *)
(* The invariant says what an open transaction may rely on while it holds  *)
(* its locks, and what it has written that nobody else has.                *)
(***************************************************************************)
EXTENDS Posting, DataLemmas

Table == UNION {[D -> Document] : D \in SUBSET Nat}

Locks == {Stock, Counter} \cup {RowOf(id) : id \in Nat} \cup {KeyOf(k) : k \in Keys}

Steps == {"idle", "lockVoucher", "lockStock", "lookup", "insert", "number",
          "removeAll", "zero", "commit"}

Kinds == {"none", "post", "deal", "void", "delete", "reset"}

Transaction ==
  [step : Steps, kind : Kinds, target : Nat, delta : Int, keys : Seq(Keys \cup {None}),
   rows : Table, removed : SUBSET Nat, sequence : Nat, stock : Int]

Voided(r) == [r EXCEPT !.status = "void"]

\* The rows transaction t adds; the one row it may overwrite is its target.
Fresh(t) == DOMAIN t.rows \ {t.target}

\* The statements of each kind of request, and what is left to post.
Progress(t) ==
  \/ t.kind = "none" /\ t.step = "idle"
  \/ /\ t.kind = "post"
     /\ t.step \in {"lookup", "insert", "number", "commit"}
     /\ t.step # "commit" => t.keys # << >>
  \/ /\ t.kind = "deal"
     /\ t.step \in {"lockStock", "lookup", "insert", "number", "commit"}
     /\ t.step # "commit" => t.keys = <<None>>
  \/ /\ t.kind = "void"
     /\ t.step \in {"lockVoucher", "lockStock", "insert", "number", "commit"}
     /\ t.step \in {"lockStock", "insert", "number"} => t.keys = <<None>>
  \/ t.kind = "delete" /\ t.step \in {"lockVoucher", "lockStock", "commit"}
  \/ t.kind = "reset" /\ t.step \in {"removeAll", "lockStock", "zero", "commit"}

\* The locks each statement finds held.
LocksTaken(t, h) ==
  /\ t.step \in {"idle", "lockVoucher", "removeAll"} => h = {}
  /\ t.kind = "deal" /\ t.step = "lockStock" => h = {}
  /\ t.step = "lockStock" => h \subseteq {RowOf(id) : id \in Nat}
  /\ t.kind \in {"deal", "void"} /\ t.step \in {"lookup", "insert", "number"} =>
       h \subseteq {RowOf(id) : id \in Nat} \cup {Stock}
  /\ t.step = "zero" => h \subseteq {RowOf(id) : id \in Nat} \cup {Stock}
  /\ t.kind = "post" /\ Counter \notin h =>
       /\ t.step \in {"lookup", "insert"} => h = {}
       /\ t.step = "number" => h \subseteq {KeyOf(k) : k \in {Head(t.keys)} \ {None}}

\* A new row: under a key nobody has posted, and once it is no DRAFT under a number
\* nobody has, because of the locks on both.
RowAdded(t, h, id) ==
  /\ id \in 1..(nextId - 1) /\ id \notin Rows
  /\ t.rows[id].status = "final" /\ t.rows[id].reverses = t.target
  /\ t.rows[id].delta = IF t.kind = "deal" THEN t.delta ELSE 0
  /\ t.rows[id].number # 0 =>
       /\ Counter \in h /\ t.rows[id].number <= t.sequence
       /\ ~NumberTaken(t.rows[id].number)
  /\ t.rows[id].key # None =>
       /\ KeyOf(t.rows[id].key) \in h
       /\ \A i \in Rows : row[i].key # t.rows[id].key

Distinct(t) ==
  \A i, j \in Fresh(t) : i # j =>
    /\ t.rows[j].number # t.rows[i].number
    /\ t.rows[i].key # None => t.rows[j].key # t.rows[i].key

Drafts(t) ==
  /\ t.step = "number" => \E id \in Fresh(t) : t.rows[id].number = 0
  /\ t.step # "number" => \A id \in Fresh(t) : t.rows[id].number # 0
  /\ t.kind \in {"deal", "void"} /\ t.step \in {"number", "commit"} =>
       \E id : Fresh(t) = {id}
  /\ t.kind \in {"deal", "void"} /\ t.step \notin {"number", "commit"} => Fresh(t) = {}
  /\ t.kind \in {"none", "delete", "reset"} => DOMAIN t.rows = {}

RowsAdded(t, h) ==
  /\ \A id \in Fresh(t) : RowAdded(t, h, id)
  /\ Distinct(t)
  /\ Drafts(t)

\* The document a void or a delete has looked at under its lock.
TargetLocked(t, h) ==
  /\ t.kind \in {"none", "post", "deal", "reset"} =>
       t.target = 0 /\ t.target \notin DOMAIN t.rows
  /\ t.kind \in {"void", "delete"} /\ t.step = "lockVoucher" => DOMAIN t.rows = {}
  /\ t.kind \in {"void", "delete"} /\ t.step # "lockVoucher" =>
       /\ t.target \in Rows
       /\ RowOf(t.target) \in h
       /\ ~HasReversal(t.target)
       /\ row[t.target].status = "final"
       /\ t.delta = -row[t.target].delta
  /\ t.kind = "void" /\ t.step # "lockVoucher" =>
       /\ t.target \in DOMAIN t.rows
       /\ t.rows[t.target] = Voided(row[t.target])
  /\ t.kind = "delete" /\ t.step # "lockVoucher" => t.removed = {t.target}

\* Documents to be removed are locked, reverse nothing and are not reversed.
RemovedLocked(t, h) ==
  /\ t.kind \in {"none", "post", "deal", "void"} => t.removed = {}
  /\ \A id \in t.removed :
       /\ id \in Rows
       /\ RowOf(id) \in h
       /\ row[id].reverses = 0
       /\ ~HasReversal(id)

\* The stock a transaction will write is the committed one and its own part.
StockRead(t, h) ==
  /\ Stock \in h /\ t.kind # "reset" => t.stock = stock + t.delta
  /\ t.kind = "deal" /\ t.step # "lockStock" => Stock \in h
  /\ t.kind \in {"void", "delete"} /\ t.step \in {"insert", "number", "commit"} =>
       t.delta = 0 \/ Stock \in h
  /\ t.kind = "post" => Stock \notin h

NoReset == \A i \in DOMAIN requests : requests[i] # "reset"

\* Who holds the counter has numbered without a gap from the committed value on.
Counted(t, h) ==
  NoReset /\ Counter \in h =>
    /\ t.sequence >= sequence
    /\ \A i \in Fresh(t) : t.rows[i].number # 0 => t.rows[i].number > sequence
    /\ \A n \in (sequence + 1)..t.sequence : \E i \in Fresh(t) : t.rows[i].number = n

TxInv(t, h) ==
  /\ t \in Transaction
  /\ h \subseteq Locks
  /\ t.sequence # 0 => Counter \in h
  /\ Progress(t)
  /\ LocksTaken(t, h)
  /\ RowsAdded(t, h)
  /\ TargetLocked(t, h)
  /\ RemovedLocked(t, h)
  /\ StockRead(t, h)
  /\ Counted(t, h)

\* No row and no key is locked twice, and no primary key is given out twice.
Exclusive ==
  \A v, w \in Workers : v # w =>
    /\ held[v] \cap held[w] = {}
    /\ Fresh(tx[v]) \cap Fresh(tx[w]) = {}

\* A voided document has its reversal beside it.
VoidsReversed == \A id \in Rows : row[id].status = "void" => HasReversal(id)

Committed ==
  /\ nextId \in Nat \ {0}
  /\ Rows \subseteq 1..(nextId - 1)
  /\ row \in Table
  /\ \A id \in Rows : row[id].number > 0
  /\ sequence \in Nat
  /\ stock \in Int
  /\ NumbersUnique
  /\ KeysUnique
  /\ VoidsReversed

Open ==
  /\ tx \in [Workers -> Transaction]
  /\ held \in [Workers -> SUBSET Locks]
  /\ \A w \in Workers : TxInv(tx[w], held[w])
  /\ Exclusive

Unreset ==
  /\ requests \in Seq(Kinds)
  /\ NoReset =>
       /\ \A w \in Workers : tx[w].kind # "reset"
       /\ StockFollowsDocuments
       /\ NumbersIssued
       /\ \A id \in Rows : row[id].reverses # 0 => row[id].reverses \in Rows

IInv == Committed /\ Open /\ Unreset

-----------------------------------------------------------------------------
(* Locks and tables *)

LEMMA LocksDiffer ==
  /\ Stock # Counter
  /\ \A i \in Nat : RowOf(i) # Stock /\ RowOf(i) # Counter
  /\ \A k \in Keys : KeyOf(k) # Stock /\ KeyOf(k) # Counter
  /\ \A i \in Nat, k \in Keys : RowOf(i) # KeyOf(k)
  /\ \A i, j \in Nat : RowOf(i) = RowOf(j) => i = j
  /\ \A k, m \in Keys : KeyOf(k) = KeyOf(m) => k = m
BY DEF Stock, Counter, RowOf, KeyOf

LEMMA TableFacts ==
  ASSUME NEW f \in Table
  PROVE  /\ DOMAIN f \subseteq Nat
         /\ f = [i \in DOMAIN f |-> f[i]]
         /\ \A i \in DOMAIN f : f[i] \in Document
BY DEF Table

LEMMA IsTable ==
  ASSUME NEW f, DOMAIN f \subseteq Nat, f = [i \in DOMAIN f |-> f[i]],
         \A i \in DOMAIN f : f[i] \in Document
  PROVE  f \in Table
<1>1. f \in [DOMAIN f -> Document]
  BY Zenon
<1>2. QED
  BY <1>1, Zenon DEF Table

LEMMA OverFacts ==
  ASSUME NEW g \in Table, NEW f \in Table
  PROVE  /\ Over(g, f) \in Table
         /\ DOMAIN Over(g, f) = DOMAIN g \cup DOMAIN f
         /\ \A i \in DOMAIN g : Over(g, f)[i] = g[i]
         /\ \A i \in DOMAIN f \ DOMAIN g : Over(g, f)[i] = f[i]
<1>1. /\ DOMAIN Over(g, f) = DOMAIN g \cup DOMAIN f
      /\ \A i \in DOMAIN g : Over(g, f)[i] = g[i]
      /\ \A i \in DOMAIN f \ DOMAIN g : Over(g, f)[i] = f[i]
      /\ Over(g, f) = [i \in DOMAIN Over(g, f) |-> Over(g, f)[i]]
  BY DEF Over
<1>2. QED
  BY <1>1, TableFacts, IsTable

LEMMA SingleFacts ==
  ASSUME NEW id \in Nat, NEW r \in Document
  PROVE  Single(id, r) \in Table /\ DOMAIN Single(id, r) = {id} /\ Single(id, r)[id] = r
<1>1. /\ DOMAIN Single(id, r) = {id} /\ Single(id, r)[id] = r
      /\ Single(id, r) = [i \in DOMAIN Single(id, r) |-> Single(id, r)[i]]
  BY DEF Single
<1>2. QED
  BY <1>1, IsTable

LEMMA EmptyTable == << >> \in Table /\ DOMAIN << >> = {}
<1>1. DOMAIN << >> = {} /\ << >> = [i \in DOMAIN << >> |-> << >>[i]]
  OBVIOUS
<1>2. QED
  BY <1>1, IsTable

LEMMA IdleType == Idle \in Transaction
BY EmptyTable DEF Idle, Transaction, Steps, Kinds

-----------------------------------------------------------------------------
(* One transaction at a time *)

LEMMA KeysIssued ==
  ASSUME nextId \in Nat \ {0}, nextId' = nextId \/ nextId' = nextId + 1
  PROVE  nextId' \in Nat \ {0} /\ \A i \in 1..(nextId - 1) : i \in 1..(nextId' - 1)
OBVIOUS

\* The facts a transaction relies on are about committed tables.
LEMMA TxInvKept ==
  ASSUME UNCHANGED <<row, sequence, stock>>, NoReset' => NoReset,
         nextId \in Nat \ {0}, nextId' = nextId \/ nextId' = nextId + 1,
         NEW t, NEW h, TxInv(t, h)
  PROVE  TxInv(t, h)'
<1>1. RowsAdded(t, h)'
  <2>1. \A i \in 1..(nextId - 1) : i \in 1..(nextId' - 1)
    BY KeysIssued
  <2>2. QED
    BY <2>1 DEF TxInv, RowsAdded, RowAdded, Distinct, Drafts, NumberTaken, Rows
<1>2. TargetLocked(t, h)' /\ RemovedLocked(t, h)' /\ StockRead(t, h)'
  BY DEF TxInv, TargetLocked, RemovedLocked, StockRead, HasReversal, Rows
<1>3. Counted(t, h)'
  BY DEF TxInv, Counted
<1>4. QED
  BY <1>1, <1>2, <1>3 DEF TxInv

LEMMA CommittedKept ==
  ASSUME UNCHANGED <<row, sequence, stock>>, nextId' = nextId \/ nextId' = nextId + 1, Committed
  PROVE  Committed'
<1>1. nextId \in Nat \ {0}
  BY DEF Committed
<1>2. nextId' \in Nat \ {0} /\ \A i \in 1..(nextId - 1) : i \in 1..(nextId' - 1)
  BY <1>1, KeysIssued
<1>3. QED
  BY <1>1, <1>2 DEF Committed, NumbersUnique, KeysUnique, VoidsReversed, HasReversal, Rows

LEMMA IdleInv == TxInv(Idle, {}) /\ TxInv(Idle, {})'
BY IdleType, EmptyTable
   DEF TxInv, Idle, Progress, LocksTaken, RowsAdded, RowAdded, Distinct, Drafts, TargetLocked, RemovedLocked, StockRead, Fresh, Counted

LEMMA OneTransaction ==
  ASSUME IInv, UNCHANGED <<row, sequence, stock>>, nextId' = nextId \/ nextId' = nextId + 1,
         NEW w \in Workers, NEW t, NEW h,
         tx' = [tx EXCEPT ![w] = t], held' = [held EXCEPT ![w] = h],
         TxInv(t, h)',
         \A v \in Workers \ {w} : held[v] \cap h = {},
         Fresh(t) \subseteq Fresh(tx[w]) \cup {nextId},
         requests' \in Seq(Kinds), NoReset' => NoReset /\ t.kind # "reset"
  PROVE  IInv'
<1>1. Committed'
  BY CommittedKept DEF IInv
<1>2. t \in Transaction /\ h \subseteq Locks
  BY DEF TxInv
<1>3. /\ tx' \in [Workers -> Transaction] /\ held' \in [Workers -> SUBSET Locks]
      /\ \A v \in Workers : /\ tx'[v] = IF v = w THEN t ELSE tx[v]
                            /\ held'[v] = IF v = w THEN h ELSE held[v]
  BY <1>2 DEF IInv, Open
<1>4. \A v \in Workers : TxInv(tx[v], held[v])'
  <2>1. \A u, g : TxInv(u, g) => TxInv(u, g)'
    BY TxInvKept DEF IInv, Committed
  <2> TAKE v \in Workers
  <2>2. PICK u, g : u = tx'[v] /\ g = held'[v]
    OBVIOUS
  <2>3. TxInv(u, g)'
    BY <1>3, <2>1, <2>2 DEF IInv, Open
  <2>4. QED
    BY <2>2, <2>3
<1>5. Exclusive'
  <2>1. \A v \in Workers : nextId \notin Fresh(tx[v])
    BY DEF IInv, Open, TxInv, RowsAdded, RowAdded, Distinct, Drafts, Committed
  <2>2. \A v \in Workers : Fresh(tx[v])' = IF v = w THEN Fresh(t) ELSE Fresh(tx[v])
    BY <1>3 DEF Fresh
  <2>3. \A v \in Workers \ {w} : Fresh(t) \cap Fresh(tx[v]) = {}
    BY <2>1 DEF IInv, Open, Exclusive
  <2>4. QED
    BY <1>3, <2>2, <2>3 DEF IInv, Open, Exclusive
<1>6. Unreset'
  BY <1>3 DEF IInv, Unreset, StockFollowsDocuments, NumbersIssued, Rows
<1>7. QED
  BY <1>1, <1>3, <1>4, <1>5, <1>6 DEF IInv, Open

\* A step of a transaction that adds no row and is no request.
LEMMA StatementStep ==
  ASSUME IInv, UNCHANGED <<row, sequence, stock, nextId, requests>>,
         NEW w \in Workers, NEW t, NEW h,
         tx' = [tx EXCEPT ![w] = t], held' = [held EXCEPT ![w] = h],
         TxInv(t, h),
         \A v \in Workers \ {w} : held[v] \cap h = {},
         Fresh(t) \subseteq Fresh(tx[w]), t.kind \in {tx[w].kind, "none"}
  PROVE  IInv'
<1>1. TxInv(t, h)'
  BY TxInvKept DEF IInv, Committed, NoReset
<1>2. requests' \in Seq(Kinds) /\ (NoReset' => NoReset /\ t.kind # "reset")
  BY DEF IInv, Unreset, NoReset
<1>3. QED
  BY <1>1, <1>2, OneTransaction

\* What the invariant says of the worker whose turn it is.
LEMMA Own ==
  ASSUME IInv, NEW w \in Workers
  PROVE  /\ TxInv(tx[w], held[w])
         /\ held = [held EXCEPT ![w] = held[w]]
         /\ \A v \in Workers \ {w} : held[v] \cap held[w] = {}
BY DEF IInv, Open, Exclusive

\* A lock is granted when nobody else holds it.
LEMMA GrantedLocks ==
  ASSUME IInv, NEW w \in Workers, Granted(w)
  PROVE  \A v \in Workers \ {w} : held[v] \cap (held[w] \cup Wanted(w)) = {}
BY Own DEF Granted, Blocks

LEMMA ReleaseKeepsIInv ==
  ASSUME IInv, NEW w \in Workers, Release(w), UnchangedTables
  PROVE  IInv'
<1>1. Fresh(Idle) = {} /\ Idle.kind = "none"
  BY DEF Fresh, Idle
<1>2. QED
  BY <1>1, IdleInv, StatementStep DEF Release, UnchangedTables

-----------------------------------------------------------------------------
(* Statements *)

LEMMA CorrectingFields ==
  ASSUME NEW t \in Transaction
  PROVE  LET c == Correcting(t)
         IN  /\ c.kind = t.kind /\ c.target = t.target
             /\ c.sequence = t.sequence /\ c.stock = t.stock
             /\ c.step = IF row[t.target].delta # 0 THEN "lockStock"
                         ELSE IF t.kind = "void" THEN "insert" ELSE "commit"
             /\ c.delta = -row[t.target].delta
             /\ c.rows = IF t.kind = "void"
                         THEN Single(t.target, Voided(row[t.target]))
                         ELSE << >>
             /\ c.removed = IF t.kind = "delete" THEN {t.target} ELSE {}
             /\ c.keys = IF t.kind = "void" THEN <<None>> ELSE << >>
BY DEF Correcting, Transaction, Voided

LEMMA CorrectingType ==
  ASSUME NEW t \in Transaction, row \in Table, t.target \in Rows
  PROVE  Correcting(t) \in Transaction
<1> DEFINE step == IF row[t.target].delta # 0 THEN "lockStock"
                   ELSE IF t.kind = "void" THEN "insert" ELSE "commit"
           rows == IF t.kind = "void"
                   THEN Single(t.target, Voided(row[t.target]))
                   ELSE << >>
           removed == IF t.kind = "delete" THEN {t.target} ELSE {}
           keys == IF t.kind = "void" THEN <<None>> ELSE << >>
<1>1. t.target \in Nat /\ row[t.target] \in Document
  BY TableFacts DEF Rows
<1>2. Voided(row[t.target]) \in Document
  BY <1>1 DEF Document, Statuses, Voided
<1>3. rows \in Table
  BY <1>1, <1>2, SingleFacts, EmptyTable
<1>4. -row[t.target].delta \in Int
  BY <1>1 DEF Document
<1>5. step \in Steps /\ removed \in SUBSET Nat /\ keys \in Seq(Keys \cup {None})
  <2>1. <<None>> \in Seq(Keys \cup {None}) /\ << >> \in Seq(Keys \cup {None})
    OBVIOUS
  <2>2. step \in Steps
    BY DEF Steps
  <2>3. removed \in SUBSET Nat
    BY <1>1
  <2>4. keys \in Seq(Keys \cup {None})
    BY <2>1, Zenon
  <2>5. QED
    BY <2>2, <2>3, <2>4
<1>6. Correcting(t) = [t EXCEPT !.step = step, !.delta = -row[t.target].delta, !.rows = rows,
                                !.removed = removed, !.keys = keys]
  BY Zenon DEF Correcting, Voided
<1> HIDE DEF step, rows, removed, keys
<1>7. QED
  BY <1>3, <1>4, <1>5, <1>6 DEF Transaction

LEMMA RowIds ==
  ASSUME IInv
  PROVE  \A i \in Rows : i \in Nat \ {0} /\ i \in 1..(nextId - 1)
<1>1. \A i \in 1..(nextId - 1) : i \in Nat \ {0}
  BY DEF IInv, Committed
<1>2. QED
  BY <1>1 DEF IInv, Committed

LEMMA LockVoucherKeepsIInv ==
  ASSUME IInv, NEW w \in Workers, LockVoucher(w)
  PROVE  IInv'
<1> PICK t, c, h : /\ t = tx[w] /\ c = Correcting(t)
                   /\ h = held[w] \cup Wanted(w)
  OBVIOUS
<1> DEFINE id == t.target
<1>1. TxInv(t, held[w]) /\ t \in Transaction
  BY Own DEF TxInv
<1>2. t.step = "lockVoucher" /\ t.kind \in {"void", "delete"} /\ held[w] = {}
  BY <1>1 DEF LockVoucher, TxInv, Progress, LocksTaken
<1>3. h = {RowOf(id)}
  <2>1. Wanted(w) = {RowOf(id)}
    BY <1>2, Zenon DEF Wanted
  <2>2. QED
    BY <1>2, <2>1
<1>4. /\ id \in Rows /\ id \in Nat \ {0} /\ ~HasReversal(id) /\ row[id].status = "final"
      /\ t.kind = "delete" => row[id].reverses = 0
  <2>1. Correctable(t.kind, id)
    BY DEF LockVoucher
  <2>2. id \in Rows /\ ~HasReversal(id)
        /\ (t.kind = "void" => row[id].status = "final")
        /\ (t.kind = "delete" => row[id].reverses = 0)
    BY <1>2, <2>1 DEF Correctable
  <2>3. id \in Nat \ {0}
    BY <2>2, RowIds
  <2>4. row[id].status \in {"final", "void"}
    BY <2>2, TableFacts DEF IInv, Committed, Rows, Document, Statuses
  <2>5. row[id].status = "final"
    BY <2>2, <2>4 DEF IInv, Committed, VoidsReversed
  <2>6. QED
    BY <2>2, <2>3, <2>5
<1>5. row[id] \in Document /\ Voided(row[id]) \in Document /\ row[id].delta \in Int
  BY <1>4, TableFacts DEF IInv, Committed, Rows, Document, Statuses, Voided
<1>6. /\ c.kind = t.kind /\ c.target = id /\ c.sequence = t.sequence
      /\ c.step = IF row[id].delta # 0 THEN "lockStock"
                  ELSE IF t.kind = "void" THEN "insert" ELSE "commit"
      /\ c.delta = -row[id].delta
      /\ c.removed = IF t.kind = "delete" THEN {id} ELSE {}
      /\ t.kind = "void" => c.keys = <<None>>
      /\ t.kind = "void" => DOMAIN c.rows = {id} /\ c.rows[id] = Voided(row[id])
      /\ t.kind = "delete" => DOMAIN c.rows = {}
  <2>1. t.kind = "void" => c.rows = Single(id, Voided(row[id]))
    BY <1>1, CorrectingFields
  <2>2. t.kind = "delete" => c.rows = << >>
    BY <1>1, CorrectingFields
  <2>3. DOMAIN Single(id, Voided(row[id])) = {id}
        /\ Single(id, Voided(row[id]))[id] = Voided(row[id])
    BY <1>4, <1>5, SingleFacts
  <2>4. QED
    BY <1>1, <2>1, <2>2, <2>3, EmptyTable, CorrectingFields
<1>7. Fresh(c) = {}
  BY <1>2, <1>6 DEF Fresh
<1>8. c \in Transaction
  BY <1>1, <1>4, CorrectingType DEF IInv, Committed
<1>9. Progress(c) /\ LocksTaken(c, h)
  BY <1>2, <1>3, <1>4, <1>6 DEF Progress, LocksTaken
<1>10. RowsAdded(c, h)
  BY <1>2, <1>6, <1>7 DEF RowsAdded, Distinct, Drafts
<1>11. TargetLocked(c, h) /\ RemovedLocked(c, h)
  BY <1>2, <1>3, <1>4, <1>6 DEF TargetLocked, RemovedLocked
<1>12. StockRead(c, h)
  BY <1>2, <1>3, <1>4, <1>5, <1>6, LocksDiffer DEF StockRead
<1>13. h \subseteq Locks /\ (c.sequence # 0 => Counter \in h)
  BY <1>1, <1>2, <1>3, <1>4, <1>6 DEF TxInv, Locks
<1>14. TxInv(c, h)
  <2>1. Counter \notin h
    BY <1>3, <1>4, LocksDiffer
  <2>2. QED
    BY <1>8, <1>9, <1>10, <1>11, <1>12, <1>13, <2>1 DEF TxInv, Counted
<1>15. /\ tx' = [tx EXCEPT ![w] = c] /\ held' = [held EXCEPT ![w] = h]
       /\ UNCHANGED <<row, sequence, stock, nextId, requests>>
       /\ \A v \in Workers \ {w} : held[v] \cap h = {}
  BY GrantedLocks DEF LockVoucher, Acquire, UnchangedTables
<1>16. QED
  BY <1>6, <1>7, <1>14, <1>15, StatementStep
LEMMA WithStockFields ==
  ASSUME NEW t \in Transaction, NEW quantity \in Int,
         t.kind \in {"deal", "void", "delete", "reset"}
  PROVE  LET c == WithStock(t, quantity)
         IN  /\ c \in Transaction
             /\ c.kind = t.kind /\ c.target = t.target /\ c.delta = t.delta
             /\ c.keys = t.keys /\ c.rows = t.rows /\ c.removed = t.removed
             /\ c.sequence = t.sequence
             /\ t.kind # "reset" => c.stock = quantity + t.delta
             /\ t.kind = "deal" => c.step = "lookup"
             /\ t.kind = "void" => c.step = "insert"
             /\ t.kind = "delete" => c.step = "commit"
             /\ t.kind = "reset" => c.step = "zero"
<1> DEFINE step == CASE t.kind = "deal"   -> "lookup"
                     [] t.kind = "void"   -> "insert"
                     [] t.kind = "delete" -> "commit"
                     [] t.kind = "reset"  -> "zero"
           total == IF t.kind = "reset" THEN 0 ELSE quantity + t.delta
<1>1. WithStock(t, quantity) = [t EXCEPT !.stock = total, !.step = step]
  BY Zenon DEF WithStock
<1>2. t.kind = "deal" => step = "lookup"
  BY Zenon
<1>3. t.kind = "void" => step = "insert"
  BY Zenon
<1>4. t.kind = "delete" => step = "commit"
  BY Zenon
<1>5. t.kind = "reset" => step = "zero"
  BY Zenon
<1>6. total \in Int /\ (t.kind # "reset" => total = quantity + t.delta)
  BY DEF Transaction
<1> HIDE DEF step, total
<1>7. step \in Steps
  BY <1>2, <1>3, <1>4, <1>5 DEF Steps
<1>8. QED
  BY <1>1, <1>2, <1>3, <1>4, <1>5, <1>6, <1>7 DEF Transaction

LEMMA LockStockKeepsIInv ==
  ASSUME IInv, NEW w \in Workers, LockStock(w)
  PROVE  IInv'
<1> PICK t, c, h : /\ t = tx[w] /\ c = WithStock(t, stock)
                   /\ h = held[w] \cup Wanted(w)
  OBVIOUS
<1>1. TxInv(t, held[w]) /\ t \in Transaction /\ stock \in Int
  BY Own DEF TxInv, IInv, Committed
<1>2. t.step = "lockStock" /\ t.kind \in {"deal", "void", "delete", "reset"}
  BY <1>1 DEF LockStock, TxInv, Progress
<1>3. h = held[w] \cup {Stock} /\ held[w] \subseteq {RowOf(id) : id \in Nat}
  <2>1. Wanted(w) = {Stock}
    BY <1>2, Zenon DEF Wanted
  <2>2. QED
    BY <1>1, <1>2, <2>1 DEF TxInv, LocksTaken
<1>4. /\ c \in Transaction
      /\ c.kind = t.kind /\ c.target = t.target /\ c.delta = t.delta
      /\ c.keys = t.keys /\ c.rows = t.rows /\ c.removed = t.removed
      /\ c.sequence = t.sequence
      /\ t.kind # "reset" => c.stock = stock + t.delta
      /\ t.kind = "deal" => c.step = "lookup"
      /\ t.kind = "void" => c.step = "insert"
      /\ t.kind = "delete" => c.step = "commit"
      /\ t.kind = "reset" => c.step = "zero"
  BY <1>1, <1>2, WithStockFields
<1>5. Fresh(c) = Fresh(t)
  BY <1>4 DEF Fresh
<1>6. Progress(c) /\ LocksTaken(c, h)
  BY <1>1, <1>2, <1>3, <1>4 DEF TxInv, Progress, LocksTaken
<1>7. RowsAdded(c, h)
  BY <1>1, <1>2, <1>3, <1>4, <1>5 DEF TxInv, RowsAdded, RowAdded, Distinct, Drafts
<1>8. TargetLocked(c, h) /\ RemovedLocked(c, h)
  BY <1>1, <1>2, <1>3, <1>4 DEF TxInv, TargetLocked, RemovedLocked
<1>9. StockRead(c, h)
  BY <1>1, <1>2, <1>3, <1>4 DEF TxInv, StockRead
<1>10. TxInv(c, h)
  <2>1. Counter \notin h
    BY <1>3, LocksDiffer
  <2>2. QED
    BY <1>1, <1>3, <1>4, <1>6, <1>7, <1>8, <1>9, <2>1 DEF TxInv, Locks, Counted
<1>11. /\ tx' = [tx EXCEPT ![w] = c] /\ held' = [held EXCEPT ![w] = h]
       /\ UNCHANGED <<row, sequence, stock, nextId, requests>>
       /\ \A v \in Workers \ {w} : held[v] \cap h = {}
  BY GrantedLocks DEF LockStock, Acquire, UnchangedTables
<1>12. QED
  BY <1>4, <1>5, <1>10, <1>11, StatementStep

LEMMA NextKeys ==
  ASSUME NEW keys \in Seq(Keys \cup {None}), keys # << >>
  PROVE  /\ Tail(keys) \in Seq(Keys \cup {None})
         /\ StepAfter(keys) \in {"commit", "lookup"}
         /\ StepAfter(keys) = "lookup" => Tail(keys) # << >>
         /\ keys = <<None>> => StepAfter(keys) = "commit"
<1>1. PICK rest : rest = Tail(keys)
  OBVIOUS
<1>2. rest \in Seq(Keys \cup {None}) /\ Len(rest) = Len(keys) - 1 /\ Len(keys) \in Nat
  BY <1>1
<1>3. rest = << >> => Len(rest) = 0
  OBVIOUS
<1>4. keys = <<None>> => Len(keys) = 1
  OBVIOUS
<1>5. QED
  BY <1>1, <1>2, <1>3, <1>4 DEF StepAfter

LEMMA LookupKeepsIInv ==
  ASSUME IInv, NEW w \in Workers, Lookup(w)
  PROVE  IInv'
<1> PICK t, h : t = tx[w] /\ h = held[w]
  OBVIOUS
<1> DEFINE skipped == [t EXCEPT !.step = StepAfter(t.keys), !.keys = Tail(t.keys)]
           found == [t EXCEPT !.step = "insert"]
<1>1. TxInv(t, h) /\ t \in Transaction
  BY Own DEF TxInv
<1>2. t.step = "lookup" /\ t.kind \in {"post", "deal"} /\ t.keys # << >>
      /\ (t.kind = "deal" => t.keys = <<None>>)
  BY <1>1 DEF Lookup, TxInv, Progress
<1>3. PICK c : /\ c = found \/ (c = skipped /\ Head(t.keys) # None)
               /\ tx' = [tx EXCEPT ![w] = c]
  <2>1. CASE Head(t.keys) # None /\ KeyTaken(w, Head(t.keys))
    <3>1. tx' = [tx EXCEPT ![w] = skipped]
      BY <2>1 DEF Lookup, IInv, Open
    <3>2. QED
      BY <2>1, <3>1, Zenon
  <2>2. CASE ~(Head(t.keys) # None /\ KeyTaken(w, Head(t.keys)))
    <3>1. tx' = [tx EXCEPT ![w] = found]
      BY <2>2 DEF Lookup, IInv, Open
    <3>2. QED
      BY <3>1, Zenon
  <2>3. QED
    BY <2>1, <2>2, Zenon
<1>4. /\ c \in Transaction
      /\ c.kind = t.kind /\ c.target = t.target /\ c.delta = t.delta
      /\ c.rows = t.rows /\ c.removed = t.removed
      /\ c.sequence = t.sequence /\ c.stock = t.stock
      /\ \/ c.step = "insert" /\ c.keys = t.keys
         \/ c.step = "lookup" /\ c.keys # << >> /\ t.kind = "post"
         \/ c.step = "commit" /\ t.kind = "post"
  <2>1. t.keys \in Seq(Keys \cup {None})
    BY <1>1 DEF Transaction
  <2>2. CASE c = found
    BY <1>1, <2>2 DEF Transaction, Steps
  <2>3. CASE c = skipped /\ Head(t.keys) # None
    <3>1. Tail(t.keys) \in Seq(Keys \cup {None}) /\ StepAfter(t.keys) \in {"commit", "lookup"}
          /\ (StepAfter(t.keys) = "lookup" => Tail(t.keys) # << >>)
      BY <1>2, <2>1, NextKeys
    <3>2. t.kind = "post"
      BY <1>2, <2>3
    <3>3. QED
      BY <1>1, <2>3, <3>1, <3>2 DEF Transaction, Steps
  <2>4. QED
    BY <1>3, <2>2, <2>3
<1>5. Fresh(c) = Fresh(t)
  BY <1>4 DEF Fresh
<1>6. Progress(c) /\ LocksTaken(c, h)
  BY <1>1, <1>2, <1>4 DEF TxInv, Progress, LocksTaken
<1>7. RowsAdded(c, h)
  BY <1>1, <1>2, <1>4, <1>5 DEF TxInv, RowsAdded, RowAdded, Distinct, Drafts
<1>8. TargetLocked(c, h) /\ RemovedLocked(c, h) /\ StockRead(c, h)
  BY <1>1, <1>2, <1>4 DEF TxInv, TargetLocked, RemovedLocked, StockRead
<1>9. TxInv(c, h)
  <2>1. Counted(c, h)
    BY <1>1, <1>4, <1>5 DEF TxInv, Counted
  <2>2. QED
    BY <1>1, <1>4, <1>6, <1>7, <1>8, <2>1 DEF TxInv
<1>10. /\ held' = [held EXCEPT ![w] = h]
       /\ UNCHANGED <<row, sequence, stock, nextId, requests>>
       /\ \A v \in Workers \ {w} : held[v] \cap h = {}
  BY Own DEF Lookup, UnchangedTables
<1>11. QED
  BY <1>3, <1>4, <1>5, <1>9, <1>10, StatementStep

LEMMA RemoveAllKeepsIInv ==
  ASSUME IInv, NEW w \in Workers, RemoveAll(w)
  PROVE  IInv'
<1> PICK t, c, h : /\ t = tx[w] /\ c = [t EXCEPT !.removed = Rows, !.step = "lockStock"]
                   /\ h = held[w] \cup Wanted(w)
  OBVIOUS
<1>1. TxInv(t, held[w]) /\ t \in Transaction
  BY Own DEF TxInv
<1>2. t.step = "removeAll" /\ t.kind = "reset" /\ held[w] = {}
  BY <1>1 DEF RemoveAll, TxInv, Progress, LocksTaken
<1>3. h = {RowOf(id) : id \in Rows}
  <2>1. Wanted(w) = {RowOf(id) : id \in Rows}
    BY <1>2, Zenon DEF Wanted
  <2>2. QED
    BY <1>2, <2>1
<1>4. Rows \subseteq Nat
  BY RowIds
<1>5. /\ c \in Transaction
      /\ c.kind = t.kind /\ c.target = t.target /\ c.delta = t.delta
      /\ c.keys = t.keys /\ c.rows = t.rows /\ c.removed = Rows
      /\ c.sequence = t.sequence /\ c.stock = t.stock /\ c.step = "lockStock"
  BY <1>1, <1>4 DEF Transaction, Steps
<1>6. Fresh(c) = Fresh(t)
  BY <1>5 DEF Fresh
<1>7. h \subseteq {RowOf(id) : id \in Nat}
  BY <1>3, <1>4
<1>8. Progress(c) /\ LocksTaken(c, h)
  BY <1>2, <1>5, <1>7 DEF Progress, LocksTaken
<1>9. RowsAdded(c, h)
  BY <1>1, <1>2, <1>5, <1>6 DEF TxInv, RowsAdded, RowAdded, Distinct, Drafts
<1>10. TargetLocked(c, h) /\ StockRead(c, h)
  BY <1>1, <1>2, <1>5 DEF TxInv, TargetLocked, StockRead
<1>11. RemovedLocked(c, h)
  <2>1. \A id \in Rows : row[id].reverses = 0
    BY DEF RemoveAll
  <2>2. \A id \in Rows : ~HasReversal(id)
    BY <2>1, RowIds DEF HasReversal
  <2>3. QED
    BY <1>2, <1>3, <1>5, <2>1, <2>2 DEF RemovedLocked
<1>12. TxInv(c, h)
  <2>1. Counter \notin h
    BY <1>7, LocksDiffer
  <2>2. QED
    BY <1>1, <1>2, <1>5, <1>7, <1>8, <1>9, <1>10, <1>11, <2>1 DEF TxInv, Locks, Counted
<1>13. /\ tx' = [tx EXCEPT ![w] = c] /\ held' = [held EXCEPT ![w] = h]
       /\ UNCHANGED <<row, sequence, stock, nextId, requests>>
       /\ \A v \in Workers \ {w} : held[v] \cap h = {}
  BY GrantedLocks DEF RemoveAll, Acquire, UnchangedTables
<1>14. QED
  BY <1>5, <1>6, <1>12, <1>13, StatementStep

LEMMA ZeroKeepsIInv ==
  ASSUME IInv, NEW w \in Workers, Zero(w)
  PROVE  IInv'
<1> PICK t, c, h : /\ t = tx[w] /\ c = [t EXCEPT !.sequence = 0, !.step = "commit"]
                   /\ h = held[w] \cup Wanted(w)
  OBVIOUS
<1>1. TxInv(t, held[w]) /\ t \in Transaction
  BY Own DEF TxInv
<1>2. t.step = "zero" /\ t.kind = "reset"
  BY <1>1 DEF Zero, TxInv, Progress
<1>3. h = held[w] \cup {Counter}
  <2>1. Wanted(w) = {Counter}
    BY <1>2, Zenon DEF Wanted
  <2>2. QED
    BY <2>1
<1>4. /\ c \in Transaction
      /\ c.kind = t.kind /\ c.target = t.target /\ c.delta = t.delta
      /\ c.keys = t.keys /\ c.rows = t.rows /\ c.removed = t.removed
      /\ c.sequence = 0 /\ c.stock = t.stock /\ c.step = "commit"
  BY <1>1 DEF Transaction, Steps
<1>5. Fresh(c) = Fresh(t) /\ Fresh(t) = {}
  BY <1>1, <1>2, <1>4 DEF Fresh, TxInv, RowsAdded, Drafts
<1>6. Progress(c) /\ LocksTaken(c, h)
  BY <1>2, <1>3, <1>4 DEF Progress, LocksTaken
<1>7. RowsAdded(c, h)
  BY <1>1, <1>2, <1>4, <1>5 DEF TxInv, RowsAdded, RowAdded, Distinct, Drafts
<1>8. TargetLocked(c, h) /\ RemovedLocked(c, h) /\ StockRead(c, h)
  BY <1>1, <1>2, <1>3, <1>4 DEF TxInv, TargetLocked, RemovedLocked, StockRead
<1>9. TxInv(c, h)
  <2>1. ~NoReset
    BY <1>2 DEF IInv, Unreset
  <2>2. QED
    BY <1>1, <1>3, <1>4, <1>6, <1>7, <1>8, <2>1 DEF TxInv, Locks, Counted
<1>10. /\ tx' = [tx EXCEPT ![w] = c] /\ held' = [held EXCEPT ![w] = h]
       /\ UNCHANGED <<row, sequence, stock, nextId, requests>>
       /\ \A v \in Workers \ {w} : held[v] \cap h = {}
  BY GrantedLocks DEF Zero, Acquire, UnchangedTables
<1>11. QED
  BY <1>4, <1>5, <1>9, <1>10, StatementStep
LEMMA DraftFields ==
  ASSUME NEW t \in Transaction, t.keys # << >>
  PROVE  /\ Head(t.keys) \in Keys \cup {None}
         /\ Draft(t) \in Document
         /\ Draft(t).number = 0 /\ Draft(t).status = "final" /\ Draft(t).key = Head(t.keys)
         /\ Draft(t).reverses = t.target
         /\ Draft(t).delta = IF t.kind = "deal" THEN t.delta ELSE 0
<1>1. Head(t.keys) \in Keys \cup {None}
  BY DEF Transaction
<1>2. QED
  BY <1>1 DEF Draft, Document, Statuses, Transaction

LEMMA InsertKeepsIInv ==
  ASSUME IInv, NEW w \in Workers, Insert(w)
  PROVE  IInv'
<1> PICK t, c, g, h, n : /\ t = tx[w] /\ c = WithDraft(t) /\ g = held[w]
                         /\ h = held[w] \cup Wanted(w) /\ n = nextId
  OBVIOUS
<1> PICK key : key = Head(t.keys)
  OBVIOUS
<1>1. TxInv(t, g) /\ t \in Transaction
  BY Own DEF TxInv
<1>2. /\ t.step = "insert" /\ t.kind \in {"post", "deal", "void"} /\ t.keys # << >>
      /\ t.kind # "post" => t.keys = <<None>>
  BY <1>1 DEF Insert, TxInv, Progress
<1>3. /\ key \in Keys \cup {None} /\ (t.kind # "post" => key = None)
      /\ key = None => h = g
      /\ key # None => h = g \cup {KeyOf(key)} /\ ~KeyTaken(w, key)
  <2>1. key = None => Wanted(w) = {}
    BY <1>2, Zenon DEF Wanted
  <2>2. key # None => Wanted(w) = {KeyOf(key)}
    BY <1>2, Zenon DEF Wanted
  <2>3. key \in Keys \cup {None} /\ (t.kind # "post" => key = None)
    BY <1>1, <1>2, DraftFields
  <2>4. QED
    BY <2>1, <2>2, <2>3 DEF Insert
<1>4. n \in Nat \ {0} /\ n \notin Rows /\ n \notin Fresh(t) /\ n # t.target
  <2>1. n \in Nat \ {0} /\ n \notin 1..(n - 1)
    BY DEF IInv, Committed
  <2>2. t.target = 0 \/ t.target \in Rows
    BY <1>1, <1>2 DEF TxInv, TargetLocked
  <2>3. QED
    BY <1>1, <2>1, <2>2, RowIds DEF TxInv, RowsAdded, RowAdded, Distinct, Drafts
<1>5. /\ c \in Transaction
      /\ c.kind = t.kind /\ c.target = t.target /\ c.delta = t.delta
      /\ c.keys = t.keys /\ c.removed = t.removed
      /\ c.sequence = t.sequence /\ c.stock = t.stock /\ c.step = "number"
      /\ DOMAIN c.rows = DOMAIN t.rows \cup {n}
      /\ c.rows[n] = Draft(t)
      /\ \A i \in DOMAIN t.rows : c.rows[i] = t.rows[i]
  <2>1. t.rows \in Table /\ Single(n, Draft(t)) \in Table
        /\ DOMAIN Single(n, Draft(t)) = {n} /\ Single(n, Draft(t))[n] = Draft(t)
    <3>1. Draft(t) \in Document /\ n \in Nat
      BY <1>1, <1>2, <1>4, DraftFields
    <3>2. t.rows \in Table
      BY <1>1 DEF Transaction
    <3>3. QED
      BY <3>1, <3>2, SingleFacts
  <2>2. n \notin DOMAIN t.rows
    BY <1>4 DEF Fresh
  <2>3. PICK rows : rows = Over(Single(n, Draft(t)), t.rows)
    OBVIOUS
  <2>4. /\ rows \in Table /\ DOMAIN rows = DOMAIN t.rows \cup {n}
        /\ rows[n] = Draft(t) /\ \A i \in DOMAIN t.rows : rows[i] = t.rows[i]
    BY <2>1, <2>2, <2>3, OverFacts
  <2>5. c = [t EXCEPT !.rows = rows, !.step = "number"]
    BY <2>3, Zenon DEF WithDraft
  <2>6. QED
    BY <1>1, <2>4, <2>5 DEF Transaction, Steps
<1>6. Fresh(c) = Fresh(t) \cup {n}
  BY <1>4, <1>5 DEF Fresh
<1>7. UNCHANGED <<row, sequence, stock>> /\ nextId' = n + 1
  BY DEF Insert, UnchangedTables
<1>8. TxInv(t, g)'
  <2>1. NoReset' <=> NoReset
    BY DEF Insert, NoReset
  <2>2. QED
    BY <1>1, <1>4, <1>7, <2>1, TxInvKept
<1>9. Progress(c)' /\ LocksTaken(c, h)'
  BY <1>1, <1>2, <1>3, <1>5 DEF TxInv, Progress, LocksTaken
<1>10. /\ Draft(t).number = 0 /\ Draft(t).status = "final" /\ Draft(t).key = key
       /\ Draft(t).reverses = t.target
       /\ Draft(t).delta = IF t.kind = "deal" THEN t.delta ELSE 0
  BY <1>1, <1>2, DraftFields
<1>11. \A i \in Fresh(t) : /\ i \in DOMAIN t.rows /\ c.rows[i] = t.rows[i]
                           /\ t.rows[i].number # 0
                           /\ RowAdded(t, g, i)'
  BY <1>1, <1>2, <1>5, <1>8 DEF TxInv, RowsAdded, Drafts, Fresh
<1>12. key # None => /\ \A i \in Rows : row[i].key # key
                     /\ \A i \in Fresh(t) : t.rows[i].key # key
  BY <1>3, <1>11 DEF KeyTaken
<1>13. ASSUME NEW i \in Fresh(c)
       PROVE  RowAdded(c, h, i)'
  <2>1. CASE i = n
    <3>1. n \in 1..(nextId' - 1) /\ n \notin Rows'
      BY <1>4, <1>7 DEF Rows
    <3>2. key # None => KeyOf(key) \in h /\ \A j \in Rows' : row'[j].key # key
      BY <1>3, <1>7, <1>12 DEF Rows
    <3>3. QED
      BY <1>5, <1>10, <2>1, <3>1, <3>2 DEF RowAdded
  <2>2. CASE i \in Fresh(t)
    <3>1. RowAdded(t, g, i)' /\ c.rows[i] = t.rows[i] /\ g \subseteq h
      BY <1>11, <2>2
    <3>2. QED
      BY <1>5, <3>1 DEF RowAdded
  <2>3. QED
    BY <1>6, <2>1, <2>2
<1>14. Distinct(c)
  BY <1>1, <1>5, <1>6, <1>10, <1>11, <1>12 DEF TxInv, RowsAdded, Distinct
<1>15. Drafts(c)
  BY <1>1, <1>2, <1>5, <1>6, <1>10 DEF TxInv, RowsAdded, Drafts
<1>16. RowsAdded(c, h)'
  BY <1>13, <1>14, <1>15 DEF RowsAdded
<1>17. TargetLocked(c, h)' /\ RemovedLocked(c, h)' /\ StockRead(c, h)'
  BY <1>2, <1>3, <1>4, <1>5, <1>8, LocksDiffer DEF TxInv, TargetLocked, RemovedLocked, StockRead
<1>18. h \subseteq Locks /\ (c.sequence # 0 => Counter \in h)
  BY <1>1, <1>3, <1>5 DEF TxInv, Locks
<1>19. TxInv(c, h)'
  <2>1. Counter \in h => Counter \in g
    BY <1>3, LocksDiffer
  <2>2. Counted(c, h)'
    BY <1>5, <1>6, <1>8, <1>10, <1>11, <2>1 DEF TxInv, Counted
  <2>3. QED
    BY <1>5, <1>9, <1>16, <1>17, <1>18, <2>2 DEF TxInv
<1>20. /\ tx' = [tx EXCEPT ![w] = c] /\ held' = [held EXCEPT ![w] = h]
       /\ requests' \in Seq(Kinds) /\ (NoReset' => NoReset /\ c.kind # "reset")
       /\ \A v \in Workers \ {w} : held[v] \cap h = {}
  BY <1>2, <1>5, GrantedLocks DEF Insert, Acquire, IInv, Unreset, NoReset
<1>21. QED
  BY <1>6, <1>7, <1>19, <1>20, OneTransaction
Numbered(r, n) == [r EXCEPT !.number = n]

LEMMA WithNumberFields ==
  ASSUME NEW t \in Transaction, NEW n \in Nat, t.keys # << >>,
         NEW d \in DOMAIN t.rows,
         \A i \in DOMAIN t.rows : t.rows[i].number = 0 <=> i = d
  PROVE  LET c == WithNumber(t, n)
         IN  /\ c \in Transaction
             /\ c.kind = t.kind /\ c.target = t.target /\ c.delta = t.delta
             /\ c.removed = t.removed /\ c.stock = t.stock
             /\ c.sequence = n /\ c.step = StepAfter(t.keys) /\ c.keys = Tail(t.keys)
             /\ DOMAIN c.rows = DOMAIN t.rows
             /\ c.rows[d] = Numbered(t.rows[d], n)
             /\ \A i \in DOMAIN t.rows \ {d} : c.rows[i] = t.rows[i]
<1>1. PICK rows : rows = [t.rows EXCEPT ![d] = Numbered(t.rows[d], n)]
  OBVIOUS
<1>2. /\ t.rows \in Table /\ t.keys \in Seq(Keys \cup {None})
      /\ Tail(t.keys) \in Seq(Keys \cup {None}) /\ StepAfter(t.keys) \in Steps
  BY NextKeys DEF Transaction, Steps
<1>3. t.rows[d] \in Document
  BY <1>2, TableFacts
<1>4. Numbered(t.rows[d], n) \in Document
  BY <1>3 DEF Numbered, Document
<1>5. /\ DOMAIN rows = DOMAIN t.rows
      /\ rows[d] = Numbered(t.rows[d], n)
      /\ \A i \in DOMAIN t.rows \ {d} : rows[i] = t.rows[i]
  BY <1>1, <1>2, TableFacts
<1>6. t.rows \in [DOMAIN t.rows -> Document] /\ DOMAIN t.rows \in SUBSET Nat
  BY <1>2, TableFacts
<1>7. rows \in Table
  <2>1. rows \in [DOMAIN t.rows -> Document]
    BY <1>1, <1>4, <1>6
  <2>2. QED
    BY <1>6, <2>1, Zenon DEF Table
<1>8. WithNumber(t, n) = [t EXCEPT !.rows = rows, !.sequence = n, !.step = StepAfter(t.keys),
                                   !.keys = Tail(t.keys)]
  <2>1. d = CHOOSE id \in DOMAIN t.rows : t.rows[id].number = 0
    BY Zenon
  <2>2. QED
    BY <1>1, <2>1, Zenon DEF WithNumber, Numbered
<1>9. QED
  BY <1>2, <1>5, <1>7, <1>8 DEF Transaction

LEMMA NumberKeepsIInv ==
  ASSUME IInv, NEW w \in Workers, Number(w)
  PROVE  IInv'
<1> PICK t, n, g, h : /\ t = tx[w] /\ n = NextNumber(w)
                      /\ g = held[w] /\ h = held[w] \cup Wanted(w)
  OBVIOUS
<1>1. TxInv(t, g) /\ t \in Transaction
  BY Own DEF TxInv
<1>2. /\ t.step = "number" /\ t.kind \in {"post", "deal", "void"} /\ t.keys # << >>
      /\ t.kind # "post" => t.keys = <<None>>
  <2>1. t.step = "number"
    BY DEF Number
  <2>2. t.kind \in {"post", "deal", "void"}
    BY <1>1, <2>1 DEF TxInv, Progress
  <2>3. t.keys # << >> /\ (t.kind # "post" => t.keys = <<None>>)
    <3>1. Progress(t) /\ <<None>> # << >>
      BY <1>1 DEF TxInv
    <3>2. QED
      BY <2>1, <2>2, <3>1 DEF Progress
  <2>4. QED
    BY <2>1, <2>2, <2>3
<1>3. h = g \cup {Counter}
  <2>1. Wanted(w) = {Counter}
    BY <1>2, Zenon DEF Wanted
  <2>2. QED
    BY <2>1
<1>4. n \in Nat \ {0} /\ ~NumberTaken(n) /\ (Counter \in g => n = t.sequence + 1)
  BY <1>1 DEF Number, NextNumber, IInv, Committed, Transaction
<1>5. PICK d \in Fresh(t) : t.rows[d].number = 0
  BY <1>1, <1>2 DEF TxInv, RowsAdded, Drafts
<1>6. PICK c : c = WithNumber(t, n)
  OBVIOUS
<1>7. /\ c \in Transaction
      /\ c.kind = t.kind /\ c.target = t.target /\ c.delta = t.delta
      /\ c.removed = t.removed /\ c.stock = t.stock
      /\ c.sequence = n /\ c.step = StepAfter(t.keys) /\ c.keys = Tail(t.keys)
      /\ DOMAIN c.rows = DOMAIN t.rows
      /\ c.rows[d] = Numbered(t.rows[d], n)
      /\ \A i \in DOMAIN t.rows \ {d} : c.rows[i] = t.rows[i]
  <2>1. t.target \in DOMAIN t.rows => t.rows[t.target].number # 0
    <3> SUFFICES ASSUME t.target \in DOMAIN t.rows
                 PROVE  t.rows[t.target].number # 0
      OBVIOUS
    <3>1. t.kind = "void"
      BY <1>1, <1>2 DEF TxInv, TargetLocked
    <3>2. t.target \in Rows /\ t.rows[t.target] = Voided(row[t.target])
      BY <1>1, <1>2, <3>1 DEF TxInv, TargetLocked
    <3>3. row[t.target] \in Document /\ row[t.target].number > 0
      BY <3>2, TableFacts DEF IInv, Committed, Rows
    <3>4. Voided(row[t.target]).number = row[t.target].number
      BY <3>3 DEF Voided, Document
    <3>5. QED
      BY <3>2, <3>3, <3>4
  <2>2. d \in DOMAIN t.rows /\ \A i \in DOMAIN t.rows : t.rows[i].number = 0 <=> i = d
    BY <1>1, <1>5, <2>1 DEF Fresh, TxInv, RowsAdded, Distinct
  <2>3. QED
    BY <1>1, <1>2, <1>4, <1>6, <2>2, WithNumberFields
<1>8. /\ c.rows[d].number = n /\ c.rows[d].status = t.rows[d].status
      /\ c.rows[d].key = t.rows[d].key /\ c.rows[d].reverses = t.rows[d].reverses
      /\ c.rows[d].delta = t.rows[d].delta
  <2>1. t.rows[d] \in Document
    BY <1>1, <1>5, TableFacts DEF Fresh, Transaction
  <2>2. QED
    BY <1>4, <1>7, <2>1 DEF Numbered, Document
<1>9. Fresh(c) = Fresh(t)
  BY <1>7 DEF Fresh
<1>10. /\ c.step \in {"commit", "lookup"}
       /\ c.step = "lookup" => t.kind = "post" /\ c.keys # << >>
  BY <1>1, <1>2, <1>7, NextKeys DEF Transaction
<1>11. Progress(c) /\ LocksTaken(c, h)
  BY <1>2, <1>3, <1>7, <1>10 DEF Progress, LocksTaken
<1>12. \A i \in Fresh(t) \ {d} :
         /\ c.rows[i] = t.rows[i] /\ t.rows[i].number # 0
         /\ t.rows[i].number <= t.sequence /\ Counter \in g
         /\ n = t.sequence + 1
  <2>1. \A i \in Fresh(t) \ {d} : c.rows[i] = t.rows[i] /\ t.rows[i].number # 0
    BY <1>1, <1>5, <1>7 DEF TxInv, RowsAdded, Distinct, Fresh
  <2>2. QED
    BY <1>1, <1>4, <2>1 DEF TxInv, RowsAdded, RowAdded
<1>13. ASSUME NEW i \in Fresh(c)
       PROVE  RowAdded(c, h, i)
  <2>1. RowAdded(t, g, i) /\ g \subseteq h
    BY <1>1, <1>3, <1>9 DEF TxInv, RowsAdded
  <2>2. CASE i = d
    BY <1>3, <1>4, <1>7, <1>8, <2>1, <2>2 DEF RowAdded
  <2>3. CASE i # d
    <3>1. c.rows[i] = t.rows[i] /\ t.rows[i].number <= c.sequence
      <4>1. t.rows[i].number \in Nat /\ t.sequence \in Nat
        BY <1>1, <1>9, TableFacts DEF Transaction, Document, Fresh
      <4>2. QED
        BY <1>4, <1>7, <1>9, <1>12, <2>3, <4>1
    <3>2. QED
      BY <1>7, <2>1, <3>1 DEF RowAdded
  <2>4. QED
    BY <2>2, <2>3
<1>14. Distinct(c)
  <2>1. \A i \in Fresh(t) \ {d} : t.rows[i].number # n
    <3>1. \A i \in Fresh(t) : t.rows[i].number \in Nat
      BY <1>1, TableFacts DEF Transaction, Document, Fresh
    <3>2. t.sequence \in Nat
      BY <1>1 DEF Transaction
    <3>3. QED
      BY <1>12, <3>1, <3>2
  <2>2. Distinct(t)
    BY <1>1 DEF TxInv, RowsAdded
  <2>3. QED
    BY <1>8, <1>9, <1>12, <2>1, <2>2 DEF Distinct
<1>15. Drafts(c)
  <2>1. \A i \in Fresh(c) : c.rows[i].number # 0
    BY <1>4, <1>8, <1>9, <1>12
  <2>2. QED
    BY <1>1, <1>2, <1>7, <1>9, <1>10, <2>1 DEF TxInv, RowsAdded, Drafts
<1>16. RowsAdded(c, h)
  BY <1>13, <1>14, <1>15 DEF RowsAdded
<1>17. TargetLocked(c, h) /\ RemovedLocked(c, h) /\ StockRead(c, h)
  BY <1>1, <1>2, <1>3, <1>5, <1>7, <1>10, LocksDiffer
     DEF TxInv, TargetLocked, RemovedLocked, StockRead, Fresh
<1>18. Counted(c, h)
  <2> SUFFICES ASSUME NoReset
               PROVE  /\ n >= sequence
                      /\ \A i \in Fresh(t) : c.rows[i].number # 0 => c.rows[i].number > sequence
                      /\ \A m \in (sequence + 1)..n : \E i \in Fresh(t) : c.rows[i].number = m
    BY <1>7, <1>9 DEF Counted
  <2>1. sequence \in Nat /\ t.sequence \in Nat
    BY <1>1 DEF IInv, Committed, Transaction
  <2>2. CASE Counter \in g
    <3>1. /\ t.sequence >= sequence /\ n = t.sequence + 1
          /\ \A i \in Fresh(t) : t.rows[i].number # 0 => t.rows[i].number > sequence
          /\ \A m \in (sequence + 1)..t.sequence : \E i \in Fresh(t) : t.rows[i].number = m
      BY <1>1, <1>4, <2>2 DEF TxInv, Counted
    <3>2. ASSUME NEW m \in (sequence + 1)..n
          PROVE  \E i \in Fresh(t) : c.rows[i].number = m
      <4>1. CASE m = n
        BY <1>5, <1>8, <4>1
      <4>2. CASE m # n
        <5>1. m \in (sequence + 1)..t.sequence /\ m # 0
          BY <2>1, <3>1, <4>2
        <5>2. PICK i \in Fresh(t) : t.rows[i].number = m
          BY <3>1, <5>1
        <5>3. QED
          BY <1>5, <1>12, <5>1, <5>2
      <4>3. QED
        BY <4>1, <4>2
    <3>3. n > sequence
      BY <2>1, <3>1
    <3>4. QED
      BY <1>8, <1>12, <2>1, <3>1, <3>2, <3>3
  <2>3. CASE Counter \notin g
    <3>1. n = sequence + 1
      BY <2>1, <2>3 DEF NextNumber
    <3>2. Fresh(t) = {d}
      BY <1>5, <1>12, <2>3
    <3>3. \A m \in (sequence + 1)..n : m = n
      BY <2>1, <3>1
    <3>4. QED
      BY <1>8, <2>1, <3>1, <3>2, <3>3
  <2>4. QED
    BY <2>2, <2>3
<1>19. TxInv(c, h)
  BY <1>1, <1>3, <1>7, <1>11, <1>16, <1>17, <1>18 DEF TxInv, Locks
<1>20. /\ tx' = [tx EXCEPT ![w] = c] /\ held' = [held EXCEPT ![w] = h]
       /\ UNCHANGED <<row, sequence, stock, nextId, requests>>
       /\ \A v \in Workers \ {w} : held[v] \cap h = {}
  BY <1>6, GrantedLocks DEF Number, Acquire, UnchangedTables
<1>21. QED
  BY <1>7, <1>9, <1>19, <1>20, StatementStep

-----------------------------------------------------------------------------
(* Requests *)

LEMMA BeginKeepsIInv ==
  ASSUME IInv, NEW w \in Workers, NEW c, Begin(w, c), c.kind \in Kinds, TxInv(c, {}),
         Fresh(c) = {}
  PROVE  IInv'
<1>1. held[w] = {}
  BY Own DEF Begin, TxInv, LocksTaken
<1>2. held' = [held EXCEPT ![w] = {}] /\ \A v \in Workers \ {w} : held[v] \cap {} = {}
  BY <1>1, Own DEF Begin
<1>3. requests' \in Seq(Kinds) /\ (NoReset' => NoReset /\ c.kind # "reset")
  <2>1. requests \in Seq(Kinds) /\ requests' = Append(requests, c.kind)
    BY DEF Begin, IInv, Unreset
  <2>2. /\ requests' \in Seq(Kinds) /\ DOMAIN requests \subseteq DOMAIN requests'
        /\ \A i \in DOMAIN requests : requests'[i] = requests[i]
        /\ Len(requests) + 1 \in DOMAIN requests' /\ requests'[Len(requests) + 1] = c.kind
    BY <2>1
  <2>3. QED
    BY <2>2 DEF NoReset
<1>4. TxInv(c, {})'
  BY <1>3, TxInvKept DEF Begin, IInv, Committed
<1>5. QED
  BY <1>2, <1>3, <1>4, OneTransaction DEF Begin

LEMMA NothingWritten ==
  ASSUME NEW t \in Transaction, Progress(t), LocksTaken(t, {}), t.rows = << >>,
         t.removed = {}, t.sequence = 0, t.step \in {"lookup", "lockStock", "lockVoucher", "removeAll"},
         t.step = "lockStock" <=> t.kind = "deal",
         t.kind \in {"post", "deal", "reset"} => t.target = 0
  PROVE  TxInv(t, {}) /\ Fresh(t) = {}
<1>1. Fresh(t) = {} /\ DOMAIN t.rows = {}
  BY EmptyTable DEF Fresh
<1>2. RowsAdded(t, {})
  BY <1>1 DEF RowsAdded, Distinct, Drafts, Progress
<1>3. TargetLocked(t, {}) /\ RemovedLocked(t, {}) /\ StockRead(t, {})
  BY <1>1 DEF TargetLocked, RemovedLocked, StockRead, Progress
<1>4. QED
  BY <1>1, <1>2, <1>3 DEF TxInv, Counted

LEMMA RequestKeepsIInv ==
  ASSUME IInv, PostingAssumption, NEW w \in Workers, Request(w)
  PROVE  IInv'
<1>2. ASSUME NEW keys \in Batches, BeginPost(w, keys)
      PROVE  IInv'
  <2>1. PICK c : c = [Idle EXCEPT !.step = "lookup", !.kind = "post", !.keys = keys]
    OBVIOUS
  <2>2. keys \in Seq(Keys \cup {None}) /\ keys # << >>
    BY DEF PostingAssumption
  <2>3. /\ c \in Transaction /\ c.step = "lookup" /\ c.kind = "post" /\ c.keys = keys
        /\ c.rows = << >> /\ c.removed = {} /\ c.sequence = 0 /\ c.target = 0
    BY <2>1, <2>2, IdleType DEF Transaction, Idle, Steps, Kinds
  <2>4. TxInv(c, {}) /\ Fresh(c) = {}
    BY <2>2, <2>3, NothingWritten DEF Progress, LocksTaken
  <2>5. QED
    BY <1>2, <2>1, <2>3, <2>4, BeginKeepsIInv DEF BeginPost, Kinds
<1>3. ASSUME NEW delta \in Deltas, BeginDeal(w, delta)
      PROVE  IInv'
  <2>1. PICK c : c = [Idle EXCEPT !.step = "lockStock", !.kind = "deal", !.delta = delta,
                                  !.keys = <<None>>]
    OBVIOUS
  <2>2. <<None>> \in Seq(Keys \cup {None}) /\ delta \in Int
    BY DEF PostingAssumption
  <2>3. /\ c \in Transaction /\ c.step = "lockStock" /\ c.kind = "deal" /\ c.keys = <<None>>
        /\ c.rows = << >> /\ c.removed = {} /\ c.sequence = 0 /\ c.target = 0
    BY <2>1, <2>2, IdleType DEF Transaction, Idle, Steps, Kinds
  <2>4. TxInv(c, {}) /\ Fresh(c) = {}
    BY <2>3, NothingWritten DEF Progress, LocksTaken
  <2>5. QED
    BY <1>3, <2>1, <2>3, <2>4, BeginKeepsIInv DEF BeginDeal, Kinds
<1>4. ASSUME NEW kind \in {"void", "delete"}, NEW id \in Rows, BeginCorrection(w, kind, id)
      PROVE  IInv'
  <2>1. PICK c : c = [Idle EXCEPT !.step = "lockVoucher", !.kind = kind, !.target = id]
    OBVIOUS
  <2>2. id \in Nat
    BY RowIds
  <2>3. /\ c \in Transaction /\ c.step = "lockVoucher" /\ c.kind = kind
        /\ c.rows = << >> /\ c.removed = {} /\ c.sequence = 0
    BY <2>1, <2>2, IdleType DEF Transaction, Idle, Steps, Kinds
  <2>4. TxInv(c, {}) /\ Fresh(c) = {}
    BY <2>3, NothingWritten DEF Progress, LocksTaken
  <2>5. QED
    BY <1>4, <2>1, <2>3, <2>4, BeginKeepsIInv DEF BeginCorrection, Kinds
<1>5. ASSUME BeginReset(w)
      PROVE  IInv'
  <2>1. PICK c : c = [Idle EXCEPT !.step = "removeAll", !.kind = "reset"]
    OBVIOUS
  <2>2. /\ c \in Transaction /\ c.step = "removeAll" /\ c.kind = "reset"
        /\ c.rows = << >> /\ c.removed = {} /\ c.sequence = 0 /\ c.target = 0
    BY <2>1, IdleType DEF Transaction, Idle, Steps, Kinds
  <2>3. TxInv(c, {}) /\ Fresh(c) = {}
    BY <2>2, NothingWritten DEF Progress, LocksTaken
  <2>4. QED
    BY <1>5, <2>1, <2>2, <2>3, BeginKeepsIInv DEF BeginReset, Kinds
<1>6. QED
  BY <1>2, <1>3, <1>4, <1>5 DEF Request
-----------------------------------------------------------------------------
(* Commit *)

\* What a commit leaves: the new rows, and the old ones but for the status of the
\* document that is voided.
LEMMA CommitRows ==
  ASSUME IInv, NEW w \in Workers, Commit(w), NEW t, t = tx[w]
  PROVE  /\ row' \in Table
         /\ Rows' = Fresh(t) \cup (Rows \ t.removed)
         /\ \A i \in Fresh(t) : row'[i] = t.rows[i]
         /\ \A i \in Rows \ t.removed :
              /\ i \notin Fresh(t)
              /\ row'[i] = IF t.kind = "void" /\ i = t.target THEN Voided(row[i]) ELSE row[i]
<1>1. TxInv(t, held[w]) /\ t \in Transaction /\ t.step = "commit"
  BY Own DEF TxInv, Commit
<1>2. PICK kept : kept = [i \in Rows \ t.removed |-> row[i]]
  OBVIOUS
<1>3. row' = Over(t.rows, kept)
  BY <1>2 DEF Commit
<1>4. t.rows \in Table /\ row \in Table
  BY <1>1 DEF Transaction, IInv, Committed
<1>5. /\ kept \in Table
      /\ DOMAIN kept = Rows \ t.removed
      /\ \A i \in Rows \ t.removed : kept[i] = row[i]
  <2>1. DOMAIN kept = Rows \ t.removed /\ \A i \in Rows \ t.removed : kept[i] = row[i]
    BY <1>2
  <2>2. kept = [i \in DOMAIN kept |-> kept[i]]
    BY <1>2
  <2>3. QED
    BY <1>4, <2>1, <2>2, TableFacts, IsTable DEF Rows
<1>6. /\ row' \in Table
      /\ Rows' = DOMAIN t.rows \cup (Rows \ t.removed)
      /\ \A i \in DOMAIN t.rows : row'[i] = t.rows[i]
      /\ \A i \in (Rows \ t.removed) \ DOMAIN t.rows : row'[i] = row[i]
  <2>1. PICK f, a : a = t.rows /\ f = Over(a, kept)
    OBVIOUS
  <2>2. /\ f \in Table /\ DOMAIN f = DOMAIN a \cup DOMAIN kept
        /\ \A i \in DOMAIN a : f[i] = a[i]
        /\ \A i \in DOMAIN kept \ DOMAIN a : f[i] = kept[i]
    <3>1. a \in Table /\ kept \in Table
      BY <1>4, <1>5, <2>1
    <3>2. /\ Over(a, kept) \in Table
          /\ DOMAIN Over(a, kept) = DOMAIN a \cup DOMAIN kept
          /\ \A i \in DOMAIN a : Over(a, kept)[i] = a[i]
          /\ \A i \in DOMAIN kept \ DOMAIN a : Over(a, kept)[i] = kept[i]
      BY <3>1, OverFacts, Zenon
    <3>3. QED
      BY <2>1, <3>2, Zenon
  <2>3. row' = f /\ a = t.rows
    BY <1>3, <2>1
  <2>4. QED
    BY <1>5, <2>2, <2>3 DEF Rows
<1>7. t.kind = "void" => /\ t.target \in Rows \ t.removed /\ t.target \in DOMAIN t.rows
                         /\ t.rows[t.target] = Voided(row[t.target])
  BY <1>1 DEF TxInv, TargetLocked, RemovedLocked
<1>8. t.kind # "void" => t.target \notin DOMAIN t.rows
  BY <1>1 DEF TxInv, TargetLocked, RowsAdded, Drafts, Transaction, Kinds
<1>9. \A i \in Rows : i \notin Fresh(t)
  BY <1>1 DEF TxInv, RowsAdded, RowAdded
<1>10. DOMAIN t.rows = Fresh(t) \cup (IF t.kind = "void" THEN {t.target} ELSE {})
  BY <1>7, <1>8 DEF Fresh
<1>11. QED
  BY <1>6, <1>7, <1>9, <1>10

\* The same in terms of what other transactions and the invariants look at.
LEMMA CommitFields ==
  ASSUME IInv, NEW w \in Workers, Commit(w), NEW t, t = tx[w]
  PROVE  /\ \A i \in Fresh(t) :
              /\ i \in Rows' /\ row'[i].number > 0 /\ row'[i].status = "final"
              /\ row'[i].reverses = t.target
              /\ Counter \in held[w]
              /\ ~NumberTaken(row'[i].number)
              /\ row'[i].key # None =>
                   /\ KeyOf(row'[i].key) \in held[w]
                   /\ \A j \in Rows : row[j].key # row'[i].key
              /\ row'[i].delta = IF t.kind = "deal" THEN t.delta ELSE 0
         /\ \A i, j \in Fresh(t) : i # j =>
              /\ row'[i].number # row'[j].number
              /\ row'[i].key # None => row'[i].key # row'[j].key
         /\ \A i \in Rows \ t.removed :
              /\ i \in Rows'
              /\ row'[i].number = row[i].number /\ row'[i].key = row[i].key
              /\ row'[i].reverses = row[i].reverses /\ row'[i].delta = row[i].delta
              /\ row'[i].status = IF t.kind = "void" /\ i = t.target THEN "void" ELSE row[i].status
         /\ Rows' = Fresh(t) \cup (Rows \ t.removed)
<1>1. TxInv(t, held[w]) /\ t \in Transaction /\ t.step = "commit"
  BY Own DEF TxInv, Commit
<1>2. /\ Rows' = Fresh(t) \cup (Rows \ t.removed)
      /\ \A i \in Fresh(t) : row'[i] = t.rows[i]
      /\ \A i \in Rows \ t.removed :
           row'[i] = IF t.kind = "void" /\ i = t.target THEN Voided(row[i]) ELSE row[i]
  BY CommitRows
<1>3. \A i \in Fresh(t) : t.rows[i].number \in Nat /\ t.rows[i].number # 0
  BY <1>1, TableFacts DEF TxInv, RowsAdded, Drafts, Fresh, Transaction, Document
<1>4. \A i \in Fresh(t) : RowAdded(t, held[w], i)
  BY <1>1 DEF TxInv, RowsAdded
<1>5. ASSUME NEW i \in Rows
      PROVE  /\ Voided(row[i]).number = row[i].number /\ Voided(row[i]).key = row[i].key
             /\ Voided(row[i]).reverses = row[i].reverses /\ Voided(row[i]).delta = row[i].delta
             /\ Voided(row[i]).status = "void"
  <2>1. row[i] \in Document
    BY TableFacts DEF IInv, Committed, Rows
  <2>2. QED
    BY <2>1 DEF Voided, Document
<1>6. ASSUME NEW i \in Fresh(t)
      PROVE  /\ i \in Rows' /\ row'[i].number > 0 /\ row'[i].status = "final"
             /\ row'[i].reverses = t.target
             /\ Counter \in held[w]
             /\ ~NumberTaken(row'[i].number)
             /\ row'[i].key # None =>
                  /\ KeyOf(row'[i].key) \in held[w]
                  /\ \A j \in Rows : row[j].key # row'[i].key
             /\ row'[i].delta = IF t.kind = "deal" THEN t.delta ELSE 0
  BY <1>2, <1>3, <1>4 DEF RowAdded
<1>7. \A i, j \in Fresh(t) : i # j =>
        /\ row'[i].number # row'[j].number
        /\ row'[i].key # None => row'[i].key # row'[j].key
  BY <1>1, <1>2 DEF TxInv, RowsAdded, Distinct
<1>8. \A i \in Rows \ t.removed :
        /\ i \in Rows'
        /\ row'[i].number = row[i].number /\ row'[i].key = row[i].key
        /\ row'[i].reverses = row[i].reverses /\ row'[i].delta = row[i].delta
        /\ row'[i].status = IF t.kind = "void" /\ i = t.target THEN "void" ELSE row[i].status
  BY <1>2, <1>5
<1>9. QED
  BY <1>2, <1>6, <1>7, <1>8

LEMMA CommitKeepsCommitted ==
  ASSUME IInv, NEW w \in Workers, Commit(w)
  PROVE  Committed'
<1> PICK t : t = tx[w]
  OBVIOUS
<1>1. TxInv(t, held[w]) /\ t \in Transaction /\ t.step = "commit"
  BY Own DEF TxInv, Commit
<1>2. /\ nextId \in Nat \ {0} /\ nextId' = nextId /\ row' \in Table
      /\ sequence' \in Nat /\ stock' \in Int
  BY <1>1, CommitRows DEF Commit, Release, IInv, Committed, Transaction
<1>3. Rows' \subseteq 1..(nextId' - 1)
  <2>1. \A i \in Fresh(t) : i \in 1..(nextId - 1)
    BY <1>1 DEF TxInv, RowsAdded, RowAdded
  <2>2. \A i \in Rows : i \in 1..(nextId - 1)
    BY DEF IInv, Committed
  <2>3. QED
    BY <1>2, <2>1, <2>2, CommitFields
<1>4. \A i \in Rows' : row'[i].number > 0
  BY CommitFields DEF IInv, Committed
<1>5. NumbersUnique'
  <2> SUFFICES ASSUME NEW i \in Rows', NEW j \in Rows', row'[i].number = row'[j].number
               PROVE  i = j
    BY DEF NumbersUnique
  <2>1. CASE i \in Fresh(t) /\ j \in Fresh(t)
    BY <2>1, CommitFields
  <2>2. CASE i \in Rows \ t.removed /\ j \in Rows \ t.removed
    BY <2>2, CommitFields DEF IInv, Committed, NumbersUnique
  <2>3. CASE i \in Fresh(t) /\ j \in Rows \ t.removed
    BY <2>3, CommitFields DEF NumberTaken
  <2>4. CASE i \in Rows \ t.removed /\ j \in Fresh(t)
    BY <2>4, CommitFields DEF NumberTaken
  <2>5. QED
    BY <2>1, <2>2, <2>3, <2>4, CommitFields
<1>6. KeysUnique'
  <2> SUFFICES ASSUME NEW i \in Rows', NEW j \in Rows',
                      row'[i].key # None, row'[i].key = row'[j].key
               PROVE  i = j
    BY DEF KeysUnique
  <2>1. CASE i \in Fresh(t) /\ j \in Fresh(t)
    BY <2>1, CommitFields
  <2>2. CASE i \in Rows \ t.removed /\ j \in Rows \ t.removed
    BY <2>2, CommitFields DEF IInv, Committed, KeysUnique
  <2>3. CASE i \in Fresh(t) /\ j \in Rows \ t.removed
    BY <2>3, CommitFields
  <2>4. CASE i \in Rows \ t.removed /\ j \in Fresh(t)
    BY <2>4, CommitFields
  <2>5. QED
    BY <2>1, <2>2, <2>3, <2>4, CommitFields
<1>7. VoidsReversed'
  <2> SUFFICES ASSUME NEW i \in Rows', row'[i].status = "void"
               PROVE  \E r \in Rows' : row'[r].reverses = i
    BY DEF VoidsReversed, HasReversal
  <2>1. i \in Rows \ t.removed /\ i \in Nat \ {0}
    BY CommitFields, RowIds
  <2>2. CASE row[i].status = "void"
    <3>1. PICK r \in Rows : row[r].reverses = i
      BY <2>1, <2>2 DEF IInv, Committed, VoidsReversed, HasReversal
    <3>2. r \notin t.removed
      BY <1>1, <2>1, <3>1 DEF TxInv, RemovedLocked
    <3>3. QED
      BY <3>1, <3>2, CommitFields
  <2>3. CASE t.kind = "void" /\ i = t.target
    <3>1. PICK r : Fresh(t) = {r}
      BY <1>1, <2>3 DEF TxInv, RowsAdded, Drafts
    <3>2. QED
      BY <2>3, <3>1, CommitFields
  <2>4. QED
    BY <2>1, <2>2, <2>3, CommitFields
<1>8. QED
  BY <1>2, <1>3, <1>4, <1>5, <1>6, <1>7 DEF Committed

\* Locks keep a commit from what another open transaction relies on.
LEMMA CommitKeepsOthers ==
  ASSUME IInv, NEW w \in Workers, Commit(w), NEW v \in Workers \ {w},
         NEW u, NEW k, u = tx[v], k = held[v]
  PROVE  TxInv(u, k)'
<1> PICK t, g : t = tx[w] /\ g = held[w]
  OBVIOUS
<1>1. TxInv(t, g) /\ t \in Transaction /\ t.step = "commit" /\ TxInv(u, k)
  BY Own DEF TxInv, Commit
<1>2. k \cap g = {} /\ Fresh(u) \cap Fresh(t) = {} /\ nextId' = nextId
  BY DEF IInv, Open, Exclusive, Commit, Release
<1>3. Stock \in k => stock' = stock
  BY <1>2 DEF Commit
<1>4. \A i \in Rows : RowOf(i) \in k => /\ i \in Rows' /\ row'[i] = row[i]
                                        /\ i \notin t.removed
  <2> SUFFICES ASSUME NEW i \in Rows, RowOf(i) \in k
               PROVE  i \in Rows' /\ row'[i] = row[i] /\ i \notin t.removed
    OBVIOUS
  <2>1. i \notin t.removed
    BY <1>1, <1>2 DEF TxInv, RemovedLocked
  <2>2. ~(t.kind = "void" /\ i = t.target)
    BY <1>1, <1>2 DEF TxInv, TargetLocked
  <2>3. QED
    BY <2>1, <2>2, CommitRows
<1>5. \A i \in Rows : RowOf(i) \in k /\ ~HasReversal(i) => ~HasReversal(i)'
  <2> SUFFICES ASSUME NEW i \in Rows, RowOf(i) \in k, ~HasReversal(i),
                      NEW r \in Rows', row'[r].reverses = i
               PROVE  FALSE
    BY DEF HasReversal
  <2>1. t.target # i
    <3>1. t.target = 0 \/ RowOf(t.target) \in g
      BY <1>1 DEF TxInv, TargetLocked, Transaction, Kinds
    <3>2. QED
      BY <1>2, <3>1, RowIds
  <2>2. QED
    BY <2>1, CommitFields DEF HasReversal
<1>6. RowsAdded(u, k)'
  <2>1. ASSUME NEW i \in Fresh(u)
        PROVE  RowAdded(u, k, i)'
    <3>1. RowAdded(u, k, i)
      BY <1>1 DEF TxInv, RowsAdded
    <3>2. i \notin Rows'
      BY <1>2, <3>1, CommitFields DEF RowAdded
    <3>3. u.rows[i].number # 0 => ~NumberTaken(u.rows[i].number)'
      <4> SUFFICES ASSUME u.rows[i].number # 0,
                          NEW j \in Rows', row'[j].number = u.rows[i].number
                   PROVE  FALSE
        BY DEF NumberTaken
      <4>1. Counter \in k /\ Counter \notin g /\ ~NumberTaken(u.rows[i].number)
        BY <1>2, <3>1 DEF RowAdded
      <4>2. QED
        BY <4>1, CommitFields DEF NumberTaken
    <3>4. ASSUME u.rows[i].key # None, NEW j \in Rows', row'[j].key = u.rows[i].key
          PROVE  FALSE
      <4>1. KeyOf(u.rows[i].key) \in k /\ \A m \in Rows : row[m].key # u.rows[i].key
        BY <3>1, <3>4 DEF RowAdded
      <4>2. QED
        BY <1>2, <3>4, <4>1, CommitFields
    <3>5. QED
      BY <1>2, <3>1, <3>2, <3>3, <3>4 DEF RowAdded
  <2>2. QED
    BY <1>1, <2>1 DEF TxInv, RowsAdded
<1>7. TargetLocked(u, k)'
  BY <1>1, <1>4, <1>5 DEF TxInv, TargetLocked
<1>8. RemovedLocked(u, k)'
  BY <1>1, <1>4, <1>5 DEF TxInv, RemovedLocked
<1>9. StockRead(u, k)'
  BY <1>1, <1>3 DEF TxInv, StockRead
<1>10. Counted(u, k)'
  <2>1. Counter \in k => sequence' = sequence
    BY <1>2 DEF Commit
  <2>2. NoReset' <=> NoReset
    BY DEF Commit, Release, NoReset
  <2>3. QED
    BY <1>1, <2>1, <2>2 DEF TxInv, Counted
<1>11. QED
  BY <1>1, <1>6, <1>7, <1>8, <1>9, <1>10 DEF TxInv
\* A commit changes what the documents in force add up to by what it adds to the stock.
LEMMA CommitKeepsStock ==
  ASSUME IInv, NEW w \in Workers, Commit(w), StockFollowsDocuments, tx[w].kind # "reset"
  PROVE  StockFollowsDocuments'
<1> PICK t, g : t = tx[w] /\ g = held[w]
  OBVIOUS
<1> PICK f, e, S, T :
      /\ f = [i \in Rows |-> row[i].delta] /\ S = {i \in Rows : row[i].status = "final"}
      /\ e = [i \in Rows' |-> row'[i].delta] /\ T = {i \in Rows' : row'[i].status = "final"}
  OBVIOUS
<1>1. TxInv(t, g) /\ t \in Transaction /\ t.step = "commit" /\ t.kind # "reset"
  BY Own DEF TxInv, Commit
<1>2. /\ stock = SumFunctionOnSet(f, S)
      /\ StockFollowsDocuments' <=> stock' = SumFunctionOnSet(e, T)
      /\ stock' = IF Stock \in g THEN t.stock ELSE stock
  BY DEF StockFollowsDocuments, Commit
<1>3. Committed /\ Committed' /\ nextId' = nextId
  BY CommitKeepsCommitted DEF IInv, Commit, Release
<1>4. IsFiniteSet(S) /\ IsFiniteSet(T)
  <2>1. IsFiniteSet(1..(nextId - 1))
    BY <1>3, FS_Interval DEF Committed
  <2>2. S \subseteq 1..(nextId - 1) /\ T \subseteq 1..(nextId - 1)
    BY <1>3 DEF Committed
  <2>3. QED
    BY <2>1, <2>2, FS_Subset
<1>5. (\A i \in S : f[i] \in Int) /\ (\A i \in T : e[i] \in Int)
  BY <1>3, TableFacts DEF Committed, Rows, Document
<1>6. stock \in Int
  BY <1>3 DEF Committed
<1>7. /\ \A i \in S \ t.removed : /\ e[i] = f[i]
                                  /\ i \in T \/ (t.kind = "void" /\ i = t.target)
      /\ \A i \in Fresh(t) : i \in T /\ i \notin S /\ e[i] = IF t.kind = "deal" THEN t.delta ELSE 0
      /\ T \subseteq Fresh(t) \cup (S \ t.removed)
      /\ t.kind = "void" => t.target \notin T
  <2>1. \A i \in Fresh(t) : i \notin Rows
    BY <1>1 DEF TxInv, RowsAdded, RowAdded
  <2>2. t.kind = "void" => t.target \in Rows \ t.removed
    BY <1>1 DEF TxInv, TargetLocked, RemovedLocked
  <2>3. QED
    BY <2>1, <2>2, CommitFields
<1>8. ASSUME \A i \in Fresh(t) : e[i] = 0, t.removed = {}, t.kind # "void"
      PROVE  SumFunctionOnSet(e, T) = SumFunctionOnSet(f, S)
  <2>1. S \subseteq T /\ \A i \in T \ S : e[i] = 0
    BY <1>7, <1>8
  <2>2. SumFunctionOnSet(e, T) = SumFunctionOnSet(e, S)
    BY <1>4, <1>5, <2>1, SumIgnore
  <2>3. \A i \in S : e[i] = f[i]
    BY <1>7, <1>8
  <2>4. QED
    BY <1>4, <2>2, <2>3, SumEqual
<1>9. CASE t.kind \in {"none", "post"}
  <2>1. t.removed = {} /\ (Stock \in g => t.kind = "none")
    BY <1>1, <1>9 DEF TxInv, RemovedLocked, StockRead
  <2>2. t.kind = "post"
    BY <1>1, <1>9 DEF TxInv, Progress
  <2>3. QED
    BY <1>2, <1>7, <1>8, <2>1, <2>2
<1>10. CASE t.kind = "deal"
  <2>1. Stock \in g /\ t.stock = stock + t.delta /\ t.removed = {}
    BY <1>1, <1>10 DEF TxInv, RemovedLocked, StockRead
  <2>2. PICK d : Fresh(t) = {d}
    BY <1>1, <1>10 DEF TxInv, RowsAdded, Drafts
  <2>3. T = S \cup {d} /\ d \notin S /\ e[d] = t.delta
    BY <1>7, <1>10, <2>1, <2>2
  <2>4. SumFunctionOnSet(e, T) = SumFunctionOnSet(e, S) + t.delta
    <3>1. \A i \in S \cup {d} : e[i] \in Int
      BY <1>5, <2>3
    <3>2. SumFunctionOnSet(e, T) = e[d] + SumFunctionOnSet(e, T \ {d})
      BY <1>4, <1>5, <2>3, SumRemove
    <3>3. T \ {d} = S /\ IsFiniteSet(S) /\ \A i \in S : e[i] \in Int
      BY <1>4, <2>3, <3>1
    <3>4. SumFunctionOnSet(e, S) \in Int /\ e[d] \in Int
      BY <2>3, <3>1, <3>3, SumInt
    <3>5. SumFunctionOnSet(e, T) = e[d] + SumFunctionOnSet(e, S)
      BY <3>2, <3>3, Zenon
    <3>6. QED
      BY <2>3, <3>4, <3>5
  <2>5. SumFunctionOnSet(e, S) = SumFunctionOnSet(f, S)
    BY <1>4, <1>7, <2>1, SumEqual
  <2>6. QED
    BY <1>2, <2>1, <2>4, <2>5
<1>11. CASE t.kind \in {"void", "delete"}
  <2> PICK i : i = t.target
    OBVIOUS
  <2>1. /\ i \in S /\ f[i] = -t.delta /\ t.removed = IF t.kind = "delete" THEN {i} ELSE {}
        /\ Stock \in g => t.stock = stock + t.delta
        /\ t.delta = 0 \/ Stock \in g
        /\ t.delta \in Int
    <3>1. /\ i \in Rows /\ row[i].status = "final" /\ t.delta = -row[i].delta
          /\ t.kind = "delete" => t.removed = {i}
      BY <1>1, <1>11 DEF TxInv, TargetLocked
    <3>2. row[i].delta \in Int
      BY <1>3, <3>1, TableFacts DEF Committed, Rows, Document
    <3>3. t.kind = "void" => t.removed = {}
      BY <1>1 DEF TxInv, RemovedLocked
    <3>4. /\ Stock \in g => t.stock = stock + t.delta
          /\ t.delta = 0 \/ Stock \in g
      BY <1>1, <1>11 DEF TxInv, StockRead
    <3>5. PICK x : x = row[i].delta
      OBVIOUS
    <3>6. f[i] = x /\ i \in S
      BY <3>1, <3>5
    <3>7. t.delta = -x /\ x \in Int
      BY <3>1, <3>2, <3>5
    <3>8. f[i] = -t.delta /\ t.delta \in Int
      BY <3>6, <3>7
    <3>9. t.removed = IF t.kind = "delete" THEN {i} ELSE {}
      BY <1>11, <3>1, <3>3
    <3>10. QED
      BY <3>4, <3>6, <3>8, <3>9
  <2>2. stock' = stock + t.delta
    BY <1>2, <1>6, <2>1
  <2>3. SumFunctionOnSet(f, S) = f[i] + SumFunctionOnSet(f, S \ {i})
    BY <1>4, <1>5, <2>1, SumRemove
  <2>4. IsFiniteSet(S \ {i}) /\ SumFunctionOnSet(f, S \ {i}) \in Int
    BY <1>4, <1>5, SumInt, FS_Subset
  <2>5. S \ {i} \subseteq T /\ \A j \in T \ (S \ {i}) : e[j] = 0
    BY <1>7, <1>11, <2>1
  <2>6. SumFunctionOnSet(e, T) = SumFunctionOnSet(e, S \ {i})
    BY <1>4, <1>5, <2>5, SumIgnore
  <2>7. \A j \in S \ {i} : e[j] = f[j]
    BY <1>7, <1>11, <2>1
  <2>8. SumFunctionOnSet(e, S \ {i}) = SumFunctionOnSet(f, S \ {i})
    BY <2>4, <2>7, SumEqual
  <2>9. QED
    BY <1>2, <2>1, <2>2, <2>3, <2>4, <2>6, <2>8
<1>12. QED
  BY <1>1, <1>9, <1>10, <1>11 DEF Transaction, Kinds

\* Without a reset no number on file is beyond the counter, and what a document
\* reverses is on file.
LEMMA CommitKeepsRegister ==
  ASSUME IInv, NEW w \in Workers, Commit(w), NoReset
  PROVE  /\ NumbersIssued'
         /\ \A i \in Rows' : row'[i].reverses # 0 => row'[i].reverses \in Rows'
<1> PICK t, g : t = tx[w] /\ g = held[w]
  OBVIOUS
<1>1. TxInv(t, g) /\ t \in Transaction /\ t.step = "commit"
  BY Own DEF TxInv, Commit
<1>2. /\ sequence \in Nat /\ t.sequence \in Nat
      /\ sequence' = IF Counter \in g THEN t.sequence ELSE sequence
      /\ Counter \in g => t.sequence >= sequence
  BY <1>1 DEF Commit, IInv, Committed, Transaction, TxInv, Counted
<1>3. \A i \in Rows : row[i].number \in Nat /\ row[i].number <= sequence
  BY TableFacts DEF IInv, Committed, Unreset, NumbersIssued, Rows, Document
<1>4. ASSUME NEW i \in Rows'
      PROVE  row'[i].number <= sequence'
  <2>1. CASE i \in Rows \ t.removed
    <3>1. row'[i].number = row[i].number
      BY <2>1, CommitFields
    <3>2. row[i].number \in Nat /\ row[i].number <= sequence
      BY <1>3, <2>1
    <3>3. QED
      BY <1>2, <3>1, <3>2
  <2>2. CASE i \in Fresh(t)
    <3>1. row'[i] = t.rows[i] /\ t.rows[i].number # 0
      BY <1>1, <2>2, CommitRows DEF TxInv, RowsAdded, Drafts
    <3>2. Counter \in g /\ t.rows[i].number <= t.sequence
      BY <1>1, <2>2, <3>1 DEF TxInv, RowsAdded, RowAdded
    <3>3. QED
      BY <1>2, <3>1, <3>2
  <2>3. QED
    BY <2>1, <2>2, CommitFields
<1>5. ASSUME NEW i \in Rows', row'[i].reverses # 0
      PROVE  row'[i].reverses \in Rows'
  <2>1. CASE i \in Rows \ t.removed
    <3> PICK j : j = row[i].reverses
      OBVIOUS
    <3>1. row'[i].reverses = j /\ j \in Rows
      BY <1>5, <2>1, CommitFields DEF IInv, Unreset
    <3>2. j \notin t.removed
      BY <1>1, <2>1 DEF TxInv, RemovedLocked, HasReversal
    <3>3. QED
      BY <3>1, <3>2, CommitFields
  <2>2. CASE i \in Fresh(t)
    <3>1. row'[i].reverses = t.target
      BY <2>2, CommitFields
    <3>2. t.kind = "void"
      BY <1>1, <1>5, <2>2, <3>1
         DEF TxInv, TargetLocked, RowsAdded, Drafts, Fresh, Transaction, Kinds
    <3>3. t.target \in Rows \ t.removed
      BY <1>1, <3>2 DEF TxInv, TargetLocked, RemovedLocked
    <3>4. QED
      BY <3>1, <3>3, CommitFields
  <2>3. QED
    BY <2>1, <2>2, CommitFields
<1>6. QED
  BY <1>4, <1>5 DEF NumbersIssued

LEMMA CommitKeepsIInv ==
  ASSUME IInv, NEW w \in Workers, Commit(w)
  PROVE  IInv'
<1>1. /\ tx' = [tx EXCEPT ![w] = Idle] /\ held' = [held EXCEPT ![w] = {}]
      /\ UNCHANGED <<nextId, requests>>
  BY DEF Commit, Release
<1>2. /\ tx' \in [Workers -> Transaction] /\ held' \in [Workers -> SUBSET Locks]
      /\ \A v \in Workers : /\ tx'[v] = IF v = w THEN Idle ELSE tx[v]
                            /\ held'[v] = IF v = w THEN {} ELSE held[v]
  BY <1>1, IdleType DEF IInv, Open
<1>3. ASSUME NEW v \in Workers
      PROVE  TxInv(tx[v], held[v])'
  <2>1. PICK u, k : u = tx'[v] /\ k = held'[v]
    OBVIOUS
  <2>2. TxInv(u, k)'
    BY <1>2, <2>1, IdleInv, CommitKeepsOthers
  <2>3. QED
    BY <2>1, <2>2
<1>4. Exclusive'
  <2>1. Fresh(Idle) = {}
    BY DEF Fresh, Idle
  <2>2. \A v \in Workers : Fresh(tx[v])' = IF v = w THEN {} ELSE Fresh(tx[v])
    BY <1>2, <2>1 DEF Fresh
  <2>3. QED
    BY <1>2, <2>2 DEF IInv, Open, Exclusive
<1>5. Unreset'
  <2>1. requests' \in Seq(Kinds) /\ (NoReset' <=> NoReset)
    BY <1>1 DEF IInv, Unreset, NoReset
  <2>2. Idle.kind # "reset"
    BY DEF Idle
  <2>3. NoReset => StockFollowsDocuments'
    BY CommitKeepsStock DEF IInv, Unreset
  <2>4. NoReset => /\ NumbersIssued'
                   /\ \A i \in Rows' : row'[i].reverses # 0 => row'[i].reverses \in Rows'
    BY CommitKeepsRegister DEF IInv, Unreset
  <2>5. QED
    BY <1>2, <2>1, <2>2, <2>3, <2>4 DEF IInv, Unreset
<1>6. QED
  BY <1>2, <1>3, <1>4, <1>5, CommitKeepsCommitted DEF IInv, Open

-----------------------------------------------------------------------------
(* The invariant *)

LEMMA InitIInv == Init => IInv
<1> SUFFICES ASSUME Init PROVE IInv
  OBVIOUS
<1>1. Rows = {} /\ row \in Table
  BY EmptyTable DEF Init, Rows
<1>2. Committed
  BY <1>1 DEF Init, Committed, NumbersUnique, KeysUnique, VoidsReversed
<1>3. /\ tx \in [Workers -> Transaction] /\ held \in [Workers -> SUBSET Locks]
      /\ \A w \in Workers : TxInv(tx[w], held[w])
  BY IdleType, IdleInv DEF Init
<1>4. Exclusive
  BY EmptyTable DEF Init, Exclusive, Fresh, Idle
<1>5. Unreset
  <2>1. requests \in Seq(Kinds) /\ \A w \in Workers : tx[w].kind # "reset"
    BY DEF Init, Idle
  <2>2. {id \in Rows : row[id].status = "final"} = {} /\ stock = 0
    BY <1>1 DEF Init
  <2>3. StockFollowsDocuments
    BY <2>2, SumEmpty DEF StockFollowsDocuments
  <2>4. QED
    BY <1>1, <2>1, <2>3 DEF Unreset, NumbersIssued
<1>6. QED
  BY <1>2, <1>3, <1>4, <1>5 DEF IInv, Open

LEMMA NextKeepsIInv ==
  ASSUME PostingAssumption, IInv, [Next]_vars
  PROVE  IInv'
<1>1. CASE UNCHANGED vars
  <2>1. UNCHANGED <<row, sequence, stock, nextId, requests, tx, held>>
    BY <1>1 DEF vars
  <2>2. Committed'
    BY <2>1, CommittedKept DEF IInv
  <2>3. ASSUME NEW w \in Workers
        PROVE  TxInv(tx[w], held[w])'
    <3>1. PICK t, h : t = tx[w] /\ h = held[w]
      OBVIOUS
    <3>2. TxInv(t, h)'
      BY <2>1, <3>1, TxInvKept DEF IInv, Open, Committed, NoReset
    <3>3. QED
      BY <2>1, <3>1, <3>2
  <2>4. Exclusive' /\ Unreset'
    BY <2>1 DEF IInv, Open, Exclusive, Unreset, NoReset, StockFollowsDocuments,
                    NumbersIssued, Rows
  <2>5. QED
    BY <2>1, <2>2, <2>3, <2>4 DEF IInv, Open
<1>2. ASSUME NEW w \in Workers, Request(w) \/ Statement(w) \/ Crash(w)
      PROVE  IInv'
  <2>1. CASE Request(w)
    BY <2>1, RequestKeepsIInv
  <2>2. CASE Crash(w)
    BY <2>2, ReleaseKeepsIInv DEF Crash
  <2>3. CASE Statement(w)
    <3>1. CASE LockVoucher(w)
      BY <3>1, LockVoucherKeepsIInv
    <3>2. CASE LockStock(w)
      BY <3>2, LockStockKeepsIInv
    <3>3. CASE Lookup(w)
      BY <3>3, LookupKeepsIInv
    <3>4. CASE Insert(w)
      BY <3>4, InsertKeepsIInv
    <3>5. CASE Number(w)
      BY <3>5, NumberKeepsIInv
    <3>6. CASE RemoveAll(w)
      BY <3>6, RemoveAllKeepsIInv
    <3>7. CASE Zero(w)
      BY <3>7, ZeroKeepsIInv
    <3>8. CASE Commit(w)
      BY <3>8, CommitKeepsIInv
    <3>9. CASE Fail(w)
      BY <3>9, ReleaseKeepsIInv DEF Fail
    <3>10. CASE Abort(w)
      BY <3>10, ReleaseKeepsIInv DEF Abort
    <3>11. QED
      BY <2>3, <3>1, <3>2, <3>3, <3>4, <3>5, <3>6, <3>7, <3>8, <3>9, <3>10 DEF Statement
  <2>4. QED
    BY <1>2, <2>1, <2>2, <2>3
<1>3. QED
  BY <1>1, <1>2 DEF Next

\* Whatever the requests and wherever they fail, an open transaction holds the locks
\* of what it relies on, and the committed tables are in order.
THEOREM Invariance == Spec => []IInv
<1>1. IInv /\ [Next]_vars => IInv'
  BY NextKeepsIInv, PostingAssumption
<1>2. QED
  BY <1>1, InitIInv, PTL DEF Spec

\* Committed documents are numbered and final or void, and the counter and the stock a
\* transaction has written are under its locks.
THEOREM TypeCorrect == Spec => []TypeOK
<1>1. IInv => TypeOK
  <2> SUFFICES ASSUME IInv PROVE TypeOK
    OBVIOUS
  <2>1. \A id \in Rows : row[id] \in Document
    BY TableFacts DEF IInv, Committed, Rows
  <2>2. \A w \in Workers : /\ tx[w].sequence # 0 => Counter \in held[w]
                           /\ tx[w].step = "idle" => held[w] = {}
    BY DEF IInv, Open, TxInv, LocksTaken
  <2>3. QED
    BY <2>1, <2>2 DEF IInv, Committed, TypeOK
<1>2. QED
  BY <1>1, Invariance, PTL

\* Two threads never number two documents alike: the number comes from a counter that is
\* locked until the commit, and the ones it skips back to after a reset are refused.
THEOREM NumbersAreUnique == Spec => []NumbersUnique
<1>1. IInv => NumbersUnique
  BY DEF IInv, Committed
<1>2. QED
  BY <1>1, Invariance, PTL

\* Two imports never both post a document under the same external key.
THEOREM KeysAreUnique == Spec => []KeysUnique
<1>1. IInv => KeysUnique
  BY DEF IInv, Committed
<1>2. QED
  BY <1>1, Invariance, PTL
\* While no reset has begun, the stock row is what the documents in force add up to,
\* however postings, voids and deletions overlap and wherever one of them dies.
THEOREM StockFollows == Spec => [](NoReset => StockFollowsDocuments)
<1>1. IInv => (NoReset => StockFollowsDocuments)
  BY DEF IInv, Unreset
<1>2. QED
  BY <1>1, Invariance, PTL

-----------------------------------------------------------------------------
(* The order of the locks *)

LEMMA Waits ==
  ASSUME IInv, NEW w \in Workers, Wanted(w) # {}
  PROVE  /\ tx[w].step \in {"lockVoucher", "removeAll", "lockStock", "insert", "number", "zero"}
         /\ tx[w].step = "lockStock" => Wanted(w) = {Stock}
         /\ tx[w].step \in {"number", "zero"} => Wanted(w) = {Counter}
         /\ tx[w].step = "insert" => /\ Head(tx[w].keys) # None
                                     /\ tx[w].kind = "post"
                                     /\ Wanted(w) = {KeyOf(Head(tx[w].keys))}
                                     /\ Head(tx[w].keys) \in Keys
<1> PICK t : t = tx[w]
  OBVIOUS
<1>1. t \in Transaction /\ Progress(t)
  BY Own DEF TxInv
<1>2. t.step \in {"lockVoucher", "removeAll", "lockStock", "insert", "number", "zero"}
  <2>1. t.step \in {"idle", "lookup", "commit"} => Wanted(w) = {}
    BY Zenon DEF Wanted
  <2>2. t.step \in Steps
    BY <1>1 DEF Transaction
  <2>3. QED
    BY <2>1, <2>2 DEF Steps
<1>3. t.step = "lockStock" => Wanted(w) = {Stock}
  BY Zenon DEF Wanted
<1>4. t.step \in {"number", "zero"} => Wanted(w) = {Counter}
  BY Zenon DEF Wanted
<1>5. t.step = "insert" /\ Head(t.keys) = None => Wanted(w) = {}
  BY Zenon DEF Wanted
<1>6. t.step = "insert" /\ Head(t.keys) # None => Wanted(w) = {KeyOf(Head(t.keys))}
  BY Zenon DEF Wanted
<1>7. t.step = "insert" /\ Head(t.keys) # None => t.kind = "post" /\ Head(t.keys) \in Keys
  <2>1. t.step = "insert" => t.keys # << >> /\ (t.kind = "post" \/ t.keys = <<None>>)
    BY <1>1 DEF Progress
  <2>2. t.step = "insert" => Head(t.keys) \in Keys \cup {None}
    BY <1>1, <2>1, DraftFields
  <2>3. QED
    BY <2>1, <2>2
<1>8. QED
  BY <1>2, <1>3, <1>4, <1>5, <1>6, <1>7

LEMMA LockOrder == IInv => OnlyImportsDeadlock
<1> SUFFICES ASSUME IInv, NEW S \in SUBSET Workers, Deadlock(S), NEW w \in S
             PROVE  tx[w].kind = "post" /\ Head(tx[w].keys) # None
  BY DEF OnlyImportsDeadlock
<1>1. ASSUME NEW v \in S
      PROVE  /\ TxInv(tx[v], held[v]) /\ Wanted(v) # {}
             /\ \E u \in S : u # v /\ Wanted(v) \cap held[u] # {}
             /\ \E u \in S : u # v /\ Wanted(u) \cap held[v] # {}
  <2>1. TxInv(tx[v], held[v])
    BY Own
  <2>2. \E u \in S : u # v /\ Wanted(v) \cap held[u] # {}
    BY DEF Deadlock, Blocks
  <2>3. \E u \in S : u # v /\ Wanted(u) \cap held[v] # {}
    BY DEF Deadlock, Blocks
  <2>4. QED
    BY <2>1, <2>2, <2>3
<1>2. \A v \in S : tx[v].step \notin {"lockVoucher", "removeAll"}
  BY <1>1 DEF TxInv, LocksTaken
<1>3. ASSUME NEW v \in S
      PROVE  /\ (Wanted(v) = {Stock} /\ tx[v].step = "lockStock") \/ Wanted(v) = {Counter}
                \/ \E k \in Keys : Wanted(v) = {KeyOf(k)}
             /\ Wanted(v) \cap {RowOf(id) : id \in Nat} = {}
  <2>1. Wanted(v) # {} /\ tx[v].step \notin {"lockVoucher", "removeAll"}
    BY <1>1, <1>2
  <2>2. (Wanted(v) = {Stock} /\ tx[v].step = "lockStock") \/ Wanted(v) = {Counter}
        \/ \E k \in Keys : Wanted(v) = {KeyOf(k)}
    BY <2>1, Waits
  <2>3. QED
    BY <2>2, LocksDiffer
<1>4. \A v \in S : tx[v].step # "lockStock"
  <2>1. \A v \in S : tx[v].step = "lockStock" => held[v] \subseteq {RowOf(id) : id \in Nat}
    BY <1>1 DEF TxInv, LocksTaken
  <2>2. QED
    BY <1>1, <1>3, <2>1
<1>5. \A v \in S : Wanted(v) \cap ({RowOf(id) : id \in Nat} \cup {Stock}) = {}
  BY <1>3, <1>4, LocksDiffer
<1>6. \A v \in S : ~(held[v] \subseteq {RowOf(id) : id \in Nat} \cup {Stock})
  BY <1>1, <1>5
<1>7. tx[w].step \in {"insert", "number"} /\ tx[w].kind = "post"
  <2>1. tx[w].step \in {"insert", "number"}
    BY <1>1, <1>2, <1>4, <1>6, Waits DEF TxInv, LocksTaken
  <2>2. tx[w].kind \in {"post", "deal", "void"}
    BY <1>1, <2>1 DEF TxInv, Progress
  <2>3. QED
    BY <1>1, <1>6, <2>1, <2>2 DEF TxInv, LocksTaken
<1>8. CASE tx[w].step = "insert"
  BY <1>1, <1>7, <1>8, Waits
<1>9. CASE tx[w].step = "number"
  <2>1. Counter \notin held[w]
    <3>1. PICK v \in S : v # w /\ Wanted(w) \cap held[v] # {}
      BY <1>1
    <3>2. Wanted(w) = {Counter}
      BY <1>1, <1>9, Waits
    <3>3. Counter \in held[v] /\ held[v] \cap held[w] = {}
      BY <3>1, <3>2 DEF IInv, Open, Exclusive
    <3>4. QED
      BY <3>3
  <2>2. held[w] \subseteq {KeyOf(k) : k \in {Head(tx[w].keys)} \ {None}}
    BY <1>1, <1>7, <1>9, <2>1 DEF TxInv, LocksTaken
  <2>3. held[w] # {}
    BY <1>1
  <2>4. QED
    BY <1>7, <2>2, <2>3
<1>10. QED
  BY <1>7, <1>8, <1>9

\* Requests take voucher, stock and counter in this order: whoever waits in a cycle is an
\* import that posts under external keys.
THEOREM DeadlocksAreImports == Spec => []OnlyImportsDeadlock
BY LockOrder, Invariance, PTL
-----------------------------------------------------------------------------
(* The register of numbered documents *)

LEMMA ShownByNumber ==
  ASSUME IInv, NEW id \in Rows, NEW n, row[id].number = n
  PROVE  DocumentNumbered(n) = Shown(row[id])
<1>1. (CHOOSE i \in Rows : row[i].number = n) = id
  BY DEF IInv, Committed, NumbersUnique
<1> QED
  BY <1>1 DEF DocumentNumbered

LEMMA ShownByNumberNext ==
  ASSUME IInv', NEW id \in Rows', NEW n, row'[id].number = n
  PROVE  DocumentNumbered(n)' = Shown(row[id])'
<1>1. (CHOOSE i \in Rows' : row'[i].number = n) = id
  BY DEF IInv, Committed, NumbersUnique
<1> QED
  BY <1>1 DEF DocumentNumbered

LEMMA GoneOtherwise ==
  ASSUME NEW n, \A id \in Rows : row[id].number # n
  PROVE  DocumentNumbered(n) = Gone
BY DEF DocumentNumbered

LEMMA GoneOtherwiseNext ==
  ASSUME NEW n, \A id \in Rows' : row'[id].number # n
  PROVE  DocumentNumbered(n)' = Gone
BY DEF DocumentNumbered

\* The numbers a commit adds are the next ones, without a gap.
LEMMA CommitNumbers ==
  ASSUME IInv, NEW w \in Workers, Commit(w), NoReset, NEW t, t = tx[w]
  PROVE  /\ sequence \in Nat /\ sequence' \in Nat /\ sequence' >= sequence
         /\ \A i \in Fresh(t) : row'[i].number \in (sequence + 1)..sequence'
         /\ \A n \in (sequence + 1)..sequence' : \E i \in Fresh(t) : row'[i].number = n
<1> PICK g : g = held[w]
  OBVIOUS
<1>1. TxInv(t, g) /\ t \in Transaction /\ t.step = "commit"
  BY Own DEF TxInv, Commit
<1>2. /\ sequence \in Nat /\ t.sequence \in Nat
      /\ sequence' = IF Counter \in g THEN t.sequence ELSE sequence
      /\ Counter \in g => t.sequence >= sequence
  BY <1>1 DEF Commit, IInv, Committed, Transaction, TxInv, Counted
<1>3. ASSUME NEW i \in Fresh(t)
      PROVE  /\ Counter \in g /\ row'[i] = t.rows[i] /\ t.rows[i].number \in Nat
             /\ t.rows[i].number > sequence /\ t.rows[i].number <= t.sequence
  <2>1. t.rows[i].number \in Nat /\ t.rows[i].number # 0
    BY <1>1, TableFacts DEF TxInv, RowsAdded, Drafts, Fresh, Transaction, Document
  <2>2. Counter \in g /\ t.rows[i].number <= t.sequence
    BY <1>1, <2>1 DEF TxInv, RowsAdded, RowAdded
  <2>3. t.rows[i].number > sequence
    BY <1>1, <2>1, <2>2 DEF TxInv, Counted
  <2>4. QED
    BY <2>1, <2>2, <2>3, CommitRows
<1>4. \A i \in Fresh(t) : row'[i].number \in (sequence + 1)..sequence'
  BY <1>2, <1>3
<1>5. ASSUME NEW n \in (sequence + 1)..sequence'
      PROVE  \E i \in Fresh(t) : row'[i].number = n
  <2>1. Counter \in g /\ n \in (sequence + 1)..t.sequence
    BY <1>2
  <2>2. PICK i \in Fresh(t) : t.rows[i].number = n
    BY <1>1, <2>1 DEF TxInv, Counted
  <2>3. QED
    BY <1>3, <2>2
<1>6. QED
  BY <1>2, <1>4, <1>5

\* All documents but the one corrected are shown as before.
LEMMA CommitShows ==
  ASSUME IInv, IInv', NEW w \in Workers, Commit(w), NoReset, NEW t, t = tx[w],
         NEW n \in 1..sequence,
         t.kind \in {"void", "delete"} => n # row[t.target].number
  PROVE  DocumentNumbered(n)' = DocumentNumbered(n)
<1>1. TxInv(t, held[w]) /\ t \in Transaction /\ t.step = "commit" /\ t.kind # "reset"
  BY Own DEF TxInv, Commit, IInv, Unreset
<1>2. CASE \E i \in Rows : row[i].number = n
  <2>1. PICK i \in Rows : row[i].number = n
    BY <1>2
  <2>2. i \notin t.removed /\ ~(t.kind = "void" /\ i = t.target)
    <3>1. t.removed = {} \/ (t.kind = "delete" /\ t.removed = {t.target})
      BY <1>1 DEF TxInv, TargetLocked, RemovedLocked, Transaction, Kinds
    <3>2. QED
      BY <2>1, <3>1
  <2>3. i \in Rows' /\ row'[i] = row[i]
    BY <2>2, CommitRows
  <2>4. row[i].reverses # 0 => row'[row[i].reverses].number = row[row[i].reverses].number
    <3> SUFFICES ASSUME NEW j, j = row[i].reverses, j # 0
                 PROVE  row'[j].number = row[j].number
      OBVIOUS
    <3>1. j \in Rows
      BY DEF IInv, Unreset
    <3>2. j \notin t.removed
      BY <1>1 DEF TxInv, RemovedLocked, HasReversal
    <3>3. QED
      BY <3>1, <3>2, CommitFields
  <2>5. DocumentNumbered(n) = Shown(row[i])
    BY <2>1, ShownByNumber
  <2>6. DocumentNumbered(n)' = Shown(row[i])'
    BY <2>1, <2>3, ShownByNumberNext
  <2>7. Shown(row[i])' = Shown(row[i])
    BY <2>3, <2>4 DEF Shown
  <2>8. QED
    BY <2>5, <2>6, <2>7
<1>3. CASE \A i \in Rows : row[i].number # n
  <2>1. \A i \in Fresh(t) : row'[i].number # n
    BY CommitNumbers
  <2>2. \A i \in Rows' : row'[i].number # n
    BY <1>3, <2>1, CommitFields
  <2>3. QED
    BY <1>3, <2>2, GoneOtherwise, GoneOtherwiseNext
<1>4. QED
  BY <1>2, <1>3

\* The documents a commit adds, as the register shows them.
LEMMA CommitIssues ==
  ASSUME IInv, IInv', NEW w \in Workers, Commit(w), NoReset, NEW t, t = tx[w],
         NEW n \in (sequence + 1)..sequence'
  PROVE  DocumentNumbered(n)' = Register!Fresh(IF t.kind = "void" THEN row[t.target].number ELSE 0)
<1>1. TxInv(t, held[w]) /\ t \in Transaction
  BY Own DEF TxInv
<1>2. PICK i \in Fresh(t) : row'[i].number = n
  BY CommitNumbers
<1>3. i \in Rows' /\ row'[i].status = "final" /\ row'[i].reverses = t.target
  BY CommitFields
<1>4. DocumentNumbered(n)' = Shown(row[i])'
  BY <1>2, <1>3, ShownByNumberNext
<1>5. CASE t.kind = "void"
  <2>1. t.target \in Rows \ t.removed /\ t.target # 0
    BY <1>1, <1>5, RowIds DEF TxInv, TargetLocked, RemovedLocked, Commit
  <2>2. row'[t.target].number = row[t.target].number
    BY <2>1, CommitFields
  <2>3. QED
    BY <1>3, <1>4, <1>5, <2>1, <2>2 DEF Shown, Register!Fresh
<1>6. CASE t.kind # "void"
  <2>1. t.target = 0
    BY <1>1, <1>2, <1>6 DEF TxInv, TargetLocked, RowsAdded, Drafts, Fresh, Transaction, Kinds
  <2>2. QED
    BY <1>3, <1>4, <1>6, <2>1 DEF Shown, Register!Fresh
<1>7. QED
  BY <1>5, <1>6

LEMMA DocumentsTable ==
  ASSUME sequence \in Nat, sequence' \in Nat
  PROVE  /\ Documents = [n \in 1..sequence |-> Documents[n]]
         /\ \A n \in 1..sequence : Documents[n] = DocumentNumbered(n)
         /\ Len(Documents) = sequence /\ DOMAIN Documents = 1..sequence
         /\ Documents' = [n \in 1..sequence' |-> Documents'[n]]
         /\ \A n \in 1..sequence' : Documents'[n] = DocumentNumbered(n)'
         /\ Len(Documents') = sequence'
BY DEF Documents

\* Posting issues the next numbers; an import that skips them all changes nothing.
LEMMA PostIssues ==
  ASSUME IInv, IInv', NEW w \in Workers, Commit(w), NoReset, tx[w].kind \in {"post", "deal"}
  PROVE  Register!Issue \/ UNCHANGED Documents
<1> PICK t : t = tx[w]
  OBVIOUS
<1>1. sequence \in Nat /\ sequence' \in Nat /\ sequence' >= sequence
  BY CommitNumbers
<1>2. \A n \in 1..sequence : Documents'[n] = Documents[n] /\ n \in 1..sequence'
  BY <1>1, CommitShows, DocumentsTable
<1>3. \A n \in 1..sequence' : n > sequence => Documents'[n] = Register!Fresh(0)
  <2>1. \A n \in (sequence + 1)..sequence' : DocumentNumbered(n)' = Register!Fresh(0)
    BY CommitIssues
  <2>2. QED
    BY <1>1, <2>1, DocumentsTable
<1>4. CASE sequence' = sequence
  <2>1. Documents' = [n \in 1..sequence |-> Documents[n]]
    BY <1>1, <1>2, <1>4, DocumentsTable
  <2>2. QED
    BY <1>1, <2>1, DocumentsTable
<1>5. CASE sequence' # sequence
  BY <1>1, <1>2, <1>3, <1>5, DocumentsTable DEF Register!Issue
<1>6. QED
  BY <1>4, <1>5

\* Voiding cancels the document of the original and issues the reversal's.
LEMMA VoidCancels ==
  ASSUME IInv, IInv', NEW w \in Workers, Commit(w), NoReset, tx[w].kind = "void"
  PROVE  \E m \in DOMAIN Documents : Register!Cancel(m)
<1> PICK t, id, m : t = tx[w] /\ id = t.target /\ m = row[id].number
  OBVIOUS
<1> DEFINE old == [Documents EXCEPT ![m].state = "cancelled"]
<1>1. TxInv(t, held[w]) /\ t.step = "commit"
  BY Own DEF Commit
<1>2. id \in Rows /\ id \notin t.removed /\ row[id].status = "final"
  BY <1>1 DEF TxInv, TargetLocked, RemovedLocked
<1>3. sequence \in Nat /\ sequence' \in Nat /\ sequence' >= sequence
  BY CommitNumbers
<1>4. sequence' = sequence + 1
  <2>1. PICK d : Fresh(t) = {d}
    BY <1>1 DEF TxInv, RowsAdded, Drafts
  <2>2. row'[d].number \in (sequence + 1)..sequence'
    BY <2>1, CommitNumbers
  <2>3. sequence + 2 \notin (sequence + 1)..sequence'
    <3> SUFFICES ASSUME sequence + 2 \in (sequence + 1)..sequence' PROVE FALSE
      OBVIOUS
    <3>1. row'[d].number = sequence + 2
      BY <2>1, CommitNumbers
    <3>2. sequence + 1 \in (sequence + 1)..sequence'
      BY <1>3
    <3>3. row'[d].number = sequence + 1
      BY <2>1, <3>2, CommitNumbers
    <3>4. QED
      BY <1>3, <3>1, <3>3
  <2>4. QED
    BY <1>3, <2>2, <2>3
<1>5. m \in 1..sequence
  <2>1. row[id].number \in Nat /\ row[id].number > 0 /\ row[id].number <= sequence
    BY <1>2, TableFacts DEF IInv, Committed, Unreset, NumbersIssued, Rows, Document
  <2>2. QED
    BY <1>3, <2>1
<1>6. /\ id \in Rows' /\ row'[id].number = m /\ row'[id].status = "void"
      /\ row'[id].reverses = row[id].reverses
  BY <1>2, CommitFields
<1>7. Documents[m] = [state |-> "live", cancels |-> Shown(row[id]).cancels]
  <2>1. DocumentNumbered(m) = Shown(row[id])
    BY <1>2, ShownByNumber
  <2>2. QED
    BY <1>2, <1>3, <1>5, <2>1, DocumentsTable DEF Shown
<1>8. DocumentNumbered(m)' = [state |-> "cancelled", cancels |-> Shown(row[id]).cancels]
  <2>1. DocumentNumbered(m)' = Shown(row[id])'
    BY <1>6, ShownByNumberNext
  <2>2. row[id].reverses # 0 => row'[row[id].reverses].number = row[row[id].reverses].number
    <3> SUFFICES ASSUME NEW j, j = row[id].reverses, j # 0
                 PROVE  row'[j].number = row[j].number
      OBVIOUS
    <3>1. j \in Rows
      BY <1>2 DEF IInv, Unreset
    <3>2. j \notin t.removed
      BY <1>1, <1>2 DEF TxInv, RemovedLocked, HasReversal
    <3>3. QED
      BY <3>1, <3>2, CommitFields
  <2>3. Shown(row[id])' = [state |-> "cancelled", cancels |-> Shown(row[id]).cancels]
    BY <1>6, <2>2 DEF Shown
  <2>4. QED
    BY <2>1, <2>3
<1>9. Documents' = Append(old, Register!Fresh(m))
  <2>1. /\ old = [n \in 1..sequence |-> old[n]]
        /\ old[m] = [state |-> "cancelled", cancels |-> Shown(row[id]).cancels]
        /\ \A n \in 1..sequence : n # m => old[n] = Documents[n]
    <3>1. Documents = [n \in 1..sequence |-> Documents[n]]
      BY <1>3, DocumentsTable
    <3>2. old[m] = [Documents[m] EXCEPT !.state = "cancelled"]
      BY <1>5, <3>1
    <3>3. [Documents[m] EXCEPT !.state = "cancelled"]
            = [state |-> "cancelled", cancels |-> Shown(row[id]).cancels]
      BY <1>7
    <3>4. /\ old = [n \in 1..sequence |-> old[n]]
          /\ \A n \in 1..sequence : n # m => old[n] = Documents[n]
      BY <1>5, <3>1
    <3>5. QED
      BY <3>2, <3>3, <3>4
  <2>2. \A n \in 1..sequence : Documents'[n] = old[n]
    <3> SUFFICES ASSUME NEW n \in 1..sequence PROVE Documents'[n] = old[n]
      OBVIOUS
    <3>1. Documents'[n] = DocumentNumbered(n)' /\ Documents[n] = DocumentNumbered(n)
      BY <1>3, <1>4, DocumentsTable
    <3>2. n # m => DocumentNumbered(n)' = DocumentNumbered(n)
      BY CommitShows
    <3>3. QED
      BY <1>8, <2>1, <3>1, <3>2
  <2>3. Documents'[sequence + 1] = Register!Fresh(m)
    <3>1. PICK n : n = sequence + 1
      OBVIOUS
    <3>2. n \in (sequence + 1)..sequence' /\ n \in 1..sequence'
      BY <1>3, <1>4, <3>1
    <3>3. DocumentNumbered(n)' = Register!Fresh(m)
      BY <3>2, CommitIssues
    <3>4. Documents'[n] = DocumentNumbered(n)'
      BY <1>3, <3>2, DocumentsTable
    <3>5. QED
      BY <3>1, <3>3, <3>4
  <2>4. Documents' = [n \in 1..(sequence + 1) |-> Documents'[n]]
    BY <1>3, <1>4, DocumentsTable
  <2> HIDE DEF old
  <2>5. QED
    BY <1>3, <2>1, <2>2, <2>3, <2>4, OneLonger
<1>10. m \in DOMAIN Documents /\ Documents[m].state = "live"
  BY <1>3, <1>5, <1>7, DocumentsTable
<1>11. QED
  BY <1>9, <1>10 DEF Register!Cancel

\* Deleting removes a live document that cancels nothing.
LEMMA DeleteRemoves ==
  ASSUME IInv, IInv', NEW w \in Workers, Commit(w), NoReset, tx[w].kind = "delete"
  PROVE  \E m \in DOMAIN Documents : Register!Remove(m)
<1> PICK t, id, m : t = tx[w] /\ id = t.target /\ m = row[id].number
  OBVIOUS
<1>1. TxInv(t, held[w]) /\ t.step = "commit"
  BY Own DEF Commit
<1>2. /\ id \in Rows /\ t.removed = {id} /\ row[id].status = "final" /\ row[id].reverses = 0
      /\ Fresh(t) = {}
  BY <1>1 DEF TxInv, TargetLocked, RemovedLocked, RowsAdded, Drafts, Fresh
<1>3. sequence \in Nat /\ sequence' = sequence
  <2>1. sequence \in Nat /\ sequence' \in Nat /\ sequence' >= sequence
    BY CommitNumbers
  <2>2. sequence + 1 \notin (sequence + 1)..sequence'
    BY <1>2, CommitNumbers
  <2>3. QED
    BY <2>1, <2>2
<1>4. m \in 1..sequence
  <2>1. row[id].number \in Nat /\ row[id].number > 0 /\ row[id].number <= sequence
    BY <1>2, TableFacts DEF IInv, Committed, Unreset, NumbersIssued, Rows, Document
  <2>2. QED
    BY <1>3, <2>1
<1>5. Documents[m] = Register!Fresh(0)
  <2>1. DocumentNumbered(m) = Shown(row[id])
    BY <1>2, ShownByNumber
  <2>2. QED
    BY <1>2, <1>3, <1>4, <2>1, DocumentsTable DEF Shown, Register!Fresh
<1>6. DocumentNumbered(m)' = Gone
  <2>1. \A i \in Rows' : row'[i].number # m
    BY <1>2, CommitFields DEF IInv, Committed, NumbersUnique
  <2>2. QED
    BY <2>1, GoneOtherwiseNext
<1>7. \A n \in 1..sequence : n # m => Documents'[n] = Documents[n]
  BY <1>3, CommitShows, DocumentsTable
<1>8. Documents' = [Documents EXCEPT ![m].state = "removed"]
  <2>1. Gone = [Documents[m] EXCEPT !.state = "removed"]
    BY <1>5 DEF Gone, Register!Fresh
  <2>2. Documents'[m] = Gone
    BY <1>3, <1>4, <1>6, DocumentsTable
  <2>3. /\ Documents = [n \in 1..sequence |-> Documents[n]]
        /\ Documents' = [n \in 1..sequence |-> Documents'[n]]
    BY <1>3, DocumentsTable
  <2>4. QED
    BY <1>4, <1>7, <2>1, <2>2, <2>3
<1>9. m \in DOMAIN Documents
  BY <1>3, <1>4, DocumentsTable
<1>10. QED
  BY <1>5, <1>8, <1>9 DEF Register!Remove
\* No reset ever begins if none may.
LEMMA NoResetBegins ==
  ASSUME MaxResets = 0, IInv, NoReset, [Next]_vars
  PROVE  NoReset'
<1>1. requests \in Seq(Kinds)
  BY DEF IInv, Unreset
<1>2. ASSUME NEW w \in Workers, NEW c, Begin(w, c), c.kind # "reset", c.kind \in Kinds
      PROVE  NoReset'
  BY <1>1, <1>2 DEF Begin, NoReset
<1>3. ASSUME NEW w \in Workers, Request(w)
      PROVE  NoReset'
  <2>1. ASSUME NEW keys \in Batches, BeginPost(w, keys)
        PROVE  NoReset'
    BY <1>2, <2>1 DEF BeginPost, Idle, Kinds
  <2>2. ASSUME NEW delta \in Deltas, BeginDeal(w, delta)
        PROVE  NoReset'
    BY <1>2, <2>2 DEF BeginDeal, Idle, Kinds
  <2>3. ASSUME NEW kind \in {"void", "delete"}, NEW id \in Rows, BeginCorrection(w, kind, id)
        PROVE  NoReset'
    BY <1>2, <2>3 DEF BeginCorrection, Idle, Kinds
  <2>4. ~BeginReset(w)
    <3>1. DOMAIN requests = 1..Len(requests) /\ Len(requests) \in Nat
      BY <1>1
    <3>2. IsFiniteSet({i \in DOMAIN requests : requests[i] = "reset"})
      <4>1. IsFiniteSet(1..Len(requests))
        BY <3>1, FS_Interval
      <4>2. {i \in DOMAIN requests : requests[i] = "reset"} \subseteq 1..Len(requests)
        BY <3>1
      <4>3. QED
        BY <4>1, <4>2, FS_Subset
    <3>3. Cardinality({i \in DOMAIN requests : requests[i] = "reset"}) \in Nat
      BY <3>2, FS_CardinalityType
    <3>4. QED
      BY <3>3 DEF BeginReset
  <2>5. QED
    BY <1>3, <2>1, <2>2, <2>3, <2>4 DEF Request
<1>4. ASSUME UNCHANGED requests
      PROVE  NoReset'
  BY <1>4 DEF NoReset
<1>5. ASSUME NEW w \in Workers, Statement(w) \/ Crash(w)
      PROVE  UNCHANGED requests
  BY <1>5 DEF Statement, Crash, LockVoucher, LockStock, Lookup, Insert, Number, RemoveAll, Zero,
              Commit, Fail, Abort, Release
<1>6. QED
  BY <1>3, <1>4, <1>5 DEF Next, vars

LEMMA StepRegister ==
  ASSUME IInv, IInv', NoReset, [Next]_vars
  PROVE  [Register!Next]_Documents
<1>1. ASSUME NEW w \in Workers, Commit(w)
      PROVE  [Register!Next]_Documents
  <2>1. tx[w].kind \in {"post", "deal", "void", "delete"}
    BY <1>1, Own DEF Commit, TxInv, Progress, IInv, Unreset
  <2>2. CASE tx[w].kind \in {"post", "deal"}
    BY <1>1, <2>2, PostIssues DEF Register!Next
  <2>3. CASE tx[w].kind = "void"
    BY <1>1, <2>3, VoidCancels DEF Register!Next
  <2>4. CASE tx[w].kind = "delete"
    BY <1>1, <2>4, DeleteRemoves DEF Register!Next
  <2>5. QED
    BY <2>1, <2>2, <2>3, <2>4
<1>2. ASSUME UNCHANGED <<row, sequence>>
      PROVE  UNCHANGED Documents
  BY <1>2 DEF Documents, DocumentNumbered, Shown, Rows
<1>3. ASSUME NEW w \in Workers, Request(w) \/ Statement(w) \/ Crash(w), ~Commit(w)
      PROVE  UNCHANGED <<row, sequence>>
  BY <1>3 DEF Request, BeginPost, BeginDeal, BeginCorrection, BeginReset, Begin, Statement, Crash,
              LockVoucher, LockStock, Lookup, Insert, Number, RemoveAll, Zero, Fail, Abort,
              UnchangedTables
<1>4. QED
  BY <1>1, <1>2, <1>3 DEF Next, vars

LEMMA InitRegister == Init => Register!Init
<1> SUFFICES ASSUME Init PROVE Documents = << >>
  BY DEF Register!Init
<1>1. sequence = 0 /\ 1..0 = {}
  BY DEF Init
<1>2. Documents = [n \in {} |-> DocumentNumbered(n)]
  BY <1>1 DEF Documents
<1> QED
  BY <1>2

\* If no reset may begin, the transactions implement the register of numbered documents:
\* each commit is one step of it and nothing else is visible.
THEOREM Refinement ==
  ASSUME MaxResets = 0
  PROVE  Spec => PostingImplementsRegister
<1>1. Init => NoReset
  BY DEF Init, NoReset
<1>2. IInv /\ NoReset /\ [Next]_vars => NoReset'
  BY NoResetBegins
<1>3. IInv /\ IInv' /\ NoReset /\ [Next]_vars => [Register!Next]_Documents
  BY StepRegister
<1>4. QED
  BY Invariance, InitRegister, <1>1, <1>2, <1>3, PTL
     DEF Spec, PostingImplementsRegister, Register!Spec
=============================================================================
