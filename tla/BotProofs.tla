------------------------------ MODULE BotProofs ------------------------------
(***************************************************************************)
(* The bots answer once, skip nothing and leave no silence unexplained,    *)
(* for every number of pollers, webhook requests, customers and messages,  *)
(* and whatever fails between two saves; and Bot implements Desk.          *)
(***************************************************************************)
EXTENDS BotDesk, DataLemmas

-----------------------------------------------------------------------------
(* The inductive invariant *)

Busy == {"read", "save", "record", "send", "failed"}

\* A worker with record r has saved m and has not done with it: nobody else may
\* answer it, and nobody will if this worker is lost.
Holds(r, m) ==
  /\ r.batch # <<>>
  /\ Head(r.batch) = m
  /\ r.step \in {"record", "send", "failed"} \/ r.stage = "username"

Owns(w, m) == Holds(worker[w], m)

\* reply is in the history as a reply to m.
Written(m, reply) ==
  \E row \in history : row.direction = "out" /\ row.message = m /\ row.reply = reply

Done(m) == OnRecord(m, "chat") \/ m \in interrupted

\* The messages of a batch are there exactly while there is something to do, and
\* only a poller looks up user names.
Shape(w, r) ==
  /\ r.step \in Busy <=> r.batch # <<>>
  /\ r.step \notin Busy => r.stage = "chat"
  /\ w \in Pollers => \A i \in DOMAIN r.batch : r.batch[i] \in 1..asked
  /\ w \in Hooks => /\ r.stage = "chat"
                    /\ \A i \in DOMAIN r.batch : r.batch[i] \in WhatsAppMessages
  /\ r.loaded <= asked /\ r.high <= asked

\* A message that is held was saved, was not answered yet, and has its second row
\* only when the holder is past the second look-up.
Holding(r) ==
  \A m \in Messages : Holds(r, m) =>
    /\ OnRecord(m, "chat")
    /\ r.step # "failed" => delivered[m] = <<>>
    /\ r.stage = "chat" \/ r.step \in {"read", "save"} => ~OnRecord(m, "username")
    /\ r.step \in {"send", "failed"} \/ r.stage = "username" => Written(m, r.reply)

\* A poller passes no update that is not done or still in its batch.
Passing(w, r) ==
  w \in Pollers =>
    /\ \A u \in 1..r.loaded : Done(u)
    /\ \A u \in 1..r.high : Done(u) \/ u \in Range(r.batch)

WorkerInv(w, r) == Shape(w, r) /\ Holding(r) /\ Passing(w, r)

OneHolder ==
  \A v, w \in Workers, m \in Messages : Owns(v, m) /\ Owns(w, m) => v = w

\* Nothing happened to a message that is not on record.
Unsaved ==
  \A m \in Messages :
    ~OnRecord(m, "chat") => ~OnRecord(m, "username") /\ delivered[m] = <<>>

\* A saved question is settled, or in the hands of the one who will settle it.
InHand ==
  \A u \in Updates :
    OnRecord(u, "chat") => Settled(u) \/ \E w \in Workers : Owns(w, u)

\* No stored offset passes an update that is not done.
Offsets == \A u \in Updates : u <= last_update_id \/ u <= confirmed \/ u <= form => Done(u)

IInv ==
  /\ TypeOK
  /\ \A w \in Workers : WorkerInv(w, worker[w])
  /\ OneHolder
  /\ Unsaved
  /\ AnsweredOnce
  /\ InHand
  /\ Offsets

-----------------------------------------------------------------------------
(* Types *)

LEMMA ReplyToType ==
  ASSUME TypeOK, NEW m \in Messages, NEW stage
  PROVE  ReplyTo(m, stage) \in Reply /\ ReplyTo(m, stage).kind \in Commands \cup {"stranger"}
<1>1. Asks[m] \in Commands
  BY BotAssumption
<1>2. ResolveParty(m, stage) # NoParty => ResolveParty(m, stage) \in Parties
  BY Zenon DEF ResolveParty
<1>3. NotListed(Asks[m], standing[ResolveParty(m, stage)]) \in BOOLEAN
  BY DEF NotListed
<1>4. CASE ResolveParty(m, stage) = NoParty
  BY <1>4 DEF ReplyTo, Reply, Stranger
<1>5. CASE ResolveParty(m, stage) # NoParty
  <2> HIDE DEF NotListed
  <2>1. ReplyTo(m, stage) = [kind |-> Asks[m], party |-> ResolveParty(m, stage),
                             notListed |-> NotListed(Asks[m], standing[ResolveParty(m, stage)])]
    BY <1>5, Zenon DEF ReplyTo
  <2> QED
    BY <1>1, <1>2, <1>3, <1>5, <2>1 DEF Reply
<1> QED
  BY <1>4, <1>5

LEMMA ReplyType ==
  ASSUME NEW reply \in Reply
  PROVE  /\ reply.party \in Parties \cup {NoParty}
         /\ StatusOf(reply) \in Status /\ StatusOf(reply) # "failed"
<1>1. reply.party \in Parties \cup {NoParty}
  BY DEF Reply, Stranger
<1>2. StatusOf(reply) \in {"ok", "unknown", "unparsed"}
  BY Zenon DEF StatusOf
<1> QED
  BY <1>1, <1>2 DEF Status

LEMMA RowTypes ==
  ASSUME NEW m \in Messages, NEW reply \in Reply
  PROVE  /\ \A stage \in Stages : IncomingRow(m, stage, reply) \in Incoming
         /\ \A status \in Status : OutgoingRow(m, reply, status) \in Outgoing
<1>1. reply.party \in Parties \cup {NoParty} /\ StatusOf(reply) \in Status
  BY ReplyType
<1> QED
  BY <1>1 DEF IncomingRow, Incoming, OutgoingRow, Outgoing

-----------------------------------------------------------------------------
(* What a new row of the history shows *)

LEMMA IncomingShows ==
  ASSUME NEW m, NEW stage, NEW reply,
         history' = history \cup {IncomingRow(m, stage, reply)}
  PROVE  /\ \A x, s : OnRecord(x, s)' <=> OnRecord(x, s) \/ (x = m /\ s = stage)
         /\ \A x, y : Written(x, y)' <=> Written(x, y)
         /\ \A x : SendingFailed(x)' <=> SendingFailed(x)
<1> DEFINE row == IncomingRow(m, stage, reply)
<1>1. row.direction = "in" /\ row.message = m /\ row.stage = stage
  BY DEF IncomingRow
<1> HIDE DEF row
<1>2. history' = history \cup {row}
  BY DEF row
<1> QED
  BY <1>1, <1>2 DEF OnRecord, Written, SendingFailed

LEMMA OutgoingShows ==
  ASSUME NEW m, NEW reply, NEW status,
         history' = history \cup {OutgoingRow(m, reply, status)}
  PROVE  /\ \A x, s : OnRecord(x, s)' <=> OnRecord(x, s)
         /\ \A x, y : Written(x, y)' <=> Written(x, y) \/ (x = m /\ y = reply)
         /\ \A x : SendingFailed(x)' <=> SendingFailed(x) \/ (x = m /\ status = "failed")
<1> DEFINE row == OutgoingRow(m, reply, status)
<1>1. /\ row.direction = "out" /\ row.message = m /\ row.reply = reply /\ row.status = status
  BY DEF OutgoingRow
<1> HIDE DEF row
<1>2. history' = history \cup {row}
  BY DEF row
<1> QED
  BY <1>1, <1>2 DEF OnRecord, Written, SendingFailed

LEMMA HistoryKept ==
  ASSUME history' = history
  PROVE  /\ \A x, s : OnRecord(x, s)' <=> OnRecord(x, s)
         /\ \A x, y : Written(x, y)' <=> Written(x, y)
         /\ \A x : SendingFailed(x)' <=> SendingFailed(x)
BY DEF OnRecord, Written, SendingFailed

-----------------------------------------------------------------------------
(* Workers *)

LEMMA IdleKeeps ==
  ASSUME NEW w \in Workers, asked \in Nat
  PROVE  Idle \in WorkerRecord /\ WorkerInv(w, Idle) /\ \A m : ~Holds(Idle, m)
<1>1. /\ Idle.step = "idle" /\ Idle.batch = <<>> /\ Idle.stage = "chat"
      /\ Idle.loaded = 0 /\ Idle.high = 0
  BY DEF Idle
<1>2. Idle \in WorkerRecord
  BY BotAssumption DEF Idle, WorkerRecord, Steps, Stages, Reply, Stranger
<1>3. \A m : ~Holds(Idle, m)
  BY <1>1 DEF Holds
<1>4. Shape(w, Idle)
  BY <1>1 DEF Shape, Busy
<1>5. Passing(w, Idle)
  BY <1>1 DEF Passing
<1> QED
  BY <1>2, <1>3, <1>4, <1>5 DEF WorkerInv, Holding

LEMMA BatchTail ==
  ASSUME NEW S, NEW batch \in Seq(S), batch # <<>>
  PROVE  /\ Head(batch) \in S
         /\ Head(batch) = batch[1] /\ 1 \in DOMAIN batch
         /\ Tail(batch) \in Seq(S)
         /\ \A i \in DOMAIN Tail(batch) : i + 1 \in DOMAIN batch /\ Tail(batch)[i] = batch[i + 1]
         /\ \A x \in Range(batch) : x = Head(batch) \/ x \in Range(Tail(batch))
<1>1. /\ Len(batch) \in Nat \ {0} /\ DOMAIN batch = 1..Len(batch)
      /\ Head(batch) \in S /\ Head(batch) = batch[1]
      /\ Tail(batch) \in Seq(S)
      /\ DOMAIN Tail(batch) = 1..(Len(batch) - 1)
      /\ \A i \in 1..(Len(batch) - 1) : Tail(batch)[i] = batch[i + 1]
  OBVIOUS
<1>2. \A x \in Range(batch) : x = Head(batch) \/ x \in Range(Tail(batch))
  <2> SUFFICES ASSUME NEW i \in DOMAIN batch, i # 1
               PROVE  batch[i] \in Range(Tail(batch))
    BY <1>1 DEF Range
  <2>1. i - 1 \in DOMAIN Tail(batch) /\ Tail(batch)[i - 1] = batch[i]
    BY <1>1
  <2> QED
    BY <2>1 DEF Range
<1> QED
  BY <1>1, <1>2

\* A worker goes on to its next message once the current one is done.
LEMMA ProceedKeeps ==
  ASSUME NEW w \in Workers, NEW r \in WorkerRecord, r.batch # <<>>,
         Shape(w, r), Passing(w, r),
         asked' = asked, asked \in Nat,
         \A m : Done(m) => Done(m)', Done(Head(r.batch))'
  PROVE  /\ Proceed(r) \in WorkerRecord
         /\ WorkerInv(w, Proceed(r))'
         /\ \A m : ~Holds(Proceed(r), m)
<1> DEFINE rest == Tail(r.batch)
           fresh == [r EXCEPT !.batch = rest, !.stage = "chat",
                              !.draft = Stranger, !.reply = Stranger]
           next == [fresh EXCEPT !.step = "read"]
           offset == [fresh EXCEPT !.step = "offset"]
<1>1. r.batch \in Seq(Messages)
  BY DEF WorkerRecord
<1>2. /\ rest \in Seq(Messages) /\ Head(r.batch) = r.batch[1] /\ 1 \in DOMAIN r.batch
      /\ \A i \in DOMAIN rest : i + 1 \in DOMAIN r.batch /\ rest[i] = r.batch[i + 1]
      /\ \A x \in Range(r.batch) : x = Head(r.batch) \/ x \in Range(rest)
  BY <1>1, BatchTail
<1>3. Stranger \in Reply
  BY DEF Reply
<1> HIDE DEF rest
<1>4. /\ next \in WorkerRecord /\ next.step = "read" /\ next.batch = rest /\ next.stage = "chat"
      /\ next.loaded = r.loaded /\ next.high = r.high
  BY <1>2, <1>3 DEF WorkerRecord, Steps, Stages
<1>5. /\ offset \in WorkerRecord /\ offset.step = "offset" /\ offset.batch = rest
      /\ offset.stage = "chat" /\ offset.loaded = r.loaded /\ offset.high = r.high
  BY <1>2, <1>3 DEF WorkerRecord, Steps, Stages
<1>6. w \in Pollers => /\ \A i \in DOMAIN rest : rest[i] \in 1..asked
                       /\ \A u \in 1..r.loaded : Done(u)'
                       /\ \A u \in 1..r.high : Done(u)' \/ u \in Range(rest)
  BY <1>2 DEF Shape, Passing
<1>7. w \in Hooks => \A i \in DOMAIN rest : rest[i] \in WhatsAppMessages
  BY <1>2 DEF Shape
<1>8. r.loaded <= asked /\ r.high <= asked
  BY DEF Shape
<1>9. CASE rest # <<>>
  <2>1. Proceed(r) = next
    <3>1. fresh.batch # <<>>
      BY <1>9
    <3> QED
      BY <3>1, Zenon DEF Proceed, rest
  <2>2. WorkerInv(w, next)'
    <3> HIDE DEF next
    <3>1. Shape(w, next)'
      BY <1>4, <1>6, <1>7, <1>8, <1>9 DEF Shape, Busy
    <3>2. Passing(w, next)'
      BY <1>4, <1>6 DEF Passing
    <3>3. \A m : ~Holds(next, m)
      BY <1>4 DEF Holds
    <3> QED
      BY <3>1, <3>2, <3>3 DEF WorkerInv, Holding
  <2> HIDE DEF next
  <2> QED
    BY <1>4, <2>1, <2>2 DEF Holds
<1>10. CASE rest = <<>> /\ r.high # r.loaded
  <2>1. Proceed(r) = offset
    <3>1. fresh.batch = <<>> /\ r.high # r.loaded
      BY <1>10
    <3> QED
      BY <3>1, Zenon DEF Proceed, rest
  <2>2. WorkerInv(w, offset)'
    <3> HIDE DEF offset
    <3>1. Shape(w, offset)'
      BY <1>5, <1>6, <1>7, <1>8, <1>10 DEF Shape, Busy
    <3>2. Passing(w, offset)'
      BY <1>5, <1>6 DEF Passing
    <3>3. \A m : ~Holds(offset, m)
      BY <1>5 DEF Holds
    <3> QED
      BY <3>1, <3>2, <3>3 DEF WorkerInv, Holding
  <2> HIDE DEF offset
  <2> QED
    BY <1>5, <2>1, <2>2 DEF Holds
<1>11. CASE rest = <<>> /\ r.high = r.loaded
  <2>1. Proceed(r) = Idle
    <3>1. fresh.batch = <<>> /\ r.high = r.loaded
      BY <1>11
    <3> QED
      BY <3>1, Zenon DEF Proceed, rest
  <2>2. Idle \in WorkerRecord /\ \A m : ~Holds(Idle, m)
    BY IdleKeeps
  <2>3. /\ Idle.step = "idle" /\ Idle.batch = <<>> /\ Idle.stage = "chat"
        /\ Idle.loaded = 0 /\ Idle.high = 0
    BY DEF Idle
  <2>4. WorkerInv(w, Idle)'
    BY <2>2, <2>3 DEF WorkerInv, Shape, Holding, Passing, Busy
  <2> QED
    BY <2>1, <2>2, <2>4
<1> QED
  BY <1>9, <1>10, <1>11

\* Another worker's step leaves a worker as it should be, as long as the history
\* only grows and the messages it holds are left alone.
LEMMA OthersKeep ==
  ASSUME NEW v \in Workers, WorkerInv(v, worker[v]), worker'[v] = worker[v],
         asked' >= asked, asked \in Nat, asked' \in Nat, worker[v] \in WorkerRecord,
         \A m : OnRecord(m, "chat") => OnRecord(m, "chat")',
         \A m : Done(m) => Done(m)',
         \A m, x : Written(m, x) => Written(m, x)',
         \A m \in Messages : Owns(v, m) =>
           delivered'[m] = delivered[m] /\ (OnRecord(m, "username")' => OnRecord(m, "username"))
  PROVE  WorkerInv(v, worker[v])'
<1>1. PICK r : r = worker[v]
  OBVIOUS
<1>2. /\ Shape(v, r) /\ Holding(r) /\ Passing(v, r)
      /\ \A m \in Messages : Holds(r, m) =>
           delivered'[m] = delivered[m] /\ (OnRecord(m, "username")' => OnRecord(m, "username"))
      /\ r.loaded \in Nat /\ r.high \in Nat
  BY <1>1 DEF WorkerInv, Owns, WorkerRecord
<1>3. Shape(v, r)'
  BY <1>2 DEF Shape
<1>4. Holding(r)'
  BY <1>2 DEF Holding
<1>5. Passing(v, r)'
  BY <1>2 DEF Passing
<1> QED
  BY <1>1, <1>3, <1>4, <1>5 DEF WorkerInv

\* The step of worker w, which goes on as r, keeps the invariant.
LEMMA StepKeeps ==
  ASSUME IInv, NEW w \in Workers, NEW r \in WorkerRecord,
         worker' = [worker EXCEPT ![w] = r],
         asked' = asked, UNCHANGED office,
         confirmed' \in 0..asked, last_update_id' \in 0..asked,
         history' \subseteq Incoming \cup Outgoing,
         delivered' \in [Messages -> Seq(Reply)],
         interrupted' \subseteq Messages, interrupted \subseteq interrupted',
         \A m : OnRecord(m, "chat") => OnRecord(m, "chat")',
         \A m, x : Written(m, x) => Written(m, x)',
         \A m : SendingFailed(m) => SendingFailed(m)',
         WorkerInv(w, r)',
         \A m \in Messages : ~Owns(w, m) =>
           delivered'[m] = delivered[m] /\ (OnRecord(m, "username")' => OnRecord(m, "username")),
         \A m \in Messages : Holds(r, m) => Owns(w, m) \/ ~OnRecord(m, "chat"),
         \A u \in Updates : OnRecord(u, "chat")' /\ ~Holds(r, u)
                            /\ (Owns(w, u) \/ ~OnRecord(u, "chat")) => Settled(u)',
         \A m \in Messages : Len(delivered'[m]) <= 1,
         \A u \in Updates : u <= last_update_id' \/ u <= confirmed' => Done(u)'
  PROVE  IInv'
<1>1. /\ TypeOK /\ OneHolder /\ Unsaved /\ InHand /\ Offsets
      /\ \A v \in Workers : WorkerInv(v, worker[v])
  BY DEF IInv
<1>2. /\ worker \in [Workers -> WorkerRecord] /\ asked \in Nat /\ worker'[w] = r
      /\ \A v \in Workers : v # w => worker'[v] = worker[v]
  BY <1>1 DEF TypeOK
<1>3. TypeOK'
  BY <1>1, <1>2 DEF TypeOK, office
<1>4. \A m : Done(m) => Done(m)'
  BY DEF Done
<1>5. \A v \in Workers, m \in Messages : v # w => (Owns(v, m)' <=> Owns(v, m))
  BY <1>2 DEF Owns
<1>6. \A m \in Messages : Owns(w, m)' <=> Holds(r, m)
  BY <1>2 DEF Owns
<1>7. \A v \in Workers, m \in Messages : Owns(v, m) => OnRecord(m, "chat")
  BY <1>1 DEF WorkerInv, Holding, Owns
<1>8. \A v \in Workers : WorkerInv(v, worker[v])'
  <2> TAKE v \in Workers
  <2>1. CASE v = w
    BY <1>2, <2>1 DEF WorkerInv
  <2>2. CASE v # w
    <3>1. \A m \in Messages : Owns(v, m) => ~Owns(w, m)
      BY <1>1, <2>2 DEF OneHolder
    <3>2. \A m \in Messages : Owns(v, m) =>
            delivered'[m] = delivered[m] /\ (OnRecord(m, "username")' => OnRecord(m, "username"))
      BY <3>1
    <3>3. WorkerInv(v, worker[v]) /\ worker[v] \in WorkerRecord /\ worker'[v] = worker[v]
      BY <1>1, <1>2, <2>2
    <3>4. asked' >= asked /\ asked' \in Nat
      BY <1>2
    <3> QED
      BY <1>2, <1>4, <3>2, <3>3, <3>4, OthersKeep
  <2> QED
    BY <2>1, <2>2
<1>9. OneHolder'
  <2> SUFFICES ASSUME NEW u \in Workers, NEW v \in Workers, NEW m \in Messages,
                      Owns(u, m)', Owns(v, m)'
               PROVE  u = v
    BY DEF OneHolder
  <2>1. \A x \in Workers : x # w /\ Owns(x, m) => ~Holds(r, m)
    BY <1>1, <1>7 DEF OneHolder
  <2> QED
    BY <1>1, <1>5, <1>6, <2>1 DEF OneHolder
<1>10. Unsaved'
  <2> SUFFICES ASSUME NEW m \in Messages, ~OnRecord(m, "chat")'
               PROVE  ~OnRecord(m, "username")' /\ delivered'[m] = <<>>
    BY DEF Unsaved
  <2>1. ~OnRecord(m, "chat") /\ ~Owns(w, m)
    BY <1>7
  <2> QED
    BY <1>1, <2>1 DEF Unsaved
<1>11. AnsweredOnce'
  BY DEF AnsweredOnce
<1>12. InHand'
  <2> SUFFICES ASSUME NEW u \in Updates, OnRecord(u, "chat")', ~Settled(u)'
               PROVE  \E v \in Workers : Owns(v, u)'
    BY DEF InHand
  <2>1. u \in Messages
    BY DEF Messages
  <2>2. CASE Holds(r, u)
    BY <1>6, <2>1, <2>2
  <2>3. CASE ~Holds(r, u)
    <3>1. OnRecord(u, "chat") /\ ~Owns(w, u)
      BY <2>3
    <3>2. ~Settled(u)
      BY <2>1, <3>1 DEF Settled
    <3>3. PICK v \in Workers : Owns(v, u)
      BY <1>1, <3>1, <3>2 DEF InHand
    <3> QED
      BY <1>5, <2>1, <3>1, <3>3
  <2> QED
    BY <2>2, <2>3
<1>13. Offsets'
  BY <1>1, <1>4 DEF Offsets, office
<1> QED
  BY <1>3, <1>8, <1>9, <1>10, <1>11, <1>12, <1>13 DEF IInv

-----------------------------------------------------------------------------
(* Any worker, at any step *)

LEMMA WorkerFacts ==
  ASSUME IInv, NEW w \in Workers
  PROVE  /\ worker[w] \in WorkerRecord /\ Shape(w, worker[w])
         /\ Holding(worker[w]) /\ Passing(w, worker[w])
         /\ worker \in [Workers -> WorkerRecord]
         /\ asked \in Nat /\ asked <= MaxUpdates /\ MaxUpdates \in Nat
         /\ confirmed \in 0..asked /\ last_update_id \in 0..asked
         /\ history \subseteq Incoming \cup Outgoing
         /\ delivered \in [Messages -> Seq(Reply)] /\ interrupted \subseteq Messages
         /\ \A m \in Messages : Len(delivered[m]) <= 1
         /\ \A u \in Updates : u <= last_update_id \/ u <= confirmed => Done(u)
         /\ worker[w].step \in Busy =>
              /\ worker[w].batch # <<>> /\ worker[w].batch \in Seq(Messages)
              /\ Current(w) \in Messages /\ Current(w) = Head(worker[w].batch)
              /\ w \in Pollers => Current(w) \in 1..asked
              /\ w \in Hooks => Current(w) \in WhatsAppMessages
<1>1. TypeOK /\ WorkerInv(w, worker[w]) /\ AnsweredOnce /\ Offsets
  BY DEF IInv
<1>2. /\ worker \in [Workers -> WorkerRecord] /\ asked \in Nat /\ asked <= MaxUpdates
      /\ confirmed \in 0..asked /\ last_update_id \in 0..asked
      /\ history \subseteq Incoming \cup Outgoing
      /\ delivered \in [Messages -> Seq(Reply)] /\ interrupted \subseteq Messages
      /\ MaxUpdates \in Nat
  BY <1>1, BotAssumption DEF TypeOK
<1>3. worker[w] \in WorkerRecord /\ worker[w].batch \in Seq(Messages)
  BY <1>2 DEF WorkerRecord
<1>4. /\ \A m \in Messages : Len(delivered[m]) <= 1
      /\ \A u \in Updates : u <= last_update_id \/ u <= confirmed => Done(u)
  BY <1>1 DEF AnsweredOnce, Offsets
<1>5. /\ Shape(w, worker[w]) /\ Holding(worker[w]) /\ Passing(w, worker[w])
  BY <1>1 DEF WorkerInv
<1>6. ASSUME worker[w].step \in Busy
      PROVE  /\ worker[w].batch # <<>> /\ worker[w].batch \in Seq(Messages)
             /\ Current(w) \in Messages /\ Current(w) = Head(worker[w].batch)
             /\ w \in Pollers => Current(w) \in 1..asked
             /\ w \in Hooks => Current(w) \in WhatsAppMessages
  <2>1. worker[w].batch # <<>>
    BY <1>5, <1>6 DEF Shape
  <2>2. /\ Head(worker[w].batch) \in Messages /\ 1 \in DOMAIN worker[w].batch
        /\ Head(worker[w].batch) = worker[w].batch[1]
    BY <1>3, <2>1, BatchTail
  <2> QED
    BY <1>3, <1>5, <2>1, <2>2 DEF Shape, Current
<1> QED
  BY <1>2, <1>3, <1>4, <1>5, <1>6

-----------------------------------------------------------------------------
(* Steps that leave the history and the customers alone *)

LEMMA QuietKeeps ==
  ASSUME IInv, NEW w \in Workers, NEW r \in WorkerRecord,
         worker' = [worker EXCEPT ![w] = r],
         asked' = asked, UNCHANGED office, UNCHANGED <<history, delivered, interrupted>>,
         confirmed' \in 0..asked, last_update_id' \in 0..asked,
         WorkerInv(w, r)',
         \A m \in Messages : Holds(r, m) => Owns(w, m),
         \A m \in Messages : Owns(w, m) => Holds(r, m),
         \A u \in Updates : u <= last_update_id' \/ u <= confirmed' => Done(u)
  PROVE  IInv'
<1>1. /\ history \subseteq Incoming \cup Outgoing /\ delivered \in [Messages -> Seq(Reply)]
      /\ interrupted \subseteq Messages /\ \A m \in Messages : Len(delivered[m]) <= 1
  BY WorkerFacts
<1>2. /\ \A x, s : OnRecord(x, s)' <=> OnRecord(x, s)
      /\ \A x, y : Written(x, y)' <=> Written(x, y)
      /\ \A x : SendingFailed(x)' <=> SendingFailed(x)
  BY HistoryKept
<1>3. \A u \in Updates : OnRecord(u, "chat")' /\ ~Holds(r, u)
                         /\ (Owns(w, u) \/ ~OnRecord(u, "chat")) => Settled(u)'
  BY <1>2 DEF Messages
<1>4. \A u \in Updates : u <= last_update_id' \/ u <= confirmed' => Done(u)'
  BY <1>2 DEF Done
<1>5. /\ history' \subseteq Incoming \cup Outgoing /\ delivered' \in [Messages -> Seq(Reply)]
      /\ interrupted' \subseteq Messages /\ interrupted \subseteq interrupted'
      /\ \A m \in Messages : Len(delivered'[m]) <= 1
  BY <1>1
<1>6. \A m \in Messages : ~Owns(w, m) =>
        delivered'[m] = delivered[m] /\ (OnRecord(m, "username")' => OnRecord(m, "username"))
  BY <1>2
<1> QED
  BY <1>2, <1>3, <1>4, <1>5, <1>6, StepKeeps

LEMMA LoadKeeps ==
  ASSUME IInv, NEW p \in Pollers, Load(p)
  PROVE  IInv'
<1>0. PICK r : r = [Idle EXCEPT !.step = "poll", !.loaded = last_update_id,
                                !.high = last_update_id]
  OBVIOUS
<1>1. /\ worker' = [worker EXCEPT ![p] = r] /\ worker[p] = Idle
      /\ UNCHANGED <<outside, office, confirmed, last_update_id, history, delivered, interrupted>>
  BY <1>0, Zenon DEF Load, Goto
<1>2. p \in Workers
  BY DEF Workers
<1>3. /\ last_update_id \in 0..asked /\ confirmed \in 0..asked /\ asked \in Nat
      /\ asked <= MaxUpdates /\ MaxUpdates \in Nat
      /\ \A u \in Updates : u <= last_update_id \/ u <= confirmed => Done(u)
  BY <1>2, WorkerFacts
<1>4. /\ r \in WorkerRecord /\ r.step = "poll" /\ r.batch = <<>> /\ r.stage = "chat"
      /\ r.loaded = last_update_id /\ r.high = last_update_id
  <2>1. Idle \in WorkerRecord
    BY <1>2, <1>3, IdleKeeps
  <2>2. last_update_id \in 0..MaxUpdates
    BY <1>3
  <2>3. "poll" \in Steps
    BY DEF Steps
  <2>4. Idle.batch = <<>> /\ Idle.stage = "chat"
    BY DEF Idle
  <2> QED
    BY <1>0, <2>1, <2>2, <2>3, <2>4 DEF WorkerRecord
<1>5. /\ asked' = asked /\ UNCHANGED office /\ confirmed' = confirmed
      /\ last_update_id' = last_update_id /\ UNCHANGED <<history, delivered, interrupted>>
  BY <1>1 DEF outside
<1>6. WorkerInv(p, r)'
  <2>1. Shape(p, r)'
    BY <1>3, <1>4, <1>5, BotAssumption DEF Shape, Busy
  <2>2. \A u \in 1..last_update_id : Done(u)
    BY <1>3 DEF Updates
  <2>3. \A u \in 1..last_update_id : Done(u)'
    BY <1>5, <2>2 DEF Done, OnRecord
  <2>4. Passing(p, r)'
    BY <1>4, <2>3 DEF Passing
  <2>5. \A m : ~Holds(r, m)
    BY <1>4 DEF Holds
  <2> QED
    BY <2>1, <2>4, <2>5 DEF WorkerInv, Holding
<1>7. \A m \in Messages : ~Holds(r, m) /\ ~Owns(p, m)
  BY <1>1, <1>4 DEF Owns, Holds, Idle
<1> QED
  BY <1>1, <1>2, <1>3, <1>4, <1>5, <1>6, <1>7, QuietKeeps

LEMMA FetchKeeps ==
  ASSUME IInv, NEW p \in Pollers, Fetch(p)
  PROVE  IInv'
<1>1. PICK old : old = worker[p]
  OBVIOUS
<1>2. PICK from : from = Confirmed(old.loaded)
  OBVIOUS
<1>3. PICK new : new = Fetched(old.loaded)
  OBVIOUS
<1>4. PICK r : r = IF new = <<>> THEN Idle
                   ELSE [old EXCEPT !.step = "read", !.high = asked, !.batch = new]
  OBVIOUS
<1>5. /\ worker' = [worker EXCEPT ![p] = r] /\ old.step = "poll" /\ confirmed' = from
      /\ UNCHANGED <<outside, office, last_update_id, history, delivered, interrupted>>
  BY <1>1, <1>2, <1>3, <1>4, Zenon DEF Fetch, Goto
<1>6. p \in Workers
  BY DEF Workers
<1>7. /\ old \in WorkerRecord /\ Shape(p, old) /\ Passing(p, old)
      /\ last_update_id \in 0..asked /\ confirmed \in 0..asked /\ asked \in Nat
      /\ asked <= MaxUpdates /\ MaxUpdates \in Nat
      /\ \A u \in Updates : u <= last_update_id \/ u <= confirmed => Done(u)
  BY <1>1, <1>6, WorkerFacts
<1>8. /\ old.loaded \in Nat /\ old.loaded <= asked /\ old.batch = <<>> /\ old.stage = "chat"
  BY <1>5, <1>7 DEF WorkerRecord, Shape, Busy
<1>9. from \in 0..asked /\ \A u \in 1..from : Done(u)
  <2>1. from = old.loaded \/ from = confirmed
    BY <1>2 DEF Confirmed
  <2>2. \A u \in 1..old.loaded : Done(u)
    BY <1>7 DEF Passing
  <2>3. \A u \in 1..confirmed : Done(u)
    BY <1>7 DEF Updates
  <2> QED
    BY <1>7, <1>8, <2>1, <2>2, <2>3
<1>10. new = [i \in 1..(asked - from) |-> from + i]
  BY <1>2, <1>3 DEF Fetched
<1>11. /\ new \in Seq(Messages) /\ \A i \in DOMAIN new : new[i] \in 1..asked
       /\ \A u \in 1..asked : u <= from \/ u \in Range(new)
  <2>1. \A i \in 1..(asked - from) : from + i \in 1..asked /\ from + i \in Messages
    BY <1>7, <1>9 DEF Messages, Updates
  <2>2. new \in Seq(Messages)
    <3>1. CASE asked - from = 0
      <4>1. asked - from \in Nat
        BY <1>7, <1>9
      <4> QED
        BY <1>10, <2>1, <4>1
    <3>2. CASE asked - from # 0
      <4>1. asked - from \in Nat
        BY <1>7, <1>9
      <4> QED
        BY <1>10, <2>1, <4>1
    <3> QED
      BY <3>1, <3>2
  <2>3. ASSUME NEW u \in 1..asked, ~(u <= from) PROVE u \in Range(new)
    <3>1. u - from \in 1..(asked - from) /\ from + (u - from) = u
      BY <1>7, <1>9, <2>3
    <3> QED
      BY <1>10, <3>1 DEF Range
  <2> QED
    BY <1>10, <2>1, <2>2, <2>3
<1>12. /\ asked' = asked /\ UNCHANGED office /\ last_update_id' = last_update_id
       /\ UNCHANGED <<history, delivered, interrupted>>
  BY <1>5 DEF outside
<1>13. \A u : Done(u)' <=> Done(u)
  BY <1>12 DEF Done, OnRecord
<1>14. r \in WorkerRecord /\ WorkerInv(p, r)' /\ \A m : ~Holds(r, m)
  <2>1. CASE new = <<>>
    <3>1. r = Idle
      BY <1>4, <2>1
    <3>2. /\ Idle \in WorkerRecord /\ \A m : ~Holds(Idle, m)
      BY <1>6, <1>7, IdleKeeps
    <3>3. WorkerInv(p, Idle)'
      <4>1. /\ Idle.step = "idle" /\ Idle.batch = <<>> /\ Idle.stage = "chat"
            /\ Idle.loaded = 0 /\ Idle.high = 0
        BY DEF Idle
      <4> QED
        BY <1>7, <1>12, <3>2, <4>1 DEF WorkerInv, Shape, Holding, Passing, Busy
    <3> QED
      BY <3>1, <3>2, <3>3
  <2>2. CASE new # <<>>
    <3>1. r = [old EXCEPT !.step = "read", !.high = asked, !.batch = new]
      BY <1>4, <2>2
    <3>2. /\ r \in WorkerRecord /\ r.step = "read" /\ r.high = asked /\ r.batch = new
          /\ r.stage = "chat" /\ r.loaded = old.loaded
      <4>1. asked \in 0..MaxUpdates /\ "read" \in Steps
        BY <1>7 DEF Steps
      <4> QED
        BY <1>7, <1>8, <1>11, <3>1, <4>1 DEF WorkerRecord
    <3>3. Shape(p, r)'
      BY <1>7, <1>8, <1>11, <1>12, <2>2, <3>2, BotAssumption DEF Shape, Busy
    <3>4. Passing(p, r)'
      <4>1. \A u \in 1..r.loaded : Done(u)
        BY <1>7, <3>2 DEF Passing
      <4>2. \A u \in 1..r.high : Done(u) \/ u \in Range(r.batch)
        BY <1>9, <1>11, <3>2
      <4> QED
        BY <1>13, <4>1, <4>2 DEF Passing
    <3>5. \A m : ~Holds(r, m)
      BY <3>2 DEF Holds
    <3> QED
      BY <3>2, <3>3, <3>4, <3>5 DEF WorkerInv, Holding
  <2> QED
    BY <2>1, <2>2
<1>15. \A m \in Messages : ~Owns(p, m)
  BY <1>1, <1>8 DEF Owns, Holds
<1>16. \A u \in Updates : u <= last_update_id' \/ u <= confirmed' => Done(u)
  BY <1>5, <1>7, <1>9, <1>12 DEF Updates
<1> QED
  BY <1>5, <1>6, <1>7, <1>9, <1>12, <1>14, <1>15, <1>16, QuietKeeps

LEMMA DeliverKeeps ==
  ASSUME IInv, NEW h \in Hooks, NEW m \in WhatsAppMessages, Deliver(h, m)
  PROVE  IInv'
<1>1. PICK r : r = [Idle EXCEPT !.step = "read", !.batch = <<m>>]
  OBVIOUS
<1>2. /\ worker' = [worker EXCEPT ![h] = r] /\ worker[h] = Idle
      /\ UNCHANGED <<asked, office, confirmed, last_update_id, history, delivered, interrupted>>
  BY <1>1, Zenon DEF Deliver, Goto
<1>3. h \in Workers /\ h \notin Pollers /\ m \in Messages
  BY BotAssumption DEF Workers, Messages
<1>4. /\ last_update_id \in 0..asked /\ confirmed \in 0..asked /\ asked \in Nat
      /\ \A u \in Updates : u <= last_update_id \/ u <= confirmed => Done(u)
  BY <1>3, WorkerFacts
<1>5. /\ r \in WorkerRecord /\ r.step = "read" /\ r.batch = <<m>> /\ r.stage = "chat"
      /\ r.loaded = 0 /\ r.high = 0
  <2>1. Idle \in WorkerRecord
    BY <1>3, <1>4, IdleKeeps
  <2>2. <<m>> \in Seq(Messages) /\ "read" \in Steps
    BY <1>3 DEF Steps
  <2>3. Idle.stage = "chat" /\ Idle.loaded = 0 /\ Idle.high = 0
    BY DEF Idle
  <2> QED
    BY <1>1, <2>1, <2>2, <2>3 DEF WorkerRecord
<1>6. \A x \in Messages : ~Holds(r, x) /\ ~Owns(h, x)
  BY <1>2, <1>5 DEF Owns, Holds, Idle
<1>7. WorkerInv(h, r)'
  <2>1. r.batch # <<>> /\ DOMAIN r.batch = {1} /\ r.batch[1] = m
    BY <1>5
  <2>2. Shape(h, r)'
    BY <1>2, <1>3, <1>4, <1>5, <2>1 DEF Shape, Busy
  <2> QED
    BY <1>3, <1>6, <2>2 DEF WorkerInv, Holding, Passing
<1>8. UNCHANGED <<history, delivered, interrupted>> /\ UNCHANGED office /\ asked' = asked
  BY <1>2
<1>9. /\ confirmed' \in 0..asked /\ last_update_id' \in 0..asked
      /\ \A u \in Updates : u <= last_update_id' \/ u <= confirmed' => Done(u)
  BY <1>2, <1>4
<1> QED
  BY <1>2, <1>3, <1>5, <1>6, <1>7, <1>8, <1>9, QuietKeeps

LEMMA SaveOffsetKeeps ==
  ASSUME IInv, NEW p \in Pollers, SaveOffset(p)
  PROVE  IInv'
<1>1. /\ worker[p].step = "offset" /\ worker' = [worker EXCEPT ![p] = Idle]
      /\ last_update_id' = worker[p].high /\ asked' = asked
      /\ UNCHANGED office /\ UNCHANGED <<history, delivered, interrupted>>
      /\ confirmed' = confirmed
  BY DEF SaveOffset, Goto, outside
<1>2. p \in Workers
  BY DEF Workers
<1>3. PICK old : old = worker[p]
  OBVIOUS
<1>4. /\ old \in WorkerRecord /\ Shape(p, old) /\ Passing(p, old)
      /\ confirmed \in 0..asked /\ asked \in Nat
      /\ \A u \in Updates : u <= last_update_id \/ u <= confirmed => Done(u)
  BY <1>2, <1>3, WorkerFacts
<1>5. /\ old.step = "offset" /\ old.batch = <<>> /\ old.stage = "chat"
      /\ old.high \in Nat /\ old.high <= asked
  BY <1>1, <1>3, <1>4 DEF Shape, Busy, WorkerRecord
<1>6. \A u \in 1..old.high : Done(u)
  BY <1>4, <1>5 DEF Passing, Range
<1>7. \A u \in Updates : u <= last_update_id' \/ u <= confirmed' => Done(u)
  BY <1>1, <1>3, <1>4, <1>5, <1>6 DEF Updates
<1>8. Idle \in WorkerRecord /\ \A m \in Messages : ~Holds(Idle, m) /\ ~Owns(p, m)
  BY <1>2, <1>3, <1>4, <1>5, IdleKeeps DEF Owns, Holds
<1>9. WorkerInv(p, Idle)'
  <2>1. /\ Idle.step = "idle" /\ Idle.batch = <<>> /\ Idle.stage = "chat"
        /\ Idle.loaded = 0 /\ Idle.high = 0
    BY DEF Idle
  <2>2. Shape(p, Idle)'
    BY <1>1, <1>2, <1>4, <2>1 DEF Shape, Busy
  <2> QED
    BY <1>8, <2>1, <2>2 DEF WorkerInv, Holding, Passing
<1>10. confirmed' \in 0..asked /\ last_update_id' \in 0..asked
  BY <1>1, <1>3, <1>4, <1>5
<1> QED
  BY <1>1, <1>2, <1>7, <1>8, <1>9, <1>10, QuietKeeps

\* The worker puts its message aside without having held it: it was on record.
LEMMA SkipKeeps ==
  ASSUME IInv, NEW w \in Workers, worker[w].step \in Busy,
         \A m \in Messages : ~Owns(w, m), Done(Current(w)),
         worker' = [worker EXCEPT ![w] = Proceed(worker[w])],
         asked' = asked, UNCHANGED office, UNCHANGED <<history, delivered, interrupted>>,
         UNCHANGED <<confirmed, last_update_id>>
  PROVE  IInv'
<1>1. PICK old : old = worker[w]
  OBVIOUS
<1>2. PICK r : r = Proceed(old)
  OBVIOUS
<1>3. /\ old \in WorkerRecord /\ Shape(w, old) /\ Passing(w, old) /\ old.batch # <<>>
      /\ Current(w) = Head(old.batch)
      /\ confirmed \in 0..asked /\ last_update_id \in 0..asked /\ asked \in Nat
      /\ \A u \in Updates : u <= last_update_id \/ u <= confirmed => Done(u)
  BY <1>1, WorkerFacts
<1>4. \A m : Done(m) => Done(m)'
  BY DEF Done, OnRecord
<1>5. r \in WorkerRecord /\ WorkerInv(w, r)' /\ \A m : ~Holds(r, m)
  <2>1. Done(Head(old.batch))'
    BY <1>3, <1>4
  <2>2. Proceed(old) \in WorkerRecord /\ WorkerInv(w, Proceed(old))'
        /\ \A m : ~Holds(Proceed(old), m)
    BY <1>3, <1>4, <2>1, ProceedKeeps
  <2> QED
    BY <1>2, <2>2
<1>6. /\ confirmed' \in 0..asked /\ last_update_id' \in 0..asked
      /\ \A u \in Updates : u <= last_update_id' \/ u <= confirmed' => Done(u)
  BY <1>3
<1>7. worker' = [worker EXCEPT ![w] = r]
  BY <1>1, <1>2
<1> QED
  BY <1>5, <1>6, <1>7, QuietKeeps

LEMMA ReadKeeps ==
  ASSUME IInv, NEW w \in Workers, Read(w)
  PROVE  IInv'
<1>1. PICK old : old = worker[w]
  OBVIOUS
<1>2. PICK m : m = Current(w)
  OBVIOUS
<1>3. /\ worker[w].step = "read"
      /\ asked' = asked /\ UNCHANGED office /\ UNCHANGED <<history, delivered, interrupted>>
      /\ UNCHANGED <<confirmed, last_update_id>>
  BY DEF Read, outside
<1>4. /\ old \in WorkerRecord /\ Shape(w, old) /\ Passing(w, old) /\ Holding(old)
      /\ old.batch # <<>> /\ m = Head(old.batch) /\ m \in Messages
      /\ confirmed \in 0..asked /\ last_update_id \in 0..asked /\ asked \in Nat
      /\ \A u \in Updates : u <= last_update_id \/ u <= confirmed => Done(u)
  BY <1>1, <1>2, <1>3, WorkerFacts DEF Busy
<1>5. old.stage \in Stages
  BY <1>4 DEF WorkerRecord
<1>6. CASE OnRecord(m, old.stage)
  <2>1. old.stage = "chat"
    <3> SUFFICES ASSUME old.stage = "username" PROVE FALSE
      BY <1>5 DEF Stages
    <3>1. Holds(old, m)
      BY <1>4 DEF Holds
    <3> QED
      BY <1>1, <1>3, <1>4, <1>6, <3>1 DEF Holding
  <2>2. worker' = [worker EXCEPT ![w] = Proceed(worker[w])]
    <3>1. OnRecord(Current(w), worker[w].stage) /\ worker[w].stage = "chat"
      BY <1>1, <1>2, <1>6, <2>1
    <3> QED
      BY <3>1, Zenon DEF Read, Goto
  <2>3. Done(Current(w))
    BY <1>2, <1>6, <2>1 DEF Done
  <2>4. \A x \in Messages : ~Owns(w, x)
    BY <1>1, <1>3, <2>1 DEF Owns, Holds
  <2>5. worker[w].step \in Busy
    BY <1>3 DEF Busy
  <2> QED
    BY <1>3, <2>2, <2>3, <2>4, <2>5, SkipKeeps
<1>7. CASE ~OnRecord(m, old.stage)
  <2>1. PICK draft : draft = ReplyTo(m, old.stage)
    OBVIOUS
  <2>2. PICK r : r = [old EXCEPT !.step = "save", !.draft = draft]
    OBVIOUS
  <2>3. worker' = [worker EXCEPT ![w] = r]
    <3>1. ~OnRecord(Current(w), worker[w].stage)
      BY <1>1, <1>2, <1>7
    <3>2. worker' = [worker EXCEPT ![w] =
                      [worker[w] EXCEPT !.step = "save",
                                        !.draft = ReplyTo(Current(w), worker[w].stage)]]
      BY <3>1, Zenon DEF Read, Goto
    <3> QED
      BY <1>1, <1>2, <2>1, <2>2, <3>2, Zenon
  <2>4. draft \in Reply
    BY <1>4, <2>1, ReplyToType DEF IInv
  <2>5. /\ r \in WorkerRecord /\ r.step = "save" /\ r.batch = old.batch /\ r.stage = old.stage
        /\ r.loaded = old.loaded /\ r.high = old.high /\ r.reply = old.reply
    <3>1. "save" \in Steps
      BY DEF Steps
    <3> QED
      BY <1>4, <2>2, <2>4, <3>1 DEF WorkerRecord
  <2>6. old.step = "read"
    BY <1>1, <1>3
  <2>7. \A x : Holds(r, x) <=> Holds(old, x)
    BY <2>5, <2>6 DEF Holds
  <2>8. Shape(w, r)'
    BY <1>3, <1>4, <2>5, <2>6 DEF Shape, Busy
  <2>9. /\ \A x, s : OnRecord(x, s)' <=> OnRecord(x, s)
        /\ \A x, y : Written(x, y)' <=> Written(x, y)
        /\ \A x : Done(x)' <=> Done(x)
    BY <1>3, HistoryKept DEF Done
  <2>10. Holding(r)'
    BY <1>3, <1>4, <2>5, <2>6, <2>7, <2>9 DEF Holding
  <2>11. Passing(w, r)'
    BY <1>4, <2>5, <2>9 DEF Passing
  <2>12. WorkerInv(w, r)'
    BY <2>8, <2>10, <2>11 DEF WorkerInv
  <2>13. \A x \in Messages : Holds(r, x) <=> Owns(w, x)
    BY <1>1, <2>7 DEF Owns
  <2>14. /\ confirmed' \in 0..asked /\ last_update_id' \in 0..asked
         /\ \A u \in Updates : u <= last_update_id' \/ u <= confirmed' => Done(u)
    BY <1>3, <1>4
  <2> QED
    BY <1>3, <2>3, <2>5, <2>12, <2>13, <2>14, QuietKeeps
<1> QED
  BY <1>6, <1>7

-----------------------------------------------------------------------------
(* Steps that save, answer or give up *)

LEMMA OwnsCurrent ==
  ASSUME IInv, NEW w \in Workers, NEW m \in Messages, Owns(w, m)
  PROVE  m = Current(w) /\ OnRecord(m, "chat") /\ worker[w].step \in Busy
<1>1. Holding(worker[w]) /\ Shape(w, worker[w])
  BY WorkerFacts
<1> QED
  BY <1>1 DEF Owns, Holds, Holding, Current, Shape

\* The worker is done with its message and goes on to the next.
LEMMA FinishKeeps ==
  ASSUME IInv, NEW w \in Workers, worker[w].step \in Busy,
         worker' = [worker EXCEPT ![w] = Proceed(worker[w])],
         asked' = asked, UNCHANGED office, UNCHANGED <<confirmed, last_update_id>>,
         history' \subseteq Incoming \cup Outgoing,
         delivered' \in [Messages -> Seq(Reply)],
         interrupted' \subseteq Messages, interrupted \subseteq interrupted',
         \A m, s : OnRecord(m, s)' <=> OnRecord(m, s),
         \A m, x : Written(m, x) => Written(m, x)',
         \A m : SendingFailed(m) => SendingFailed(m)',
         \A m \in Messages : ~Owns(w, m) => delivered'[m] = delivered[m],
         \A u \in Updates : Owns(w, u) => Settled(u)',
         \A m \in Messages : Len(delivered'[m]) <= 1,
         \A m : m = Current(w) => Done(m)'
  PROVE  IInv'
<1>1. PICK old : old = worker[w]
  OBVIOUS
<1>2. PICK r : r = Proceed(old)
  OBVIOUS
<1>3. /\ old \in WorkerRecord /\ Shape(w, old) /\ Passing(w, old) /\ old.batch # <<>>
      /\ Current(w) = Head(old.batch)
      /\ confirmed \in 0..asked /\ last_update_id \in 0..asked /\ asked \in Nat
      /\ \A u \in Updates : u <= last_update_id \/ u <= confirmed => Done(u)
  BY <1>1, WorkerFacts
<1>4. \A m : Done(m) => Done(m)'
  BY DEF Done
<1>5. r \in WorkerRecord /\ WorkerInv(w, r)' /\ \A m : ~Holds(r, m)
  <2>1. PICK m : m = Head(old.batch)
    OBVIOUS
  <2>2. Done(m)'
    BY <1>3, <2>1
  <2>3. Done(Head(old.batch))'
    BY <2>1, <2>2
  <2>4. Proceed(old) \in WorkerRecord /\ WorkerInv(w, Proceed(old))'
        /\ \A x : ~Holds(Proceed(old), x)
    BY <1>3, <1>4, <2>3, ProceedKeeps
  <2> QED
    BY <1>2, <2>4
<1>6. /\ confirmed' \in 0..asked /\ last_update_id' \in 0..asked
      /\ \A u \in Updates : u <= last_update_id' \/ u <= confirmed' => Done(u)'
  BY <1>3, <1>4
<1>7. worker' = [worker EXCEPT ![w] = r]
  BY <1>1, <1>2
<1>8. \A u \in Updates : OnRecord(u, "chat")' /\ ~Holds(r, u)
                         /\ (Owns(w, u) \/ ~OnRecord(u, "chat")) => Settled(u)'
  OBVIOUS
<1>9. \A m \in Messages : Holds(r, m) => Owns(w, m) \/ ~OnRecord(m, "chat")
  BY <1>5
<1>10. \A m \in Messages : ~Owns(w, m) =>
         delivered'[m] = delivered[m] /\ (OnRecord(m, "username")' => OnRecord(m, "username"))
  OBVIOUS
<1>11. \A m : OnRecord(m, "chat") => OnRecord(m, "chat")'
  OBVIOUS
<1> QED
  BY <1>5, <1>6, <1>7, <1>8, <1>9, <1>10, <1>11, StepKeeps

LEMMA FailKeeps ==
  ASSUME IInv, NEW w \in Workers, Fail(w)
  PROVE  IInv'
<1>1. /\ worker[w].step \in Busy
      /\ worker' = [worker EXCEPT ![w] = Proceed(worker[w])]
      /\ interrupted' = interrupted \cup {Current(w)}
      /\ UNCHANGED <<asked, deliveries, office, confirmed, last_update_id, history, delivered>>
  BY Zenon DEF Fail, Goto, Busy
<1>2. PICK m : m = Current(w)
  OBVIOUS
<1>3. /\ m \in Messages /\ history \subseteq Incoming \cup Outgoing
      /\ delivered \in [Messages -> Seq(Reply)] /\ interrupted \subseteq Messages
      /\ \A x \in Messages : Len(delivered[x]) <= 1
  BY <1>1, <1>2, WorkerFacts
<1>4. interrupted' = interrupted \cup {m}
  BY <1>1, <1>2
<1>5. /\ \A x, s : OnRecord(x, s)' <=> OnRecord(x, s)
      /\ \A x, y : Written(x, y)' <=> Written(x, y)
      /\ \A x : SendingFailed(x)' <=> SendingFailed(x)
  BY <1>1, HistoryKept
<1>6. \A u \in Updates : Owns(w, u) => Settled(u)'
  <2> SUFFICES ASSUME NEW u \in Updates, Owns(w, u) PROVE u \in interrupted'
    BY DEF Settled
  <2>1. u = m
    BY <1>2, OwnsCurrent DEF Messages
  <2> QED
    BY <1>4, <2>1
<1>7. \A x : x = Current(w) => Done(x)'
  BY <1>2, <1>4 DEF Done
<1> QED
  BY <1>1, <1>3, <1>4, <1>5, <1>6, <1>7, FinishKeeps

LEMMA RecordFailureKeeps ==
  ASSUME IInv, NEW w \in Workers, RecordFailure(w)
  PROVE  IInv'
<1>1. PICK m : m = Current(w)
  OBVIOUS
<1>2. PICK reply : reply = worker[w].reply
  OBVIOUS
<1>3. /\ worker[w].step = "failed"
      /\ worker' = [worker EXCEPT ![w] = Proceed(worker[w])]
      /\ history' = history \cup {OutgoingRow(m, reply, "failed")}
      /\ UNCHANGED <<outside, office, confirmed, last_update_id, delivered, interrupted>>
  BY <1>1, <1>2, Zenon DEF RecordFailure, Goto
<1>4. worker[w].step \in Busy
  BY <1>3 DEF Busy
<1>5. /\ m \in Messages /\ history \subseteq Incoming \cup Outgoing
      /\ delivered \in [Messages -> Seq(Reply)] /\ interrupted \subseteq Messages
      /\ \A x \in Messages : Len(delivered[x]) <= 1
      /\ worker[w] \in WorkerRecord /\ Holding(worker[w]) /\ worker[w].batch # <<>>
  BY <1>1, <1>4, WorkerFacts
<1>6. reply \in Reply
  BY <1>2, <1>5 DEF WorkerRecord
<1>7. history' \subseteq Incoming \cup Outgoing
  <2>1. OutgoingRow(m, reply, "failed") \in Outgoing
    <3>1. "failed" \in Status
      BY DEF Status
    <3> QED
      BY <1>5, <1>6, <3>1, RowTypes
  <2> QED
    BY <1>3, <1>5, <2>1
<1>8. /\ \A x, s : OnRecord(x, s)' <=> OnRecord(x, s)
      /\ \A x, y : Written(x, y)' <=> Written(x, y) \/ (x = m /\ y = reply)
      /\ \A x : SendingFailed(x)' <=> SendingFailed(x) \/ x = m
  <2>1. history' = history \cup {OutgoingRow(m, reply, "failed")}
    BY <1>3
  <2> QED
    BY <2>1, OutgoingShows
<1>9. \A u \in Updates : Owns(w, u) => Settled(u)'
  BY <1>1, <1>8, OwnsCurrent DEF Settled, Messages
<1>10. Owns(w, m)
  BY <1>1, <1>3, <1>5 DEF Owns, Holds, Current
<1>11. \A x : x = Current(w) => Done(x)'
  <2>1. OnRecord(m, "chat")
    BY <1>5, <1>10 DEF Holding, Owns
  <2> QED
    BY <1>1, <1>8, <2>1 DEF Done
<1>12. asked' = asked /\ UNCHANGED office /\ UNCHANGED <<confirmed, last_update_id>>
       /\ UNCHANGED <<delivered, interrupted>>
  BY <1>3 DEF outside
<1> QED
  BY <1>3, <1>4, <1>5, <1>7, <1>8, <1>9, <1>11, <1>12, FinishKeeps

LEMMA CrashKeeps ==
  ASSUME IInv, NEW w \in Workers, Crash(w)
  PROVE  IInv'
<1>1. /\ worker' = [worker EXCEPT ![w] = Idle]
      /\ UNCHANGED <<asked, deliveries, office, confirmed, last_update_id, history, delivered>>
  BY DEF Crash, Goto
<1>2. interrupted' = interrupted \/ interrupted' = interrupted \cup {Current(w)}
  BY DEF Crash
<1>3. /\ Shape(w, worker[w]) /\ history \subseteq Incoming \cup Outgoing
      /\ delivered \in [Messages -> Seq(Reply)] /\ interrupted \subseteq Messages
      /\ \A x \in Messages : Len(delivered[x]) <= 1
      /\ confirmed \in 0..asked /\ last_update_id \in 0..asked /\ asked \in Nat
      /\ \A u \in Updates : u <= last_update_id \/ u <= confirmed => Done(u)
      /\ worker[w].step \in Busy => Current(w) \in Messages
  BY WorkerFacts
<1>4. interrupted' \subseteq Messages /\ interrupted \subseteq interrupted'
  <2>1. CASE worker[w].step \in Busy
    BY <1>2, <1>3, <2>1
  <2>2. CASE worker[w].step \notin Busy
    <3>1. ~(worker[w].step \in {"record", "send", "failed"} \/ worker[w].stage = "username")
      BY <1>3, <2>2 DEF Shape, Busy
    <3> QED
      BY <1>3, <3>1 DEF Crash
  <2> QED
    BY <2>1, <2>2
<1>5. /\ \A x, s : OnRecord(x, s)' <=> OnRecord(x, s)
      /\ \A x, y : Written(x, y)' <=> Written(x, y)
      /\ \A x : SendingFailed(x)' <=> SendingFailed(x)
  BY <1>1, HistoryKept
<1>6. Idle \in WorkerRecord /\ \A m : ~Holds(Idle, m)
  BY <1>3, IdleKeeps
<1>7. WorkerInv(w, Idle)'
  <2>1. /\ Idle.step = "idle" /\ Idle.batch = <<>> /\ Idle.stage = "chat"
        /\ Idle.loaded = 0 /\ Idle.high = 0
    BY DEF Idle
  <2>2. Shape(w, Idle)'
    BY <1>1, <1>3, <2>1 DEF Shape, Busy
  <2> QED
    BY <1>6, <2>1, <2>2 DEF WorkerInv, Holding, Passing
<1>8. \A u \in Updates : Owns(w, u) => Settled(u)'
  <2> SUFFICES ASSUME NEW u \in Updates, Owns(w, u) PROVE u \in interrupted'
    BY DEF Settled
  <2>1. u = Current(w)
    BY OwnsCurrent DEF Messages
  <2>2. worker[w].step \in {"record", "send", "failed"} \/ worker[w].stage = "username"
    BY DEF Owns, Holds
  <2> QED
    BY <2>1, <2>2 DEF Crash
<1>9. \A u \in Updates : OnRecord(u, "chat")' /\ ~Holds(Idle, u)
                         /\ (Owns(w, u) \/ ~OnRecord(u, "chat")) => Settled(u)'
  BY <1>5, <1>8
<1>10. /\ confirmed' \in 0..asked /\ last_update_id' \in 0..asked
       /\ \A u \in Updates : u <= last_update_id' \/ u <= confirmed' => Done(u)'
  BY <1>1, <1>3, <1>4, <1>5 DEF Done
<1>11. \A m \in Messages : ~Owns(w, m) =>
         delivered'[m] = delivered[m] /\ (OnRecord(m, "username")' => OnRecord(m, "username"))
  BY <1>1, <1>5
<1>12. /\ history' \subseteq Incoming \cup Outgoing /\ delivered' \in [Messages -> Seq(Reply)]
       /\ \A m \in Messages : Len(delivered'[m]) <= 1 /\ UNCHANGED office /\ asked' = asked
  BY <1>1, <1>3
<1> QED
  BY <1>1, <1>4, <1>5, <1>6, <1>7, <1>9, <1>10, <1>11, <1>12, StepKeeps

\* What a send does, whether the reply arrives or not.
LEMMA SendFacts ==
  ASSUME IInv, NEW w \in Workers, Send(w)
  PROVE  /\ asked' = asked /\ UNCHANGED office /\ UNCHANGED <<confirmed, last_update_id>>
         /\ UNCHANGED <<history, interrupted>>
         /\ worker[w].step = "send" /\ Owns(w, Current(w)) /\ Current(w) \in Messages
         /\ delivered' \in [Messages -> Seq(Reply)]
         /\ delivered[Current(w)] = <<>>
         /\ \A m \in Messages : Len(delivered'[m]) <= 1
         /\ \A m \in Messages : m # Current(w) => delivered'[m] = delivered[m]
         /\ \E arrives, raises \in BOOLEAN :
              /\ arrives \/ raises
              /\ arrives => delivered'[Current(w)] = <<worker[w].reply>>
              /\ ~arrives => delivered' = delivered
              /\ worker' = [worker EXCEPT ![w] = IF raises THEN AfterError(w)
                                                           ELSE Proceed(worker[w])]
<1>1. PICK m : m = Current(w)
  OBVIOUS
<1>2. PICK reply : reply = worker[w].reply
  OBVIOUS
<1>3. PICK arrives \in BOOLEAN, raises \in BOOLEAN :
        /\ arrives \/ raises
        /\ delivered' = IF arrives THEN [delivered EXCEPT ![m] = Append(@, reply)]
                                   ELSE delivered
        /\ worker' = [worker EXCEPT ![w] = IF raises THEN AfterError(w)
                                                     ELSE Proceed(worker[w])]
  BY <1>1, <1>2, Zenon DEF Send, Goto
<1>4. /\ worker[w].step = "send" /\ asked' = asked /\ UNCHANGED office
      /\ UNCHANGED <<confirmed, last_update_id>> /\ UNCHANGED <<history, interrupted>>
  BY DEF Send, outside
<1>5. /\ m \in Messages /\ delivered \in [Messages -> Seq(Reply)]
      /\ \A x \in Messages : Len(delivered[x]) <= 1
      /\ worker[w] \in WorkerRecord /\ Holding(worker[w]) /\ worker[w].batch # <<>>
  BY <1>1, <1>4, WorkerFacts DEF Busy
<1>6. reply \in Reply
  BY <1>2, <1>5 DEF WorkerRecord
<1>7. Owns(w, m)
  BY <1>1, <1>4, <1>5 DEF Owns, Holds, Current
<1>8. delivered[m] = <<>>
  BY <1>4, <1>5, <1>7 DEF Holding, Owns
<1>9. /\ arrives => delivered' = [delivered EXCEPT ![m] = <<reply>>]
      /\ ~arrives => delivered' = delivered
  BY <1>3, <1>5, <1>8
<1>10. /\ delivered' \in [Messages -> Seq(Reply)]
       /\ \A x \in Messages : Len(delivered'[x]) <= 1
       /\ \A x \in Messages : x # m => delivered'[x] = delivered[x]
       /\ arrives => delivered'[m] = <<reply>>
  <2>1. <<reply>> \in Seq(Reply) /\ Len(<<reply>>) = 1
    BY <1>6
  <2>2. CASE arrives
    <3>1. delivered' = [delivered EXCEPT ![m] = <<reply>>]
      BY <1>9, <2>2
    <3> HIDE <1>9
    <3>2. delivered'[m] = <<reply>> /\ \A x \in Messages : x # m => delivered'[x] = delivered[x]
      BY <1>5, <3>1
    <3>3. delivered' \in [Messages -> Seq(Reply)]
      BY <1>5, <2>1, <3>1
    <3>4. \A x \in Messages : Len(delivered'[x]) <= 1
      <4> SUFFICES ASSUME NEW x \in Messages PROVE Len(delivered'[x]) <= 1
        OBVIOUS
      <4>1. CASE x = m
        <5>1. Len(<<reply>>) = 1 /\ delivered'[x] = <<reply>>
          BY <2>1, <3>2, <4>1
        <5>2. Len(delivered'[x]) = 1
          BY <5>1, Zenon
        <5> QED
          BY <5>2
      <4>2. CASE x # m
        BY <1>5, <3>2, <4>2
      <4> QED
        BY <4>1, <4>2
    <3> QED
      BY <3>2, <3>3, <3>4
  <2>3. CASE ~arrives
    BY <1>5, <1>9, <2>3
  <2> QED
    BY <2>2, <2>3
<1>11. /\ arrives \/ raises
       /\ arrives => delivered'[Current(w)] = <<worker[w].reply>>
       /\ ~arrives => delivered' = delivered
       /\ worker' = [worker EXCEPT ![w] = IF raises THEN AfterError(w)
                                                    ELSE Proceed(worker[w])]
  BY <1>1, <1>2, <1>3, <1>9, <1>10, Zenon
<1>12. \E a, b \in BOOLEAN :
         /\ a \/ b
         /\ a => delivered'[Current(w)] = <<worker[w].reply>>
         /\ ~a => delivered' = delivered
         /\ worker' = [worker EXCEPT ![w] = IF b THEN AfterError(w) ELSE Proceed(worker[w])]
  BY <1>11, Zenon
<1> QED
  BY <1>1, <1>4, <1>5, <1>7, <1>8, <1>10, <1>12, Zenon

LEMMA SendKeeps ==
  ASSUME IInv, NEW w \in Workers, Send(w)
  PROVE  IInv'
<1>1. PICK m : m = Current(w)
  OBVIOUS
<1>2. PICK old : old = worker[w]
  OBVIOUS
<1>3. /\ asked' = asked /\ UNCHANGED office /\ UNCHANGED <<confirmed, last_update_id>>
      /\ UNCHANGED <<history, interrupted>>
      /\ old.step = "send" /\ Owns(w, m) /\ m \in Messages
      /\ delivered' \in [Messages -> Seq(Reply)]
      /\ \A x \in Messages : Len(delivered'[x]) <= 1
      /\ \A x \in Messages : x # m => delivered'[x] = delivered[x]
  BY <1>1, <1>2, SendFacts
<1>4. PICK arrives \in BOOLEAN, raises \in BOOLEAN :
        /\ arrives \/ raises
        /\ arrives => delivered'[m] = <<old.reply>>
        /\ worker' = [worker EXCEPT ![w] = IF raises THEN AfterError(w)
                                                     ELSE Proceed(worker[w])]
  <2>1. \E a, b \in BOOLEAN :
           /\ a \/ b
           /\ a => delivered'[Current(w)] = <<worker[w].reply>>
           /\ ~a => delivered' = delivered
           /\ worker' = [worker EXCEPT ![w] = IF b THEN AfterError(w) ELSE Proceed(worker[w])]
    BY SendFacts
  <2> QED
    BY <1>1, <1>2, <2>1
<1>5. /\ old \in WorkerRecord /\ Shape(w, old) /\ Holding(old) /\ Passing(w, old)
      /\ history \subseteq Incoming \cup Outgoing /\ interrupted \subseteq Messages
      /\ confirmed \in 0..asked /\ last_update_id \in 0..asked /\ asked \in Nat
      /\ \A u \in Updates : u <= last_update_id \/ u <= confirmed => Done(u)
      /\ w \in Hooks => m \in WhatsAppMessages
  BY <1>1, <1>2, <1>3, WorkerFacts DEF Busy
<1>6. /\ \A x, s : OnRecord(x, s)' <=> OnRecord(x, s)
      /\ \A x, y : Written(x, y)' <=> Written(x, y)
      /\ \A x : SendingFailed(x)' <=> SendingFailed(x)
  BY <1>3, HistoryKept
<1>7. \A x \in Messages : Owns(w, x) => x = m
  BY <1>1, OwnsCurrent
<1>8. history' \subseteq Incoming \cup Outgoing /\ interrupted' \subseteq Messages
      /\ interrupted \subseteq interrupted'
  BY <1>3, <1>5
<1>9. CASE raises /\ w \in Pollers
  <2>1. PICK r : r = [old EXCEPT !.step = "failed"]
    OBVIOUS
  <2>2. worker' = [worker EXCEPT ![w] = r]
    BY <1>2, <1>4, <1>9, <2>1, Zenon DEF AfterError
  <2>3. /\ r \in WorkerRecord /\ r.step = "failed" /\ r.batch = old.batch /\ r.stage = old.stage
        /\ r.loaded = old.loaded /\ r.high = old.high /\ r.reply = old.reply
    <3>1. "failed" \in Steps
      BY DEF Steps
    <3> QED
      BY <1>5, <2>1, <3>1 DEF WorkerRecord
  <2>4. \A x : Holds(r, x) <=> Holds(old, x)
    BY <1>3, <2>3 DEF Holds
  <2>5. Shape(w, r)'
    BY <1>3, <1>5, <2>3 DEF Shape, Busy
  <2>6. Holding(r)'
    BY <1>3, <1>5, <1>6, <2>3, <2>4 DEF Holding
  <2>7. Passing(w, r)'
    BY <1>3, <1>5, <1>6, <2>3 DEF Passing, Done
  <2>8. WorkerInv(w, r)'
    BY <2>5, <2>6, <2>7 DEF WorkerInv
  <2>9. \A x \in Messages : Holds(r, x) <=> Owns(w, x)
    BY <1>2, <2>4 DEF Owns
  <2>10. \A u \in Updates : OnRecord(u, "chat")' /\ ~Holds(r, u)
                            /\ (Owns(w, u) \/ ~OnRecord(u, "chat")) => Settled(u)'
    BY <1>6, <2>9 DEF Messages
  <2>11. /\ confirmed' \in 0..asked /\ last_update_id' \in 0..asked
         /\ \A u \in Updates : u <= last_update_id' \/ u <= confirmed' => Done(u)'
    BY <1>3, <1>5, <1>6 DEF Done
  <2>12. \A x \in Messages : ~Owns(w, x) =>
           delivered'[x] = delivered[x] /\ (OnRecord(x, "username")' => OnRecord(x, "username"))
    BY <1>3, <1>6
  <2>13. \A x \in Messages : Holds(r, x) => Owns(w, x) \/ ~OnRecord(x, "chat")
    BY <2>9
  <2> QED
    BY <1>3, <1>6, <1>8, <2>2, <2>3, <2>8, <2>10, <2>11, <2>12, <2>13, StepKeeps
<1>10. CASE ~raises \/ w \notin Pollers
  <2>1. worker' = [worker EXCEPT ![w] = Proceed(worker[w])]
    BY <1>4, <1>10, Zenon DEF AfterError
  <2>2. \A u \in Updates : Owns(w, u) => Settled(u)'
    <3> SUFFICES ASSUME NEW u \in Updates, Owns(w, u) PROVE delivered'[u] # <<>>
      BY DEF Settled
    <3>1. u = m
      BY <1>7 DEF Messages
    <3>2. w \in Pollers
      BY <1>5, <3>1, BotAssumption DEF Workers
    <3>3. delivered'[m] = <<old.reply>>
      BY <1>4, <1>10, <3>2
    <3>4. <<old.reply>> # <<>>
      OBVIOUS
    <3> QED
      BY <3>1, <3>3, <3>4
  <2>3. \A x : x = Current(w) => Done(x)'
    <3>1. OnRecord(m, "chat")
      BY <1>3, OwnsCurrent
    <3> QED
      BY <1>1, <1>6, <3>1 DEF Done
  <2>4. \A x \in Messages : ~Owns(w, x) => delivered'[x] = delivered[x]
    BY <1>3
  <2>5. worker[w].step \in Busy
    BY <1>2, <1>3 DEF Busy
  <2> QED
    BY <1>3, <1>6, <1>8, <2>1, <2>2, <2>3, <2>4, <2>5, FinishKeeps
<1> QED
  BY <1>9, <1>10

LEMMA SaveKeeps ==
  ASSUME IInv, NEW w \in Workers, Save(w)
  PROVE  IInv'
<1>1. PICK old : old = worker[w]
  OBVIOUS
<1>2. PICK m : m = Current(w)
  OBVIOUS
<1>3. /\ worker[w].step = "save"
      /\ asked' = asked /\ UNCHANGED office /\ UNCHANGED <<confirmed, last_update_id>>
      /\ UNCHANGED <<delivered, interrupted>>
  BY DEF Save, outside
<1>4. /\ old \in WorkerRecord /\ Shape(w, old) /\ Passing(w, old) /\ Holding(old)
      /\ old.batch # <<>> /\ m = Head(old.batch) /\ m \in Messages
      /\ history \subseteq Incoming \cup Outgoing
      /\ delivered \in [Messages -> Seq(Reply)] /\ interrupted \subseteq Messages
      /\ \A x \in Messages : Len(delivered[x]) <= 1
      /\ confirmed \in 0..asked /\ last_update_id \in 0..asked /\ asked \in Nat
      /\ \A u \in Updates : u <= last_update_id \/ u <= confirmed => Done(u)
  BY <1>1, <1>2, <1>3, WorkerFacts DEF Busy
<1>5. old.stage \in Stages /\ old.step = "save"
  BY <1>1, <1>3, <1>4 DEF WorkerRecord
<1>6. old.stage = "username" => Owns(w, m)
  BY <1>1, <1>4 DEF Owns, Holds
<1>7. CASE OnRecord(m, old.stage)
  <2>1. old.stage = "chat"
    BY <1>1, <1>4, <1>5, <1>6, <1>7 DEF Holding, Owns, Stages
  <2>2. worker' = [worker EXCEPT ![w] = Proceed(worker[w])] /\ history' = history
    <3>1. OnRecord(Current(w), worker[w].stage)
      BY <1>1, <1>2, <1>7
    <3> QED
      BY <3>1, Zenon DEF Save, Goto
  <2>3. Done(Current(w))
    BY <1>2, <1>7, <2>1 DEF Done
  <2>4. \A x \in Messages : ~Owns(w, x)
    BY <1>1, <1>5, <2>1 DEF Owns, Holds
  <2>5. worker[w].step \in Busy
    BY <1>3 DEF Busy
  <2> QED
    BY <1>3, <2>2, <2>3, <2>4, <2>5, SkipKeeps
<1>8. CASE ~OnRecord(m, old.stage)
  <2>1. PICK r : r = [old EXCEPT !.step = "record"]
    OBVIOUS
  <2>2. /\ worker' = [worker EXCEPT ![w] = r]
        /\ history' = history \cup {IncomingRow(m, old.stage, old.draft)}
    <3>1. ~OnRecord(Current(w), worker[w].stage)
      BY <1>1, <1>2, <1>8
    <3>2. /\ worker' = [worker EXCEPT ![w] = [worker[w] EXCEPT !.step = "record"]]
          /\ history' = history \cup
                          {IncomingRow(Current(w), worker[w].stage, worker[w].draft)}
      BY <3>1, Zenon DEF Save, Goto
    <3> QED
      BY <1>1, <1>2, <2>1, <3>2, Zenon
  <2>3. /\ r \in WorkerRecord /\ r.step = "record" /\ r.batch = old.batch
        /\ r.stage = old.stage /\ r.loaded = old.loaded /\ r.high = old.high
        /\ r.reply = old.reply
    <3>1. "record" \in Steps
      BY DEF Steps
    <3> QED
      BY <1>4, <2>1, <3>1 DEF WorkerRecord
  <2>4. history' \subseteq Incoming \cup Outgoing
    <3>1. old.draft \in Reply
      BY <1>4 DEF WorkerRecord
    <3>2. IncomingRow(m, old.stage, old.draft) \in Incoming
      BY <1>4, <1>5, <3>1, RowTypes
    <3> QED
      BY <1>4, <2>2, <3>2
  <2>5. /\ \A x, s : OnRecord(x, s)' <=> OnRecord(x, s) \/ (x = m /\ s = old.stage)
        /\ \A x, y : Written(x, y)' <=> Written(x, y)
        /\ \A x : SendingFailed(x)' <=> SendingFailed(x)
    <3>1. history' = history \cup {IncomingRow(m, old.stage, old.draft)}
      BY <2>2
    <3> QED
      BY <3>1, IncomingShows
  <2>6. \A x : Holds(r, x) <=> x = m
    BY <1>4, <2>3 DEF Holds
  <2>7. Shape(w, r)'
    BY <1>3, <1>4, <1>5, <2>3 DEF Shape, Busy
  <2>8. Holding(r)'
    <3>1. OnRecord(m, "chat")'
      BY <1>1, <1>4, <1>5, <1>6, <2>5 DEF Stages, Holding, Owns
    <3>2. delivered[m] = <<>> /\ (old.stage = "chat" => ~OnRecord(m, "username"))
      <4>1. CASE old.stage = "chat"
        BY <1>4, <1>8, <4>1 DEF IInv, Unsaved
      <4>2. CASE old.stage = "username"
        BY <1>1, <1>4, <1>5, <1>6, <4>2 DEF Holding, Owns
      <4> QED
        BY <1>5, <4>1, <4>2 DEF Stages
    <3>3. old.stage = "username" => Written(m, old.reply)
      BY <1>1, <1>4, <1>6 DEF Holding, Owns
    <3> SUFFICES /\ OnRecord(m, "chat")'
                 /\ delivered'[m] = <<>>
                 /\ r.stage = "chat" => ~OnRecord(m, "username")'
                 /\ r.stage = "username" => Written(m, r.reply)'
      BY <1>4, <2>3, <2>6 DEF Holding
    <3> QED
      BY <1>3, <2>3, <2>5, <3>1, <3>2, <3>3
  <2>9. Passing(w, r)'
    BY <1>3, <1>4, <2>3, <2>5 DEF Passing, Done
  <2>10. WorkerInv(w, r)'
    BY <2>7, <2>8, <2>9 DEF WorkerInv
  <2>11. \A x \in Messages : Holds(r, x) => Owns(w, x) \/ ~OnRecord(x, "chat")
    BY <1>5, <1>6, <1>8, <2>6 DEF Stages
  <2>12. \A x \in Messages : ~Owns(w, x) =>
           delivered'[x] = delivered[x] /\ (OnRecord(x, "username")' => OnRecord(x, "username"))
    BY <1>3, <1>6, <2>5
  <2>13. \A u \in Updates : OnRecord(u, "chat")' /\ ~Holds(r, u)
                            /\ (Owns(w, u) \/ ~OnRecord(u, "chat")) => Settled(u)'
    <3>1. \A u \in Updates : Owns(w, u) => u = m
      BY <1>2, OwnsCurrent DEF Messages
    <3> QED
      BY <2>5, <2>6, <3>1
  <2>14. /\ confirmed' \in 0..asked /\ last_update_id' \in 0..asked
         /\ \A u \in Updates : u <= last_update_id' \/ u <= confirmed' => Done(u)'
    BY <1>3, <1>4, <2>5 DEF Done
  <2>15. /\ \A x : OnRecord(x, "chat") => OnRecord(x, "chat")'
         /\ \A x, y : Written(x, y) => Written(x, y)'
         /\ \A x : SendingFailed(x) => SendingFailed(x)'
    BY <2>5
  <2>16. /\ delivered' \in [Messages -> Seq(Reply)] /\ interrupted' \subseteq Messages
         /\ interrupted \subseteq interrupted'
         /\ \A x \in Messages : Len(delivered'[x]) <= 1
    BY <1>3, <1>4
  <2> QED
    BY <1>3, <2>2, <2>3, <2>4, <2>10, <2>11, <2>12, <2>13, <2>14, <2>15, <2>16, StepKeeps
<1> QED
  BY <1>7, <1>8

\* Where the first reply sends the poller on to the user name, and where it does not.
LEMMA AfterRecordIs ==
  ASSUME NEW w \in Workers, worker[w] \in WorkerRecord
  PROVE  /\ AfterRecord(w) \in WorkerRecord
         /\ AfterRecord(w).batch = worker[w].batch
         /\ AfterRecord(w).loaded = worker[w].loaded /\ AfterRecord(w).high = worker[w].high
         /\ \/ /\ w \in Pollers /\ worker[w].stage = "chat"
               /\ AfterRecord(w).step = "read" /\ AfterRecord(w).stage = "username"
               /\ AfterRecord(w).reply = worker[w].draft
            \/ /\ AfterRecord(w).step = "send" /\ AfterRecord(w).stage = worker[w].stage
               /\ \/ AfterRecord(w).reply = worker[w].draft
                  \/ worker[w].stage = "username" /\ AfterRecord(w).reply = worker[w].reply
<1>1. PICK r : r = worker[w]
  OBVIOUS
<1>2. r.draft \in Reply /\ r.reply \in Reply /\ Stranger \in Reply /\ r \in WorkerRecord
  BY <1>1 DEF WorkerRecord, Reply
<1>3. "read" \in Steps /\ "send" \in Steps /\ "username" \in Stages
  BY DEF Steps, Stages
<1>4. CASE TriesUsername(w)
  <2>1. AfterRecord(w) = [r EXCEPT !.step = "read", !.stage = "username",
                                   !.reply = r.draft, !.draft = Stranger]
    <3>1. AfterRecord(w) = [worker[w] EXCEPT !.step = "read", !.stage = "username",
                              !.reply = worker[w].draft, !.draft = Stranger]
      <4>1. ~(worker[w].stage = "username" /\ worker[w].draft.notListed)
        BY <1>4 DEF TriesUsername
      <4> QED
        BY <1>4, <4>1, Zenon DEF AfterRecord
    <3> QED
      BY <1>1, <3>1
  <2>2. w \in Pollers /\ r.stage = "chat"
    BY <1>1, <1>4 DEF TriesUsername
  <2> QED
    BY <1>1, <1>2, <1>3, <2>1, <2>2 DEF WorkerRecord
<1>5. CASE ~TriesUsername(w) /\ r.stage = "username" /\ r.draft.notListed
  <2>1. AfterRecord(w) = [r EXCEPT !.step = "send", !.draft = Stranger]
    BY <1>1, <1>5, Zenon DEF AfterRecord
  <2> QED
    BY <1>1, <1>2, <1>3, <1>5, <2>1 DEF WorkerRecord
<1>6. CASE ~TriesUsername(w) /\ ~(r.stage = "username" /\ r.draft.notListed)
  <2>1. AfterRecord(w) = [r EXCEPT !.step = "send", !.reply = r.draft, !.draft = Stranger]
    BY <1>1, <1>6, Zenon DEF AfterRecord
  <2> QED
    BY <1>1, <1>2, <1>3, <2>1 DEF WorkerRecord
<1> QED
  BY <1>4, <1>5, <1>6

LEMMA RecordKeeps ==
  ASSUME IInv, NEW w \in Workers, Record(w)
  PROVE  IInv'
<1>1. PICK old : old = worker[w]
  OBVIOUS
<1>2. PICK m : m = Current(w)
  OBVIOUS
<1>3. PICK r : r = AfterRecord(w)
  OBVIOUS
<1>4. /\ old.step = "record"
      /\ worker' = [worker EXCEPT ![w] = r]
      /\ history' = history \cup {OutgoingRow(m, old.draft, StatusOf(old.draft))}
      /\ UNCHANGED <<outside, office, confirmed, last_update_id, delivered, interrupted>>
  BY <1>1, <1>2, <1>3, Zenon DEF Record, Goto
<1>5. /\ asked' = asked /\ UNCHANGED office /\ UNCHANGED <<confirmed, last_update_id>>
      /\ UNCHANGED <<delivered, interrupted>>
  BY <1>4 DEF outside
<1>6. /\ old \in WorkerRecord /\ Shape(w, old) /\ Passing(w, old) /\ Holding(old)
      /\ old.batch # <<>> /\ m = Head(old.batch) /\ m \in Messages
      /\ history \subseteq Incoming \cup Outgoing
      /\ delivered \in [Messages -> Seq(Reply)] /\ interrupted \subseteq Messages
      /\ \A x \in Messages : Len(delivered[x]) <= 1
      /\ confirmed \in 0..asked /\ last_update_id \in 0..asked /\ asked \in Nat
      /\ \A u \in Updates : u <= last_update_id \/ u <= confirmed => Done(u)
  BY <1>1, <1>2, <1>4, WorkerFacts DEF Busy
<1>7. /\ r \in WorkerRecord /\ r.batch = old.batch
      /\ r.loaded = old.loaded /\ r.high = old.high
      /\ \/ /\ w \in Pollers /\ old.stage = "chat"
            /\ r.step = "read" /\ r.stage = "username" /\ r.reply = old.draft
         \/ /\ r.step = "send" /\ r.stage = old.stage
            /\ \/ r.reply = old.draft
               \/ old.stage = "username" /\ r.reply = old.reply
  <2>1. worker[w] \in WorkerRecord
    BY <1>1, <1>6
  <2> HIDE DEF WorkerRecord
  <2>2. /\ AfterRecord(w) \in WorkerRecord
        /\ AfterRecord(w).batch = worker[w].batch
        /\ AfterRecord(w).loaded = worker[w].loaded /\ AfterRecord(w).high = worker[w].high
        /\ \/ /\ w \in Pollers /\ worker[w].stage = "chat"
              /\ AfterRecord(w).step = "read" /\ AfterRecord(w).stage = "username"
              /\ AfterRecord(w).reply = worker[w].draft
           \/ /\ AfterRecord(w).step = "send" /\ AfterRecord(w).stage = worker[w].stage
              /\ \/ AfterRecord(w).reply = worker[w].draft
                 \/ worker[w].stage = "username" /\ AfterRecord(w).reply = worker[w].reply
    BY <2>1, AfterRecordIs
  <2> QED
    BY <1>1, <1>3, <2>2
<1>8. old.draft \in Reply /\ StatusOf(old.draft) \in Status
  <2>1. old.draft \in Reply
    BY <1>6 DEF WorkerRecord
  <2> QED
    BY <2>1, ReplyType
<1>9. history' \subseteq Incoming \cup Outgoing
  <2>1. OutgoingRow(m, old.draft, StatusOf(old.draft)) \in Outgoing
    BY <1>6, <1>8, RowTypes
  <2> QED
    BY <1>4, <1>6, <2>1
<1>10. /\ \A x, s : OnRecord(x, s)' <=> OnRecord(x, s)
       /\ \A x, y : Written(x, y)' <=> Written(x, y) \/ (x = m /\ y = old.draft)
       /\ \A x : SendingFailed(x) => SendingFailed(x)'
  <2>1. history' = history \cup {OutgoingRow(m, old.draft, StatusOf(old.draft))}
    BY <1>4
  <2> QED
    BY <2>1, OutgoingShows
<1>11. \A x : (Holds(r, x) <=> x = m) /\ (Holds(old, x) <=> x = m)
  BY <1>4, <1>6, <1>7 DEF Holds
<1>12. WorkerInv(w, r)'
  <2>1. Shape(w, r)'
    BY <1>4, <1>5, <1>6, <1>7, BotAssumption DEF Shape, Busy
  <2>2. Holding(r)'
    <3>1. /\ OnRecord(m, "chat") /\ delivered[m] = <<>>
          /\ old.stage = "chat" => ~OnRecord(m, "username")
          /\ old.stage = "username" => Written(m, old.reply)
      BY <1>4, <1>6, <1>11 DEF Holding
    <3>2. Written(m, r.reply)'
      BY <1>7, <1>10, <3>1
    <3>3. (r.stage = "chat" \/ r.step \in {"read", "save"}) => old.stage = "chat"
      BY <1>7
    <3>4. delivered'[m] = <<>> /\ OnRecord(m, "chat")'
          /\ (old.stage = "chat" => ~OnRecord(m, "username")')
      BY <1>5, <1>10, <3>1
    <3> QED
      BY <1>11, <3>2, <3>3, <3>4 DEF Holding
  <2>3. Passing(w, r)'
    BY <1>5, <1>6, <1>7, <1>10 DEF Passing, Done
  <2> QED
    BY <2>1, <2>2, <2>3 DEF WorkerInv
<1>13. \A x \in Messages : Holds(r, x) <=> Owns(w, x)
  BY <1>1, <1>11 DEF Owns
<1>14. \A u \in Updates : OnRecord(u, "chat")' /\ ~Holds(r, u)
                          /\ (Owns(w, u) \/ ~OnRecord(u, "chat")) => Settled(u)'
  BY <1>10, <1>13 DEF Messages
<1>15. /\ confirmed' \in 0..asked /\ last_update_id' \in 0..asked
       /\ \A u \in Updates : u <= last_update_id' \/ u <= confirmed' => Done(u)'
  BY <1>5, <1>6, <1>10 DEF Done
<1>16. /\ delivered' \in [Messages -> Seq(Reply)] /\ interrupted' \subseteq Messages
       /\ interrupted \subseteq interrupted'
       /\ \A x \in Messages : Len(delivered'[x]) <= 1
       /\ \A x : OnRecord(x, "chat") => OnRecord(x, "chat")'
       /\ \A x, y : Written(x, y) => Written(x, y)'
  BY <1>5, <1>6, <1>10
<1>17. \A x \in Messages : ~Owns(w, x) =>
         delivered'[x] = delivered[x] /\ (OnRecord(x, "username")' => OnRecord(x, "username"))
  BY <1>5, <1>10
<1>18. \A x \in Messages : Holds(r, x) => Owns(w, x) \/ ~OnRecord(x, "chat")
  BY <1>13
<1> QED
  BY <1>4, <1>5, <1>7, <1>9, <1>10, <1>12, <1>14, <1>15, <1>16, <1>17, <1>18, StepKeeps

-----------------------------------------------------------------------------
(* The customers and the office *)

\* Whatever leaves the workers and the history alone keeps what is known of them.
LEMMA AroundKeeps ==
  ASSUME IInv, UNCHANGED <<history, worker, delivered, interrupted>>,
         asked' \in asked..MaxUpdates,
         confirmed' = confirmed,
         last_update_id' \in 0..asked', form' \in -1..asked',
         telegram_id' \in [Parties -> TelegramNames \cup {NoAddress}],
         standing' \in [Parties -> Standings], ready' \in BOOLEAN,
         \A u \in Updates : u <= last_update_id' \/ u <= form' => Done(u)
  PROVE  IInv'
<1>1. /\ TypeOK /\ \A w \in Workers : WorkerInv(w, worker[w])
      /\ OneHolder /\ Unsaved /\ AnsweredOnce /\ InHand /\ Offsets
  BY DEF IInv
<1>2. /\ asked \in Nat /\ asked' \in Nat /\ asked' >= asked /\ MaxUpdates \in Nat
      /\ asked' \in 0..MaxUpdates
      /\ worker \in [Workers -> WorkerRecord] /\ confirmed \in 0..asked
  BY <1>1, BotAssumption DEF TypeOK
<1>3. TypeOK'
  BY <1>1, <1>2 DEF TypeOK
<1>4. /\ \A x, s : OnRecord(x, s)' <=> OnRecord(x, s)
      /\ \A x, y : Written(x, y)' <=> Written(x, y)
      /\ \A x : SendingFailed(x)' <=> SendingFailed(x)
      /\ \A x : Done(x)' <=> Done(x)
      /\ \A x : Settled(x)' <=> Settled(x)
      /\ \A v, x : Owns(v, x)' <=> Owns(v, x)
  BY HistoryKept DEF Done, Settled, Owns
<1>5. \A w \in Workers : WorkerInv(w, worker[w])'
  <2> TAKE w \in Workers
  <2>1. WorkerInv(w, worker[w]) /\ worker[w] \in WorkerRecord /\ worker'[w] = worker[w]
    BY <1>1, <1>2
  <2>2. /\ \A m : OnRecord(m, "chat") => OnRecord(m, "chat")'
        /\ \A m : Done(m) => Done(m)'
        /\ \A m, x : Written(m, x) => Written(m, x)'
        /\ \A m \in Messages : Owns(w, m) =>
             delivered'[m] = delivered[m] /\ (OnRecord(m, "username")' => OnRecord(m, "username"))
    BY <1>4
  <2> QED
    BY <1>2, <2>1, <2>2, OthersKeep
<1>6. OneHolder' /\ Unsaved' /\ AnsweredOnce' /\ InHand'
  BY <1>1, <1>4 DEF OneHolder, Unsaved, AnsweredOnce, InHand
<1>7. Offsets'
  BY <1>1, <1>4 DEF Offsets
<1> QED
  BY <1>3, <1>5, <1>6, <1>7 DEF IInv

LEMMA OfficeKeeps ==
  ASSUME IInv, Ask \/ OpenSettings \/ SaveSettings \/ \E p \in Parties : EditParty(p)
  PROVE  IInv'
<1>1. TypeOK /\ Offsets
  BY DEF IInv
<1>2. /\ asked \in 0..MaxUpdates /\ last_update_id \in 0..asked /\ form \in -1..asked
      /\ telegram_id \in [Parties -> TelegramNames \cup {NoAddress}]
      /\ standing \in [Parties -> Standings] /\ ready \in BOOLEAN
      /\ MaxUpdates \in Nat
      /\ \A u \in Updates : u <= last_update_id \/ u <= form => Done(u)
  BY <1>1, BotAssumption DEF TypeOK, Offsets
<1>3. CASE Ask
  <2>1. /\ UNCHANGED <<history, worker, delivered, interrupted>>
        /\ UNCHANGED <<telegram_id, standing, ready, form, confirmed, last_update_id>>
        /\ asked' = asked + 1 /\ asked < MaxUpdates
    BY <1>3 DEF Ask, office
  <2>2. asked' \in asked..MaxUpdates /\ last_update_id' \in 0..asked' /\ form' \in -1..asked'
    BY <1>2, <2>1
  <2> QED
    BY <1>2, <2>1, <2>2, AroundKeeps
<1>4. CASE OpenSettings
  <2>1. /\ UNCHANGED <<history, worker, delivered, interrupted>>
        /\ UNCHANGED <<asked, telegram_id, standing, ready, confirmed, last_update_id>>
        /\ form' = last_update_id
    BY <1>4 DEF OpenSettings
  <2>2. asked' \in asked..MaxUpdates /\ last_update_id' \in 0..asked' /\ form' \in -1..asked'
    BY <1>2, <2>1
  <2>3. \A u \in Updates : u <= last_update_id' \/ u <= form' => Done(u)
    BY <1>2, <2>1
  <2> QED
    BY <1>2, <2>1, <2>2, <2>3, AroundKeeps
<1>5. CASE SaveSettings
  <2>1. /\ UNCHANGED <<history, worker, delivered, interrupted>>
        /\ UNCHANGED <<asked, telegram_id, standing, confirmed>>
        /\ last_update_id' = form /\ form # -1 /\ form' = -1 /\ ready' \in BOOLEAN
    BY <1>5 DEF SaveSettings, outside
  <2>2. asked' \in asked..MaxUpdates /\ last_update_id' \in 0..asked' /\ form' \in -1..asked'
    BY <1>2, <2>1
  <2>3. \A u \in Updates : u <= last_update_id' \/ u <= form' => Done(u)
    BY <1>2, <2>1 DEF Updates
  <2> QED
    BY <1>2, <2>1, <2>2, <2>3, AroundKeeps
<1>6. ASSUME NEW p \in Parties, EditParty(p) PROVE IInv'
  <2>1. /\ UNCHANGED <<history, worker, delivered, interrupted>>
        /\ UNCHANGED <<asked, ready, form, confirmed, last_update_id>>
        /\ telegram_id' \in [Parties -> TelegramNames \cup {NoAddress}]
        /\ standing' \in [Parties -> Standings]
    BY <1>2, <1>6 DEF EditParty
  <2>2. asked' \in asked..MaxUpdates /\ last_update_id' \in 0..asked' /\ form' \in -1..asked'
    BY <1>2, <2>1
  <2> QED
    BY <1>2, <2>1, <2>2, AroundKeeps
<1> QED
  BY <1>3, <1>4, <1>5, <1>6

-----------------------------------------------------------------------------
(* The invariant, and what follows from it *)

LEMMA InitKeeps == Init => IInv
<1> SUFFICES ASSUME Init PROVE IInv
  OBVIOUS
<1>1. /\ asked = 0 /\ confirmed = 0 /\ last_update_id = 0 /\ form = -1 /\ history = {}
      /\ worker = [w \in Workers |-> Idle] /\ delivered = [m \in Messages |-> <<>>]
      /\ interrupted = {} /\ ready = TRUE
      /\ telegram_id \in [Parties -> TelegramNames \cup {NoAddress}]
      /\ standing \in [Parties -> Standings]
  BY DEF Init
<1>2. \A w \in Workers : /\ worker[w] = Idle /\ worker[w] \in WorkerRecord
                         /\ WorkerInv(w, worker[w]) /\ \A m : ~Owns(w, m)
  BY <1>1, IdleKeeps DEF Owns
<1>3. TypeOK
  BY <1>1, <1>2, BotAssumption DEF TypeOK
<1>4. \A m, s : ~OnRecord(m, s)
  BY <1>1 DEF OnRecord
<1>5. \A m \in Messages : delivered[m] = <<>> /\ Len(delivered[m]) = 0
  BY <1>1
<1>6. Offsets
  BY <1>1 DEF Offsets, Updates
<1> QED
  BY <1>2, <1>3, <1>4, <1>5, <1>6 DEF IInv, OneHolder, Unsaved, AnsweredOnce, InHand

LEMMA NextKeeps == IInv /\ [Next]_vars => IInv'
<1> SUFFICES ASSUME IInv, [Next]_vars PROVE IInv'
  OBVIOUS
<1>1. ASSUME NEW p \in Pollers, Load(p) PROVE IInv'
  BY <1>1, LoadKeeps
<1>2. ASSUME NEW p \in Pollers, Fetch(p) PROVE IInv'
  BY <1>2, FetchKeeps
<1>3. ASSUME NEW p \in Pollers, SaveOffset(p) PROVE IInv'
  BY <1>3, SaveOffsetKeeps
<1>4. ASSUME NEW w \in Workers, Read(w) PROVE IInv'
  BY <1>4, ReadKeeps
<1>5. ASSUME NEW w \in Workers, Save(w) PROVE IInv'
  BY <1>5, SaveKeeps
<1>6. ASSUME NEW w \in Workers, Record(w) PROVE IInv'
  BY <1>6, RecordKeeps
<1>7. ASSUME NEW w \in Workers, Send(w) PROVE IInv'
  BY <1>7, SendKeeps
<1>8. ASSUME NEW w \in Workers, RecordFailure(w) PROVE IInv'
  BY <1>8, RecordFailureKeeps
<1>9. ASSUME NEW w \in Workers, Fail(w) PROVE IInv'
  BY <1>9, FailKeeps
<1>10. ASSUME NEW w \in Workers, Crash(w) PROVE IInv'
  BY <1>10, CrashKeeps
<1>11. ASSUME NEW h \in Hooks, NEW m \in WhatsAppMessages, Deliver(h, m) PROVE IInv'
  BY <1>11, DeliverKeeps
<1>12. CASE Ask \/ OpenSettings \/ SaveSettings \/ \E p \in Parties : EditParty(p)
  BY <1>12, OfficeKeeps
<1>13. CASE UNCHANGED vars
  <2>1. UNCHANGED <<history, worker, delivered, interrupted>> /\ asked' = asked
        /\ UNCHANGED <<telegram_id, standing, ready, form, confirmed, last_update_id>>
    BY <1>13 DEF vars, outside, office
  <2>2. /\ asked \in 0..MaxUpdates /\ last_update_id \in 0..asked /\ form \in -1..asked
        /\ telegram_id \in [Parties -> TelegramNames \cup {NoAddress}]
        /\ standing \in [Parties -> Standings] /\ ready \in BOOLEAN
        /\ \A u \in Updates : u <= last_update_id \/ u <= form => Done(u)
    BY DEF IInv, TypeOK, Offsets
  <2>3. asked' \in asked..MaxUpdates
    BY <2>1, <2>2, BotAssumption
  <2> QED
    BY <2>1, <2>2, <2>3, AroundKeeps
<1> QED
  BY <1>1, <1>2, <1>3, <1>4, <1>5, <1>6, <1>7, <1>8, <1>9, <1>10, <1>11, <1>12, <1>13
  DEF Next, Step

\* IInv holds in every reachable state.
THEOREM Invariance == Spec => []IInv
<1>1. Init => IInv
  BY InitKeeps
<1>2. IInv /\ [Next]_vars => IInv'
  BY NextKeeps
<1> QED
  BY <1>1, <1>2, PTL DEF Spec

\* The state of pollers, webhook requests and history keeps its type (views.py and telegram.py).
THEOREM TypeCorrect == Spec => []TypeOK
<1>1. IInv => TypeOK
  BY DEF IInv
<1> QED
  BY <1>1, Invariance, PTL

\* handle_incoming answers a question at most once, however often it is delivered,
\* with any number of pollers and requests, crashes and failing saves.
THEOREM OnceAnswered == Spec => []AnsweredOnce
<1>1. IInv => AnsweredOnce
  BY DEF IInv
<1> QED
  BY <1>1, Invariance, PTL

\* tick's offset, the one bot_settings writes back and what Telegram forgets never pass
\* a question that is not on record, unless its handling failed.
THEOREM NothingIsSkipped == Spec => []NothingSkipped
<1>1. IInv => NothingSkipped
  BY DEF IInv, Offsets, Done, NothingSkipped
<1> QED
  BY <1>1, Invariance, PTL

\* A question on record that nobody is handling was answered, has a failed reply in
\* the history, or was cut short (tick and _send_reply).
THEOREM SilenceIsExplained == Spec => []SilenceExplained
<1>1. IInv => SilenceExplained
  <2> SUFFICES ASSUME IInv, NEW u \in Updates, OnRecord(u, "chat"),
                      \A w \in Workers : u \notin Range(worker[w].batch)
               PROVE  Settled(u)
    BY DEF SilenceExplained
  <2>1. ASSUME NEW w \in Workers, Owns(w, u) PROVE FALSE
    <3>1. worker[w].batch \in Seq(Messages) /\ worker[w].batch # <<>>
      BY <2>1, WorkerFacts DEF Owns, Holds, WorkerRecord
    <3>2. /\ Head(worker[w].batch) = worker[w].batch[1]
          /\ 1 \in DOMAIN worker[w].batch
      BY <3>1, BatchTail
    <3>3. Head(worker[w].batch) \in Range(worker[w].batch)
      BY <3>2 DEF Range
    <3> QED
      BY <2>1, <3>3 DEF Owns, Holds
  <2> QED
    BY <2>1 DEF IInv, InHand
<1> QED
  BY <1>1, Invariance, PTL

-----------------------------------------------------------------------------
(* Bot implements Desk *)

Entered == {m \in Messages : OnRecord(m, "chat")}

InBook == [m \in Messages |-> {row.reply : row \in RowsOf(m, "out")}]

NotedFailed == {m \in Messages : SendingFailed(m)}

LEMMA InBookIs ==
  /\ \A m \in Messages : \A x : x \in InBook[m] <=> Written(m, x)
  /\ (\A m \in Messages : \A x : x \in InBook[m] <=> Written(m, x))'
BY DEF InBook, RowsOf, Written

\* The book is the same where the history shows the same of every message.
LEMMA BookKept ==
  /\ (\A m \in Messages : OnRecord(m, "chat")' <=> OnRecord(m, "chat")) => Entered' = Entered
  /\ (\A m \in Messages : \A x : Written(m, x)' <=> Written(m, x)) => InBook' = InBook
  /\ (\A m \in Messages : SendingFailed(m)' <=> SendingFailed(m)) => NotedFailed' = NotedFailed
<1>1. (\A m \in Messages : OnRecord(m, "chat")' <=> OnRecord(m, "chat")) => Entered' = Entered
  BY DEF Entered
<1>2. (\A m \in Messages : SendingFailed(m)' <=> SendingFailed(m)) => NotedFailed' = NotedFailed
  BY DEF NotedFailed
<1>3. (\A m \in Messages : \A x : Written(m, x)' <=> Written(m, x)) => InBook' = InBook
  <2> SUFFICES ASSUME \A m \in Messages : \A x : Written(m, x)' <=> Written(m, x)
               PROVE  InBook' = InBook
    OBVIOUS
  <2>1. ASSUME NEW m \in Messages PROVE InBook'[m] = InBook[m]
    <3>1. \A x : x \in InBook'[m] <=> x \in InBook[m]
      BY InBookIs
    <3> HIDE DEF InBook
    <3>2. /\ \A x \in InBook'[m] : x \in InBook[m]
          /\ \A x \in InBook[m] : x \in InBook'[m]
      BY <3>1
    <3>3. InBook'[m] \subseteq InBook[m] /\ InBook[m] \subseteq InBook'[m]
      BY <3>2
    <3> QED
      BY <3>3
  <2>2. /\ InBook = [m \in Messages |-> InBook[m]]
        /\ InBook' = [m \in Messages |-> InBook'[m]]
    BY DEF InBook
  <2> QED
    BY <2>1, <2>2
<1> QED
  BY <1>1, <1>2, <1>3

\* What Desk sees of the state.
LEMMA DeskSees ==
  ASSUME Entered' = Entered, InBook' = InBook, NotedFailed' = NotedFailed,
         asked' = asked, confirmed' = confirmed,
         delivered' = delivered, interrupted' = interrupted
  PROVE  UNCHANGED Book!deskVars
BY DEF Book!deskVars, Entered, InBook, NotedFailed

LEMMA Stutters ==
  ASSUME UNCHANGED <<asked, confirmed, history, delivered, interrupted>>
  PROVE  UNCHANGED Book!deskVars
<1>1. Entered' = Entered /\ InBook' = InBook /\ NotedFailed' = NotedFailed
  BY HistoryKept, BookKept
<1> QED
  BY <1>1, DeskSees

LEMMA FetchPutsAway ==
  ASSUME IInv, IInv', NEW p \in Pollers, Fetch(p)
  PROVE  Book!PutAway
<1>1. /\ confirmed' = Confirmed(worker[p].loaded)
      /\ UNCHANGED <<outside, office, last_update_id, history, delivered, interrupted>>
  BY Zenon DEF Fetch
<1>2. asked' = asked
  BY <1>1 DEF outside
<1>3. Entered' = Entered /\ InBook' = InBook /\ NotedFailed' = NotedFailed
  BY <1>1, HistoryKept, BookKept
<1>4. /\ confirmed \in Nat /\ confirmed' \in Nat /\ confirmed' <= MaxUpdates
      /\ MaxUpdates \in Nat /\ worker[p].loaded \in Nat
  <2>1. p \in Workers /\ worker[p] \in WorkerRecord
    BY WorkerFacts DEF Workers
  <2> QED
    BY <1>2, <2>1, BotAssumption DEF IInv, TypeOK, WorkerRecord
<1>5. confirmed <= confirmed'
  BY <1>1, <1>4 DEF Confirmed
<1>6. 1..confirmed \subseteq 1..confirmed'
  BY <1>4, <1>5
<1>7. \A u \in 1..confirmed' : u \in Entered \cup interrupted
  <2> SUFFICES ASSUME NEW u \in 1..confirmed' PROVE u \in Entered \cup interrupted
    OBVIOUS
  <2>1. u \in Updates /\ u \in Messages /\ u <= confirmed'
    BY <1>4 DEF Updates, Messages
  <2>2. Done(u)'
    BY <2>1 DEF IInv, Offsets
  <2>3. OnRecord(u, "chat") \/ u \in interrupted
    BY <1>1, <2>2, HistoryKept DEF Done
  <2> QED
    BY <2>1, <2>3 DEF Entered
<1>8. /\ 1..confirmed \subseteq (1..confirmed)'
      /\ (1..confirmed)' \ (1..confirmed) \subseteq Entered \cup interrupted
  BY <1>6, <1>7
<1> QED
  BY <1>1, <1>2, <1>3, <1>8 DEF Book!PutAway, Entered, InBook, NotedFailed

\* A message somebody works on was sent by a customer.
LEMMA Handed ==
  ASSUME IInv, NEW w \in Workers, worker[w].step \in Busy
  PROVE  Current(w) \in Messages /\ Current(w) \in 1..asked \cup WhatsAppMessages
BY WorkerFacts DEF Workers

LEMMA SaveEnters ==
  ASSUME IInv, NEW w \in Workers, Save(w)
  PROVE  (\E q \in Messages : Book!Enter(q)) \/ UNCHANGED Book!deskVars
<1>1. PICK m : m = Current(w)
  OBVIOUS
<1>2. PICK old : old = worker[w]
  OBVIOUS
<1>3. /\ old.step = "save"
      /\ \/ history' = history
         \/ /\ ~OnRecord(m, old.stage)
            /\ history' = history \cup {IncomingRow(m, old.stage, old.draft)}
      /\ UNCHANGED <<asked, confirmed, delivered, interrupted>>
  <2>1. worker[w].step = "save" /\ UNCHANGED <<asked, confirmed, delivered, interrupted>>
    BY DEF Save, outside
  <2>2. CASE OnRecord(Current(w), worker[w].stage)
    BY <1>2, <2>1, <2>2, Zenon DEF Save
  <2>3. CASE ~OnRecord(Current(w), worker[w].stage)
    <3>1. history' = history \cup {IncomingRow(Current(w), worker[w].stage, worker[w].draft)}
      BY <2>3, Zenon DEF Save
    <3> QED
      BY <1>1, <1>2, <2>1, <2>3, <3>1
  <2> QED
    BY <2>2, <2>3
<1>4. CASE history' = history
  BY <1>3, <1>4, Stutters
<1>5. CASE /\ ~OnRecord(m, old.stage)
           /\ history' = history \cup {IncomingRow(m, old.stage, old.draft)}
  <2>1. /\ \A x, s : OnRecord(x, s)' <=> OnRecord(x, s) \/ (x = m /\ s = old.stage)
        /\ \A x, y : Written(x, y)' <=> Written(x, y)
        /\ \A x : SendingFailed(x)' <=> SendingFailed(x)
    BY <1>5, IncomingShows
  <2>2. InBook' = InBook /\ NotedFailed' = NotedFailed
    BY <2>1, BookKept
  <2>3. m \in Messages /\ m \in 1..asked \cup WhatsAppMessages
    BY <1>1, <1>2, <1>3, Handed DEF Busy
  <2>4. CASE old.stage = "chat"
    <3>1. m \notin Entered /\ Entered' = Entered \cup {m}
      BY <1>5, <2>1, <2>3, <2>4 DEF Entered
    <3>2. Book!Enter(m)
      BY <1>3, <2>2, <2>3, <3>1 DEF Book!Enter, Entered, InBook, NotedFailed
    <3> QED
      BY <2>3, <3>2
  <2>5. CASE old.stage # "chat"
    <3>1. Entered' = Entered
      BY <2>1, <2>5, BookKept
    <3> QED
      BY <1>3, <2>2, <3>1, DeskSees
  <2> QED
    BY <2>4, <2>5
<1> QED
  BY <1>3, <1>4, <1>5

LEMMA RecordWrites ==
  ASSUME IInv, NEW w \in Workers, Record(w)
  PROVE  \E q \in Messages, r \in Reply : Book!Write(q, r)
<1>1. PICK m : m = Current(w)
  OBVIOUS
<1>2. PICK draft : draft = worker[w].draft
  OBVIOUS
<1>3. /\ worker[w].step = "record"
      /\ history' = history \cup {OutgoingRow(m, draft, StatusOf(draft))}
      /\ UNCHANGED <<asked, confirmed, delivered, interrupted>>
  BY <1>1, <1>2, Zenon DEF Record, outside
<1>4. worker[w] \in WorkerRecord /\ m \in Messages /\ worker[w].batch # <<>>
  BY <1>1, <1>3, WorkerFacts DEF Busy
<1>5. draft \in Reply
  BY <1>2, <1>4 DEF WorkerRecord
<1>6. StatusOf(draft) # "failed"
  BY <1>5, ReplyType
<1>7. /\ \A x, s : OnRecord(x, s)' <=> OnRecord(x, s)
      /\ \A x, y : Written(x, y)' <=> Written(x, y) \/ (x = m /\ y = draft)
      /\ \A x : SendingFailed(x)' <=> SendingFailed(x)
  BY <1>3, <1>6, OutgoingShows
<1>8. Entered' = Entered /\ NotedFailed' = NotedFailed
  BY <1>7, BookKept
<1>9. m \in Entered
  <2>1. Owns(w, m)
    BY <1>1, <1>3, <1>4 DEF Owns, Holds, Current
  <2> QED
    BY <1>4, <2>1, OwnsCurrent DEF Entered
<1>10. InBook' = [InBook EXCEPT ![m] = @ \cup {draft}]
  <2>1. ASSUME NEW x \in Messages
        PROVE  InBook'[x] = [InBook EXCEPT ![m] = @ \cup {draft}][x]
    <3>1. \A y : y \in InBook'[x] <=> y \in InBook[x] \/ (x = m /\ y = draft)
      BY <1>7, InBookIs
    <3>2. [InBook EXCEPT ![m] = @ \cup {draft}][x]
            = IF x = m THEN InBook[x] \cup {draft} ELSE InBook[x]
      BY DEF InBook
    <3> HIDE DEF InBook
    <3>3. CASE x = m
      <4>1. \A y : y \in InBook'[x] <=> y \in InBook[x] \cup {draft}
        BY <3>1, <3>3
      <4>2. /\ \A y \in InBook'[x] : y \in InBook[x] \cup {draft}
            /\ \A y \in InBook[x] \cup {draft} : y \in InBook'[x]
        BY <4>1
      <4>3. InBook'[x] = InBook[x] \cup {draft}
        BY <4>2
      <4> QED
        BY <3>2, <3>3, <4>3
    <3>4. CASE x # m
      <4>1. /\ \A y \in InBook'[x] : y \in InBook[x]
            /\ \A y \in InBook[x] : y \in InBook'[x]
        BY <3>1, <3>4
      <4>2. InBook'[x] = InBook[x]
        BY <4>1
      <4> QED
        BY <3>2, <3>4, <4>2
    <3> QED
      BY <3>3, <3>4
  <2>2. /\ InBook' = [x \in Messages |-> InBook'[x]]
        /\ [InBook EXCEPT ![m] = @ \cup {draft}]
             = [x \in Messages |-> [InBook EXCEPT ![m] = @ \cup {draft}][x]]
    BY DEF InBook
  <2> QED
    BY <2>1, <2>2
<1>11. Book!Write(m, draft)
  BY <1>3, <1>8, <1>9, <1>10 DEF Book!Write, Entered, InBook, NotedFailed
<1> QED
  BY <1>4, <1>5, <1>11

LEMMA SendGives ==
  ASSUME IInv, NEW w \in Workers, Send(w)
  PROVE  (\E q \in Messages, r \in Reply : Book!Give(q, r)) \/ UNCHANGED Book!deskVars
<1>1. PICK m : m = Current(w)
  OBVIOUS
<1>2. PICK reply : reply = worker[w].reply
  OBVIOUS
<1>3. /\ worker[w].step = "send" /\ Owns(w, m) /\ m \in Messages
      /\ delivered[m] = <<>> /\ delivered' \in [Messages -> Seq(Reply)]
      /\ \A x \in Messages : x # m => delivered'[x] = delivered[x]
      /\ UNCHANGED <<asked, confirmed, history, interrupted>>
      /\ delivered' = delivered \/ delivered'[m] = <<reply>>
  BY <1>1, <1>2, SendFacts
<1>4. CASE delivered' = delivered
  BY <1>3, <1>4, Stutters
<1>5. CASE delivered'[m] = <<reply>>
  <2>1. /\ worker[w] \in WorkerRecord /\ Holding(worker[w])
        /\ delivered \in [Messages -> Seq(Reply)]
    BY WorkerFacts
  <2>2. reply \in Reply
    BY <1>2, <2>1 DEF WorkerRecord
  <2>3. reply \in InBook[m]
    BY <1>2, <1>3, <2>1, InBookIs DEF Holding, Owns
  <2>4. delivered' = [delivered EXCEPT ![m] = <<reply>>]
    BY <1>3, <1>5, <2>1
  <2>5. Entered' = Entered /\ InBook' = InBook /\ NotedFailed' = NotedFailed
    BY <1>3, HistoryKept, BookKept
  <2>6. Book!Give(m, reply)
    BY <1>3, <2>3, <2>4, <2>5 DEF Book!Give, Entered, InBook, NotedFailed
  <2> QED
    BY <1>3, <2>2, <2>6
<1> QED
  BY <1>3, <1>4, <1>5

LEMMA FailureIsNoted ==
  ASSUME IInv, NEW w \in Workers, RecordFailure(w)
  PROVE  \E q \in Messages : Book!Note(q)
<1>1. PICK m : m = Current(w)
  OBVIOUS
<1>2. PICK reply : reply = worker[w].reply
  OBVIOUS
<1>3. /\ worker[w].step = "failed"
      /\ history' = history \cup {OutgoingRow(m, reply, "failed")}
      /\ UNCHANGED <<asked, confirmed, delivered, interrupted>>
  BY <1>1, <1>2, Zenon DEF RecordFailure, outside
<1>4. m \in Messages /\ worker[w].batch # <<>> /\ Holding(worker[w])
  BY <1>1, <1>3, WorkerFacts DEF Busy
<1>5. Written(m, reply)
  BY <1>1, <1>2, <1>3, <1>4 DEF Holding, Holds, Current
<1>6. /\ \A x, s : OnRecord(x, s)' <=> OnRecord(x, s)
      /\ \A x, y : Written(x, y)' <=> Written(x, y)
      /\ \A x : SendingFailed(x)' <=> SendingFailed(x) \/ x = m
  BY <1>3, <1>5, OutgoingShows
<1>7. Entered' = Entered /\ InBook' = InBook
  BY <1>6, BookKept
<1>8. NotedFailed' = NotedFailed \cup {m}
  BY <1>4, <1>6 DEF NotedFailed
<1>9. InBook[m] # {}
  BY <1>4, <1>5, InBookIs
<1>10. Book!Note(m)
  BY <1>3, <1>7, <1>8, <1>9 DEF Book!Note, Entered, InBook, NotedFailed
<1> QED
  BY <1>4, <1>10

LEMMA FailureDrops ==
  ASSUME IInv, NEW w \in Workers, Fail(w) \/ Crash(w)
  PROVE  (\E q \in Messages : Book!Drop(q)) \/ UNCHANGED Book!deskVars
<1>1. PICK m : m = Current(w)
  OBVIOUS
<1>2. /\ UNCHANGED <<asked, confirmed, history, delivered>>
      /\ \/ interrupted' = interrupted
         \/ worker[w].step \in Busy /\ interrupted' = interrupted \cup {m}
  <2>1. CASE Fail(w)
    BY <1>1, <2>1, Zenon DEF Fail, Busy
  <2>2. CASE Crash(w)
    <3>1. UNCHANGED <<asked, confirmed, history, delivered>>
      BY <2>2 DEF Crash
    <3>2. worker[w].stage = "username" => worker[w].step \in Busy
      BY WorkerFacts DEF Shape
    <3> QED
      BY <1>1, <2>2, <3>1, <3>2 DEF Crash, Busy
  <2> QED
    BY <2>1, <2>2
<1>3. CASE interrupted' = interrupted
  BY <1>2, <1>3, Stutters
<1>4. CASE worker[w].step \in Busy /\ interrupted' = interrupted \cup {m}
  <2>1. m \in Messages /\ m \in 1..asked \cup WhatsAppMessages
    BY <1>1, <1>4, Handed
  <2>2. Entered' = Entered /\ InBook' = InBook /\ NotedFailed' = NotedFailed
    BY <1>2, HistoryKept, BookKept
  <2>3. Book!Drop(m)
    BY <1>2, <1>4, <2>1, <2>2 DEF Book!Drop, Entered, InBook, NotedFailed
  <2> QED
    BY <2>1, <2>3
<1> QED
  BY <1>2, <1>3, <1>4

LEMMA AskHandsIn ==
  ASSUME IInv, Ask
  PROVE  \E q \in Messages : Book!HandIn(q)
<1>1. /\ asked' = asked + 1 /\ asked < MaxUpdates
      /\ UNCHANGED <<confirmed, history, delivered, interrupted>>
  BY DEF Ask
<1>2. asked \in Nat /\ MaxUpdates \in Nat
  BY BotAssumption DEF IInv, TypeOK
<1>3. /\ asked + 1 \in Updates /\ asked + 1 \in Messages
      /\ asked + 1 \notin 1..asked \cup WhatsAppMessages
  BY <1>1, <1>2, BotAssumption DEF Updates, Messages
<1>4. 1..(asked + 1) = 1..asked \cup {asked + 1}
  BY <1>2
<1>5. Entered' = Entered /\ InBook' = InBook /\ NotedFailed' = NotedFailed
  BY <1>1, HistoryKept, BookKept
<1>6. (1..asked \cup WhatsAppMessages)' = (1..asked \cup WhatsAppMessages) \cup {asked + 1}
  BY <1>1, <1>4
<1>7. Book!HandIn(asked + 1)
  BY <1>1, <1>3, <1>5, <1>6 DEF Book!HandIn, Entered, InBook, NotedFailed
<1> QED
  BY <1>3, <1>7

\* The book of the bots is kept the way module Desk says: entered before written, written
\* before given out, given out once, and nothing put away that is not in it or dropped.
THEOREM Refinement == Spec => BotImplementsDesk
<1>1. Init => Book!DeskInit
  <2> SUFFICES ASSUME Init PROVE Book!DeskInit
    OBVIOUS
  <2>1. /\ asked = 0 /\ confirmed = 0 /\ history = {} /\ interrupted = {}
        /\ delivered = [m \in Messages |-> <<>>]
    BY DEF Init
  <2>2. /\ \A m \in Messages : ~OnRecord(m, "chat") /\ ~SendingFailed(m)
        /\ \A m \in Messages : RowsOf(m, "out") = {}
    BY <2>1 DEF OnRecord, SendingFailed, RowsOf
  <2>3. Entered = {} /\ NotedFailed = {} /\ InBook = [m \in Messages |-> {}]
    BY <2>2 DEF Entered, NotedFailed, InBook
  <2>4. 1..asked = {} /\ 1..confirmed = {}
    BY <2>1
  <2> QED
    BY <2>1, <2>3, <2>4 DEF Book!DeskInit, Entered, NotedFailed, InBook, Messages
<1>2. IInv /\ IInv' /\ [Next]_vars => [Book!DeskNext]_(Book!deskVars)
  <2> SUFFICES ASSUME IInv, IInv', [Next]_vars
               PROVE  Book!DeskNext \/ UNCHANGED Book!deskVars
    OBVIOUS
  <2>1. ASSUME NEW p \in Pollers, Fetch(p) PROVE Book!DeskNext
    BY <2>1, FetchPutsAway DEF Book!DeskNext
  <2>2. ASSUME NEW w \in Workers, Save(w) PROVE Book!DeskNext \/ UNCHANGED Book!deskVars
    BY <2>2, SaveEnters, Zenon DEF Book!DeskNext
  <2>3. ASSUME NEW w \in Workers, Record(w) PROVE Book!DeskNext
    BY <2>3, RecordWrites, Zenon DEF Book!DeskNext
  <2>4. ASSUME NEW w \in Workers, Send(w) PROVE Book!DeskNext \/ UNCHANGED Book!deskVars
    BY <2>4, SendGives, Zenon DEF Book!DeskNext
  <2>5. ASSUME NEW w \in Workers, RecordFailure(w) PROVE Book!DeskNext
    BY <2>5, FailureIsNoted, Zenon DEF Book!DeskNext
  <2>6. ASSUME NEW w \in Workers, Fail(w) \/ Crash(w)
        PROVE  Book!DeskNext \/ UNCHANGED Book!deskVars
    BY <2>6, FailureDrops, Zenon DEF Book!DeskNext
  <2>7. ASSUME Ask PROVE Book!DeskNext
    BY <2>7, AskHandsIn, Zenon DEF Book!DeskNext
  <2>8. ASSUME NEW w \in Workers,
               Load(w) \/ SaveOffset(w) \/ Read(w) \/ \E m \in WhatsAppMessages : Deliver(w, m)
        PROVE  UNCHANGED Book!deskVars
    <3>1. UNCHANGED <<asked, confirmed, history, delivered, interrupted>>
      BY <2>8 DEF Load, SaveOffset, Read, Deliver, outside
    <3> QED
      BY <3>1, Stutters
  <2>9. ASSUME OpenSettings \/ SaveSettings \/ (\E p \in Parties : EditParty(p)) \/ UNCHANGED vars
        PROVE  UNCHANGED Book!deskVars
    <3>1. UNCHANGED <<asked, confirmed, history, delivered, interrupted>>
      BY <2>9 DEF OpenSettings, SaveSettings, EditParty, vars, outside
    <3> QED
      BY <3>1, Stutters
  <2> QED
    BY <2>1, <2>2, <2>3, <2>4, <2>5, <2>6, <2>7, <2>8, <2>9 DEF Next, Step, Workers
<1> QED
  BY <1>1, <1>2, Invariance, PTL DEF Spec, BotImplementsDesk, Book!DeskSpec
=============================================================================
