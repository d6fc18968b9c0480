--------------------------------- MODULE Bot ---------------------------------
(***************************************************************************)
(* The messaging bot: pollers that fetch Telegram updates and requests of  *)
(* the WhatsApp webhook, both answering through handle_incoming.           *)
(*                                                                         *)
(* Every save commits on its own (autocommit): a worker may be interrupted *)
(* between any two of them.  Two pollers run when the desktop program and  *)
(* `manage.py run_bot` share a database.  Texts are abstract, but for the  *)
(* one thing the poller looks for in them: notListed is whether a reply    *)
(* contains the words for "is not registered".                             *)
(***************************************************************************)
EXTENDS Integers, Sequences, Functions

CONSTANTS
  Pollers,        \* threads or processes running TelegramPoller
  Hooks,          \* threads serving whatsapp_webhook
  Parties,        \* customers
  TelegramNames,  \* chat ids and user names
  Phones,         \* WhatsApp numbers
  NoAddress,
  NoParty,
  MaxUpdates,     \* bound: Telegram updates, numbered from 1 without gaps
  WhatsAppMessages,
  Chat,           \* where a message comes from
  Username,       \* the sender's user name, where Telegram gives one
  Asks,           \* what is asked
  WhatsAppNo,     \* registered numbers of the customers
  MaxArrivals,    \* bound: updates sent and webhook requests, together
  MaxDisturbances \* bound: failing statements, crashes and changes made in the office

Updates == 1..MaxUpdates

Messages == Updates \cup WhatsAppMessages

Workers == Pollers \cup Hooks

Commands == {"help", "statement", "balance", "unclear"}

ASSUME BotAssumption ==
  /\ Pollers \cap Hooks = {}
  /\ Updates \cap WhatsAppMessages = {}
  /\ NoAddress \notin TelegramNames \cup Phones
  /\ NoParty \notin Parties
  /\ Chat \in [Messages -> TelegramNames \cup Phones]
  /\ Username \in [Updates -> TelegramNames \cup {NoAddress}]
  /\ Asks \in [Messages -> Commands]
  /\ WhatsAppNo \in [Parties -> Phones \cup {NoAddress}]
  /\ {MaxUpdates, MaxArrivals, MaxDisturbances} \subseteq Nat

VARIABLES
  asked,        \* updates customers have sent
  confirmed,    \* updates up to here Telegram has forgotten
  telegram_id,  \* of each customer
  standing,     \* what the ledger holds of each customer
  ready,        \* BotConfig.is_ready
  last_update_id,
  form,         \* last_update_id as an open settings request has read it
  history,      \* BotMessage
  worker,       \* what each poller and webhook request is doing
  delivered,    \* replies that reached the customer, by message
  interrupted,  \* messages whose handling a failure cut short
  deliveries,   \* webhook requests so far
  disturbances

office == <<telegram_id, standing, ready, form>>

outside == <<asked, deliveries, disturbances>>

vars == <<outside, office, confirmed, last_update_id, history, worker, delivered, interrupted>>

-----------------------------------------------------------------------------
(* Rows and replies *)

Standings == {"empty", "unrated", "rated"}

Stranger == [kind |-> "stranger", party |-> NoParty, notListed |-> TRUE]

Reply ==
  [kind : Commands, party : Parties, notListed : BOOLEAN] \cup {Stranger}

Status == {"ok", "unknown", "unparsed", "failed"}

\* A message looked up by user name is kept under "u" and its number.
Stages == {"chat", "username"}

Incoming ==
  [direction : {"in"}, message : Messages, stage : Stages,
   status : Status, party : Parties \cup {NoParty}]

Outgoing == [direction : {"out"}, message : Messages, reply : Reply, status : Status]

StatusOf(reply) ==
  CASE reply.kind = "stranger" -> "unknown"
    [] reply.kind = "unclear"  -> "unparsed"
    [] OTHER                   -> "ok"

IncomingRow(m, stage, reply) ==
  [direction |-> "in", message |-> m, stage |-> stage,
   status |-> StatusOf(reply), party |-> reply.party]

OutgoingRow(m, reply, status) ==
  [direction |-> "out", message |-> m, reply |-> reply, status |-> status]

\* uniq_incoming_bot_message: external_id is the message and the stage.
OnRecord(m, stage) ==
  \E row \in history : row.direction = "in" /\ row.message = m /\ row.stage = stage

\* No line yet, and a balance in a currency without a rate, are told with these words.
NotListed(command, state) ==
  \/ command = "statement" /\ state = "empty"
  \/ command = "balance" /\ state = "unrated"

\* Customers are not kept apart by a constraint: the first in the table is taken.
ResolveParty(m, stage) ==
  LET found ==
        IF m \in WhatsAppMessages
          THEN {p \in Parties : WhatsAppNo[p] = Chat[m]}
          ELSE {p \in Parties :
                  telegram_id[p] = IF stage = "chat" THEN Chat[m] ELSE Username[m]}
  IN IF found = {} THEN NoParty ELSE CHOOSE p \in found : TRUE

ReplyTo(m, stage) ==
  LET p == ResolveParty(m, stage)
  IN IF p = NoParty
       THEN Stranger
       ELSE [kind |-> Asks[m], party |-> p, notListed |-> NotListed(Asks[m], standing[p])]

-----------------------------------------------------------------------------
(* Workers *)

Idle ==
  [step |-> "idle", loaded |-> 0, high |-> 0, batch |-> <<>>,
   stage |-> "chat", draft |-> Stranger, reply |-> Stranger]

Steps == {"idle", "poll", "read", "save", "record", "send", "failed", "offset"}

Current(w) == Head(worker[w].batch)

\* The loop goes on to the next message; a poller that has done all of them moves the offset.
Proceed(r) ==
  LET fresh == [r EXCEPT !.batch = Tail(@), !.stage = "chat",
                         !.draft = Stranger, !.reply = Stranger]
  IN CASE fresh.batch # <<>>   -> [fresh EXCEPT !.step = "read"]
       [] fresh.batch = <<>> /\ r.high # r.loaded -> [fresh EXCEPT !.step = "offset"]
       [] OTHER                -> Idle

Goto(w, r) == worker' = [worker EXCEPT ![w] = r]

\* tick reads the settings.
Load(p) ==
  /\ worker[p] = Idle
  /\ ready
  /\ Goto(p, [Idle EXCEPT !.step = "poll", !.loaded = last_update_id, !.high = last_update_id])
  /\ UNCHANGED <<outside, office, confirmed, last_update_id, history, delivered, interrupted>>

\* Telegram forgets what is below the offset it is asked for.
Confirmed(loaded) == IF loaded > confirmed THEN loaded ELSE confirmed

\* Variant for mutation: the offset is one too high.
FetchedTooLate(loaded) ==
  [i \in 1..(asked - Confirmed(loaded + 1)) |-> Confirmed(loaded + 1) + i]

\* getUpdates with offset = loaded + 1: what is not forgotten yet, in order.
Fetched(loaded) == [i \in 1..(asked - Confirmed(loaded)) |-> Confirmed(loaded) + i]

\* Variant for mutation: the offset is saved before the messages are handled.
FetchMovingOffset(p) ==
  /\ worker[p].step = "poll"
  /\ LET r == worker[p]
         new == Fetched(r.loaded)
     IN /\ confirmed' = Confirmed(r.loaded)
        /\ last_update_id' = IF new = <<>> THEN last_update_id ELSE asked
        /\ Goto(p, IF new = <<>>
                     THEN Idle
                     ELSE [r EXCEPT !.step = "read", !.high = asked,
                                    !.batch = new])
  /\ UNCHANGED <<outside, office, history, delivered, interrupted>>

\* Telegram returns what it has not forgotten.
Fetch(p) ==
  /\ worker[p].step = "poll"
  /\ LET r == worker[p]
         new == Fetched(r.loaded)
     IN /\ confirmed' = Confirmed(r.loaded)
        /\ Goto(p, IF new = <<>>
                     THEN Idle
                     ELSE [r EXCEPT !.step = "read", !.high = asked,
                                    !.batch = new])
  /\ UNCHANGED <<outside, office, last_update_id, history, delivered, interrupted>>

\* WhatsApp calls the webhook, perhaps again with the same message.
Deliver(h, m) ==
  /\ worker[h] = Idle
  /\ asked + deliveries < MaxArrivals
  /\ deliveries' = deliveries + 1
  /\ Goto(h, [Idle EXCEPT !.step = "read", !.batch = <<m>>])
  /\ UNCHANGED <<asked, disturbances, office, confirmed, last_update_id,
                 history, delivered, interrupted>>

\* handle_incoming looks for the message, finds the customer and words the reply.
Read(w) ==
  /\ worker[w].step = "read"
  /\ LET r == worker[w]
         m == Current(w)
     IN Goto(w, CASE ~OnRecord(m, r.stage) -> [r EXCEPT !.step = "save",
                                                        !.draft = ReplyTo(m, r.stage)]
                  [] OnRecord(m, r.stage) /\ r.stage = "chat" -> Proceed(r)
                  [] OTHER -> [r EXCEPT !.step = "send"])
  /\ UNCHANGED <<outside, office, confirmed, last_update_id, history, delivered, interrupted>>

\* Variant for mutation: without the unique constraint.
SaveUnconstrained(w) ==
  /\ worker[w].step = "save"
  /\ LET r == worker[w]
     IN /\ history' = history \cup {IncomingRow(Current(w), r.stage, r.draft)}
        /\ Goto(w, [r EXCEPT !.step = "record"])
  /\ UNCHANGED <<outside, office, confirmed, last_update_id, delivered, interrupted>>

\* incoming.save(): the constraint refuses a row another worker has saved meanwhile,
\* and the error ends the handling of this message.
Save(w) ==
  /\ worker[w].step = "save"
  /\ LET r == worker[w]
         m == Current(w)
     IN IF OnRecord(m, r.stage)
          THEN /\ Goto(w, Proceed(r))
               /\ UNCHANGED history
          ELSE /\ history' = history \cup {IncomingRow(m, r.stage, r.draft)}
               /\ Goto(w, [r EXCEPT !.step = "record"])
  /\ UNCHANGED <<outside, office, confirmed, last_update_id, delivered, interrupted>>

\* A reply that says "not registered" sends the poller to the user name.
TriesUsername(w) ==
  /\ w \in Pollers
  /\ worker[w].stage = "chat"
  /\ Username[Current(w)] # NoAddress
  /\ worker[w].draft.notListed

AfterRecord(w) ==
  LET r == worker[w]
  IN CASE TriesUsername(w) ->
            [r EXCEPT !.step = "read", !.stage = "username", !.reply = r.draft, !.draft = Stranger]
       [] r.stage = "username" /\ r.draft.notListed ->
            [r EXCEPT !.step = "send", !.draft = Stranger]
       [] OTHER ->
            [r EXCEPT !.step = "send", !.reply = r.draft, !.draft = Stranger]

\* Variant for mutation: only the first of the two replies is recorded.
RecordFirst(w) ==
  /\ worker[w].step = "record"
  /\ history' =
       IF worker[w].stage = "chat"
         THEN history \cup
                {OutgoingRow(Current(w), worker[w].draft, StatusOf(worker[w].draft))}
         ELSE history
  /\ Goto(w, AfterRecord(w))
  /\ UNCHANGED <<outside, office, confirmed, last_update_id, delivered, interrupted>>

\* record_outgoing, before the reply is sent.
Record(w) ==
  /\ worker[w].step = "record"
  /\ history' =
       history \cup {OutgoingRow(Current(w), worker[w].draft, StatusOf(worker[w].draft))}
  /\ Goto(w, AfterRecord(w))
  /\ UNCHANGED <<outside, office, confirmed, last_update_id, delivered, interrupted>>

\* Variant for mutation: the poller, too, only logs that a reply could not be sent.
AfterErrorLogged(w) == Proceed(worker[w])

\* The poller records a reply that could not be sent; the webhook only logs it.
AfterError(w) ==
  IF w \in Pollers THEN [worker[w] EXCEPT !.step = "failed"] ELSE Proceed(worker[w])

\* The reply arrives or not, and the call returns or raises: after a time-out it may
\* have arrived all the same.
Send(w) ==
  /\ worker[w].step = "send"
  /\ \E arrives, raises \in BOOLEAN :
       /\ arrives \/ raises
       /\ delivered' = IF arrives
                         THEN [delivered EXCEPT ![Current(w)] = Append(@, worker[w].reply)]
                         ELSE delivered
       /\ Goto(w, IF raises THEN AfterError(w) ELSE Proceed(worker[w]))
  /\ UNCHANGED <<outside, office, confirmed, last_update_id, history, interrupted>>

RecordFailure(w) ==
  /\ worker[w].step = "failed"
  /\ history' = history \cup {OutgoingRow(Current(w), worker[w].reply, "failed")}
  /\ Goto(w, Proceed(worker[w]))
  /\ UNCHANGED <<outside, office, confirmed, last_update_id, delivered, interrupted>>

\* Variant for mutation: the next offset is stored instead of the last number.
SaveNextOffset(p) ==
  /\ worker[p].step = "offset"
  /\ last_update_id' = worker[p].high + 1
  /\ Goto(p, Idle)
  /\ UNCHANGED <<outside, office, confirmed, history, delivered, interrupted>>

\* The end of a tick that fetched something; another poller may be further already.
SaveOffset(p) ==
  /\ worker[p].step = "offset"
  /\ last_update_id' = worker[p].high
  /\ Goto(p, Idle)
  /\ UNCHANGED <<outside, office, confirmed, history, delivered, interrupted>>

Step(w) ==
  \/ w \in Pollers /\ (Load(w) \/ Fetch(w) \/ SaveOffset(w))
  \/ Read(w) \/ Save(w) \/ Record(w) \/ Send(w) \/ RecordFailure(w)

-----------------------------------------------------------------------------
(* What goes wrong, and what others do *)

\* A statement fails: the exception is swallowed and the loop goes on to the next message.
Fail(w) ==
  /\ worker[w].step \in {"read", "save", "record", "failed"}
  /\ disturbances < MaxDisturbances
  /\ disturbances' = disturbances + 1
  /\ interrupted' = interrupted \cup {Current(w)}
  /\ Goto(w, Proceed(worker[w]))
  /\ UNCHANGED <<asked, deliveries, office, confirmed, last_update_id, history, delivered>>

\* The process ends.  A message that is not on record yet is none the worse for it.
Crash(w) ==
  /\ worker[w] # Idle
  /\ disturbances < MaxDisturbances
  /\ disturbances' = disturbances + 1
  /\ interrupted' =
       IF worker[w].step \in {"record", "send", "failed"} \/ worker[w].stage = "username"
         THEN interrupted \cup {Current(w)}
         ELSE interrupted
  /\ Goto(w, Idle)
  /\ UNCHANGED <<asked, deliveries, office, confirmed, last_update_id, history, delivered>>

Ask ==
  /\ asked < MaxUpdates
  /\ asked + deliveries < MaxArrivals
  /\ asked' = asked + 1
  /\ UNCHANGED <<deliveries, disturbances, office, confirmed, last_update_id,
                 history, worker, delivered, interrupted>>

\* The office changes what is registered of a customer, or posts a document or a rate.
EditParty(p) ==
  /\ disturbances < MaxDisturbances
  /\ disturbances' = disturbances + 1
  /\ \/ /\ \E a \in TelegramNames \cup {NoAddress} : telegram_id' = [telegram_id EXCEPT ![p] = a]
        /\ UNCHANGED standing
     \/ /\ \E s \in Standings : standing' = [standing EXCEPT ![p] = s]
        /\ UNCHANGED telegram_id
  /\ UNCHANGED <<asked, deliveries, ready, form, confirmed, last_update_id,
                 history, worker, delivered, interrupted>>

\* bot_settings reads the row of the settings ...
OpenSettings ==
  /\ form = -1
  /\ disturbances < MaxDisturbances
  /\ disturbances' = disturbances + 1
  /\ form' = last_update_id
  /\ UNCHANGED <<asked, deliveries, telegram_id, standing, ready, confirmed,
                 last_update_id, history, worker, delivered, interrupted>>

\* ... and form.save() writes all of it back, the offset as it was read included.
SaveSettings ==
  /\ form # -1
  /\ last_update_id' = form
  /\ form' = -1
  /\ ready' \in BOOLEAN
  /\ UNCHANGED <<outside, telegram_id, standing, confirmed,
                 history, worker, delivered, interrupted>>

Init ==
  /\ telegram_id \in [Parties -> TelegramNames \cup {NoAddress}]
  /\ standing \in [Parties -> Standings]
  /\ ready = TRUE
  /\ form = -1
  /\ asked = 0 /\ deliveries = 0 /\ disturbances = 0
  /\ confirmed = 0
  /\ last_update_id = 0
  /\ history = {}
  /\ worker = [w \in Workers |-> Idle]
  /\ delivered = [m \in Messages |-> <<>>]
  /\ interrupted = {}

Next ==
  \/ \E w \in Workers : Step(w) \/ Fail(w) \/ Crash(w)
  \/ \E h \in Hooks, m \in WhatsAppMessages : Deliver(h, m)
  \/ \E p \in Parties : EditParty(p)
  \/ Ask \/ OpenSettings \/ SaveSettings

\* The loop of a poller goes round as long as its thread lives.
Fairness == \A p \in Pollers : WF_vars(Step(p))

Spec == Init /\ [][Next]_vars

LiveSpec == Spec /\ Fairness

-----------------------------------------------------------------------------
(* What must hold *)

WorkerRecord ==
  [step : Steps, loaded : 0..MaxUpdates, high : 0..MaxUpdates, batch : Seq(Messages),
   stage : Stages, draft : Reply, reply : Reply]

TypeOK ==
  /\ asked \in 0..MaxUpdates
  /\ confirmed \in 0..asked
  /\ last_update_id \in 0..asked
  /\ form \in -1..asked
  /\ telegram_id \in [Parties -> TelegramNames \cup {NoAddress}]
  /\ standing \in [Parties -> Standings]
  /\ ready \in BOOLEAN
  /\ history \subseteq Incoming \cup Outgoing
  /\ worker \in [Workers -> WorkerRecord]
  /\ delivered \in [Messages -> Seq(Reply)]
  /\ interrupted \subseteq Messages

\* A question is answered at most once, however often Telegram or WhatsApp hands it
\* over, with two pollers at work and after a crash at any point.
AnsweredOnce == \A m \in Messages : Len(delivered[m]) <= 1

\* The offset, and what Telegram forgets because of it, never passes a question that is
\* not in the history, unless the handling of it failed; not after a settings page
\* has put the offset back, nor when a slow poller has.
NothingSkipped ==
  \A u \in Updates :
    u <= last_update_id \/ u <= confirmed => OnRecord(u, "chat") \/ u \in interrupted

SendingFailed(m) ==
  \E row \in history : row.direction = "out" /\ row.message = m /\ row.status = "failed"

Settled(m) == delivered[m] # <<>> \/ SendingFailed(m) \/ m \in interrupted

\* A Telegram question that nobody is handling any more and that was not answered has a
\* failed reply in the history, unless its handling was cut short.
SilenceExplained ==
  \A u \in Updates :
    OnRecord(u, "chat") /\ (\A w \in Workers : u \notin Range(worker[w].batch)) => Settled(u)

\* If the bot stays switched on, every question is in the end answered or its failure recorded.
EveryQuestionSettled ==
  <>[]ready => \A u \in Updates : asked >= u ~> Settled(u)

\* Claimed by the comment on user names in process_update: they are accepted, too.  A sender
\* registered under his number or his user name is not told that he is not
\* registered (for runs in which the office changes nothing meanwhile).
RegisteredIsKnown ==
  \A u \in Updates : \A i \in DOMAIN delivered[u] :
    (\E p \in Parties : telegram_id[p] \in {Chat[u], Username[u]})
      => delivered[u][i].kind # "stranger"
=============================================================================
