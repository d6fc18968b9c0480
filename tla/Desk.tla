-------------------------------- MODULE Desk --------------------------------
(***************************************************************************)
(* What the bots promise, whatever workers, retries and failures are       *)
(* behind it: a desk that enters each question in its book, writes a reply *)
(* there before it gives it out, gives out one reply at most, and puts no  *)
(* question away that it has not entered or dropped with a failure.        *)
(***************************************************************************)
EXTENDS Sequences

CONSTANTS Questions, Replies

VARIABLES
  handed,   \* questions customers have handed in
  entered,  \* questions in the book
  written,  \* question -> the replies written in the book
  noted,    \* questions with a failed reply in the book
  given,    \* question -> the replies given out
  dropped,  \* questions whose handling a failure cut short
  away      \* questions put away: they will not come again

deskVars == <<handed, entered, written, noted, given, dropped, away>>

DeskInit ==
  /\ handed \subseteq Questions
  /\ entered = {} /\ noted = {} /\ dropped = {} /\ away = {}
  /\ written = [q \in Questions |-> {}]
  /\ given = [q \in Questions |-> << >>]

HandIn(q) ==
  /\ q \notin handed
  /\ handed' = handed \cup {q}
  /\ UNCHANGED <<entered, written, noted, given, dropped, away>>

\* Once, however often the question comes back and whoever takes it.
Enter(q) ==
  /\ q \in handed \ entered
  /\ entered' = entered \cup {q}
  /\ UNCHANGED <<handed, written, noted, given, dropped, away>>

Write(q, r) ==
  /\ q \in entered
  /\ written' = [written EXCEPT ![q] = @ \cup {r}]
  /\ UNCHANGED <<handed, entered, noted, given, dropped, away>>

Give(q, r) ==
  /\ r \in written[q]
  /\ given[q] = << >>
  /\ given' = [given EXCEPT ![q] = <<r>>]
  /\ UNCHANGED <<handed, entered, written, noted, dropped, away>>

\* Sending failed, or seemed to.
Note(q) ==
  /\ written[q] # {}
  /\ noted' = noted \cup {q}
  /\ UNCHANGED <<handed, entered, written, given, dropped, away>>

Drop(q) ==
  /\ q \in handed
  /\ dropped' = dropped \cup {q}
  /\ UNCHANGED <<handed, entered, written, noted, given, away>>

PutAway ==
  /\ away \subseteq away'
  /\ away' \ away \subseteq entered \cup dropped
  /\ UNCHANGED <<handed, entered, written, noted, given, dropped>>

DeskNext ==
  \/ PutAway
  \/ \E q \in Questions :
       \/ HandIn(q) \/ Enter(q) \/ Note(q) \/ Drop(q)
       \/ \E r \in Replies : Write(q, r) \/ Give(q, r)

DeskSpec == DeskInit /\ [][DeskNext]_deskVars
=============================================================================
