------------------------------- MODULE BotDesk -------------------------------
(***************************************************************************)
(* Bot as the desk of module Desk: its book is BotMessage, and what        *)
(* Telegram has forgotten is put away.                                     *)
(***************************************************************************)
EXTENDS Bot

RowsOf(m, direction) == {row \in history : row.direction = direction /\ row.message = m}

Book == INSTANCE Desk WITH
  Questions <- Messages,
  Replies   <- Reply,
  handed    <- 1..asked \cup WhatsAppMessages,
  entered   <- {m \in Messages : OnRecord(m, "chat")},
  written   <- [m \in Messages |-> {row.reply : row \in RowsOf(m, "out")}],
  noted     <- {m \in Messages : SendingFailed(m)},
  given     <- delivered,
  dropped   <- interrupted,
  away      <- 1..confirmed

\* Every step of the pollers and of the webhook, with failures and crashes between any
\* two saves, is one step of a desk or none: a question is entered before a reply to it is
\* written, a reply written before it is given out, one is given out at most, and
\* Telegram forgets no question that was neither entered nor dropped.
BotImplementsDesk == Book!DeskSpec
=============================================================================
