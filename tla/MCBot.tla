-------------------------------- MODULE MCBot --------------------------------
(* One customer who asks for a statement and a balance by Telegram, and for *)
(* help by WhatsApp.                                                        *)
EXTENDS BotDesk

CONSTANTS chat, name, phone, wa, ali, p1, p2, h1

MCChat == [m \in Messages |-> IF m = wa THEN phone ELSE chat]

MCUsername == [u \in Updates |-> name]

MCWhatsAppNo == [p \in Parties |-> phone]

MCAsks ==
  [m \in Messages |-> CASE m = wa -> "help"
                        [] m = 1  -> "statement"
                        [] OTHER  -> "balance"]
=============================================================================
