CONSTANTS
  chat = chat
  name = name
  phone = phone
  wa = wa
  ali = ali
  p1 = p1
  p2 = p2
  h1 = h1
  NoAddress = NoAddress
  NoParty = NoParty
  Pollers = {p1, p2}
  Hooks = {h1}
  Parties = {ali}
  TelegramNames = {chat, name}
  Phones = {phone}
  WhatsAppMessages = {wa}
  Chat <- MCChat
  Username <- MCUsername
  Asks <- MCAsks
  WhatsAppNo <- MCWhatsAppNo
  MaxUpdates = 2
  MaxArrivals = 2
  MaxDisturbances = 1

\* A switched-off bot stops once the bounds are used up.
CHECK_DEADLOCK FALSE

SPECIFICATION LiveSpec

INVARIANTS
  TypeOK
  AnsweredOnce
  NothingSkipped
  SilenceExplained

PROPERTIES
  BotImplementsDesk
  EveryQuestionSettled
