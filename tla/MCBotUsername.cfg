CONSTANTS
  chat = chat
  name = name
  phone = phone
  wa = wa
  ali = ali
  p1 = p1
  p2 = p2
  h1 = h1
  NoAddress = NoAddress
  NoParty = NoParty
  Pollers = {p1}
  Hooks = {h1}
  Parties = {ali}
  TelegramNames = {chat, name}
  Phones = {phone}
  WhatsAppMessages = {wa}
  Chat <- MCChat
  Username <- MCUsername
  Asks <- MCAsks
  WhatsAppNo <- MCWhatsAppNo
  MaxUpdates = 2
  MaxArrivals = 1
  MaxDisturbances = 0

\* No failures and no changes in the office while a message is handled.
CHECK_DEADLOCK FALSE

SPECIFICATION Spec

INVARIANT RegisteredIsKnown
