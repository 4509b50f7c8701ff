SPECIFICATION Spec
CONSTANTS
  MaxClients = 2
  MinSendSize = 2
  BuffSize = 2
  Overhead = 1
  WordSize = 16
  SendSizes = {0, 1, 4, 7}
  Answers = {"version", "oldversion", "handle", "ok", "denied", "garbled", "empty"}
INVARIANTS
  TypeOK
  FilesComplete
  SuccessIsComplete
  Gapless
  ResultNeverBlocks
  VerdictIsTrue
  NoConnectionLeft
PROPERTIES
  ClientsEnd
  ImplementsScatterGather
