CONSTANTS
  BlockHash <- MCBlockHash
  zero_block = zero
  Account = {a, b}
  WireAmount <- MCWireAmount
  IntHalf = 4
  MaxTxCredits = 2
  MaxRewrites = 2
  TxHash <- MCTxHash
  Amount <- MCAmount
  MaxPoolCredits = 2
  HashElement <- MCHashElement
  Raw <- MCRaw
  BloomElement = {x, y}
  Sizes <- MCSizes
  SetElement = {1, 2, 3, 4}
  MaxFilters = 2
  Thread = {"serve", "manage"}
  MaxSockets <- MCMaxSockets
  BUFSIZE = 10
  HDR = 1
  Messages <- MCMessages
  Dumps <- MCDumps
  Addresses <- MCAddresses
  WordBits = 11
  MaxWords = 24
  Phrases <- MCPhrases
  Pads <- MCPads
  Pass = {1, 2}
  Salt = {1, 2}
  Text <- MCText
  HexText <- MCHexText
  PadOf <- MCPadOf
  Strings <- MCStrings
  None = None
SPECIFICATION FairSpec
CHECK_DEADLOCK FALSE
INVARIANTS
  TypeOK HeightsFit RootedMarked
  CreatedAccepted AcceptedSigned 
  LatestSound LatestGreedy
  HashTells CopyAgrees CheckTells
  ContextSettles DumpWhole OutsideAddress
  PhraseKept Recovered LoadsInOrder BitsKept
PROPERTY Terminates
