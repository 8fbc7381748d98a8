SPECIFICATION ServicesSpec
CONSTANTS
  Addr = {1, 2}
  Val = {v1, v2}
  Reader = {r1, r2}
  MaxTel = 2
  MaxAdmin = 2
  Ring = 4
  Wrap = 16
  Client = {c1}
  MaxUpd = 26
  Peer = {p}
  Room = 3
  MaxAsks = 4
  MaxWaiting = 2
  Values = {0, 170, 4660, 2018915346}
  Lengths = {1, 17}
  MaxHops = 2
  Cells <- MCCells
  Block = 2
  Small = 1
  MaxLate = 2
  Admin = {a1, a2}
  Device = {d1, d2}
  Address = {1, 2}
  Given <- MCGiven
  MaxWork = 2
  MaxPress = 1
  MaxLost = 1
  Bodies = {2, 250}
  MaxErrors = 5
  Junk = {0, 2, 255}
  SectionStarts = {281, 282, 284}
  SectionSizes = {0, 2, 38}
  Table <- MCTable
  MaxOrders = 3
  MaxTurns = 1
  e1 = e1
  e2 = e2
  Endpoint = {e1, e2}
  Own <- MCOwn
  GroupAddress = {3}
  MaxFrames = 2
  MaxOpens = 2
  Descriptions <- MCDescriptions
  Wishes <- MCWishes
  Flags <- MCFlags
  Sites <- MCSites
  CommandLines <- MCCommandLines
  MaxRequests = 2
  Questions <- MCQuestions
  MaxQuestions = 2
  Attempts = 2
INVARIANTS
  HoldsLast
  NoDangling
  Ordered
  CodecsAgree
  Truthful
  BuiltAsChosen
PROPERTIES
  ReadReturns
  NoLostAnswer
  PollsExact
  ServerEnds
  
CHECK_DEADLOCK FALSE
