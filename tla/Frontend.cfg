SPECIFICATION FairSpec
CONSTANTS
  x = x
  y = y
  m1 = m1
  m2 = m2
  Scenes = {"page", "list", "logs", "row"}
  Things <- MCThings
  Writers = {w1, w2}
  MaxLoads = 2
  MaxMoves = 2
  MaxFaults = 1
  Machines <- MCMachines
  NoMachine = NoMachine
  MaxFetches = 2
  MaxListMoves = 3
  MaxListFaults = 1
  Kinds <- MCKinds
  Queries <- MCQueries
  Kept = 1
  HistorySize = 2
  MaxLines = 3
  MaxToggles = 2
  Handlers = {h1}
  Beat = Beat
  Monitor = Monitor
  MaxActs = 3
INVARIANTS
  TypeOK
  OwnDataOnly
  SeesWrites
  StreamKept
  DrillDown
  OperatorHolds
PROPERTIES
  PollSettles
  ListSettles
  RowSettles
CHECK_DEADLOCK FALSE
