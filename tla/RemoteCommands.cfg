SPECIFICATION FairSpec
CONSTANTS
  p1 = p1
  p2 = p2
  t1 = t1
  h1 = h1
  h2 = h2
  None = None
  Plain    <- MCPlain
  Terminal <- MCTerminal
  Handlers <- MCHandlers
  MaxJobs   = 2
  MaxFaults = 2
INVARIANTS
  TypeOK
  PlainStartedOnce
PROPERTIES
  ResultStays
  TerminalAnswered
  PlainTaken
