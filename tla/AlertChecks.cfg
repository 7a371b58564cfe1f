\* Two requests of one machine, two checks of one component, an operator, a restart.
SPECIFICATION FairSpec
CONSTANTS
  Rules = {}
  Checks = {"nodeCPU", "nodeMemory"}
  Discrete = {}
  Events = {}
  Class <- MCClass
  Handlers = {1, 2}
  ReqBreaches = 2
  ReqNormal = 2
  MaxRows = 4
  MaxCloses = 1
  MaxDbFails = 0
  MaxRestarts = 1
PROPERTIES
  SustainedBreachIsAlerted
  RecoveryIsResolved
