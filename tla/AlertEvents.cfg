\* The comment on what the sweep resolves, against the code.
SPECIFICATION Spec
CONSTANTS
  Rules = {}
  Checks = {"nginx"}
  Discrete = {"nginx"}
  Events = {"oom"}
  Class <- MCClass
  Handlers = {1}
  ReqBreaches = 2
  ReqNormal = 2
  MaxRows = 4
  MaxCloses = 0
  MaxDbFails = 0
  MaxRestarts = 0
PROPERTIES
  SweepLeavesEvents
