\* The comment on sustained breaches, against the code.
SPECIFICATION Spec
CONSTANTS
  Rules = {"rule"}
  Checks = {}
  Discrete = {}
  Events = {}
  Class <- MCClass
  Handlers = {1}
  ReqBreaches = 2
  ReqNormal = 2
  MaxRows = 4
  MaxCloses = 0
  MaxDbFails = 0
  MaxRestarts = 0
PROPERTIES
  CreateNeedsSustainedBreach
