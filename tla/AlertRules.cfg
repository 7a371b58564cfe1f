\* Two requests of one machine, one user rule.
SPECIFICATION Spec
CONSTANTS
  Rules = {"rule"}
  Checks = {}
  Discrete = {}
  Events = {}
  Class <- MCClass
  Handlers = {1, 2}
  ReqBreaches = 2
  ReqNormal = 2
  MaxRows = 4
  MaxCloses = 1
  MaxDbFails = 1
  MaxRestarts = 1
INVARIANTS
  DuplicatesBounded
PROPERTIES
  ResolveNeedsSustainedNormal
