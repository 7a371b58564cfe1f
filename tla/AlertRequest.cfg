\* One request at a time: a rule, a check that alerts at once and an event, with
\* operators, database errors and a restart of the backend.
SPECIFICATION FairSpec
CONSTANTS
  Rules = {"rule"}
  Checks = {"nginx"}
  Discrete = {"nginx"}
  Events = {"oom"}
  Class <- MCClass
  Handlers = {1}
  ReqBreaches = 2
  ReqNormal = 2
  MaxRows = 4
  MaxCloses = 1
  MaxDbFails = 1
  MaxRestarts = 1
INVARIANTS
  TypeOK
PROPERTIES
  SustainedBreachStaysAlerted
  RecoveryIsResolved
