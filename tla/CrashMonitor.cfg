\* Two restarts in a window of three ticks; a Check may last two.
SPECIFICATION FairSpec
CONSTANTS
  MaxRestarts = 2
  RestartWindow = 3
  CooldownDuration = 3
  MaxElapsed = 2
INVARIANTS
  TypeOK
  RestartBudget
  EscalatedWasRaised
PROPERTIES
  RemediationResumes
