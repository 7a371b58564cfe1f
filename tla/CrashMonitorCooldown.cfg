\* The comment on the cooldown, against the code.
SPECIFICATION Spec
CONSTANTS
  MaxRestarts = 2
  RestartWindow = 2
  CooldownDuration = 2
  MaxElapsed = 1
PROPERTIES
  ResetOnlyWhenStable
