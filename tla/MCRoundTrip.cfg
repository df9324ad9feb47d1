SPECIFICATION Spec
CONSTANTS
  Demos = {1, 2}
  Cfgs = {a, b}
  NoCfg = none
  Renewed = FALSE
  Endings <- Endings4
  MaxTime = 3
INVARIANTS SplitIsPrefix RoundTripExact
CHECK_DEADLOCK FALSE
