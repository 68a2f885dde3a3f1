CONSTANTS
  Publishers = {p1, p2}
  Holders = {control, task}
  Renewer = control
  MaxSubscriptions = 4
  MaxValues = 2
SPECIFICATION Spec
INVARIANTS EveryHolderObserves InOrder CaughtUp
CHECK_DEADLOCK FALSE
