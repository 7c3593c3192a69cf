SPECIFICATION JobSpec
CONSTANTS
  f1 = f1 f2 = f2 o1 = o1
  Reconcilers = {f1, f2}
  Operators = {o1}
  CanarySteps <- MCCanarySteps
  MaxFailures = 2
CHECK_DEADLOCK FALSE
PROPERTY TerminalStays
