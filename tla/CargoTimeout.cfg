\* The runner against its docstring's promise of a bound.
SPECIFICATION FairSpec
CONSTANTS
  MaxLines = 2
  PipeCap = 1
PROPERTY BoundedByTimeout
CHECK_DEADLOCK FALSE
