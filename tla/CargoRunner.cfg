\* Both platforms; three lines a stream, two of which fill a pipe.
SPECIFICATION FairSpec
CONSTANTS
  MaxLines = 3
  PipeCap = 2
INVARIANTS SuccessIsComplete NoCargoLeft OutcomeIsGenuine
PROPERTY EndsUnlessHeld
CHECK_DEADLOCK FALSE
