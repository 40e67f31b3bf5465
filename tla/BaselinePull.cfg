\* Does a pull request compare with main's baseline?
SPECIFICATION Spec
CONSTANTS
  MainRuns = {m1, m2}
  PullRuns = {p1, p2}
  again = {}
  Languages = {rust, python}
  Measured = {python}
  Levels = 2
  Band = 1
  MaxAttempts <- Attempts
INVARIANT PullComparesWithMain
