\* Two languages, three runs of main, so that a dip may follow on a dip, one of
\* them run again, and a pull request; any of them may be cancelled or fail.
SPECIFICATION Spec
CONSTANTS
  MainRuns = {m1, m2, m3}
  PullRuns = {p1}
  again = {m1}
  Languages = {rust, python}
  Measured = {rust, python}
  Levels = 2
  Band = 1
  MaxAttempts <- Attempts
INVARIANTS OnlyRises NoSlowDrift ImprovementKept SavedByPassing
SYMMETRY Alike
