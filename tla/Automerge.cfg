\* One run, every merge state, every way a request can fail and, with fairness,
\* the end of every run and what MergeGate promises.
SPECIFICATION FairSpec
CONSTANTS
  Runs = {r1}
  MaxRetries = 1
  MaxRefreshes = 2
  Facts <- EveryFact
  Inputs <- AnyInput
  Faults <- EveryFault
INVARIANTS ReportsAreTrue EffectsAreVouched SkipsForCause
PROPERTIES RunsEnd GateSpec
