SPECIFICATION Spec
CONSTANTS
  Runs = {r1}
  MaxRetries = 0
  MaxRefreshes = 1
  Facts <- LabelFacts
  Inputs <- LiveInput
  Faults <- NoFaults
INVARIANT ActsOnEligibleSnapshot
