SPECIFICATION Spec
CONSTANTS
  Runs = {r1, r2}
  MaxRetries = 1
  MaxRefreshes = 1
  Facts <- RaceFacts
  Inputs <- LiveInput
  Faults <- LostReplies
SYMMETRY RunSymmetry
INVARIANTS OneMerger ErrorsAreHonest OnlyRacesFail
