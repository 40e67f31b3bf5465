\* Jobs of two uses of generate-coverage.
SPECIFICATION Spec
CONSTANTS
  Projects <- MCProjects
  Inputs <- MCInputs
  Lines = {1, 2}
  Hits <- MCHits
  Slug <- MCSlug
  MaxUses = 2
INVARIANTS GreenIsWhole PercentIsSound ArtefactIsOwn RedForCause ReportsStand
CHECK_DEADLOCK FALSE
