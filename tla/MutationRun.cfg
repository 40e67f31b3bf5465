\* Full runs on two shards and scoped ones; one leg may go wrong.
SPECIFICATION Spec
CONSTANTS
  lib = lib
  main = main
  nested = nested
  flat = flat
  Files <- MCFiles
  Dirs <- MCDirs
  Home <- MCHome
  Under <- MCUnder
  RootFiles <- MCRootFiles
  Index <- MCIndex
  SlugOf <- MCSlugOf
  Configs <- MCConfigs
  Trees <- MCTrees
  ShardCount = 2
  MaxFaults = 1
INVARIANTS GreenIsExact SurvivorKept CountedOnce
PROPERTY RunEnds
CHECK_DEADLOCK FALSE
