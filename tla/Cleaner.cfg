\* Links may be in the cleaned directory, or beside it.  The clean may stop:
\* cleanFiles() returns.
CONSTANTS
  Nodes = {1, 2, 3, 4, 5}
  Parent <- MCParent
  Dirs = {1, 2}
  Files = {3, 4, 5}
  Linkable = {4, 5}
  RootOwned = {5}
  Givens <- MCGivens
  MaxOthers = 2
SPECIFICATION Spec
INVARIANT LeftHasReason
PROPERTIES ExcludedSurvive RecentSurvive OnlyGivenIsRemoved
CHECK_DEADLOCK FALSE
