SPECIFICATION CopySpec
CONSTANTS
  CollectedShows <- MCCollected
  MediaFiles <- MCFiles
  Sub <- MCSub
  FoldOf <- MCFold
  Folds = TRUE
INVARIANTS CollectIsSafe
CHECK_DEADLOCK FALSE
