CONSTANTS
  Branches = {"main", "topic", "origin/topic"}
  c1 = c1
  c2 = c2
  c3 = c3
  Commits = {c1, c2, c3}
  Ancestry <- History
  Nil = Nil
  RemoteNames = {"origin/topic"}
  LocalName <- Tracks
  Asked <- Wanted
  MaxChanges = 2
SPECIFICATION MCSpec
INVARIANTS
  ActsOnConfirmedState
  EndsAtPreviewedCommit
PROPERTY
  LeavesOtherBranchesAlone
