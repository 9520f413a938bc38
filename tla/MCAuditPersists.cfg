CONSTANTS
  a = a
  b = b
  c = c
  Repos = {a, b, c}
  NoRepo = NoRepo
  RecentCap = 2
  MaxLines = 3
  Broken = Broken
  Unreadable = Unreadable
  MaxEntries = 6
  Corrupt = Corrupt
  Partial = Partial
  Sessions = {s, t, u}
  Inodes = {i, j, k, l, m}
  NoFile = NoFile
  Meddled = {"guard", "lock"}
  GitOutlives = TRUE
  MaxOrphans = 1
SPECIFICATION MCSpec
CHECK_DEADLOCK FALSE
INVARIANT AuditEntriesPersist
