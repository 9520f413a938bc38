CONSTANTS
  Files = {"index", "MERGE_HEAD"}
  Index = "index"
  Probes = {"diff"}
  v = v
  w = w
  absent = absent
  Absent = absent
  Values = {v, w, absent}
  Nil = Nil
SYMMETRY Symmetry
SPECIFICATION Spec
INVARIANTS
  PreviewIsSnapshot
  RecoversConfirmedState
  RefusalChangesNothing
