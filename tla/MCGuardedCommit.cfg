CONSTANTS
  Branches = {"main", "topic"}
  c1 = c1
  c2 = c2
  c3 = c3
  t0 = t0
  t1 = t1
  t2 = t2
  Commits = {c1, c2, c3}
  Ancestry <- Line
  Nil = Nil
  Trees = {t0, t1, t2}
  EmptyTree = t0
  TreeOf <- Content
  ParentOf <- Parent
  Paths = {"file"}
  Changes <- Listed
SPECIFICATION Spec
INVARIANTS
  CommitsAsPreviewed
  CommitsConfirmedState
