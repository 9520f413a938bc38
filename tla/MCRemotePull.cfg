CONSTANTS
  Branches = {"main"}
  c1 = c1
  c2 = c2
  d = d
  Commits = {c1, c2, d}
  Ancestry <- Fork
  Nil = Nil
  Upstreams = {"origin/main"}
SPECIFICATION Spec
INVARIANTS
  PullsAsPreviewed
  IntegratesConfirmedState
