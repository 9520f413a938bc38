CONSTANTS
  Branches = {"main"}
  c1 = c1
  c2 = c2
  Commits = {c1, c2}
  Ancestry <- History
  Nil = Nil
  Remotes = {"origin", "fork"}
  Urls = {"u1", "u2"}
  Configs <- Redirections
SPECIFICATION Spec
INVARIANTS
  PushesAsPreviewed
  PushesConfirmedState
