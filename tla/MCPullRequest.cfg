CONSTANTS
  Branches = {"main", "topic"}
  c1 = c1
  c2 = c2
  Commits = {c1, c2}
  Ancestry <- History
  Nil = Nil
  Remotes = {"origin", "upstream"}
  Urls = {"u1", "u2"}
  Configs <- Redirections
  Names = {"app", "fork"}
  RepositoryOf <- Hosted
  DefaultBranch = "main"
  Prompts <- Asked
  Others <- Duplicates
  MaxChanges = 2
SPECIFICATION MCSpec
INVARIANTS
  TypeOK
  CreatesWhatWasChecked
  LandsWherePreviewed
  StepsServeThePreviewedTarget
  ReportsOpenPullRequests
