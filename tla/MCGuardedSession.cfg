CONSTANTS
  Branches = {"main", "feature"}
  BuiltInProtected = {"main"}
  NoBranch = NoBranch
  Corrupt = Corrupt
  None = None
  Policies <- TwoPolicies
  SingleRequests <- Singles
  SequenceRequests <- Sequences
SPECIFICATION FairSpec
INVARIANTS
  EffectAuthorized
  ProtectionWasShown
  FreshPolicy
  AuditTrailTruthful
PROPERTIES
  RunEnds
  ConfigAdopted
