CONSTANTS
  Nil = Nil
  v = v
  w = w
  PathOrder <- Order
  Blobs = {v, w}
  Bare <- BareNames
  Trees <- Left
  Areas <- UsualSize
  Columns <- ShortNames
  BranchLine = 38
  Configs <- Settings
  Invalid = Invalid
  MaxChanges = 2
  None = None
  Tokens <- Alphabet
  Lower <- InLowerCase
  Requests <- InMind
  MaxPrompt = 20
  Typed <- TypedTokens
  MaxTyped = 4
  Branches = {"main", "feature"}
  BuiltInProtected = {"main"}
  NoBranch = NoBranch
  NoPlan = NoPlan
  Rules <- Guards
  PromptSequences <- InSequence
SPECIFICATION MCSpec
INVARIANTS
  SelectionIsOnScreen
