SPECIFICATION Spec
CONSTANTS
  Employees = {e1}
  DocTypes <- mcDocTypes
  MaxFiles = 2
  MaxDocs = 2
  MaxRequests = 2
  Keys = {k}
  Phones = {"-", "p"}
  BankLists <- mcBanks
  MaxProfileRequests = 2
  MaxEdits = 2
  Codes <- mcCodes
  TaskDef <- mcTaskDef
  Sessions = {s1, s2}
SYMMETRY mcSymmetry
CONSTRAINT mcSmall
INVARIANTS OneOpenVerification TasksClaimNoMore ChangesMirrorRequests ProfileReplaysEffects
CHECK_DEADLOCK FALSE
