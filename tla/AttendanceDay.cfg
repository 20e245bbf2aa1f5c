SPECIFICATION PayablesSpec
CONSTANTS
  c1 = c1
  c2 = c2
  c3 = c3
  key = key
  Corrections = {c1, c2, c3}
  None = None
  NoKey = NoKey
  OverrideOf <- mcOverrideOf
  KeyOf <- mcKeyOf
  Leaves = {l1}
  Minutes = {8}
  Tx = {t1, t2}
  s1 = s1
  s2 = s2
  b1 = b1
  b2 = b2
  Shifts = {s1, s2}
  Branches = {b1, b2}
  BranchOf <- mcBranchOf
  Templates <- mcTemplates
  Usual <- mcUsual
  DayLength = 24
  Ranges <- mcRanges
  Forever <- mcForever
  TheDay = 1
  Admins = {a1, a2}
  MaxEdits = 2
  Runs = {x1, x2}
SYMMETRY mcSymmetry
INVARIANTS StatusMirrors SummaryIsOwed ShiftsStayComputable
 
CONSTRAINT mcSmall
CHECK_DEADLOCK FALSE
