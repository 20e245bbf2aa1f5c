SPECIFICATION PaySpec
CONSTANTS
  Periods = {jan}
  Employees <- mcEmployees
  Users = {u1, u2}
  Sessions = {s1, s2}
  MaxRequests = 2
  MaxChanges = 3
  Compensations <- mcCompensations
  Lines <- mcLines
  Summaries <- mcSummaries
  PeriodStart = 4
  Currency = "AED"
  NullDate = 9
SYMMETRY mcSymmetry
INVARIANTS PaidAsSubmitted ApprovedByItsRequest PayslipsHaveFiles ItemsAddUp
CONSTRAINT mcSmall
CHECK_DEADLOCK FALSE
