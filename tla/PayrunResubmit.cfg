SPECIFICATION Spec
CONSTANTS
  Periods = {jan}
  Employees = {e1}
  Users = {u1, u2}
  Sessions = {s1}
  MaxRequests = 2
  MaxChanges = 1
PROPERTY SubmissionCanBeDecided
CHECK_DEADLOCK FALSE
