SPECIFICATION Spec
CONSTANTS
  Tx = {t1, t2}
  Requests = {"r3", "r5"}
  NoRequest = "-"
  a1 = a1
  a2 = a2
  e1 = e1
  e2 = e2
  k1 = k1
  NoKey = NoKey
  Accounts = {a1}
  Days <- mcDays
  AcctOf <- mcAcct
  EmpOf <- mcEmp
  DaysOf <- mcDaysOf
  KeyOf <- mcKey
  OffDays <- mcOff
  HalfDay = {"r3"}
  AllowNegative = {}
  Allocations = {4}
  MaxAllocations = 1
  NSteps = 2
INVARIANT NoOverlappingLeave
