SPECIFICATION LiveSpec
CONSTANTS
  Employees = {ann}
  Tx = {t1, t2}
  Closers = {w1}
  Keys = {k1}
  NoKey = NoKey
  DayLength = 2
  SettingsOf <- mcBoth
  OnLeave <- mcOnLeave
  MaxTime = 3
  MaxSessions = 2
INVARIANTS PunchesCountOnce  SessionsWithinTheirDay
PROPERTIES ClosedForGood 
