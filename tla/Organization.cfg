SPECIFICATION OrgSpec
CONSTANTS
  ann = ann
  bob = bob
  mia = mia
  HR = HR
  k1 = k1
  std = std
  pay = pay
  Users = {ann, bob, mia}
  NoUser = NoUser
  Admins = {mia}
  Requesters = {ann, bob}
  Managers <- mcManagers
  Memberships <- mcMemberships
  Roles = {HR}
  NoRole = NoRole
  Keys = {k1}
  NoKey = NoKey
  Bodies = {b1}
  SubjectOf <- mcSubject
  Definitions = {std, pay}
  ScopeOf <- mcScope
  StepLists <- mcLists
  Sessions = {s1}
  NoCreate = NoCreate
  MaxRequests = 1
  MaxRemarks = 1
  Employees <- mcEmployees
  NoEmployee = 0
  HrSessions = {h1, h2}
  Dates <- mcDates
  MaxDepth = 2
  MaxEmployments = 5
INVARIANTS ChainOfCommand RightPeopleTold  TeamIsWhoYouMaySee
CONSTRAINT mcSmall
