SPECIFICATION ExpirySpec
CONSTANTS
  Rows <- mcRows
  Workers = {w1, w2}
  Limit = 2
  MaxAttempts = 2
  Unadaptable = {2}
  Papers = {"visa", "permit"}
  PaperType <- mcPaperType
  Expires <- mcExpires
  Owner <- mcOwner
  Offsets = {0, 1}
  Users = {u1}
  Lookahead = 1
  MaxDay = 3
INVARIANTS SettledRowsBalance RemindersAsOwed
PROPERTIES EveryRowSettles
CHECK_DEADLOCK FALSE
