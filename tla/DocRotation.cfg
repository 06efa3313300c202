CONSTANTS
  Users = {u1, u2}
  SessionIds = {n1, n2, n3}
  Calls = {q1, q2}
  NoToken = NoToken
  NoUser = NoUser
  Expiry = FALSE
  DbErrors = FALSE
SPECIFICATION SessionsSpec
CHECK_DEADLOCK FALSE
SYMMETRY SessionsSymmetry
INVARIANT
  ExchangedOnce
