CONSTANTS
  Users = {u1}
  SessionIds = {n1, n2, n3}
  Calls = {q1, q2}
  NoToken = NoToken
  NoUser = NoUser
  NoCall = NoCall
  Expiry = FALSE
  DbErrors = TRUE
  t1 = t1
  t2 = t2
  b1 = b1
  b2 = b2
  Tabs = {t1, t2}
  Browsers = {b1, b2}
  BrowserOf <- OwnBrowser
SPECIFICATION BrowserSpec
CHECK_DEADLOCK FALSE
INVARIANTS
  NeverMistakenForReuse
  ExchangedCookieIsAwaited
  BrowserInv

  
