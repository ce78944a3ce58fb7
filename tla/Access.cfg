CONSTANTS
  Ids = {i1, i2}
  Emails = {e1, e2}
  Passwords = {p1, p2}
  Subjects = {s1}
  Secrets = {k1}
  MailTokens = {m1}
  Browsers = {b1, b2}
  None = None
  MaxArrivals = 4
  u1 = u1
  u2 = u2
  g = g
  d1 = d1
  d2 = d2
  Accounts = {u1, u2}
  Groups = {g}
  Docs = {d1, d2}
  Tokens = {t1}
  Clients = {c1, c2}
  Absent = Absent
  Rules <- MCRules
  Scopes <- MCScopes
  Needs <- MCNeeds
  FileAnonymousRead = FALSE
  Bootstrap = u2
  MaxRequests = 2
SPECIFICATION MCSpec
PROPERTY PasswordNeedsToken
PROPERTY SecondFactor
INVARIANT DecisionIsCurrent
PROPERTY EditsByAdmins
