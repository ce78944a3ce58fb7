CONSTANTS
  u1 = u1
  u2 = u2
  g = g
  d1 = d1
  d2 = d2
  Accounts = {u1, u2}
  Groups = {g}
  Docs = {d1, d2}
  Tokens = {t1, t2}
  Clients = {c1}
  Absent = Absent
  Rules <- MCRules
  Scopes <- MCScopes
  Needs <- MCNeeds
  FileAnonymousRead = FALSE
  Bootstrap = u2
  MaxRequests = 3
SPECIFICATION AccessSpec
INVARIANT ListsMirror
