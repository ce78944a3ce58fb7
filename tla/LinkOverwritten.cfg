CONSTANTS
  Ids = {u1}
  Emails = {e1}
  Passwords = {p1}
  Subjects = {s1, s2}
  Secrets = {k1}
  MailTokens = {}
  Browsers = {c1, c2}
  None = None
  MaxArrivals = 2
SPECIFICATION Spec
PROPERTY LinkIsKept
