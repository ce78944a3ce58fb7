CONSTANTS
  Admins = {a1, a2}
  Keys = {encryption, password, url}
  EmailKeys = {encryption, password}
  SensitiveKeys = {password}
  TextKeys = {password, url}
  EnumKeys = {encryption}
  Values = {v1}
  Default = Default
  Null = Null
  Empty = Empty
  None = None
  Hidden = Hidden
  MaxEdits = 2
  MaxFaults = 0
  MaxCrashes = 0
SPECIFICATION Spec
INVARIANT MailerIsCurrent
