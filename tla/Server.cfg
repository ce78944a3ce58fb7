CONSTANTS
  Servers = {s1, s2}
  NumFiles = 4
  Repeatable = {1, 2}
  Rebuild = 3
  Ids = {u1, u2, u3}
  Emails = {e1, e2}
  Bootstrap = e1
  Nil = Nil
  MaxErrors = 1
  MaxKills = 1
  Admins = {a1, a2}
  Keys = {password, url}
  EmailKeys = {password}
  SensitiveKeys = {password}
  TextKeys = {password, url}
  EnumKeys = {}
  Values = {v1}
  Default = Default
  Null = Null
  Empty = Empty
  None = None
  Hidden = Hidden
  MaxEdits = 3
  MaxFaults = 1
  MaxCrashes = 1
SPECIFICATION ServerSpec
INVARIANT SchemaIsRecorded
INVARIANT ServingIsMigrated
INVARIANT AdminAfterStart
PROPERTY AccountsSurvive
PROPERTY NoSecondAdmin
PROPERTY ServersServe
INVARIANT MemoryIsRows
INVARIANT AuditIsHistory
PROPERTY AtomicEdits
PROPERTY EveryEditAnswered
INVARIANT MailerFollows
