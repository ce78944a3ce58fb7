CONSTANTS
  Documents = {p, q}
  Savers = {w1, w2}
  Admins = {a1}
  Devs = {d1}
  None = None
  MaxFaults = 1
  Tools = {"abort", "shell"}
  Paths = {readme, hidden}
  Walked = {readme}
  Keys = {"created", "version", "title"}
  Bodies <- MCBodies
  Files <- MCFiles
  MaxInt = 4
  MaxClock = 3
  DocPaths = {readme, page}
  Home = readme
  Refs = {rev}
  Nil = Nil
  MaxActs = 3
  MaxKeys = 1
  MaxFailures = 1
SPECIFICATION MCSpec
INVARIANT AckedIsInHistory
INVARIANT ConflictReported
INVARIANT QuietIsPushed
PROPERTY BranchKeepsSaves
INVARIANT SavedIsShown
INVARIANT IndexIsText
PROPERTY DetailsSurvive
INVARIANT PagesKeepTheirText
INVARIANT AddressShown
INVARIANT ShownIsStored
INVARIANT CommentsOfDoc
