CONSTANTS
  NumPaths = 2
  Reqs = {1, 2, 3}
  None = None
  Seed = Seed
  Torn = Torn
  Comments = {k1}
  Ops = {"put", "delete", "move", "copy", "comment"}
  MaxFaults = 1
  MaxCrashes = 1
SPECIFICATION MCSpec
INVARIANT AckedIsCommitted
INVARIANT IndexCoherent
INVARIANT CommentsOnDocs
INVARIANT VersionsAdvance
INVARIANT QuietPathIsClean
INVARIANT NoWaitCycle
PROPERTY AtomicCommits
PROPERTY EveryRequestAnswered
