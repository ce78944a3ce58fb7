CONSTANTS
  NearbyRadius = 1
  FuzzyRadius = 2
  Pages = {p, q}
  Characters <- MCCharacters
  Documents <- MCDocuments
  Reqs = {r1, r2, r3}
  None = None
  MaxSaves = 1
  MaxMoves = 2
  MaxFaults = 1
SPECIFICATION CommentSpec
SYMMETRY Symmetry
INVARIANT FlatThreads
INVARIANT ThreadsTogether
INVARIANT PlansFollowLadder
