CONSTANTS
  NearbyRadius = 1
  FuzzyRadius = 2
  Pages = {p}
  Characters <- MCCharacters
  Documents <- FewDocuments
  Reqs = {r1, r2}
  None = None
  MaxSaves = 1
  MaxMoves = 0
  MaxFaults = 0
SPECIFICATION CommentSpec
PROPERTY ResolvedLeftAlone
