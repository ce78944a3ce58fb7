CONSTANTS
  DocPaths = {readme, page}
  Home = readme
  Refs = {rev}
  Nil = Nil
  MaxActs = 2
  MaxKeys = 1
  MaxFailures = 0
SPECIFICATION TabSpec
INVARIANT RevisionsReadOnly
