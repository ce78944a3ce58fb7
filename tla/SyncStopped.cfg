CONSTANTS
  Documents = {p, q}
  Savers = {w1, w2}
  Admins = {}
  Devs = {d1}
  None = None
  MaxFaults = 0
  Tools = {}
SPECIFICATION SyncSpec
INVARIANT PulledIsTrue
