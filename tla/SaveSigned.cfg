CONSTANTS
  NumPaths = 2
  Reqs = {r1, r2}
  None = None
  Seed = Seed
  Torn = Torn
  Comments = {}
  Ops = {"put"}
  MaxFaults = 0
  MaxCrashes = 0
SPECIFICATION Spec
PROPERTY SavesAreSigned
