SPECIFICATION CrossSpec
CONSTANTS
  c1 = c1
  c2 = c2
  p1 = p1
  p2 = p2
  f1 = f1
  f2 = f2
  Clients = {c1, c2}
  Processes = {p1}
  Files = {f1, f2}
  None = None
  Refs = {"char#v1", "char#v2"}
  AssetOf <- MCAssetOf
  Within <- MCWithin
  Prefixed <- MCPrefixed
  Order <- MCOrder
  Used <- MCVersions
  MaxChanges = 1
  MaxFaults = 0
PROPERTIES
  PinnedCopiesAreKept
SYMMETRY MCSymmetry
CHECK_DEADLOCK FALSE
