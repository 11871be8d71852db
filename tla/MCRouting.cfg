SPECIFICATION Spec
CONSTANTS
  Requests = {r1, r2}
  r1 = r1
  r2 = r2
  Sessions = {s1}
  s1 = s1
  Aliases = {"big", "small", "eyes", "ghost"}
  Names <- MCNames
  Stripped <- Version
  PrefixesOf <- StartsWith
  Files <- MCFiles
  Bundled <- Package
  Offered <- Bodies
  MaxReloads = 1
  None = None
SYMMETRY Interchangeable
INVARIANT WalkFollowsChain ExitToolStaysInside
