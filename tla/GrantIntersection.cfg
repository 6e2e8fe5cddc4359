SPECIFICATION GrantSpec
CONSTANTS
  b1 = b1
  b2 = b2
  x = x
  xy = xy
  r1 = r1
  r2 = r2
  Parts = {x, xy}
  Longer <- MCLonger
  Buckets = {b1, b2}
  Paths <- MCPaths
  Roots = {r1, r2}
  None = None
  Times = {0, 1, 2}
  Owners <- MCOwners
  Texts <- MCTexts
  Permissions <- MCPermissions
  Shares <- MCShares
  MaxGrants = 3
  MaxRevoked = 1
INVARIANT
  IntersectionKept
CHECK_DEADLOCK FALSE
