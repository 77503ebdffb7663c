CONSTANTS
  None = None
  Gone = Gone
  Calls = {c1, c2}
  Requests = {r1, r2}
  MaxMade = 2
  Users <- MCUsers
  Pools <- MCPools
  Buckets <- MCBuckets
  NameOf <- MCNameOf
  Names <- MCNames
  BadNames <- MCBadNames
  Limits = {0, 1, 2}
  PoolKey = FALSE
  Keys <- MCKeys
  Actions <- MCActions
  Grants <- MCGrants
  Prefixes <- MCPrefixes
  Scopings <- MCScopings
  Expiries = {0, 1}
  Patches <- MCPatches
  MaxClock = 2
  Skew = 1
  MaxWindow = 1
  ReservedNames = {"api"}
  ConsoleFiles = {}
  Wires <- MCWires
  Databases <- MCDatabases
SPECIFICATION GatewaySpec
SYMMETRY MCSymmetry
INVARIANTS
  GatewayTypeOK
  ServedWithinPolicy
  CountersCovered
PROPERTIES
  LastAdminLostOnlyByRace
  RemovalTakesOnlyInFlight
  UnanchoredOnlyByRace
  LivesAsPromised
  HeirKeepsPolicy
  NeverUnconfined
  AuthenticatedAsSigned
CHECK_DEADLOCK FALSE
