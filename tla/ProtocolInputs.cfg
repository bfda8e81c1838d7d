\* Leaves: two tasks, up to four leaves, words of five bits: 8 * 3 bits fit a word, twice
\* as many do not.  Hashes: lists of up to four leaves or three digests.  Bundles: one
\* other epoch.  Operations: noise of rank two, one retry.
CONSTANTS
  Tasks = {t1, t2}
  Lengths = {1, 3}
  Opened = 0
  Closed = 1
  MaxTime = 1
  MaxLeaves = 4
  MaxWord = 31
  Overflow = Overflow
  Policies <- MCPolicies
  Draws <- MCDraws
  MaxHashed = 4
  MaxDigests = 3
  Limbs = {0, 1}
  Domains = {1, 2}
  AuditorKey = "auditor"
  GatewayKey = "gateway"
  Keys <- MCKeys
  Contracts <- MCContracts
  Elsewhere <- MCElsewhere
  Certificates <- MCCertificates
  Instants <- MCInstants
  Seeds = {1, 2}
  Second = 4
  Parts = 8
  MinSize = 2
  MaxSize = 4
  TileSize = 2
  MaxWide = 600
  MaxReport = 15
  Absent = Absent
  Modulus = 5
  Size = 3
  Tile = 1
  NoiseRank = 2
  MaxRetry = 1
  Operations <- MCOperations
  Factors <- MCFactors
SYMMETRY Interchangeable
SPECIFICATION InputsSpec
INVARIANTS OneStatementSet AcceptedIsBounded RateIsHonest RootsBind AcceptedIsOneStory
  SignedIsTaken SaturationIsHonest DrawIsJudged ExecutionIsExact
CHECK_DEADLOCK FALSE
