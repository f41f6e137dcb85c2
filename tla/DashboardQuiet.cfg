SPECIFICATION DashboardSpec
CONSTANTS
  Address <- MCAddress
  Loopback <- MCLoopback
  LocalHost = "127.0.0.1"
  Token <- MCToken
  NoToken = ""
  URL <- MCURL
  Origin <- MCOrigin
  Default <- MCDefault
  Null = Null
  Cap = 2
  Settings <- QuietSettings
  Random <- MCRandom
  MaskCounts <- MCMaskCounts
  Visitors <- MCVisitors
  NoCookie = "no cookie"
  Cleared = Cleared
  MaxFlight = 2
INVARIANT
  GeneratedIsAnnounced
CHECK_DEADLOCK FALSE
