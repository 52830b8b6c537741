CONSTANTS
  Deployments <- MCDeployments
  Labels <- MCLabels
  PlatformLabels <- MCPlatform
  Slugs = {"blog", "_acme-challenge"}
  Identifiers = {"u0", "u1", "a.b"}
  Tokens = {"t1", "t2"}
  HostedZones <- MCHostedZones
  Challenges <- MCChallenges
  Proofs <- MCProofs
  MaxRelayed = 64
  MaxRecords = 128
  MaxChanges = 2
SPECIFICATION FairSpec
INVARIANTS
  TypeOK
  OnlyAsDisclosed
  PlatformKeptOut
  ProxiedAtHome
PROPERTIES
  PointerFollowsZone
  RoutedAtLast
  OwedArrives
CHECK_DEADLOCK FALSE
