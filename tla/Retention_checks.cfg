SPECIFICATION FairSpec
CONSTANTS
  Events <- MCEvents
  Kind <- MCKinds
  Address <- MCAddresses
  Created <- MCCreateds
  Configs <- MCConfigs
  Malformed = Malformed
  Hour = 2
  QueryLimit = 2
  MaxTime = 3
  MaxStops = 1
INVARIANTS
  TypeOK
  StoredAsClassed
PROPERTIES
  KeptUntilAged
  RoundsReachExpired
  EventuallyAgedOut
