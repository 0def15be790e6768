SPECIFICATION Spec
CONSTANTS
  Events <- DelegationOnly
  Kind <- DelegationKinds
  Address <- DelegationAddresses
  Created <- DelegationCreateds
  Configs <- MCConfigs
  Malformed = Malformed
  Hour = 2
  QueryLimit = 1
  MaxTime = 3
  MaxStops = 1
INVARIANT
  RetainedByClass
