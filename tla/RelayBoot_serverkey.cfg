SPECIFICATION Spec
CONSTANTS
  o = o
  s = s
  a = a
  r1 = r1
  Pubkeys = {o, s, a}
  Reasons <- MCReasons
  NoReason = NoReason
  NoKey = NoKey
  Configs <- MCConfigs
  Requests = {r1}
  CallerReasons = {"operator"}
  MaxStops = 1
INVARIANT
  ServerIsAllowlistedWriter
