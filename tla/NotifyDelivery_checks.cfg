SPECIFICATION FairSpec
CONSTANTS
  e1 = e1
  e2 = e2
  e3 = e3
  e4 = e4
  a = a
  b = b
  Unset = Unset
  NoEvent = NoEvent
  Events = {e1, e2, e3, e4}
  Recipients = {a, b}
  ClassNames <- MCClassNames
  SeverityNames <- MCSeverityNames
  Content <- MCContent
  Policies <- MCPolicies
CHECK_DEADLOCK FALSE
INVARIANTS
  TypeOK
  ExternalOnlyByRule
  NoOverMatch
PROPERTIES
  ImplementsPromise
  DigestOrdered
  EveryMatchAttempted
