SPECIFICATION Spec
CONSTANTS
  name = name
  a = a
  b = b
  EmptyText = EmptyText
  Missing = Missing
  Fields = {name}
  Texts = {a, b}
  Requests = {1, 2, 3}
  Configured <- MCConfigured
  MaxStops = 2
INVARIANTS
  TypeOK
  AcknowledgedShows
