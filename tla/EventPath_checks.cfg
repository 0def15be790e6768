SPECIFICATION Spec
CONSTANTS
  Strings <- MCStrings
  Blank <- MCBlank
  Hex64 <- MCHex64
  PositiveNumbers <- MCPositiveNumbers
  Missing = Missing
  Null = Null
  Negative = Negative
  Zero = Zero
  Positive = Positive
  True = True
  False = False
  Names = Names
  Other = Other
  NoItem = NoItem
  Inputs <- MCInputs
CHECK_DEADLOCK FALSE
INVARIANTS
  TypeOK
  
  ItemSeverityKnown
  CodeNamesDefect
