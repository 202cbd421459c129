CONSTANTS
  Texts <- AllTexts
  Bindings <- SomeBindings
  MaxLen = 6
  NanoDigits = 3
  MicroDigits = 2
  MilliDigits = 1
  MaxInt = 2047
  MaxDay = 31
  DayMillis = 48
  Chrono <- TheChrono
  FourDigits <- TheFourDigits
  NUMERIC_SCALE = 2
  MaxText = 6
  DecimalDigits <- TheDecimalDigits
SPECIFICATION MCSpec
INVARIANTS
  RunsLatestDestination
  RowsAppliedOnce
  WritesAsAllowed
  ScannerAgrees
  TextsEquivalent
  ValuesRoundTrip
CHECK_DEADLOCK FALSE
