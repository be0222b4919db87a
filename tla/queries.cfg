\* SELECT and grammar, side by side.
SPECIFICATION Spec
CONSTANTS
  Parts = {"sql", "grammar"}
  Parsed <- OfNumbers
INVARIANTS
  
  RoundTrips
CHECK_DEADLOCK FALSE
