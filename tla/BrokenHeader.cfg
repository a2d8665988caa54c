CONSTANTS
  Files <- FilesMC
  Logical = {4}
  Models <- ModelsMC
  MaxLines = 2
SPECIFICATION Spec
\* The program ends.
CHECK_DEADLOCK FALSE
INVARIANTS InvalidLineIsSkipped
