CONSTANTS
  Files <- FilesMC
  Logical = {0, 4}
  Models <- ModelsMC
  MaxLines = 3
SPECIFICATION Spec
\* The program ends.
CHECK_DEADLOCK FALSE
INVARIANTS LastAssignmentWins RunsOnlyIfEverythingFits AllReleased
PROPERTIES NoDangling
