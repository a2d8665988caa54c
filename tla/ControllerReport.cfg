CONSTANT MaxTime = 4
SPECIFICATION Spec
INVARIANTS ReportCoversAllSessions
