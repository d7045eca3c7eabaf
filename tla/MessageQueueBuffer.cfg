CONSTANTS
  w1 = w1
  w2 = w2
  service = service
  Writers = {w1, w2}
  Reader = service
  Tasks = {w1, w2, service}
  Unset = Unset
  Kinds = {"BUFFER_BACKEND_FAILED", "BUFFER_RECORDS_LOST"}
  maxMessages = 1
  MaxFaults = 1
SPECIFICATION Spec
INVARIANTS EveryRunTold ReportsWhatWasRaised FullIsCurrent
SYMMETRY LoggingTasks
