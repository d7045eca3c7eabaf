CONSTANTS
  MaxLogged = 2
  BufferCapacity = 1
  StoreCapacity = 2
  Policies = {"OLDEST", "NEWEST", "HALT"}
SPECIFICATION FairSpec
INVARIANTS EveryRecordAccountedFor NothingOvertaken EventsKept
PROPERTIES RecordsSettle EventsReported
CHECK_DEADLOCK FALSE
