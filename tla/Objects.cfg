CONSTANTS
  t1 = t1
  t2 = t2
  nobody = nobody
  Tasks = {t1, t2}
  Callers = {t1, t2}
  Count = 2
  SEQUENCE_ID_MAX = 3
  Classes <- AllClasses
  Contents = {1, 2}
  Keys = {1, 2}
  Messages <- SomeMessages
  Calls <- AuthorsCalls
  Fixed <- FixedStrings
  Texts <- SomeTexts
  MAX_VALUE = 3
  MAX_FIELD = 2
  MAX_MESSAGE_SIZE = 5
  UpTimeCallers = {t1, t2}
  NoCaller = nobody
  TICK_WRAP = 4
  UINT32_WRAP = 256
  TickRate = 3
  MaxTicks = 13
  Loggers = {t1, t2}
  NoLogger = nobody
  MaxLogged = 3
  Configurations <- MCConfigurations
SYMMETRY TaskSymmetry
SPECIFICATION Spec
INVARIANTS SlotsAccountedFor MetaRight VerdictsRight MessageReadsBack LossesTold
