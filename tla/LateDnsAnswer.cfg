SPECIFICATION Spec
CONSTANTS
  Platforms = {"LwipRawDns"}
  TlsOver = {"Posix", "Winsock", "LwipSocket", "VxWorks64", "PlusTcp", "LwipRaw"}
  RxQueueSize = 1
  Overhead = 1
  UnknownPath = 2
  OffSubnet <- MCOffSubnet
  NoDestination = 99
  MaxVersion = 1
  Records <- MCRecords
  Paths <- MCPaths
INVARIANT ResolvesTheHostAsked
CHECK_DEADLOCK FALSE
