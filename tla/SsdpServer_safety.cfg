CONSTANTS
  root = root
  service = service
  global = global
  local = local
  Types <- MCTypes
  Addrs <- MCAddrs
  LinkLocal <- MCLinkLocal
  Second <- MCSecond
  Half <- MCHalf
  Requests <- Heard
  MaxRounds = 1
SPECIFICATION Spec
INVARIANTS
  TypeOK
  EveryTypeSaysGoodbye
  ReaderStopsCleanly
  AnswersMatchSearches
PROPERTIES
  CloseIsQuiet
  KeepsPromise
\* The server may be closed and every goroutine but the announcer over.
CHECK_DEADLOCK FALSE
