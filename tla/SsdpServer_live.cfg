CONSTANTS
  root = root
  service = service
  global = global
  local = local
  Types <- MCTypes
  Addrs <- MCAddrs
  LinkLocal <- MCLinkLocal
  Second <- MCSecond
  Half <- MCHalf
  Requests <- Mixed
  MaxRounds = 0
SPECIFICATION FairSpec
INVARIANT CrashExplained
PROPERTIES
  SearchAnswered
  ReaderEnds
\* The server may be closed and every goroutine but the announcer over.
CHECK_DEADLOCK FALSE
