CONSTANTS
  Interfaces = {i1, i2}
  Closers = {c1, c2}
SPECIFICATION FairSpec
INVARIANTS
  TypeOK
  OneCloserProceeds
  NoSpuriousRunError
  StoppedMeansQuiet
  InterfaceCloseNeverReturns
  NoStandstill
PROPERTIES
  KeepsPromise
  UsesSsdpServersRightly
  ClosersResolve
  CloseEndsRun
\* Every goroutine may have stopped: the server was closed, or all block.
CHECK_DEADLOCK FALSE
