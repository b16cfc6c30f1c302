SPECIFICATION Spec
CONSTANTS
  Streams = {t1, t2, t3}
  Ssrcs = {x1}
  MaxReaders = 6
  Opens = 2
CHECK_DEADLOCK FALSE
INVARIANT StaleEntryPendingDelete
PROPERTY ClosedReaderUnregistered
PROPERTY ImplementsReaderMap
