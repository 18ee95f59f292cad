\* Every bus of SomeBuses; two reports in the channel, and a reader holds a third.
SPECIFICATION FairSpec
CONSTANTS
  Buses <- SomeBuses
  KnownProducts = {"bolt"}
  ReadsCap = 2
  SentBound = 3
INVARIANTS TypeOK OpensOneWholeReceiver WritesOnShort ReportsInOrder QuietAfterClose
PROPERTIES ReportsAreHeard CloseReturns
