SPECIFICATION FairSpec
CONSTANTS
  Traces <- AllTraces
  MaxInflight = 2
  DropFirst = 1
  MaxTime = 2
INVARIANTS SentInOrder SlotsExact ReportIsWhole
PROPERTY Ends
CHECK_DEADLOCK FALSE
