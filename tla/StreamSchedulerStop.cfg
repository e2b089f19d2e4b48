\* A DTMF sender alone.
SPECIFICATION FairSpec
CONSTANTS
  Slots = 2
  Nodes = {dtmf}
  SourceNodes = {}
  RunTimeNodes = {}
  AsyncNodes = {}
  Producers = {}
  MaxData = 1
  MaxStarts = 1
  MaxSpurious = 0
PROPERTY
  StopReturns
\* a Stop() that is never woken stops the system
CHECK_DEADLOCK FALSE
