\* Two skbs, nodrop or droppable, a valid endpoint: a queued nodrop skb
\* is left on the queue for good once traffic stops.
CONSTANTS
  p1 = p1  p2 = p2  p3 = p3  d1 = d1
  NULL = NULL
  Pkts <- MC_Pkts2
  Dups <- MC_Dups
  NumCookies = 2
  MaxSendFail = 2
  Kinds = {"nodrop", "drop"}
  EidOks = {TRUE}
SPECIFICATION FairSpec
PROPERTY NoDropEventuallySent
CHECK_DEADLOCK FALSE
