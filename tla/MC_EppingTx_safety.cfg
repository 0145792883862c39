\* Three skbs of every kind, one echo copy, two cookies and two HTC
\* refusals, with the endpoint valid or not.  Traffic ends, so deadlock is
\* not checked.
CONSTANTS
  p1 = p1  p2 = p2  p3 = p3  d1 = d1
  NULL = NULL
  Pkts <- MC_Pkts
  Dups <- MC_Dups
  NumCookies = 2
  MaxSendFail = 2
  Kinds = {"nodrop", "drop", "non_epping", "bad_ac"}
  EidOks = {FALSE, TRUE}
SPECIFICATION Spec
SYMMETRY Symmetry
INVARIANTS TypeOK CookiesConserved
CHECK_DEADLOCK FALSE
