SPECIFICATION FairSpec
CONSTANTS
  Proc = {p1, p2, p3}
  None = None
  NUM = 7
  UINT16 = 14
PROPERTIES
  ImplementsRequests
  
