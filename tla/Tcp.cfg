SPECIFICATION FairSpec
CONSTANTS
  a = a
  h = h
  m1 = m1
  m2 = m2
  t1 = t1
  t2 = t2
  Nodes = {a, h}
  Conns = {1, 2}
  Callers = {t1, t2}
  Frames <- MCFrames
  From <- MCFrom
  To <- MCTo
  By <- MCBy
  Hello = Hello
  None = None
  Listeners = {h}
  Known <- MCKnown
  Gated = {h}
  MaxFaults = 1
CHECK_DEADLOCK FALSE
INVARIANTS StreamsStayAligned 
PROPERTIES EntryLeavesWithItsConnection AcceptedArrives 
