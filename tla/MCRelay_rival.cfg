\* A repeated ready outlives its connection and evicts its successor.
SPECIFICATION Spec
CONSTANTS
  c1 = c1
  c2 = c2
  t1 = t1
  u1 = u1
  u2 = u2
  NoTab = NoTab
  NoUplink = NoUplink
  Client = {c1, c2}
  Tab = {t1}
  Uplink = {u1}
  TabOf <- MCTabOf
  MaxFrames <- MCOneTalker
  MaxPending = 3
  Vanishing = {}
INVARIANT NoRivalArrival
CHECK_DEADLOCK FALSE
