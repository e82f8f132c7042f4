\* An uplink verified before a removal attaches after it.
SPECIFICATION Spec
CONSTANTS
  c1 = c1
  c2 = c2
  t1 = t1
  u1 = u1
  u2 = u2
  NoTab = NoTab
  NoUplink = NoUplink
  Client = {c1}
  Tab = {t1}
  Uplink = {u1, u2}
  TabOf <- MCTabOf
  MaxFrames <- MCOneFrame
  MaxPending = 1
  Vanishing = {}
INVARIANT RevokedIsDisconnected
CHECK_DEADLOCK FALSE
