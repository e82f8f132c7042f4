\* Two connections of one tab, two uplinks, and what the host makes of them.
SPECIFICATION Spec
CONSTANTS
  c1 = c1
  c2 = c2
  t1 = t1
  u1 = u1
  u2 = u2
  NoTab = NoTab
  NoUplink = NoUplink
  Client = {c1, c2}
  Tab = {t1}
  Uplink = {u1, u2}
  TabOf <- MCTabOf
  MaxFrames <- MCTwoFrames
  MaxPending = 1
  Vanishing = {u1, u2}
SYMMETRY MCSymmetry
INVARIANT TypeOK
INVARIANT OneHolderPerTab
INVARIANT HostKnowsTabs
INVARIANT CountIsCurrent
INVARIANT NothingStranded
INVARIANT NoDeafSocket
PROPERTY ImplementsRoster
CHECK_DEADLOCK FALSE
