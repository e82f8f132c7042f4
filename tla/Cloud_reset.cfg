\* An environment that is opened, and reset twice at once.
SPECIFICATION Spec
CONSTANTS
  Pooled = {p1}
  Own = Own
  Device = {d1, d2}
  Nobody = Nobody
  Open = {x1}
  Reset = {y1, y2}
INVARIANT ResetHitsItsOwn
