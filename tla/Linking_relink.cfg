\* One approval at a time; what is linked again was linked before.
SPECIFICATION Spec
CONSTANTS
  Machine = {A, B}
  NoInstall = NoInstall
  Code = {y1, y2, y3}
  Device = {d1, d2}
  NoDevice = NoDevice
  Approval = {x1}
  Limit = 1
INVARIANT RelinkIsFree
