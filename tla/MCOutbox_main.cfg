\* One prompt over a connection that is lost, a host that goes and comes back, and one
\* thing a person does meanwhile; one browser connection and two uplinks that may vanish.
SPECIFICATION Both
CONSTANTS
  Prompt = {q1}
  MaxDials = 2
  MaxFlaps = 1
  MaxMoves = 1
  Connection = {c1}
  Token = {t1}
  NoToken = NoToken
  Wire = {u1, u2}
  NoWire = NoWire
  Fickle = {u1}
INVARIANTS
  RunsOnce
  Accounted
  HeldRunsWhereMeant
PROPERTIES
  RestoresEnd
  FramesInOrder
  EventuallySynced
