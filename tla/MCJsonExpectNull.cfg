SPECIFICATION Spec
CONSTANTS
  p1 = p1
  p2 = p2
  stranger = stranger
  d1 = d1
  d2 = d2
  Type = "round1"
  Nil = Nil
  Malformed = Malformed
  NoThread = NoThread
  NoMessage = NoMessage
  From <- MCFrom
  Message <- MCNullMessage
  Thread = {t1, t2}
INVARIANT CallbackSeesEveryPacket
CHECK_DEADLOCK FALSE
