SPECIFICATION FairSpec
CONSTANTS
  p1 = p1
  p2 = p2
  stranger = stranger
  d1 = d1
  d2 = d2
  Type = "round1"
  Nil = Nil
  Malformed = Malformed
  NoThread = NoThread
  NoMessage = NoMessage
  From <- MCFrom
  Message <- MCMessage
  Thread = {t1, t2}
INVARIANTS TypeOK CallbackSeesEveryPacket MissingCountsEmptySlots
PROPERTIES FirstPacketWins CallbackEventually ImplementsCollector
CHECK_DEADLOCK FALSE
