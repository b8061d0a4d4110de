\* Liveness without symmetry: two websockets in one room.
SPECIFICATION FairSpec
CONSTANTS
  Conn = {c1, c2}
  Room = {r1}
  Cap = 1
  MaxSent = 1
PROPERTIES TornDown SenderServed PostDelivered
