\* Two websockets in up to two rooms, one slot per send channel: of the four
\* messages three are enough to evict a member whose pump is writing.
SPECIFICATION Spec
CONSTANTS
  Conn = {c1, c2}
  Room = {r1, r2}
  Cap = 1
  MaxSent = 2
SYMMETRY Symmetry
INVARIANTS HubNeverPanics RoomsExact ContiguousFeed PostedInOrder
PROPERTIES ImplementsFeed
