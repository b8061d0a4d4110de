\* Two connections, two signals, a grace period of three units of time.
SPECIFICATION FairSpec
CONSTANTS
  c1 = c1
  c2 = c2
  health = health
  resource = resource
  item = item
  odd = odd
  id = id
  text = text
  Conn <- MCConn
  Route <- MCRoute
  Value <- MCValue
  Schema <- MCSchema
  WithParams <- MCWithParams
  Code <- MCCode
  Thrower <- MCThrower
  Exponent <- MCExponent
  Tens <- MCTens
  Wrap <- MCWrap
  Grace = 3
  MaxSignals = 2
INVARIANTS StatusSendable AnswersChecked
PROPERTIES ShutdownEnds ImplementsStop
