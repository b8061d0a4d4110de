\* A sender in a goroutine and one in a handler, one topic, two ends of the process and two rebalances.
SPECIFICATION FairSpec
CONSTANTS
  Sender = {s1, s2}
  Background = {s1}
  Topic = {t1}
  NoProducer = nil
  MaxCrashes = 2
  MaxRevokes = 2
CHECK_DEADLOCK FALSE
INVARIANTS TypeOK LostOnlyInHand HandledOnce WaitersCanGoOn
PROPERTIES SendersReturn StoredIsHandled ImplementsBus
