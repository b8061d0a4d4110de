\* A health check whose message the brokers do not take.
SPECIFICATION Spec
CONSTANTS
  Sender = {s1, s2}
  Background = {s1}
  Topic = {t1, t2}
  NoProducer = nil
  MaxCrashes = 1
  MaxRevokes = 1
CHECK_DEADLOCK FALSE
INVARIANT ReturnedIsStored
