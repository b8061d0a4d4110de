\* Two requests; a health check makes three calls.
SPECIFICATION FairSpec
CONSTANTS
  Req = {q1, q2}
  HealthCalls = 3
INVARIANTS TypeOK LogsTellAll
PROPERTIES AnsweredUnlessHealth
