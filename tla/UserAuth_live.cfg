\* Three requests for one email, and one password, as a wrong one takes the steps of
\* an unknown email; no symmetry, for the sake of liveness.
SPECIFICATION FairSpec
CONSTANTS
  Req = {q1, q2, q3}
  Email = {e1}
  Password = {p1}
  TTL = 1
  MaxTime = 0
  MaxFaults = 1
  MaxStops = 1
INVARIANTS NobodyStuck
PROPERTIES AnsweredAndSettled
