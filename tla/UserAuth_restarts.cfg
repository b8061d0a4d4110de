\* Three requests for two emails, with tokens that expire and a restart.
SPECIFICATION Spec
CONSTANTS
  Req = {q1, q2, q3}
  Email = {e1, e2}
  Password = {p1, p2}
  TTL = 1
  MaxTime = 1
  MaxFaults = 1
  MaxStops = 1
SYMMETRY Symmetry
INVARIANTS TypeOK RegisterWins VerifySound LoginTakesOver
PROPERTIES ImplementsAccounts
