\* A registration, two logins and a verification (or any other four requests) for
\* one email: two different seconds, in both of which a token is still valid.
SPECIFICATION Spec
CONSTANTS
  Req = {q1, q2, q3, q4}
  Email = {e1}
  Password = {p1, p2}
  TTL = 2
  MaxTime = 1
  MaxFaults = 0
  MaxStops = 0
SYMMETRY Symmetry
INVARIANTS SessionsSound OldTokenRevoked RegisteredCanLogin
