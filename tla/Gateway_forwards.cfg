\* A request as in client.http.
SPECIFICATION Spec
CONSTANTS
  Req = {q1}
  CallTimeout = 1
  Grace = 2
  ReadTimeout = 3
  WriteTimeout = 5
CHECK_DEADLOCK FALSE
INVARIANT WellFormedAnswered
