\* Two requests and a stop; the timeouts keep the order of 1, 5, 10 and 30 seconds.
SPECIFICATION Spec
CONSTANTS
  Req = {q1, q2}
  CallTimeout = 1
  Grace = 2
  ReadTimeout = 3
  WriteTimeout = 5
CHECK_DEADLOCK FALSE
INVARIANTS TypeOK AnswerTells CallsSurviveStop NeverLate
SYMMETRY Symmetry
PROPERTIES ImplementsStop
