\* One request with its timeouts: what must eventually happen.
SPECIFICATION FairSpec
CONSTANTS
  Req = {q1}
  CallTimeout = 1
  Grace = 2
  ReadTimeout = 3
  WriteTimeout = 5
CHECK_DEADLOCK FALSE
PROPERTIES EveryRequestEnds StopsWhenTold CallsEnd
