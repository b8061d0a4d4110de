------------------------ MODULE CustomerServer_proofs -----------------------
(***************************************************************************)
(* Proofs about CustomerServer, for any number of connections, signals,    *)
(* routes and schemas.                                                     *)
(***************************************************************************)
EXTENDS CustomerServer, TLAPS

\* The first timer to run out is that of the first signal: it measures the time
\* since then, and no other is ahead of it.
Clock == /\ timers = {} => waited = 0
         /\ timers # {} => /\ Grace - waited \in timers
                           /\ \A t \in timers : t >= Grace - waited

\* What is true while the process is up, and what each exit adds.
Ends == /\ proc = "up" => ended = 0 /\ Cut = {}
        /\ proc = "exit0" => ended = 1 /\ Connections = {} /\ Cut = {}
        /\ proc = "exit1" => ended = 1 /\ waited = Grace

\* What is said of the answers under way.
Answers == StatusSendable /\ AnswersChecked

IInv == TypeOK /\ Clock /\ Ends /\ Answers

\* A step of a connection or of its request.
ConnStep == \E c \in Conn : Open(c) \/ Reuse(c) \/ Flush(c) \/ Close(c) \/ Serve(c)

-----------------------------------------------------------------------------

\* The first three digits of a number that has more (preRequest).
LEMMA ThreeDigits == \A n \in 1000..(Exponent - 1) : FirstThree(n) \in 100..999
  BY NumbersAssumption DEF FirstThree

\* A number that is at least 1, and whole or at least 100, makes a status of three
\* digits, unless it is written with an exponent; none makes 200 (preRequest).
LEMMA StatusPlain == ASSUME NEW n \in Number, Plain(n) PROVE Status(n) \in 100..999
<1>0. n.trunc \in Nat /\ n.trunc < Exponent /\ Exponent \in Nat /\ n.whole \in BOOLEAN
  BY NumbersAssumption DEF Plain, Number
<1>1. CASE n = NoCode
  BY <1>1 DEF Status
<1>2. CASE n # NoCode /\ n.trunc >= 1000
  <2>1. n.trunc \in 1000..(Exponent - 1)
    BY <1>0, <1>2
  <2>2. Status(n) = FirstThree(n.trunc)
    BY <1>0, <1>2 DEF Status
  <2>3. QED
    BY <2>1, <2>2, ThreeDigits
<1>3. CASE n # NoCode /\ n.trunc < 1000
  <2>1. Status(n) = Padded(n)
    BY <1>0, <1>3 DEF Status
  <2>2. CASE n.trunc >= 100
    <3>1. n.trunc \notin 1..9 /\ n.trunc \notin 10..99 \union (-9)..(-1) /\ n.trunc \in 100..999
      BY <1>0, <1>3, <2>2
    <3>2. Padded(n) = n.trunc
      BY <3>1 DEF Padded
    <3>3. QED
      BY <2>1, <3>1, <3>2
  <2>3. CASE n.trunc < 100
    <3>1. n.whole
      BY <1>0, <2>3 DEF Plain
    <3>2. n.trunc # 0
      BY <1>3, <3>1 DEF NoCode, Number
    <3>3. QED
      BY <1>0, <2>1, <2>3, <3>1, <3>2 DEF Padded
  <2>4. QED
    BY <1>0, <2>2, <2>3
<1>4. QED
  BY <1>0, <1>1, <1>2, <1>3

\* A number below the modulus is its own remainder.
LEMMA BelowModulus == ASSUME NEW w \in Nat, NEW n \in Nat, n < w PROVE n % w = n
  BY Z3

ConnState == {"new", "reading", "writing", "idle", "closed", "cut"}

\* What StatusSendable says of an answer.
Sendable(j, s, w) == /\ w = "handler" => s \in 100..999
                     /\ w = "failure" => (j.route \in Thrower \/ (s = 500 /\ \E n \in Code[j.route] : ~Plain(n)))

\* What AnswersChecked says of it.
Justified(j, s, w) == IF w \in {"handler", "failure"} THEN "params" \notin Refused(j)
                                                      ELSE s = 400 /\ Refused(j) # {}

\* An answer under way on c that both allow, or none.
Given(c, k, s, w) == /\ k \subseteq Call
                     /\ s \in {0} \union 100..999
                     /\ w \in {"none", "server", "handler", "failure"}
                     /\ \A j \in k : Sendable(j, s, w) /\ Justified(j, s, w)

\* What the steps of a connection change: never the process or its shutdown.
LEMMA ConnSteps ==
  ASSUME ConnStep
  PROVE  /\ proc = "up" /\ UNCHANGED <<proc, timers, closes, ended, waited>>
         /\ \E c \in Conn, to \in ConnState \ {"new", "cut"} : conn' = [conn EXCEPT ![c] = to]
         /\ \E c \in Conn : \E k, s, w : /\ Given(c, k, s, w)
                                         /\ call' = [call EXCEPT ![c] = k]
                                         /\ reply' = [reply EXCEPT ![c] = s]
                                         /\ by' = [by EXCEPT ![c] = w]
<1>1. PICK c \in Conn : Open(c) \/ Reuse(c) \/ Flush(c) \/ Close(c) \/ Serve(c)
  BY DEF ConnStep
<1>2. CASE Open(c) \/ Reuse(c) \/ Flush(c) \/ Close(c)
  <2>1. PICK to \in ConnState \ {"new", "cut"} : \E from : Move(c, from, to)
    <3>1. {"reading", "idle", "closed"} \subseteq ConnState \ {"new", "cut"}
      BY DEF ConnState
    <3> QED
      BY <1>2, <3>1 DEF Open, Reuse, Flush, Close
  <2>2. Given(c, {}, 0, "none")
    BY DEF Given
  <2>3. PICK from : Move(c, from, to)
    BY <2>1
  <2>4. /\ proc = "up" /\ UNCHANGED <<proc, timers, closes, ended, waited>>
        /\ conn' = [conn EXCEPT ![c] = to]
    BY <2>3 DEF Move, stopping
  <2>5. /\ call' = [call EXCEPT ![c] = {}]
        /\ reply' = [reply EXCEPT ![c] = 0]
        /\ by' = [by EXCEPT ![c] = "none"]
    BY <2>3 DEF Move
  <2> QED
    BY <2>2, <2>4, <2>5
<1>3. ASSUME NEW k, NEW s, NEW w, Given(c, k, s, w), Answer(c, k, s, w)
      PROVE  /\ proc = "up" /\ UNCHANGED <<proc, timers, closes, ended, waited>>
             /\ \E d \in Conn, to \in ConnState \ {"new", "cut"} : conn' = [conn EXCEPT ![d] = to]
             /\ \E d \in Conn : \E j, r, v : /\ Given(d, j, r, v)
                                             /\ call' = [call EXCEPT ![d] = j]
                                             /\ reply' = [reply EXCEPT ![d] = r]
                                             /\ by' = [by EXCEPT ![d] = v]
  <2>1. "writing" \in ConnState \ {"new", "cut"}
    BY DEF ConnState
  <2>2. conn' = [conn EXCEPT ![c] = "writing"]
    BY <1>3 DEF Answer
  <2> QED
    BY <1>3, <2>1, <2>2 DEF Answer, stopping
<1>4. ASSUME NEW b \in BOOLEAN PROVE ErrorStatus(b) \in {404, 500}
  BY DEF ErrorStatus
<1>5. CASE Malformed(c) \/ UnknownURL(c)
  <2>1. PICK s \in {404, 500} : Answer(c, {}, s, "server")
    BY <1>4, <1>5 DEF Malformed, UnknownURL
  <2>2. Given(c, {}, s, "server")
    BY DEF Given
  <2> QED
    BY <1>3, <2>1, <2>2
<1>6. CASE Reject(c)
  <2>1. PICK k \in Call : Details(k) # {} /\ Answer(c, {k}, 400, "server")
    BY <1>6 DEF Reject
  <2>2. Refused(k) # {}
    BY <2>1 DEF Details
  <2>3. Sendable(k, 400, "server") /\ Justified(k, 400, "server")
    BY <2>2 DEF Sendable, Justified
  <2>4. Given(c, {k}, 400, "server")
    BY <2>3 DEF Given
  <2> QED
    BY <1>3, <2>1, <2>4
<1>7. ASSUME NEW k \in Call, NEW s \in 100..999, NEW w \in {"handler", "failure"}, Details(k) = {}, Sendable(k, s, w)
      PROVE  Given(c, {k}, s, w)
  <2>1. "params" \notin Refused(k)
    BY <1>7 DEF Details, Refused
  <2>2. Justified(k, s, w)
    BY <2>1 DEF Justified
  <2> QED
    BY <1>7, <2>2 DEF Given
<1>8. CASE Handle(c)
  <2>1. PICK k \in Call :
          /\ Details(k) = {}
          /\ \E n \in Code[k.route] :
               LET s == Status(n) % Wrap
               IN  IF s \in 100..999 THEN Answer(c, {k}, s, "handler")
                   ELSE Answer(c, {k}, ErrorStatus(FALSE), "failure")
    BY <1>8 DEF Handle
  <2>2. PICK n \in Code[k.route] :
          IF Status(n) % Wrap \in 100..999 THEN Answer(c, {k}, Status(n) % Wrap, "handler")
          ELSE Answer(c, {k}, ErrorStatus(FALSE), "failure")
    BY <2>1
  <2>3. CASE Status(n) % Wrap \in 100..999
    <3>1. Sendable(k, Status(n) % Wrap, "handler")
      BY <2>3 DEF Sendable
    <3>2. Given(c, {k}, Status(n) % Wrap, "handler")
      BY <1>7, <2>1, <2>3, <3>1
    <3>3. QED
      BY <1>3, <2>2, <2>3, <3>2
  <2>4. CASE Status(n) % Wrap \notin 100..999
    <3>1. n \in Number
      BY RoutesAssumption DEF Call
    <3>2. ~Plain(n)
      <4>1. ASSUME NEW s \in 100..999 PROVE s % Wrap = s
        BY NumbersAssumption, BelowModulus
      <4>2. QED
        BY <2>4, <3>1, <4>1, StatusPlain
    <3>3. Sendable(k, 500, "failure") /\ ErrorStatus(FALSE) = 500
      BY <3>2 DEF Sendable, ErrorStatus
    <3>4. Given(c, {k}, 500, "failure")
      BY <1>7, <2>1, <3>3
    <3>5. Answer(c, {k}, 500, "failure")
      BY <2>2, <2>4, <3>3 DEF Answer
    <3>6. QED
      BY <1>3, <3>4, <3>5
  <2>5. QED
    BY <2>3, <2>4
<1>9. CASE HandlerThrows(c)
  <2>1. PICK k \in Call : /\ Details(k) = {} /\ k.route \in Thrower
                          /\ \E b \in BOOLEAN : Answer(c, {k}, ErrorStatus(b), "failure")
    BY <1>9 DEF HandlerThrows
  <2>2. PICK s \in {404, 500} : Answer(c, {k}, s, "failure")
    BY <1>4, <2>1
  <2>3. Sendable(k, s, "failure")
    BY <2>1 DEF Sendable
  <2>4. Given(c, {k}, s, "failure")
    BY <1>7, <2>1, <2>3
  <2> QED
    BY <1>3, <2>2, <2>4
<1> QED
  BY <1>1, <1>2, <1>5, <1>6, <1>8, <1>9 DEF Serve

\* Both are about the requests only, and what Refused says of one stays.
LEMMA AnswersKept == ASSUME Answers, UNCHANGED requests PROVE Answers'
  BY DEF Answers, StatusSendable, AnswersChecked, requests

-----------------------------------------------------------------------------
(* The inductive invariant *)

\* The initial state satisfies the invariant.
LEMMA InitInv == Init => IInv
<1> SUFFICES ASSUME Init PROVE IInv
  OBVIOUS
<1>1. TypeOK
  BY GraceAssumption DEF Init, TypeOK
<1>2. Clock /\ Ends /\ Answers
  BY DEF Init, Clock, Ends, Answers, StatusSendable, AnswersChecked, Cut
<1> QED
  BY <1>1, <1>2 DEF IInv

\* Connections come and go and are answered.
LEMMA ConnInv == ASSUME IInv, ConnStep PROVE IInv'
<1>0. TypeOK /\ Clock /\ Ends /\ Answers
  BY DEF IInv
<1>1. proc = "up" /\ UNCHANGED <<proc, timers, closes, ended, waited>>
  BY ConnSteps
<1>2. conn' \in [Conn -> ConnState] /\ Cut' = {}
  <2>1. PICK c \in Conn, to \in ConnState \ {"new", "cut"} : conn' = [conn EXCEPT ![c] = to]
    BY ConnSteps
  <2>2. conn \in [Conn -> ConnState] /\ Cut = {}
    BY <1>0, <1>1 DEF TypeOK, Ends, ConnState
  <2> QED
    BY <2>1, <2>2 DEF Cut
<1>3. PICK c \in Conn : \E k, s, w : /\ Given(c, k, s, w)
                                     /\ call' = [call EXCEPT ![c] = k]
                                     /\ reply' = [reply EXCEPT ![c] = s]
                                     /\ by' = [by EXCEPT ![c] = w]
  BY ConnSteps
<1>4. PICK k, s, w : /\ Given(c, k, s, w)
                     /\ call' = [call EXCEPT ![c] = k]
                     /\ reply' = [reply EXCEPT ![c] = s]
                     /\ by' = [by EXCEPT ![c] = w]
  BY <1>3
<1>5. call' \in [Conn -> SUBSET Call]
  BY <1>0, <1>4 DEF Given, TypeOK
<1>6. reply' \in [Conn -> {0} \union 100..999]
  BY <1>0, <1>4 DEF Given, TypeOK
<1>7. by' \in [Conn -> {"none", "server", "handler", "failure"}]
  BY <1>0, <1>4 DEF Given, TypeOK
<1>8. TypeOK'
  BY <1>0, <1>1, <1>2, <1>5, <1>6, <1>7 DEF TypeOK, ConnState
<1>9. Clock' /\ Ends'
  BY <1>0, <1>1, <1>2 DEF Clock, Ends
<1>10. Answers'
  <2>1. ASSUME NEW d \in Conn, NEW j \in call'[d]
        PROVE  Sendable(j, reply'[d], by'[d]) /\ Justified(j, reply'[d], by'[d])
    <3>1. CASE d = c
      <4>1. call'[d] = k /\ reply'[d] = s /\ by'[d] = w
        BY <1>0, <1>4, <3>1 DEF TypeOK
      <4> QED
        BY <1>4, <2>1, <4>1 DEF Given
    <3>2. CASE d # c
      <4>1. call'[d] = call[d] /\ reply'[d] = reply[d] /\ by'[d] = by[d]
        BY <1>0, <1>4, <3>2 DEF TypeOK
      <4> QED
        BY <1>0, <2>1, <4>1 DEF Answers, StatusSendable, AnswersChecked, Sendable, Justified
    <3> QED
      BY <3>1, <3>2
  <2>2. StatusSendable'
    BY <2>1 DEF StatusSendable, Sendable
  <2>3. AnswersChecked'
    BY <2>1 DEF AnswersChecked, Justified
  <2> QED
    BY <2>2, <2>3 DEF Answers
<1> QED
  BY <1>8, <1>9, <1>10 DEF IInv

\* A signal adds a timer that is not ahead of the others.
LEMMA SignalInv == ASSUME IInv, Signal PROVE IInv'
<1>0. TypeOK /\ Clock /\ Ends /\ Answers
  BY DEF IInv
<1>1. /\ proc = "up" /\ closes < MaxSignals /\ closes' = closes + 1 /\ timers' = timers \union {Grace}
      /\ UNCHANGED <<proc, requests, ended, waited>>
  BY DEF Signal, Timer
<1>2. conn' \in [Conn -> ConnState] /\ Cut' = {}
  <2>1. PICK shut : conn' = [c \in Conn |-> IF c \in shut THEN "closed" ELSE conn[c]]
    BY DEF Signal
  <2>2. conn \in [Conn -> ConnState] /\ Cut = {}
    BY <1>0, <1>1 DEF TypeOK, Ends, ConnState
  <2>3. "closed" \in ConnState /\ "closed" # "cut"
    BY DEF ConnState
  <2> QED
    BY <2>1, <2>2, <2>3 DEF Cut
<1>3. TypeOK'
  BY <1>0, <1>1, <1>2, GraceAssumption DEF TypeOK, ConnState, requests
<1>4. Clock'
  BY <1>0, <1>1, GraceAssumption DEF Clock, TypeOK
<1>5. Ends'
  BY <1>0, <1>1, <1>2 DEF Ends
<1> QED
  BY <1>0, <1>1, <1>3, <1>4, <1>5, AnswersKept DEF IInv

\* Time goes by.
LEMMA TickInv == ASSUME IInv, Tick PROVE IInv'
<1>0. TypeOK /\ Clock /\ Ends /\ Answers
  BY DEF IInv
<1>1. /\ proc = "up" /\ timers # {} /\ 0 \notin timers
      /\ timers' = {t - 1 : t \in timers} /\ waited' = waited + 1
      /\ UNCHANGED <<proc, conn, requests, closes, ended>>
  BY DEF Tick
<1>2. Grace - waited \in timers /\ \A t \in timers : t >= Grace - waited
  BY <1>0, <1>1 DEF Clock
<1>3. timers \subseteq 0..Grace /\ waited \in 0..Grace /\ Grace \in Nat
  BY <1>0, GraceAssumption DEF TypeOK
<1>4. timers' \subseteq 0..Grace
  BY <1>1, <1>3
<1>5. waited' \in 0..Grace
  BY <1>1, <1>2, <1>3
<1>6. TypeOK'
  BY <1>0, <1>1, <1>4, <1>5 DEF TypeOK, requests
<1>7. Clock'
  <2>1. Grace - waited' \in timers'
    <3>1. Grace - waited' = (Grace - waited) - 1
      BY <1>1, <1>3
    <3> QED
      BY <1>1, <1>2, <3>1
  <2>2. \A t \in timers' : t >= Grace - waited'
    BY <1>1, <1>2, <1>3
  <2> QED
    BY <2>1, <2>2 DEF Clock
<1>8. Ends'
  BY <1>0, <1>1 DEF Ends, Cut
<1> QED
  BY <1>0, <1>1, <1>6, <1>7, <1>8, AnswersKept DEF IInv

\* The server has closed.
LEMMA ExitInv == ASSUME IInv, Exit PROVE IInv'
<1>0. TypeOK /\ Clock /\ Ends /\ Answers
  BY DEF IInv
<1>1. /\ proc = "up" /\ Connections = {} /\ ended' = ended + 1 /\ proc' = "exit0"
      /\ UNCHANGED <<conn, requests, timers, closes, waited>>
  BY DEF Exit
<1>2. ended = 0 /\ Cut = {}
  BY <1>0, <1>1 DEF Ends
<1>3. TypeOK'
  BY <1>0, <1>1, <1>2 DEF TypeOK, requests
<1>4. Ends'
  BY <1>1, <1>2 DEF Ends, Cut, Connections
<1>5. Clock'
  BY <1>0, <1>1 DEF Clock
<1> QED
  BY <1>0, <1>1, <1>3, <1>4, <1>5, AnswersKept DEF IInv

\* The first timer has run out.
LEMMA ForceInv == ASSUME IInv, ForceExit PROVE IInv'
<1>0. TypeOK /\ Clock /\ Ends /\ Answers
  BY DEF IInv
<1>1. /\ proc = "up" /\ 0 \in timers /\ ended' = ended + 1 /\ proc' = "exit1"
      /\ conn' = [c \in Conn |-> IF c \in Connections THEN "cut" ELSE conn[c]]
      /\ UNCHANGED <<requests, timers, closes, waited>>
  BY DEF ForceExit
<1>2. ended = 0
  BY <1>0, <1>1 DEF Ends
<1>3. waited = Grace
  <2>1. Grace - waited \in timers /\ 0 >= Grace - waited
    BY <1>0, <1>1 DEF Clock
  <2>2. Grace - waited \in 0..Grace /\ waited \in 0..Grace /\ Grace \in Nat
    BY <1>0, <2>1, GraceAssumption DEF TypeOK
  <2> QED
    BY <2>1, <2>2
<1>4. conn' \in [Conn -> ConnState]
  BY <1>0, <1>1 DEF TypeOK, ConnState
<1>5. TypeOK'
  BY <1>0, <1>1, <1>2, <1>4 DEF TypeOK, ConnState, requests
<1>6. Ends'
  BY <1>1, <1>2, <1>3 DEF Ends
<1>7. Clock'
  BY <1>0, <1>1 DEF Clock
<1> QED
  BY <1>0, <1>1, <1>5, <1>6, <1>7, AnswersKept DEF IInv

\* Nothing happens.
LEMMA StutterInv == ASSUME IInv, UNCHANGED vars PROVE IInv'
<1>0. TypeOK /\ Clock /\ Ends /\ Answers
  BY DEF IInv
<1>1. TypeOK'
  BY <1>0 DEF TypeOK, vars, requests, stopping
<1>2. Clock' /\ Ends'
  BY <1>0 DEF Clock, Ends, Cut, Connections, vars, stopping
<1> QED
  BY <1>0, <1>1, <1>2, AnswersKept DEF IInv, vars

\* Init and every step establish the inductive invariant.
THEOREM Inductive == Spec => []IInv
<1>1. Init => IInv
  BY InitInv
<1>2. IInv /\ [Next]_vars => IInv'
  <2> SUFFICES ASSUME IInv, [Next]_vars PROVE IInv'
    OBVIOUS
  <2>1. ConnStep \/ Signal \/ Tick \/ Exit \/ ForceExit \/ UNCHANGED vars
    BY DEF Next, ConnStep, Exited
  <2> QED
    BY <2>1, ConnInv, SignalInv, TickInv, ExitInv, ForceInv, StutterInv
<1> QED
  BY <1>1, <1>2, PTL DEF Spec

\* The types of the server's state.
THEOREM TypeCorrect == Spec => []TypeOK
<1>1. IInv => TypeOK
  BY DEF IInv
<1> QED
  BY <1>1, Inductive, PTL

\* Exit 0 cuts off nobody, exit 1 comes exactly 10 s after the first signal, and
\* close is called once (listen).
THEOREM Shutdown == Spec => []ShutdownSound
<1>1. IInv => ShutdownSound
  BY DEF IInv, Ends, TypeOK, ShutdownSound, CleanExit, ForcedExit, ClosedOnce
<1> QED
  BY <1>1, Inductive, PTL

\* Handlers get params their schema accepts and 400 has a reason (validateRequest).
THEOREM Checks == Spec => []AnswersChecked
<1>1. IInv => AnswersChecked
  BY DEF IInv, Answers
<1> QED
  BY <1>1, Inductive, PTL

\* Whatever number a handler returns: one that is at least 1, and whole or at least 100,
\* and not so large that it has an exponent, is never turned into an error (preRequest).
THEOREM StatusesSendable == Spec => []StatusSendable
<1>1. IInv => StatusSendable
  BY DEF IInv, Answers
<1> QED
  BY <1>1, Inductive, PTL

-----------------------------------------------------------------------------
(***************************************************************************)
(* CustomerServer implements GracefulServer.                               *)
(***************************************************************************)

\* A timer is set, and until the exit kept, by every signal.
TimersSet == timers = {} <=> closes = 0

StopInv == IInv /\ TimersSet

\* Both always hold.
LEMMA StopInductive == Spec => []StopInv
<1>1. Init => TimersSet
  BY DEF Init, TimersSet
<1>2. IInv /\ TimersSet /\ [Next]_vars => TimersSet'
  <2> SUFFICES ASSUME IInv, TimersSet, [Next]_vars PROVE TimersSet'
    OBVIOUS
  <2>1. CASE ConnStep
    BY <2>1, ConnSteps DEF TimersSet
  <2>2. CASE Signal
    BY <2>2 DEF Signal, Timer, TimersSet, IInv, TypeOK
  <2>3. CASE Tick
    BY <2>3 DEF Tick, TimersSet
  <2>4. CASE Exit \/ ForceExit \/ UNCHANGED vars
    BY <2>4 DEF Exit, ForceExit, vars, stopping, TimersSet
  <2>5. QED
    BY <2>1, <2>2, <2>3, <2>4 DEF Next, ConnStep, Exited
<1>3. QED
  BY <1>1, <1>2, Inductive, PTL DEF Spec, StopInv

\* From the first signal on the forced exit is set: the first timer to run out has
\* left exactly what is left of the grace, whatever signals came since and whatever
\* the clients do (setTimeout in listen).
THEOREM ForcedExitIsSet ==
  Spec => [](closes > 0 => Grace - waited \in timers /\ \A t \in timers : t >= Grace - waited)
<1>1. StopInv => (closes > 0 => Grace - waited \in timers /\ \A t \in timers : t >= Grace - waited)
  BY DEF StopInv, TimersSet, IInv, Clock
<1>2. QED
  BY <1>1, StopInductive, PTL

\* stopState in a state and in the next one.
StateOf(k) == IF k = "new" THEN "away"
              ELSE IF k \in {"reading", "writing"} THEN "busy"
              ELSE IF k = "idle" THEN "open"
              ELSE IF k = "cut" THEN "cut" ELSE "gone"

\* stopState is StateOf, before and after a step.
LEMMA StateOfConn ==
  /\ \A c \in Conn : stopState[c] = StateOf(conn[c]) /\ stopState'[c] = StateOf(conn'[c])
  /\ stopState' \in [Conn -> Stopping!State]
BY DEF stopState, StateOf, Stopping!State, Stopping!Here

\* A connection opens only before the first signal; those that are there are served
\* and closed, as the client and Node like.
LEMMA ServeStep ==
  ASSUME StopInv, ConnStep
  PROVE  Stopping!Serve
<1>1. /\ proc = "up" /\ UNCHANGED <<proc, closes, waited>>
      /\ conn \in [Conn -> ConnState]
  BY ConnSteps DEF StopInv, IInv, TypeOK, ConnState
<1>2. stopPhase # "down" /\ UNCHANGED <<stopPhase, waited>> /\ (closes = 0 => stopPhase = "up")
  BY <1>1 DEF stopPhase, StopInv, IInv, TypeOK
<1>3. PICK c \in Conn : Open(c) \/ Reuse(c) \/ Flush(c) \/ Close(c) \/ Serve(c)
  BY DEF ConnStep
<1>4. PICK to \in {"reading", "writing", "idle", "closed"} :
        /\ conn' = [conn EXCEPT ![c] = to]
        /\ conn[c] \in {"reading", "writing", "idle"} \/ (conn[c] = "new" /\ closes = 0 /\ to = "reading")
  <2>1. CASE Open(c) \/ Reuse(c) \/ Flush(c) \/ Close(c)
    BY <2>1 DEF Open, Reuse, Flush, Close, Move
  <2>2. CASE Serve(c)
    <3>1. \E k, s, w : Answer(c, k, s, w)
      BY <2>2 DEF Serve, Malformed, UnknownURL, Reject, Handle, HandlerThrows
    <3>2. QED
      BY <3>1 DEF Answer
  <2>3. QED
    BY <1>3, <2>1, <2>2
<1>5. ASSUME NEW d \in Conn PROVE stopState'[d] \in Stopping!Become(d)
  BY <1>1, <1>2, <1>4, StateOfConn DEF StateOf, Stopping!Become, Stopping!Here, ConnState
<1>6. QED
  BY <1>2, <1>5, StateOfConn DEF Stopping!Serve

\* The first signal stops the server, a later one is only seen by what it closes.
LEMMA SignalStep ==
  ASSUME StopInv, Signal
  PROVE  Stopping!Stop \/ Stopping!Serve
<1>1. PICK shut \in SUBSET Conn :
        /\ \A c \in shut : conn[c] = "idle"
        /\ conn' = [c \in Conn |-> IF c \in shut THEN "closed" ELSE conn[c]]
  BY DEF Signal
<1>2. ASSUME NEW c \in Conn
      PROVE  stopState'[c] = stopState[c] \/ (stopState[c] = "open" /\ stopState'[c] = "gone")
  BY <1>1, StateOfConn DEF StateOf
<1>3. closes \in Nat /\ closes' = closes + 1 /\ proc = "up" /\ UNCHANGED <<proc, waited>>
  BY GraceAssumption DEF Signal, StopInv, IInv, TypeOK
<1>4. stopPhase' = "stopping"
  BY <1>3 DEF stopPhase
<1>5. CASE closes = 0
  <2>1. stopPhase = "up"
    BY <1>3, <1>5 DEF stopPhase
  <2>2. QED
    BY <1>2, <1>3, <1>4, <2>1, StateOfConn DEF Stopping!Stop
<1>6. CASE closes > 0
  <2>1. stopPhase = "stopping"
    BY <1>3, <1>6 DEF stopPhase
  <2>2. ASSUME NEW c \in Conn PROVE stopState'[c] \in Stopping!Become(c)
    BY <1>2, <2>1, StateOfConn DEF Stopping!Become, Stopping!Here, StateOf
  <2>3. QED
    BY <1>3, <1>4, <2>1, <2>2, StateOfConn DEF Stopping!Serve
<1>7. QED
  BY <1>3, <1>5, <1>6

\* The timer of the first signal counts the grace.
LEMMA WaitStep ==
  ASSUME StopInv, Tick
  PROVE  Stopping!Wait
<1>1. proc = "up" /\ timers # {} /\ 0 \notin timers /\ waited' = waited + 1 /\ UNCHANGED <<proc, conn, closes>>
  BY DEF Tick
<1>2. Grace - waited \in timers /\ waited \in 0..Grace /\ Grace \in Nat /\ closes \in Nat /\ closes # 0
  BY <1>1, GraceAssumption DEF StopInv, IInv, Clock, TypeOK, TimersSet
<1>3. waited < Grace
  BY <1>1, <1>2
<1>4. stopPhase = "stopping" /\ UNCHANGED <<stopPhase, stopState>>
  BY <1>1, <1>2 DEF stopPhase, stopState
<1>5. QED
  BY <1>1, <1>3, <1>4 DEF Stopping!Wait

\* The "close" event comes when no connection is left.
LEMMA GoDownStep ==
  ASSUME StopInv, Exit
  PROVE  Stopping!GoDown
<1>1. proc = "up" /\ proc' = "exit0" /\ closes > 0 /\ Connections = {} /\ UNCHANGED <<conn, waited>>
  BY DEF Exit
<1>2. stopPhase = "stopping" /\ stopPhase' = "down" /\ UNCHANGED stopState
  BY <1>1 DEF stopPhase, stopState
<1>3. \A c \in Conn : stopState[c] \notin Stopping!Here
  BY <1>1, StateOfConn DEF Connections, StateOf, Stopping!Here
<1>4. QED
  BY <1>1, <1>2, <1>3 DEF Stopping!GoDown

\* The timer that runs out first has run for the grace, whichever signal set it.
LEMMA ForceStep ==
  ASSUME StopInv, ForceExit
  PROVE  Stopping!Force
<1>1. /\ proc = "up" /\ proc' = "exit1" /\ 0 \in timers /\ UNCHANGED waited
      /\ conn' = [c \in Conn |-> IF c \in Connections THEN "cut" ELSE conn[c]]
  BY DEF ForceExit
<1>2. /\ Grace - waited \in timers /\ 0 >= Grace - waited /\ waited \in 0..Grace /\ Grace \in Nat
      /\ closes \in Nat /\ closes # 0
  BY <1>1, GraceAssumption DEF StopInv, IInv, Clock, TypeOK, TimersSet
<1>3. waited = Grace
  BY <1>2
<1>4. stopPhase = "stopping" /\ stopPhase' = "down"
  BY <1>1, <1>2 DEF stopPhase
<1>5. ASSUME NEW c \in Conn
      PROVE  stopState'[c] \in IF stopState[c] = "busy" THEN {"cut"}
                               ELSE IF stopState[c] = "open" THEN {"gone", "cut"}
                               ELSE {stopState[c]}
  BY <1>1, StateOfConn DEF StateOf, Connections
<1>6. QED
  BY <1>1, <1>3, <1>4, <1>5, StateOfConn DEF Stopping!Force, Stopping!CutOff

\* customer-service stops gracefully: CustomerServer implements GracefulServer.
THEOREM Implements == Spec => ImplementsStop
<1>1. Init => Stopping!Init
  <2> SUFFICES ASSUME Init PROVE Stopping!Init
    OBVIOUS
  <2>1. stopPhase = "up" /\ stopState = [c \in Conn |-> "away"]
    BY DEF Init, stopPhase, stopState
  <2>2. QED
    BY <2>1 DEF Init, Stopping!Init
<1>2. StopInv /\ [Next]_vars => [Stopping!Next]_(Stopping!vars)
  <2> SUFFICES ASSUME StopInv, [Next]_vars PROVE Stopping!Next \/ UNCHANGED Stopping!vars
    OBVIOUS
  <2>1. CASE ConnStep
    BY <2>1, ServeStep DEF Stopping!Next
  <2>2. CASE Signal
    BY <2>2, SignalStep DEF Stopping!Next
  <2>3. CASE Tick
    BY <2>3, WaitStep DEF Stopping!Next
  <2>4. CASE Exit
    BY <2>4, GoDownStep DEF Stopping!Next
  <2>5. CASE ForceExit
    BY <2>5, ForceStep DEF Stopping!Next
  <2>6. CASE UNCHANGED vars
    BY <2>6 DEF vars, stopping, stopPhase, stopState, Stopping!vars
  <2>7. QED
    BY <2>1, <2>2, <2>3, <2>4, <2>5, <2>6 DEF Next, ConnStep, Exited
<1>3. QED
  BY <1>1, <1>2, StopInductive, PTL DEF Spec, ImplementsStop, Stopping!Spec
=============================================================================
