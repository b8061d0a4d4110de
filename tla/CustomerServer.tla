--------------------------- MODULE CustomerServer ---------------------------
(***************************************************************************)
(* The HTTP server of customer-service: AppRouter and AppServer            *)
(* (appRouter/index.ts), from the validation of a request to its answer,   *)
(* and the shutdown that listen installs for SIGINT and SIGTERM.           *)
(*                                                                         *)
(* No handler waits for anything, so a request is answered in one step,    *)
(* once it has all arrived; what takes time is its arrival, the sending of *)
(* the answer, and the connection that is then kept alive.  A schema is    *)
(* the set of values it accepts.                                           *)
(*                                                                         *)
(* Node's server is external: close() stops listening and may close idle   *)
(* connections (it depends on the version), and its callbacks are called   *)
(* once no connection is open.                                             *)
(***************************************************************************)
EXTENDS Integers

CONSTANTS Conn,        \* connections clients open, one after the other or at once
          Route,       \* registered routes
          Value,       \* values a request can bring as params, body or query
          Schema,      \* Schema[r]: the schemas route r declares, by part
          WithParams,  \* routes with parameters in their path
          Code,        \* Code[r]: the statusCodes its handler may return
          Thrower,     \* routes whose handler may throw
          Exponent,    \* 10^21: from here on JavaScript writes numbers with an exponent
          Tens,        \* the powers of ten below it
          Wrap,        \* 2^32: x | 0, which Node does to a status, is modulo Wrap
          Grace,       \* the 10 seconds before the exit is forced
          MaxSignals   \* bound: signals the process receives

Part == {"params", "body", "query"}

\* A number of JavaScript: its integer part, and whether that is all of it.
\* undefined and NaN are as false as 0 is, Infinity is as a number above Exponent
\* is, and -Infinity, of which x | 0 makes 0, as one between -1 and 0.
Number == [trunc : Int, whole : BOOLEAN]
NoCode == [trunc |-> 0, whole |-> TRUE]

ASSUME RoutesAssumption == \A r \in Route : /\ DOMAIN Schema[r] \subseteq Part
                                           /\ Code[r] \subseteq Number
ASSUME NumbersAssumption == /\ Exponent \in Nat /\ Wrap \in Nat /\ Wrap > 999
                            /\ Tens \subseteq Nat \ {0}
                            /\ \A n \in 1000..(Exponent - 1) : \E e \in Tens : n \div e \in 100..999
ASSUME GraceAssumption == Grace \in Nat \ {0} /\ MaxSignals \in Nat

VARIABLES
  proc,    \* the process: "up", or how it exited
  conn,    \* what each connection is doing
  call,    \* the request that is being answered, if it reached a route: at most one
  reply,   \* the status of that answer, 0 if there is none under way
  by,      \* history: whether a handler gave it, its failure did, or the server alone
  timers,  \* seconds left on the timers of the signals
  closes,  \* callbacks waiting for the server's "close" event
  ended,   \* how often listen's close argument was called
  waited   \* history: seconds since the first signal

requests == <<call, reply, by>>
stopping == <<timers, closes, ended, waited>>
vars == <<proc, conn, requests, stopping>>

Call == [route : Route, params : Value, body : Value, query : Value]

\* listen's set of connections: added when they open, deleted when they close.
Connections == {c \in Conn : conn[c] \in {"reading", "writing", "idle"}}

Init == /\ proc = "up"
        /\ conn = [c \in Conn |-> "new"]
        /\ call = [c \in Conn |-> {}]
        /\ reply = [c \in Conn |-> 0]
        /\ by = [c \in Conn |-> "none"]
        /\ timers = {} /\ closes = 0 /\ ended = 0 /\ waited = 0

-----------------------------------------------------------------------------
(* Connections *)

Move(c, from, to) == /\ proc = "up" /\ conn[c] \in from
                     /\ conn' = [conn EXCEPT ![c] = to]
                     /\ call' = [call EXCEPT ![c] = {}]
                     /\ reply' = [reply EXCEPT ![c] = 0]
                     /\ by' = [by EXCEPT ![c] = "none"]
                     /\ UNCHANGED <<proc, stopping>>

\* A client connects, which it can until close() is called.
Open(c) == closes = 0 /\ Move(c, {"new"}, "reading")

\* Another request comes on a connection that was kept alive.
Reuse(c) == Move(c, {"idle"}, "reading")

\* The answer is out and the connection kept alive.
Flush(c) == Move(c, {"writing"}, "idle")

\* The client closes, whatever the connection is doing, or Node does: after an
\* answer, or because it was idle for too long.
Close(c) == Move(c, {"reading", "writing", "idle"}, "closed")

-----------------------------------------------------------------------------
(* A request and its answer *)

\* register: a path's parameters have a schema, if the route declares none for
\* them, that accepts every string, and so all that Express finds in a path.
Checked(r) == [p \in DOMAIN Schema[r] \union (IF r \in WithParams THEN {"params"} ELSE {}) |->
                 IF p \in DOMAIN Schema[r] THEN Schema[r][p] ELSE Value]

\* The parts of a request that their schemas do not accept.
Refused(k) == {p \in DOMAIN Checked(k.route) : k[p] \notin Checked(k.route)[p]}

\* Mutant of Details: the errors of the params' own schema are not collected.
DetailsMutant(k) == {p \in Refused(k) \ {"params"} : k.params \notin Checked(k.route)[p]}

\* validateRequest: the refused parts whose schema has errors for the params
\* (Errors(req.params), for the body and the query as well).
Details(k) == {p \in Refused(k) : k.params \notin Checked(k.route)[p]}

\* slice(0, 3) of a number of four digits or more.
FirstThree(n) == n \div (CHOOSE e \in Tens : n \div e \in 100..999)

\* padEnd(3, '0'): a digit alone becomes three; a sign or a point count as characters.
Padded(n) == IF ~n.whole THEN n.trunc
             ELSE IF n.trunc \in 1..9 THEN n.trunc * 100
             ELSE IF n.trunc \in 10..99 \union (-9)..(-1) THEN n.trunc * 10
             ELSE n.trunc

\* Mutant of Status: the digits are not filled up to three.
StatusMutant(n) == IF n = NoCode THEN 200
                   ELSE IF n.trunc >= Exponent THEN 1
                   ELSE IF n.trunc >= 1000 THEN FirstThree(n.trunc) ELSE n.trunc

\* preRequest: 200 for none, else the first three digits, of which an exponent leaves
\* one, or filled up with zeros.
Status(n) == IF n = NoCode THEN 200
             ELSE IF n.trunc >= Exponent THEN 1
             ELSE IF n.trunc >= 1000 THEN FirstThree(n.trunc) ELSE Padded(n)

\* globalErrorHandler looks for "not found" in the error's message.
ErrorStatus(notFound) == IF notFound THEN 404 ELSE 500

\* The request on c, all of which has arrived, is answered.
Answer(c, k, status, who) ==
  /\ proc = "up" /\ conn[c] = "reading"
  /\ conn' = [conn EXCEPT ![c] = "writing"]
  /\ call' = [call EXCEPT ![c] = k]
  /\ reply' = [reply EXCEPT ![c] = status]
  /\ by' = [by EXCEPT ![c] = who]
  /\ UNCHANGED <<proc, stopping>>

\* express.json cannot parse the body; the parser's message quotes from it.
Malformed(c) == \E notFound \in BOOLEAN : Answer(c, {}, ErrorStatus(notFound), "server")

\* No route matches: the handler that listen adds after the routers.
UnknownURL(c) == Answer(c, {}, 404, "server")

\* validateRequest throws what it has collected and handleError answers.
Reject(c) == \E k \in Call : Details(k) # {} /\ Answer(c, {k}, 400, "server")

\* The handler's result is sent; where Node refuses the status, send throws a
\* RangeError, which takes the way of HandlerThrows.
Handle(c) == \E k \in Call : /\ Details(k) = {}
                             /\ \E n \in Code[k.route] :
                                  LET s == Status(n) % Wrap
                                  IN  IF s \in 100..999 THEN Answer(c, {k}, s, "handler")
                                      ELSE Answer(c, {k}, ErrorStatus(FALSE), "failure")

\* catchAsync passes a handler's rejection on to globalErrorHandler.
HandlerThrows(c) == \E k \in Call : /\ Details(k) = {} /\ k.route \in Thrower
                                    /\ \E notFound \in BOOLEAN : Answer(c, {k}, ErrorStatus(notFound), "failure")

-----------------------------------------------------------------------------
(* Shutdown *)

\* Mutant of Timer: a signal clears the timers before it.
TimerMutant == {Grace}
\* Mutant of Timer: there is no setTimeout.
TimerMissing == timers

\* Every signal sets a timer of its own.
Timer == timers \union {Grace}

\* SIGINT or SIGTERM, again and again: close() and a timer.
Signal == /\ proc = "up" /\ closes < MaxSignals
          /\ closes' = closes + 1
          /\ timers' = Timer
          /\ \E shut \in {{}, {c \in Conn : conn[c] = "idle"}} :
                conn' = [c \in Conn |-> IF c \in shut THEN "closed" ELSE conn[c]]
          /\ UNCHANGED <<proc, requests, ended, waited>>

Tick == /\ proc = "up" /\ timers # {} /\ 0 \notin timers
        /\ timers' = {t - 1 : t \in timers}
        /\ waited' = waited + 1
        /\ UNCHANGED <<proc, conn, requests, closes, ended>>

\* The "close" event: the first callback calls close and exits, and the
\* callbacks of later signals are never called.
Exit == /\ proc = "up" /\ closes > 0 /\ Connections = {}
        /\ ended' = ended + 1
        /\ proc' = "exit0"
        /\ UNCHANGED <<conn, requests, timers, closes, waited>>

\* The first timer runs out: connections are destroyed.
ForceExit == /\ proc = "up" /\ 0 \in timers
             /\ conn' = [c \in Conn |-> IF c \in Connections THEN "cut" ELSE conn[c]]
             /\ ended' = ended + 1
             /\ proc' = "exit1"
             /\ UNCHANGED <<requests, timers, closes, waited>>

Exited == proc # "up" /\ UNCHANGED vars

-----------------------------------------------------------------------------

Serve(c) == Malformed(c) \/ UnknownURL(c) \/ Reject(c) \/ Handle(c) \/ HandlerThrows(c)

Next == \/ \E c \in Conn : Open(c) \/ Reuse(c) \/ Flush(c) \/ Close(c) \/ Serve(c)
        \/ Signal \/ Tick \/ Exit \/ ForceExit \/ Exited

Spec == Init /\ [][Next]_vars

\* Timers run and callbacks are called; no client has to do anything.
FairSpec == Spec /\ WF_vars(Tick) /\ WF_vars(Exit) /\ WF_vars(ForceExit)

-----------------------------------------------------------------------------
(* Properties *)

TypeOK == /\ proc \in {"up", "exit0", "exit1"}
          /\ conn \in [Conn -> {"new", "reading", "writing", "idle", "closed", "cut"}]
          /\ call \in [Conn -> SUBSET Call]
          /\ reply \in [Conn -> {0} \union 100..999]
          /\ by \in [Conn -> {"none", "server", "handler", "failure"}]
          /\ timers \subseteq 0..Grace
          /\ closes \in 0..MaxSignals /\ ended \in 0..1 /\ waited \in 0..Grace

Cut == {c \in Conn : conn[c] = "cut"}

\* The process exits with 0 only when every connection has come to its own end.
CleanExit == proc = "exit0" => Connections \union Cut = {}

\* It cuts connections off only when it exits with 1, and it does so exactly
\* 10 seconds after the first signal, however many came later.
ForcedExit == /\ Cut # {} => proc = "exit1"
              /\ proc = "exit1" => waited = Grace

\* The close argument is called once, and just before the exit.
ClosedOnce == ended = (IF proc = "up" THEN 0 ELSE 1)

\* What the shutdown promises while timers and "close" callbacks of several
\* signals race each other (listen).
ShutdownSound == CleanExit /\ ForcedExit /\ ClosedOnce

\* The numbers of which preRequest makes a status that can be sent: none, and those
\* from 1 that are whole or at least 100, up to the exponent.
Plain(n) == n.trunc \in 0..(Exponent - 1) /\ (n.whole \/ n.trunc >= 100)

\* A handler that does not throw and returns such numbers, of whatever length, is never
\* answered by the error handler; only a negative one, a fraction below 100 or one with
\* an exponent turns its success into a 500 (preRequest).
StatusSendable ==
  \A c \in Conn : \A k \in call[c] :
    /\ by[c] = "handler" => reply[c] \in 100..999
    /\ by[c] = "failure" => (k.route \in Thrower \/ (reply[c] = 500 /\ \E n \in Code[k.route] : ~Plain(n)))

\* A handler is called only with params the route's schema for them accepts, and
\* a request is refused only if one of its parts really is unacceptable.  Of the
\* body and the query no more can be said: their errors are not looked for in
\* them (validateRequest).
AnswersChecked ==
  \A c \in Conn : \A k \in call[c] :
    IF by[c] \in {"handler", "failure"} THEN "params" \notin Refused(k) ELSE reply[c] = 400 /\ Refused(k) # {}

\* A signal ends the process, whatever the clients do (listen).
ShutdownEnds == closes > 0 ~> proc # "up"

-----------------------------------------------------------------------------
(* The promise of GracefulServer, kept by the timers and callbacks of all signals. *)

stopPhase == IF proc # "up" THEN "down" ELSE IF closes > 0 THEN "stopping" ELSE "up"

stopState == [c \in Conn |-> IF conn[c] = "new" THEN "away"
                             ELSE IF conn[c] \in {"reading", "writing"} THEN "busy"
                             ELSE IF conn[c] = "idle" THEN "open"
                             ELSE IF conn[c] = "cut" THEN "cut" ELSE "gone"]

Stopping == INSTANCE GracefulServer WITH Guest <- Conn, Abrupt <- FALSE, phase <- stopPhase,
                                         elapsed <- waited, state <- stopState

\* However many signals come, each with a timer and a callback, the server stops as if
\* it had been told once: it exits when no connection is left or exactly 10 seconds
\* after the first signal, and only then cuts connections off (listen).
ImplementsStop == Stopping!Spec
=============================================================================
