------------------------------ MODULE Gateway ------------------------------
(***************************************************************************)
(* The process of go-service: its start and its graceful stop              *)
(* (ms/application.go), the requests it serves (middleware/logger.go,      *)
(* ms/ctx.go, main.go) and the calls it makes to user-service              *)
(* (client/client.go).                                                     *)
(*                                                                         *)
(* A step is what a goroutine does between two points where it waits.      *)
(* Time passes in ticks of one second; the goroutines' own work takes no   *)
(* time, so a tick waits for whatever is due.  net/http, user-service and  *)
(* Kafka are modelled from how this code uses them.                        *)
(***************************************************************************)
EXTENDS Integers

CONSTANTS Req,           \* requests, each on a connection of its own
          CallTimeout,   \* http.Client.Timeout of a call (1 s)
          Grace,         \* the time Shutdown may take (5 s)
          ReadTimeout,   \* http.Server.ReadTimeout (10 s)
          WriteTimeout   \* http.Server.WriteTimeout (30 s)

ASSUME TimeoutsAssumption ==
  /\ {CallTimeout, Grace, ReadTimeout, WriteTimeout} \subseteq Nat \ {0}
  /\ CallTimeout < Grace
  /\ ReadTimeout + CallTimeout < WriteTimeout

VARIABLES
  main,     \* where Run is: "start", "listen", "await" the result, "exit"
  sig,      \* the signal goroutine: "off", "wait", in Shutdown ("drain"), "send"
  result,   \* what Shutdown returned: "nil" or "deadline"; "none" before
  grace,    \* the time Shutdown has left
  kind,     \* what each request is
  pc,       \* where the handler of a request is
  age,      \* the time since its header was read, up to WriteTimeout
  gone,     \* the requests whose client has hung up
  answer,   \* what the client got
  fly,      \* the goroutine that Call starts: "none", "doing" the call, "over"
  box,      \* the channels ch and serviceError: what is in their one slot
  left,     \* the time the call may still take
  up,       \* what user-service has of the request: "unsent", "sent", "acted"
  before    \* history: the requests that were calling when Shutdown began

server == <<main, sig, result, grace>>
handler == <<kind, pc, age, gone, answer>>
caller == <<fly, box, left, up>>
vars == <<server, handler, caller, before>>

\* A request is malformed or lacks a field; well formed for Login or Register;
\* well formed for Verify; or one for the health check.
Kind == {"bad", "credentials", "verify", "health"}

\* The states of a handler that is at work.
Busy == {"body", "call", "read", "publish"}

Init == /\ main = "start" /\ sig = "off" /\ result = "none" /\ grace = Grace
        /\ kind \in [Req -> Kind]
        /\ pc = [q \in Req |-> "none"] /\ age = [q \in Req |-> 0] /\ gone = {}
        /\ answer = [q \in Req |-> "none"]
        /\ fly = [q \in Req |-> "none"] /\ box = [q \in Req |-> "empty"]
        /\ left = [q \in Req |-> CallTimeout] /\ up = [q \in Req |-> "unsent"]
        /\ before = {}

-----------------------------------------------------------------------------
(* Start and stop.                                                         *)

\* The process ends: every goroutine with it, and connections are cut.
Exit == /\ main' = "exit"
        /\ pc' = [q \in Req |-> IF pc[q] = "none" THEN "none" ELSE "over"]
        /\ answer' = [q \in Req |-> IF pc[q] \in Busy THEN "cut" ELSE answer[q]]
        /\ fly' = [q \in Req |-> IF fly[q] = "doing" THEN "over" ELSE fly[q]]
        /\ UNCHANGED <<sig, result, grace, kind, age, gone, box, left, up, before>>

\* The goroutine of Run has called signal.Notify.
Notify == /\ sig = "off" /\ main # "exit"
          /\ sig' = "wait"
          /\ UNCHANGED <<main, result, grace, handler, caller, before>>

\* SIGINT or SIGTERM: it starts Shutdown, which closes the listener, or kills the
\* process if nothing asked to be notified yet.  Later ones have no effect.
Signal ==
  \/ sig = "off" /\ main # "exit" /\ Exit
  \/ /\ sig = "wait" /\ main # "exit"
     /\ sig' = "drain"
     /\ before' = {q \in Req : pc[q] \in {"call", "read"}}
     /\ UNCHANGED <<main, result, grace, handler, caller>>

\* ListenAndServe opens its port, or cannot and Run returns, or the server has
\* been shut down before it began to serve.
Listen == \/ /\ main = "start" /\ sig \in {"off", "wait"}
             /\ main' = "listen"
             /\ UNCHANGED <<sig, result, grace, handler, caller, before>>
          \/ main = "start" /\ sig \in {"off", "wait"} /\ Exit
          \/ /\ main = "start" /\ sig \in {"drain", "send"}
             /\ main' = "await"
             /\ UNCHANGED <<sig, result, grace, handler, caller, before>>

\* ListenAndServe returns ErrServerClosed as soon as Shutdown has begun.
ListenerCloses == /\ main = "listen" /\ sig \in {"drain", "send"}
                  /\ main' = "await"
                  /\ UNCHANGED <<sig, result, grace, handler, caller, before>>

\* Mutant of ShutdownReturns: Shutdown gets a context without a deadline.
ShutdownReturnsMutant ==
  /\ sig = "drain" /\ main # "exit"
  /\ \A q \in Req : pc[q] \notin Busy
  /\ result' = "nil" /\ sig' = "send"
  /\ pc' = [q \in Req |-> IF pc[q] = "open" THEN "over" ELSE pc[q]]
  /\ UNCHANGED <<main, grace, kind, age, gone, answer, caller, before>>

\* Shutdown returns: no request is at work and it has closed the connections that
\* have none, or its context is over.
ShutdownReturns ==
  /\ sig = "drain" /\ main # "exit"
  /\ \/ /\ \A q \in Req : pc[q] \notin Busy
        /\ result' = "nil"
        /\ pc' = [q \in Req |-> IF pc[q] = "open" THEN "over" ELSE pc[q]]
     \/ grace = 0 /\ result' = "deadline" /\ pc' = pc
  /\ sig' = "send"
  /\ UNCHANGED <<main, grace, kind, age, gone, answer, caller, before>>

\* Mutant of RunReturns: Run does not wait for Shutdown.
RunReturnsMutant == main = "await" /\ Exit

\* Run takes the result off the channel shutdown, and main returns.
RunReturns == main = "await" /\ sig = "send" /\ Exit

-----------------------------------------------------------------------------
(* A request.                                                              *)

\* A client connects, while the listener is open.
Connect(q) == /\ main = "listen" /\ sig \in {"off", "wait"} /\ pc[q] = "none"
              /\ pc' = [pc EXCEPT ![q] = "open"]
              /\ UNCHANGED <<server, kind, age, gone, answer, caller, before>>

\* The header of a request comes, which it may do while Shutdown waits for others:
\* the middleware reads the body.
Accept(q) == /\ pc[q] = "open" /\ main # "exit"
             /\ pc' = [pc EXCEPT ![q] = "body"]
             /\ UNCHANGED <<server, kind, age, gone, answer, caller, before>>

\* Mutant of BodyDue: the server has no ReadTimeout.
BodyDueMutant(q) == FALSE

\* The time to read the body is over.
BodyDue(q) == pc[q] = "body" /\ age[q] >= ReadTimeout

\* The rest of the body does not come: the client hangs up or ReadTimeout is over.
\* The middleware goes on with what it has, which is no JSON document.
BodyBreaks(q) == /\ pc[q] = "body" /\ kind[q] # "health"
                 /\ \/ gone' = gone \union {q}
                    \/ BodyDue(q) /\ gone' = gone
                 /\ kind' = [kind EXCEPT ![q] = "bad"]
                 /\ UNCHANGED <<server, pc, age, answer, caller, before>>

\* The client hangs up: net/http cancels the request's context.
ClientLeaves(q) == /\ pc[q] \in {"call", "read", "publish"} /\ q \notin gone
                   /\ gone' = gone \union {q}
                   /\ UNCHANGED <<server, kind, pc, age, answer, caller, before>>

\* HTTPContext.JSON: the answer reaches the client if it is there and the
\* connection's write deadline is not over.
JSON(q, code) ==
  /\ pc' = [pc EXCEPT ![q] = "over"]
  /\ answer' = [answer EXCEPT ![q] = IF q \in gone THEN "lost"
                                      ELSE IF age[q] >= WriteTimeout THEN "late" ELSE code]

\* A handler finds that the request is malformed.
Reject(q) == /\ pc[q] = "body" /\ kind[q] = "bad"
             /\ JSON(q, "400")
             /\ UNCHANGED <<server, kind, age, gone, caller, before>>

\* Login and Register log their input with c.Log, which is nil: the handler
\* panics and net/http closes the connection.
LogInput(q) == /\ pc[q] = "body" /\ kind[q] = "credentials"
               /\ JSON(q, "aborted")
               /\ UNCHANGED <<server, kind, age, gone, caller, before>>

\* Verify begins its Call: a goroutine of its own carries out the request.
Verify(q) == /\ pc[q] = "body" /\ kind[q] = "verify"
             /\ pc' = [pc EXCEPT ![q] = "call"]
             /\ fly' = [fly EXCEPT ![q] = "doing"]
             /\ UNCHANGED <<server, kind, age, gone, answer, box, left, up, before>>

\* The health check sends two messages and waits for the report of one.  What the
\* producer makes of them, and that there may be none, is the subject of KafkaPipe.
Health(q) == /\ pc[q] = "body" /\ kind[q] = "health"
             /\ pc' = [pc EXCEPT ![q] = "publish"]
             /\ UNCHANGED <<server, kind, age, gone, answer, caller, before>>

\* Kafka's report comes, of a delivery or of a failure: both are answered 200.
Published(q) == /\ pc[q] = "publish"
                /\ JSON(q, "200")
                /\ UNCHANGED <<server, kind, age, gone, caller, before>>

-----------------------------------------------------------------------------
(* A call to user-service.                                                 *)

\* The request reaches user-service.
Sent(q) == /\ fly[q] = "doing" /\ up[q] = "unsent"
           /\ up' = [up EXCEPT ![q] = "sent"]
           /\ UNCHANGED <<server, handler, fly, box, left, before>>

\* user-service handles it, whether or not anybody still waits.
Acts(q) == /\ up[q] = "sent"
           /\ up' = [up EXCEPT ![q] = "acted"]
           /\ UNCHANGED <<server, handler, fly, box, left, before>>

\* Mutant of Deliver: the channels have no slot.
DeliverMutant(q, what) == /\ fly[q] = "doing" /\ pc[q] = "call"
                          /\ fly' = [fly EXCEPT ![q] = "over"]
                          /\ box' = [box EXCEPT ![q] = what]

\* The goroutine of the call puts its result into a channel and ends.
Deliver(q, what) == /\ fly[q] = "doing"
                    /\ fly' = [fly EXCEPT ![q] = "over"]
                    /\ box' = [box EXCEPT ![q] = what]

\* client.Do returns the head of the response.
DoAnswers(q) == /\ up[q] = "acted"
                /\ Deliver(q, "response")
                /\ UNCHANGED <<server, handler, left, up, before>>

\* client.Do returns an error: no connection, a broken one, its timeout, or a
\* cancelled context.
DoFails(q) == /\ Deliver(q, "error")
              /\ UNCHANGED <<server, handler, left, up, before>>

\* The select takes the response; what it does next is to read its body.
TakeResponse(q) == /\ pc[q] = "call" /\ box[q] = "response"
                   /\ pc' = [pc EXCEPT ![q] = "read"]
                   /\ box' = [box EXCEPT ![q] = "empty"]
                   /\ UNCHANGED <<server, kind, age, gone, answer, fly, left, up, before>>

\* Mutant of TakeError: the handler does not look at the error.
TakeErrorMutant(q) == /\ pc[q] = "call" /\ box[q] = "error"
                      /\ JSON(q, "relay")
                      /\ box' = [box EXCEPT ![q] = "empty"]
                      /\ UNCHANGED <<server, kind, age, gone, fly, left, up, before>>

\* The select takes the error.
TakeError(q) == /\ pc[q] = "call" /\ box[q] = "error"
                /\ JSON(q, "500")
                /\ box' = [box EXCEPT ![q] = "empty"]
                /\ UNCHANGED <<server, kind, age, gone, fly, left, up, before>>

\* The select takes ctx.Done, which may be ready together with a channel.
TakeDone(q) == /\ pc[q] = "call" /\ q \in gone
               /\ JSON(q, "500")
               /\ UNCHANGED <<server, kind, age, gone, caller, before>>

\* The body has been read: status and body are relayed.
ReadAll(q) == /\ pc[q] = "read"
              /\ JSON(q, "relay")
              /\ UNCHANGED <<server, kind, age, gone, caller, before>>

\* Mutant of ReadFails: the handler answers with the empty response of Call.
ReadFailsMutant(q) == /\ pc[q] = "read"
                      /\ JSON(q, "0")
                      /\ UNCHANGED <<server, kind, age, gone, caller, before>>

\* Reading the body fails, for the reasons of DoFails.
ReadFails(q) == /\ pc[q] = "read"
                /\ JSON(q, "500")
                /\ UNCHANGED <<server, kind, age, gone, caller, before>>

-----------------------------------------------------------------------------
(* Time.                                                                   *)

\* Mutant of CallDue: the client has no timeout.
CallDueMutant(q) == q \in gone

\* The deadline of the call is over or its context is.
CallDue(q) == left[q] = 0 \/ q \in gone

\* Whoever waits for the call of q has time left.
CallDueInTime(q) == fly[q] = "doing" \/ pc[q] = "read" => ~CallDue(q)

\* Nobody is due, so that time may pass.
Quiet == /\ \A q \in Req : /\ ~BodyDue(q)
                           /\ CallDueInTime(q)
                           /\ pc[q] = "call" => fly[q] = "doing"
         /\ main = "listen" => sig \in {"off", "wait"}
         /\ sig = "drain" => grace > 0
         /\ ~(main = "await" /\ sig = "send")

\* A second passes.
Tick == /\ main # "exit" /\ Quiet
        /\ age' = [q \in Req |-> IF pc[q] \in Busy /\ age[q] < WriteTimeout
                                 THEN age[q] + 1 ELSE age[q]]
        /\ left' = [q \in Req |-> IF (fly[q] = "doing" \/ pc[q] = "read") /\ left[q] > 0
                                  THEN left[q] - 1 ELSE left[q]]
        /\ grace' = IF sig = "drain" THEN grace - 1 ELSE grace
        /\ UNCHANGED <<main, sig, result, kind, pc, gone, answer, fly, box, up, before>>

-----------------------------------------------------------------------------
Lifecycle == Notify \/ Signal \/ Listen \/ ListenerCloses \/ ShutdownReturns \/ RunReturns

Client(q) == Connect(q) \/ Accept(q) \/ BodyBreaks(q) \/ ClientLeaves(q)

Handle(q) == \/ Reject(q) \/ LogInput(q) \/ Verify(q) \/ Health(q) \/ Published(q)
             \/ TakeResponse(q) \/ TakeError(q) \/ TakeDone(q) \/ ReadAll(q) \/ ReadFails(q)

Call(q) == Sent(q) \/ Acts(q) \/ DoAnswers(q) \/ DoFails(q)

Next == Lifecycle \/ Tick \/ \E q \in Req : Client(q) \/ Handle(q) \/ Call(q)

Spec == Init /\ [][Next]_vars

(* The runtime runs goroutines that can run; time passes; net/http enforces its *)
(* timeouts.  Nothing is assumed of clients, user-service, Kafka or signals.    *)
LifecycleFairness == /\ WF_vars(Notify) /\ WF_vars(Listen) /\ WF_vars(ListenerCloses)
                     /\ WF_vars(ShutdownReturns) /\ WF_vars(RunReturns) /\ WF_vars(Tick)

HandlerFairness(q) ==
  /\ WF_vars(Reject(q) \/ Health(q))
  /\ WF_vars(BodyDue(q) /\ BodyBreaks(q))
  /\ WF_vars(TakeResponse(q) \/ TakeError(q) \/ TakeDone(q))
  /\ WF_vars(CallDue(q) /\ DoFails(q))
  /\ WF_vars(CallDue(q) /\ ReadFails(q))

FairSpec == Spec /\ LifecycleFairness /\ \A q \in Req : HandlerFairness(q)

-----------------------------------------------------------------------------
(* Properties.                                                             *)

TypeOK ==
  /\ main \in {"start", "listen", "await", "exit"}
  /\ sig \in {"off", "wait", "drain", "send"}
  /\ result \in {"none", "nil", "deadline"}
  /\ grace \in 0..Grace
  /\ kind \in [Req -> Kind]
  /\ pc \in [Req -> {"none", "open", "over"} \union Busy]
  /\ age \in [Req -> 0..WriteTimeout]
  /\ gone \subseteq Req
  /\ answer \in [Req -> {"none", "400", "500", "200", "relay", "aborted", "lost", "late", "cut"}]
  /\ fly \in [Req -> {"none", "doing", "over"}]
  /\ box \in [Req -> {"empty", "response", "error"}]
  /\ left \in [Req -> 0..CallTimeout]
  /\ up \in [Req -> {"unsent", "sent", "acted"}]
  /\ before \subseteq Req

\* What is answered is true of user-service (Call, the checks before it in Verify and
\* the one after it): a relayed answer was given by it, and a request that was
\* refused or crashed its handler has never left the gateway.
AnswerTells == \A q \in Req : /\ answer[q] = "relay" => up[q] = "acted"
                              /\ answer[q] \in {"400", "aborted"} => up[q] = "unsent"

\* Run waits for Shutdown although ListenAndServe returns first: requests are cut
\* only when the 5 seconds are over, or by a signal before signal.Notify.
CutOnlyByDeadline == \A q \in Req : answer[q] = "cut" => result = "deadline" \/ sig = "off"

\* A call under way when the signal comes always ends in an answer: its timeout of
\* 1 second is shorter than the 5 seconds of Shutdown.
CallsSurviveStop == \A q \in before : answer[q] # "cut"

\* Of the requests for user-service none is answered after the server's write
\* deadline, which net/http would drop: reading and calling end before it.
NeverLate == \A q \in Req : answer[q] = "late" => kind[q] = "health"

\* Every request but a health check, whose answer waits for Kafka, comes to an end
\* even if user-service and the client are silent.
EveryRequestEnds == \A q \in Req : pc[q] \in Busy /\ kind[q] # "health" ~> pc[q] = "over"

\* Once Shutdown has begun the process ends, whatever the requests do.
StopsWhenTold == sig = "drain" ~> main = "exit"

\* The goroutine of a call ends also when nobody takes its result any more: the
\* channels have a slot.
CallsEnd == \A q \in Req : fly[q] = "doing" ~> fly[q] = "over"

\* client.http registers, logs in and takes the tokens from the answer: no
\* well-formed request should be aborted by its handler.
WellFormedAnswered == \A q \in Req : answer[q] # "aborted"

-----------------------------------------------------------------------------
(* The promise of GracefulServer, kept by Run, Shutdown and net/http together. *)

stopPhase == IF main = "exit" THEN "down" ELSE IF sig \in {"drain", "send"} THEN "stopping" ELSE "up"

stopState == [q \in Req |-> IF pc[q] = "none" THEN "away"
                              ELSE IF pc[q] = "open" THEN "open"
                              ELSE IF pc[q] \in Busy THEN "busy"
                              ELSE IF answer[q] = "cut" THEN "cut" ELSE "gone"]

Stopping == INSTANCE GracefulServer WITH Guest <- Req, Abrupt <- TRUE, phase <- stopPhase,
                                         elapsed <- Grace - grace, state <- stopState

\* Although ListenAndServe returns at once, requests begin while Shutdown waits and
\* three goroutines hand on the end: the process lets nobody in after the signal, ends
\* with nobody at work or when exactly the 5 seconds are over, and cuts off only then,
\* or by a signal before signal.Notify.
ImplementsStop == Stopping!Spec
=============================================================================
