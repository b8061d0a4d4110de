------------------------------ MODULE UserLog -------------------------------
(***************************************************************************)
(* What user-service writes about each request: the detail log of          *)
(* logger/loggerEntry.ts and the summary of server.ts, both of which wrap  *)
(* the methods of the response, with the handlers that fill the log        *)
(* (router, controller, service) and the answers of server.ts.             *)
(*                                                                         *)
(* A handler runs up to its first await before the middleware that called  *)
(* next() goes on; an action is what runs between two awaits.  A log is a  *)
(* value, and each method an operator from a log to the next one.  What    *)
(* MongoDB does is a choice here; UserAuth models it.                      *)
(*                                                                         *)
(* Express's res.send passes an object to this.json, and json passes the   *)
(* text to this.send: both come by the wrappers again.                     *)
(***************************************************************************)
EXTENDS Integers, Sequences

CONSTANTS Req,         \* requests
          HealthCalls  \* calls /healthz makes to port 8080, 10000

ASSUME HealthCallsAssumption == HealthCalls \in Nat \ {0}

VARIABLES
  pc,    \* where a request's handler is
  op,    \* what the request asks for
  left,  \* the calls /healthz has still to make
  log,   \* its logs and its response, see NoLog
  late   \* history: whether it was answered after the middleware went on

vars == <<pc, op, left, log, late>>

Service == {"register", "login", "verify"}
Event == {"client.request.input", "client.request.output", "controller.input", "controller.output",
          "controller.error", "service.input", "service.output", "service.error"}

\* events: those in memory; written: those in records, in order; added: history,
\* all of them; wrapped: the middleware has wrapped res.send; summaries: the
\* output of each, an object or a text; sent: answers Express got.
NoLog == [events |-> <<>>, written |-> <<>>, added |-> <<>>, wrapped |-> FALSE, summaries |-> <<>>, sent |-> 0]

Init == /\ pc = [q \in Req |-> "new"]
        /\ op = [q \in Req |-> "none"]
        /\ left = [q \in Req |-> 0]
        /\ log = [q \in Req |-> NoLog]
        /\ late = [q \in Req |-> FALSE]

-----------------------------------------------------------------------------
(* DetailLog and the wrappers *)

\* addEvent and addEventWithMark, for several events in a row.
Add(l, es) == [l EXCEPT !.events = @ \o es, !.added = @ \o es]

\* Mutant of End: the events stay, to be written again.
EndMutant(l) == [l EXCEPT !.written = @ \o l.events]

\* end and withEnd: a record of the events so far; the next one starts empty.
End(l) == [l EXCEPT !.written = @ \o l.events, !.events = <<>>]

\* The wrappers of DetailLog: a record, if there are events.
Flush(l) == IF l.events = <<>> THEN l ELSE End(l)

\* The wrapper of the middleware, once it is there: toSummaryLog.
Summarise(l, body) == IF l.wrapped THEN [l EXCEPT !.summaries = Append(@, body)] ELSE l

\* res.send of a text.
SendText(l) == LET f == Flush(Summarise(l, "text")) IN [f EXCEPT !.sent = @ + 1]

\* res.json, and res.send of an object.
Json(l) == SendText(Flush(l))

\* Mutant of SendObject: the wrapper also sends the text itself.
SendObjectMutant(l) == Json(SendText(Summarise(l, "object")))

SendObject(l) == Json(Flush(Summarise(l, "object")))

\* The middleware goes on after next() and wraps res.send.
Wrap(l) == [l EXCEPT !.wrapped = TRUE]

-----------------------------------------------------------------------------
(* server.ts *)

Receive(q, what, to, l) == /\ pc[q] = "new"
                           /\ pc' = [pc EXCEPT ![q] = to]
                           /\ op' = [op EXCEPT ![q] = what]
                           /\ log' = [log EXCEPT ![q] = l]

\* The body cannot be parsed: the error handler, past the middleware.
Malformed(q) == Receive(q, "malformed", "done", SendObject(NoLog)) /\ UNCHANGED <<left, late>>

\* Answered before next() returns: an unknown URL, and a body that its route's
\* schema refuses (handleError, before the handler makes a DetailLog).
AnswerAtOnce(q) == /\ \E what \in {"unknown", "refused"} : Receive(q, what, "done", Wrap(Json(NoLog)))
                   /\ UNCHANGED <<left, late>>

\* The first /healthz; the second is never reached.
Health(q) == /\ Receive(q, "health", "calling", Wrap(NoLog))
             /\ left' = [left EXCEPT ![q] = HealthCalls]
             /\ UNCHANGED late

\* A call to port 8080 returns; the last one is followed by the answer.
CallReturns(q) == /\ pc[q] = "calling"
                  /\ left' = [left EXCEPT ![q] = @ - 1]
                  /\ IF left[q] > 1
                     THEN UNCHANGED <<pc, log, late>>
                     ELSE /\ pc' = [pc EXCEPT ![q] = "done"]
                          /\ log' = [log EXCEPT ![q] = Json(@)]
                          /\ late' = [late EXCEPT ![q] = TRUE]
                  /\ UNCHANGED op

\* It fails: nothing catches the rejection, index.ts logs it, and the request is left
\* without an answer.  (One that never ends, as there is no timeout, is no step.)
CallFails(q) == /\ pc[q] = "calling"
                /\ pc' = [pc EXCEPT ![q] = "left"]
                /\ UNCHANGED <<op, left, log, late>>

-----------------------------------------------------------------------------
(* The user routes *)

\* Router, controller and service log their input, up to the first await.
Handler(q) == /\ \E what \in Service :
                   Receive(q, what, "service", Wrap(Add(NoLog,
                     <<"client.request.input", "controller.input", "service.input">>)))
              /\ UNCHANGED <<left, late>>

\* The router logs what the controller returned and preRequest sends it.
Reply(q, l) == /\ pc' = [pc EXCEPT ![q] = "done"]
               /\ log' = [log EXCEPT ![q] = SendObject(Add(l, <<"client.request.output">>))]
               /\ late' = [late EXCEPT ![q] = TRUE]
               /\ UNCHANGED <<op, left>>

\* register and verify succeed.
Succeed(q) == /\ pc[q] = "service" /\ op[q] \in {"register", "verify"}
              /\ Reply(q, Add(log[q], <<"service.output", "controller.output">>))

\* login has found its user and sends its two writes ...
Matched(q) == /\ pc[q] = "service" /\ op[q] = "login"
              /\ pc' = [pc EXCEPT ![q] = "writes"]
              /\ log' = [log EXCEPT ![q] = Add(@, <<"service.output">>)]
              /\ UNCHANGED <<op, left, late>>

\* ... and they succeed.
Written(q) == pc[q] = "writes" /\ Reply(q, Add(log[q], <<"controller.output">>))

\* No such user, another password, a bad or unknown token: the service logs an
\* error and the controller nothing.
Deny(q) == /\ pc[q] = "service" /\ op[q] \in {"login", "verify"}
           /\ Reply(q, Add(log[q], <<"service.error">>))

\* Mutant of Fail: the controller throws again and catchAsync has no catch.
FailMutant(q) == /\ pc[q] \in {"service", "writes"}
                 /\ pc' = [pc EXCEPT ![q] = "left"]
                 /\ log' = [log EXCEPT ![q] = End(Add(@, <<"controller.error">>))]
                 /\ UNCHANGED <<op, left, late>>

\* MongoDB fails: service (not that of verify) and controller log the error and
\* end the log, each for itself.
Fail(q) ==
  /\ pc[q] \in {"service", "writes"}
  /\ LET l == IF op[q] = "verify" THEN log[q] ELSE End(Add(log[q], <<"service.error">>))
     IN  Reply(q, End(Add(l, <<"controller.error">>)))

-----------------------------------------------------------------------------

Arrive(q) == Malformed(q) \/ AnswerAtOnce(q) \/ Health(q) \/ Handler(q)

Call(q) == CallReturns(q) \/ CallFails(q)

Operate(q) == Succeed(q) \/ Matched(q) \/ Written(q) \/ Deny(q) \/ Fail(q)

Proceed(q) == Call(q) \/ Operate(q)

Finished == (\A q \in Req : pc[q] \in {"done", "left"}) /\ UNCHANGED vars

Next == (\E q \in Req : Arrive(q) \/ Proceed(q)) \/ Finished

Spec == Init /\ [][Next]_vars

\* The operations of MongoDB return or fail and the event loop goes on.  A call of
\* axios.get has no timeout and may stay without an answer for ever.
FairSpec == Spec /\ \A q \in Req : WF_vars(Operate(q))

-----------------------------------------------------------------------------
(* Properties *)

LogTypeOK(l) == /\ l.events \in Seq(Event) /\ l.written \in Seq(Event) /\ l.added \in Seq(Event)
                /\ l.wrapped \in BOOLEAN
                /\ l.summaries \in Seq({"object", "text"})
                /\ l.sent \in 0..1

\* The types of the requests and their logs; Express gets one answer at most,
\* though each res.send comes by the wrappers again and again.
TypeOK == /\ pc \in [Req -> {"new", "service", "writes", "calling", "done", "left"}]
          /\ op \in [Req -> Service \union {"none", "malformed", "unknown", "refused", "health"}]
          /\ left \in [Req -> 0..HealthCalls]
          /\ late \in [Req -> BOOLEAN]
          /\ \A q \in Req : LogTypeOK(log[q])

\* Every event goes to exactly one record, in the order they were added, and
\* none is left when the answer is sent, however often the log was ended before
\* (end, withEnd, wrapResponseMethods).
EventsWritten == \A q \in Req : /\ log[q].written \o log[q].events = log[q].added
                                /\ pc[q] = "done" => log[q].events = <<>>

\* An answer leaves a summary, the last of them with the text that was sent,
\* if and only if it was given after the middleware had wrapped res.send; one
\* that was given as an object leaves another before it.
SummaryOfLateAnswers ==
  \A q \in Req : pc[q] = "done" =>
    log[q].summaries = IF ~late[q] THEN <<>> ELSE IF op[q] = "health" THEN <<"text">> ELSE <<"object", "text">>

\* What the logs tell of an answered request (server.ts, loggerEntry.ts).
LogsTellAll == EventsWritten /\ SummaryOfLateAnswers

\* Every request is answered, whatever fails, except a health check: one of its calls
\* fails and it is left, or it waits for that same call for ever.
AnsweredUnlessHealth ==
  \A q \in Req :
    pc[q] # "new" ~> \/ log[q].sent = 1
                     \/ /\ op[q] = "health"
                        /\ \/ pc[q] = "left"
                           \/ \E n \in 1..HealthCalls : [](pc[q] = "calling" /\ left[q] = n)
=============================================================================
