--------------------------- MODULE UserLog_proofs ---------------------------
(***************************************************************************)
(* Proofs about UserLog, for any number of requests and calls.  A log is   *)
(* changed only by the operators of DetailLog and the wrappers, so there   *)
(* is a lemma for each, and a step of a request then is a composition.     *)
(***************************************************************************)
EXTENDS UserLog, SequenceTheorems, TLAPS

Body == {"object", "text"}
Log == [events : Seq(Event), written : Seq(Event), added : Seq(Event),
        wrapped : BOOLEAN, summaries : Seq(Body), sent : {0, 1}]

\* A log that has lost nothing and written nothing twice.
Kept(l) == l \in Log /\ l.written \o l.events = l.added

\* One whose answer is still to come.
Open(l) == Kept(l) /\ l.sent = 0 /\ l.summaries = <<>>

\* One whose answer was sent, with these summaries.
Closed(l, summaries) == Kept(l) /\ l.sent = 1 /\ l.events = <<>> /\ l.summaries = summaries

-----------------------------------------------------------------------------
(* The operators *)

\* Adding events keeps a log (addEvent, addEventWithMark).
LEMMA AddKept == ASSUME NEW l, Kept(l), NEW es \in Seq(Event)
                 PROVE  /\ Kept(Add(l, es)) /\ Add(l, es).sent = l.sent
                        /\ Add(l, es).summaries = l.summaries /\ Add(l, es).wrapped = l.wrapped
<1>1. PICK e \in Seq(Event), w \in Seq(Event), a \in Seq(Event) :
         e = l.events /\ w = l.written /\ a = l.added /\ w \o e = a
  BY DEF Kept, Log
<1>2. Add(l, es) = [l EXCEPT !.events = e \o es, !.added = a \o es]
  BY <1>1 DEF Add
<1>3. e \o es \in Seq(Event) /\ a \o es \in Seq(Event)
  BY <1>1
<1>4. w \o (e \o es) = a \o es
  <2>1. (w \o e) \o es = w \o (e \o es)
    BY ConcatAssociative
  <2> QED
    BY <1>1, <2>1
<1>5. /\ Add(l, es).events = e \o es /\ Add(l, es).added = a \o es /\ Add(l, es).written = w
      /\ Add(l, es).sent = l.sent /\ Add(l, es).summaries = l.summaries /\ Add(l, es).wrapped = l.wrapped
  BY <1>1, <1>2 DEF Kept, Log
<1>6. Add(l, es) \in Log
  <2>1. l \in Log
    BY DEF Kept
  <2> QED
    BY <1>2, <1>3, <2>1 DEF Log
<1> QED
  BY <1>4, <1>5, <1>6 DEF Kept

\* Ending a log keeps it and leaves no event behind (end, withEnd).
LEMMA EndKept == ASSUME NEW l, Kept(l)
                 PROVE  /\ Kept(End(l)) /\ End(l).events = <<>> /\ End(l).sent = l.sent
                        /\ End(l).summaries = l.summaries /\ End(l).wrapped = l.wrapped
<1>1. PICK e \in Seq(Event), w \in Seq(Event), a \in Seq(Event) :
         e = l.events /\ w = l.written /\ a = l.added /\ w \o e = a
  BY DEF Kept, Log
<1>2. End(l) = [l EXCEPT !.written = a, !.events = <<>>]
  BY <1>1 DEF End
<1>3. /\ End(l).events = <<>> /\ End(l).added = a /\ End(l).written = a
      /\ End(l).sent = l.sent /\ End(l).summaries = l.summaries /\ End(l).wrapped = l.wrapped
  BY <1>1, <1>2 DEF Kept, Log
<1>4. End(l) \in Log
  <2>1. l \in Log /\ a \in Seq(Event) /\ <<>> \in Seq(Event)
    BY <1>1 DEF Kept
  <2> QED
    BY <1>2, <2>1 DEF Log
<1>5. a \o <<>> = a
  BY <1>1, ConcatEmptySeq
<1> QED
  BY <1>3, <1>4, <1>5 DEF Kept

\* So does a wrapper of DetailLog (wrapResponseMethods).
LEMMA FlushKept == ASSUME NEW l, Kept(l)
                   PROVE  /\ Kept(Flush(l)) /\ Flush(l).events = <<>> /\ Flush(l).sent = l.sent
                          /\ Flush(l).summaries = l.summaries /\ Flush(l).wrapped = l.wrapped
  BY EndKept DEF Flush

\* The middleware's wrapper adds a summary, once it is in place (toSummaryLog).
LEMMA SummariseKept ==
  ASSUME NEW l, Kept(l), NEW b \in Body
  PROVE  /\ Kept(Summarise(l, b)) /\ Summarise(l, b).sent = l.sent
         /\ Summarise(l, b).summaries = IF l.wrapped THEN Append(l.summaries, b) ELSE l.summaries
         /\ Summarise(l, b).wrapped = l.wrapped
<1>1. CASE l.wrapped
  <2>1. Summarise(l, b) = [l EXCEPT !.summaries = Append(l.summaries, b)]
    BY <1>1 DEF Summarise
  <2>2. Append(l.summaries, b) \in Seq(Body)
    BY DEF Kept, Log
  <2> QED
    BY <1>1, <2>1, <2>2 DEF Kept, Log
<1>2. CASE ~l.wrapped
  BY <1>2 DEF Summarise
<1> QED
  BY <1>1, <1>2

\* res.send of a text is one answer, and leaves no event behind.
LEMMA SendTextKept ==
  ASSUME NEW l, Kept(l), l.sent = 0
  PROVE  Closed(SendText(l), IF l.wrapped THEN Append(l.summaries, "text") ELSE l.summaries)
<1> DEFINE f == Flush(Summarise(l, "text"))
<1>1. /\ Kept(f) /\ f.events = <<>> /\ f.sent = 0
      /\ f.summaries = IF l.wrapped THEN Append(l.summaries, "text") ELSE l.summaries
  BY SummariseKept, FlushKept DEF Body
<1>2. SendText(l) = [f EXCEPT !.sent = 1]
  BY <1>1 DEF SendText
<1> HIDE DEF f
<1>3. /\ SendText(l).written = f.written /\ SendText(l).events = f.events /\ SendText(l).added = f.added
      /\ SendText(l).summaries = f.summaries /\ SendText(l).sent = 1 /\ SendText(l) \in Log
  BY <1>1, <1>2 DEF Kept, Log
<1> QED
  BY <1>1, <1>3 DEF Closed, Kept

\* res.json leaves one summary, or none before the middleware has gone on.
LEMMA JsonCloses == ASSUME NEW l, Open(l)
                    PROVE  Closed(Json(l), IF l.wrapped THEN <<"text">> ELSE <<>>)
<1>1. Kept(Flush(l)) /\ Flush(l).sent = 0 /\ Flush(l).summaries = <<>> /\ Flush(l).wrapped = l.wrapped
  BY FlushKept DEF Open
<1>2. Closed(Json(l), IF l.wrapped THEN Append(<<>>, "text") ELSE <<>>)
  BY <1>1, SendTextKept DEF Json
<1> QED
  BY <1>2

\* The summaries of an object: that of send, then that of the text.
LEMMA TwoBodies == Append(<<"object">>, "text") = <<"object", "text">>
<1> DEFINE a == Append(<<"object">>, "text")
           b == <<"object", "text">>
<1>1. /\ <<"object">> \in Seq(Body) /\ Len(<<"object">>) = 1
      /\ <<"object">>[1] = "object" /\ "text" \in Body
  BY DEF Body
<1>2. a \in Seq(Body) /\ Len(a) = 2 /\ a[2] = "text"
  BY <1>1, AppendProperties
<1>3. a[1] = "object"
  BY <1>1, AppendProperties
<1>4. b \in Seq(Body) /\ Len(b) = 2 /\ b[1] = "object" /\ b[2] = "text"
  BY DEF Body
<1>5. \A i \in 1..Len(a) : i = 1 \/ i = 2
  BY <1>2
<1> HIDE DEF a, b
<1>6. \A i \in 1..Len(a) : a[i] = b[i]
  BY <1>2, <1>3, <1>4, <1>5
<1>7. a = b
  BY <1>2, <1>4, <1>6, SeqEqual
<1> QED
  BY <1>7 DEF a, b

\* res.send of an object leaves two, or none.
LEMMA SendObjectCloses == ASSUME NEW l, Open(l)
                          PROVE  Closed(SendObject(l), IF l.wrapped THEN <<"object", "text">> ELSE <<>>)
<1> DEFINE s == Summarise(l, "object")
           f == Flush(Flush(s))
<1>1. /\ Kept(s) /\ s.sent = 0 /\ s.wrapped = l.wrapped
      /\ s.summaries = IF l.wrapped THEN Append(<<>>, "object") ELSE <<>>
  BY SummariseKept DEF Body, Open
<1> HIDE DEF s
<1>2. /\ Kept(Flush(s)) /\ Flush(s).sent = 0 /\ Flush(s).wrapped = l.wrapped
      /\ Flush(s).summaries = s.summaries
  BY <1>1, FlushKept
<1>3. Kept(f) /\ f.sent = 0 /\ f.wrapped = l.wrapped /\ f.summaries = s.summaries
  BY <1>2, FlushKept
<1>4. SendObject(l) = SendText(f)
  BY DEF SendObject, Json, s
<1> HIDE DEF f
<1>5. Closed(SendText(f), IF l.wrapped THEN Append(s.summaries, "text") ELSE s.summaries)
  BY <1>3, SendTextKept
<1>6. Append(<<"object">>, "text") = <<"object", "text">> /\ Append(<<>>, "object") = <<"object">>
  BY TwoBodies
<1>7. CASE l.wrapped
  BY <1>1, <1>4, <1>5, <1>6, <1>7
<1>8. CASE ~l.wrapped
  BY <1>1, <1>4, <1>5, <1>8
<1> QED
  BY <1>7, <1>8

\* A log can still be wrapped, and a wrapped one is one that was kept.
LEMMA WrapKept ==
  ASSUME NEW l, Kept(l)
  PROVE  /\ Kept(Wrap(l)) /\ Wrap(l).events = l.events /\ Wrap(l).sent = l.sent
         /\ Wrap(l).summaries = l.summaries /\ Wrap(l).wrapped
<1>1. l \in Log /\ l.written \o l.events = l.added
  BY DEF Kept
<1>2. /\ Wrap(l) \in Log /\ Wrap(l).events = l.events /\ Wrap(l).written = l.written
      /\ Wrap(l).added = l.added /\ Wrap(l).sent = l.sent
      /\ Wrap(l).summaries = l.summaries /\ Wrap(l).wrapped = TRUE
  BY <1>1 DEF Log, Wrap
<1> QED
  BY <1>1, <1>2 DEF Kept

\* The log a request begins with.
LEMMA NoLogOpen == Open(NoLog) /\ ~NoLog.wrapped
<1>1. NoLog \in Log
  <2>1. <<>> \in Seq(Event) /\ <<>> \in Seq(Body)
    OBVIOUS
  <2> QED
    BY <2>1 DEF Log, NoLog
<1>2. <<>> \in Seq(Event) /\ <<>> \o <<>> = <<>>
  BY ConcatEmptySeq
<1> QED
  BY <1>1, <1>2 DEF Open, Kept, NoLog

-----------------------------------------------------------------------------
(* The invariant *)

Running == {"service", "writes", "calling", "left"}
Ops == Service \union {"none", "malformed", "unknown", "refused", "health"}

StateTypeOK == /\ pc \in [Req -> Running \union {"new", "done"}]
               /\ op \in [Req -> Ops]
               /\ left \in [Req -> 0..HealthCalls]
               /\ late \in [Req -> BOOLEAN]
               /\ log = [r \in Req |-> log[r]]

\* What the log of a request is at each point of its handler: the wrapper is in
\* place as soon as the handler has reached an await.
LogAt(q) == /\ pc[q] = "new" => log[q] = NoLog /\ ~late[q]
            /\ pc[q] \in Running => Open(log[q]) /\ log[q].wrapped /\ ~late[q]
            /\ pc[q] = "calling" => op[q] = "health" /\ left[q] > 0
            /\ pc[q] \in {"service", "writes"} => op[q] \in Service
            /\ pc[q] = "done" =>
                 Closed(log[q], IF ~late[q] THEN <<>>
                                ELSE IF op[q] = "health" THEN <<"text">> ELSE <<"object", "text">>)

LogInv == StateTypeOK /\ \A q \in Req : LogAt(q)

\* No request has come in yet (NoLog).
LEMMA InitInv == Init => LogInv
<1> SUFFICES ASSUME Init PROVE LogInv
  OBVIOUS
<1>1. StateTypeOK
  BY HealthCallsAssumption DEF Init, StateTypeOK, Running, Ops
<1>2. \A q \in Req : LogAt(q)
  BY DEF Init, LogAt, Running
<1> QED
  BY <1>1, <1>2 DEF LogInv

\* What a step of a request gives its variables.
Gives(q, p, o, n, l, t) == /\ pc' = [pc EXCEPT ![q] = p]
                           /\ op' = [op EXCEPT ![q] = o]
                           /\ left' = [left EXCEPT ![q] = n]
                           /\ log' = [log EXCEPT ![q] = l]
                           /\ late' = [late EXCEPT ![q] = t]

\* The part of LogAt that tells of a request with these values.
Fits(p, o, n, l, t) ==
  /\ p \in Running => Open(l) /\ l.wrapped /\ ~t
  /\ p = "calling" => o = "health" /\ n > 0
  /\ p \in {"service", "writes"} => o \in Service
  /\ p = "done" => Closed(l, IF ~t THEN <<>> ELSE IF o = "health" THEN <<"text">> ELSE <<"object", "text">>)

\* A step of a request leaves the others alone.
LEMMA OneRequest ==
  ASSUME LogInv, NEW q \in Req, NEW p \in Running \union {"done"}, NEW o \in Ops,
         NEW n \in 0..HealthCalls, NEW l, NEW t \in BOOLEAN,
         Gives(q, p, o, n, l, t), Fits(p, o, n, l, t)
  PROVE  LogInv'
<1>1. StateTypeOK /\ \A r \in Req : LogAt(r)
  BY DEF LogInv
<1>2. StateTypeOK'
  BY <1>1 DEF StateTypeOK, Gives
<1>3. ASSUME NEW r \in Req PROVE LogAt(r)'
  <2>1. CASE r = q
    <3>1. pc'[r] = p /\ op'[r] = o /\ left'[r] = n /\ log'[r] = l /\ late'[r] = t
      BY <1>1, <2>1 DEF StateTypeOK, Gives
    <3>2. p # "new"
      BY DEF Running
    <3> QED
      BY <3>1, <3>2 DEF LogAt, Fits
  <2>2. CASE r # q
    <3>1. pc'[r] = pc[r] /\ op'[r] = op[r] /\ left'[r] = left[r] /\ log'[r] = log[r] /\ late'[r] = late[r]
      BY <1>1, <2>2 DEF StateTypeOK, Gives
    <3>2. LogAt(r)
      BY <1>1
    <3> QED
      BY <3>1, <3>2 DEF LogAt
  <2> QED
    BY <2>1, <2>2
<1> QED
  BY <1>2, <1>3 DEF LogInv

\* What is left alone is given the value it has.
LEMMA Same == ASSUME StateTypeOK, NEW q \in Req
              PROVE  /\ pc = [pc EXCEPT ![q] = pc[q]] /\ op = [op EXCEPT ![q] = op[q]]
                     /\ left = [left EXCEPT ![q] = left[q]] /\ late = [late EXCEPT ![q] = late[q]]
                     /\ log = [log EXCEPT ![q] = log[q]]
                     /\ pc[q] \in Running \union {"new", "done"} /\ op[q] \in Ops
                     /\ left[q] \in 0..HealthCalls /\ late[q] \in BOOLEAN
  BY DEF StateTypeOK

-----------------------------------------------------------------------------
(* The steps *)

\* A request that comes in, up to its first await or its answer.
LEMMA ArriveInv == ASSUME LogInv, NEW q \in Req, Arrive(q) PROVE LogInv'
<1>0. StateTypeOK /\ LogAt(q) /\ pc[q] = "new"
  BY DEF LogInv, Arrive, Malformed, AnswerAtOnce, Health, Handler, Receive
<1>1. ~late[q] /\ late[q] \in BOOLEAN /\ left[q] \in 0..HealthCalls
  BY <1>0, Same DEF LogAt
<1>2. CASE Malformed(q)
  <2>1. Closed(SendObject(NoLog), <<>>)
    BY NoLogOpen, SendObjectCloses
  <2>2. Fits("done", "malformed", left[q], SendObject(NoLog), late[q])
    BY <1>1, <2>1 DEF Fits, Running
  <2>3. Gives(q, "done", "malformed", left[q], SendObject(NoLog), late[q])
    BY <1>0, <1>2, Same DEF Malformed, Receive, Gives
  <2> QED
    BY <1>1, <2>2, <2>3, OneRequest DEF Ops
<1>3. CASE AnswerAtOnce(q)
  <2>1. Closed(Json(NoLog), <<>>)
    BY NoLogOpen, JsonCloses
  <2>2. Closed(Wrap(Json(NoLog)), <<>>)
    BY <2>1, WrapKept DEF Closed
  <2>3. PICK what \in {"unknown", "refused"} : Receive(q, what, "done", Wrap(Json(NoLog)))
    BY <1>3 DEF AnswerAtOnce
  <2>4. Fits("done", what, left[q], Wrap(Json(NoLog)), late[q])
    BY <1>1, <2>2 DEF Fits, Running
  <2>5. Gives(q, "done", what, left[q], Wrap(Json(NoLog)), late[q])
    BY <1>0, <1>3, <2>3, Same DEF AnswerAtOnce, Receive, Gives
  <2> QED
    BY <1>1, <2>4, <2>5, OneRequest DEF Ops
<1>4. CASE Health(q)
  <2>1. Open(Wrap(NoLog)) /\ Wrap(NoLog).wrapped
    BY NoLogOpen, WrapKept DEF Open
  <2>2. HealthCalls \in 0..HealthCalls /\ HealthCalls > 0
    BY HealthCallsAssumption
  <2>3. Fits("calling", "health", HealthCalls, Wrap(NoLog), late[q])
    BY <1>1, <2>1, <2>2 DEF Fits, Running
  <2>4. Gives(q, "calling", "health", HealthCalls, Wrap(NoLog), late[q])
    BY <1>0, <1>4, Same DEF Health, Receive, Gives
  <2> QED
    BY <1>1, <2>2, <2>3, <2>4, OneRequest DEF Ops, Running
<1>5. CASE Handler(q)
  <2> DEFINE es == <<"client.request.input", "controller.input", "service.input">>
             l == Wrap(Add(NoLog, es))
  <2>1. es \in Seq(Event)
    BY DEF Event
  <2>2. PICK what \in Service : Receive(q, what, "service", l)
    BY <1>5 DEF Handler
  <2>3. Gives(q, "service", what, left[q], l, late[q])
    BY <1>0, <1>5, <2>2, Same DEF Handler, Receive, Gives
  <2> HIDE DEF es
  <2>4. Open(Add(NoLog, es))
    BY <2>1, NoLogOpen, AddKept DEF Open
  <2>5. Open(l) /\ l.wrapped
    BY <2>4, WrapKept DEF Open
  <2>6. Fits("service", what, left[q], l, late[q])
    BY <1>1, <2>5 DEF Fits, Running
  <2> QED
    BY <1>1, <2>3, <2>6, OneRequest DEF Ops, Running
<1> QED
  BY <1>2, <1>3, <1>4, <1>5 DEF Arrive

\* An answer of the router leaves two summaries and no event behind.
LEMMA ReplyInv ==
  ASSUME LogInv, NEW q \in Req, pc[q] \in {"service", "writes"},
         NEW l, Open(l), l.wrapped, Reply(q, l)
  PROVE  LogInv'
<1>0. StateTypeOK /\ LogAt(q)
  BY DEF LogInv
<1>1. op[q] \in Service /\ op[q] \in Ops /\ left[q] \in 0..HealthCalls
  BY <1>0, Same DEF LogAt
<1> DEFINE es == <<"client.request.output">>
           a == Add(l, es)
<1>2. es \in Seq(Event)
  BY DEF Event
<1>3. Gives(q, "done", op[q], left[q], SendObject(a), TRUE)
  BY <1>0, Same DEF Reply, Gives
<1> HIDE DEF es
<1>4. Open(a) /\ a.wrapped
  BY <1>2, AddKept DEF Open
<1> HIDE DEF a
<1>5. Closed(SendObject(a), <<"object", "text">>)
  BY <1>4, SendObjectCloses
<1>6. op[q] # "health"
  BY <1>1 DEF Service
<1>7. Fits("done", op[q], left[q], SendObject(a), TRUE)
  BY <1>5, <1>6 DEF Fits, Running
<1> QED
  BY <1>1, <1>3, <1>7, OneRequest

\* Adding events and ending the log leaves an answer to come (addEvent, end).
LEMMA AddOpen == ASSUME NEW l, Open(l), l.wrapped, NEW es \in Seq(Event)
                 PROVE  Open(Add(l, es)) /\ Add(l, es).wrapped
  BY AddKept DEF Open

\* The same of the end of a log (end, withEnd).
LEMMA EndOpen == ASSUME NEW l, Open(l), l.wrapped
                 PROVE  Open(End(l)) /\ End(l).wrapped
  BY EndKept DEF Open

\* A request that goes on behind an await: customer-service or MongoDB has
\* answered, or has failed.
LEMMA ProceedInv == ASSUME LogInv, NEW q \in Req, Proceed(q) PROVE LogInv'
<1>0. StateTypeOK /\ LogAt(q) /\ pc[q] \in Running
  BY DEF LogInv, Proceed, Call, Operate, CallReturns, CallFails, Succeed, Matched, Written, Deny, Fail, Running
<1>1. /\ Open(log[q]) /\ log[q].wrapped /\ ~late[q]
      /\ late[q] \in BOOLEAN /\ left[q] \in 0..HealthCalls /\ op[q] \in Ops
  BY <1>0, Same DEF LogAt
<1>2. CASE CallReturns(q)
  <2>1. op[q] = "health" /\ left[q] > 0 /\ pc[q] = "calling" /\ left[q] - 1 \in 0..HealthCalls
    BY <1>0, <1>1, <1>2, HealthCallsAssumption DEF LogAt, CallReturns
  <2>2. CASE left[q] > 1
    <3>1. Gives(q, "calling", "health", left[q] - 1, log[q], late[q])
      <4>1. log' = [log EXCEPT ![q] = log[q]] /\ op' = [op EXCEPT ![q] = "health"]
        BY <1>0, <1>2, <2>1, <2>2, Same DEF CallReturns, StateTypeOK
      <4> QED
        BY <1>0, <1>2, <2>1, <2>2, <4>1, Same DEF CallReturns, Gives
    <3>2. Fits("calling", "health", left[q] - 1, log[q], late[q])
      BY <1>1, <2>1, <2>2 DEF Fits
    <3> QED
      BY <1>1, <2>1, <3>1, <3>2, OneRequest DEF Ops, Running
  <2>3. CASE ~(left[q] > 1)
    <3>1. Closed(Json(log[q]), <<"text">>)
      BY <1>1, JsonCloses
    <3>2. Gives(q, "done", "health", left[q] - 1, Json(log[q]), TRUE)
      BY <1>0, <1>2, <2>1, <2>3, Same DEF CallReturns, Gives
    <3>3. Fits("done", "health", left[q] - 1, Json(log[q]), TRUE)
      BY <3>1 DEF Fits, Running
    <3> QED
      BY <2>1, <3>2, <3>3, OneRequest DEF Ops
  <2> QED
    BY <2>2, <2>3
<1>3. CASE CallFails(q)
  <2>1. Gives(q, "left", op[q], left[q], log[q], late[q])
    BY <1>0, <1>3, Same DEF CallFails, Gives, StateTypeOK
  <2>2. Fits("left", op[q], left[q], log[q], late[q])
    BY <1>1 DEF Fits
  <2> QED
    BY <1>1, <2>1, <2>2, OneRequest DEF Running
<1>4. CASE Succeed(q)
  <2> DEFINE es == <<"service.output", "controller.output">>
  <2>1. es \in Seq(Event)
    BY DEF Event
  <2>2. pc[q] \in {"service", "writes"} /\ Reply(q, Add(log[q], es))
    BY <1>4 DEF Succeed
  <2> HIDE DEF es
  <2>3. Open(Add(log[q], es)) /\ Add(log[q], es).wrapped
    BY <1>1, <2>1, AddOpen
  <2> QED
    BY <2>2, <2>3, ReplyInv
<1>5. CASE Matched(q)
  <2> DEFINE es == <<"service.output">>
  <2>1. es \in Seq(Event)
    BY DEF Event
  <2>2. op[q] = "login" /\ op[q] \in Service
    BY <1>5 DEF Matched, Service
  <2>3. Gives(q, "writes", op[q], left[q], Add(log[q], es), late[q])
    BY <1>0, <1>5, Same DEF Matched, Gives
  <2> HIDE DEF es
  <2>4. Open(Add(log[q], es)) /\ Add(log[q], es).wrapped
    BY <1>1, <2>1, AddOpen
  <2>5. Fits("writes", op[q], left[q], Add(log[q], es), late[q])
    BY <1>1, <2>2, <2>4 DEF Fits
  <2> QED
    BY <1>1, <2>3, <2>5, OneRequest DEF Running
<1>6. CASE Written(q)
  <2> DEFINE es == <<"controller.output">>
  <2>1. es \in Seq(Event)
    BY DEF Event
  <2>2. pc[q] \in {"service", "writes"} /\ Reply(q, Add(log[q], es))
    BY <1>6 DEF Written
  <2> HIDE DEF es
  <2>3. Open(Add(log[q], es)) /\ Add(log[q], es).wrapped
    BY <1>1, <2>1, AddOpen
  <2> QED
    BY <2>2, <2>3, ReplyInv
<1>7. CASE Deny(q)
  <2> DEFINE es == <<"service.error">>
  <2>1. es \in Seq(Event)
    BY DEF Event
  <2>2. pc[q] \in {"service", "writes"} /\ Reply(q, Add(log[q], es))
    BY <1>7 DEF Deny
  <2> HIDE DEF es
  <2>3. Open(Add(log[q], es)) /\ Add(log[q], es).wrapped
    BY <1>1, <2>1, AddOpen
  <2> QED
    BY <2>2, <2>3, ReplyInv
<1>8. CASE Fail(q)
  <2> DEFINE se == <<"service.error">>
             ce == <<"controller.error">>
             l == IF op[q] = "verify" THEN log[q] ELSE End(Add(log[q], se))
  <2>1. se \in Seq(Event) /\ ce \in Seq(Event)
    BY DEF Event
  <2>2. pc[q] \in {"service", "writes"} /\ Reply(q, End(Add(l, ce)))
    BY <1>8 DEF Fail
  <2> HIDE DEF se, ce
  <2>3. Open(Add(log[q], se)) /\ Add(log[q], se).wrapped
    BY <1>1, <2>1, AddOpen
  <2>4. Open(End(Add(log[q], se))) /\ End(Add(log[q], se)).wrapped
    BY <2>3, EndOpen
  <2>5. Open(l) /\ l.wrapped
    BY <1>1, <2>4
  <2> HIDE DEF l
  <2>6. Open(Add(l, ce)) /\ Add(l, ce).wrapped
    BY <2>1, <2>5, AddOpen
  <2>7. Open(End(Add(l, ce))) /\ End(Add(l, ce)).wrapped
    BY <2>6, EndOpen
  <2> QED
    BY <2>2, <2>7, ReplyInv
<1> QED
  BY <1>2, <1>3, <1>4, <1>5, <1>6, <1>7, <1>8 DEF Proceed, Call, Operate

\* Nothing happens once every request is over or left.
LEMMA StutterInv == ASSUME LogInv, UNCHANGED vars PROVE LogInv'
  BY DEF LogInv, StateTypeOK, LogAt, vars

-----------------------------------------------------------------------------
(* The theorems *)

\* The invariant holds from the start and every step of a request keeps it.
THEOREM Inductive == Spec => []LogInv
<1>1. LogInv /\ [Next]_vars => LogInv'
  BY ArriveInv, ProceedInv, StutterInv DEF Next, Finished
<1> QED
  BY InitInv, <1>1, PTL DEF Spec

\* What the invariant says of the log of a request, whatever its position.
LEMMA KeptAt == ASSUME LogInv, NEW q \in Req
                PROVE  Kept(log[q]) /\ log[q].summaries \in Seq(Body)
<1>1. pc[q] \in Running \union {"new", "done"} /\ LogAt(q)
  BY Same DEF LogInv
<1>2. Kept(log[q])
  BY <1>1, NoLogOpen DEF LogAt, Open, Closed
<1> QED
  BY <1>2 DEF Kept, Log

\* The types of the requests and their logs, and that Express gets one answer
\* at most although its methods are wrapped twice and call each other.
THEOREM TypeCorrect == Spec => []TypeOK
<1>1. LogInv => TypeOK
  <2> SUFFICES ASSUME LogInv PROVE TypeOK
    OBVIOUS
  <2>1. ASSUME NEW q \in Req PROVE LogTypeOK(log[q])
    <3>1. log[q] \in Log
      BY KeptAt DEF Kept
    <3> QED
      BY <3>1 DEF Log, LogTypeOK, Body
  <2> QED
    BY <2>1 DEF TypeOK, LogInv, StateTypeOK, Running, Ops
<1> QED
  BY <1>1, Inductive, PTL

\* For any number of requests: no event is lost or written twice, and which
\* summaries an answer leaves follows from when it was given.
THEOREM TellsAll == Spec => []LogsTellAll
<1>1. LogInv => LogsTellAll
  <2> SUFFICES ASSUME LogInv PROVE LogsTellAll
    OBVIOUS
  <2>1. EventsWritten
    BY KeptAt DEF EventsWritten, Kept, LogInv, LogAt, Closed
  <2>2. SummaryOfLateAnswers
    BY DEF SummaryOfLateAnswers, LogInv, LogAt, Closed
  <2> QED
    BY <2>1, <2>2 DEF LogsTellAll
<1> QED
  BY <1>1, Inductive, PTL

-----------------------------------------------------------------------------
(* Who is left without an answer *)

\* Only a health check can be left.
LeftHealth == \A q \in Req : pc[q] = "left" => op[q] = "health"

\* A request is answered when its handler is through, and not before, and one whose
\* handler has given up is a health check (catchAsync and the handlers behind it).
LeftAreHealthChecks ==
  \A q \in Req : /\ log[q].sent = IF pc[q] = "done" THEN 1 ELSE 0
                 /\ pc[q] = "left" => op[q] = "health"

\* A handler gives up in CallFails alone: the errors of the user routes are all
\* caught, whichever await they come from.
LEMMA LeftKept == LogInv /\ LeftHealth /\ [Next]_vars => LeftHealth'
<1> SUFFICES ASSUME LogInv, LeftHealth, [Next]_vars, NEW k \in Req, pc'[k] = "left"
             PROVE  op'[k] = "health"
  BY DEF LeftHealth
<1>0. StateTypeOK /\ LogAt(k)
  BY DEF LogInv
<1> USE <1>0 DEF StateTypeOK, LeftHealth
<1>1. ASSUME NEW q \in Req, Arrive(q) PROVE op'[k] = "health"
  BY <1>1 DEF Arrive, Malformed, AnswerAtOnce, Health, Handler, Receive
<1>2. ASSUME NEW q \in Req, CallReturns(q) \/ CallFails(q) PROVE op'[k] = "health"
  BY <1>2 DEF CallReturns, CallFails, LogAt
<1>3. ASSUME NEW q \in Req, Succeed(q) \/ Matched(q) \/ Written(q) \/ Deny(q) \/ Fail(q)
      PROVE  op'[k] = "health"
  BY <1>3 DEF Succeed, Matched, Written, Deny, Fail, Reply
<1>4. CASE UNCHANGED vars
  BY <1>4 DEF vars
<1> QED
  BY <1>1, <1>2, <1>3, <1>4 DEF Next, Finished, Proceed, Call, Operate

\* For any number of requests and of calls a health check makes: no request of
\* a user is ever left without an answer, and none is answered before its end.
THEOREM OnlyHealthIsLeft == Spec => []LeftAreHealthChecks
<1>1. Init => LeftHealth
  BY DEF Init, LeftHealth
<1>2. LogInv /\ LeftHealth => LeftAreHealthChecks
  <2> SUFFICES ASSUME LogInv, LeftHealth, NEW q \in Req
               PROVE  /\ log[q].sent = IF pc[q] = "done" THEN 1 ELSE 0
                      /\ pc[q] = "left" => op[q] = "health"
    BY DEF LeftAreHealthChecks
  <2>1. LogAt(q) /\ pc[q] \in Running \union {"new", "done"}
    BY DEF LogInv, StateTypeOK
  <2>2. log[q].sent = IF pc[q] = "done" THEN 1 ELSE 0
    BY <2>1, NoLogOpen DEF LogAt, Open, Closed, Running
  <2> QED
    BY <2>2 DEF LeftHealth
<1> QED
  BY <1>1, <1>2, LeftKept, Inductive, PTL DEF Spec
=============================================================================
