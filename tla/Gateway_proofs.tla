--------------------------- MODULE Gateway_proofs ---------------------------
(***************************************************************************)
(* Proofs about Gateway, for any set of requests and any timeouts that are *)
(* ordered as TimeoutsAssumption says.  GatewayInv is inductive: besides   *)
(* what is checked it says what is true of a request at each point of its  *)
(* handler (Untouched, Settled, Truth), how much time it has used          *)
(* (InTime), and how start, stop and requests hang together (Life,         *)
(* Survives).                                                              *)
(***************************************************************************)
EXTENDS Gateway, TLAPS

\* A request that has not been handled has no call, no answer and all its time.
Untouched(q) ==
  /\ pc[q] \in {"none", "open", "body"} => fly[q] = "none" /\ left[q] = CallTimeout
  /\ pc[q] \in {"none", "open"} => age[q] = 0

\* An answer is the end of a request, and being cut off the end of the process.
Settled(q) == /\ answer[q] # "none" => pc[q] = "over"
              /\ answer[q] = "cut" => main = "exit"

\* Where user-service is when its answer is in a channel or being read.
Truth(q) ==
  /\ fly[q] = "none" => up[q] = "unsent" /\ box[q] = "empty"
  /\ box[q] = "response" \/ pc[q] = "read" => up[q] = "acted"
  /\ answer[q] \in {"400", "aborted"} => fly[q] = "none"
  /\ answer[q] = "relay" => up[q] = "acted"

\* The time a request has used and may still use stays below the write
\* deadline; a health check may miss it.
InTime(q) ==
  /\ pc[q] = "body" => age[q] <= ReadTimeout
  /\ pc[q] \in {"call", "read"} => age[q] + left[q] <= ReadTimeout + CallTimeout
  /\ pc[q] = "publish" \/ answer[q] = "late" => kind[q] = "health"

\* The signal goroutine, Run and the connections.
Life == /\ main = "start" => \A q \in Req : pc[q] = "none"
        /\ main = "exit" \/ result = "nil" => \A q \in Req : pc[q] \in {"none", "over"}
        /\ main = "await" => sig \in {"drain", "send"}
        /\ (sig = "send") <=> (result # "none")
        /\ sig \in {"off", "wait"} => grace = Grace /\ before = {}
        /\ \A q \in Req : answer[q] = "cut" => result = "deadline" \/ sig = "off"

\* A call that was under way when Shutdown began has less time left than Shutdown.
Survives(q) ==
  /\ pc[q] \in {"call", "read", "over"}
  /\ sig = "drain" /\ pc[q] # "over" => left[q] < grace
  /\ sig = "send" => pc[q] = "over"
  /\ answer[q] # "cut"

GatewayInv == /\ TypeOK /\ Life
              /\ \A q \in Req : Untouched(q) /\ Settled(q) /\ Truth(q) /\ InTime(q)
              /\ \A q \in before : Survives(q)

\* Every step keeps the types.
LEMMA TypeStep ==
  ASSUME GatewayInv, [Next]_vars
  PROVE  TypeOK'
<1> USE TimeoutsAssumption DEF GatewayInv, TypeOK, Busy, Kind, server, handler, caller
<1>1. ASSUME Notify PROVE TypeOK'
  BY <1>1 DEF Notify
<1>2. ASSUME Signal PROVE TypeOK'
  BY <1>2 DEF Signal, Exit
<1>3. ASSUME Listen PROVE TypeOK'
  BY <1>3 DEF Listen, Exit
<1>4. ASSUME ListenerCloses PROVE TypeOK'
  BY <1>4 DEF ListenerCloses
<1>5. ASSUME ShutdownReturns PROVE TypeOK'
  BY <1>5 DEF ShutdownReturns
<1>6. ASSUME RunReturns PROVE TypeOK'
  BY <1>6 DEF RunReturns, Exit
<1>7. ASSUME Tick PROVE TypeOK'
  BY <1>7 DEF Tick, Quiet, CallDueInTime, CallDue, BodyDue
<1>8. ASSUME NEW p \in Req, Connect(p) \/ Accept(p) PROVE TypeOK'
  BY <1>8 DEF Connect, Accept
<1>9. ASSUME NEW p \in Req, BodyBreaks(p) PROVE TypeOK'
  BY <1>9 DEF BodyBreaks, BodyDue
<1>10. ASSUME NEW p \in Req, ClientLeaves(p) PROVE TypeOK'
  BY <1>10 DEF ClientLeaves
<1>11. ASSUME NEW p \in Req, Reject(p) \/ LogInput(p) PROVE TypeOK'
  BY <1>11 DEF Reject, LogInput, JSON
<1>12. ASSUME NEW p \in Req, Verify(p) PROVE TypeOK'
  BY <1>12 DEF Verify
<1>13. ASSUME NEW p \in Req, Health(p) PROVE TypeOK'
  BY <1>13 DEF Health
<1>14. ASSUME NEW p \in Req, Published(p) PROVE TypeOK'
  BY <1>14 DEF Published, JSON
<1>15. ASSUME NEW p \in Req, TakeResponse(p) PROVE TypeOK'
  BY <1>15 DEF TakeResponse
<1>16. ASSUME NEW p \in Req, TakeError(p) \/ TakeDone(p) PROVE TypeOK'
  BY <1>16 DEF TakeError, TakeDone, JSON
<1>17. ASSUME NEW p \in Req, ReadAll(p) \/ ReadFails(p) PROVE TypeOK'
  BY <1>17 DEF ReadAll, ReadFails, JSON
<1>18. ASSUME NEW p \in Req, Sent(p) \/ Acts(p) PROVE TypeOK'
  BY <1>18 DEF Sent, Acts
<1>19. ASSUME NEW p \in Req, DoAnswers(p) \/ DoFails(p) PROVE TypeOK'
  BY <1>19 DEF DoAnswers, DoFails, Deliver
<1>20. ASSUME UNCHANGED vars PROVE TypeOK'
  BY <1>20 DEF vars
<1>21. QED
  BY <1>1, <1>2, <1>3, <1>4, <1>5, <1>6, <1>7, <1>8, <1>9, <1>10, <1>11, <1>12, <1>13,
     <1>14, <1>15, <1>16, <1>17, <1>18, <1>19, <1>20 DEF Next, Lifecycle, Client, Handle, Call

\* Handlers are entered once, from the beginning.
LEMMA UntouchedStep ==
  ASSUME GatewayInv, [Next]_vars
  PROVE  \A q \in Req : Untouched(q)'
<1> SUFFICES ASSUME NEW q \in Req PROVE Untouched(q)'
  OBVIOUS
<1> USE TimeoutsAssumption DEF GatewayInv, TypeOK, Busy, Kind, server, handler, caller, Untouched
<1>1. ASSUME Notify PROVE Untouched(q)'
  BY <1>1 DEF Notify
<1>2. ASSUME Signal PROVE Untouched(q)'
  BY <1>2 DEF Signal, Exit
<1>3. ASSUME Listen PROVE Untouched(q)'
  BY <1>3 DEF Listen, Exit
<1>4. ASSUME ListenerCloses PROVE Untouched(q)'
  BY <1>4 DEF ListenerCloses
<1>5. ASSUME ShutdownReturns PROVE Untouched(q)'
  BY <1>5 DEF ShutdownReturns
<1>6. ASSUME RunReturns PROVE Untouched(q)'
  BY <1>6 DEF RunReturns, Exit
<1>7. ASSUME Tick PROVE Untouched(q)'
  BY <1>7 DEF Tick, Quiet, CallDueInTime, CallDue, BodyDue
<1>8. ASSUME NEW p \in Req, Connect(p) \/ Accept(p) PROVE Untouched(q)'
  BY <1>8 DEF Connect, Accept
<1>9. ASSUME NEW p \in Req, BodyBreaks(p) PROVE Untouched(q)'
  BY <1>9 DEF BodyBreaks, BodyDue
<1>10. ASSUME NEW p \in Req, ClientLeaves(p) PROVE Untouched(q)'
  BY <1>10 DEF ClientLeaves
<1>11. ASSUME NEW p \in Req, Reject(p) \/ LogInput(p) PROVE Untouched(q)'
  BY <1>11 DEF Reject, LogInput, JSON
<1>12. ASSUME NEW p \in Req, Verify(p) PROVE Untouched(q)'
  BY <1>12 DEF Verify
<1>13. ASSUME NEW p \in Req, Health(p) PROVE Untouched(q)'
  BY <1>13 DEF Health
<1>14. ASSUME NEW p \in Req, Published(p) PROVE Untouched(q)'
  BY <1>14 DEF Published, JSON
<1>15. ASSUME NEW p \in Req, TakeResponse(p) PROVE Untouched(q)'
  BY <1>15 DEF TakeResponse
<1>16. ASSUME NEW p \in Req, TakeError(p) \/ TakeDone(p) PROVE Untouched(q)'
  BY <1>16 DEF TakeError, TakeDone, JSON
<1>17. ASSUME NEW p \in Req, ReadAll(p) \/ ReadFails(p) PROVE Untouched(q)'
  BY <1>17 DEF ReadAll, ReadFails, JSON
<1>18. ASSUME NEW p \in Req, Sent(p) \/ Acts(p) PROVE Untouched(q)'
  BY <1>18 DEF Sent, Acts
<1>19. ASSUME NEW p \in Req, DoAnswers(p) \/ DoFails(p) PROVE Untouched(q)'
  BY <1>19 DEF DoAnswers, DoFails, Deliver
<1>20. ASSUME UNCHANGED vars PROVE Untouched(q)'
  BY <1>20 DEF vars
<1>21. QED
  BY <1>1, <1>2, <1>3, <1>4, <1>5, <1>6, <1>7, <1>8, <1>9, <1>10, <1>11, <1>12, <1>13,
     <1>14, <1>15, <1>16, <1>17, <1>18, <1>19, <1>20 DEF Next, Lifecycle, Client, Handle, Call

\* Answers are final.
LEMMA SettledStep ==
  ASSUME GatewayInv, [Next]_vars
  PROVE  \A q \in Req : Settled(q)'
<1> SUFFICES ASSUME NEW q \in Req PROVE Settled(q)'
  OBVIOUS
<1> USE TimeoutsAssumption DEF GatewayInv, TypeOK, Busy, Kind, server, handler, caller, Settled, Life
<1>1. ASSUME Notify PROVE Settled(q)'
  BY <1>1 DEF Notify
<1>2. ASSUME Signal PROVE Settled(q)'
  BY <1>2 DEF Signal, Exit
<1>3. ASSUME Listen PROVE Settled(q)'
  BY <1>3 DEF Listen, Exit
<1>4. ASSUME ListenerCloses PROVE Settled(q)'
  BY <1>4 DEF ListenerCloses
<1>5. ASSUME ShutdownReturns PROVE Settled(q)'
  BY <1>5 DEF ShutdownReturns
<1>6. ASSUME RunReturns PROVE Settled(q)'
  BY <1>6 DEF RunReturns, Exit
<1>7. ASSUME Tick PROVE Settled(q)'
  BY <1>7 DEF Tick, Quiet, CallDueInTime, CallDue, BodyDue
<1>8. ASSUME NEW p \in Req, Connect(p) \/ Accept(p) PROVE Settled(q)'
  BY <1>8 DEF Connect, Accept
<1>9. ASSUME NEW p \in Req, BodyBreaks(p) PROVE Settled(q)'
  BY <1>9 DEF BodyBreaks, BodyDue
<1>10. ASSUME NEW p \in Req, ClientLeaves(p) PROVE Settled(q)'
  BY <1>10 DEF ClientLeaves
<1>11. ASSUME NEW p \in Req, Reject(p) \/ LogInput(p) PROVE Settled(q)'
  BY <1>11 DEF Reject, LogInput, JSON
<1>12. ASSUME NEW p \in Req, Verify(p) PROVE Settled(q)'
  BY <1>12 DEF Verify
<1>13. ASSUME NEW p \in Req, Health(p) PROVE Settled(q)'
  BY <1>13 DEF Health
<1>14. ASSUME NEW p \in Req, Published(p) PROVE Settled(q)'
  BY <1>14 DEF Published, JSON
<1>15. ASSUME NEW p \in Req, TakeResponse(p) PROVE Settled(q)'
  BY <1>15 DEF TakeResponse
<1>16. ASSUME NEW p \in Req, TakeError(p) \/ TakeDone(p) PROVE Settled(q)'
  BY <1>16 DEF TakeError, TakeDone, JSON
<1>17. ASSUME NEW p \in Req, ReadAll(p) \/ ReadFails(p) PROVE Settled(q)'
  BY <1>17 DEF ReadAll, ReadFails, JSON
<1>18. ASSUME NEW p \in Req, Sent(p) \/ Acts(p) PROVE Settled(q)'
  BY <1>18 DEF Sent, Acts
<1>19. ASSUME NEW p \in Req, DoAnswers(p) \/ DoFails(p) PROVE Settled(q)'
  BY <1>19 DEF DoAnswers, DoFails, Deliver
<1>20. ASSUME UNCHANGED vars PROVE Settled(q)'
  BY <1>20 DEF vars
<1>21. QED
  BY <1>1, <1>2, <1>3, <1>4, <1>5, <1>6, <1>7, <1>8, <1>9, <1>10, <1>11, <1>12, <1>13,
     <1>14, <1>15, <1>16, <1>17, <1>18, <1>19, <1>20 DEF Next, Lifecycle, Client, Handle, Call

\* What channels and answers say of user-service stays true.
LEMMA TruthStep ==
  ASSUME GatewayInv, [Next]_vars
  PROVE  \A q \in Req : Truth(q)'
<1> SUFFICES ASSUME NEW q \in Req PROVE Truth(q)'
  OBVIOUS
<1> USE TimeoutsAssumption DEF GatewayInv, TypeOK, Busy, Kind, server, handler, caller, Truth,
       Untouched, Settled
<1>1. ASSUME Notify PROVE Truth(q)'
  BY <1>1 DEF Notify
<1>2. ASSUME Signal PROVE Truth(q)'
  BY <1>2 DEF Signal, Exit
<1>3. ASSUME Listen PROVE Truth(q)'
  BY <1>3 DEF Listen, Exit
<1>4. ASSUME ListenerCloses PROVE Truth(q)'
  BY <1>4 DEF ListenerCloses
<1>5. ASSUME ShutdownReturns PROVE Truth(q)'
  BY <1>5 DEF ShutdownReturns
<1>6. ASSUME RunReturns PROVE Truth(q)'
  BY <1>6 DEF RunReturns, Exit
<1>7. ASSUME Tick PROVE Truth(q)'
  BY <1>7 DEF Tick, Quiet, CallDueInTime, CallDue, BodyDue
<1>8. ASSUME NEW p \in Req, Connect(p) \/ Accept(p) PROVE Truth(q)'
  BY <1>8 DEF Connect, Accept
<1>9. ASSUME NEW p \in Req, BodyBreaks(p) PROVE Truth(q)'
  BY <1>9 DEF BodyBreaks, BodyDue
<1>10. ASSUME NEW p \in Req, ClientLeaves(p) PROVE Truth(q)'
  BY <1>10 DEF ClientLeaves
<1>11. ASSUME NEW p \in Req, Reject(p) \/ LogInput(p) PROVE Truth(q)'
  BY <1>11 DEF Reject, LogInput, JSON
<1>12. ASSUME NEW p \in Req, Verify(p) PROVE Truth(q)'
  BY <1>12 DEF Verify
<1>13. ASSUME NEW p \in Req, Health(p) PROVE Truth(q)'
  BY <1>13 DEF Health
<1>14. ASSUME NEW p \in Req, Published(p) PROVE Truth(q)'
  BY <1>14 DEF Published, JSON
<1>15. ASSUME NEW p \in Req, TakeResponse(p) PROVE Truth(q)'
  BY <1>15 DEF TakeResponse
<1>16. ASSUME NEW p \in Req, TakeError(p) \/ TakeDone(p) PROVE Truth(q)'
  BY <1>16 DEF TakeError, TakeDone, JSON
<1>17. ASSUME NEW p \in Req, ReadAll(p) \/ ReadFails(p) PROVE Truth(q)'
  BY <1>17 DEF ReadAll, ReadFails, JSON
<1>18. ASSUME NEW p \in Req, Sent(p) \/ Acts(p) PROVE Truth(q)'
  BY <1>18 DEF Sent, Acts
<1>19. ASSUME NEW p \in Req, DoAnswers(p) \/ DoFails(p) PROVE Truth(q)'
  BY <1>19 DEF DoAnswers, DoFails, Deliver
<1>20. ASSUME UNCHANGED vars PROVE Truth(q)'
  BY <1>20 DEF vars
<1>21. QED
  BY <1>1, <1>2, <1>3, <1>4, <1>5, <1>6, <1>7, <1>8, <1>9, <1>10, <1>11, <1>12, <1>13,
     <1>14, <1>15, <1>16, <1>17, <1>18, <1>19, <1>20 DEF Next, Lifecycle, Client, Handle, Call

\* A tick takes from the call what it adds to the age.
LEMMA InTimeStep ==
  ASSUME GatewayInv, [Next]_vars
  PROVE  \A q \in Req : InTime(q)'
<1> SUFFICES ASSUME NEW q \in Req PROVE InTime(q)'
  OBVIOUS
<1> USE TimeoutsAssumption DEF GatewayInv, TypeOK, Busy, Kind, server, handler, caller, InTime,
       Untouched, Settled
<1>1. ASSUME Notify PROVE InTime(q)'
  BY <1>1 DEF Notify
<1>2. ASSUME Signal PROVE InTime(q)'
  BY <1>2 DEF Signal, Exit
<1>3. ASSUME Listen PROVE InTime(q)'
  BY <1>3 DEF Listen, Exit
<1>4. ASSUME ListenerCloses PROVE InTime(q)'
  BY <1>4 DEF ListenerCloses
<1>5. ASSUME ShutdownReturns PROVE InTime(q)'
  BY <1>5 DEF ShutdownReturns
<1>6. ASSUME RunReturns PROVE InTime(q)'
  BY <1>6 DEF RunReturns, Exit
<1>7. ASSUME Tick PROVE InTime(q)'
  BY <1>7 DEF Tick, Quiet, CallDueInTime, CallDue, BodyDue
<1>8. ASSUME NEW p \in Req, Connect(p) \/ Accept(p) PROVE InTime(q)'
  BY <1>8 DEF Connect, Accept
<1>9. ASSUME NEW p \in Req, BodyBreaks(p) PROVE InTime(q)'
  BY <1>9 DEF BodyBreaks, BodyDue
<1>10. ASSUME NEW p \in Req, ClientLeaves(p) PROVE InTime(q)'
  BY <1>10 DEF ClientLeaves
<1>11. ASSUME NEW p \in Req, Reject(p) \/ LogInput(p) PROVE InTime(q)'
  BY <1>11 DEF Reject, LogInput, JSON
<1>12. ASSUME NEW p \in Req, Verify(p) PROVE InTime(q)'
  BY <1>12 DEF Verify
<1>13. ASSUME NEW p \in Req, Health(p) PROVE InTime(q)'
  BY <1>13 DEF Health
<1>14. ASSUME NEW p \in Req, Published(p) PROVE InTime(q)'
  BY <1>14 DEF Published, JSON
<1>15. ASSUME NEW p \in Req, TakeResponse(p) PROVE InTime(q)'
  BY <1>15 DEF TakeResponse
<1>16. ASSUME NEW p \in Req, TakeError(p) \/ TakeDone(p) PROVE InTime(q)'
  BY <1>16 DEF TakeError, TakeDone, JSON
<1>17. ASSUME NEW p \in Req, ReadAll(p) \/ ReadFails(p) PROVE InTime(q)'
  BY <1>17 DEF ReadAll, ReadFails, JSON
<1>18. ASSUME NEW p \in Req, Sent(p) \/ Acts(p) PROVE InTime(q)'
  BY <1>18 DEF Sent, Acts
<1>19. ASSUME NEW p \in Req, DoAnswers(p) \/ DoFails(p) PROVE InTime(q)'
  BY <1>19 DEF DoAnswers, DoFails, Deliver
<1>20. ASSUME UNCHANGED vars PROVE InTime(q)'
  BY <1>20 DEF vars
<1>21. QED
  BY <1>1, <1>2, <1>3, <1>4, <1>5, <1>6, <1>7, <1>8, <1>9, <1>10, <1>11, <1>12, <1>13,
     <1>14, <1>15, <1>16, <1>17, <1>18, <1>19, <1>20 DEF Next, Lifecycle, Client, Handle, Call

\* Start, stop and connections.
LEMMA LifeStep ==
  ASSUME GatewayInv, [Next]_vars
  PROVE  Life'
<1> USE TimeoutsAssumption DEF GatewayInv, TypeOK, Busy, Kind, server, handler, caller, Life, Settled
<1>1. ASSUME Notify PROVE Life'
  BY <1>1 DEF Notify
<1>2. ASSUME Signal PROVE Life'
  BY <1>2 DEF Signal, Exit
<1>3. ASSUME Listen PROVE Life'
  BY <1>3 DEF Listen, Exit
<1>4. ASSUME ListenerCloses PROVE Life'
  BY <1>4 DEF ListenerCloses
<1>5. ASSUME ShutdownReturns PROVE Life'
  BY <1>5 DEF ShutdownReturns
<1>6. ASSUME RunReturns PROVE Life'
  BY <1>6 DEF RunReturns, Exit
<1>7. ASSUME Tick PROVE Life'
  BY <1>7 DEF Tick, Quiet, CallDueInTime, CallDue, BodyDue
<1>8. ASSUME NEW p \in Req, Connect(p) \/ Accept(p) PROVE Life'
  BY <1>8 DEF Connect, Accept
<1>9. ASSUME NEW p \in Req, BodyBreaks(p) PROVE Life'
  BY <1>9 DEF BodyBreaks, BodyDue
<1>10. ASSUME NEW p \in Req, ClientLeaves(p) PROVE Life'
  BY <1>10 DEF ClientLeaves
<1>11. ASSUME NEW p \in Req, Reject(p) \/ LogInput(p) PROVE Life'
  BY <1>11 DEF Reject, LogInput, JSON
<1>12. ASSUME NEW p \in Req, Verify(p) PROVE Life'
  BY <1>12 DEF Verify
<1>13. ASSUME NEW p \in Req, Health(p) PROVE Life'
  BY <1>13 DEF Health
<1>14. ASSUME NEW p \in Req, Published(p) PROVE Life'
  BY <1>14 DEF Published, JSON
<1>15. ASSUME NEW p \in Req, TakeResponse(p) PROVE Life'
  BY <1>15 DEF TakeResponse
<1>16. ASSUME NEW p \in Req, TakeError(p) \/ TakeDone(p) PROVE Life'
  BY <1>16 DEF TakeError, TakeDone, JSON
<1>17. ASSUME NEW p \in Req, ReadAll(p) \/ ReadFails(p) PROVE Life'
  BY <1>17 DEF ReadAll, ReadFails, JSON
<1>18. ASSUME NEW p \in Req, Sent(p) \/ Acts(p) PROVE Life'
  BY <1>18 DEF Sent, Acts
<1>19. ASSUME NEW p \in Req, DoAnswers(p) \/ DoFails(p) PROVE Life'
  BY <1>19 DEF DoAnswers, DoFails, Deliver
<1>20. ASSUME UNCHANGED vars PROVE Life'
  BY <1>20 DEF vars
<1>21. QED
  BY <1>1, <1>2, <1>3, <1>4, <1>5, <1>6, <1>7, <1>8, <1>9, <1>10, <1>11, <1>12, <1>13,
     <1>14, <1>15, <1>16, <1>17, <1>18, <1>19, <1>20 DEF Next, Lifecycle, Client, Handle, Call

\* Shutdown outlasts the calls it began with.
LEMMA SurviveStep ==
  ASSUME GatewayInv, [Next]_vars
  PROVE  \A q \in before' : Survives(q)'
<1> SUFFICES ASSUME NEW q \in before' PROVE Survives(q)'
  OBVIOUS
<1> USE TimeoutsAssumption DEF GatewayInv, TypeOK, Busy, Kind, server, handler, caller,
       Survives, Life, Settled, Untouched
<1>1. ASSUME Notify PROVE Survives(q)'
  BY <1>1 DEF Notify
<1>2. ASSUME Signal PROVE Survives(q)'
  BY <1>2 DEF Signal, Exit
<1>3. ASSUME Listen PROVE Survives(q)'
  BY <1>3 DEF Listen, Exit
<1>4. ASSUME ListenerCloses PROVE Survives(q)'
  BY <1>4 DEF ListenerCloses
<1>5. ASSUME ShutdownReturns PROVE Survives(q)'
  BY <1>5 DEF ShutdownReturns
<1>6. ASSUME RunReturns PROVE Survives(q)'
  BY <1>6 DEF RunReturns, Exit
<1>7. ASSUME Tick PROVE Survives(q)'
  BY <1>7 DEF Tick, Quiet, CallDueInTime, CallDue, BodyDue
<1>8. ASSUME NEW p \in Req, Connect(p) \/ Accept(p) PROVE Survives(q)'
  BY <1>8 DEF Connect, Accept
<1>9. ASSUME NEW p \in Req, BodyBreaks(p) PROVE Survives(q)'
  BY <1>9 DEF BodyBreaks, BodyDue
<1>10. ASSUME NEW p \in Req, ClientLeaves(p) PROVE Survives(q)'
  BY <1>10 DEF ClientLeaves
<1>11. ASSUME NEW p \in Req, Reject(p) \/ LogInput(p) PROVE Survives(q)'
  BY <1>11 DEF Reject, LogInput, JSON
<1>12. ASSUME NEW p \in Req, Verify(p) PROVE Survives(q)'
  BY <1>12 DEF Verify
<1>13. ASSUME NEW p \in Req, Health(p) PROVE Survives(q)'
  BY <1>13 DEF Health
<1>14. ASSUME NEW p \in Req, Published(p) PROVE Survives(q)'
  BY <1>14 DEF Published, JSON
<1>15. ASSUME NEW p \in Req, TakeResponse(p) PROVE Survives(q)'
  BY <1>15 DEF TakeResponse
<1>16. ASSUME NEW p \in Req, TakeError(p) \/ TakeDone(p) PROVE Survives(q)'
  BY <1>16 DEF TakeError, TakeDone, JSON
<1>17. ASSUME NEW p \in Req, ReadAll(p) \/ ReadFails(p) PROVE Survives(q)'
  BY <1>17 DEF ReadAll, ReadFails, JSON
<1>18. ASSUME NEW p \in Req, Sent(p) \/ Acts(p) PROVE Survives(q)'
  BY <1>18 DEF Sent, Acts
<1>19. ASSUME NEW p \in Req, DoAnswers(p) \/ DoFails(p) PROVE Survives(q)'
  BY <1>19 DEF DoAnswers, DoFails, Deliver
<1>20. ASSUME UNCHANGED vars PROVE Survives(q)'
  BY <1>20 DEF vars
<1>21. QED
  BY <1>1, <1>2, <1>3, <1>4, <1>5, <1>6, <1>7, <1>8, <1>9, <1>10, <1>11, <1>12, <1>13,
     <1>14, <1>15, <1>16, <1>17, <1>18, <1>19, <1>20 DEF Next, Lifecycle, Client, Handle, Call

\* GatewayInv holds in the initial states.
LEMMA InvInit == Init => GatewayInv
<1> SUFFICES ASSUME Init PROVE GatewayInv
  OBVIOUS
<1> USE TimeoutsAssumption DEF Init, Busy, Kind
<1>1. TypeOK
  BY DEF TypeOK
<1>2. Life
  BY DEF Life
<1>3. ASSUME NEW q \in Req PROVE Untouched(q) /\ Settled(q) /\ Truth(q) /\ InTime(q)
  BY DEF Untouched, Settled, Truth, InTime
<1>4. QED
  BY <1>1, <1>2, <1>3 DEF GatewayInv

\* The invariant of the gateway, which the theorems below are read off.
THEOREM Inductive == Spec => []GatewayInv
<1>1. GatewayInv /\ [Next]_vars => GatewayInv'
  <2> SUFFICES ASSUME GatewayInv, [Next]_vars PROVE GatewayInv'
    OBVIOUS
  <2>1. TypeOK' /\ Life'
    BY TypeStep, LifeStep
  <2>2. \A q \in Req : Untouched(q)' /\ Settled(q)' /\ Truth(q)' /\ InTime(q)'
    BY UntouchedStep, SettledStep, TruthStep, InTimeStep
  <2>3. \A q \in before' : Survives(q)'
    BY SurviveStep
  <2>4. QED
    BY <2>1, <2>2, <2>3 DEF GatewayInv
<1>2. QED
  BY InvInit, <1>1, PTL DEF Spec

\* The state of the process, its requests and their calls has its types in every
\* state: in particular no handler answers with a status that Call did not get.
THEOREM TypeCorrect == Spec => []TypeOK
<1>1. GatewayInv => TypeOK
  BY DEF GatewayInv
<1>2. QED
  BY Inductive, <1>1, PTL

\* A relayed answer was given by user-service; refused requests never reached it.
THEOREM AnswersAreTrue == Spec => []AnswerTells
<1>1. GatewayInv => AnswerTells
  BY DEF GatewayInv, Truth, AnswerTells
<1>2. QED
  BY Inductive, <1>1, PTL

\* Run cuts off requests only when Shutdown has used up its time.
THEOREM GracefulStop == Spec => []CutOnlyByDeadline
<1>1. GatewayInv => CutOnlyByDeadline
  BY DEF GatewayInv, Life, CutOnlyByDeadline
<1>2. QED
  BY Inductive, <1>1, PTL

\* No call that was under way when the signal came is cut off, as CallTimeout < Grace.
THEOREM CallsSurvive == Spec => []CallsSurviveStop
<1>1. GatewayInv => CallsSurviveStop
  BY DEF GatewayInv, Survives, CallsSurviveStop
<1>2. QED
  BY Inductive, <1>1, PTL

\* No answer about user-service misses the write deadline, as ReadTimeout and
\* CallTimeout together are shorter than WriteTimeout.
THEOREM AnsweredInTime == Spec => []NeverLate
<1>1. GatewayInv => NeverLate
  BY DEF GatewayInv, InTime, NeverLate
<1>2. QED
  BY Inductive, <1>1, PTL

-----------------------------------------------------------------------------
(* Whoever waits in Call's select waits for something. *)

\* The goroutine is at work, or its result is in a channel.
Owed == \A q \in Req : pc[q] = "call" => fly[q] = "doing" \/ box[q] \in {"response", "error"}

\* Every step keeps it: the goroutine ends by filling a channel, and only the
\* select empties one, which it leaves thereby.
LEMMA OwedStep == ASSUME GatewayInv, Owed, [Next]_vars PROVE Owed'
<1> USE DEF Owed, GatewayInv, TypeOK, server, handler, caller
<1>1. ASSUME Lifecycle \/ Tick \/ UNCHANGED vars PROVE Owed'
  BY <1>1 DEF Lifecycle, Notify, Signal, Listen, ListenerCloses, ShutdownReturns, RunReturns, Exit, Tick, vars
<1>2. ASSUME NEW p \in Req, Client(p) PROVE Owed'
  BY <1>2 DEF Client, Connect, Accept, BodyBreaks, ClientLeaves
<1>3. ASSUME NEW p \in Req, Reject(p) \/ LogInput(p) \/ Verify(p) \/ Health(p) \/ Published(p) PROVE Owed'
  BY <1>3 DEF Reject, LogInput, Verify, Health, Published, JSON
<1>4. ASSUME NEW p \in Req, TakeResponse(p) \/ TakeError(p) \/ TakeDone(p) \/ ReadAll(p) \/ ReadFails(p)
      PROVE  Owed'
  BY <1>4 DEF TakeResponse, TakeError, TakeDone, ReadAll, ReadFails, JSON
<1>5. ASSUME NEW p \in Req, Call(p) PROVE Owed'
  BY <1>5 DEF Call, Sent, Acts, DoAnswers, DoFails, Deliver
<1>6. QED
  BY <1>1, <1>2, <1>3, <1>4, <1>5 DEF Next, Handle

\* A handler in Call's select has a result in a channel, or the goroutine it waits
\* for is at work, and then it fails at the latest when the client's timeout is over,
\* which ReadTimeout and CallTimeout bound from the request's beginning on.
THEOREM ResultIsOwed ==
  Spec => [](\A q \in Req : pc[q] = "call" =>
               \/ box[q] \in {"response", "error"}
               \/ fly[q] = "doing" /\ left[q] <= ReadTimeout + CallTimeout - age[q])
<1>1. Init => Owed
  BY DEF Init, Owed
<1>2. GatewayInv /\ Owed => \A q \in Req : pc[q] = "call" =>
               \/ box[q] \in {"response", "error"}
               \/ fly[q] = "doing" /\ left[q] <= ReadTimeout + CallTimeout - age[q]
  BY TimeoutsAssumption DEF Owed, GatewayInv, TypeOK, InTime
<1>3. QED
  BY <1>1, <1>2, OwedStep, Inductive, PTL DEF Spec

-----------------------------------------------------------------------------
(* The clock, and what a request gets. *)

\* Somebody's time has come: a body's, a call's, a result's that has not been taken,
\* the listener's, Shutdown's or Run's.
SomebodyDue ==
  \/ \E q \in Req : \/ BodyDue(q)
                    \/ CallDue(q) /\ (fly[q] = "doing" \/ pc[q] = "read")
                    \/ pc[q] = "call" /\ box[q] \in {"response", "error"}
  \/ main = "listen" /\ sig \in {"drain", "send"}
  \/ sig = "drain" /\ grace = 0
  \/ main = "await" /\ sig = "send"

\* Time can always pass, or there is a step of the code to be made first: the clock is
\* never locked, so that timeouts do come.  A handler that waits in Call's select for a
\* goroutine that had ended without a result would lock it.
THEOREM NoTimeLock == Spec => [](main # "exit" => Quiet \/ SomebodyDue)
<1>1. Init => Owed
  BY DEF Init, Owed
<1>2. ASSUME GatewayInv, Owed, ~SomebodyDue PROVE Quiet
  <2>1. ASSUME NEW q \in Req
        PROVE  ~BodyDue(q) /\ CallDueInTime(q) /\ (pc[q] = "call" => fly[q] = "doing")
    BY <1>2 DEF SomebodyDue, Owed, CallDueInTime
  <2>2. (main = "listen" => sig \in {"off", "wait"}) /\ (sig = "drain" => grace > 0)
    BY <1>2, TimeoutsAssumption DEF SomebodyDue, GatewayInv, TypeOK
  <2>3. ~(main = "await" /\ sig = "send")
    BY <1>2 DEF SomebodyDue
  <2>4. QED
    BY <2>1, <2>2, <2>3 DEF Quiet
<1>3. GatewayInv /\ Owed => (main # "exit" => Quiet \/ SomebodyDue)
  BY <1>2
<1>4. QED
  BY <1>1, <1>3, OwedStep, Inductive, PTL DEF Spec

\* What EveryRequestEnds means in time: when ReadTimeout + CallTimeout have passed since
\* its header was read a request for user-service is no longer at work, whatever its
\* client and user-service do.
THEOREM EndsInTime ==
  Spec => [](\A q \in Req : pc[q] \in Busy /\ kind[q] # "health" => age[q] <= ReadTimeout + CallTimeout)
<1>1. GatewayInv => \A q \in Req : pc[q] \in Busy /\ kind[q] # "health" => age[q] <= ReadTimeout + CallTimeout
  <2> SUFFICES ASSUME GatewayInv, NEW q \in Req, pc[q] \in Busy, kind[q] # "health"
               PROVE  age[q] <= ReadTimeout + CallTimeout
    OBVIOUS
  <2> USE TimeoutsAssumption DEF GatewayInv, TypeOK, InTime
  <2>1. CASE pc[q] = "body"
    BY <2>1
  <2>2. CASE pc[q] \in {"call", "read"}
    BY <2>2
  <2>3. QED
    BY <2>1, <2>2 DEF Busy
<1>2. QED
  BY Inductive, <1>1, PTL

\* A client is answered at most once: whichever of the results of a call, of the
\* context and of a stop come together, the first answer stays and ends the request.
THEOREM AnsweredOnce ==
  Spec => [][\A q \in Req : answer[q] # "none" => answer'[q] = answer[q] /\ pc'[q] = "over"]_vars
<1>1. ASSUME GatewayInv, [Next]_vars, NEW q \in Req, answer[q] # "none"
      PROVE  answer'[q] = answer[q] /\ pc'[q] = "over"
  <2>1. pc[q] = "over" /\ pc \in [Req -> {"none", "open", "over"} \union Busy]
    BY <1>1 DEF GatewayInv, Settled, TypeOK
  <2> USE <1>1, <2>1 DEF GatewayInv, TypeOK, Busy, server, handler, caller
  <2>2. CASE Lifecycle \/ Tick \/ UNCHANGED vars
    BY <2>2 DEF Lifecycle, Notify, Signal, Listen, ListenerCloses, ShutdownReturns, RunReturns, Exit, Tick, vars
  <2>3. ASSUME NEW p \in Req, Client(p) PROVE answer'[q] = answer[q] /\ pc'[q] = "over"
    BY <2>3 DEF Client, Connect, Accept, BodyBreaks, ClientLeaves
  <2>4. ASSUME NEW p \in Req, Reject(p) \/ LogInput(p) \/ Verify(p) \/ Health(p) \/ Published(p)
        PROVE  answer'[q] = answer[q] /\ pc'[q] = "over"
    BY <2>4 DEF Reject, LogInput, Verify, Health, Published, JSON
  <2>5. ASSUME NEW p \in Req, TakeResponse(p) \/ TakeError(p) \/ TakeDone(p) \/ ReadAll(p) \/ ReadFails(p)
        PROVE  answer'[q] = answer[q] /\ pc'[q] = "over"
    BY <2>5 DEF TakeResponse, TakeError, TakeDone, ReadAll, ReadFails, JSON
  <2>6. ASSUME NEW p \in Req, Call(p) PROVE answer'[q] = answer[q] /\ pc'[q] = "over"
    BY <2>6 DEF Call, Sent, Acts, DoAnswers, DoFails
  <2>7. QED
    BY <2>2, <2>3, <2>4, <2>5, <2>6 DEF Next, Handle
<1>2. GatewayInv /\ [Next]_vars =>
      [\A q \in Req : answer[q] # "none" => answer'[q] = answer[q] /\ pc'[q] = "over"]_vars
  BY <1>1
<1>3. QED
  BY <1>2, Inductive, PTL DEF Spec

\* A well-formed login or registration that has not lost its body is at no point on its
\* way to user-service, and if it ends it was aborted or cut off.
Unforwarded(q) ==
  kind[q] = "credentials" => /\ pc[q] \notin {"call", "read", "publish"} /\ q \notin gone
                             /\ fly[q] = "none"
                             /\ answer[q] \in {"none", "aborted", "cut"}

AllUnforwarded == \A q \in Req : Unforwarded(q)

\* Every step keeps it.
LEMMA UnforwardedStep ==
  ASSUME GatewayInv, [Next]_vars, NEW q \in Req, Unforwarded(q)
  PROVE  Unforwarded(q)'
<1> USE DEF Unforwarded, GatewayInv, TypeOK, Busy, server, handler, caller
<1>1. ASSUME Lifecycle \/ Tick \/ UNCHANGED vars PROVE Unforwarded(q)'
  BY <1>1 DEF Lifecycle, Notify, Signal, Listen, ListenerCloses, ShutdownReturns, RunReturns, Exit, Tick, vars
<1>2. ASSUME NEW p \in Req, Client(p) PROVE Unforwarded(q)'
  BY <1>2 DEF Client, Connect, Accept, BodyBreaks, ClientLeaves
<1>3. ASSUME NEW p \in Req, LogInput(p) PROVE Unforwarded(q)'
  BY <1>3, TimeoutsAssumption DEF LogInput, JSON, InTime
<1>4. ASSUME NEW p \in Req, Reject(p) \/ Verify(p) \/ Health(p) \/ Published(p) PROVE Unforwarded(q)'
  BY <1>4 DEF Reject, Verify, Health, Published, JSON, InTime
<1>5. ASSUME NEW p \in Req, TakeResponse(p) \/ TakeError(p) \/ TakeDone(p) \/ ReadAll(p) \/ ReadFails(p)
      PROVE  Unforwarded(q)'
  BY <1>5 DEF TakeResponse, TakeError, TakeDone, ReadAll, ReadFails, JSON
<1>6. ASSUME NEW p \in Req, Call(p) PROVE Unforwarded(q)'
  BY <1>6 DEF Call, Sent, Acts, DoAnswers, DoFails, Deliver
<1>7. QED
  BY <1>1, <1>2, <1>3, <1>4, <1>5, <1>6 DEF Next, Handle

\* How far the defect that WellFormedAnswered shows goes: c.Log is nil in every
\* well-formed Login and Register, so that none of them, with any number of requests and
\* any timeouts, is ever forwarded to user-service or answered.
THEOREM CredentialsNeverForwarded ==
  Spec => [](\A q \in Req : kind[q] = "credentials" =>
                               up[q] = "unsent" /\ answer[q] \in {"none", "aborted", "cut"})
<1>1. Init => AllUnforwarded
  BY DEF Init, AllUnforwarded, Unforwarded
<1>2. GatewayInv /\ AllUnforwarded /\ [Next]_vars => AllUnforwarded'
  BY UnforwardedStep DEF AllUnforwarded
<1>3. GatewayInv /\ AllUnforwarded => \A q \in Req : kind[q] = "credentials" =>
                                            up[q] = "unsent" /\ answer[q] \in {"none", "aborted", "cut"}
  BY DEF GatewayInv, Truth, AllUnforwarded, Unforwarded
<1>4. QED
  BY <1>1, <1>2, <1>3, Inductive, PTL DEF Spec

-----------------------------------------------------------------------------
(***************************************************************************)
(* Gateway implements GracefulServer.                                      *)
(***************************************************************************)

\* Shutdown gives up when its time is over, and then it stays over.
GaveUp == result = "deadline" => grace = 0

StopInv == GatewayInv /\ GaveUp

\* Both always hold.
LEMMA StopInductive == Spec => []StopInv
<1>1. Init => GaveUp
  BY DEF Init, GaveUp
<1>2. GatewayInv /\ GaveUp /\ [Next]_vars => GaveUp'
  BY DEF GatewayInv, Life, GaveUp, Next, vars, server, Lifecycle, Exit, Notify, Signal, Listen, ListenerCloses,
         ShutdownReturns, RunReturns, Tick, Client, Connect, Accept, BodyBreaks, ClientLeaves, Handle, Reject,
         LogInput, Verify, Health, Published, TakeResponse, TakeError, TakeDone, ReadAll, ReadFails, Call, Sent,
         Acts, DoAnswers, DoFails
<1>3. QED
  BY <1>1, <1>2, Inductive, PTL DEF Spec, StopInv

\* stopState in a state and in the next one.
StateOf(p, a) == IF p = "none" THEN "away"
                 ELSE IF p = "open" THEN "open"
                 ELSE IF p \in Busy THEN "busy"
                 ELSE IF a = "cut" THEN "cut" ELSE "gone"

\* stopState is StateOf, before and after a step.
LEMMA StateOfRequest ==
  /\ \A q \in Req : /\ stopState[q] = StateOf(pc[q], answer[q])
                    /\ stopState'[q] = StateOf(pc'[q], answer'[q])
  /\ stopState' \in [Req -> Stopping!State]
BY DEF stopState, StateOf, Stopping!State, Stopping!Here

\* Requests come while the process is up, are handled and end, with any answer.
LEMMA ServeStep ==
  ASSUME GatewayInv, main # "exit", UNCHANGED <<main, sig, grace>>,
         \A q \in Req : \/ pc'[q] = pc[q] /\ answer'[q] = answer[q]
                        \/ pc[q] = "none" /\ sig \in {"off", "wait"} /\ pc'[q] = "open"
                        \/ /\ pc[q] \in Busy \union {"open"}
                           /\ pc'[q] \in Busy \union {"over"} /\ answer'[q] # "cut"
  PROVE  Stopping!Serve
<1>1. stopPhase # "down" /\ UNCHANGED <<stopPhase, Grace - grace>>
  BY DEF stopPhase
<1>2. ASSUME NEW q \in Req PROVE stopState'[q] \in Stopping!Become(q)
  <2>1. sig \in {"off", "wait"} => stopPhase = "up"
    BY DEF stopPhase
  <2>2. pc[q] \in {"none", "open", "over"} \union Busy
    BY DEF GatewayInv, TypeOK
  <2>3. QED
    BY <2>1, <2>2, StateOfRequest DEF StateOf, Stopping!Become, Stopping!Here, Busy
<1>3. QED
  BY <1>1, <1>2, StateOfRequest DEF Stopping!Serve

\* What a step leaves alone that neither the process nor a handler takes.
LEMMA UnseenStep == ASSUME UNCHANGED <<main, sig, grace, pc, answer>> PROVE UNCHANGED Stopping!vars
BY DEF Stopping!vars, stopPhase, stopState

\* An end of the process cuts off those at work.
LEMMA ExitStep ==
  ASSUME GatewayInv, Exit
  PROVE  /\ stopPhase' = "down" /\ UNCHANGED (Grace - grace)
         /\ Stopping!CutOff
         /\ (\A q \in Req : pc[q] \in {"none", "over"}) => UNCHANGED stopState
<1>1. main' = "exit" /\ UNCHANGED <<sig, grace>>
  BY DEF Exit
<1>2. ASSUME NEW q \in Req
      PROVE  /\ pc'[q] = IF pc[q] = "none" THEN "none" ELSE "over"
             /\ answer'[q] = IF pc[q] \in Busy THEN "cut" ELSE answer[q]
             /\ pc[q] \in {"none", "open", "over"} \union Busy
             /\ answer[q] # "none" => pc[q] = "over"
  BY DEF Exit, GatewayInv, TypeOK, Settled
<1>3. ASSUME NEW q \in Req
      PROVE  stopState'[q] \in IF stopState[q] = "busy" THEN {"cut"}
                               ELSE IF stopState[q] = "open" THEN {"gone", "cut"}
                               ELSE {stopState[q]}
  BY <1>2, StateOfRequest DEF StateOf, Busy
<1>4. ASSUME \A q \in Req : pc[q] \in {"none", "over"} PROVE UNCHANGED stopState
  <2>1. pc' = pc /\ answer' = answer
    BY <1>4 DEF Exit, GatewayInv, TypeOK, Busy
  <2>2. QED
    BY <2>1 DEF stopState
<1>5. QED
  BY <1>1, <1>3, <1>4, StateOfRequest DEF Stopping!CutOff, stopPhase

\* Start and stop of the process.
LEMMA LifecycleStep ==
  ASSUME StopInv, Lifecycle
  PROVE  Stopping!Next \/ UNCHANGED Stopping!vars
<1>0. GatewayInv /\ Life
  BY DEF StopInv, GatewayInv
<1>1. CASE Notify \/ ListenerCloses
  <2>1. UNCHANGED <<stopPhase, pc, answer, grace>>
    BY <1>1 DEF Notify, ListenerCloses, stopPhase, handler
  <2>2. QED
    BY <2>1 DEF Stopping!vars, stopState
<1>2. ASSUME Exit, sig \in {"off", "wait"}, main # "exit" PROVE Stopping!Next
  <2>1. stopPhase = "up"
    BY <1>2 DEF stopPhase
  <2>2. QED
    BY <1>0, <1>2, <2>1, ExitStep DEF Stopping!Force, Stopping!Next
<1>3. CASE Signal
  <2>1. CASE sig = "off" /\ main # "exit" /\ Exit
    BY <1>2, <2>1
  <2>2. CASE sig = "wait" /\ main # "exit" /\ sig' = "drain" /\ UNCHANGED <<main, grace, handler>>
    <3>1. stopPhase = "up" /\ stopPhase' = "stopping"
      BY <2>2 DEF stopPhase
    <3>2. UNCHANGED <<pc, answer>>
      BY <2>2 DEF handler
    <3>3. UNCHANGED stopState
      BY <3>2 DEF stopState
    <3>4. QED
      BY <2>2, <3>1, <3>3, StateOfRequest DEF Stopping!Stop, Stopping!Next
  <2>3. QED
    BY <1>3, <2>1, <2>2 DEF Signal
<1>4. CASE Listen
  <2>1. CASE main' # "exit" /\ UNCHANGED <<sig, grace, handler>>
    <3>1. UNCHANGED <<stopPhase, pc, answer, grace>>
      BY <1>4, <2>1 DEF Listen, stopPhase, handler
    <3>2. QED
      BY <3>1 DEF Stopping!vars, stopState
  <2>2. CASE main = "start" /\ sig \in {"off", "wait"} /\ Exit
    BY <1>2, <2>2
  <2>3. QED
    BY <1>4, <2>1, <2>2 DEF Listen
<1>5. CASE ShutdownReturns
  <2>1. /\ main # "exit" /\ UNCHANGED <<main, grace, answer>>
        /\ sig = "drain" /\ sig' = "send"
        /\ \A q \in Req : pc'[q] = pc[q] \/ (pc[q] = "open" /\ pc'[q] = "over" /\ answer[q] # "cut")
    BY <1>0, <1>5 DEF ShutdownReturns, GatewayInv, TypeOK, Settled
  <2>2. stopPhase = "stopping" /\ stopPhase' = "stopping"
    BY <2>1 DEF stopPhase
  <2>3. ASSUME NEW q \in Req PROVE stopState'[q] \in Stopping!Become(q)
    BY <1>0, <2>1, <2>2, StateOfRequest DEF StateOf, Stopping!Become, Stopping!Here, Busy, GatewayInv, TypeOK
  <2>4. QED
    BY <2>1, <2>2, <2>3, StateOfRequest DEF Stopping!Serve, Stopping!Next
<1>6. CASE RunReturns
  <2>1. main = "await" /\ sig = "send" /\ Exit
    BY <1>6 DEF RunReturns
  <2>2. stopPhase = "stopping"
    BY <2>1 DEF stopPhase
  <2>3. result = "nil" \/ result = "deadline"
    BY <1>0, <2>1 DEF Life, GatewayInv, TypeOK
  <2>4. CASE result = "nil"
    <3>1. \A q \in Req : pc[q] \in {"none", "over"}
      BY <1>0, <2>4, Zenon DEF Life
    <3>2. \A q \in Req : stopState[q] \notin Stopping!Here
      BY <3>1, StateOfRequest DEF StateOf, Stopping!Here, Busy
    <3>3. QED
      BY <1>0, <2>1, <2>2, <3>1, <3>2, ExitStep DEF Stopping!GoDown, Stopping!Next
  <2>5. CASE result = "deadline"
    <3>1. Grace - grace = Grace
      BY <2>5, TimeoutsAssumption DEF StopInv, GaveUp
    <3>2. QED
      BY <1>0, <2>1, <2>2, <3>1, ExitStep DEF Stopping!Force, Stopping!Next
  <2>6. QED
    BY <2>3, <2>4, <2>5
<1>7. QED
  BY <1>1, <1>3, <1>4, <1>5, <1>6 DEF Lifecycle

\* A second that passes while Shutdown waits is one of the server's grace.
LEMMA WaitStep ==
  ASSUME GatewayInv, Tick
  PROVE  Stopping!Wait \/ UNCHANGED Stopping!vars
<1>1. UNCHANGED <<main, sig, pc, answer>> /\ main # "exit"
  BY DEF Tick
<1>2. UNCHANGED <<stopPhase, stopState>>
  BY <1>1 DEF stopPhase, stopState
<1>3. CASE sig = "drain"
  <2>1. grace > 0 /\ grace' = grace - 1 /\ grace \in 0..Grace /\ Grace \in Nat
    BY <1>3, TimeoutsAssumption DEF Tick, Quiet, GatewayInv, TypeOK
  <2>2. Grace - grace < Grace /\ Grace - grace' = (Grace - grace) + 1
    BY <2>1
  <2>3. stopPhase = "stopping"
    BY <1>1, <1>3 DEF stopPhase
  <2>4. QED
    BY <1>2, <2>2, <2>3 DEF Stopping!Wait
<1>4. CASE sig # "drain"
  BY <1>1, <1>4, UnseenStep DEF Tick
<1>5. QED
  BY <1>3, <1>4

\* A step of a client, of a handler or of a call.
LEMMA RequestStep ==
  ASSUME GatewayInv, NEW q \in Req, Client(q) \/ Handle(q) \/ Call(q)
  PROVE  Stopping!Serve \/ UNCHANGED Stopping!vars
<1>0. /\ pc \in [Req -> {"none", "open", "over"} \union Busy]
      /\ main = "exit" => \A p \in Req : pc[p] \in {"none", "over"}
      /\ answer \in [Req -> {"none", "400", "500", "200", "relay", "aborted", "lost", "late", "cut"}]
  BY DEF GatewayInv, TypeOK, Life
<1> USE DEF server, handler, caller
<1>1. CASE Connect(q)
  BY <1>0, <1>1, ServeStep DEF Connect
<1>2. CASE Accept(q)
  <2>1. pc' = [pc EXCEPT ![q] = "body"] /\ pc[q] = "open" /\ main # "exit" /\ UNCHANGED <<main, sig, grace, answer>>
    BY <1>2 DEF Accept
  <2>2. "body" \in Busy /\ answer[q] # "cut"
    BY <2>1 DEF Busy, GatewayInv, Settled
  <2>3. QED
    BY <1>0, <2>1, <2>2, ServeStep
<1>3. CASE BodyBreaks(q) \/ ClientLeaves(q) \/ Call(q)
  <2>1. UNCHANGED <<main, sig, grace, pc, answer>>
    BY <1>3 DEF BodyBreaks, ClientLeaves, Call, Sent, Acts, DoAnswers, DoFails
  <2>2. QED
    BY <2>1, UnseenStep
<1>4. ASSUME NEW to \in Busy, pc[q] \in Busy, pc' = [pc EXCEPT ![q] = to], UNCHANGED <<main, sig, grace, answer>>
      PROVE  Stopping!Serve
  <2>1. main # "exit" /\ answer[q] # "cut"
    BY <1>0, <1>4 DEF Busy, GatewayInv, Settled
  <2>2. QED
    BY <1>0, <1>4, <2>1, ServeStep
<1>5. ASSUME NEW code \in {"400", "500", "200", "relay", "aborted"}, pc[q] \in Busy, JSON(q, code),
             UNCHANGED <<main, sig, grace>>
      PROVE  Stopping!Serve
  <2>1. main # "exit"
    BY <1>0, <1>5 DEF Busy
  <2>2. PICK a \in {"lost", "late", "400", "500", "200", "relay", "aborted"} : answer' = [answer EXCEPT ![q] = a]
    BY <1>5 DEF JSON
  <2>3. pc' = [pc EXCEPT ![q] = "over"]
    BY <1>5 DEF JSON
  <2>4. QED
    BY <1>0, <1>5, <2>1, <2>2, <2>3, ServeStep
<1>6. CASE Verify(q) \/ Health(q) \/ TakeResponse(q)
  <2>1. PICK to \in Busy : pc' = [pc EXCEPT ![q] = to] /\ pc[q] \in Busy /\ UNCHANGED <<main, sig, grace, answer>>
    BY <1>6 DEF Verify, Health, TakeResponse, Busy
  <2>2. QED
    BY <1>4, <2>1
<1>7. CASE Reject(q) \/ LogInput(q) \/ Published(q) \/ TakeError(q) \/ TakeDone(q) \/ ReadAll(q) \/ ReadFails(q)
  <2>1. PICK code \in {"400", "500", "200", "relay", "aborted"} :
          pc[q] \in Busy /\ JSON(q, code) /\ UNCHANGED <<main, sig, grace>>
    BY <1>7 DEF Reject, LogInput, Published, TakeError, TakeDone, ReadAll, ReadFails, Busy
  <2>2. QED
    BY <1>5, <2>1
<1>8. QED
  BY <1>1, <1>2, <1>3, <1>6, <1>7 DEF Client, Handle

\* The process of go-service stops gracefully: Gateway implements GracefulServer.
THEOREM Implements == Spec => ImplementsStop
<1>1. Init => Stopping!Init
  <2> SUFFICES ASSUME Init PROVE Stopping!Init
    OBVIOUS
  <2>1. Grace - grace = 0
    BY TimeoutsAssumption DEF Init
  <2>2. stopPhase = "up" /\ stopState = [q \in Req |-> "away"]
    BY DEF Init, stopPhase, stopState
  <2>3. QED
    BY <2>1, <2>2 DEF Stopping!Init
<1>2. StopInv /\ [Next]_vars => [Stopping!Next]_(Stopping!vars)
  <2> SUFFICES ASSUME StopInv, [Next]_vars PROVE Stopping!Next \/ UNCHANGED Stopping!vars
    OBVIOUS
  <2>1. GatewayInv
    BY DEF StopInv
  <2>2. CASE Lifecycle
    BY <2>2, LifecycleStep
  <2>3. CASE Tick
    BY <2>1, <2>3, WaitStep DEF Stopping!Next
  <2>4. ASSUME NEW q \in Req, Client(q) \/ Handle(q) \/ Call(q) PROVE Stopping!Next \/ UNCHANGED Stopping!vars
    BY <2>1, <2>4, RequestStep DEF Stopping!Next
  <2>5. CASE UNCHANGED vars
    BY <2>5, UnseenStep DEF vars, server, handler
  <2>6. QED
    BY <2>2, <2>3, <2>4, <2>5 DEF Next
<1>3. QED
  BY <1>1, <1>2, StopInductive, PTL DEF Spec, ImplementsStop, Stopping!Spec
=============================================================================
