-------------------------- MODULE UserAuth_liveness --------------------------
(***************************************************************************)
(* Every request of user-service comes to its end: proofs for any number   *)
(* of requests, faults and stops.  That a step is enabled cannot be proved *)
(* here; NobodyStuck says it and TLC checks it.  What is proved is the     *)
(* rest: that no handler goes back, that the writes of a login on their    *)
(* way become fewer, and that fairness therefore brings all of them home.  *)
(***************************************************************************)
EXTENDS UserAuth_proofs

\* What is left to be done for a login: one step of its device's write, and one or
\* two of its session's, which goes on to an insert if there is none to update.
Left(q) == (IF dev[q] = "sent" THEN 1 ELSE 0)
             + (IF ses[q] = "sent" THEN 2 ELSE IF ses[q] = "insert" THEN 1 ELSE 0)

Signed(q) == pc[q] \in {"write", "done"}

\* A handler that is through has answered, or its client was cut off; one that waits
\* for its writes has sent them both.
Answered == \A q \in Req : /\ pc[q] = "done" => reply[q] # "waiting"
                           /\ pc[q] = "write" => dev[q] # "none" /\ ses[q] # "none"

LiveInv == TypeInv /\ Answered

\* Where a handler can go in a step, and that a write comes nearer to its end.
Forward(k) ==
  /\ pc[k] \in {"create", "lookup"} => pc'[k] \in {pc[k], "done"}
  /\ pc[k] = "find" => pc'[k] \in {"find", "check", "done"}
  /\ pc[k] = "check" => pc'[k] \in {"check", "write", "done"}
  /\ pc[k] = "write" => pc'[k] \in {"write", "done"}
  /\ pc[k] = "done" => pc'[k] = "done"
  /\ Signed(k) => Left(k)' <= Left(k)
  /\ Answered => /\ pc'[k] = "done" => reply'[k] # "waiting"
                 /\ pc'[k] = "write" => dev'[k] # "none" /\ ses'[k] # "none"

\* No step takes a request back.
LEMMA ForwardStep == ASSUME TypeInv, [Next]_vars, NEW k \in Req PROVE Forward(k)
<1> Stage(k)
  BY DEF TypeInv, Stages
<1> USE DEF store, handlers, bounds, history, TypeInv, TypeOK, HandlerTypeOK, WorldTypeOK, Stage,
            Forward, Signed, Left, Answered, Failure
<1>1. ASSUME NEW q \in Req, Arrive(q) PROVE Forward(k)
  <2>1. CASE RejectBody(q)
    BY <2>1 DEF RejectBody, Begin, Answer
  <2>2. ASSUME NEW c \in Credentials, BeginCredentials(q, c) PROVE Forward(k)
    BY <2>2 DEF BeginCredentials, Begin
  <2>3. ASSUME NEW c, BeginVerify(q, c) PROVE Forward(k)
    BY <2>3 DEF BeginVerify, Begin, Answer
  <2>4. QED
    BY <1>1, <2>1, <2>2, <2>3 DEF Arrive
<1>2. ASSUME NEW q \in Req, Create(q) PROVE Forward(k)
  BY <1>2, ErrorStatuses DEF Create, Outcome, Fault, Answer
<1>3. ASSUME NEW q \in Req, Find(q) PROVE Forward(k)
  BY <1>3 DEF Find
<1>4. ASSUME NEW q \in Req, Refuse(q) PROVE Forward(k)
  BY <1>4 DEF Refuse, Answer
<1>5. ASSUME NEW q \in Req, Sign(q) PROVE Forward(k)
  BY <1>5 DEF Sign
<1>6. ASSUME NEW q \in Req, LoginReply(q) PROVE Forward(k)
  BY <1>6, VerdictCases DEF LoginReply, Answer
<1>7. ASSUME NEW q \in Req, Lookup(q) PROVE Forward(k)
  BY <1>7 DEF Lookup, Answer
<1>8. ASSUME NEW q \in Req, CreateDevice(q) PROVE Forward(k)
  BY <1>8 DEF CreateDevice, Outcome, Fault
<1>9. ASSUME NEW q \in Req, UpdateSession(q) \/ InsertSession(q) PROVE Forward(k)
  BY <1>9 DEF UpdateSession, InsertSession, PutSession, Outcome, Fault
<1>10. ASSUME NEW q \in Req, MissSession(q) \/ DuplicateSession(q) PROVE Forward(k)
  BY <1>10 DEF MissSession, DuplicateSession
<1>11. ASSUME NEW q \in Req, Fail(q) PROVE Forward(k)
  BY <1>11, ErrorStatuses DEF Fail, FailOnly, FailDevice, FailSession, Fault, Answer
<1>12. ASSUME Stop PROVE Forward(k)
  BY <1>12 DEF Stop
<1>13. ASSUME Tick \/ UNCHANGED vars PROVE Forward(k)
  BY <1>13 DEF Tick, vars
<1>14. QED
  BY <1>1, <1>2, <1>3, <1>4, <1>5, <1>6, <1>7, <1>8, <1>9, <1>10, <1>11, <1>12, <1>13
     DEF Next, Handle, Mongo, Finished

\* Answered needs nothing but the types and the stages.
LEMMA LiveInductive == Spec => []LiveInv
<1>1. Init => LiveInv
  BY InitType, InitStages DEF LiveInv, TypeInv, Init, Answered
<1>2. LiveInv /\ [Next]_vars => LiveInv'
  BY NextType, NextStages, ForwardStep DEF LiveInv, TypeInv, Answered, Forward
<1>3. QED
  BY <1>1, <1>2, PTL DEF Spec

\* MongoDB's next step for a login brings one of its writes nearer to its end.
LEMMA MongoStep ==
  ASSUME TypeInv, NEW q \in Req, Mongo(q)
  PROVE  Left(q)' < Left(q) /\ pc' = pc
<1> USE DEF handlers, TypeInv, TypeOK, HandlerTypeOK, Left, Failure
<1>1. CASE CreateDevice(q)
  BY <1>1 DEF CreateDevice
<1>2. CASE UpdateSession(q) \/ InsertSession(q)
  BY <1>2 DEF UpdateSession, InsertSession, PutSession
<1>3. CASE MissSession(q) \/ DuplicateSession(q)
  BY <1>3 DEF MissSession, DuplicateSession
<1>4. QED
  BY <1>1, <1>2, <1>3 DEF Mongo

\* A handler's next step takes it on.
LEMMA HandleStep ==
  ASSUME TypeInv, NEW q \in Req, Handle(q)
  PROVE  /\ pc[q] \in {"create", "lookup", "write"} => pc'[q] = "done"
         /\ pc[q] = "find" => pc'[q] = "check"
         /\ pc[q] = "check" => pc'[q] \in {"write", "done"}
BY DEF TypeInv, TypeOK, HandlerTypeOK, Handle, Create, Find, Refuse, Sign, LoginReply, Lookup

\* When no write of a login is on its way any more there is a verdict to answer it
\* with, and so LoginReply's guard holds: whichever write failed, and however, Promise.all
\* has ended (login).
THEOREM ReplyHasItsCase ==
  Spec => [](\A q \in Req : pc[q] = "write" /\ ~Outstanding(q) => \E status : status \in Verdicts(q))
<1>1. LiveInv => \A q \in Req : pc[q] = "write" /\ ~Outstanding(q) => \E status : status \in Verdicts(q)
  <2> SUFFICES ASSUME LiveInv, NEW q \in Req, pc[q] = "write", ~Outstanding(q)
               PROVE  \E status : status \in Verdicts(q)
    OBVIOUS
  <2>1. /\ dev[q] \in {"ok"} \union Failure
        /\ ses[q] \in {"ok", "E11000"} \union Failure
    BY DEF LiveInv, TypeInv, TypeOK, HandlerTypeOK, Answered, Outstanding
  <2>2. CASE dev[q] = "ok" /\ ses[q] = "ok"
    BY <2>2 DEF Verdicts
  <2>3. CASE \E e \in {dev[q], ses[q]} : e \in Failure \union {"E11000"}
    <3>1. PICK e \in {dev[q], ses[q]} : e \in Failure \union {"E11000"}
      BY <2>3
    <3>2. ErrorStatus(e) \in Verdicts(q)
      BY <3>1 DEF Verdicts
    <3>3. QED
      BY <3>2
  <2>4. QED
    BY <2>1, <2>2, <2>3
<1>2. QED
  BY <1>1, LiveInductive, PTL

-----------------------------------------------------------------------------
(* A request goes through its first operation, the check of a password, the *)
(* writes that are left, and LoginReply.                                    *)

First(q) == pc[q] \in {"create", "find", "lookup"}
Check(q) == pc[q] = "check"
Writes(q, n) == Signed(q) /\ Left(q) <= n
Reply(q) == pc[q] = "write" /\ Left(q) = 0
Through(q) == pc[q] = "done" /\ Left(q) = 0

\* A request that has begun is somewhere on this way; what is left for it says whether
\* a write is outstanding.
LEMMA Where ==
  ASSUME TypeInv, NEW q \in Req
  PROVE  /\ pc[q] # "idle" => First(q) \/ Check(q) \/ Writes(q, 3)
         /\ First(q) \/ Check(q) => ~Outstanding(q)
         /\ Left(q) \in 0..3 /\ (Left(q) = 0 <=> ~Outstanding(q))
<1>1. Stage(q)
  BY DEF TypeInv, Stages
<1>2. QED
  BY <1>1 DEF TypeInv, TypeOK, HandlerTypeOK, Left, Outstanding, Stage, Signed, First, Check, Writes

\* Every request that has begun is answered or cut off with all its writes at their
\* end, if its handler and MongoDB are never stuck.
LEMMA OneSettles ==
  ASSUME NEW q \in Req
  PROVE  Spec /\ []NobodyStuck /\ RequestFairness(q) => RequestSettles(q)
<1>0. (LiveInv => Left(q) \in 0..3) /\ (LiveInv' => Left(q)' \in 0..3)
  BY DEF LiveInv, TypeInv, TypeOK, HandlerTypeOK, Left
<1>1. LiveInv /\ LiveInv' /\ [Next]_vars =>
        /\ First(q) => First(q)' \/ Check(q)' \/ Writes(q, 3)'
        /\ Check(q) => Check(q)' \/ Writes(q, 3)'
        /\ Writes(q, 3) => Writes(q, 3)'
        /\ Writes(q, 2) => Writes(q, 2)'
        /\ Writes(q, 1) => Writes(q, 1)'
        /\ Reply(q) => Reply(q)' \/ Through(q)'
        /\ Writes(q, 0) => Reply(q) \/ Through(q)
  <2> SUFFICES ASSUME LiveInv, LiveInv', [Next]_vars
               PROVE  /\ First(q) => First(q)' \/ Check(q)' \/ Writes(q, 3)'
                      /\ Check(q) => Check(q)' \/ Writes(q, 3)'
                      /\ \A n \in 1..3 : Writes(q, n) => Writes(q, n)'
                      /\ Reply(q) => Reply(q)' \/ Through(q)'
                      /\ Writes(q, 0) => Reply(q) \/ Through(q)
    OBVIOUS
  <2>1. Forward(q)
    BY ForwardStep DEF LiveInv
  <2>2. Left(q) \in 0..3 /\ Left(q)' \in 0..3
    BY <1>0
  <2>3. /\ pc[q] \in {"create", "lookup"} => pc'[q] \in {pc[q], "done"}
        /\ pc[q] = "find" => pc'[q] \in {"find", "check", "done"}
        /\ pc[q] = "check" => pc'[q] \in {"check", "write", "done"}
        /\ pc[q] = "write" => pc'[q] \in {"write", "done"}
        /\ pc[q] = "done" => pc'[q] = "done"
    BY <2>1 DEF Forward
  <2>4. Signed(q) => Signed(q)' /\ Left(q)' <= Left(q)
    BY <2>1, <2>3 DEF Forward, Signed
  <2>5. \A n \in 1..3 : Writes(q, n) => Writes(q, n)'
    BY <2>2, <2>4 DEF Writes
  <2>6. Reply(q) => Reply(q)' \/ Through(q)'
    BY <2>2, <2>3, <2>4 DEF Reply, Through, Signed
  <2>7. Writes(q, 0) => Reply(q) \/ Through(q)
    BY <2>2 DEF Reply, Through, Signed, Writes
  <2>8. /\ First(q) => First(q)' \/ Check(q)' \/ Writes(q, 3)'
        /\ Check(q) => Check(q)' \/ Writes(q, 3)'
    BY <2>2, <2>3 DEF First, Check, Writes, Signed
  <2>9. QED
    BY <2>5, <2>6, <2>7, <2>8
<1>2. LiveInv /\ LiveInv' /\ <<Mongo(q)>>_vars =>
        /\ Writes(q, 3) => Writes(q, 2)'
        /\ Writes(q, 2) => Writes(q, 1)'
        /\ Writes(q, 1) => Writes(q, 0)'
  <2> SUFFICES ASSUME LiveInv, LiveInv', Mongo(q)
               PROVE  \A n \in 1..3 : Writes(q, n) => Writes(q, n - 1)'
    OBVIOUS
  <2>1. Left(q) \in 0..3 /\ Left(q)' \in 0..3
    BY <1>0
  <2>2. Left(q)' < Left(q) /\ (Signed(q) => Signed(q)')
    BY MongoStep DEF LiveInv, Signed
  <2>3. QED
    BY <2>1, <2>2 DEF Writes
<1>3. LiveInv /\ LiveInv' /\ <<Handle(q)>>_vars =>
        /\ First(q) => Check(q)' \/ Writes(q, 3)'
        /\ Check(q) => Writes(q, 3)'
        /\ Reply(q) => Through(q)'
  <2> SUFFICES ASSUME LiveInv, LiveInv', Handle(q), [Next]_vars
               PROVE  /\ First(q) => Check(q)' \/ Writes(q, 3)'
                      /\ Check(q) => Writes(q, 3)'
                      /\ Reply(q) => Through(q)'
    BY DEF Next
  <2>1. Left(q) \in 0..3 /\ Left(q)' \in 0..3
    BY <1>0
  <2>2. Signed(q) => Left(q)' <= Left(q)
    BY ForwardStep DEF LiveInv, Forward
  <2>3. /\ pc[q] \in {"create", "lookup", "write"} => pc'[q] = "done"
        /\ pc[q] = "find" => pc'[q] = "check"
        /\ pc[q] = "check" => pc'[q] \in {"write", "done"}
    BY HandleStep DEF LiveInv
  <2>4. Reply(q) => Through(q)'
    BY <2>1, <2>2, <2>3 DEF Reply, Through, Signed
  <2>5. QED
    BY <2>1, <2>3, <2>4 DEF First, Check, Writes, Signed
<1>4. LiveInv /\ NobodyStuck =>
        /\ First(q) \/ Check(q) \/ Reply(q) => ENABLED <<Handle(q)>>_vars
        /\ Writes(q, 3) => Writes(q, 2) \/ ENABLED <<Mongo(q)>>_vars
        /\ Writes(q, 2) => Writes(q, 1) \/ ENABLED <<Mongo(q)>>_vars
        /\ Writes(q, 1) => Writes(q, 0) \/ ENABLED <<Mongo(q)>>_vars
  BY Where DEF LiveInv, NobodyStuck, First, Check, Reply, Writes
<1>5. LiveInv => /\ pc[q] # "idle" => First(q) \/ Check(q) \/ Writes(q, 3)
                 /\ Through(q) => Settled(q) /\ reply[q] # "waiting"
  BY Where DEF LiveInv, Answered, Through, Settled, Outstanding
<1>6. QED
  BY <1>1, <1>2, <1>3, <1>4, <1>5, LiveInductive, PTL DEF Spec, RequestFairness, RequestSettles

\* Every request is answered or cut off and no write of it stays behind, for any
\* number of requests: if only NobodyStuck holds, which TLC checks.
THEOREM AllSettle == FairSpec /\ []NobodyStuck => AnsweredAndSettled
<1> SUFFICES ASSUME NEW q \in Req
             PROVE  FairSpec /\ []NobodyStuck => RequestSettles(q)
  BY DEF AnsweredAndSettled
<1>1. FairSpec => Spec /\ RequestFairness(q)
  BY DEF FairSpec
<1>2. QED
  BY <1>1, OneSettles, PTL
=============================================================================
