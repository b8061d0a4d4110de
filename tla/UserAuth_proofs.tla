-------------------------- MODULE UserAuth_proofs --------------------------
(***************************************************************************)
(* Proofs about UserAuth, for any requests, emails, passwords and token    *)
(* life, and for any number of faults and stops.                           *)
(***************************************************************************)
EXTENDS UserAuth, TLAPS

-----------------------------------------------------------------------------
(* Type correctness *)

\* What is known of a request by where its handler is: the type invariant needs
\* it, since only some calls have an email, a password or a token.
Stage(q) ==
  /\ pc[q] = "idle" => call[q].op = "none" /\ reply[q] = "waiting"
  /\ pc[q] = "create" => Register(q)
  /\ pc[q] \in {"find", "check", "write"} => Login(q)
  /\ pc[q] = "lookup" => call[q].op = "verify"
  /\ pc[q] \in {"idle", "create", "find", "check", "lookup"} => token[q] = {}
  /\ token[q] = {} => dev[q] = "none" /\ ses[q] = "none"
  /\ token[q] # {} => Login(q)
  /\ reply[q] = "200" => pc[q] = "done"
  /\ Login(q) /\ reply[q] = "200" => dev[q] = "ok" /\ ses[q] = "ok"

Stages == \A q \in Req : Stage(q)

\* The fields a call has follow from what it asks for.
LEMMA CallFields ==
  ASSUME NEW c \in Call
  PROVE  /\ c.op \in {"register", "login"} => c.email \in Email /\ c.password \in Password
         /\ c.op = "verify" => c.token \in Token
BY DEF Call, Credentials

\* An error is answered 400 or 500 (the catch of each method of UserController).
LEMMA ErrorStatuses == \A e : ErrorStatus(e) \in {"400", "500"}
  BY DEF ErrorStatus

\* What Promise.all can end a login with: 200 takes both writes (login).
LEMMA VerdictCases ==
  \A q \in Req : /\ Verdicts(q) \subseteq {"200", "400", "500"}
                 /\ "200" \in Verdicts(q) => dev[q] = "ok" /\ ses[q] = "ok"
<1> SUFFICES ASSUME NEW q \in Req
             PROVE  /\ Verdicts(q) \subseteq {"200", "400", "500"}
                    /\ "200" \in Verdicts(q) => dev[q] = "ok" /\ ses[q] = "ok"
  OBVIOUS
<1>1. ASSUME NEW s \in Verdicts(q)
      PROVE  s \in {"400", "500"} \/ (s = "200" /\ dev[q] = "ok" /\ ses[q] = "ok")
  BY <1>1, ErrorStatuses DEF Verdicts
<1> QED
  BY <1>1

\* The initial state has the types of TypeOK.
LEMMA InitType == Init => TypeOK
<1> USE BoundsAssumption DEF Init
<1>1. Init => StoreTypeOK
  BY DEF StoreTypeOK
<1>2. Init => HandlerTypeOK
  BY DEF HandlerTypeOK, Call
<1>3. Init => WorldTypeOK
  BY DEF WorldTypeOK
<1>4. QED
  BY <1>1, <1>2, <1>3 DEF TypeOK

\* Every step of a handler, of MongoDB or of the surroundings keeps the types.
LEMMA NextType == TypeOK /\ Stages /\ [Next]_vars => TypeOK'
<1> SUFFICES ASSUME TypeOK, Stages, [Next]_vars PROVE TypeOK'
  OBVIOUS
<1> USE BoundsAssumption DEF store, handlers, bounds, history, TypeOK
<1>1. ASSUME NEW q \in Req, RejectBody(q) PROVE TypeOK'
  <2>1. StoreTypeOK'
    BY <1>1 DEF RejectBody, Begin, Answer, StoreTypeOK, HandlerTypeOK
  <2>2. HandlerTypeOK'
    BY <1>1 DEF RejectBody, Begin, Answer, StoreTypeOK, HandlerTypeOK, WorldTypeOK, Call
  <2>3. WorldTypeOK'
    BY <1>1 DEF RejectBody, Begin, Answer, WorldTypeOK
  <2>4. QED
    BY <2>1, <2>2, <2>3
<1>2. ASSUME NEW q \in Req, NEW c \in Credentials, BeginCredentials(q, c) PROVE TypeOK'
  <2>1. StoreTypeOK'
    BY <1>2 DEF BeginCredentials, Begin, StoreTypeOK, HandlerTypeOK
  <2>2. HandlerTypeOK'
    BY <1>2 DEF BeginCredentials, Begin, StoreTypeOK, HandlerTypeOK, WorldTypeOK, Call
  <2>3. WorldTypeOK'
    BY <1>2 DEF BeginCredentials, Begin, WorldTypeOK
  <2>4. QED
    BY <2>1, <2>2, <2>3
<1>3. ASSUME NEW q \in Req, NEW t \in Issued, BeginVerify(q, [op |-> "verify", token |-> t]) PROVE TypeOK'
  <2>1. StoreTypeOK'
    BY <1>3 DEF BeginVerify, Begin, Answer, StoreTypeOK, HandlerTypeOK
  <2>2. HandlerTypeOK'
    BY <1>3 DEF BeginVerify, Begin, Answer, StoreTypeOK, HandlerTypeOK, WorldTypeOK, Call, Issued
  <2>3. WorldTypeOK'
    BY <1>3 DEF BeginVerify, Begin, Answer, WorldTypeOK
  <2>4. QED
    BY <2>1, <2>2, <2>3
<1>4. ASSUME NEW q \in Req, BeginVerify(q, [op |-> "forged"]) PROVE TypeOK'
  <2>1. StoreTypeOK'
    BY <1>4 DEF BeginVerify, Begin, Answer, StoreTypeOK, HandlerTypeOK
  <2>2. HandlerTypeOK'
    BY <1>4 DEF BeginVerify, Begin, Answer, StoreTypeOK, HandlerTypeOK, WorldTypeOK, Call
  <2>3. WorldTypeOK'
    BY <1>4 DEF BeginVerify, Begin, Answer, WorldTypeOK
  <2>4. QED
    BY <2>1, <2>2, <2>3
<1>5. ASSUME NEW q \in Req, Create(q) PROVE TypeOK'
  <2> NewUser(q) \in User
    BY <1>5, CallFields DEF Create, Stages, Stage, Register, Login, HandlerTypeOK, NewUser, User
  <2>1. StoreTypeOK'
    BY <1>5, ErrorStatuses DEF Create, Outcome, Fault, Answer, StoreTypeOK, HandlerTypeOK
  <2>2. HandlerTypeOK'
    BY <1>5, ErrorStatuses DEF Create, Outcome, Fault, Answer, StoreTypeOK, HandlerTypeOK, WorldTypeOK
  <2>3. WorldTypeOK'
    BY <1>5, ErrorStatuses DEF Create, Outcome, Fault, Answer, WorldTypeOK
  <2>4. QED
    BY <2>1, <2>2, <2>3
<1>6. ASSUME NEW q \in Req, Find(q) PROVE TypeOK'
  <2>1. StoreTypeOK'
    BY <1>6 DEF Find, StoreTypeOK, HandlerTypeOK
  <2>2. HandlerTypeOK'
    BY <1>6 DEF Find, StoreTypeOK, HandlerTypeOK, WorldTypeOK
  <2>3. WorldTypeOK'
    BY <1>6 DEF Find, WorldTypeOK
  <2>4. QED
    BY <2>1, <2>2, <2>3
<1>7. ASSUME NEW q \in Req, Refuse(q) PROVE TypeOK'
  <2>1. StoreTypeOK'
    BY <1>7 DEF Refuse, Answer, StoreTypeOK, HandlerTypeOK
  <2>2. HandlerTypeOK'
    BY <1>7 DEF Refuse, Answer, StoreTypeOK, HandlerTypeOK, WorldTypeOK
  <2>3. WorldTypeOK'
    BY <1>7 DEF Refuse, Answer, WorldTypeOK
  <2>4. QED
    BY <2>1, <2>2, <2>3
<1>8. ASSUME NEW q \in Req, Sign(q) PROVE TypeOK'
  <2> call[q].email \in Email
    BY <1>8, CallFields DEF Sign, Stages, Stage, Register, Login, HandlerTypeOK
  <2>1. StoreTypeOK'
    BY <1>8 DEF Sign, StoreTypeOK, HandlerTypeOK
  <2>2. HandlerTypeOK'
    BY <1>8 DEF Sign, StoreTypeOK, HandlerTypeOK, WorldTypeOK, Token
  <2>3. WorldTypeOK'
    BY <1>8 DEF Sign, WorldTypeOK
  <2>4. QED
    BY <2>1, <2>2, <2>3
<1>9. ASSUME NEW q \in Req, LoginReply(q) PROVE TypeOK'
  <2>1. StoreTypeOK'
    BY <1>9, VerdictCases DEF LoginReply, Answer, StoreTypeOK, HandlerTypeOK
  <2>2. HandlerTypeOK'
    BY <1>9, VerdictCases DEF LoginReply, Answer, StoreTypeOK, HandlerTypeOK, WorldTypeOK
  <2>3. WorldTypeOK'
    BY <1>9, VerdictCases DEF LoginReply, Answer, WorldTypeOK
  <2>4. QED
    BY <2>1, <2>2, <2>3
<1>10. ASSUME NEW q \in Req, Lookup(q) PROVE TypeOK'
  <2>1. StoreTypeOK'
    BY <1>10 DEF Lookup, Answer, StoreTypeOK, HandlerTypeOK
  <2>2. HandlerTypeOK'
    BY <1>10 DEF Lookup, Answer, StoreTypeOK, HandlerTypeOK, WorldTypeOK
  <2>3. WorldTypeOK'
    BY <1>10 DEF Lookup, Answer, WorldTypeOK
  <2>4. QED
    BY <2>1, <2>2, <2>3
<1>11. ASSUME NEW q \in Req, CreateDevice(q) PROVE TypeOK'
  <2>1. StoreTypeOK'
    BY <1>11 DEF CreateDevice, Outcome, Fault, StoreTypeOK, HandlerTypeOK
  <2>2. HandlerTypeOK'
    BY <1>11 DEF CreateDevice, Outcome, Fault, StoreTypeOK, HandlerTypeOK, WorldTypeOK
  <2>3. WorldTypeOK'
    BY <1>11 DEF CreateDevice, Outcome, Fault, WorldTypeOK
  <2>4. QED
    BY <2>1, <2>2, <2>3
<1>12. ASSUME NEW q \in Req, UpdateSession(q) PROVE TypeOK'
  <2> call[q].email \in Email /\ token[q] \subseteq Token
    BY <1>12, CallFields DEF UpdateSession, Stages, Stage, Register, Login, HandlerTypeOK
  <2>1. StoreTypeOK'
    <3>1. [email : {call[q].email}, token : token[q], by : {q}] \subseteq Session
      BY DEF Session
    <3>2. QED
      BY <1>12, <3>1 DEF UpdateSession, PutSession, StoreTypeOK
  <2>2. HandlerTypeOK'
    BY <1>12 DEF UpdateSession, PutSession, Outcome, Fault, StoreTypeOK, HandlerTypeOK, WorldTypeOK
  <2>3. WorldTypeOK'
    BY <1>12 DEF UpdateSession, PutSession, Outcome, Fault, WorldTypeOK
  <2>4. QED
    BY <2>1, <2>2, <2>3
<1>13. ASSUME NEW q \in Req, MissSession(q) PROVE TypeOK'
  <2>1. StoreTypeOK'
    BY <1>13 DEF MissSession, StoreTypeOK, HandlerTypeOK
  <2>2. HandlerTypeOK'
    BY <1>13 DEF MissSession, StoreTypeOK, HandlerTypeOK, WorldTypeOK
  <2>3. WorldTypeOK'
    BY <1>13 DEF MissSession, WorldTypeOK
  <2>4. QED
    BY <2>1, <2>2, <2>3
<1>14. ASSUME NEW q \in Req, InsertSession(q) PROVE TypeOK'
  <2> call[q].email \in Email /\ token[q] \subseteq Token
    BY <1>14, CallFields DEF InsertSession, Stages, Stage, Register, Login, HandlerTypeOK
  <2>1. StoreTypeOK'
    <3>1. [email : {call[q].email}, token : token[q], by : {q}] \subseteq Session
      BY DEF Session
    <3>2. QED
      BY <1>14, <3>1 DEF InsertSession, PutSession, StoreTypeOK
  <2>2. HandlerTypeOK'
    BY <1>14 DEF InsertSession, PutSession, Outcome, Fault, StoreTypeOK, HandlerTypeOK, WorldTypeOK
  <2>3. WorldTypeOK'
    BY <1>14 DEF InsertSession, PutSession, Outcome, Fault, WorldTypeOK
  <2>4. QED
    BY <2>1, <2>2, <2>3
<1>15. ASSUME NEW q \in Req, DuplicateSession(q) PROVE TypeOK'
  <2>1. StoreTypeOK'
    BY <1>15 DEF DuplicateSession, StoreTypeOK, HandlerTypeOK
  <2>2. HandlerTypeOK'
    BY <1>15 DEF DuplicateSession, StoreTypeOK, HandlerTypeOK, WorldTypeOK
  <2>3. WorldTypeOK'
    BY <1>15 DEF DuplicateSession, WorldTypeOK
  <2>4. QED
    BY <2>1, <2>2, <2>3
<1>16. ASSUME NEW q \in Req, FailOnly(q) PROVE TypeOK'
  <2>1. StoreTypeOK'
    BY <1>16, ErrorStatuses DEF FailOnly, Fault, Answer, StoreTypeOK, HandlerTypeOK
  <2>2. HandlerTypeOK'
    BY <1>16, ErrorStatuses DEF FailOnly, Fault, Answer, StoreTypeOK, HandlerTypeOK, WorldTypeOK
  <2>3. WorldTypeOK'
    BY <1>16, ErrorStatuses DEF FailOnly, Fault, Answer, WorldTypeOK
  <2>4. QED
    BY <2>1, <2>2, <2>3
<1>17. ASSUME NEW q \in Req, FailDevice(q) PROVE TypeOK'
  <2>1. StoreTypeOK'
    BY <1>17 DEF FailDevice, Fault, StoreTypeOK, HandlerTypeOK
  <2>2. HandlerTypeOK'
    BY <1>17 DEF FailDevice, Fault, StoreTypeOK, HandlerTypeOK, WorldTypeOK
  <2>3. WorldTypeOK'
    BY <1>17 DEF FailDevice, Fault, WorldTypeOK
  <2>4. QED
    BY <2>1, <2>2, <2>3
<1>18. ASSUME NEW q \in Req, FailSession(q) PROVE TypeOK'
  <2>1. StoreTypeOK'
    BY <1>18 DEF FailSession, Fault, StoreTypeOK, HandlerTypeOK
  <2>2. HandlerTypeOK'
    BY <1>18 DEF FailSession, Fault, StoreTypeOK, HandlerTypeOK, WorldTypeOK
  <2>3. WorldTypeOK'
    BY <1>18 DEF FailSession, Fault, WorldTypeOK
  <2>4. QED
    BY <2>1, <2>2, <2>3
<1>19. ASSUME Stop PROVE TypeOK'
  BY <1>19 DEF Stop, StoreTypeOK, HandlerTypeOK, WorldTypeOK
<1>20. ASSUME Tick PROVE TypeOK'
  BY <1>20 DEF Tick, StoreTypeOK, HandlerTypeOK, WorldTypeOK
<1>21. ASSUME UNCHANGED vars PROVE TypeOK'
  BY <1>21 DEF vars, StoreTypeOK, HandlerTypeOK, WorldTypeOK
<1>22. QED
  BY <1>1, <1>2, <1>3, <1>4, <1>5, <1>6, <1>7, <1>8, <1>9, <1>10, <1>11, <1>12, <1>13, <1>14,
     <1>15, <1>16, <1>17, <1>18, <1>19, <1>20, <1>21
     DEF Next, Arrive, Handle, Mongo, Fail, Finished

\* No handler has begun in the initial state.
LEMMA InitStages == Init => Stages
BY DEF Init, Stages, Stage, Register, Login

\* A step changes the stage of one request, or stops them all.
LEMMA NextStages == TypeOK /\ Stages /\ [Next]_vars => Stages'
<1> SUFFICES ASSUME TypeOK, Stages, [Next]_vars, NEW k \in Req PROVE Stage(k)'
  BY DEF Stages
<1> Stage(k)
  BY DEF Stages
<1> USE DEF store, handlers, bounds, history, TypeOK, HandlerTypeOK, Stage, Register, Login
<1>1. ASSUME NEW q \in Req, RejectBody(q) PROVE Stage(k)'
  BY <1>1 DEF RejectBody, Begin, Answer
<1>2. ASSUME NEW q \in Req, NEW c \in Credentials, BeginCredentials(q, c) PROVE Stage(k)'
  BY <1>2 DEF BeginCredentials, Begin, Call, Credentials
<1>3. ASSUME NEW q \in Req, NEW t \in Issued, BeginVerify(q, [op |-> "verify", token |-> t]) PROVE Stage(k)'
  BY <1>3 DEF BeginVerify, Begin, Answer, VerifyJwt
<1>4. ASSUME NEW q \in Req, BeginVerify(q, [op |-> "forged"]) PROVE Stage(k)'
  BY <1>4 DEF BeginVerify, Begin, Answer, VerifyJwt
<1>5. ASSUME NEW q \in Req, Create(q) PROVE Stage(k)'
  BY <1>5, ErrorStatuses DEF Create, Outcome, Fault, Answer
<1>6. ASSUME NEW q \in Req, Find(q) PROVE Stage(k)'
  BY <1>6 DEF Find
<1>7. ASSUME NEW q \in Req, Refuse(q) PROVE Stage(k)'
  BY <1>7 DEF Refuse, Answer
<1>8. ASSUME NEW q \in Req, Sign(q) PROVE Stage(k)'
  BY <1>8 DEF Sign
<1>9. ASSUME NEW q \in Req, LoginReply(q) PROVE Stage(k)'
  BY <1>9, VerdictCases DEF LoginReply, Answer
<1>10. ASSUME NEW q \in Req, Lookup(q) PROVE Stage(k)'
  BY <1>10 DEF Lookup, Answer
<1>11. ASSUME NEW q \in Req, CreateDevice(q) PROVE Stage(k)'
  BY <1>11 DEF CreateDevice, Outcome, Fault
<1>12. ASSUME NEW q \in Req, UpdateSession(q) PROVE Stage(k)'
  BY <1>12 DEF UpdateSession, PutSession, Outcome, Fault
<1>13. ASSUME NEW q \in Req, MissSession(q) PROVE Stage(k)'
  BY <1>13 DEF MissSession
<1>14. ASSUME NEW q \in Req, InsertSession(q) PROVE Stage(k)'
  BY <1>14 DEF InsertSession, PutSession, Outcome, Fault
<1>15. ASSUME NEW q \in Req, DuplicateSession(q) PROVE Stage(k)'
  BY <1>15 DEF DuplicateSession
<1>16. ASSUME NEW q \in Req, FailOnly(q) PROVE Stage(k)'
  BY <1>16, ErrorStatuses DEF FailOnly, Fault, Answer
<1>17. ASSUME NEW q \in Req, FailDevice(q) PROVE Stage(k)'
  BY <1>17 DEF FailDevice, Fault
<1>18. ASSUME NEW q \in Req, FailSession(q) PROVE Stage(k)'
  BY <1>18 DEF FailSession, Fault
<1>19. ASSUME Stop PROVE Stage(k)'
  BY <1>19 DEF Stop
<1>20. ASSUME Tick PROVE Stage(k)'
  BY <1>20 DEF Tick
<1>21. ASSUME UNCHANGED vars PROVE Stage(k)'
  BY <1>21 DEF vars
<1>22. QED
  BY <1>1, <1>2, <1>3, <1>4, <1>5, <1>6, <1>7, <1>8, <1>9, <1>10, <1>11, <1>12, <1>13, <1>14,
     <1>15, <1>16, <1>17, <1>18, <1>19, <1>20, <1>21
     DEF Next, Arrive, Handle, Mongo, Fail, Finished

\* The values of the state are of their types, for any number of requests.
THEOREM TypeCorrect == Spec => []TypeOK
<1>1. Init => TypeOK /\ Stages
  BY InitType, InitStages
<1>2. TypeOK /\ Stages /\ [Next]_vars => (TypeOK /\ Stages)'
  BY NextType, NextStages
<1>3. QED
  BY <1>1, <1>2, PTL DEF Spec

-----------------------------------------------------------------------------
(* What a step leaves alone *)

TypeInv == TypeOK /\ Stages

\* Once a request has begun, what it asks for and what came before it is fixed.
\* A token that was signed, a request that is settled and a document of users
\* or devices stay as they are.
LEMMA Kept ==
  ASSUME TypeInv, [Next]_vars, NEW k \in Req
  PROVE  /\ pc[k] # "idle" => /\ call'[k] = call[k] /\ earlier'[k] = earlier[k]
                              /\ startedAt'[k] = startedAt[k]
         /\ token[k] # {} => token'[k] = token[k]
         /\ Settled(k) => Settled(k)' /\ reply'[k] = reply[k]
         /\ users \subseteq users' /\ devices \subseteq devices'
<1> DEFINE Goal == /\ pc[k] # "idle" => /\ call'[k] = call[k] /\ earlier'[k] = earlier[k]
                                        /\ startedAt'[k] = startedAt[k]
                   /\ token[k] # {} => token'[k] = token[k]
                   /\ Settled(k) => Settled(k)' /\ reply'[k] = reply[k]
                   /\ users \subseteq users' /\ devices \subseteq devices'
<1> SUFFICES Goal
  OBVIOUS
<1> Stage(k)
  BY DEF TypeInv, Stages
<1> USE DEF store, handlers, bounds, history, TypeInv, TypeOK, HandlerTypeOK, WorldTypeOK, Stage, Settled
<1>1. ASSUME NEW q \in Req, RejectBody(q) PROVE Goal
  BY <1>1 DEF RejectBody, Begin, Answer
<1>2. ASSUME NEW q \in Req, NEW c \in Credentials, BeginCredentials(q, c) PROVE Goal
  BY <1>2 DEF BeginCredentials, Begin
<1>3. ASSUME NEW q \in Req, NEW t \in Issued, BeginVerify(q, [op |-> "verify", token |-> t]) PROVE Goal
  BY <1>3 DEF BeginVerify, Begin, Answer
<1>4. ASSUME NEW q \in Req, BeginVerify(q, [op |-> "forged"]) PROVE Goal
  BY <1>4 DEF BeginVerify, Begin, Answer
<1>5. ASSUME NEW q \in Req, Create(q) PROVE Goal
  BY <1>5, ErrorStatuses DEF Create, Outcome, Fault, Answer
<1>6. ASSUME NEW q \in Req, Find(q) PROVE Goal
  BY <1>6 DEF Find
<1>7. ASSUME NEW q \in Req, Refuse(q) PROVE Goal
  BY <1>7 DEF Refuse, Answer
<1>8. ASSUME NEW q \in Req, Sign(q) PROVE Goal
  BY <1>8 DEF Sign
<1>9. ASSUME NEW q \in Req, LoginReply(q) PROVE Goal
  BY <1>9, VerdictCases DEF LoginReply, Answer
<1>10. ASSUME NEW q \in Req, Lookup(q) PROVE Goal
  BY <1>10 DEF Lookup, Answer
<1>11. ASSUME NEW q \in Req, CreateDevice(q) PROVE Goal
  BY <1>11 DEF CreateDevice, Outcome, Fault
<1>12. ASSUME NEW q \in Req, UpdateSession(q) PROVE Goal
  BY <1>12 DEF UpdateSession, PutSession, Outcome, Fault
<1>13. ASSUME NEW q \in Req, MissSession(q) PROVE Goal
  BY <1>13 DEF MissSession
<1>14. ASSUME NEW q \in Req, InsertSession(q) PROVE Goal
  BY <1>14 DEF InsertSession, PutSession, Outcome, Fault
<1>15. ASSUME NEW q \in Req, DuplicateSession(q) PROVE Goal
  BY <1>15 DEF DuplicateSession
<1>16. ASSUME NEW q \in Req, FailOnly(q) PROVE Goal
  BY <1>16, ErrorStatuses DEF FailOnly, Fault, Answer
<1>17. ASSUME NEW q \in Req, FailDevice(q) PROVE Goal
  BY <1>17 DEF FailDevice, Fault
<1>18. ASSUME NEW q \in Req, FailSession(q) PROVE Goal
  BY <1>18 DEF FailSession, Fault
<1>19. ASSUME Stop PROVE Goal
  BY <1>19 DEF Stop
<1>20. ASSUME Tick PROVE Goal
  BY <1>20 DEF Tick
<1>21. ASSUME UNCHANGED vars PROVE Goal
  BY <1>21 DEF vars
<1>22. QED
  BY <1>1, <1>2, <1>3, <1>4, <1>5, <1>6, <1>7, <1>8, <1>9, <1>10, <1>11, <1>12, <1>13, <1>14,
     <1>15, <1>16, <1>17, <1>18, <1>19, <1>20, <1>21
     DEF Next, Arrive, Handle, Mongo, Fail, Finished

-----------------------------------------------------------------------------
(* What a step changes, and when *)

UserAdded(q) == /\ pc[q] = "create" /\ ~EmailTaken(call[q].email)
                /\ users' = users \union {NewUser(q)} /\ call' = call

\* Only createUser changes users: it adds one, if the email is free.
LEMMA UsersStep ==
  ASSUME TypeInv, [Next]_vars
  PROVE  users' = users \/ \E q \in Req : UserAdded(q)
<1> USE DEF store, handlers, bounds, history, UserAdded
<1>1. ASSUME NEW q \in Req, Arrive(q) PROVE users' = users \/ \E k \in Req : UserAdded(k)
  <2>1. CASE RejectBody(q)
    BY <2>1 DEF RejectBody, Begin, Answer
  <2>2. ASSUME NEW c \in Credentials, BeginCredentials(q, c) PROVE users' = users \/ \E k \in Req : UserAdded(k)
    BY <2>2 DEF BeginCredentials, Begin
  <2>3. ASSUME NEW t \in Issued, BeginVerify(q, [op |-> "verify", token |-> t]) PROVE users' = users \/ \E k \in Req : UserAdded(k)
    BY <2>3 DEF BeginVerify, Begin, Answer
  <2>4. CASE BeginVerify(q, [op |-> "forged"])
    BY <2>4 DEF BeginVerify, Begin, Answer
  <2>5. QED
    BY <1>1, <2>1, <2>2, <2>3, <2>4 DEF Arrive
<1>2. ASSUME NEW q \in Req, Create(q) PROVE users' = users \/ \E k \in Req : UserAdded(k)
  BY <1>2, ErrorStatuses DEF Create, Outcome, Fault, Answer
<1>3. ASSUME NEW q \in Req, Find(q) PROVE users' = users \/ \E k \in Req : UserAdded(k)
  BY <1>3 DEF Find
<1>4. ASSUME NEW q \in Req, Refuse(q) PROVE users' = users \/ \E k \in Req : UserAdded(k)
  BY <1>4 DEF Refuse, Answer
<1>5. ASSUME NEW q \in Req, Sign(q) PROVE users' = users \/ \E k \in Req : UserAdded(k)
  BY <1>5 DEF Sign
<1>6. ASSUME NEW q \in Req, LoginReply(q) PROVE users' = users \/ \E k \in Req : UserAdded(k)
  BY <1>6, VerdictCases DEF LoginReply, Answer
<1>7. ASSUME NEW q \in Req, Lookup(q) PROVE users' = users \/ \E k \in Req : UserAdded(k)
  BY <1>7 DEF Lookup, Answer
<1>8. ASSUME NEW q \in Req, CreateDevice(q) PROVE users' = users \/ \E k \in Req : UserAdded(k)
  BY <1>8 DEF CreateDevice, Outcome, Fault
<1>9. ASSUME NEW q \in Req, UpdateSession(q) \/ InsertSession(q) PROVE users' = users \/ \E k \in Req : UserAdded(k)
  BY <1>9 DEF UpdateSession, InsertSession, PutSession, Outcome, Fault
<1>10. ASSUME NEW q \in Req, MissSession(q) \/ DuplicateSession(q) PROVE users' = users \/ \E k \in Req : UserAdded(k)
  BY <1>10 DEF MissSession, DuplicateSession
<1>11. ASSUME NEW q \in Req, Fail(q) PROVE users' = users \/ \E k \in Req : UserAdded(k)
  BY <1>11, ErrorStatuses DEF Fail, FailOnly, FailDevice, FailSession, Fault, Answer
<1>12. ASSUME Stop \/ Tick \/ UNCHANGED vars PROVE users' = users \/ \E k \in Req : UserAdded(k)
  BY <1>12 DEF Stop, Tick, vars
<1>13. QED
  BY <1>1, <1>2, <1>3, <1>4, <1>5, <1>6, <1>7, <1>8, <1>9, <1>10, <1>11, <1>12 DEF Next, Handle,
     Mongo, Finished

SessionPut(q) == /\ ses[q] \in {"sent", "insert"}
                 /\ sessions' = {s \in sessions : s.email # call[q].email}
                                  \union [email : {call[q].email}, token : token[q], by : {q}]
                 /\ call' = call /\ token' = token /\ earlier' = earlier /\ users' = users

\* Only the upsert of login changes sessions.
LEMMA SessionsStep ==
  ASSUME TypeInv, [Next]_vars
  PROVE  sessions' = sessions \/ \E q \in Req : SessionPut(q)
<1> USE DEF store, handlers, bounds, history, SessionPut
<1>1. ASSUME NEW q \in Req, Arrive(q) PROVE sessions' = sessions \/ \E k \in Req : SessionPut(k)
  <2>1. CASE RejectBody(q)
    BY <2>1 DEF RejectBody, Begin, Answer
  <2>2. ASSUME NEW c \in Credentials, BeginCredentials(q, c) PROVE sessions' = sessions \/ \E k \in Req : SessionPut(k)
    BY <2>2 DEF BeginCredentials, Begin
  <2>3. ASSUME NEW t \in Issued, BeginVerify(q, [op |-> "verify", token |-> t]) PROVE sessions' = sessions \/ \E k \in Req : SessionPut(k)
    BY <2>3 DEF BeginVerify, Begin, Answer
  <2>4. CASE BeginVerify(q, [op |-> "forged"])
    BY <2>4 DEF BeginVerify, Begin, Answer
  <2>5. QED
    BY <1>1, <2>1, <2>2, <2>3, <2>4 DEF Arrive
<1>2. ASSUME NEW q \in Req, Create(q) PROVE sessions' = sessions \/ \E k \in Req : SessionPut(k)
  BY <1>2, ErrorStatuses DEF Create, Outcome, Fault, Answer
<1>3. ASSUME NEW q \in Req, Find(q) PROVE sessions' = sessions \/ \E k \in Req : SessionPut(k)
  BY <1>3 DEF Find
<1>4. ASSUME NEW q \in Req, Refuse(q) PROVE sessions' = sessions \/ \E k \in Req : SessionPut(k)
  BY <1>4 DEF Refuse, Answer
<1>5. ASSUME NEW q \in Req, Sign(q) PROVE sessions' = sessions \/ \E k \in Req : SessionPut(k)
  BY <1>5 DEF Sign
<1>6. ASSUME NEW q \in Req, LoginReply(q) PROVE sessions' = sessions \/ \E k \in Req : SessionPut(k)
  BY <1>6, VerdictCases DEF LoginReply, Answer
<1>7. ASSUME NEW q \in Req, Lookup(q) PROVE sessions' = sessions \/ \E k \in Req : SessionPut(k)
  BY <1>7 DEF Lookup, Answer
<1>8. ASSUME NEW q \in Req, CreateDevice(q) PROVE sessions' = sessions \/ \E k \in Req : SessionPut(k)
  BY <1>8 DEF CreateDevice, Outcome, Fault
<1>9. ASSUME NEW q \in Req, UpdateSession(q) \/ InsertSession(q) PROVE sessions' = sessions \/ \E k \in Req : SessionPut(k)
  BY <1>9 DEF UpdateSession, InsertSession, PutSession, Outcome, Fault
<1>10. ASSUME NEW q \in Req, MissSession(q) \/ DuplicateSession(q) PROVE sessions' = sessions \/ \E k \in Req : SessionPut(k)
  BY <1>10 DEF MissSession, DuplicateSession
<1>11. ASSUME NEW q \in Req, Fail(q) PROVE sessions' = sessions \/ \E k \in Req : SessionPut(k)
  BY <1>11, ErrorStatuses DEF Fail, FailOnly, FailDevice, FailSession, Fault, Answer
<1>12. ASSUME Stop \/ Tick \/ UNCHANGED vars PROVE sessions' = sessions \/ \E k \in Req : SessionPut(k)
  BY <1>12 DEF Stop, Tick, vars
<1>13. QED
  BY <1>1, <1>2, <1>3, <1>4, <1>5, <1>6, <1>7, <1>8, <1>9, <1>10, <1>11, <1>12 DEF Next, Handle,
     Mongo, Finished

\* A call is set when its request comes in; a token that comes with it was issued.
LEMMA CallStep ==
  ASSUME TypeInv, [Next]_vars, NEW k \in Req
  PROVE  \/ call'[k] = call[k] /\ earlier'[k] = earlier[k]
         \/ /\ pc[k] = "idle" /\ users' = users /\ token' = token
            /\ earlier'[k] = {r \in Req : Settled(r)}
            /\ call'[k].op = "verify" => call'[k].token \in Issued
            /\ \A r \in Req \ {k} : call'[r] = call[r]
<1> DEFINE Goal == \/ call'[k] = call[k] /\ earlier'[k] = earlier[k]
                   \/ /\ pc[k] = "idle" /\ users' = users /\ token' = token
                      /\ earlier'[k] = {r \in Req : Settled(r)}
                      /\ call'[k].op = "verify" => call'[k].token \in Issued
                      /\ \A r \in Req \ {k} : call'[r] = call[r]
<1> SUFFICES Goal
  OBVIOUS
<1> USE DEF store, handlers, bounds, history, TypeInv, TypeOK, HandlerTypeOK, WorldTypeOK
<1>1. ASSUME NEW q \in Req, Arrive(q) PROVE Goal
  <2>1. CASE RejectBody(q)
    BY <2>1 DEF RejectBody, Begin, Answer
  <2>2. ASSUME NEW c \in Credentials, BeginCredentials(q, c) PROVE Goal
    <3> c.op \in {"register", "login"}
      BY DEF Credentials
    <3> QED
      BY <2>2 DEF BeginCredentials, Begin
  <2>3. ASSUME NEW t \in Issued, BeginVerify(q, [op |-> "verify", token |-> t]) PROVE Goal
    BY <2>3 DEF BeginVerify, Begin, Answer
  <2>4. CASE BeginVerify(q, [op |-> "forged"])
    BY <2>4 DEF BeginVerify, Begin, Answer
  <2>5. QED
    BY <1>1, <2>1, <2>2, <2>3, <2>4 DEF Arrive
<1>2. ASSUME NEW q \in Req, Create(q) PROVE Goal
  BY <1>2, ErrorStatuses DEF Create, Outcome, Fault, Answer
<1>3. ASSUME NEW q \in Req, Find(q) PROVE Goal
  BY <1>3 DEF Find
<1>4. ASSUME NEW q \in Req, Refuse(q) PROVE Goal
  BY <1>4 DEF Refuse, Answer
<1>5. ASSUME NEW q \in Req, Sign(q) PROVE Goal
  BY <1>5 DEF Sign
<1>6. ASSUME NEW q \in Req, LoginReply(q) PROVE Goal
  BY <1>6, VerdictCases DEF LoginReply, Answer
<1>7. ASSUME NEW q \in Req, Lookup(q) PROVE Goal
  BY <1>7 DEF Lookup, Answer
<1>8. ASSUME NEW q \in Req, CreateDevice(q) PROVE Goal
  BY <1>8 DEF CreateDevice, Outcome, Fault
<1>9. ASSUME NEW q \in Req, UpdateSession(q) \/ InsertSession(q) PROVE Goal
  BY <1>9 DEF UpdateSession, InsertSession, PutSession, Outcome, Fault
<1>10. ASSUME NEW q \in Req, MissSession(q) \/ DuplicateSession(q) PROVE Goal
  BY <1>10 DEF MissSession, DuplicateSession
<1>11. ASSUME NEW q \in Req, Fail(q) PROVE Goal
  BY <1>11, ErrorStatuses DEF Fail, FailOnly, FailDevice, FailSession, Fault, Answer
<1>12. ASSUME Stop \/ Tick \/ UNCHANGED vars PROVE Goal
  BY <1>12 DEF Stop, Tick, vars
<1>13. QED
  BY <1>1, <1>2, <1>3, <1>4, <1>5, <1>6, <1>7, <1>8, <1>9, <1>10, <1>11, <1>12 DEF Next, Handle,
     Mongo, Finished

\* Only login's findOne changes found, to the user of the email if there is one.
LEMMA FoundStep ==
  ASSUME TypeInv, [Next]_vars, NEW k \in Req
  PROVE  \/ /\ found'[k] = found[k]
            /\ pc'[k] = "check" => pc[k] = "check"
            /\ pc'[k] \in {"idle", "find"} => pc[k] \in {"idle", "find"}
         \/ /\ pc[k] = "find" /\ pc'[k] = "check" /\ users' = users
            /\ found'[k] = {u \in users : u.email = call[k].email}
<1> DEFINE Goal == \/ /\ found'[k] = found[k]
                      /\ pc'[k] = "check" => pc[k] = "check"
                      /\ pc'[k] \in {"idle", "find"} => pc[k] \in {"idle", "find"}
                   \/ /\ pc[k] = "find" /\ pc'[k] = "check" /\ users' = users
                      /\ found'[k] = {u \in users : u.email = call[k].email}
<1> SUFFICES Goal
  OBVIOUS
<1> USE DEF store, handlers, bounds, history, TypeInv, TypeOK, HandlerTypeOK, WorldTypeOK
<1>1. ASSUME NEW q \in Req, Arrive(q) PROVE Goal
  <2>1. CASE RejectBody(q)
    BY <2>1 DEF RejectBody, Begin, Answer
  <2>2. ASSUME NEW c \in Credentials, BeginCredentials(q, c) PROVE Goal
    BY <2>2 DEF BeginCredentials, Begin
  <2>3. ASSUME NEW t \in Issued, BeginVerify(q, [op |-> "verify", token |-> t]) PROVE Goal
    BY <2>3 DEF BeginVerify, Begin, Answer
  <2>4. CASE BeginVerify(q, [op |-> "forged"])
    BY <2>4 DEF BeginVerify, Begin, Answer
  <2>5. QED
    BY <1>1, <2>1, <2>2, <2>3, <2>4 DEF Arrive
<1>2. ASSUME NEW q \in Req, Create(q) PROVE Goal
  BY <1>2, ErrorStatuses DEF Create, Outcome, Fault, Answer
<1>3. ASSUME NEW q \in Req, Find(q) PROVE Goal
  BY <1>3 DEF Find
<1>4. ASSUME NEW q \in Req, Refuse(q) PROVE Goal
  BY <1>4 DEF Refuse, Answer
<1>5. ASSUME NEW q \in Req, Sign(q) PROVE Goal
  BY <1>5 DEF Sign
<1>6. ASSUME NEW q \in Req, LoginReply(q) PROVE Goal
  BY <1>6, VerdictCases DEF LoginReply, Answer
<1>7. ASSUME NEW q \in Req, Lookup(q) PROVE Goal
  BY <1>7 DEF Lookup, Answer
<1>8. ASSUME NEW q \in Req, CreateDevice(q) PROVE Goal
  BY <1>8 DEF CreateDevice, Outcome, Fault
<1>9. ASSUME NEW q \in Req, UpdateSession(q) \/ InsertSession(q) PROVE Goal
  BY <1>9 DEF UpdateSession, InsertSession, PutSession, Outcome, Fault
<1>10. ASSUME NEW q \in Req, MissSession(q) \/ DuplicateSession(q) PROVE Goal
  BY <1>10 DEF MissSession, DuplicateSession
<1>11. ASSUME NEW q \in Req, Fail(q) PROVE Goal
  BY <1>11, ErrorStatuses DEF Fail, FailOnly, FailDevice, FailSession, Fault, Answer
<1>12. ASSUME Stop \/ Tick \/ UNCHANGED vars PROVE Goal
  BY <1>12 DEF Stop, Tick, vars
<1>13. QED
  BY <1>1, <1>2, <1>3, <1>4, <1>5, <1>6, <1>7, <1>8, <1>9, <1>10, <1>11, <1>12 DEF Next, Handle,
     Mongo, Finished

\* Only login signs tokens, for its own email and after the password matched.
LEMMA TokenStep ==
  ASSUME TypeInv, [Next]_vars, NEW k \in Req
  PROVE  \/ token'[k] = token[k]
         \/ /\ pc[k] = "check" /\ PasswordOk(k) /\ call' = call /\ users' = users
            /\ token'[k] = {[email |-> call[k].email, iat |-> now]}
<1> DEFINE Goal == \/ token'[k] = token[k]
                   \/ /\ pc[k] = "check" /\ PasswordOk(k) /\ call' = call /\ users' = users
                      /\ token'[k] = {[email |-> call[k].email, iat |-> now]}
<1> SUFFICES Goal
  OBVIOUS
<1> USE DEF store, handlers, bounds, history, TypeInv, TypeOK, HandlerTypeOK, WorldTypeOK
<1>1. ASSUME NEW q \in Req, Arrive(q) PROVE Goal
  <2>1. CASE RejectBody(q)
    BY <2>1 DEF RejectBody, Begin, Answer
  <2>2. ASSUME NEW c \in Credentials, BeginCredentials(q, c) PROVE Goal
    BY <2>2 DEF BeginCredentials, Begin
  <2>3. ASSUME NEW t \in Issued, BeginVerify(q, [op |-> "verify", token |-> t]) PROVE Goal
    BY <2>3 DEF BeginVerify, Begin, Answer
  <2>4. CASE BeginVerify(q, [op |-> "forged"])
    BY <2>4 DEF BeginVerify, Begin, Answer
  <2>5. QED
    BY <1>1, <2>1, <2>2, <2>3, <2>4 DEF Arrive
<1>2. ASSUME NEW q \in Req, Create(q) PROVE Goal
  BY <1>2, ErrorStatuses DEF Create, Outcome, Fault, Answer
<1>3. ASSUME NEW q \in Req, Find(q) PROVE Goal
  BY <1>3 DEF Find
<1>4. ASSUME NEW q \in Req, Refuse(q) PROVE Goal
  BY <1>4 DEF Refuse, Answer
<1>5. ASSUME NEW q \in Req, Sign(q) PROVE Goal
  BY <1>5 DEF Sign
<1>6. ASSUME NEW q \in Req, LoginReply(q) PROVE Goal
  BY <1>6, VerdictCases DEF LoginReply, Answer
<1>7. ASSUME NEW q \in Req, Lookup(q) PROVE Goal
  BY <1>7 DEF Lookup, Answer
<1>8. ASSUME NEW q \in Req, CreateDevice(q) PROVE Goal
  BY <1>8 DEF CreateDevice, Outcome, Fault
<1>9. ASSUME NEW q \in Req, UpdateSession(q) \/ InsertSession(q) PROVE Goal
  BY <1>9 DEF UpdateSession, InsertSession, PutSession, Outcome, Fault
<1>10. ASSUME NEW q \in Req, MissSession(q) \/ DuplicateSession(q) PROVE Goal
  BY <1>10 DEF MissSession, DuplicateSession
<1>11. ASSUME NEW q \in Req, Fail(q) PROVE Goal
  BY <1>11, ErrorStatuses DEF Fail, FailOnly, FailDevice, FailSession, Fault, Answer
<1>12. ASSUME Stop \/ Tick \/ UNCHANGED vars PROVE Goal
  BY <1>12 DEF Stop, Tick, vars
<1>13. QED
  BY <1>1, <1>2, <1>3, <1>4, <1>5, <1>6, <1>7, <1>8, <1>9, <1>10, <1>11, <1>12 DEF Next, Handle,
     Mongo, Finished

\* What a status of 200 or 404 says of the state it was sent in.
LEMMA ReplyStep ==
  ASSUME TypeInv, [Next]_vars, NEW k \in Req
  PROVE  /\ reply'[k] = "200" /\ reply[k] # "200" =>
              /\ Register(k) => NewUser(k) \in users' /\ call' = call
              /\ call[k].op = "verify" =>
                   pc[k] = "lookup" /\ \E s \in sessions : s.token = call[k].token
              /\ pc[k] # "idle"
         /\ reply'[k] = "404" /\ reply[k] # "404" => pc[k] = "check" /\ ~PasswordOk(k)
         /\ pc'[k] = "lookup" /\ pc[k] # "lookup" =>
              startedAt'[k] = now /\ VerifyJwt(call'[k])
<1> DEFINE Goal == /\ reply'[k] = "200" /\ reply[k] # "200" =>
                        /\ Register(k) => NewUser(k) \in users' /\ call' = call
                        /\ call[k].op = "verify" =>
                             pc[k] = "lookup" /\ \E s \in sessions : s.token = call[k].token
                        /\ pc[k] # "idle"
                   /\ reply'[k] = "404" /\ reply[k] # "404" => pc[k] = "check" /\ ~PasswordOk(k)
                   /\ pc'[k] = "lookup" /\ pc[k] # "lookup" =>
                        startedAt'[k] = now /\ VerifyJwt(call'[k])
<1> SUFFICES Goal
  OBVIOUS
<1> Stage(k)
  BY DEF TypeInv, Stages
<1> USE DEF store, handlers, bounds, history, TypeInv, TypeOK, HandlerTypeOK, WorldTypeOK,
       Stage, Register, Login
<1>1. ASSUME NEW q \in Req, Arrive(q) PROVE Goal
  <2>1. CASE RejectBody(q)
    BY <2>1 DEF RejectBody, Begin, Answer
  <2>2. ASSUME NEW c \in Credentials, BeginCredentials(q, c) PROVE Goal
    <3> c.op \in {"register", "login"}
      BY DEF Credentials
    <3> QED
      BY <2>2 DEF BeginCredentials, Begin
  <2>3. ASSUME NEW t \in Issued, BeginVerify(q, [op |-> "verify", token |-> t]) PROVE Goal
    BY <2>3 DEF BeginVerify, Begin, Answer
  <2>4. CASE BeginVerify(q, [op |-> "forged"])
    BY <2>4 DEF BeginVerify, Begin, Answer
  <2>5. QED
    BY <1>1, <2>1, <2>2, <2>3, <2>4 DEF Arrive
<1>2. ASSUME NEW q \in Req, Create(q) PROVE Goal
  BY <1>2, ErrorStatuses DEF Create, Outcome, Fault, Answer
<1>3. ASSUME NEW q \in Req, Find(q) PROVE Goal
  BY <1>3 DEF Find
<1>4. ASSUME NEW q \in Req, Refuse(q) PROVE Goal
  BY <1>4 DEF Refuse, Answer
<1>5. ASSUME NEW q \in Req, Sign(q) PROVE Goal
  BY <1>5 DEF Sign
<1>6. ASSUME NEW q \in Req, LoginReply(q) PROVE Goal
  BY <1>6, VerdictCases DEF LoginReply, Answer
<1>7. ASSUME NEW q \in Req, Lookup(q) PROVE Goal
  BY <1>7 DEF Lookup, Answer
<1>8. ASSUME NEW q \in Req, CreateDevice(q) PROVE Goal
  BY <1>8 DEF CreateDevice, Outcome, Fault
<1>9. ASSUME NEW q \in Req, UpdateSession(q) \/ InsertSession(q) PROVE Goal
  BY <1>9 DEF UpdateSession, InsertSession, PutSession, Outcome, Fault
<1>10. ASSUME NEW q \in Req, MissSession(q) \/ DuplicateSession(q) PROVE Goal
  BY <1>10 DEF MissSession, DuplicateSession
<1>11. ASSUME NEW q \in Req, Fail(q) PROVE Goal
  BY <1>11, ErrorStatuses DEF Fail, FailOnly, FailDevice, FailSession, Fault, Answer
<1>12. ASSUME Stop \/ Tick \/ UNCHANGED vars PROVE Goal
  BY <1>12 DEF Stop, Tick, vars
<1>13. QED
  BY <1>1, <1>2, <1>3, <1>4, <1>5, <1>6, <1>7, <1>8, <1>9, <1>10, <1>11, <1>12 DEF Next, Handle,
     Mongo, Finished

\* The two writes of a login succeed when they have taken effect.
LEMMA WriteStep ==
  ASSUME TypeInv, [Next]_vars, NEW k \in Req
  PROVE  /\ dev'[k] = "ok" => dev[k] = "ok" \/ k \in devices'
         /\ ses'[k] = "ok" => ses[k] = "ok" \/ SessionPut(k)
<1> DEFINE Goal == /\ dev'[k] = "ok" => dev[k] = "ok" \/ k \in devices'
                   /\ ses'[k] = "ok" => ses[k] = "ok" \/ SessionPut(k)
<1> SUFFICES Goal
  OBVIOUS
<1> USE DEF store, handlers, bounds, history, TypeInv, TypeOK, HandlerTypeOK, WorldTypeOK, SessionPut
<1>1. ASSUME NEW q \in Req, Arrive(q) PROVE Goal
  <2>1. CASE RejectBody(q)
    BY <2>1 DEF RejectBody, Begin, Answer
  <2>2. ASSUME NEW c \in Credentials, BeginCredentials(q, c) PROVE Goal
    BY <2>2 DEF BeginCredentials, Begin
  <2>3. ASSUME NEW t \in Issued, BeginVerify(q, [op |-> "verify", token |-> t]) PROVE Goal
    BY <2>3 DEF BeginVerify, Begin, Answer
  <2>4. CASE BeginVerify(q, [op |-> "forged"])
    BY <2>4 DEF BeginVerify, Begin, Answer
  <2>5. QED
    BY <1>1, <2>1, <2>2, <2>3, <2>4 DEF Arrive
<1>2. ASSUME NEW q \in Req, Create(q) PROVE Goal
  BY <1>2, ErrorStatuses DEF Create, Outcome, Fault, Answer
<1>3. ASSUME NEW q \in Req, Find(q) PROVE Goal
  BY <1>3 DEF Find
<1>4. ASSUME NEW q \in Req, Refuse(q) PROVE Goal
  BY <1>4 DEF Refuse, Answer
<1>5. ASSUME NEW q \in Req, Sign(q) PROVE Goal
  BY <1>5 DEF Sign
<1>6. ASSUME NEW q \in Req, LoginReply(q) PROVE Goal
  BY <1>6, VerdictCases DEF LoginReply, Answer
<1>7. ASSUME NEW q \in Req, Lookup(q) PROVE Goal
  BY <1>7 DEF Lookup, Answer
<1>8. ASSUME NEW q \in Req, CreateDevice(q) PROVE Goal
  BY <1>8 DEF CreateDevice, Outcome, Fault
<1>9. ASSUME NEW q \in Req, UpdateSession(q) \/ InsertSession(q) PROVE Goal
  BY <1>9 DEF UpdateSession, InsertSession, PutSession, Outcome, Fault
<1>10. ASSUME NEW q \in Req, MissSession(q) \/ DuplicateSession(q) PROVE Goal
  BY <1>10 DEF MissSession, DuplicateSession
<1>11. ASSUME NEW q \in Req, Fail(q) PROVE Goal
  BY <1>11, ErrorStatuses DEF Fail, FailOnly, FailDevice, FailSession, Fault, Answer, Failure
<1>12. ASSUME Stop \/ Tick \/ UNCHANGED vars PROVE Goal
  BY <1>12 DEF Stop, Tick, vars
<1>13. QED
  BY <1>1, <1>2, <1>3, <1>4, <1>5, <1>6, <1>7, <1>8, <1>9, <1>10, <1>11, <1>12 DEF Next, Handle,
     Mongo, Finished

-----------------------------------------------------------------------------
(* The inductive invariant *)

\* Every user comes from a registration, and there is one per email.
UsersSound == \A u \in users : /\ u.by \in Req /\ Register(u.by) /\ u = NewUser(u.by)
                               /\ \A v \in users : v.email = u.email => v = u

Registered == \A q \in Req : Register(q) /\ reply[q] = "200" => NewUser(q) \in users

\* What findOne returned is still there, as users are never replaced.
FoundSound == \A q \in Req : /\ pc[q] \in {"idle", "find"} => found[q] = {}
                             /\ \A u \in found[q] : u \in users /\ u.email = call[q].email

TokensSound == \A q \in Req : \A t \in token[q] :
  Authentic(q) /\ t.email = call[q].email /\ token[q] = {t}

\* A token that a verification is asked about was signed by an authentic login,
\* and had not expired then if the handler got as far as the lookup.
HeldSound ==
  \A q \in Req : call[q].op = "verify" =>
    /\ \E l \in Req : /\ Authentic(l) /\ call[l].email = call[q].token.email
                      /\ call[q].token \in token[l]
    /\ pc[q] = "lookup" \/ reply[q] = "200" => startedAt[q] < call[q].token.iat + TTL

Past == \A q \in Req : \A r \in earlier[q] : Settled(r)

\* The writes of a login that succeeded have had their effect, and no login that
\* was over before it can undo it.
WritesDone == \A q \in Req :
  /\ dev[q] = "ok" => q \in devices
  /\ ses[q] = "ok" => \E s \in sessions : s.email = call[q].email /\ s.by \notin earlier[q]

SameCredentials(r, q) == /\ Register(r) /\ reply[r] = "200" /\ r \in earlier[q] /\ Login(q)
                         /\ call[q].email = call[r].email /\ call[q].password = call[r].password

FoundRegistered == \A r, q \in Req : SameCredentials(r, q) /\ pc[q] = "check" => NewUser(r) \in found[q]

\* A token of the email, all of whose logins were over before l, which is over too.
Superseded(l, q) == /\ call[q].op = "verify"
                    /\ Login(l) /\ reply[l] = "200" /\ l \in earlier[q]
                    /\ call[l].email = call[q].token.email /\ call[q].token \notin token[l]
                    /\ \A k \in Req : call[q].token \in token[k] => k \in earlier[l]

UserInv == /\ TypeInv /\ UsersSound /\ Registered /\ FoundSound /\ TokensSound /\ SessionsSound
           /\ HeldSound /\ Past /\ WritesDone /\ FoundRegistered /\ RegisteredCanLogin
           /\ OldTokenRevoked

\* Nothing has happened in the initial state.
LEMMA InitInv == Init => UserInv
<1> SUFFICES ASSUME Init PROVE UserInv
  OBVIOUS
<1>1. TypeInv
  BY InitType, InitStages DEF TypeInv
<1>2. UsersSound /\ Registered /\ FoundSound /\ TokensSound /\ SessionsSound
  BY DEF Init, UsersSound, Registered, FoundSound, TokensSound, SessionsSound
<1>3. HeldSound /\ Past /\ WritesDone /\ FoundRegistered /\ RegisteredCanLogin
  BY DEF Init, HeldSound, Past, WritesDone, FoundRegistered, RegisteredCanLogin, SameCredentials
<1>4. OldTokenRevoked
  BY DEF Init, OldTokenRevoked
<1>5. QED
  BY <1>1, <1>2, <1>3, <1>4 DEF UserInv

-----------------------------------------------------------------------------
(* Each part is kept *)

\* A call that asks for something is never changed.
LEMMA CallFixed ==
  ASSUME TypeInv, [Next]_vars, NEW k \in Req, call[k].op # "none"
  PROVE  call'[k] = call[k] /\ earlier'[k] = earlier[k] /\ startedAt'[k] = startedAt[k] /\ pc[k] # "idle"
<1>1. pc[k] # "idle"
  BY DEF TypeInv, Stages, Stage
<1>2. QED
  BY <1>1, Kept

\* The user that a registration makes is the same after a step.
LEMMA NewUserFixed ==
  ASSUME TypeInv, [Next]_vars, NEW k \in Req, Register(k)
  PROVE  NewUser(k)' = NewUser(k) /\ Register(k)'
BY CallFixed DEF Register, NewUser

\* A login that gave the user's password keeps being one that did.
LEMMA AuthenticStays ==
  ASSUME TypeInv, [Next]_vars, NEW k \in Req, Authentic(k)
  PROVE  Authentic(k)'
<1>1. call'[k] = call[k]
  BY CallFixed DEF Authentic, Login
<1>2. users \subseteq users'
  BY Kept
<1>3. QED
  BY <1>1, <1>2 DEF Authentic, Login

\* Users come from registrations and stay unique: the index refuses a second.
LEMMA UsersSoundKept == TypeInv /\ UsersSound /\ [Next]_vars => UsersSound'
<1> SUFFICES ASSUME TypeInv, UsersSound, [Next]_vars PROVE UsersSound'
  OBVIOUS
<1>1. \A u \in users : Register(u.by)' /\ u = NewUser(u.by)'
  BY NewUserFixed DEF UsersSound
<1>2. CASE users' = users
  BY <1>1, <1>2 DEF UsersSound
<1>3. ASSUME NEW q \in Req, UserAdded(q) PROVE UsersSound'
  <2>1. Register(q)
    BY <1>3 DEF UserAdded, TypeInv, Stages, Stage
  <2>2. NewUser(q)' = NewUser(q) /\ Register(q)'
    BY <2>1, NewUserFixed
  <2>3. NewUser(q).by = q /\ NewUser(q).email = call[q].email
    BY DEF NewUser
  <2>4. \A u \in users : u.email # NewUser(q).email
    BY <1>3, <2>3 DEF UserAdded, EmailTaken
  <2>5. users' = users \union {NewUser(q)}
    BY <1>3 DEF UserAdded
  <2>6. QED
    BY <1>1, <2>2, <2>3, <2>4, <2>5 DEF UsersSound
<1>4. QED
  BY <1>2, <1>3, UsersStep

\* A registration answered 200 has its user.
LEMMA RegisteredKept == TypeInv /\ Registered /\ [Next]_vars => Registered'
<1> SUFFICES ASSUME TypeInv, Registered, [Next]_vars, NEW q \in Req, Register(q)', reply'[q] = "200"
             PROVE  NewUser(q)' \in users'
  BY DEF Registered
<1>1. users \subseteq users'
  BY Kept
<1>2. CASE reply[q] = "200"
  <2>1. pc[q] # "idle"
    BY <1>2 DEF TypeInv, Stages, Stage
  <2>2. call'[q] = call[q]
    BY <2>1, Kept
  <2>3. QED
    BY <1>1, <1>2, <2>2 DEF Registered, Register, NewUser
<1>3. CASE reply[q] # "200"
  <2>1. pc[q] # "idle"
    BY <1>3, ReplyStep
  <2>2. call'[q] = call[q]
    BY <2>1, Kept
  <2>3. Register(q)
    BY <2>2 DEF Register
  <2>4. NewUser(q) \in users'
    BY <1>3, <2>3, ReplyStep
  <2>5. QED
    BY <2>2, <2>4 DEF NewUser
<1>4. QED
  BY <1>2, <1>3

\* What a login has found stays a user of its email.
LEMMA FoundSoundKept == TypeInv /\ FoundSound /\ [Next]_vars => FoundSound'
<1> SUFFICES ASSUME TypeInv, FoundSound, [Next]_vars, NEW q \in Req
             PROVE  /\ pc'[q] \in {"idle", "find"} => found'[q] = {}
                    /\ \A u \in found'[q] : u \in users' /\ u.email = call'[q].email
  BY DEF FoundSound
<1>1. users \subseteq users'
  BY Kept
<1>2. pc'[q] \in {"idle", "find"} => found'[q] = {}
  BY FoundStep DEF FoundSound
<1>3. CASE pc[q] = "idle"
  <2>1. found'[q] = {}
    BY <1>3, FoundStep DEF FoundSound
  <2>2. QED
    BY <2>1
<1>4. CASE pc[q] # "idle"
  <2>1. call'[q] = call[q]
    BY <1>4, Kept
  <2>2. \A u \in found'[q] : u \in users /\ u.email = call[q].email
    BY FoundStep DEF FoundSound
  <2>3. QED
    BY <1>1, <1>2, <2>1, <2>2 DEF FoundSound
<1>5. QED
  BY <1>3, <1>4

\* A login signs a token only with the user's password.
LEMMA TokensSoundKept == TypeInv /\ FoundSound /\ TokensSound /\ [Next]_vars => TokensSound'
<1> SUFFICES ASSUME TypeInv, FoundSound, TokensSound, [Next]_vars, NEW q \in Req, NEW t \in token'[q]
             PROVE  Authentic(q)' /\ t.email = call'[q].email /\ token'[q] = {t}
  BY DEF TokensSound
<1>1. CASE token'[q] = token[q]
  <2>1. Authentic(q) /\ t.email = call[q].email /\ token[q] = {t}
    BY <1>1 DEF TokensSound
  <2>2. call'[q] = call[q]
    BY <2>1, CallFixed DEF Authentic, Login
  <2>3. QED
    BY <1>1, <2>1, <2>2, AuthenticStays
<1>2. CASE /\ pc[q] = "check" /\ PasswordOk(q) /\ call' = call /\ users' = users
           /\ token'[q] = {[email |-> call[q].email, iat |-> now]}
  <2>1. Login(q)
    BY <1>2 DEF TypeInv, Stages, Stage
  <2>2. Authentic(q)
    BY <1>2, <2>1 DEF Authentic, PasswordOk, FoundSound
  <2>3. QED
    BY <1>2, <2>2, AuthenticStays
<1>3. QED
  BY <1>1, <1>2, TokenStep

\* A session is written by the login that signed its token, one per email.
LEMMA SessionsSoundKept == TypeInv /\ TokensSound /\ SessionsSound /\ [Next]_vars => SessionsSound'
<1> SUFFICES ASSUME TypeInv, TokensSound, SessionsSound, [Next]_vars PROVE SessionsSound'
  OBVIOUS
<1> DEFINE Own(s) == Authentic(s.by) /\ call[s.by].email = s.email /\ s.token \in token[s.by]
<1>1. ASSUME NEW s \in sessions PROVE Own(s)'
  <2>1. s.by \in Req
    BY DEF TypeInv, TypeOK, StoreTypeOK, Session
  <2>2. Own(s)
    BY DEF SessionsSound
  <2>3. call'[s.by] = call[s.by]
    BY <2>1, <2>2, CallFixed DEF Authentic, Login
  <2>4. token'[s.by] = token[s.by]
    BY <2>1, <2>2, Kept
  <2>5. Authentic(s.by)'
    BY <2>1, <2>2, AuthenticStays
  <2>6. QED
    BY <2>2, <2>3, <2>4, <2>5
<1>2. CASE sessions' = sessions
  BY <1>1, <1>2 DEF SessionsSound
<1>3. ASSUME NEW q \in Req, SessionPut(q) PROVE SessionsSound'
  <2> DEFINE Put == [email : {call[q].email}, token : token[q], by : {q}]
  <2>1. sessions' = {s \in sessions : s.email # call[q].email} \union Put
    BY <1>3 DEF SessionPut
  <2>2. token'[q] = token[q] /\ call'[q] = call[q]
    BY <1>3 DEF SessionPut
  <2>3. \A s \in Put : s.email = call[q].email /\ s.by = q /\ s.token \in token[q]
    OBVIOUS
  <2>4. \A s \in Put : Own(s)'
    <3>1. SUFFICES ASSUME NEW s \in Put PROVE Own(s)'
      OBVIOUS
    <3>2. Authentic(q)
      BY <2>3 DEF TokensSound
    <3>3. QED
      BY <2>2, <2>3, <3>2, AuthenticStays
  <2>5. \A s, t \in Put : s = t
    BY DEF TokensSound
  <2>6. \A s \in sessions' : Own(s)'
    BY <1>1, <2>1, <2>4
  <2>7. \A s, t \in sessions' : t.email = s.email => t = s
    <3> SUFFICES ASSUME NEW s \in sessions', NEW t \in sessions', t.email = s.email PROVE t = s
      OBVIOUS
    <3>1. CASE s \in Put /\ t \in Put
      BY <3>1, <2>5
    <3>2. CASE s \notin Put /\ t \notin Put
      BY <3>2, <2>1 DEF SessionsSound
    <3>3. QED
      BY <3>1, <3>2, <2>1, <2>3
  <2>8. QED
    BY <2>6, <2>7 DEF SessionsSound
<1>4. QED
  BY <1>2, <1>3, SessionsStep

\* A token that was issued belongs to an authentic login, and the lookup is only
\* reached with one that has not expired.
LEMMA HeldSoundKept == TypeInv /\ TokensSound /\ HeldSound /\ [Next]_vars => HeldSound'
<1> SUFFICES ASSUME TypeInv, TokensSound, HeldSound, [Next]_vars, NEW q \in Req, call'[q].op = "verify"
             PROVE  /\ \E l \in Req : /\ Authentic(l)' /\ call'[l].email = call'[q].token.email
                                      /\ call'[q].token \in token'[l]
                    /\ pc'[q] = "lookup" \/ reply'[q] = "200" =>
                         startedAt'[q] < call'[q].token.iat + TTL
  BY DEF HeldSound
<1>1. ASSUME NEW l \in Req, NEW t \in token[l]
      PROVE  Authentic(l)' /\ call'[l].email = t.email /\ t \in token'[l]
  <2>1. Authentic(l) /\ t.email = call[l].email
    BY DEF TokensSound
  <2>2. QED
    BY <2>1, AuthenticStays, CallFixed, Kept DEF Authentic, Login
<1>2. CASE call'[q] = call[q]
  <2>1. PICK l \in Req : call[q].token \in token[l]
    BY <1>2 DEF HeldSound
  <2>2. startedAt'[q] = startedAt[q] /\ pc[q] # "idle"
    BY <1>2, CallFixed
  <2>3. pc'[q] = "lookup" /\ pc[q] # "lookup" => startedAt'[q] < call'[q].token.iat + TTL
    BY ReplyStep DEF VerifyJwt
  <2>4. reply'[q] = "200" /\ reply[q] # "200" => pc[q] = "lookup"
    BY <1>2, ReplyStep
  <2>5. QED
    BY <1>1, <1>2, <2>1, <2>2, <2>3, <2>4 DEF HeldSound
<1>3. CASE call'[q] # call[q]
  <2>1. pc[q] = "idle" /\ call'[q].token \in Issued
    BY <1>3, CallStep
  <2>2. PICK l \in Req : call'[q].token \in token[l]
    BY <2>1 DEF Issued
  <2>3. reply[q] = "waiting" /\ pc[q] # "lookup"
    BY <2>1 DEF TypeInv, Stages, Stage
  <2>4. reply'[q] # "200"
    BY <2>1, <2>3, ReplyStep
  <2>5. pc'[q] = "lookup" => startedAt'[q] < call'[q].token.iat + TTL
    BY <2>3, ReplyStep DEF VerifyJwt
  <2>6. QED
    BY <1>1, <2>2, <2>4, <2>5
<1>4. QED
  BY <1>2, <1>3

\* What was over before a request stays over.
LEMMA PastKept == TypeInv /\ Past /\ [Next]_vars => Past'
<1> SUFFICES ASSUME TypeInv, Past, [Next]_vars, NEW q \in Req, NEW r \in earlier'[q]
             PROVE  Settled(r)'
  BY DEF Past
<1>1. r \in Req /\ Settled(r)
  <2>1. CASE earlier'[q] = earlier[q]
    BY <2>1 DEF Past, TypeInv, TypeOK, WorldTypeOK
  <2>2. CASE earlier'[q] = {k \in Req : Settled(k)}
    BY <2>2
  <2>3. QED
    BY <2>1, <2>2, CallStep
<1>2. QED
  BY <1>1, Kept

\* A login that is over writes no session: what a login has put in place is only
\* replaced by one that was not over when it started.
LEMMA WritesDoneKept ==
  TypeInv /\ TokensSound /\ Past /\ WritesDone /\ [Next]_vars => WritesDone'
<1> SUFFICES ASSUME TypeInv, TokensSound, Past, WritesDone, [Next]_vars, NEW q \in Req
             PROVE  /\ dev'[q] = "ok" => q \in devices'
                    /\ ses'[q] = "ok" =>
                         \E s \in sessions' : s.email = call'[q].email /\ s.by \notin earlier'[q]
  BY DEF WritesDone
<1>1. dev'[q] = "ok" => q \in devices'
  BY WriteStep, Kept DEF WritesDone
<1>2. ASSUME NEW k \in Req, SessionPut(k), call[k].email = call[q].email
      PROVE  \E s \in sessions' : s.email = call'[q].email /\ s.by \notin earlier'[q]
  <2>1. ~Settled(k)
    BY <1>2 DEF SessionPut, Settled
  <2>2. k \notin earlier[q]
    BY <2>1 DEF Past
  <2>3. token[k] # {}
    BY <1>2 DEF SessionPut, TypeInv, Stages, Stage
  <2>4. PICK t : t \in token[k]
    BY <2>3
  <2>5. [email |-> call[k].email, token |-> t, by |-> k] \in sessions'
    BY <1>2, <2>4 DEF SessionPut
  <2>6. call'[q] = call[q] /\ earlier'[q] = earlier[q]
    BY <1>2 DEF SessionPut
  <2>7. QED
    BY <1>2, <2>2, <2>5, <2>6
<1>3. ASSUME ses'[q] = "ok"
      PROVE  \E s \in sessions' : s.email = call'[q].email /\ s.by \notin earlier'[q]
  <2>1. CASE ses[q] = "ok"
    <3>1. PICK s \in sessions : s.email = call[q].email /\ s.by \notin earlier[q]
      BY <2>1 DEF WritesDone
    <3>2. pc[q] # "idle"
      BY <2>1 DEF TypeInv, Stages, Stage
    <3>3. call'[q] = call[q] /\ earlier'[q] = earlier[q]
      BY <3>2, Kept
    <3>4. CASE s \in sessions'
      BY <3>1, <3>3, <3>4
    <3>5. CASE s \notin sessions'
      <4>1. PICK k \in Req : SessionPut(k)
        BY <3>5, SessionsStep
      <4>2. call[k].email = call[q].email
        BY <3>1, <3>5, <4>1 DEF SessionPut
      <4>3. QED
        BY <1>2, <4>1, <4>2
    <3>6. QED
      BY <3>4, <3>5
  <2>2. CASE ses[q] # "ok"
    BY <1>2, <1>3, <2>2, WriteStep
  <2>3. QED
    BY <2>1, <2>2
<1>4. QED
  BY <1>1, <1>3

\* The premise of RegisteredCanLogin does not become true of a login under way.
LEMMA SameCredentialsBefore ==
  ASSUME TypeInv, Past, [Next]_vars, NEW r \in Req, NEW q \in Req,
         SameCredentials(r, q)', pc[q] # "idle"
  PROVE  SameCredentials(r, q)
<1>1. call'[q] = call[q] /\ earlier'[q] = earlier[q]
  BY Kept
<1>2. Settled(r)
  BY <1>1 DEF SameCredentials, Past
<1>3. reply'[r] = reply[r] /\ call'[r] = call[r]
  BY <1>2, Kept DEF Settled
<1>4. QED
  BY <1>1, <1>3 DEF SameCredentials, Register, Login

\* A login finds the user that was registered before it started.
LEMMA FoundRegisteredKept ==
  TypeInv /\ Registered /\ Past /\ FoundRegistered /\ [Next]_vars => FoundRegistered'
<1> SUFFICES ASSUME TypeInv, Registered, Past, FoundRegistered, [Next]_vars, NEW r \in Req, NEW q \in Req,
                    SameCredentials(r, q)', pc'[q] = "check"
             PROVE  NewUser(r)' \in found'[q]
  BY DEF FoundRegistered
<1>1. pc[q] # "idle"
  BY FoundStep
<1>2. SameCredentials(r, q)
  BY <1>1, SameCredentialsBefore
<1>3. NewUser(r)' = NewUser(r)
  BY <1>2, NewUserFixed DEF SameCredentials
<1>4. CASE found'[q] = found[q] /\ pc[q] = "check"
  BY <1>2, <1>3, <1>4 DEF FoundRegistered
<1>5. CASE found'[q] = {u \in users : u.email = call[q].email}
  <2>1. NewUser(r) \in users
    BY <1>2 DEF SameCredentials, Registered
  <2>2. NewUser(r).email = call[q].email
    BY <1>2 DEF SameCredentials, NewUser
  <2>3. QED
    BY <1>3, <1>5, <2>1, <2>2
<1>6. QED
  BY <1>4, <1>5, FoundStep

\* ... and its password matches.
LEMMA RegisteredCanLoginKept ==
  TypeInv /\ Past /\ FoundRegistered /\ RegisteredCanLogin /\ [Next]_vars => RegisteredCanLogin'
<1> SUFFICES ASSUME TypeInv, Past, FoundRegistered, RegisteredCanLogin, [Next]_vars,
                    NEW r \in Req, NEW q \in Req, SameCredentials(r, q)'
             PROVE  reply'[q] # "404"
  BY DEF RegisteredCanLogin, SameCredentials
<1>1. CASE pc[q] = "idle"
  <2>1. reply[q] = "waiting"
    BY <1>1 DEF TypeInv, Stages, Stage
  <2>2. QED
    BY <1>1, <2>1, ReplyStep
<1>2. CASE pc[q] # "idle"
  <2>1. SameCredentials(r, q)
    BY <1>2, SameCredentialsBefore
  <2>2. reply[q] # "404"
    BY <2>1 DEF RegisteredCanLogin, SameCredentials
  <2>3. ASSUME pc[q] = "check" PROVE PasswordOk(q)
    <3>1. NewUser(r) \in found[q]
      BY <2>1, <2>3 DEF FoundRegistered
    <3>2. NewUser(r).password = Hash(call[q].password)
      BY <2>1 DEF SameCredentials, NewUser
    <3>3. QED
      BY <3>1, <3>2 DEF PasswordOk, VerifyPassword
  <2>4. QED
    BY <2>2, <2>3, ReplyStep
<1>3. QED
  BY <1>1, <1>2

\* Nor does the premise of OldTokenRevoked become true of a lookup under way.
LEMMA SupersededBefore ==
  ASSUME TypeInv, Past, [Next]_vars, NEW l \in Req, NEW q \in Req,
         Superseded(l, q)', pc[q] # "idle"
  PROVE  Superseded(l, q)
<1>1. call'[q] = call[q] /\ earlier'[q] = earlier[q]
  BY Kept
<1>2. Settled(l)
  BY <1>1 DEF Superseded, Past
<1>3. pc[l] # "idle"
  BY <1>2 DEF Settled
<1>4. reply'[l] = reply[l] /\ call'[l] = call[l] /\ earlier'[l] = earlier[l]
  BY <1>2, <1>3, Kept
<1>5. \A k \in Req : call[q].token \in token[k] => token'[k] = token[k]
  BY Kept
<1>6. call[q].token \notin token[l]
  BY <1>1, <1>5 DEF Superseded
<1>7. \A k \in Req : call[q].token \in token[k] => k \in earlier[l]
  BY <1>1, <1>4, <1>5 DEF Superseded
<1>8. QED
  BY <1>1, <1>4, <1>6, <1>7 DEF Superseded, Login

\* The one session of the email is not of a login that was over before l, so that
\* the lookup of the old token finds none.
LEMMA OldTokenRevokedKept ==
  /\ TypeInv /\ TokensSound /\ SessionsSound /\ Past /\ WritesDone /\ OldTokenRevoked
  /\ [Next]_vars
  => OldTokenRevoked'
<1> SUFFICES ASSUME TypeInv, TokensSound, SessionsSound, Past, WritesDone, OldTokenRevoked, [Next]_vars,
                    NEW q \in Req, NEW l \in Req, Superseded(l, q)', reply'[q] = "200"
             PROVE  FALSE
  BY DEF OldTokenRevoked, Superseded
<1>1. pc[q] # "idle"
  <2>1. pc[q] = "idle" => reply[q] # "200"
    BY DEF TypeInv, Stages, Stage
  <2>2. QED
    BY <2>1, ReplyStep
<1>2. Superseded(l, q)
  BY <1>1, SupersededBefore
<1>3. reply[q] # "200"
  BY <1>2 DEF OldTokenRevoked, Superseded
<1>4. PICK s \in sessions : s.token = call[q].token
  BY <1>2, <1>3, ReplyStep DEF Superseded
<1>5. s.by \in Req /\ s.email = s.token.email
  BY <1>4 DEF SessionsSound, TokensSound, TypeInv, TypeOK, StoreTypeOK, Session
<1>6. s.by \in earlier[l]
  BY <1>2, <1>4, <1>5 DEF SessionsSound, Superseded
<1>7. PICK r \in sessions : r.email = call[l].email /\ r.by \notin earlier[l]
  <2>1. ses[l] = "ok"
    BY <1>2 DEF Superseded, TypeInv, Stages, Stage
  <2>2. QED
    BY <2>1 DEF WritesDone
<1>8. r = s
  BY <1>2, <1>4, <1>5, <1>7 DEF SessionsSound, Superseded
<1>9. QED
  BY <1>6, <1>7, <1>8

-----------------------------------------------------------------------------
(* The theorems *)

\* UserInv is an invariant of the three handlers, however they interleave, fail
\* or are cut off.
THEOREM Inductive == Spec => []UserInv
<1>1. Init => UserInv
  BY InitInv
<1>2. UserInv /\ [Next]_vars => UserInv'
  <2> SUFFICES ASSUME UserInv, [Next]_vars PROVE UserInv'
    OBVIOUS
  <2>1. TypeInv'
    BY NextType, NextStages DEF UserInv, TypeInv
  <2>2. (UsersSound /\ Registered /\ FoundSound /\ TokensSound)'
    BY UsersSoundKept, RegisteredKept, FoundSoundKept, TokensSoundKept DEF UserInv
  <2>3. (SessionsSound /\ HeldSound /\ Past /\ WritesDone)'
    BY SessionsSoundKept, HeldSoundKept, PastKept, WritesDoneKept DEF UserInv
  <2>4. (FoundRegistered /\ RegisteredCanLogin /\ OldTokenRevoked)'
    BY FoundRegisteredKept, RegisteredCanLoginKept, OldTokenRevokedKept DEF UserInv
  <2>5. QED
    BY <2>1, <2>2, <2>3, <2>4 DEF UserInv
<1>3. QED
  BY <1>1, <1>2, PTL DEF Spec

\* A registration answered 200 made the one user of its email (createUser).
THEOREM FirstRegistrationWins == Spec => []RegisterWins
<1>1. UserInv => RegisterWins
  BY DEF UserInv, UsersSound, Registered, RegisterWins
<1>2. QED
  BY <1>1, Inductive, PTL

\* Sessions are earned with the user's password, and an email has one (login).
THEOREM OneSoundSession == Spec => []SessionsSound
<1>1. UserInv => SessionsSound
  BY DEF UserInv
<1>2. QED
  BY <1>1, Inductive, PTL

\* Only a token of an authentic login that has not expired is accepted (verifyToken).
THEOREM AcceptedTokens == Spec => []VerifySound
<1>1. UserInv => VerifySound
  BY DEF UserInv, HeldSound, VerifySound
<1>2. QED
  BY <1>1, Inductive, PTL

\* A login answered 200 has replaced every session of a login before it (login).
THEOREM TakesOver == Spec => []LoginTakesOver
<1>1. UserInv => LoginTakesOver
  BY DEF UserInv, TypeInv, Stages, Stage, WritesDone, LoginTakesOver
<1>2. QED
  BY <1>1, Inductive, PTL

\* The credentials of a registration answered 200 are never answered 404 (login).
THEOREM RegisteredLogsIn == Spec => []RegisteredCanLogin
<1>1. UserInv => RegisteredCanLogin
  BY DEF UserInv
<1>2. QED
  BY <1>1, Inductive, PTL

\* A login answered 200 revokes the tokens of the logins before it (login with
\* verifyToken).
THEOREM Revokes == Spec => []OldTokenRevoked
<1>1. UserInv => OldTokenRevoked
  BY DEF UserInv
<1>2. QED
  BY <1>1, Inductive, PTL

-----------------------------------------------------------------------------
(* The account store *)

\* The status of one request.
StatusOf(q) == IF pc[q] = "idle" THEN "new"
               ELSE IF reply[q] = "200" THEN "granted"
               ELSE IF ses[q] = "ok" THEN "stored" ELSE "asked"

\* A step that changes no status, user, session, call or token is none of the store.
LEMMA QuietStep == ASSUME UNCHANGED <<users, sessions, call, token>>,
                          \A k \in Req : StatusOf(k)' = StatusOf(k)
                   PROVE  UNCHANGED Account!vars
<1>1. accountStatus' = accountStatus
  BY DEF accountStatus, StatusOf
<1>2. accountPassword' = accountPassword /\ accountHolder' = accountHolder
  BY DEF accountPassword, accountHolder
<1> QED
  BY <1>1, <1>2 DEF Account!vars

\* A step of one request gives it its new status.
LEMMA StatusStep ==
  ASSUME NEW q \in Req, NEW v, StatusOf(q)' = v, \A k \in Req \ {q} : StatusOf(k)' = StatusOf(k)
  PROVE  accountStatus' = [accountStatus EXCEPT ![q] = v] /\ accountStatus[q] = StatusOf(q)
  BY DEF accountStatus, StatusOf

\* A request that comes in asks (Begin, with whatever a handler then does first).
LEMMA AskStep ==
  ASSUME TypeInv, NEW q \in Req, NEW c \in Call, Begin(q, c), UNCHANGED <<users, sessions, token, ses>>,
         NEW p \in {"create", "find", "lookup", "done"}, pc' = [pc EXCEPT ![q] = p],
         reply' = reply \/ Answer(q, "400") \/ Answer(q, "401")
  PROVE  Account!Ask(q)
<1>1. TypeOK /\ Stage(q) /\ pc[q] = "idle" /\ call' = [call EXCEPT ![q] = c]
  BY DEF TypeInv, Stages, Begin
<1>2. ses[q] # "ok" /\ reply[q] = "waiting"
  BY <1>1 DEF Stage
<1>3. pc'[q] = p /\ ses' = ses /\ reply'[q] # "200"
  BY <1>1, <1>2 DEF TypeOK, HandlerTypeOK, Answer
<1>4. \A k \in Req \ {q} : pc'[k] = pc[k] /\ reply'[k] = reply[k]
  BY DEF Answer, TypeInv, TypeOK, HandlerTypeOK
<1>5. StatusOf(q)' = "asked" /\ StatusOf(q) = "new" /\ \A k \in Req \ {q} : StatusOf(k)' = StatusOf(k)
  BY <1>1, <1>2, <1>3, <1>4 DEF StatusOf
<1>6. accountPassword' = accountPassword /\ accountHolder' = accountHolder
  BY DEF accountPassword, accountHolder
<1> QED
  BY <1>1, <1>5, <1>6, StatusStep DEF Account!Ask, Account!To

\* createUser registers, whether or not its answer arrives, or finds the email taken.
LEMMA CreateStep == ASSUME UserInv, NEW q \in Req, Create(q)
                    PROVE  Account!Register(q) \/ UNCHANGED Account!vars
<1>0. TypeOK /\ Stage(q) /\ pc[q] = "create" /\ UsersSound
  BY DEF UserInv, TypeInv, Stages, Create
<1>1. Register(q) /\ token[q] = {} /\ ses[q] # "ok" /\ reply[q] # "200"
  BY <1>0 DEF Stage
<1>2. call[q].email \in Email /\ call[q].password \in Password /\ call[q] \in Call
  BY <1>0, <1>1, CallFields DEF TypeOK, HandlerTypeOK, Register
<1>3. UNCHANGED <<sessions, call, token, ses>> /\ pc'[q] = "done"
  BY <1>0 DEF Create, TypeOK, HandlerTypeOK
<1>4. StatusOf(q) = "asked"
  BY <1>0, <1>1 DEF StatusOf
<1>5. \A k \in Req \ {q} : StatusOf(k)' = StatusOf(k)
  <2>1. \A k \in Req \ {q} : pc'[k] = pc[k] /\ reply'[k] = reply[k]
    BY <1>0, ErrorStatuses DEF Create, Outcome, Answer, TypeOK, HandlerTypeOK
  <2> QED
    BY <1>3, <2>1 DEF StatusOf
<1>6. CASE EmailTaken(call[q].email)
  <2>1. users' = users /\ reply'[q] # "200"
    BY <1>0, <1>1, <1>6, ErrorStatuses DEF Create, Answer, TypeOK, HandlerTypeOK
  <2>2. StatusOf(q)' = "asked"
    BY <1>1, <1>3, <2>1 DEF StatusOf
  <2> QED
    BY <1>3, <1>4, <1>5, <2>1, <2>2, QuietStep
<1>7. CASE ~EmailTaken(call[q].email)
  <2>1. users' = users \union {NewUser(q)}
    BY <1>7 DEF Create
  <2>2. StatusOf(q)' = "granted" \/ StatusOf(q)' = "asked"
    BY <1>1, <1>3 DEF StatusOf
  <2>3. accountPassword[call[q].email] = {}
    BY <1>2, <1>7 DEF accountPassword, EmailTaken
  <2>4. accountPassword' = [accountPassword EXCEPT ![call[q].email] = {call[q].password}]
    <3>1. \A p \in Password : VerifyPassword(NewUser(q).password, p) <=> p = call[q].password
      BY DEF VerifyPassword, NewUser, Hash
    <3>2. NewUser(q).email = call[q].email
      BY DEF NewUser
    <3>3. ASSUME NEW e \in Email, e # call[q].email
          PROVE  accountPassword'[e] = accountPassword[e]
      BY <2>1, <3>2, <3>3 DEF accountPassword
    <3>4. accountPassword'[call[q].email] = {call[q].password}
      BY <1>2, <1>7, <2>1, <3>1, <3>2 DEF accountPassword, EmailTaken
    <3> QED
      BY <3>3, <3>4 DEF accountPassword
  <2>5. accountHolder' = accountHolder
    BY <1>3 DEF accountHolder
  <2> QED
    BY <1>1, <1>3, <1>4, <1>5, <2>2, <2>3, <2>4, <2>5, StatusStep DEF Account!Register, Account!To, Register
<1> QED
  BY <1>6, <1>7

\* login signs: the user it found before two awaits is still the user, and has
\* the password of the call (found, PasswordOk).
LEMMA SignStep == ASSUME UserInv, NEW q \in Req, Sign(q) PROVE Account!Sign(q)
<1>0. TypeOK /\ Stage(q) /\ pc[q] = "check" /\ FoundSound
  BY DEF UserInv, TypeInv, Stages, Sign
<1>1. Login(q) /\ token[q] = {} /\ reply[q] # "200" /\ ses[q] # "ok"
  BY <1>0 DEF Stage
<1>2. call[q].email \in Email /\ call[q].password \in Password
  BY <1>0, <1>1, CallFields DEF TypeOK, HandlerTypeOK, Login
<1>3. call[q].password \in accountPassword[call[q].email]
  <2>1. PICK u \in found[q] : VerifyPassword(u.password, call[q].password)
    BY DEF Sign, PasswordOk
  <2>2. u \in users /\ u.email = call[q].email
    BY <1>0, <2>1 DEF FoundSound
  <2> QED
    BY <1>2, <2>1, <2>2 DEF accountPassword
<1>4. \E t \in Token : t.email = call[q].email /\ token' = [token EXCEPT ![q] = {t}]
  <2> DEFINE t == [email |-> call[q].email, iat |-> now]
  <2>1. t \in Token /\ t.email = call[q].email
    BY <1>0, <1>2 DEF Token, TypeOK, WorldTypeOK
  <2>2. token' = [token EXCEPT ![q] = {t}]
    BY DEF Sign
  <2> QED
    BY <2>1, <2>2
<1>5. UNCHANGED <<users, sessions, call, reply>> /\ pc'[q] = "write" /\ ses'[q] = "sent"
  BY <1>0 DEF Sign, store, TypeOK, HandlerTypeOK
<1>6. \A k \in Req : StatusOf(k)' = StatusOf(k)
  <2>1. \A k \in Req \ {q} : pc'[k] = pc[k] /\ ses'[k] = ses[k]
    BY <1>0 DEF Sign, TypeOK, HandlerTypeOK
  <2> QED
    BY <1>0, <1>1, <1>5, <2>1 DEF StatusOf
<1>7. accountStatus' = accountStatus /\ accountPassword' = accountPassword /\ accountHolder' = accountHolder
  BY <1>5, <1>6 DEF accountStatus, StatusOf, accountPassword, accountHolder
<1> QED
  BY <1>1, <1>3, <1>4, <1>5, <1>7 DEF Account!Sign, Login

\* The session of the email becomes that of a login, also of one whose client
\* has long been answered an error (findOneAndUpdate).
LEMMA StoreStep == ASSUME UserInv, NEW q \in Req, UpdateSession(q) \/ InsertSession(q)
                   PROVE  Account!Store(q)
<1>0. TypeOK /\ Stage(q) /\ ses[q] \in {"sent", "insert"} /\ PutSession(q) /\ TokensSound
  BY DEF UserInv, TypeInv, Stages, UpdateSession, InsertSession
<1>1. Login(q) /\ token[q] # {} /\ reply[q] # "200" /\ pc[q] # "idle"
  BY <1>0 DEF Stage
<1>2. call[q].email \in Email
  BY <1>0, <1>1, CallFields DEF TypeOK, HandlerTypeOK, Login
<1>3. PICK t \in token[q] : token[q] = {t} /\ t \in Token
  BY <1>0, <1>1 DEF TokensSound, TypeOK, HandlerTypeOK
<1>4. UNCHANGED <<users, call, token, reply, pc>>
  BY <1>0 DEF PutSession
<1>5. StatusOf(q) = "asked" /\ StatusOf(q)' \in {"stored", "asked"}
  BY <1>0, <1>1, <1>4 DEF StatusOf
<1>6. \A k \in Req \ {q} : StatusOf(k)' = StatusOf(k)
  <2>1. \A k \in Req \ {q} : ses'[k] = ses[k]
    BY <1>0 DEF PutSession, TypeOK, HandlerTypeOK
  <2> QED
    BY <1>4, <2>1 DEF StatusOf
<1>7. accountHolder' = [accountHolder EXCEPT ![call[q].email] = token[q]]
  <2> DEFINE new == [email |-> call[q].email, token |-> t, by |-> q]
  <2>1. [email : {call[q].email}, token : token[q], by : {q}] = {new}
    <3>1. \A x : x \in [email : {call[q].email}, token : {t}, by : {q}] <=> x = new
      OBVIOUS
    <3>2. [email : {call[q].email}, token : {t}, by : {q}] = {new}
      <4> HIDE DEF new
      <4> QED
        BY <3>1, Zenon
    <3> QED
      BY <1>3, <3>2
  <2>2. sessions' = {s \in sessions : s.email # call[q].email} \union {new}
    BY <1>0, <2>1 DEF PutSession
  <2>3. new.email = call[q].email /\ new.token = t
    OBVIOUS
  <2> HIDE DEF new
  <2>4. ASSUME NEW e \in Email, e # call[q].email PROVE accountHolder'[e] = accountHolder[e]
    BY <2>2, <2>3, <2>4 DEF accountHolder
  <2>5. accountHolder'[call[q].email] = {t}
    BY <1>2, <1>3, <2>2, <2>3 DEF accountHolder
  <2> QED
    BY <1>3, <2>4, <2>5 DEF accountHolder
<1>8. accountPassword' = accountPassword
  BY <1>4 DEF accountPassword
<1> QED
  BY <1>1, <1>4, <1>5, <1>6, <1>7, <1>8, StatusStep DEF Account!Store, Account!To, Login

\* A login is granted when its token is stored, or it is answered an error.
LEMMA GrantStep == ASSUME UserInv, NEW q \in Req, LoginReply(q)
                   PROVE  Account!Grant(q) \/ UNCHANGED Account!vars
<1>0. TypeOK /\ Stage(q) /\ pc[q] = "write"
  BY DEF UserInv, TypeInv, Stages, LoginReply
<1>1. reply[q] # "200"
  BY <1>0 DEF Stage
<1>2. UNCHANGED <<users, sessions, call, token, ses>> /\ pc'[q] = "done"
  BY <1>0 DEF LoginReply, store, TypeOK, HandlerTypeOK
<1>3. \A k \in Req \ {q} : StatusOf(k)' = StatusOf(k)
  <2>1. \A k \in Req \ {q} : pc'[k] = pc[k] /\ reply'[k] = reply[k]
    BY <1>0, VerdictCases DEF LoginReply, Answer, TypeOK, HandlerTypeOK
  <2> QED
    BY <1>2, <2>1 DEF StatusOf
<1>4. CASE reply'[q] = "200"
  <2>1. ses[q] = "ok"
    BY <1>0, <1>1, <1>4, VerdictCases DEF LoginReply, Answer, TypeOK, HandlerTypeOK
  <2>2. StatusOf(q) = "stored" /\ StatusOf(q)' = "granted"
    BY <1>0, <1>1, <1>2, <1>4, <2>1 DEF StatusOf
  <2>3. accountPassword' = accountPassword /\ accountHolder' = accountHolder
    BY <1>2 DEF accountPassword, accountHolder
  <2> QED
    BY <1>2, <1>3, <2>2, <2>3, StatusStep DEF Account!Grant, Account!To
<1>5. CASE reply'[q] # "200"
  <2>1. StatusOf(q)' = StatusOf(q)
    BY <1>0, <1>1, <1>2, <1>5 DEF StatusOf
  <2> QED
    BY <1>2, <1>3, <2>1, QuietStep
<1> QED
  BY <1>4, <1>5

\* verifyToken accepts the token that its email holds at that moment.
LEMMA AcceptStep == ASSUME UserInv, NEW q \in Req, Lookup(q)
                    PROVE  Account!Accept(q) \/ UNCHANGED Account!vars
<1>0. TypeOK /\ Stage(q) /\ pc[q] = "lookup" /\ SessionsSound /\ TokensSound
  BY DEF UserInv, TypeInv, Stages, Lookup
<1>1. call[q].op = "verify" /\ reply[q] # "200" /\ ses[q] # "ok"
  BY <1>0 DEF Stage
<1>2. UNCHANGED <<users, sessions, call, token, ses>> /\ pc'[q] = "done"
  BY <1>0 DEF Lookup, store, TypeOK, HandlerTypeOK
<1>3. \A k \in Req \ {q} : StatusOf(k)' = StatusOf(k)
  <2>1. \A k \in Req \ {q} : pc'[k] = pc[k] /\ reply'[k] = reply[k]
    BY <1>0 DEF Lookup, Answer, TypeOK, HandlerTypeOK
  <2> QED
    BY <1>2, <2>1 DEF StatusOf
<1>4. CASE reply'[q] = "200"
  <2>1. PICK s \in sessions : s.token = call[q].token
    BY <1>0, <1>1, <1>4 DEF Lookup, Answer, TypeOK, HandlerTypeOK
  <2>2. s \in Session /\ call[q].token \in Token /\ call[q].token.email \in Email
    BY <1>0, <1>1, CallFields DEF TypeOK, StoreTypeOK, HandlerTypeOK, Token
  <2>3. s.by \in Req /\ call[s.by].email = s.email /\ s.token \in token[s.by]
    BY <1>0, <2>2 DEF SessionsSound, Session
  <2>4. s.token.email = s.email
    BY <1>0, <2>3 DEF TokensSound
  <2>5. call[q].token \in accountHolder[call[q].token.email]
    BY <2>1, <2>2, <2>4 DEF accountHolder
  <2>6. StatusOf(q) = "asked" /\ StatusOf(q)' = "granted"
    BY <1>0, <1>1, <1>2, <1>4 DEF StatusOf
  <2>7. accountPassword' = accountPassword /\ accountHolder' = accountHolder
    BY <1>2 DEF accountPassword, accountHolder
  <2> QED
    BY <1>1, <1>2, <1>3, <2>5, <2>6, <2>7, StatusStep DEF Account!Accept, Account!To
<1>5. CASE reply'[q] # "200"
  <2>1. StatusOf(q)' = StatusOf(q)
    BY <1>0, <1>1, <1>2, <1>5 DEF StatusOf
  <2> QED
    BY <1>2, <1>3, <2>1, QuietStep
<1> QED
  BY <1>4, <1>5

\* Reads, refusals, failed operations and a stop have no effect of their own.
LEMMA NoEffect ==
  ASSUME UserInv, NEW q,
         \/ Find(q) \/ Refuse(q) \/ CreateDevice(q) \/ MissSession(q) \/ DuplicateSession(q)
         \/ Fail(q) \/ Stop \/ Tick \/ UNCHANGED vars
  PROVE  UNCHANGED Account!vars
<1>0. TypeOK /\ Stages
  BY DEF UserInv, TypeInv
<1>1. UNCHANGED <<users, sessions, call, token>>
  BY DEF Find, Refuse, CreateDevice, MissSession, DuplicateSession, Fail, FailOnly, FailDevice, FailSession,
         Stop, Tick, vars, store, handlers
<1>2. ASSUME NEW k \in Req PROVE StatusOf(k)' = StatusOf(k)
  <2>0. Stage(k)
    BY <1>0 DEF Stages
  <2>1. pc'[k] = "idle" <=> pc[k] = "idle"
    BY <1>0 DEF Find, Refuse, CreateDevice, MissSession, DuplicateSession, Fail, FailOnly, FailDevice, FailSession,
                Stop, Tick, vars, handlers, TypeOK, HandlerTypeOK
  <2>2. reply'[k] = "200" <=> reply[k] = "200"
    <3>1. CASE Stop
      BY <1>0, <2>0, <3>1 DEF Stop, Stage, TypeOK, HandlerTypeOK
    <3>2. CASE ~Stop
      BY <1>0, <3>2, ErrorStatuses DEF Find, Refuse, CreateDevice, MissSession, DuplicateSession, Fail, FailOnly, FailDevice,
                FailSession, Answer, Tick, vars, handlers, TypeOK, HandlerTypeOK
    <3> QED
      BY <3>1, <3>2
  <2>3. ses'[k] = "ok" <=> ses[k] = "ok"
    BY <1>0 DEF Find, Refuse, CreateDevice, MissSession, DuplicateSession, Fail, FailOnly, FailDevice, FailSession,
                Failure, Stop, Tick, vars, handlers, TypeOK, HandlerTypeOK
  <2> QED
    BY <2>1, <2>2, <2>3 DEF StatusOf
<1> QED
  BY <1>1, <1>2, QuietStep

\* Registration, login and verification of user-service with its collections,
\* interleaved at every await and with faults and stops, implement the account
\* store: each request takes effect at one moment, or never.
THEOREM Implements == Spec => ImplementsAccounts
<1>1. Init => Account!Init
  <2> SUFFICES ASSUME Init PROVE Account!Init
    OBVIOUS
  <2>1. accountStatus = [q \in Req |-> "new"]
    BY DEF Init, accountStatus
  <2>2. accountPassword = [e \in Email |-> {}] /\ accountHolder = [e \in Email |-> {}]
    BY DEF Init, accountPassword, accountHolder
  <2> QED
    BY <2>1, <2>2 DEF Init, Account!Init
<1>2. UserInv /\ [Next]_vars => [Account!Next]_(Account!vars)
  <2> SUFFICES ASSUME UserInv, [Next]_vars PROVE Account!Next \/ UNCHANGED Account!vars
    BY DEF Account!vars
  <2>0. TypeInv
    BY DEF UserInv
  <2>1. ASSUME NEW q \in Req, Arrive(q) PROVE Account!Ask(q)
    <3>1. CASE RejectBody(q)
      <4>1. [op |-> "malformed"] \in Call
        BY DEF Call
      <4> QED
        BY <2>0, <3>1, <4>1, AskStep DEF RejectBody, store
    <3>2. ASSUME NEW c \in Credentials, BeginCredentials(q, c) PROVE Account!Ask(q)
      <4>1. c \in Call
        BY DEF Call
      <4>2. \E p \in {"create", "find"} : pc' = [pc EXCEPT ![q] = p]
        BY <3>2 DEF BeginCredentials
      <4> QED
        BY <2>0, <3>2, <4>1, <4>2, AskStep DEF BeginCredentials, store
    <3>3. ASSUME NEW c \in Call, BeginVerify(q, c) PROVE Account!Ask(q)
      <4>1. \E p \in {"lookup", "done"} : pc' = [pc EXCEPT ![q] = p]
        BY <3>3 DEF BeginVerify
      <4> QED
        BY <2>0, <3>3, <4>1, AskStep DEF BeginVerify, store
    <3>4. \A t \in Issued : [op |-> "verify", token |-> t] \in Call
      BY <2>0 DEF Issued, Call, TypeInv, TypeOK, HandlerTypeOK
    <3>5. [op |-> "forged"] \in Call
      BY DEF Call
    <3> QED
      BY <2>1, <3>1, <3>2, <3>3, <3>4, <3>5 DEF Arrive
  <2>2. ASSUME NEW q \in Req, Handle(q) \/ Mongo(q) \/ Fail(q) PROVE Account!Next \/ UNCHANGED Account!vars
    BY <2>2, CreateStep, SignStep, StoreStep, GrantStep, AcceptStep, NoEffect DEF Handle, Mongo, Account!Next
  <2>3. CASE Stop \/ Tick \/ UNCHANGED vars
    BY <2>3, NoEffect
  <2> QED
    BY <2>1, <2>2, <2>3 DEF Next, Finished, Account!Next
<1> QED
  BY <1>1, <1>2, Inductive, PTL DEF Spec, ImplementsAccounts, Account!Spec
=============================================================================
