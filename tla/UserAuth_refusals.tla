------------------------- MODULE UserAuth_refusals -------------------------
(***************************************************************************)
(* Proofs about what the handlers of UserAuth refuse.  The properties of   *)
(* UserAuth say what an answer of 200 stands for; here every other answer  *)
(* is shown to have its reason, so that the service refuses nobody it      *)
(* could have served, and an answer is shown to be the only one.           *)
(***************************************************************************)
EXTENDS UserAuth_proofs

-----------------------------------------------------------------------------
(* What is claimed *)

\* The user of a call's email that another request made.
Other(q, u) == u.email = call[q].email /\ u.by # q

\* An operation of the request itself has to fail for an answer of 500, and for one
\* of 400 too, unless another registration has taken the email or another login has
\* written the session; a login is told 404 only if no user made before it has its
\* password, and a client is cut off only by a stop (the catch of each method of
\* UserController, which answers 400 for any MongoServerError).
RefusedForAReason ==
  \A q \in Req :
    /\ Register(q) /\ reply[q] = "400" => (q \in failed \/ \E u \in users : Other(q, u))
    /\ Login(q) /\ reply[q] = "400" => (q \in failed \/ \E s \in sessions : Other(q, s))
    /\ call[q].op = "verify" /\ reply[q] = "400" => q \in failed
    /\ Login(q) /\ reply[q] = "404" =>
         \A u \in users : u.email = call[q].email /\ u.by \in earlier[q] =>
           ~VerifyPassword(u.password, call[q].password)
    /\ reply[q] = "500" => q \in failed
    /\ reply[q] = "reset" => stops > 0

\* A verification that came in before its token expired was answered 401,
\* though the login l that signed the token was answered 200 before it.
RefusedYoung(q, l) ==
  /\ call[q].op = "verify" /\ reply[q] = "401"
  /\ startedAt[q] < call[q].token.iat + TTL
  /\ Login(l) /\ reply[l] = "200" /\ l \in earlier[q] /\ call[q].token \in token[l]

\* A login of the same email, not over when l started, that signed another token.
Rival(k, l) == /\ Login(k) /\ call[k].email = call[l].email /\ k \notin earlier[l]
               /\ token[k] # {} /\ token[k] # token[l]

\* Who has logged in is logged out before his token expires by nothing but a
\* later or concurrent login of the same email (verifyToken with login).
LoggedOutByAnother ==
  \A q, l \in Req : RefusedYoung(q, l) => \E k \in Req : Rival(k, l)

-----------------------------------------------------------------------------
(* The strengthening *)

\* A user was made by a registration that is past its only operation, and a
\* session by a login whose write is through.
MadeByDone == /\ \A u \in users : pc[u.by] = "done"
              /\ \A s \in sessions : ses[s.by] \in {"ok"} \union Failure

\* A write that fails is noted as a failure of its login, unless its handler is gone.
FailureSeen(q) == (dev[q] \in Failure \/ ses[q] \in Failure) => (q \in failed \/ reply[q] = "reset")

\* The status of a handler that has not ended, and the reasons of the errors.
Reason(q) ==
  /\ pc[q] # "done" => reply[q] \in {"waiting", "reset"}
  /\ FailureSeen(q)
  /\ reply[q] = "500" => q \in failed
  /\ reply[q] = "reset" => stops > 0
  /\ Login(q) /\ reply[q] = "400" => (q \in failed \/ ses[q] = "E11000")
  /\ call[q].op = "verify" /\ reply[q] = "400" => q \in failed

Reasons == \A q \in Req : Reason(q)

\* The documents that the answers 400 of register and login speak of are there.
Taken == \A q \in Req :
  /\ Register(q) /\ reply[q] = "400" /\ q \notin failed => \E u \in users : Other(q, u)
  /\ ses[q] = "E11000" => HasSession(call[q].email)

\* A user made by a request that was over before this one.
Before(q, u) == u.email = call[q].email /\ u.by \in earlier[q]

\* A login that looked its user up has found him if he was there before it, also
\* if the answer to his registration was lost.
FoundBefore == \A q \in Req :
  /\ pc[q] = "check" => \A u \in users : Before(q, u) => u \in found[q]
  /\ Login(q) /\ reply[q] = "404" =>
       \A u \in users : Before(q, u) => ~VerifyPassword(u.password, call[q].password)

RefusalInv == /\ UserInv /\ MadeByDone /\ Reasons /\ Taken /\ FoundBefore
              /\ LoggedOutByAnother

\* Nothing has been refused in the initial state.
LEMMA InitRefusal == Init => RefusalInv
<1> SUFFICES ASSUME Init PROVE RefusalInv
  OBVIOUS
<1>1. MadeByDone
  BY DEF Init, MadeByDone
<1>2. Reasons
  BY DEF Init, Reasons, Reason, FailureSeen, Failure
<1>3. Taken /\ FoundBefore
  BY DEF Init, Taken, FoundBefore
<1>4. LoggedOutByAnother
  BY DEF Init, LoggedOutByAnother, RefusedYoung
<1> QED
  BY <1>1, <1>2, <1>3, <1>4, InitInv DEF RefusalInv

-----------------------------------------------------------------------------
(* What a step changes *)

\* What a login is answered is the outcome of a write: an error stands for one that
\* failed, or for the unique index of the sessions (Promise.all of login).
LEMMA VerdictReasons ==
  ASSUME TypeInv
  PROVE  \A q \in Req : \A status \in Verdicts(q) :
            \/ status = "200"
            \/ dev[q] \in Failure \/ ses[q] \in Failure
            \/ status = "400" /\ ses[q] = "E11000"
<1> SUFFICES ASSUME NEW q \in Req, NEW status \in Verdicts(q), status # "200"
             PROVE  \/ dev[q] \in Failure \/ ses[q] \in Failure
                    \/ status = "400" /\ ses[q] = "E11000"
  OBVIOUS
<1>1. PICK e \in {dev[q], ses[q]} : e \in Failure \union {"E11000"} /\ status = ErrorStatus(e)
  BY DEF Verdicts
<1>2. dev[q] # "E11000"
  BY DEF TypeInv, TypeOK, HandlerTypeOK, Failure
<1> QED
  BY <1>1, <1>2 DEF ErrorStatus

\* The reasons of one request survive a step of any: the first failure a login
\* meets is one of MongoDB unless its handler is gone (Promise.all of login).
LEMMA ReasonKept ==
  ASSUME TypeInv, Reasons, [Next]_vars, NEW k \in Req
  PROVE  Reason(k)' /\ (reply[k] # "waiting" => reply'[k] = reply[k])
<1> DEFINE Goal == Reason(k)' /\ (reply[k] # "waiting" => reply'[k] = reply[k])
<1> SUFFICES Goal
  OBVIOUS
<1> Stage(k) /\ Reason(k)
  BY DEF TypeInv, Stages, Reasons
<1> failed \subseteq Req /\ stops \in Nat
  BY BoundsAssumption DEF TypeInv, TypeOK, WorldTypeOK
<1> USE DEF store, handlers, bounds, history, TypeInv, TypeOK, HandlerTypeOK,
       Stage, Reason, FailureSeen, Failure, Register, Login
<1>1. ASSUME NEW q \in Req, RejectBody(q) PROVE Goal
  BY <1>1 DEF RejectBody, Begin, Answer
<1>2. ASSUME NEW q \in Req, NEW c \in Credentials, BeginCredentials(q, c) PROVE Goal
  BY <1>2 DEF BeginCredentials, Begin, Credentials
<1>3. ASSUME NEW q \in Req, NEW t \in Issued, BeginVerify(q, [op |-> "verify", token |-> t]) PROVE Goal
  BY <1>3 DEF BeginVerify, Begin, Answer
<1>4. ASSUME NEW q \in Req, BeginVerify(q, [op |-> "forged"]) PROVE Goal
  BY <1>4 DEF BeginVerify, Begin, Answer
<1>5. ASSUME NEW q \in Req, Create(q) PROVE Goal
  BY <1>5, ErrorStatuses DEF ErrorStatus, Create, Outcome, Fault, Answer
<1>6. ASSUME NEW q \in Req, Find(q) PROVE Goal
  BY <1>6 DEF Find
<1>7. ASSUME NEW q \in Req, Refuse(q) PROVE Goal
  BY <1>7 DEF Refuse, Answer
<1>8. ASSUME NEW q \in Req, Sign(q) PROVE Goal
  BY <1>8 DEF Sign
<1>9. ASSUME NEW q \in Req, LoginReply(q) PROVE Goal
  BY <1>9, VerdictCases, VerdictReasons DEF LoginReply, Answer
<1>10. ASSUME NEW q \in Req, Lookup(q) PROVE Goal
  BY <1>10 DEF Lookup, Answer
<1>11. ASSUME NEW q \in Req, CreateDevice(q) PROVE Goal
  BY <1>11 DEF CreateDevice, Outcome, Fault
<1>12. ASSUME NEW q \in Req, UpdateSession(q) \/ InsertSession(q) PROVE Goal
  BY <1>12 DEF UpdateSession, InsertSession, PutSession, Outcome, Fault
<1>13. ASSUME NEW q \in Req, MissSession(q) \/ DuplicateSession(q) PROVE Goal
  BY <1>13 DEF MissSession, DuplicateSession
<1>14. ASSUME NEW q \in Req, FailOnly(q) PROVE Goal
  BY <1>14, ErrorStatuses DEF FailOnly, Fault, Answer
<1>15. ASSUME NEW q \in Req, FailDevice(q) PROVE Goal
  BY <1>15 DEF FailDevice, Fault
<1>16. ASSUME NEW q \in Req, FailSession(q) PROVE Goal
  BY <1>16 DEF FailSession, Fault
<1>17. ASSUME Stop PROVE Goal
  BY <1>17 DEF Stop
<1>18. ASSUME Tick \/ UNCHANGED vars PROVE Goal
  BY <1>18 DEF Tick, vars
<1> QED
  BY <1>1, <1>2, <1>3, <1>4, <1>5, <1>6, <1>7, <1>8, <1>9, <1>10, <1>11, <1>12, <1>13, <1>14,
     <1>15, <1>16, <1>17, <1>18
     DEF Next, Arrive, Handle, Mongo, Fail, Finished

\* What a status of 400 or 401 says of the state it was sent in; a handler that
\* is past its end and a write that is through stay so.
LEMMA RefusalStep ==
  ASSUME TypeInv, [Next]_vars, NEW k \in Req
  PROVE  /\ Register(k)' /\ reply'[k] = "400" /\ k \notin failed' /\ reply[k] # "400" =>
              pc[k] = "create" /\ EmailTaken(call[k].email)
         /\ reply'[k] = "401" /\ reply[k] # "401" =>
              \/ pc[k] = "idle" /\ startedAt'[k] = now /\ ~VerifyJwt(call'[k])
              \/ pc[k] = "lookup" /\ \A s \in sessions : s.token # call[k].token
         /\ pc[k] = "done" => pc'[k] = "done"
         /\ failed \subseteq failed'
         /\ ses[k] \in {"ok"} \union Failure => ses'[k] = ses[k]
         /\ ses'[k] = "E11000" /\ ses[k] # "E11000" => pc[k] # "idle" /\ HasSession(call[k].email)
<1> DEFINE Goal == /\ Register(k)' /\ reply'[k] = "400" /\ k \notin failed' /\ reply[k] # "400" =>
                        pc[k] = "create" /\ EmailTaken(call[k].email)
                   /\ reply'[k] = "401" /\ reply[k] # "401" =>
                        \/ pc[k] = "idle" /\ startedAt'[k] = now /\ ~VerifyJwt(call'[k])
                        \/ pc[k] = "lookup" /\ \A s \in sessions : s.token # call[k].token
                   /\ pc[k] = "done" => pc'[k] = "done"
                   /\ failed \subseteq failed'
                   /\ ses[k] \in {"ok"} \union Failure => ses'[k] = ses[k]
                   /\ ses'[k] = "E11000" /\ ses[k] # "E11000" => pc[k] # "idle" /\ HasSession(call[k].email)
<1> SUFFICES Goal
  OBVIOUS
<1> Stage(k)
  BY DEF TypeInv, Stages
<1> USE DEF store, handlers, bounds, history, TypeInv, TypeOK, HandlerTypeOK, WorldTypeOK,
       Stage, Failure, Register, Login
<1>1. ASSUME NEW q \in Req, RejectBody(q) PROVE Goal
  BY <1>1 DEF RejectBody, Begin, Answer
<1>2. ASSUME NEW q \in Req, NEW c \in Credentials, BeginCredentials(q, c) PROVE Goal
  BY <1>2 DEF BeginCredentials, Begin
<1>3. ASSUME NEW q \in Req, NEW t \in Issued, BeginVerify(q, [op |-> "verify", token |-> t]) PROVE Goal
  BY <1>3 DEF BeginVerify, Begin, Answer
<1>4. ASSUME NEW q \in Req, BeginVerify(q, [op |-> "forged"]) PROVE Goal
  BY <1>4 DEF BeginVerify, Begin, Answer
<1>5. ASSUME NEW q \in Req, Create(q) PROVE Goal
  BY <1>5, ErrorStatuses DEF Create, Outcome, Fault, Answer
<1>6. ASSUME NEW q \in Req, Find(q) PROVE Goal
  BY <1>6 DEF Find
<1>7. ASSUME NEW q \in Req, Refuse(q) PROVE Goal
  BY <1>7 DEF Refuse, Answer
<1>8. ASSUME NEW q \in Req, Sign(q) PROVE Goal
  BY <1>8 DEF Sign
<1>9. ASSUME NEW q \in Req, LoginReply(q) PROVE Goal
  BY <1>9, VerdictCases DEF LoginReply, Answer
<1>10. ASSUME NEW q \in Req, Lookup(q) PROVE Goal
  BY <1>10 DEF Lookup, Answer
<1>11. ASSUME NEW q \in Req, CreateDevice(q) PROVE Goal
  BY <1>11 DEF CreateDevice, Outcome, Fault
<1>12. ASSUME NEW q \in Req, UpdateSession(q) \/ InsertSession(q) PROVE Goal
  BY <1>12 DEF UpdateSession, InsertSession, PutSession, Outcome, Fault
<1>13. ASSUME NEW q \in Req, MissSession(q) \/ DuplicateSession(q) PROVE Goal
  BY <1>13 DEF MissSession, DuplicateSession
<1>14. ASSUME NEW q \in Req, Fail(q) PROVE Goal
  BY <1>14, ErrorStatuses DEF Fail, FailOnly, FailDevice, FailSession, Fault, Answer
<1>15. ASSUME Stop PROVE Goal
  BY <1>15 DEF Stop
<1>16. ASSUME Tick \/ UNCHANGED vars PROVE Goal
  BY <1>16 DEF Tick, vars
<1> QED
  BY <1>1, <1>2, <1>3, <1>4, <1>5, <1>6, <1>7, <1>8, <1>9, <1>10, <1>11, <1>12, <1>13, <1>14,
     <1>15, <1>16
     DEF Next, Arrive, Handle, Mongo, Finished

\* Whoever makes a document is done with it in the same step (createUser, login).
LEMMA MakerStep ==
  ASSUME TypeInv, [Next]_vars
  PROVE  /\ users' = users \/ \E q \in Req : UserAdded(q) /\ pc'[q] = "done"
         /\ sessions' = sessions \/ \E q \in Req : SessionPut(q) /\ ses'[q] \in {"ok"} \union Failure
<1> DEFINE Goal == /\ users' = users \/ \E q \in Req : UserAdded(q) /\ pc'[q] = "done"
                   /\ sessions' = sessions \/ \E q \in Req : SessionPut(q) /\ ses'[q] \in {"ok"} \union Failure
<1> SUFFICES Goal
  OBVIOUS
<1> USE DEF store, handlers, bounds, history
<1>1. ASSUME NEW q \in Req, Create(q) PROVE Goal
  BY <1>1 DEF Create, UserAdded, TypeInv, TypeOK, HandlerTypeOK
<1>2. ASSUME NEW q \in Req, UpdateSession(q) \/ InsertSession(q) PROVE Goal
  BY <1>2 DEF UpdateSession, InsertSession, PutSession, SessionPut, TypeInv, TypeOK, HandlerTypeOK
<1>3. ASSUME NEW q \in Req, Arrive(q) PROVE users' = users /\ sessions' = sessions
  BY <1>3 DEF Arrive, RejectBody, BeginCredentials, BeginVerify
<1>4. ASSUME NEW q \in Req, Find(q) \/ Refuse(q) \/ Sign(q) \/ LoginReply(q) \/ Lookup(q)
      PROVE  users' = users /\ sessions' = sessions
  BY <1>4 DEF Find, Refuse, Sign, LoginReply, Lookup
<1>5. ASSUME NEW q \in Req, CreateDevice(q) \/ MissSession(q) \/ DuplicateSession(q) \/ Fail(q)
      PROVE  users' = users /\ sessions' = sessions
  BY <1>5 DEF CreateDevice, MissSession, DuplicateSession, Fail, FailOnly, FailDevice, FailSession
<1>6. ASSUME Stop \/ Tick \/ UNCHANGED vars PROVE users' = users /\ sessions' = sessions
  BY <1>6 DEF Stop, Tick, vars
<1> QED
  BY <1>1, <1>2, <1>3, <1>4, <1>5, <1>6 DEF Next, Handle, Mongo, Finished

-----------------------------------------------------------------------------
(* Each part is kept *)

\* The maker of a document is done when it is there, and stays so.
LEMMA MadeByDoneKept ==
  TypeInv /\ UsersSound /\ MadeByDone /\ [Next]_vars => MadeByDone'
<1> SUFFICES ASSUME TypeInv, UsersSound, MadeByDone, [Next]_vars PROVE MadeByDone'
  OBVIOUS
<1>1. ASSUME NEW u \in users' PROVE pc'[u.by] = "done"
  <2>1. CASE u \in users
    BY <2>1, RefusalStep DEF MadeByDone, UsersSound
  <2>2. CASE u \notin users
    <3>1. PICK q \in Req : UserAdded(q) /\ pc'[q] = "done"
      BY <2>2, MakerStep
    <3> QED
      BY <2>2, <3>1 DEF UserAdded, NewUser
  <2> QED
    BY <2>1, <2>2
<1>2. ASSUME NEW s \in sessions' PROVE ses'[s.by] \in {"ok"} \union Failure
  <2>1. CASE s \in sessions
    <3>1. s.by \in Req
      BY <2>1 DEF TypeInv, TypeOK, StoreTypeOK, Session
    <3> QED
      BY <2>1, <3>1, RefusalStep DEF MadeByDone
  <2>2. CASE s \notin sessions
    <3>1. PICK q \in Req : SessionPut(q) /\ ses'[q] \in {"ok"} \union Failure
      BY <2>2, MakerStep
    <3>2. s.by = q
      BY <2>2, <3>1 DEF SessionPut
    <3> QED
      BY <3>1, <3>2
  <2> QED
    BY <2>1, <2>2
<1> QED
  BY <1>1, <1>2 DEF MadeByDone

\* An email that has a session keeps having one: it is only replaced.
LEMMA SessionStays ==
  ASSUME TypeInv, [Next]_vars, NEW e, HasSession(e)
  PROVE  \E s \in sessions' : s.email = e
<1>1. PICK s \in sessions : s.email = e
  BY DEF HasSession
<1>2. CASE s \in sessions'
  BY <1>1, <1>2
<1>3. CASE s \notin sessions'
  <2>1. PICK q \in Req : SessionPut(q)
    BY <1>3, SessionsStep
  <2>2. call[q].email = e
    BY <1>1, <1>3, <2>1 DEF SessionPut
  <2>3. PICK t : t \in token[q]
    BY <2>1 DEF SessionPut, TypeInv, Stages, Stage
  <2>4. [email |-> call[q].email, token |-> t, by |-> q] \in sessions'
    BY <2>1, <2>3 DEF SessionPut
  <2> QED
    BY <2>2, <2>4
<1> QED
  BY <1>2, <1>3

\* What an answer of 400 spoke of stays there.
LEMMA TakenKept == TypeInv /\ MadeByDone /\ Taken /\ [Next]_vars => Taken'
<1> SUFFICES ASSUME TypeInv, MadeByDone, Taken, [Next]_vars, NEW q \in Req
             PROVE  /\ Register(q)' /\ reply'[q] = "400" /\ q \notin failed' => \E u \in users' : Other(q, u)'
                    /\ ses'[q] = "E11000" => HasSession(call[q].email)'
  BY DEF Taken
<1>1. ASSUME Register(q)', reply'[q] = "400", q \notin failed' PROVE \E u \in users' : Other(q, u)'
  <2>1. pc[q] # "idle" /\ \E u \in users : Other(q, u)
    <3>1. CASE reply[q] = "400"
      <4>1. pc[q] # "idle"
        BY <3>1 DEF TypeInv, Stages, Stage
      <4>2. Register(q)
        BY <1>1, <4>1, Kept DEF Register
      <4>3. q \notin failed
        BY <1>1, RefusalStep
      <4> QED
        BY <3>1, <4>1, <4>2, <4>3 DEF Taken
    <3>2. CASE reply[q] # "400"
      <4>1. pc[q] = "create" /\ EmailTaken(call[q].email)
        BY <1>1, <3>2, RefusalStep
      <4>2. \A u \in users : u.by # q
        BY <4>1 DEF MadeByDone
      <4> QED
        BY <4>1, <4>2 DEF EmailTaken, Other
    <3> QED
      BY <3>1, <3>2
  <2>2. call'[q] = call[q] /\ users \subseteq users'
    BY <2>1, Kept
  <2> QED
    BY <2>1, <2>2 DEF Other
<1>2. ASSUME ses'[q] = "E11000" PROVE HasSession(call[q].email)'
  <2>1. HasSession(call[q].email)
    BY <1>2, RefusalStep DEF Taken
  <2>2. pc[q] # "idle"
    <3>1. CASE ses[q] = "E11000"
      BY <3>1 DEF TypeInv, Stages, Stage
    <3>2. CASE ses[q] # "E11000"
      BY <1>2, <3>2, RefusalStep
    <3> QED
      BY <3>1, <3>2
  <2>3. call'[q] = call[q]
    BY <2>2, Kept
  <2> QED
    BY <2>1, <2>3, SessionStays DEF HasSession
<1> QED
  BY <1>1, <1>2

\* A user that was made before a request did not come to be in this step.
LEMMA BeforeStays ==
  ASSUME TypeInv, Past, [Next]_vars, NEW q \in Req, pc[q] # "idle", NEW u \in users', Before(q, u)'
  PROVE  u \in users /\ Before(q, u)
<1>1. call'[q] = call[q] /\ earlier'[q] = earlier[q]
  BY Kept
<1>2. u \in users
  <2> SUFFICES ASSUME u \notin users PROVE FALSE
    OBVIOUS
  <2>1. PICK k \in Req : UserAdded(k)
    BY UsersStep
  <2>2. u.by = k /\ pc[k] = "create"
    BY <2>1 DEF UserAdded, NewUser
  <2>3. Settled(k)
    BY <1>1, <2>2 DEF Before, Past
  <2> QED
    BY <2>2, <2>3 DEF Settled
<1> QED
  BY <1>1, <1>2 DEF Before

\* A login that is to compare passwords has the users made before it, and is
\* only answered 404 when theirs is another password.
LEMMA FoundBeforeKept == TypeInv /\ Past /\ FoundBefore /\ [Next]_vars => FoundBefore'
<1> SUFFICES ASSUME TypeInv, Past, FoundBefore, [Next]_vars, NEW q \in Req
             PROVE  /\ pc'[q] = "check" => \A u \in users' : Before(q, u)' => u \in found'[q]
                    /\ Login(q)' /\ reply'[q] = "404" =>
                         \A u \in users' : Before(q, u)' =>
                           ~VerifyPassword(u.password, call'[q].password)
  BY DEF FoundBefore
<1>1. ASSUME pc'[q] = "check", NEW u \in users', Before(q, u)' PROVE u \in found'[q]
  <2>1. pc[q] # "idle"
    BY <1>1, FoundStep
  <2>2. u \in users /\ Before(q, u)
    BY <1>1, <2>1, BeforeStays
  <2>3. CASE found'[q] = found[q] /\ pc[q] = "check"
    BY <2>2, <2>3 DEF FoundBefore
  <2>4. CASE found'[q] = {v \in users : v.email = call[q].email}
    BY <2>2, <2>4 DEF Before
  <2> QED
    BY <1>1, <2>3, <2>4, FoundStep
<1>2. ASSUME Login(q)', reply'[q] = "404", NEW u \in users', Before(q, u)'
      PROVE  ~VerifyPassword(u.password, call'[q].password)
  <2>1. pc[q] # "idle"
    BY <1>2, ReplyStep DEF TypeInv, Stages, Stage
  <2>2. call'[q] = call[q] /\ u \in users /\ Before(q, u)
    BY <1>2, <2>1, Kept, BeforeStays
  <2>3. CASE reply[q] = "404"
    BY <1>2, <2>2, <2>3 DEF FoundBefore, Login
  <2>4. CASE reply[q] # "404"
    <3>1. pc[q] = "check" /\ ~PasswordOk(q)
      BY <1>2, <2>4, ReplyStep
    <3> QED
      BY <2>2, <3>1 DEF FoundBefore, PasswordOk
  <2> QED
    BY <2>3, <2>4
<1> QED
  BY <1>1, <1>2

\* A rival login stays one.
LEMMA RivalStays ==
  ASSUME TypeInv, [Next]_vars, NEW k \in Req, NEW l \in Req, Rival(k, l), Login(l), token[l] # {}
  PROVE  Rival(k, l)'
<1>1. call'[k] = call[k] /\ call'[l] = call[l] /\ earlier'[l] = earlier[l]
  BY CallFixed DEF Rival, Login
<1>2. token'[k] = token[k] /\ token'[l] = token[l]
  BY Kept DEF Rival
<1> QED
  BY <1>1, <1>2 DEF Rival, Login

\* A lookup that finds no session for a young token of l found l's place taken:
\* l's email has a session, written by a login that was not over before l.
LEMMA LoggedOutKept ==
  UserInv /\ LoggedOutByAnother /\ [Next]_vars => LoggedOutByAnother'
<1> SUFFICES ASSUME UserInv, LoggedOutByAnother, [Next]_vars, NEW q \in Req, NEW l \in Req,
                    RefusedYoung(q, l)'
             PROVE  \E k \in Req : Rival(k, l)'
  BY DEF LoggedOutByAnother
<1>0. TypeInv /\ TokensSound /\ SessionsSound /\ Past /\ WritesDone
  BY DEF UserInv
<1>1. pc[q] # "idle"
  <2> SUFFICES ASSUME pc[q] = "idle" PROVE FALSE
    OBVIOUS
  <2>1. reply[q] = "waiting"
    BY <1>0 DEF TypeInv, Stages, Stage
  <2>2. startedAt'[q] = now /\ ~VerifyJwt(call'[q])
    BY <1>0, <2>1, RefusalStep DEF RefusedYoung
  <2> QED
    BY <2>2 DEF RefusedYoung, VerifyJwt
<1>2. call'[q] = call[q] /\ earlier'[q] = earlier[q] /\ startedAt'[q] = startedAt[q]
  BY <1>0, <1>1, Kept
<1>3. Settled(l)
  BY <1>0, <1>2 DEF RefusedYoung, Past
<1>4. reply[l] = "200" /\ call'[l] = call[l]
  BY <1>0, <1>3, Kept DEF RefusedYoung, Settled
<1>5. Login(l) /\ ses[l] = "ok" /\ token[l] # {}
  BY <1>0, <1>4 DEF RefusedYoung, Login, TypeInv, Stages, Stage
<1>6. token'[l] = token[l]
  BY <1>0, <1>5, Kept
<1>7. \E k \in Req : Rival(k, l)
  <2>1. CASE reply[q] = "401"
    BY <1>2, <1>4, <1>5, <1>6, <2>1 DEF RefusedYoung, LoggedOutByAnother
  <2>2. CASE reply[q] # "401"
    <3>1. \A s \in sessions : s.token # call[q].token
      BY <1>0, <1>1, <2>2, RefusalStep DEF RefusedYoung
    <3>2. PICK s \in sessions : s.email = call[l].email /\ s.by \notin earlier[l]
      BY <1>0, <1>5 DEF WritesDone
    <3>3. s.by \in Req /\ Login(s.by) /\ call[s.by].email = s.email /\ s.token \in token[s.by]
      BY <1>0 DEF SessionsSound, Authentic, TypeInv, TypeOK, StoreTypeOK, Session
    <3>4. call[q].token \in token[l]
      BY <1>2, <1>6 DEF RefusedYoung
    <3>5. token[l] = {call[q].token}
      BY <1>0, <3>4 DEF TokensSound
    <3> QED
      BY <3>1, <3>2, <3>3, <3>5 DEF Rival
  <2> QED
    BY <2>1, <2>2
<1> QED
  BY <1>0, <1>5, <1>7, RivalStays

-----------------------------------------------------------------------------
(* The theorems *)

\* RefusalInv is kept by every handler, by MongoDB and by the surroundings.
LEMMA NextRefusal == RefusalInv /\ UserInv' /\ [Next]_vars => RefusalInv'
<1> SUFFICES ASSUME RefusalInv, UserInv', [Next]_vars PROVE RefusalInv'
  OBVIOUS
<1>0. UserInv /\ TypeInv /\ UsersSound /\ Past
  BY DEF RefusalInv, UserInv
<1>1. MadeByDone' /\ Taken'
  BY <1>0, MadeByDoneKept, TakenKept DEF RefusalInv
<1>2. Reasons'
  BY <1>0, ReasonKept DEF RefusalInv, Reasons
<1>3. FoundBefore' /\ LoggedOutByAnother'
  BY <1>0, FoundBeforeKept, LoggedOutKept DEF RefusalInv
<1> QED
  BY <1>1, <1>2, <1>3 DEF RefusalInv

\* What is refused is refused for a reason, in every reachable state.
THEOREM RefusalInductive == Spec => []RefusalInv
<1>1. UserInv /\ UserInv' /\ RefusalInv /\ [Next]_vars => RefusalInv'
  BY NextRefusal
<1> QED
  BY <1>1, InitRefusal, Inductive, PTL DEF Spec

\* An error is never answered without its cause: a registration or login that fails
\* though its own operations do not was beaten by another one, a user who was there is
\* not denied, and without a failed operation or a stop nobody is answered 500 or cut off.
THEOREM ErrorsHaveReasons == Spec => []RefusedForAReason
<1>1. RefusalInv => RefusedForAReason
  <2> SUFFICES ASSUME RefusalInv, NEW q \in Req
               PROVE  /\ Register(q) /\ reply[q] = "400" => (q \in failed \/ \E u \in users : Other(q, u))
                      /\ Login(q) /\ reply[q] = "400" => (q \in failed \/ \E s \in sessions : Other(q, s))
                      /\ call[q].op = "verify" /\ reply[q] = "400" => q \in failed
                      /\ Login(q) /\ reply[q] = "404" =>
                           \A u \in users : u.email = call[q].email /\ u.by \in earlier[q] =>
                             ~VerifyPassword(u.password, call[q].password)
                      /\ reply[q] = "500" => q \in failed
                      /\ reply[q] = "reset" => stops > 0
    BY DEF RefusedForAReason
  <2>1. Register(q) /\ reply[q] = "400" => (q \in failed \/ \E u \in users : Other(q, u))
    BY DEF RefusalInv, Taken
  <2>2. ASSUME Login(q), reply[q] = "400", q \notin failed PROVE \E s \in sessions : Other(q, s)
    <3>1. ses[q] = "E11000"
      BY <2>2 DEF RefusalInv, Reasons, Reason
    <3>2. HasSession(call[q].email)
      BY <3>1 DEF RefusalInv, Taken
    <3>3. \A s \in sessions : s.by # q
      BY <3>1 DEF RefusalInv, MadeByDone, Failure
    <3> QED
      BY <3>2, <3>3 DEF HasSession, Other
  <2>3. Login(q) /\ reply[q] = "404" =>
          \A u \in users : u.email = call[q].email /\ u.by \in earlier[q] =>
            ~VerifyPassword(u.password, call[q].password)
    BY DEF RefusalInv, FoundBefore, Before
  <2>4. /\ call[q].op = "verify" /\ reply[q] = "400" => q \in failed
        /\ reply[q] = "500" => q \in failed
        /\ reply[q] = "reset" => stops > 0
    BY DEF RefusalInv, Reasons, Reason
  <2> QED
    BY <2>1, <2>2, <2>3, <2>4
<1> QED
  BY <1>1, RefusalInductive, PTL

\* The token of a login answered 200 is accepted until it expires or another
\* login of the same email, later or concurrent, has signed one (verifyToken).
THEOREM NoSpuriousLogout == Spec => []LoggedOutByAnother
<1>1. RefusalInv => LoggedOutByAnother
  BY DEF RefusalInv
<1> QED
  BY <1>1, RefusalInductive, PTL

\* A request is answered once: neither a write that fails after the other one
\* (Promise.all), nor a stop, changes what its client was told.
THEOREM ReplyIsFinal == Spec => [][\A q \in Req : reply[q] # "waiting" => reply'[q] = reply[q]]_vars
<1>1. RefusalInv /\ [Next]_vars => [\A q \in Req : reply[q] # "waiting" => reply'[q] = reply[q]]_vars
  BY ReasonKept DEF RefusalInv, UserInv
<1> QED
  BY <1>1, RefusalInductive, PTL DEF Spec
=============================================================================
