------------------------------ MODULE UserAuth ------------------------------
(***************************************************************************)
(* Registration, login and token verification of user-service: the service *)
(* (service/user.service.ts) with the controller and router in front of it *)
(* and the MongoDB collections users, sessions and devices behind it.      *)
(*                                                                         *)
(* Node runs one handler at a time, but every await lets the others in:    *)
(* an action is what a handler does between two awaits, or what MongoDB    *)
(* does with an operation it was sent.  An operation can fail without      *)
(* effect, or take effect and have its answer lost; the process can be     *)
(* stopped (index.ts exits at once) while operations are on their way.     *)
(*                                                                         *)
(* The unique indexes of the models are taken to be built.  earlier and    *)
(* startedAt are history variables: no guard reads them; failed is one     *)
(* that the bound on failures reads.                                       *)
(***************************************************************************)
EXTENDS Integers, FiniteSets

CONSTANTS Req,        \* requests; a client that retries sends another one
          Email, Password,
          TTL,        \* life of an access token ("10m" in login), in seconds
          MaxTime,    \* bound: the clock stops here
          MaxFaults,  \* bound: requests of which an operation fails or loses its answer
          MaxStops    \* bound: times the process is stopped and restarted

ASSUME TTLAssumption == TTL \in Nat \ {0}
ASSUME BoundsAssumption == MaxTime \in Nat /\ MaxFaults \in Nat /\ MaxStops \in Nat

VARIABLES
  users,      \* collection users: [email, password (hashed), by]
  sessions,   \* collection sessions: [email, token, by]
  devices,    \* collection devices: the logins that have inserted theirs
  now,        \* the clock, in seconds
  call,       \* what a request asks for: [op, email, password] or [op, token]
  pc,         \* where its handler is
  found,      \* the users a login's findOne returned: at most one
  token,      \* the access tokens a login signed: at most one
  dev, ses,   \* state of a login's two concurrent writes
  reply,      \* the status a request is answered with
  failed,     \* the requests of which an operation failed
  stops,
  earlier,    \* the requests that were all over when this one started
  startedAt   \* the time this one started

store == <<users, sessions, devices>>
handlers == <<call, pc, found, token, dev, ses, reply>>
bounds == <<failed, stops>>
history == <<earlier, startedAt>>
vars == <<store, now, handlers, bounds, history>>

Token == [email : Email, iat : 0..MaxTime]

\* What argon2 makes of a password, and what it then accepts.
Hash(p) == [argon2 |-> p]
\* Mutant of VerifyPassword: the arguments of argon2.verify are swapped.
VerifyPasswordMutant(h, p) == p = Hash(h)
VerifyPassword(h, p) == h = Hash(p)

User == [email : Email, password : {Hash(p) : p \in Password}, by : Req]
Session == [email : Email, token : Token, by : Req]
Credentials == [op : {"register", "login"}, email : Email, password : Password]
Call == Credentials \union [op : {"verify"}, token : Token]
            \union {[op |-> "none"], [op |-> "malformed"], [op |-> "forged"]}

\* The operations a request has sent to MongoDB are all settled.
Settled(q) == pc[q] = "done" /\ dev[q] # "sent" /\ ses[q] \notin {"sent", "insert"}

Init == /\ users = {} /\ sessions = {} /\ devices = {}
        /\ now = 0
        /\ call = [q \in Req |-> [op |-> "none"]]
        /\ pc = [q \in Req |-> "idle"]
        /\ found = [q \in Req |-> {}]
        /\ token = [q \in Req |-> {}]
        /\ dev = [q \in Req |-> "none"]
        /\ ses = [q \in Req |-> "none"]
        /\ reply = [q \in Req |-> "waiting"]
        /\ failed = {} /\ stops = 0
        /\ earlier = [q \in Req |-> {}]
        /\ startedAt = [q \in Req |-> 0]

-----------------------------------------------------------------------------
(* A request comes in *)

Begin(q, c) == /\ pc[q] = "idle"
               /\ call' = [call EXCEPT ![q] = c]
               /\ earlier' = [earlier EXCEPT ![q] = {r \in Req : Settled(r)}]
               /\ startedAt' = [startedAt EXCEPT ![q] = now]

\* The status a handler ends with; a client that was cut off hears nothing.
Answer(q, status) ==
  reply' = [reply EXCEPT ![q] = IF @ = "waiting" THEN status ELSE @]

\* The body does not pass the route's schema: handleError answers 400.
RejectBody(q) == /\ Begin(q, [op |-> "malformed"])
                 /\ pc' = [pc EXCEPT ![q] = "done"]
                 /\ Answer(q, "400")
                 /\ UNCHANGED <<store, now, found, token, dev, ses, bounds>>

\* register and login go on to their first operation: create hashes the
\* password and inserts, login looks the user up.
BeginCredentials(q, c) ==
  /\ Begin(q, c)
  /\ pc' = [pc EXCEPT ![q] = IF c.op = "register" THEN "create" ELSE "find"]
  /\ UNCHANGED <<store, now, found, token, dev, ses, reply, bounds>>

\* Mutant of VerifyJwt: a token still counts in the second it expires in.
VerifyJwtMutant(c) == c.op = "verify" /\ now <= c.token.iat + TTL

\* verifyJwt runs before the first await: a token with a bad signature, or one
\* that has expired, is refused without a look at the sessions.
VerifyJwt(c) == c.op = "verify" /\ now < c.token.iat + TTL

BeginVerify(q, c) ==
  /\ Begin(q, c)
  /\ IF VerifyJwt(c)
     THEN pc' = [pc EXCEPT ![q] = "lookup"] /\ UNCHANGED reply
     ELSE pc' = [pc EXCEPT ![q] = "done"] /\ Answer(q, "401")
  /\ UNCHANGED <<store, now, found, token, dev, ses, bounds>>

\* The tokens clients hold: those of the logins that were answered 200.
Issued == UNION {token[q] : q \in {r \in Req : call[r].op = "login" /\ reply[r] = "200"}}

-----------------------------------------------------------------------------
(* Faults *)

\* An operation whose handler is gone can be lost with it; those of the others fail
\* for a bounded number of requests.
Fault(q) == IF reply[q] = "reset"
            THEN UNCHANGED bounds
            ELSE /\ failed' = failed \union {q}
                 /\ Cardinality(failed') <= MaxFaults
                 /\ UNCHANGED stops

\* How an operation fails: MongoDB answers an error (a MongoServerError), or it
\* cannot be reached, is too late, or mongoose refuses the document.
Failure == {"refused", "error"}

\* The controller's catch: 400 for any MongoServerError, E11000 only words it otherwise.
ErrorStatus(e) == IF e \in {"refused", "E11000"} THEN "400" ELSE "500"

\* The answer to an operation that took effect arrives, or it is lost.
Outcome(q, ok, lost) == \/ ok /\ UNCHANGED bounds
                        \/ lost /\ Fault(q)

-----------------------------------------------------------------------------
(* createUser *)

\* Mutant of NewUser: no pre-save hook, the password is stored as it came.
NewUserMutant(q) == [email |-> call[q].email, password |-> call[q].password, by |-> q]

\* The document that is saved: its pre-save hook hashes the password.
NewUser(q) == [email |-> call[q].email, password |-> Hash(call[q].password), by |-> q]

\* Mutant of EmailTaken: the schema lacks unique: true.
EmailTakenMutant(e) == FALSE

\* The unique index on email.
EmailTaken(e) == \E u \in users : u.email = e

\* The unique index decides, whatever validation saw before.
Create(q) ==
  /\ pc[q] = "create"
  /\ pc' = [pc EXCEPT ![q] = "done"]
  /\ IF EmailTaken(call[q].email)
     THEN Answer(q, ErrorStatus("E11000")) /\ UNCHANGED <<users, bounds>>
     ELSE /\ users' = users \union {NewUser(q)}
          /\ Outcome(q, Answer(q, "200"), \E e \in Failure : Answer(q, ErrorStatus(e)))
  /\ UNCHANGED <<sessions, devices, now, call, found, token, dev, ses, history>>

-----------------------------------------------------------------------------
(* login *)

Find(q) == /\ pc[q] = "find"
           /\ pc' = [pc EXCEPT ![q] = "check"]
           /\ found' = [found EXCEPT ![q] = {u \in users : u.email = call[q].email}]
           /\ UNCHANGED <<store, now, call, token, dev, ses, reply, bounds, history>>

\* Mutant of PasswordOk: the result of verifyPassword is not looked at.
PasswordOkMutant(q) == found[q] # {}

PasswordOk(q) == \E u \in found[q] : VerifyPassword(u.password, call[q].password)

\* No user, or another password: null, which the controller makes a 404.
Refuse(q) == /\ pc[q] = "check"
             /\ ~PasswordOk(q)
             /\ pc' = [pc EXCEPT ![q] = "done"]
             /\ Answer(q, "404")
             /\ UNCHANGED <<store, now, call, found, token, dev, ses, bounds, history>>

\* The tokens are signed (iat counts whole seconds) and both writes are sent.
Sign(q) == /\ pc[q] = "check"
           /\ PasswordOk(q)
           /\ pc' = [pc EXCEPT ![q] = "write"]
           /\ token' = [token EXCEPT ![q] = {[email |-> call[q].email, iat |-> now]}]
           /\ dev' = [dev EXCEPT ![q] = "sent"]
           /\ ses' = [ses EXCEPT ![q] = "sent"]
           /\ UNCHANGED <<store, now, call, found, reply, bounds, history>>

\* UserAgentModel.create
CreateDevice(q) ==
  /\ dev[q] = "sent"
  /\ devices' = devices \union {q}
  /\ \E out \in {"ok"} \union Failure :
        /\ dev' = [dev EXCEPT ![q] = out]
        /\ Outcome(q, out = "ok", out \in Failure)
  /\ UNCHANGED <<users, sessions, now, call, pc, found, token, ses, reply, history>>

HasSession(e) == \E s \in sessions : s.email = e

\* Mutant of PutSession: the condition is the new access token, so that every login inserts.
PutSessionMutant(q) ==
  /\ sessions' = sessions \union [email : {call[q].email}, token : token[q], by : {q}]
  /\ \E out \in {"ok"} \union Failure :
        /\ ses' = [ses EXCEPT ![q] = out]
        /\ Outcome(q, out = "ok", out \in Failure)
  /\ UNCHANGED <<users, devices, now, call, pc, found, token, dev, reply, history>>

\* The session of the call's email becomes this login's.
PutSession(q) ==
  /\ sessions' = {s \in sessions : s.email # call[q].email}
                   \union [email : {call[q].email}, token : token[q], by : {q}]
  /\ \E out \in {"ok"} \union Failure :
        /\ ses' = [ses EXCEPT ![q] = out]
        /\ Outcome(q, out = "ok", out \in Failure)
  /\ UNCHANGED <<users, devices, now, call, pc, found, token, dev, reply, history>>

\* SessionModel.findOneAndUpdate with upsert: a match is updated in place ...
UpdateSession(q) == ses[q] = "sent" /\ HasSession(call[q].email) /\ PutSession(q)

\* ... with none, MongoDB goes on to insert ...
MissSession(q) == /\ ses[q] = "sent"
                  /\ ~HasSession(call[q].email)
                  /\ ses' = [ses EXCEPT ![q] = "insert"]
                  /\ UNCHANGED <<store, now, call, pc, found, token, dev, reply, bounds, history>>

InsertSession(q) == ses[q] = "insert" /\ ~HasSession(call[q].email) /\ PutSession(q)

\* ... and meets the unique index if another login was faster.
DuplicateSession(q) == /\ ses[q] = "insert"
                       /\ HasSession(call[q].email)
                       /\ ses' = [ses EXCEPT ![q] = "E11000"]
                       /\ UNCHANGED <<store, now, call, pc, found, token, dev, reply, bounds, history>>

\* Mutant of Verdicts: Promise.allSettled, a write that failed goes unnoticed.
VerdictsSettled(q) == IF dev[q] # "sent" /\ ses[q] \notin {"sent", "insert"} THEN {"200"} ELSE {}

\* Mutant of Verdicts: the rejection of the session's write is lost.
VerdictsHangs(q) == (IF dev[q] = "ok" /\ ses[q] = "ok" THEN {"200"} ELSE {})
                      \union {ErrorStatus(e) : e \in {dev[q]} \intersect Failure}

\* Promise.all: both writes are through, or the first failure rejects it.
Verdicts(q) == (IF dev[q] = "ok" /\ ses[q] = "ok" THEN {"200"} ELSE {})
                 \union {ErrorStatus(e) : e \in {dev[q], ses[q]} \intersect (Failure \union {"E11000"})}

\* The login ends as Promise.all does; a write that is still on its way is left to itself.
LoginReply(q) == /\ pc[q] = "write"
                 /\ \E status \in Verdicts(q) : Answer(q, status)
                 /\ pc' = [pc EXCEPT ![q] = "done"]
                 /\ UNCHANGED <<store, now, call, found, token, dev, ses, bounds, history>>

-----------------------------------------------------------------------------
(* verifyToken *)

\* Mutant of Lookup: any session of the token's email will do.
LookupMutant(q) == /\ pc[q] = "lookup"
                   /\ pc' = [pc EXCEPT ![q] = "done"]
                   /\ IF \E s \in sessions : s.email = call[q].token.email
                      THEN Answer(q, "200") ELSE Answer(q, "401")
                   /\ UNCHANGED <<store, now, call, found, token, dev, ses, bounds, history>>

Lookup(q) == /\ pc[q] = "lookup"
             /\ pc' = [pc EXCEPT ![q] = "done"]
             /\ IF \E s \in sessions : s.token = call[q].token
                THEN Answer(q, "200") ELSE Answer(q, "401")
             /\ UNCHANGED <<store, now, call, found, token, dev, ses, bounds, history>>

-----------------------------------------------------------------------------
(* The surroundings *)

\* A request's only operation fails without effect (or its read is lost).
FailOnly(q) == /\ pc[q] \in {"create", "find", "lookup"}
               /\ Fault(q)
               /\ pc' = [pc EXCEPT ![q] = "done"]
               /\ \E e \in Failure : Answer(q, ErrorStatus(e))
               /\ UNCHANGED <<store, now, call, found, token, dev, ses, history>>

FailDevice(q) == /\ dev[q] = "sent"
                 /\ Fault(q)
                 /\ \E e \in Failure : dev' = [dev EXCEPT ![q] = e]
                 /\ UNCHANGED <<store, now, call, pc, found, token, ses, reply, history>>

FailSession(q) == /\ ses[q] \in {"sent", "insert"}
                  /\ Fault(q)
                  /\ \E e \in Failure : ses' = [ses EXCEPT ![q] = e]
                  /\ UNCHANGED <<store, now, call, pc, found, token, dev, reply, history>>

\* The process stops: every client is cut off, handlers are gone; writes that
\* were sent may still be carried out.
Stop == /\ stops < MaxStops
        /\ \E q \in Req : pc[q] \notin {"idle", "done"}
        /\ stops' = stops + 1
        /\ reply' = [q \in Req |-> IF pc[q] \notin {"idle", "done"} THEN "reset" ELSE reply[q]]
        /\ pc' = [q \in Req |-> IF pc[q] \in {"find", "check", "lookup", "write"} THEN "done" ELSE pc[q]]
        /\ UNCHANGED <<store, now, call, found, token, dev, ses, failed, history>>

Tick == /\ now < MaxTime
        /\ now' = now + 1
        /\ UNCHANGED <<store, handlers, bounds, history>>

\* Every request has been made and has come to its end.
Finished == (\A q \in Req : Settled(q)) /\ UNCHANGED vars

Arrive(q) == \/ RejectBody(q)
             \/ \E c \in Credentials : BeginCredentials(q, c)
             \/ \E t \in Issued : BeginVerify(q, [op |-> "verify", token |-> t])
             \/ BeginVerify(q, [op |-> "forged"])

Handle(q) == Create(q) \/ Find(q) \/ Refuse(q) \/ Sign(q) \/ LoginReply(q) \/ Lookup(q)

Mongo(q) == CreateDevice(q) \/ UpdateSession(q) \/ MissSession(q) \/ InsertSession(q) \/ DuplicateSession(q)

Fail(q) == FailOnly(q) \/ FailDevice(q) \/ FailSession(q)

Next == \/ \E q \in Req : Arrive(q) \/ Handle(q) \/ Mongo(q) \/ Fail(q)
        \/ Stop \/ Tick \/ Finished

Spec == Init /\ [][Next]_vars

\* MongoDB answers, or the driver gives up: each operation comes to an end and
\* the event loop then runs its handler.  Nobody has to send a request.
RequestFairness(q) == WF_vars(Handle(q)) /\ WF_vars(Mongo(q))

FairSpec == Spec /\ \A q \in Req : RequestFairness(q)

-----------------------------------------------------------------------------
(* Properties *)

StoreTypeOK == users \subseteq User /\ sessions \subseteq Session /\ devices \subseteq Req

HandlerTypeOK == /\ call \in [Req -> Call]
                 /\ pc \in [Req -> {"idle", "create", "find", "check", "write", "lookup", "done"}]
                 /\ found \in [Req -> SUBSET User]
                 /\ token \in [Req -> SUBSET Token]
                 /\ dev \in [Req -> {"none", "sent", "ok"} \union Failure]
                 /\ ses \in [Req -> {"none", "sent", "insert", "ok", "E11000"} \union Failure]
                 /\ reply \in [Req -> {"waiting", "200", "400", "401", "404", "500", "reset"}]

WorldTypeOK == /\ now \in 0..MaxTime /\ failed \subseteq Req /\ stops \in 0..MaxStops
               /\ earlier \in [Req -> SUBSET Req]
               /\ startedAt \in [Req -> 0..MaxTime]

\* The collections hold documents of their schemas with hashed passwords, and
\* the handlers and the clock have their types (models, user.service.ts).
TypeOK == StoreTypeOK /\ HandlerTypeOK /\ WorldTypeOK

Register(q) == call[q].op = "register"
Login(q) == call[q].op = "login"

\* A registration answered 200 is the one that made the email's user, with its
\* own password, and no other can be answered 200 (createUser, unique email).
RegisterWins ==
  \A q \in Req : Register(q) /\ reply[q] = "200" =>
    \E u \in users : /\ u = NewUser(q)
                     /\ \A v \in users : v.email = u.email => v = u

\* A login whose password is that of the user.
Authentic(q) == /\ Login(q)
                /\ \E u \in users : /\ u.email = call[q].email
                                    /\ VerifyPassword(u.password, call[q].password)

\* There is one session per email however logins race, and it was written by a
\* login that gave the user's password and signed its token (login).
SessionsSound ==
  \A s \in sessions :
    /\ \A t \in sessions : t.email = s.email => t = s
    /\ Authentic(s.by) /\ call[s.by].email = s.email /\ s.token \in token[s.by]

\* A token is accepted only if an authentic login signed it and it had not
\* expired when the request came (verifyToken).
VerifySound ==
  \A q \in Req : call[q].op = "verify" /\ reply[q] = "200" =>
    LET t == call[q].token
    IN  /\ \E l \in Req : Authentic(l) /\ call[l].email = t.email /\ t \in token[l]
        /\ startedAt[q] < t.iat + TTL

\* A login answered 200 has stored its device and has taken the session over
\* from every login that was over before it started (the Promise.all of login).
LoginTakesOver ==
  \A q \in Req : Login(q) /\ reply[q] = "200" =>
    /\ q \in devices
    /\ \E s \in sessions : s.email = call[q].email /\ s.by \notin earlier[q]

\* A login answered 200 revokes the tokens of the logins before it: a request
\* made afterwards with one of them is not accepted, although it has not
\* expired (one session per email, findOne by access token in verifyToken).
OldTokenRevoked ==
  \A q, l \in Req :
    /\ call[q].op = "verify"
    /\ Login(l) /\ reply[l] = "200" /\ l \in earlier[q]
    /\ call[l].email = call[q].token.email /\ call[q].token \notin token[l]
    /\ \A k \in Req : call[q].token \in token[k] => k \in earlier[l]
    => reply[q] # "200"

\* Who has been told that he is registered is not told 404 when he logs in
\* with the same email and password.
RegisteredCanLogin ==
  \A r, q \in Req :
    /\ Register(r) /\ reply[r] = "200" /\ r \in earlier[q]
    /\ Login(q) /\ call[q].email = call[r].email /\ call[q].password = call[r].password
    => reply[q] # "404"

\* Every request is answered or cut off, and no write of it is left on its way,
\* also if the other half of a login's Promise.all failed or the process stopped.
RequestSettles(q) == pc[q] # "idle" ~> Settled(q) /\ reply[q] # "waiting"

AnsweredAndSettled == \A q \in Req : RequestSettles(q)

Outstanding(q) == dev[q] = "sent" \/ ses[q] \in {"sent", "insert"}

\* No request is ever stuck: as long as a write of it is on its way MongoDB can go on
\* with it, and with none on its way its handler can, whichever of a login's two
\* writes failed and however (Promise.all in login).
NobodyStuck ==
  \A q \in Req :
    /\ Outstanding(q) => ENABLED <<Mongo(q)>>_vars
    /\ pc[q] \notin {"idle", "done"} /\ ~Outstanding(q) => ENABLED <<Handle(q)>>_vars

-----------------------------------------------------------------------------
(* The promise of AccountStore, kept by handlers and collections together. *)

accountStatus == [q \in Req |-> IF pc[q] = "idle" THEN "new"
                                ELSE IF reply[q] = "200" THEN "granted"
                                ELSE IF ses[q] = "ok" THEN "stored" ELSE "asked"]

accountPassword == [e \in Email |-> {p \in Password : \E u \in users : u.email = e /\ VerifyPassword(u.password, p)}]

accountHolder == [e \in Email |-> {t \in Token : \E s \in sessions : s.email = e /\ s.token = t}]

Account == INSTANCE AccountStore WITH ask <- call, status <- accountStatus,
                                      password <- accountPassword, holder <- accountHolder

\* The interleaved handlers implement an account store in which a request takes
\* effect at one moment: an email is registered once, whatever races, a login
\* has its password at the moment it signs although it was read before two
\* awaits, and a verification accepts the token stored last.
ImplementsAccounts == Account!Spec
=============================================================================
