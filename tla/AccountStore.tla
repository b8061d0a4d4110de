---------------------------- MODULE AccountStore ----------------------------
(***************************************************************************)
(* What user-service promises about accounts, without MongoDB, hashes,     *)
(* awaits, faults or time.  An email is registered once and keeps its      *)
(* password.  A login that gives it signs a token; when that is stored, it *)
(* is the only one of its email that is accepted.  A request is granted    *)
(* only after its effect, while one that has had an effect need not be.    *)
(***************************************************************************)
CONSTANTS Req, Email, Password,
          Token,  \* [email, ...]
          Call    \* what a request may ask for

VARIABLES ask,       \* ask[q]: what request q asks for
          status,    \* status[q]: "new", "asked", "stored" (a login's token) or "granted"
          token,     \* token[q]: what login q has signed: at most one
          password,  \* password[e]: the password of e: at most one
          holder     \* holder[e]: the token of e that is accepted: at most one

vars == <<ask, status, token, password, holder>>

Init == /\ ask = [q \in Req |-> [op |-> "none"]]
        /\ status = [q \in Req |-> "new"]
        /\ token = [q \in Req |-> {}]
        /\ password = [e \in Email |-> {}]
        /\ holder = [e \in Email |-> {}]

To(q, from, to) == status[q] = from /\ status' = [status EXCEPT ![q] = to]

Ask(q) == /\ To(q, "new", "asked")
          /\ \E c \in Call : ask' = [ask EXCEPT ![q] = c]
          /\ UNCHANGED <<token, password, holder>>

Register(q) == /\ ask[q].op = "register" /\ password[ask[q].email] = {}
               /\ password' = [password EXCEPT ![ask[q].email] = {ask[q].password}]
               /\ To(q, "asked", "granted") \/ To(q, "asked", "asked")
               /\ UNCHANGED <<ask, token, holder>>

Sign(q) == /\ ask[q].op = "login" /\ ask[q].password \in password[ask[q].email]
           /\ token[q] = {}
           /\ \E t \in Token : t.email = ask[q].email /\ token' = [token EXCEPT ![q] = {t}]
           /\ UNCHANGED <<ask, status, password, holder>>

\* The token is stored; that it was may be lost on the way.
Store(q) == /\ ask[q].op = "login" /\ token[q] # {}
            /\ holder' = [holder EXCEPT ![ask[q].email] = token[q]]
            /\ To(q, "asked", "stored") \/ To(q, "asked", "asked")
            /\ UNCHANGED <<ask, token, password>>

Grant(q) == To(q, "stored", "granted") /\ UNCHANGED <<ask, token, password, holder>>

Accept(q) == /\ ask[q].op = "verify" /\ ask[q].token \in holder[ask[q].token.email]
             /\ To(q, "asked", "granted")
             /\ UNCHANGED <<ask, token, password, holder>>

Next == \E q \in Req : Ask(q) \/ Register(q) \/ Sign(q) \/ Store(q) \/ Grant(q) \/ Accept(q)

Spec == Init /\ [][Next]_vars
=============================================================================
