----------------------------- MODULE MessageBus -----------------------------
(***************************************************************************)
(* What go-service's Kafka code promises to its callers and its handlers,  *)
(* without producers, queues, offset stores or commits.  A call gives one  *)
(* message to its topic, is told a verdict and only then returns.  A topic *)
(* is a log; its handler gets one entry at a time, from the first on.  It  *)
(* may be taken back to any entry it had been given, so that entries come  *)
(* again, but none is passed over except those that a crash caught in the  *)
(* handler.  A message that was given may be stored at any time, also      *)
(* after the caller was told that it failed or a crash has ended the call; *)
(* one that was refused never is, and none is stored twice.                *)
(***************************************************************************)
EXTENDS Integers, Sequences

CONSTANTS Sender,  \* calls, each with a message of its own
          Topic

VARIABLES to,       \* to[s]: the topic of call s
          call,     \* call[s]: "new", "begun", "given", "returned", "refused" or "dead"
          sent,     \* the messages that were given
          verdict,  \* verdict[s]: what s was told: "none", "delivered" or "failed"
          log,      \* log[t]: the messages of topic t
          next,     \* next[t]: how far the handler of t has been given the log
          hand,     \* hand[t]: the entry it works on: at most one
          handled,  \* handled[t]: the entries it has finished
          caught    \* caught[t]: the entries it had in hand at a crash

calls == <<to, call, sent, verdict>>
handlers == <<next, hand, handled, caught>>
vars == <<calls, log, handlers>>

Init == /\ to \in [Sender -> Topic]
        /\ call = [s \in Sender |-> "new"] /\ verdict = [s \in Sender |-> "none"]
        /\ sent = {}
        /\ log = [t \in Topic |-> <<>>]
        /\ next = [t \in Topic |-> 0] /\ hand = [t \in Topic |-> {}]
        /\ handled = [t \in Topic |-> {}] /\ caught = [t \in Topic |-> {}]

Goes(s, from, into) == call[s] = from /\ call' = [call EXCEPT ![s] = into]

Stored(s) == \E i \in DOMAIN log[to[s]] : log[to[s]][i] = s

Begin(s) == Goes(s, "new", "begun") /\ UNCHANGED <<to, sent, verdict, log, handlers>>

Give(s) == /\ Goes(s, "begun", "given") /\ sent' = sent \union {s}
           /\ UNCHANGED <<to, verdict, log, handlers>>

\* The message is not taken, which the caller learns.
Refuse(s) == Goes(s, "begun", "refused") /\ UNCHANGED <<to, sent, verdict, log, handlers>>

\* A message is stored at most once, whatever its call was told by then.
Store(s) == /\ s \in sent /\ ~Stored(s)
            /\ log' = [log EXCEPT ![to[s]] = Append(@, s)]
            /\ UNCHANGED <<calls, handlers>>

\* Delivered is true; failed may be said of a message that is stored, or will be.
Tell(s) == /\ call[s] = "given" /\ verdict[s] = "none"
           /\ \E v \in {"delivered", "failed"} : /\ v = "delivered" => Stored(s)
                                                 /\ verdict' = [verdict EXCEPT ![s] = v]
           /\ UNCHANGED <<to, call, sent, log, handlers>>

Return(s) == /\ verdict[s] # "none" /\ Goes(s, "given", "returned")
             /\ UNCHANGED <<to, sent, verdict, log, handlers>>

Deliver(t) == /\ hand[t] = {} /\ next[t] < Len(log[t])
              /\ next' = [next EXCEPT ![t] = @ + 1]
              /\ hand' = [hand EXCEPT ![t] = {next[t] + 1}]
              /\ UNCHANGED <<calls, log, handled, caught>>

Finish(t) == /\ hand[t] # {}
             /\ handled' = [handled EXCEPT ![t] = @ \union hand[t]]
             /\ hand' = [hand EXCEPT ![t] = {}]
             /\ UNCHANGED <<calls, log, next, caught>>

\* The handler will be given entries again; what it works on it goes on with.
Rewind(t) == /\ \E n \in 0..next[t] : next' = [next EXCEPT ![t] = n]
             /\ UNCHANGED <<calls, log, hand, handled, caught>>

\* The calls under way have no answer, and what was in hand is not finished.
Crash == /\ call' = [s \in Sender |-> IF call[s] \in {"begun", "given"} THEN "dead" ELSE call[s]]
         /\ caught' = [t \in Topic |-> caught[t] \union hand[t]]
         /\ hand' = [t \in Topic |-> {}]
         /\ UNCHANGED <<to, sent, verdict, log, next, handled>>

Next == \/ \E s \in Sender : Begin(s) \/ Give(s) \/ Refuse(s) \/ Store(s) \/ Tell(s) \/ Return(s)
        \/ \E t \in Topic : Deliver(t) \/ Finish(t) \/ Rewind(t)
        \/ Crash

Spec == Init /\ [][Next]_vars
=============================================================================
