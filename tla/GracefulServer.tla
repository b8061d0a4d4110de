--------------------------- MODULE GracefulServer ----------------------------
(***************************************************************************)
(* How a server stops when it is told to, without listeners, timers,       *)
(* channels or callbacks: from then on nobody new is let in, and it goes   *)
(* down when all are gone, or after its grace, cutting off who is left.    *)
(* go-service (Gateway) and customer-service (CustomerServer), written in  *)
(* two languages, both implement it.                                       *)
(***************************************************************************)
EXTENDS Naturals

CONSTANTS Guest,   \* requests or connections
          Grace,   \* how long the server may take to stop
          Abrupt   \* whether it may go down before it listens to being told

VARIABLES phase,   \* "up", "stopping" or "down"
          elapsed, \* the time since it was told to stop
          state    \* of a client: "away", "open", "busy", "gone" or "cut" off

vars == <<phase, elapsed, state>>

Here == {"open", "busy"}
State == Here \union {"away", "gone", "cut"}

Init == phase = "up" /\ elapsed = 0 /\ state = [c \in Guest |-> "away"]

\* What a client can become while the server is up or stopping.
Become(c) == IF state[c] = "away" THEN IF phase = "up" THEN {"away"} \union Here ELSE {"away"}
             ELSE IF state[c] \in Here THEN Here \union {"gone"}
             ELSE {state[c]}

\* Clients come, if the server is up, are served and go.
Serve == /\ phase # "down"
         /\ state' \in [Guest -> State] /\ \A c \in Guest : state'[c] \in Become(c)
         /\ UNCHANGED <<phase, elapsed>>

\* The server is told to stop; it may close who is idle at once.
Stop == /\ phase = "up" /\ phase' = "stopping"
        /\ state' \in [Guest -> State]
        /\ \A c \in Guest : state'[c] = state[c] \/ (state[c] = "open" /\ state'[c] = "gone")
        /\ UNCHANGED elapsed

Wait == /\ phase = "stopping" /\ elapsed < Grace
        /\ elapsed' = elapsed + 1
        /\ UNCHANGED <<phase, state>>

\* Nobody is left.
GoDown == /\ phase = "stopping" /\ \A c \in Guest : state[c] \notin Here
          /\ phase' = "down"
          /\ UNCHANGED <<elapsed, state>>

\* Who was served is cut off; an idle client may not notice the difference.
CutOff == /\ state' \in [Guest -> State]
          /\ \A c \in Guest : state'[c] \in IF state[c] = "busy" THEN {"cut"}
                                             ELSE IF state[c] = "open" THEN {"gone", "cut"}
                                             ELSE {state[c]}

\* The grace is over, to the second; or the server goes down without being told.
Force == /\ \/ phase = "stopping" /\ elapsed = Grace
            \/ phase = "up" /\ Abrupt
         /\ phase' = "down"
         /\ CutOff
         /\ UNCHANGED elapsed

Next == Serve \/ Stop \/ Wait \/ GoDown \/ Force

Spec == Init /\ [][Next]_vars
=============================================================================
