------------------------------ MODULE RoomFeed ------------------------------
(***************************************************************************)
(* What the chat hub of ws-service promises to the people in its rooms,    *)
(* without channels, goroutines or sockets.  A room is a log of messages.  *)
(* A connection joins a room at the end of its log, receives the messages  *)
(* posted from then on in the order of the log and without a gap, and may  *)
(* be cut off: from then on nothing posted later ever reaches it, while    *)
(* what had already been accepted for it may still arrive.                 *)
(***************************************************************************)
EXTENDS Integers, Sequences

CONSTANTS Conn,     \* connections
          Room,     \* room names
          Message   \* what a member may post

VARIABLES log,        \* log[r]: everything posted to room r, in order
          room,       \* room[c]: the room connection c asked for
          status,     \* status[c]: "outside", "member" or "cut"
          start,      \* start[c]: the length of the log when c joined
          limit,      \* limit[c]: how far into the log c may read once cut off
          received    \* received[c]: what c was sent, in order

vars == <<log, room, status, start, limit, received>>

NextIndex(c) == start[c] + Len(received[c]) + 1

Init == /\ log = [r \in Room |-> <<>>]
        /\ room \in [Conn -> Room]
        /\ status = [c \in Conn |-> "outside"]
        /\ start = [c \in Conn |-> 0]
        /\ limit = [c \in Conn |-> 0]
        /\ received = [c \in Conn |-> <<>>]

Join(c) == /\ status[c] = "outside"
           /\ status' = [status EXCEPT ![c] = "member"]
           /\ start' = [start EXCEPT ![c] = Len(log[room[c]])]
           /\ UNCHANGED <<log, room, limit, received>>

\* Somebody posts; an evicted connection may still post to its room.
Post(r, msg) == /\ log' = [log EXCEPT ![r] = Append(@, msg)]
                /\ UNCHANGED <<room, status, start, limit, received>>

\* The next message of the log after those that c has received.
Receive(c) == /\ status[c] # "outside"
              /\ NextIndex(c) <= Len(log[room[c]])
              /\ status[c] = "cut" => NextIndex(c) <= limit[c]
              /\ received' = [received EXCEPT ![c] = Append(@, log[room[c]][NextIndex(c)])]
              /\ UNCHANGED <<log, room, status, start, limit>>

\* The limit lies between what c has received and what has been posted.
Cut(c) == /\ status[c] = "member"
          /\ status' = [status EXCEPT ![c] = "cut"]
          /\ \E n \in NextIndex(c) - 1 .. Len(log[room[c]]) :
                limit' = [limit EXCEPT ![c] = n]
          /\ UNCHANGED <<log, room, start, received>>

Next == \/ \E c \in Conn : Join(c) \/ Receive(c) \/ Cut(c)
        \/ \E r \in Room, msg \in Message : Post(r, msg)

Spec == Init /\ [][Next]_vars
=============================================================================
