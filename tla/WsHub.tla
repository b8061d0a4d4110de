------------------------------- MODULE WsHub -------------------------------
(***************************************************************************)
(* The chat hub of ws-service: the goroutine of Hub.Run (hub.go), which    *)
(* owns the rooms, and for every websocket the handler ServeWs and the two *)
(* goroutines readPump and writePump it starts (client.go).                *)
(*                                                                         *)
(* The hub talks to the others over three unbuffered channels (register,   *)
(* unregister, broadcast), so a send and its receive are one step of the   *)
(* hub's select; a broadcast then visits the members of the room one at a  *)
(* time, in the arbitrary order of a Go map, while pumps keep running.     *)
(*                                                                         *)
(* A message is the pair of its sender and its number among the messages   *)
(* read from that sender: the number is no part of the program, it only    *)
(* lets properties tell one message from another.  log, join and delivered *)
(* are history variables: no action's guard reads them.                    *)
(***************************************************************************)
EXTENDS Integers, Sequences, FiniteSets

CONSTANTS Conn,    \* websockets, each used for one connection
          Room,    \* values of the roomId query parameter
          Cap,     \* capacity of a send channel (256 in ServeWs)
          MaxSent  \* bound: text messages read from one websocket

ASSUME CapAssumption == Cap \in Nat \ {0}
ASSUME MaxSentAssumption == MaxSent \in Nat

VARIABLES
  rooms,      \* Hub.rooms: the set of members of each room
  present,    \* the rooms that have an entry in the map Hub.rooms
  room,       \* subscription.room: the roomId its request carries
  rpc,        \* where ServeWs, and then readPump, of a connection is
  wpc,        \* where writePump of a connection is
  sock,       \* the websocket: "open", "broken" (peer gone) or "closed" by us
  send,       \* the buffer of connection.send
  closed,     \* the connections whose send channel has been closed
  hand,       \* the message writePump is writing: at most one
  sent,       \* the number of messages readPump has read
  m,          \* the message the hub is broadcasting: at most one
  todo,       \* the members the broadcast loop has still to visit
  hub,        \* where Hub.Run is: "select", "broadcast" or, dead, "panicked"
  log,        \* log[r]: the messages the hub took for room r, in order
  join,       \* join[c]: Len(log[room[c]]) when c was registered
  delivered   \* delivered[c]: the messages written to the websocket of c

hubVars == <<rooms, present, hub, m, todo>>
connVars == <<room, rpc, wpc, sock, send, closed, hand, sent>>
history == <<log, join, delivered>>
vars == <<hubVars, connVars, history>>

Message == [from : Conn, num : 0..MaxSent]

\* What stands for the message that readPump of c read last.
LastRead(c) == [from |-> c, num |-> sent[c]]

Init == /\ rooms = [r \in Room |-> {}]
        /\ present = {}
        /\ room \in [Conn -> Room]
        /\ rpc = [c \in Conn |-> "new"]
        /\ wpc = [c \in Conn |-> "off"]
        /\ sock = [c \in Conn |-> "open"]
        /\ send = [c \in Conn |-> <<>>]
        /\ closed = {}
        /\ hand = [c \in Conn |-> <<>>]
        /\ sent = [c \in Conn |-> 0]
        /\ m = <<>>
        /\ todo = {}
        /\ hub = "select"
        /\ log = [r \in Room |-> <<>>]
        /\ join = [c \in Conn |-> 0]
        /\ delivered = [c \in Conn |-> <<>>]

-----------------------------------------------------------------------------
(* ServeWs *)

\* The request is upgraded and its handler comes to the send on H.register.
Serve(c) == /\ rpc[c] = "new"
            /\ rpc' = [rpc EXCEPT ![c] = "register"]
            /\ UNCHANGED <<hubVars, room, wpc, sock, send, closed, hand, sent, history>>

\* Case <-h.register of the hub's select: the room's map is made if need be.
HubRegister(c) ==
  /\ rpc[c] = "register"
  /\ hub = "select"
  /\ rpc' = [rpc EXCEPT ![c] = "start"]
  /\ present' = present \union {room[c]}
  /\ rooms' = [rooms EXCEPT ![room[c]] = @ \union {c}]
  /\ join' = [join EXCEPT ![c] = Len(log[room[c]])]
  /\ UNCHANGED <<hub, m, todo, room, wpc, sock, send, closed, hand, sent, log, delivered>>

\* Mutant of StartPumps: writePump is not started.
StartPumpsMutant(c) == /\ rpc[c] = "start"
                       /\ rpc' = [rpc EXCEPT ![c] = "read"]
                       /\ UNCHANGED <<hubVars, room, wpc, sock, send, closed, hand, sent, history>>

\* The handler starts both pumps and returns; the hub may already have
\* filled, or closed, the channel they are going to use.
StartPumps(c) == /\ rpc[c] = "start"
                 /\ rpc' = [rpc EXCEPT ![c] = "read"]
                 /\ wpc' = [wpc EXCEPT ![c] = "select"]
                 /\ UNCHANGED <<hubVars, room, sock, send, closed, hand, sent, history>>

-----------------------------------------------------------------------------
(* readPump *)

\* A frame is read; frames buffered before the websocket went down still are.
ReadMessage(c) == /\ rpc[c] = "read"
                  /\ sent[c] < MaxSent
                  /\ sent' = [sent EXCEPT ![c] = @ + 1]
                  /\ rpc' = [rpc EXCEPT ![c] = "send"]
                  /\ UNCHANGED <<hubVars, room, wpc, sock, send, closed, hand, history>>

\* ReadMessage returns an error: the loop ends and the deferred call starts.
ReadFails(c) == /\ rpc[c] = "read"
                /\ sock[c] # "open"
                /\ rpc' = [rpc EXCEPT ![c] = "unregister"]
                /\ UNCHANGED <<hubVars, room, wpc, sock, send, closed, hand, sent, history>>

\* After the hub has taken its subscription the deferred call closes c.ws.
CloseSocket(c) == /\ rpc[c] = "close"
                  /\ rpc' = [rpc EXCEPT ![c] = "done"]
                  /\ sock' = [sock EXCEPT ![c] = "closed"]
                  /\ UNCHANGED <<hubVars, room, wpc, send, closed, hand, sent, history>>

-----------------------------------------------------------------------------
(* Hub.Run: unregister and broadcast *)

\* Mutant of DropMember: an empty room keeps its entry.
DropMemberMutant(c) == /\ rooms' = [rooms EXCEPT ![room[c]] = @ \ {c}]
                       /\ UNCHANGED present

\* delete(connections, c), and the room's entry when it was the last one.
DropMember(c) ==
  /\ rooms' = [rooms EXCEPT ![room[c]] = @ \ {c}]
  /\ present' = IF rooms[room[c]] = {c} THEN present \ {room[c]} ELSE present

\* A send on, or a close of, c.send panics if the channel is closed.
AfterUse(c, next) == IF c \in closed THEN "panicked" ELSE next

\* Mutant of HubUnregister: membership is not checked before the close.
HubUnregisterMutant(c) ==
  /\ rpc[c] = "unregister"
  /\ hub = "select"
  /\ rpc' = [rpc EXCEPT ![c] = "close"]
  /\ DropMember(c)
  /\ closed' = closed \union {c}
  /\ hub' = AfterUse(c, "select")
  /\ UNCHANGED <<m, todo, room, wpc, sock, send, hand, sent, history>>

\* Case <-h.unregister: a connection the hub evicted before is passed over.
HubUnregister(c) ==
  /\ rpc[c] = "unregister"
  /\ hub = "select"
  /\ rpc' = [rpc EXCEPT ![c] = "close"]
  /\ IF room[c] \in present /\ c \in rooms[room[c]]
     THEN /\ DropMember(c)
          /\ closed' = closed \union {c}
          /\ hub' = AfterUse(c, "select")
     ELSE UNCHANGED <<rooms, present, closed, hub>>
  /\ UNCHANGED <<m, todo, room, wpc, sock, send, hand, sent, history>>

\* Mutant of HubBroadcast: every room with an entry gets the message.
HubBroadcastMutant(c) ==
  /\ rpc[c] = "send"
  /\ hub = "select"
  /\ rpc' = [rpc EXCEPT ![c] = "read"]
  /\ log' = [r \in Room |-> IF r \in present THEN Append(log[r], LastRead(c)) ELSE log[r]]
  /\ todo' = UNION {rooms[r] : r \in present}
  /\ m' = IF present = {} THEN <<>> ELSE <<LastRead(c)>>
  /\ hub' = IF present = {} THEN "select" ELSE "broadcast"
  /\ UNCHANGED <<rooms, present, room, wpc, sock, send, closed, hand, sent, join, delivered>>

\* Case <-h.broadcast: the loop is to range over the members of the room,
\* of which an evicted sender need not be one.
HubBroadcast(c) ==
  /\ rpc[c] = "send"
  /\ hub = "select"
  /\ rpc' = [rpc EXCEPT ![c] = "read"]
  /\ log' = [log EXCEPT ![room[c]] = Append(@, LastRead(c))]
  /\ todo' = rooms[room[c]]
  /\ m' = IF rooms[room[c]] = {} THEN <<>> ELSE <<LastRead(c)>>
  /\ hub' = IF rooms[room[c]] = {} THEN "select" ELSE "broadcast"
  /\ UNCHANGED <<rooms, present, room, wpc, sock, send, closed, hand, sent, join, delivered>>

\* The loop is through with c; m is out of scope after the last member.
Visited(c) == /\ todo' = todo \ {c}
              /\ m' = IF todo = {c} THEN <<>> ELSE m
              /\ hub' = AfterUse(c, IF todo = {c} THEN "select" ELSE "broadcast")

\* Case c.send <- m.Data: there is room in the buffer.  A send on a closed
\* channel panics.
HubSend(c) == /\ hub = "broadcast" /\ c \in todo
              /\ Len(send[c]) < Cap
              /\ send' = [send EXCEPT ![c] = @ \o m]
              /\ Visited(c)
              /\ UNCHANGED <<rooms, present, room, rpc, wpc, sock, closed, hand, sent, history>>

\* Mutants of HubEvict: the slow member only misses the message; the hub waits
\* for it (a send without a default case).
HubEvictMutant(c) == /\ hub = "broadcast" /\ c \in todo
                     /\ Len(send[c]) = Cap
                     /\ Visited(c)
                     /\ UNCHANGED <<rooms, present, room, rpc, wpc, sock, send, closed, hand, sent, history>>
HubEvictBlocks(c) == FALSE

\* The default case: the buffer is full, the slow member is evicted.
HubEvict(c) == /\ hub = "broadcast" /\ c \in todo
               /\ Len(send[c]) = Cap
               /\ DropMember(c)
               /\ closed' = closed \union {c}
               /\ Visited(c)
               /\ UNCHANGED <<room, rpc, wpc, sock, send, hand, sent, history>>

-----------------------------------------------------------------------------
(* writePump *)

\* Case message, ok := <-c.send with a message: a closed channel is drained.
Dequeue(c) == /\ wpc[c] = "select"
              /\ send[c] # <<>>
              /\ hand' = [hand EXCEPT ![c] = <<Head(send[c])>>]
              /\ send' = [send EXCEPT ![c] = Tail(@)]
              /\ wpc' = [wpc EXCEPT ![c] = "write"]
              /\ UNCHANGED <<hubVars, room, rpc, sock, closed, sent, history>>

\* The write reaches the peer, or only the kernel's buffer if the peer is gone.
WriteOk(c) == /\ wpc[c] = "write"
              /\ sock[c] # "closed"
              /\ delivered' = [delivered EXCEPT ![c] = @ \o hand[c]]
              /\ hand' = [hand EXCEPT ![c] = <<>>]
              /\ wpc' = [wpc EXCEPT ![c] = "select"]
              /\ UNCHANGED <<hubVars, room, rpc, sock, send, closed, sent, log, join>>

\* Mutant of WriterStops: writePump's deferred call leaves the websocket open.
WriterStopsMutant(c) == /\ wpc' = [wpc EXCEPT ![c] = "done"]
                        /\ UNCHANGED <<hubVars, room, rpc, sock, send, closed, hand, sent, history>>

\* The pump returns: its deferred call closes the websocket.
WriterStops(c) == /\ wpc' = [wpc EXCEPT ![c] = "done"]
                  /\ sock' = [sock EXCEPT ![c] = "closed"]
                  /\ UNCHANGED <<hubVars, room, rpc, send, closed, hand, sent, history>>

\* Mutant of WriteFails: the pump goes on with the next message.
WriteFailsMutant(c) == /\ wpc[c] = "write"
                       /\ sock[c] # "open"
                       /\ wpc' = [wpc EXCEPT ![c] = "select"]
                       /\ hand' = [hand EXCEPT ![c] = <<>>]
                       /\ UNCHANGED <<hubVars, room, rpc, sock, send, closed, sent, history>>

\* The write fails, or its deadline passes; the message in hand is lost.
WriteFails(c) == /\ wpc[c] = "write"
                 /\ sock[c] # "open"
                 /\ WriterStops(c)

\* The ticker's ping fails.  A ping that goes out changes nothing here.
PingFails(c) == /\ wpc[c] = "select"
                /\ sock[c] # "open"
                /\ WriterStops(c)

\* Case <-c.send with !ok: closed and drained.  A close frame is tried.
WriterSeesClose(c) == /\ wpc[c] = "select"
                      /\ send[c] = <<>>
                      /\ c \in closed
                      /\ WriterStops(c)

-----------------------------------------------------------------------------
(* The network *)

\* The peer closes, goes silent past a deadline, or sends an oversized frame.
PeerDrops(c) == /\ rpc[c] # "new"
                /\ sock[c] = "open"
                /\ sock' = [sock EXCEPT ![c] = "broken"]
                /\ UNCHANGED <<hubVars, room, rpc, wpc, send, closed, hand, sent, history>>

\* Nothing is left to do when every websocket served is idle or torn down.
Quiesced == /\ hub = "select"
            /\ \A c \in Conn : /\ rpc[c] \in {"new", "read", "done"}
                               /\ rpc[c] = "read" => sock[c] = "open"
                               /\ wpc[c] = "select" => send[c] = <<>>
                               /\ wpc[c] # "write"
            /\ UNCHANGED vars

HubStep(c) == HubRegister(c) \/ HubUnregister(c) \/ HubBroadcast(c) \/ HubSend(c) \/ HubEvict(c)

ReaderStep(c) == StartPumps(c) \/ ReadFails(c) \/ CloseSocket(c)

WriterStep(c) == Dequeue(c) \/ WriteOk(c) \/ WriteFails(c) \/ PingFails(c) \/ WriterSeesClose(c)

\* A panic of the hub ends the process: no step follows it.
Next == /\ hub # "panicked"
        /\ \/ \E c \in Conn : HubStep(c) \/ ReaderStep(c) \/ WriterStep(c)
           \/ \E c \in Conn : Serve(c) \/ ReadMessage(c) \/ PeerDrops(c)
           \/ Quiesced

Spec == Init /\ [][Next]_vars

(***************************************************************************)
(* Fairness.  A goroutine that can run does.  The hub returns to its       *)
(* select again and again, chooses among the ready cases at random and     *)
(* serves each channel's senders in order, so a sender that waits is taken *)
(* in the end: strong fairness of the three receives.  New requests, new   *)
(* frames and failures of the network are never owed.                      *)
(***************************************************************************)
Fairness ==
  /\ \A c \in Conn : /\ WF_vars(StartPumps(c)) /\ WF_vars(ReadFails(c)) /\ WF_vars(CloseSocket(c))
                     /\ WF_vars(Dequeue(c) \/ WriteOk(c) \/ WriteFails(c) \/ WriterSeesClose(c))
                     /\ SF_vars(HubRegister(c)) /\ SF_vars(HubUnregister(c)) /\ SF_vars(HubBroadcast(c))
  /\ WF_vars(\E c \in Conn : HubSend(c) \/ HubEvict(c))

FairSpec == Spec /\ Fairness

-----------------------------------------------------------------------------
(* Properties *)

HubTypeOK == /\ rooms \in [Room -> SUBSET Conn] /\ present \subseteq Room
             /\ m \in Seq(Message) /\ todo \subseteq Conn
             /\ hub \in {"select", "broadcast", "panicked"}

ConnTypeOK ==
  /\ room \in [Conn -> Room]
  /\ rpc \in [Conn -> {"new", "register", "start", "read", "send", "unregister", "close", "done"}]
  /\ wpc \in [Conn -> {"off", "select", "write", "done"}]
  /\ sock \in [Conn -> {"open", "broken", "closed"}]
  /\ closed \subseteq Conn /\ sent \in [Conn -> 0..MaxSent]

FeedTypeOK ==
  /\ send \in [Conn -> Seq(Message)] /\ hand \in [Conn -> Seq(Message)]
  /\ log \in [Room -> Seq(Message)] /\ join \in [Conn -> Nat]
  /\ delivered \in [Conn -> Seq(Message)]

TypeOK == HubTypeOK /\ ConnTypeOK /\ FeedTypeOK

\* The hub is one goroutine for every room: a close of a closed channel or a
\* send on one (a second unregister, an eviction of a connection that has
\* already gone, a broadcast to it) would take the whole service down.
HubNeverPanics == hub # "panicked"

\* A room has an entry in Hub.rooms exactly when it has members, so rooms do
\* not pile up when connections come and go by eviction and by unregister.
RoomsExact == present = {r \in Room : rooms[r] # {}}

\* What has been taken off the hub for c, in order: written, in hand, buffered.
Stream(c) == delivered[c] \o hand[c] \o send[c]

\* Whatever evictions, drops and broadcasts interleave, the stream of a
\* connection is a gapless piece of its room's log that starts where it
\* joined: all members see the same messages in the same order.  A member has
\* everything posted, but for the message that the hub is offering it.
ContiguousFeed ==
  \A c \in Conn :
    LET feed == log[room[c]]
        seen == join[c] + Len(Stream(c))
    IN  /\ seen <= Len(feed)
        /\ Stream(c) = SubSeq(feed, join[c] + 1, seen)
        /\ c \in rooms[room[c]] => seen = Len(feed) - (IF c \in todo THEN 1 ELSE 0)

\* How many messages of c the hub has taken: readPump still holds the last one.
Taken(c) == IF rpc[c] = "send" THEN sent[c] - 1 ELSE sent[c]

\* Every message the hub has taken is in the log of its sender's room, once, and
\* nothing else is in any log; the messages of one sender are there in the order
\* they were read, whatever sends of other connections come between.
PostedInOrder ==
  \A r \in Room :
    /\ \A i, j \in DOMAIN log[r] :
         i < j /\ log[r][i].from = log[r][j].from => log[r][i].num < log[r][j].num
    /\ \A msg \in Message :
         (\E i \in DOMAIN log[r] : log[r][i] = msg)
            <=> r = room[msg.from] /\ msg.num \in 1..Taken(msg.from)

\* A websocket that fails, or whose connection the hub has given up, is torn
\* down in full: both goroutines end and the hub forgets the connection.
TornDown == \A c \in Conn : (sock[c] # "open" \/ c \in closed) ~>
                               /\ rpc[c] = "done" /\ wpc[c] = "done"
                               /\ \A r \in Room : c \notin rooms[r]

\* No sender waits for the hub forever, however slow the members of the rooms
\* are: the hub never blocks on a member.
SenderServed == \A c \in Conn : rpc[c] \in {"register", "send", "unregister"} ~>
                                   rpc[c] \in {"start", "read", "close", "done"}

\* What a connection joined in time for reaches it, unless its websocket fails
\* or the hub evicts it: a message posted k-th in its room is written to it.
PostDelivered ==
  \A c \in Conn : \A k \in 1..(Cardinality(Conn) * MaxSent) :
    (c \in rooms[room[c]] /\ join[c] < k /\ k <= Len(log[room[c]]))
      ~> (c \in closed \/ sock[c] # "open" \/ Len(delivered[c]) >= k - join[c])

-----------------------------------------------------------------------------
(* The promise of RoomFeed, kept by the hub and the pumps together. *)

feedStatus == [c \in Conn |-> IF c \in closed THEN "cut"
                              ELSE IF c \in rooms[room[c]] THEN "member" ELSE "outside"]

feedLimit == [c \in Conn |-> IF c \in closed THEN join[c] + Len(delivered[c]) + Len(hand[c]) + Len(send[c])
                             ELSE 0]

Feed == INSTANCE RoomFeed WITH status <- feedStatus, start <- join,
                               limit <- feedLimit, received <- delivered

\* The hub with its pumps implements a feed per room.
ImplementsFeed == Feed!Spec
=============================================================================
