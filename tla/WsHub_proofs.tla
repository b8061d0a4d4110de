---------------------------- MODULE WsHub_proofs ----------------------------
(***************************************************************************)
(* Proofs about WsHub, for any set of websockets, any set of rooms and any *)
(* capacity of the send channels.                                          *)
(***************************************************************************)
EXTENDS WsHub, SequenceTheorems, TLAPS

-----------------------------------------------------------------------------
(* Type correctness *)

\* The initial state has the types of TypeOK.
LEMMA InitType == Init => TypeOK
<1> USE MaxSentAssumption DEF Init
<1>1. Init => HubTypeOK
  BY DEF HubTypeOK
<1>2. Init => ConnTypeOK
  BY DEF ConnTypeOK
<1>3. Init => FeedTypeOK
  BY DEF FeedTypeOK
<1>4. QED
  BY <1>1, <1>2, <1>3 DEF TypeOK

\* Every step of a pump, of the hub or of the network keeps the types.
LEMMA NextType == TypeOK /\ [Next]_vars => TypeOK'
<1> SUFFICES ASSUME TypeOK, [Next]_vars PROVE TypeOK'
  OBVIOUS
<1> USE MaxSentAssumption DEF hubVars, connVars, history
<1>1. ASSUME NEW c \in Conn, HubRegister(c) PROVE TypeOK'
  <2>1. HubTypeOK'
    BY <1>1 DEF HubRegister, TypeOK, HubTypeOK, ConnTypeOK, FeedTypeOK
  <2>2. ConnTypeOK'
    BY <1>1 DEF HubRegister, TypeOK, ConnTypeOK
  <2>3. FeedTypeOK'
    BY <1>1 DEF HubRegister, TypeOK, HubTypeOK, ConnTypeOK, FeedTypeOK
  <2>4. QED
    BY <2>1, <2>2, <2>3 DEF TypeOK
<1>2. ASSUME NEW c \in Conn, HubUnregister(c) PROVE TypeOK'
  <2>1. HubTypeOK'
    <3>1. CASE room[c] \in present /\ c \in rooms[room[c]]
      BY <1>2, <3>1 DEF HubUnregister, DropMember, AfterUse, TypeOK, HubTypeOK, ConnTypeOK
    <3>2. CASE ~(room[c] \in present /\ c \in rooms[room[c]])
      BY <1>2, <3>2 DEF HubUnregister, TypeOK, HubTypeOK
    <3>3. QED
      BY <3>1, <3>2
  <2>2. ConnTypeOK'
    BY <1>2 DEF HubUnregister, TypeOK, ConnTypeOK
  <2>3. FeedTypeOK'
    BY <1>2 DEF HubUnregister, TypeOK, FeedTypeOK
  <2>4. QED
    BY <2>1, <2>2, <2>3 DEF TypeOK
<1>3. ASSUME NEW c \in Conn, HubBroadcast(c) PROVE TypeOK'
  <2> LastRead(c) \in Message
    BY DEF LastRead, Message, TypeOK, ConnTypeOK
  <2>1. HubTypeOK'
    BY <1>3 DEF HubBroadcast, TypeOK, HubTypeOK, ConnTypeOK
  <2>2. ConnTypeOK'
    BY <1>3 DEF HubBroadcast, TypeOK, ConnTypeOK
  <2>3. FeedTypeOK'
    BY <1>3 DEF HubBroadcast, TypeOK, ConnTypeOK, FeedTypeOK
  <2>4. QED
    BY <2>1, <2>2, <2>3 DEF TypeOK
<1>4. ASSUME NEW c \in Conn, HubSend(c) PROVE TypeOK'
  <2>1. HubTypeOK'
    BY <1>4 DEF HubSend, Visited, AfterUse, TypeOK, HubTypeOK, ConnTypeOK, FeedTypeOK
  <2>2. ConnTypeOK'
    BY <1>4 DEF HubSend, Visited, AfterUse, TypeOK, ConnTypeOK
  <2>3. FeedTypeOK'
    BY <1>4 DEF HubSend, Visited, AfterUse, TypeOK, HubTypeOK, ConnTypeOK, FeedTypeOK
  <2>4. QED
    BY <2>1, <2>2, <2>3 DEF TypeOK
<1>5. ASSUME NEW c \in Conn, HubEvict(c) PROVE TypeOK'
  <2>1. HubTypeOK'
    BY <1>5, SMTT(30) DEF HubEvict, Visited, AfterUse, DropMember, TypeOK, HubTypeOK,
       ConnTypeOK, FeedTypeOK
  <2>2. ConnTypeOK'
    BY <1>5 DEF HubEvict, Visited, AfterUse, DropMember, TypeOK, ConnTypeOK
  <2>3. FeedTypeOK'
    BY <1>5 DEF HubEvict, Visited, AfterUse, DropMember, TypeOK, HubTypeOK, ConnTypeOK, FeedTypeOK
  <2>4. QED
    BY <2>1, <2>2, <2>3 DEF TypeOK
<1>6. ASSUME NEW c \in Conn, ReaderStep(c) PROVE TypeOK'
  <2>1. HubTypeOK'
    BY <1>6 DEF ReaderStep, StartPumps, ReadFails, CloseSocket, TypeOK, HubTypeOK, ConnTypeOK, FeedTypeOK
  <2>2. ConnTypeOK'
    BY <1>6 DEF ReaderStep, StartPumps, ReadFails, CloseSocket, TypeOK, ConnTypeOK
  <2>3. FeedTypeOK'
    BY <1>6 DEF ReaderStep, StartPumps, ReadFails, CloseSocket, TypeOK, HubTypeOK, ConnTypeOK, FeedTypeOK
  <2>4. QED
    BY <2>1, <2>2, <2>3 DEF TypeOK
<1>7. ASSUME NEW c \in Conn, Dequeue(c) PROVE TypeOK'
  <2>1. HubTypeOK'
    BY <1>7 DEF Dequeue, TypeOK, HubTypeOK, ConnTypeOK, FeedTypeOK
  <2>2. ConnTypeOK'
    BY <1>7 DEF Dequeue, TypeOK, ConnTypeOK
  <2>3. FeedTypeOK'
    BY <1>7 DEF Dequeue, TypeOK, HubTypeOK, ConnTypeOK, FeedTypeOK
  <2>4. QED
    BY <2>1, <2>2, <2>3 DEF TypeOK
<1>8. ASSUME NEW c \in Conn, WriteOk(c) PROVE TypeOK'
  <2>1. HubTypeOK'
    BY <1>8 DEF WriteOk, TypeOK, HubTypeOK, ConnTypeOK, FeedTypeOK
  <2>2. ConnTypeOK'
    BY <1>8 DEF WriteOk, TypeOK, ConnTypeOK
  <2>3. FeedTypeOK'
    BY <1>8 DEF WriteOk, TypeOK, HubTypeOK, ConnTypeOK, FeedTypeOK
  <2>4. QED
    BY <2>1, <2>2, <2>3 DEF TypeOK
<1>9. ASSUME NEW c \in Conn, WriterStops(c) PROVE TypeOK'
  <2>1. HubTypeOK'
    BY <1>9 DEF WriterStops, TypeOK, HubTypeOK, ConnTypeOK, FeedTypeOK
  <2>2. ConnTypeOK'
    BY <1>9 DEF WriterStops, TypeOK, ConnTypeOK
  <2>3. FeedTypeOK'
    BY <1>9 DEF WriterStops, TypeOK, HubTypeOK, ConnTypeOK, FeedTypeOK
  <2>4. QED
    BY <2>1, <2>2, <2>3 DEF TypeOK
<1>10. ASSUME NEW c \in Conn, Serve(c) PROVE TypeOK'
  <2>1. HubTypeOK'
    BY <1>10 DEF Serve, TypeOK, HubTypeOK, ConnTypeOK, FeedTypeOK
  <2>2. ConnTypeOK'
    BY <1>10 DEF Serve, TypeOK, ConnTypeOK
  <2>3. FeedTypeOK'
    BY <1>10 DEF Serve, TypeOK, HubTypeOK, ConnTypeOK, FeedTypeOK
  <2>4. QED
    BY <2>1, <2>2, <2>3 DEF TypeOK
<1>11. ASSUME NEW c \in Conn, ReadMessage(c) PROVE TypeOK'
  <2>1. HubTypeOK'
    BY <1>11 DEF ReadMessage, TypeOK, HubTypeOK, ConnTypeOK, FeedTypeOK
  <2>2. ConnTypeOK'
    BY <1>11 DEF ReadMessage, TypeOK, ConnTypeOK
  <2>3. FeedTypeOK'
    BY <1>11 DEF ReadMessage, TypeOK, HubTypeOK, ConnTypeOK, FeedTypeOK
  <2>4. QED
    BY <2>1, <2>2, <2>3 DEF TypeOK
<1>12. ASSUME NEW c \in Conn, PeerDrops(c) PROVE TypeOK'
  <2>1. HubTypeOK'
    BY <1>12 DEF PeerDrops, TypeOK, HubTypeOK, ConnTypeOK, FeedTypeOK
  <2>2. ConnTypeOK'
    BY <1>12 DEF PeerDrops, TypeOK, ConnTypeOK
  <2>3. FeedTypeOK'
    BY <1>12 DEF PeerDrops, TypeOK, HubTypeOK, ConnTypeOK, FeedTypeOK
  <2>4. QED
    BY <2>1, <2>2, <2>3 DEF TypeOK
<1>13. CASE UNCHANGED vars
  BY <1>13 DEF vars, TypeOK, HubTypeOK, ConnTypeOK, FeedTypeOK
<1>14. QED
  BY <1>1, <1>2, <1>3, <1>4, <1>5, <1>6, <1>7, <1>8, <1>9, <1>10, <1>11, <1>12, <1>13
     DEF Next, HubStep, WriterStep, WriteFails, PingFails, WriterSeesClose, Quiesced

\* TypeOK always holds.
THEOREM TypeCorrect == Spec => []TypeOK
<1>1. QED
  BY InitType, NextType, PTL DEF Spec

-----------------------------------------------------------------------------
(***************************************************************************)
(* The inductive invariant.  The hub's map, the state of the channels and  *)
(* the program counters of the pumps have to agree: that is what keeps the *)
(* hub from using a closed channel, and it is also why the stream of a     *)
(* connection cannot have a gap.                                           *)
(***************************************************************************)

\* A member is in the room it asked for, its channel is open and its readPump
\* has not handed in its subscription yet.
MembersOpen == \A r \in Room : \A c \in rooms[r] :
                 /\ room[c] = r /\ c \notin closed
                 /\ rpc[c] \in {"start", "read", "send", "unregister"}

\* Before the hub takes its registration a connection has no part in anything;
\* from then on it is a member until its channel is closed.
Joining == \A c \in Conn :
             IF rpc[c] \in {"new", "register"}
             THEN /\ c \notin closed /\ wpc[c] = "off"
                  /\ delivered[c] = <<>> /\ hand[c] = <<>> /\ send[c] = <<>>
             ELSE /\ c \in closed \/ c \in rooms[room[c]]
                  /\ rpc[c] = "start" => wpc[c] = "off"

\* The hub is in its loop as long as members are to be visited; they are
\* members of the room whose last message it is broadcasting.
Broadcasting == /\ hub = IF todo = {} THEN "select" ELSE "broadcast"
                /\ todo = {} => m = <<>>
                /\ \A c \in todo : LET feed == log[room[c]]
                                   IN  /\ c \in rooms[room[c]] /\ Len(feed) > 0
                                       /\ m = <<feed[Len(feed)]>>

\* writePump holds a message while it writes, and none at its select.
OneInHand == \A c \in Conn : /\ wpc[c] \in {"off", "select"} => hand[c] = <<>>
                             /\ wpc[c] = "write" => Len(hand[c]) = 1

\* ContiguousFeed, message by message.
Follows(c) ==
  LET feed == log[room[c]]
      seen == join[c] + Len(Stream(c))
  IN  /\ seen <= Len(feed)
      /\ \A i \in 1..Len(Stream(c)) : Stream(c)[i] = feed[join[c] + i]
      /\ c \in rooms[room[c]] => seen = IF c \in todo THEN Len(feed) - 1 ELSE Len(feed)

HubInv == /\ TypeOK /\ RoomsExact /\ MembersOpen /\ Joining
          /\ Broadcasting /\ OneInHand /\ \A c \in Conn : Follows(c)

(* Facts about sequences of messages *)

\* Concatenation is associative for four sequences.
LEMMA ConcatFour ==
  ASSUME NEW x \in Seq(Message), NEW y \in Seq(Message), NEW z \in Seq(Message), NEW u \in Seq(Message)
  PROVE  (x \o y) \o (z \o u) = ((x \o y) \o z) \o u
<1>1. x \o y \in Seq(Message)
  BY ConcatProperties
<1>2. ASSUME NEW p \in Seq(Message) PROVE (p \o z) \o u = p \o (z \o u)
  BY ConcatAssociative, SMTT(30)
<1>3. QED
  BY <1>1, <1>2

\* The length and the entries of a concatenation of messages.
LEMMA ConcatEntries ==
  ASSUME NEW x \in Seq(Message), NEW y \in Seq(Message)
  PROVE  /\ Len(x \o y) = Len(x) + Len(y)
         /\ \A i \in 1..Len(x) + Len(y) : (x \o y)[i] = IF i <= Len(x) THEN x[i] ELSE y[i - Len(x)]
BY ConcatProperties, Zenon

\* A piece of a log that ends one short of its end, with the last entry added.
LEMMA PieceGrows ==
  ASSUME NEW s \in Seq(Message), NEW e \in Seq(Message), NEW feed \in Seq(Message), NEW j \in Nat,
         Len(e) = 1, e[1] = feed[Len(feed)], j + Len(s) + 1 = Len(feed),
         \A i \in 1..Len(s) : s[i] = feed[j + i]
  PROVE  /\ Len(s \o e) = Len(s) + 1
         /\ \A i \in 1..Len(s \o e) : (s \o e)[i] = feed[j + i]
<1>1. Len(s) \in Nat /\ Len(feed) \in Nat
  OBVIOUS
<1>2. /\ Len(s \o e) = Len(s) + 1
      /\ \A i \in 1..Len(s) + 1 : (s \o e)[i] = IF i <= Len(s) THEN s[i] ELSE e[i - Len(s)]
  BY ConcatEntries
<1>3. ASSUME NEW i \in 1..Len(s) + 1 PROVE (s \o e)[i] = feed[j + i]
  <2>1. CASE i <= Len(s)
    BY <1>1, <1>2, <2>1
  <2>2. CASE ~(i <= Len(s))
    <3>1. i = Len(s) + 1
      BY <1>1, <2>2
    <3>2. (s \o e)[i] = e[1]
      BY <1>1, <1>2, <2>2, <3>1
    <3>3. QED
      BY <3>1, <3>2
  <2>3. QED
    BY <2>1, <2>2
<1>4. QED
  BY <1>1, <1>2, <1>3

\* A sequence that agrees with a log from position j + 1 on is a piece of it.
LEMMA PieceIsSubSeq ==
  ASSUME NEW s \in Seq(Message), NEW feed \in Seq(Message), NEW j \in Nat,
         j + Len(s) <= Len(feed), \A i \in 1..Len(s) : s[i] = feed[j + i]
  PROVE  s = SubSeq(feed, j + 1, j + Len(s))
<1> DEFINE n == j + Len(s)
           t == SubSeq(feed, j + 1, n)
<1>1. Len(s) \in Nat /\ Len(feed) \in Nat /\ n \in Nat
  OBVIOUS
<1>2. \A i \in j + 1 .. n : feed[i] \in Message
  BY <1>1, ElementOfSeq
<1>3. /\ t \in Seq(Message)
      /\ Len(t) = IF j + 1 <= n THEN n - (j + 1) + 1 ELSE 0
      /\ \A i \in 1 .. n - (j + 1) + 1 : t[i] = feed[j + 1 + i - 1]
  <2> HIDE DEF n
  <2>1. QED
    BY <1>1, <1>2, SubSeqProperties
<1> HIDE DEF t
<1>4. Len(t) = Len(s)
  BY <1>1, <1>3
<1>5. ASSUME NEW i \in 1..Len(s) PROVE s[i] = t[i]
  <2>1. i \in 1 .. n - (j + 1) + 1 /\ j + 1 + i - 1 = j + i
    BY <1>1
  <2>2. t[i] = feed[j + 1 + i - 1]
    BY <1>3, <2>1
  <2>3. QED
    BY <2>1, <2>2
<1>6. s = t
  BY <1>3, <1>4, <1>5, SeqEqual
<1>7. QED
  BY <1>6 DEF t

-----------------------------------------------------------------------------
\* The initial state satisfies the invariant.
LEMMA InitInv == Init => HubInv
<1> SUFFICES ASSUME Init PROVE HubInv
  OBVIOUS
<1>1. TypeOK
  BY InitType
<1>2. RoomsExact /\ MembersOpen /\ Joining /\ OneInHand
  BY DEF Init, RoomsExact, MembersOpen, Joining, OneInHand
<1>3. Broadcasting
  BY DEF Init, Broadcasting
<1>4. ASSUME NEW c \in Conn PROVE Follows(c)
  <2>1. Stream(c) = <<>> /\ room[c] \in Room
    BY DEF Init, Stream
  <2>2. QED
    BY <2>1 DEF Init, Follows
<1>5. QED
  BY <1>1, <1>2, <1>3, <1>4 DEF HubInv

\* A stream is a sequence of messages as long as its three parts together.
LEMMA StreamType ==
  ASSUME TypeOK, NEW c \in Conn
  PROVE  /\ Stream(c) \in Seq(Message)
         /\ Len(Stream(c)) = Len(delivered[c]) + Len(hand[c]) + Len(send[c])
         /\ delivered[c] \in Seq(Message) /\ hand[c] \in Seq(Message) /\ send[c] \in Seq(Message)
  BY ConcatProperties DEF Stream, TypeOK, FeedTypeOK

\* Reading the channel and writing to the websocket only move a message along.
LEMMA PumpKeepsStream ==
  ASSUME TypeOK, OneInHand, NEW c \in Conn, NEW d \in Conn, Dequeue(d) \/ WriteOk(d)
  PROVE  Stream(c)' = Stream(c)
<1>1. CASE c # d
  <2>1. delivered'[c] = delivered[c] /\ hand'[c] = hand[c] /\ send'[c] = send[c]
    <3>1. CASE Dequeue(d)
      BY <1>1, <3>1 DEF Dequeue, TypeOK, FeedTypeOK, history
    <3>2. CASE WriteOk(d)
      BY <1>1, <3>2 DEF WriteOk, TypeOK, FeedTypeOK
    <3>3. QED
      BY <3>1, <3>2
  <2>2. QED
    BY <2>1 DEF Stream
<1>2. CASE c = d /\ Dequeue(c)
  <2>1. hand[c] = <<>> /\ send[c] # <<>>
    BY <1>2 DEF Dequeue, OneInHand
  <2>2. /\ delivered'[c] = delivered[c]
        /\ hand'[c] = <<Head(send[c])>> /\ send'[c] = Tail(send[c])
    BY <1>2 DEF Dequeue, TypeOK, FeedTypeOK, history
  <2>3. /\ delivered[c] \in Seq(Message) /\ send[c] \in Seq(Message)
    BY DEF TypeOK, FeedTypeOK
  <2>4. <<Head(send[c])>> \o Tail(send[c]) = send[c]
    <3>1. Head(send[c]) \in Message /\ Tail(send[c]) \in Seq(Message) /\ Len(Tail(send[c])) = Len(send[c]) - 1
      BY <2>1, <2>3, HeadTailProperties
    <3>2. <<Head(send[c])>> \in Seq(Message)
      BY <3>1
    <3>3. <<Head(send[c])>> \o Tail(send[c]) \in Seq(Message)
      BY <3>1, <3>2, ConcatProperties
    <3>4. QED
      BY <2>1, <2>3, <3>1, <3>2, <3>3, SeqEqual, ConcatProperties, HeadTailProperties
  <2>5. (delivered[c] \o <<Head(send[c])>>) \o Tail(send[c]) = delivered[c] \o (<<Head(send[c])>> \o Tail(send[c]))
    <3>1. \A x, y, z \in Seq(Message) : (x \o y) \o z = x \o (y \o z)
      BY ConcatAssociative
    <3>2. <<Head(send[c])>> \in Seq(Message) /\ Tail(send[c]) \in Seq(Message)
      BY <2>1, <2>3, HeadTailProperties
    <3>3. QED
      BY <2>3, <3>1, <3>2
  <2>6. QED
    BY <2>1, <2>2, <2>3, <2>4, <2>5, ConcatEmptySeq DEF Stream
<1>3. CASE c = d /\ WriteOk(c)
  <2>1. /\ delivered'[c] = delivered[c] \o hand[c]
        /\ hand'[c] = <<>> /\ send'[c] = send[c]
    BY <1>3 DEF WriteOk, TypeOK, FeedTypeOK
  <2>2. delivered[c] \o hand[c] \in Seq(Message)
    BY ConcatProperties DEF TypeOK, FeedTypeOK
  <2>3. QED
    BY <2>1, <2>2, ConcatEmptySeq DEF Stream
<1>4. QED
  BY <1>1, <1>2, <1>3

\* A step that takes no part in the feed: no channel, no room, no log.
LEMMA IdleStepFollows ==
  ASSUME TypeOK, NEW c \in Conn, Follows(c), Stream(c)' = Stream(c),
         UNCHANGED <<room, log, join, todo>>,
         c \in rooms'[room[c]] => c \in rooms[room[c]]
  PROVE  Follows(c)'
  BY DEF Follows

\* A step of a pump or of the network leaves the hub's state alone: the
\* invariant follows from where the program counters go.
LEMMA PumpStepInv ==
  ASSUME HubInv, TypeOK', NEW d \in Conn,
         \/ Serve(d) \/ ReaderStep(d) \/ ReadMessage(d) \/ PeerDrops(d)
         \/ Dequeue(d) \/ WriteOk(d)
         \/ WriterStops(d) /\ wpc[d] \in {"select", "write"}
  PROVE  HubInv'
<1>1. UNCHANGED <<rooms, present, hub, m, todo, room, closed, log, join>>
  BY DEF Serve, ReaderStep, StartPumps, ReadFails, CloseSocket, ReadMessage, PeerDrops,
         Dequeue, WriteOk, WriterStops, hubVars, history
<1>2. RoomsExact' /\ Broadcasting'
  BY <1>1 DEF HubInv, RoomsExact, Broadcasting
<1>3. CASE Serve(d) \/ PeerDrops(d) \/ ReadMessage(d) \/ (WriterStops(d) /\ wpc[d] \in {"select", "write"})
  <2>1. UNCHANGED <<delivered, hand, send>>
    BY <1>3 DEF Serve, PeerDrops, ReadMessage, WriterStops, history
  <2>2. MembersOpen'
    BY <1>1, <1>3 DEF HubInv, MembersOpen, TypeOK, ConnTypeOK, HubTypeOK, Serve, PeerDrops,
       ReadMessage, WriterStops
  <2>3. Joining'
    <3>1. CASE Serve(d) \/ PeerDrops(d) \/ ReadMessage(d)
      BY <1>1, <2>1, <3>1 DEF HubInv, Joining, TypeOK, ConnTypeOK, Serve, PeerDrops, ReadMessage
    <3>2. CASE WriterStops(d) /\ wpc[d] \in {"select", "write"}
      BY <1>1, <2>1, <3>2 DEF HubInv, Joining, TypeOK, ConnTypeOK, WriterStops
    <3>3. QED
      BY <1>3, <3>1, <3>2
  <2>4. OneInHand'
    BY <1>3, <2>1 DEF HubInv, OneInHand, TypeOK, ConnTypeOK, Serve, PeerDrops, ReadMessage, WriterStops
  <2>5. ASSUME NEW c \in Conn PROVE Stream(c)' = Stream(c)
    BY <2>1 DEF Stream
  <2>6. QED
    BY <1>1, <1>2, <2>2, <2>3, <2>4, <2>5, IdleStepFollows DEF HubInv
<1>4. CASE ReaderStep(d)
  <2>1. UNCHANGED <<delivered, hand, send>>
    BY <1>4 DEF ReaderStep, StartPumps, ReadFails, CloseSocket, history
  <2>2. MembersOpen'
    <3>1. CASE StartPumps(d) \/ ReadFails(d)
      BY <1>1, <3>1, SMTT(30) DEF HubInv, MembersOpen, TypeOK, ConnTypeOK, HubTypeOK,
         StartPumps, ReadFails
    <3>2. CASE CloseSocket(d)
      BY <1>1, <3>2 DEF HubInv, MembersOpen, TypeOK, ConnTypeOK, HubTypeOK, CloseSocket
    <3>3. QED
      BY <1>4, <3>1, <3>2 DEF ReaderStep
  <2>3. Joining'
    BY <1>1, <1>4, <2>1 DEF HubInv, Joining, TypeOK, ConnTypeOK, ReaderStep, StartPumps,
       ReadFails, CloseSocket
  <2>4. OneInHand'
    <3>1. CASE StartPumps(d)
      BY <3>1, <2>1 DEF HubInv, OneInHand, Joining, TypeOK, ConnTypeOK, StartPumps
    <3>2. CASE ReadFails(d) \/ CloseSocket(d)
      BY <3>2, <2>1 DEF HubInv, OneInHand, ReadFails, CloseSocket
    <3>3. QED
      BY <1>4, <3>1, <3>2 DEF ReaderStep
  <2>5. ASSUME NEW c \in Conn PROVE Stream(c)' = Stream(c)
    BY <2>1 DEF Stream
  <2>6. QED
    BY <1>1, <1>2, <2>2, <2>3, <2>4, <2>5, IdleStepFollows DEF HubInv
<1>5. CASE Dequeue(d) \/ WriteOk(d)
  <2>1. rpc' = rpc /\ wpc[d] # "off"
    BY <1>5 DEF Dequeue, WriteOk
  <2>2. MembersOpen'
    BY <1>1, <2>1 DEF HubInv, MembersOpen
  <2>3. Joining'
    <3>1. ASSUME NEW c \in Conn, c # d
          PROVE  /\ delivered'[c] = delivered[c] /\ hand'[c] = hand[c] /\ send'[c] = send[c]
                 /\ wpc'[c] = wpc[c]
      <4>1. CASE Dequeue(d)
        BY <3>1, <4>1 DEF HubInv, Dequeue, TypeOK, ConnTypeOK, FeedTypeOK, history
      <4>2. CASE WriteOk(d)
        BY <3>1, <4>2 DEF HubInv, WriteOk, TypeOK, ConnTypeOK, FeedTypeOK
      <4>3. QED
        BY <1>5, <4>1, <4>2
    <3>2. rpc[d] \notin {"new", "register"}
      BY <2>1 DEF HubInv, Joining
    <3>3. QED
      BY <1>1, <2>1, <3>1, <3>2 DEF HubInv, Joining
  <2>4. OneInHand'
    <3>1. CASE Dequeue(d)
      <4>1. Len(hand'[d]) = 1 /\ wpc'[d] = "write"
        BY <3>1 DEF HubInv, Dequeue, TypeOK, ConnTypeOK, FeedTypeOK
      <4>2. ASSUME NEW c \in Conn, c # d PROVE hand'[c] = hand[c] /\ wpc'[c] = wpc[c]
        BY <3>1, <4>2 DEF HubInv, Dequeue, TypeOK, ConnTypeOK, FeedTypeOK
      <4>3. QED
        BY <4>1, <4>2 DEF HubInv, OneInHand
    <3>2. CASE WriteOk(d)
      BY <3>2 DEF HubInv, OneInHand, WriteOk, TypeOK, ConnTypeOK, FeedTypeOK
    <3>3. QED
      BY <1>5, <3>1, <3>2
  <2>5. ASSUME NEW c \in Conn PROVE Stream(c)' = Stream(c)
    BY <1>5, PumpKeepsStream DEF HubInv
  <2>6. QED
    BY <1>1, <1>2, <2>2, <2>3, <2>4, <2>5, IdleStepFollows DEF HubInv
<1>6. QED
  BY <1>3, <1>4, <1>5

\* A registration: the newcomer's stream is empty and starts at the log's end.
LEMMA RegisterInv ==
  ASSUME HubInv, TypeOK', NEW d \in Conn, HubRegister(d)
  PROVE  HubInv'
<1> USE DEF HubInv
<1>1. /\ UNCHANGED <<hub, m, todo, room, closed, log, delivered, hand, send, wpc>>
      /\ rooms' = [rooms EXCEPT ![room[d]] = @ \union {d}] /\ present' = present \union {room[d]}
      /\ rpc[d] = "register" /\ rpc' = [rpc EXCEPT ![d] = "start"]
      /\ join' = [join EXCEPT ![d] = Len(log[room[d]])]
      /\ room[d] \in Room
  BY DEF HubRegister, TypeOK, ConnTypeOK
<1>2. todo = {}
  BY DEF HubRegister, Broadcasting
<1>3. RoomsExact'
  BY <1>1 DEF RoomsExact, TypeOK, HubTypeOK
<1>4. d \notin closed /\ delivered[d] = <<>> /\ hand[d] = <<>> /\ send[d] = <<>>
  BY <1>1 DEF Joining
<1>5. MembersOpen'
  BY <1>1, <1>4 DEF MembersOpen, TypeOK, HubTypeOK, ConnTypeOK
<1>6. Joining'
  BY <1>1, <1>4 DEF Joining, TypeOK, HubTypeOK, ConnTypeOK
<1>7. Broadcasting' /\ OneInHand'
  BY <1>1, <1>2 DEF Broadcasting, OneInHand
<1>8. ASSUME NEW c \in Conn PROVE Follows(c)'
  <2>1. Stream(c)' = Stream(c)
    BY <1>1 DEF Stream
  <2>2. CASE c = d
    <3>1. Stream(d) = <<>>
      BY <1>4 DEF Stream
    <3>2. join'[d] = Len(log[room[d]]) /\ Len(log[room[d]]) \in Nat
      BY <1>1 DEF TypeOK, FeedTypeOK
    <3>3. QED
      BY <1>1, <1>2, <2>1, <2>2, <3>1, <3>2 DEF Follows
  <2>3. CASE c # d
    <3>1. join'[c] = join[c] /\ (c \in rooms'[room[c]] => c \in rooms[room[c]])
      BY <1>1, <2>3 DEF TypeOK, FeedTypeOK, HubTypeOK, ConnTypeOK
    <3>2. QED
      BY <1>1, <2>1, <3>1 DEF Follows
  <2>4. QED
    BY <2>2, <2>3
<1>9. QED
  BY <1>3, <1>5, <1>6, <1>7, <1>8

\* Taking a member out of its room keeps the map and the entries in step.
LEMMA DropMemberRooms ==
  ASSUME HubInv, NEW d \in Conn, d \in rooms[room[d]], DropMember(d)
  PROVE  /\ RoomsExact'
         /\ \A r \in Room : rooms'[r] = IF r = room[d] THEN rooms[r] \ {d} ELSE rooms[r]
         /\ \A r \in Room : d \notin rooms'[r]
<1> USE DEF HubInv
<1>1. room[d] \in Room /\ rooms \in [Room -> SUBSET Conn]
  BY DEF TypeOK, HubTypeOK, ConnTypeOK
<1>2. \A r \in Room : rooms'[r] = IF r = room[d] THEN rooms[r] \ {d} ELSE rooms[r]
  BY <1>1 DEF DropMember
<1>3. \A r \in Room : d \notin rooms'[r]
  BY <1>2 DEF MembersOpen
<1>4. RoomsExact'
  <2>1. rooms[room[d]] = {d} <=> rooms'[room[d]] = {}
    BY <1>1, <1>2
  <2>2. present' = IF rooms'[room[d]] = {} THEN present \ {room[d]} ELSE present
    BY <2>1 DEF DropMember
  <2>3. room[d] \in present
    BY <1>1 DEF RoomsExact
  <2>4. ASSUME NEW r \in Room PROVE r \in present' <=> rooms'[r] # {}
    BY <1>1, <1>2, <2>2, <2>3 DEF RoomsExact
  <2>5. present' \subseteq Room
    BY <2>2 DEF RoomsExact
  <2>6. QED
    BY <2>4, <2>5 DEF RoomsExact
<1>5. QED
  BY <1>2, <1>3, <1>4

\* An unregistration closes the channel of a member, and of nobody else.
LEMMA UnregisterInv ==
  ASSUME HubInv, TypeOK', NEW d \in Conn, HubUnregister(d)
  PROVE  HubInv'
<1> USE DEF HubInv
<1>1. /\ UNCHANGED <<m, todo, room, log, join, delivered, hand, send, wpc>>
      /\ rpc[d] = "unregister" /\ rpc' = [rpc EXCEPT ![d] = "close"]
      /\ room[d] \in Room /\ todo = {} /\ hub = "select"
  BY DEF HubUnregister, Broadcasting, TypeOK, ConnTypeOK, history
<1>2. ASSUME NEW c \in Conn PROVE Stream(c)' = Stream(c)
  BY <1>1 DEF Stream
<1>3. OneInHand'
  BY <1>1 DEF OneInHand
<1>4. CASE room[d] \in present /\ d \in rooms[room[d]]
  <2>1. DropMember(d) /\ closed' = closed \union {d}
    BY <1>4 DEF HubUnregister
  <2>2. hub' = "select"
    <3>1. d \notin closed
      BY <1>1, <1>4 DEF MembersOpen
    <3>2. QED
      BY <1>4, <3>1 DEF HubUnregister, AfterUse
  <2>3. /\ RoomsExact'
        /\ \A r \in Room : rooms'[r] = IF r = room[d] THEN rooms[r] \ {d} ELSE rooms[r]
        /\ \A r \in Room : d \notin rooms'[r]
    BY <1>4, <2>1, DropMemberRooms
  <2> \A c \in Conn : rpc'[c] = IF c = d THEN "close" ELSE rpc[c]
    BY <1>1 DEF TypeOK, ConnTypeOK
  <2>4. MembersOpen'
    <3> SUFFICES ASSUME NEW r \in Room, NEW c \in rooms'[r]
                 PROVE  room[c] = r /\ c \notin closed' /\ rpc'[c] \in {"start", "read", "send", "unregister"}
      BY <1>1 DEF MembersOpen
    <3>1. c \in rooms[r] /\ c \in Conn /\ c # d
      BY <2>3 DEF TypeOK, HubTypeOK
    <3>2. QED
      BY <2>1, <3>1 DEF MembersOpen
  <2>5. Joining'
    <3> SUFFICES ASSUME NEW c \in Conn
                 PROVE  IF rpc'[c] \in {"new", "register"}
                        THEN /\ c \notin closed' /\ wpc[c] = "off"
                             /\ delivered[c] = <<>> /\ hand[c] = <<>> /\ send[c] = <<>>
                        ELSE /\ c \in closed' \/ c \in rooms'[room[c]]
                             /\ rpc'[c] = "start" => wpc[c] = "off"
      BY <1>1 DEF Joining
    <3>1. CASE c = d
      BY <2>1, <3>1
    <3>2. CASE c # d
      BY <2>1, <2>3, <3>2, ZenonT(30) DEF Joining, TypeOK, ConnTypeOK
    <3>3. QED
      BY <3>1, <3>2
  <2>6. Broadcasting'
    BY <1>1, <2>2 DEF Broadcasting
  <2>7. ASSUME NEW c \in Conn PROVE Follows(c)'
    <3>1. room[c] \in Room /\ (c \in rooms'[room[c]] => c \in rooms[room[c]])
      BY <2>3 DEF TypeOK, ConnTypeOK
    <3>2. QED
      BY <1>1, <1>2, <3>1, IdleStepFollows
  <2>8. QED
    BY <1>3, <2>3, <2>4, <2>5, <2>6, <2>7
<1>5. CASE ~(room[d] \in present /\ d \in rooms[room[d]])
  <2>1. UNCHANGED <<rooms, present, closed, hub>>
    BY <1>5 DEF HubUnregister
  <2>2. \A r \in Room : d \notin rooms[r]
    BY <1>1, <1>5 DEF MembersOpen, RoomsExact
  <2>3. RoomsExact' /\ Broadcasting'
    BY <1>1, <2>1 DEF RoomsExact, Broadcasting
  <2>4. MembersOpen'
    BY <1>1, <2>1, <2>2 DEF MembersOpen, TypeOK, HubTypeOK, ConnTypeOK
  <2>5. Joining'
    BY <1>1, <2>1 DEF Joining, TypeOK, ConnTypeOK
  <2>6. ASSUME NEW c \in Conn PROVE Follows(c)'
    BY <1>1, <1>2, <2>1, IdleStepFollows
  <2>7. QED
    BY <1>3, <2>3, <2>4, <2>5, <2>6
<1>6. QED
  BY <1>4, <1>5

\* A message taken for a room is due to exactly the members of that room.
LEMMA BroadcastInv ==
  ASSUME HubInv, TypeOK', NEW d \in Conn, HubBroadcast(d)
  PROVE  HubInv'
<1> USE DEF HubInv
<1> DEFINE r == room[d]
<1>1. /\ UNCHANGED <<rooms, present, room, closed, join, delivered, hand, send, wpc>>
      /\ rpc[d] = "send" /\ rpc' = [rpc EXCEPT ![d] = "read"]
      /\ r \in Room /\ todo = {} /\ hub = "select" /\ todo' = rooms[r]
      /\ hub' = (IF rooms[r] = {} THEN "select" ELSE "broadcast")
      /\ m' = IF rooms[r] = {} THEN <<>> ELSE <<LastRead(d)>>
  BY DEF HubBroadcast, Broadcasting, TypeOK, ConnTypeOK
<1>2. /\ \A q \in Room : q # r => log'[q] = log[q]
      /\ log'[r] = Append(log[r], LastRead(d))
  BY <1>1 DEF HubBroadcast, TypeOK, FeedTypeOK
<1>3. /\ log[r] \in Seq(Message) /\ LastRead(d) \in Message
  BY <1>1 DEF TypeOK, FeedTypeOK, ConnTypeOK, LastRead, Message
<1>4. /\ Len(log'[r]) = Len(log[r]) + 1 /\ Len(log[r]) \in Nat
      /\ \A i \in 1..Len(log[r]) : log'[r][i] = log[r][i]
      /\ log'[r][Len(log'[r])] = LastRead(d)
  BY <1>2, <1>3, AppendProperties
<1>5. RoomsExact' /\ OneInHand'
  BY <1>1 DEF RoomsExact, OneInHand
<1>6. MembersOpen'
  BY <1>1 DEF MembersOpen, TypeOK, HubTypeOK, ConnTypeOK
<1>7. Joining'
  BY <1>1 DEF Joining, TypeOK, ConnTypeOK
<1>8. Broadcasting'
  <2>1. \A c \in rooms[r] : c \in Conn /\ room[c] = r
    BY <1>1 DEF MembersOpen, TypeOK, HubTypeOK
  <2>2. QED
    BY <1>1, <1>4, <2>1 DEF Broadcasting
<1>9. ASSUME NEW c \in Conn PROVE Follows(c)'
  <2>1. Stream(c)' = Stream(c) /\ Len(Stream(c)) \in Nat /\ join[c] \in Nat
    BY <1>1, StreamType DEF Stream, TypeOK, FeedTypeOK
  <2>2. CASE room[c] = r
    <3> DEFINE n == Len(Stream(c))
    <3>1. /\ join[c] + n <= Len(log[r])
          /\ \A i \in 1..n : Stream(c)[i] = log[r][join[c] + i]
          /\ c \in rooms[r] => join[c] + n = Len(log[r])
      BY <1>1, <2>2 DEF Follows
    <3> n \in Nat /\ join[c] \in Nat /\ Stream(c)' = Stream(c)
      BY <2>1
    <3> HIDE DEF n, r
    <3>2. ASSUME NEW i \in 1..n PROVE log'[r][join[c] + i] = log[r][join[c] + i]
      <4>1. join[c] + i \in 1..Len(log[r])
        BY <1>4, <3>1
      <4>2. QED
        BY <1>4, <4>1
    <3>3. c \in rooms[r] <=> c \in todo'
      BY <1>1
    <3>4. QED
      <4>1. join[c] + n <= Len(log'[r]) /\ (c \in rooms[r] => join[c] + n = Len(log'[r]) - 1)
        BY <1>4, <3>1
      <4>2. \A i \in 1..n : Stream(c)[i] = log'[r][join[c] + i]
        BY <3>1, <3>2
      <4>3. QED
        BY <1>1, <2>2, <3>3, <4>1, <4>2 DEF Follows, n, r
  <2>3. CASE room[c] # r
    <3>1. c \notin rooms[r] /\ log'[room[c]] = log[room[c]]
      BY <1>1, <1>2, <2>3 DEF MembersOpen, TypeOK, ConnTypeOK
    <3>2. QED
      BY <1>1, <2>1, <3>1 DEF Follows
  <2>4. QED
    BY <2>2, <2>3
<1>10. QED
  BY <1>5, <1>6, <1>7, <1>8, <1>9

\* What the loop of the hub knows of the member it visits.
LEMMA LoopFacts ==
  ASSUME HubInv, NEW d \in todo, Visited(d)
  PROVE  /\ d \in Conn /\ d \in rooms[room[d]] /\ d \notin closed
         /\ todo' = todo \ {d} /\ m' = (IF todo = {d} THEN <<>> ELSE m)
         /\ hub' = IF todo' = {} THEN "select" ELSE "broadcast"
         /\ Len(log[room[d]]) > 0 /\ m = <<log[room[d]][Len(log[room[d]])]>>
         /\ join[d] + Len(Stream(d)) = Len(log[room[d]]) - 1
<1> USE DEF HubInv
<1>1. d \in Conn /\ d \in rooms[room[d]] /\ room[d] \in Room
  BY DEF Broadcasting, TypeOK, HubTypeOK, ConnTypeOK
<1>2. d \notin closed
  BY <1>1 DEF MembersOpen
<1>3. /\ todo' = todo \ {d} /\ m' = (IF todo = {d} THEN <<>> ELSE m)
      /\ todo = {d} <=> todo' = {}
  BY DEF Visited
<1>4. hub' = IF todo' = {} THEN "select" ELSE "broadcast"
  BY <1>2, <1>3 DEF Visited, AfterUse
<1>5. /\ Len(log[room[d]]) > 0 /\ m = <<log[room[d]][Len(log[room[d]])]>>
  BY DEF Broadcasting
<1>6. join[d] + Len(Stream(d)) = Len(log[room[d]]) - 1
  BY <1>1 DEF Follows
<1>7. QED
  BY <1>1, <1>2, <1>3, <1>4, <1>5, <1>6

\* A member that has room in its buffer gets the message its log ends with.
LEMMA SendInv ==
  ASSUME HubInv, TypeOK', NEW d \in Conn, HubSend(d)
  PROVE  HubInv'
<1> USE DEF HubInv
<1>1. /\ UNCHANGED <<rooms, present, room, rpc, wpc, closed, log, join, delivered, hand>>
      /\ d \in todo /\ Visited(d)
      /\ send' = [send EXCEPT ![d] = @ \o m]
  BY DEF HubSend, history
<1>2. /\ d \in rooms[room[d]] /\ d \notin closed
      /\ todo' = todo \ {d} /\ m' = (IF todo = {d} THEN <<>> ELSE m)
      /\ hub' = IF todo' = {} THEN "select" ELSE "broadcast"
      /\ Len(log[room[d]]) > 0 /\ m = <<log[room[d]][Len(log[room[d]])]>>
      /\ join[d] + Len(Stream(d)) = Len(log[room[d]]) - 1
  BY <1>1, LoopFacts
<1>3. RoomsExact' /\ MembersOpen' /\ OneInHand'
  BY <1>1 DEF RoomsExact, MembersOpen, OneInHand
<1>4. \A c \in Conn : c # d => send'[c] = send[c]
  BY <1>1 DEF TypeOK, FeedTypeOK
<1>5. Joining'
  <2>1. rpc[d] \notin {"new", "register"}
    BY <1>2 DEF MembersOpen, TypeOK, ConnTypeOK
  <2>2. QED
    BY <1>1, <1>4, <2>1 DEF Joining
<1>6. Broadcasting'
  BY <1>1, <1>2 DEF Broadcasting
<1>7. ASSUME NEW c \in Conn, c # d PROVE Follows(c)'
  <2>1. Stream(c)' = Stream(c) /\ (c \in todo' <=> c \in todo)
    BY <1>1, <1>2, <1>4, <1>7 DEF Stream
  <2>2. QED
    BY <1>1, <2>1 DEF Follows
<1>8. Follows(d)'
  <2> DEFINE feed == log[room[d]]
             s == Stream(d)
  <2>1. /\ m \in Seq(Message) /\ Len(m) = 1 /\ m[1] = feed[Len(feed)]
        /\ delivered[d] \in Seq(Message) /\ hand[d] \in Seq(Message) /\ send[d] \in Seq(Message)
        /\ join[d] \in Nat /\ Len(feed) \in Nat
    BY <1>2 DEF TypeOK, HubTypeOK, FeedTypeOK, ConnTypeOK
  <2>2. Stream(d)' = s \o m
    <3>1. send'[d] = send[d] \o m
      BY <1>1 DEF TypeOK, FeedTypeOK
    <3>2. PICK x \in Seq(Message), y \in Seq(Message), z \in Seq(Message), e \in Seq(Message) :
                 x = delivered[d] /\ y = hand[d] /\ z = send[d] /\ e = m
      BY <2>1
    <3>3. (x \o y) \o (z \o e) = ((x \o y) \o z) \o e
      BY ConcatFour, SMTT(30)
    <3>4. QED
      BY <1>1, <3>1, <3>2, <3>3 DEF Stream
  <2>3. s \in Seq(Message) /\ feed \in Seq(Message)
    BY StreamType DEF TypeOK, FeedTypeOK, ConnTypeOK
  <2>4. Len(s) \in Nat
    BY <2>3
  <2>5. \A i \in 1..Len(s) : s[i] = feed[join[d] + i]
    BY DEF Follows
  <2>6. join[d] + Len(s) + 1 = Len(feed)
    BY <1>2, <2>1, <2>4
  <2>7. /\ Len(s \o m) = Len(s) + 1
        /\ \A i \in 1..Len(s \o m) : (s \o m)[i] = feed[join[d] + i]
    <3> HIDE DEF s, feed
    <3>1. PICK t \in Seq(Message), f \in Seq(Message), e \in Seq(Message), j \in Nat :
                 t = s /\ f = feed /\ e = m /\ j = join[d]
      BY <2>1, <2>3
    <3>2. /\ Len(e) = 1 /\ e[1] = f[Len(f)] /\ j + Len(t) + 1 = Len(f)
          /\ \A i \in 1..Len(t) : t[i] = f[j + i]
      BY <2>1, <2>5, <2>6, <3>1
    <3>3. /\ Len(t \o e) = Len(t) + 1
          /\ \A i \in 1..Len(t \o e) : (t \o e)[i] = f[j + i]
      BY <3>2, PieceGrows
    <3>4. QED
      BY <3>1, <3>3
  <2>8. /\ join[d] + Len(s \o m) = Len(feed) /\ Len(feed) <= Len(feed)
        /\ d \notin todo'
    BY <1>2, <2>1, <2>4, <2>6, <2>7
  <2>9. QED
    BY <1>1, <2>2, <2>7, <2>8 DEF Follows
<1>9. QED
  BY <1>3, <1>5, <1>6, <1>7, <1>8

\* An eviction takes the member out before the hub could use its channel again.
LEMMA EvictInv ==
  ASSUME HubInv, TypeOK', NEW d \in Conn, HubEvict(d)
  PROVE  HubInv'
<1> USE DEF HubInv
<1>1. /\ UNCHANGED <<room, rpc, wpc, send, log, join, delivered, hand>>
      /\ d \in todo /\ Visited(d) /\ DropMember(d)
      /\ closed' = closed \union {d}
  BY DEF HubEvict, history
<1>2. /\ d \in rooms[room[d]]
      /\ todo' = todo \ {d} /\ m' = (IF todo = {d} THEN <<>> ELSE m)
      /\ hub' = IF todo' = {} THEN "select" ELSE "broadcast"
  BY <1>1, LoopFacts
<1>3. /\ RoomsExact'
      /\ \A r \in Room : rooms'[r] = IF r = room[d] THEN rooms[r] \ {d} ELSE rooms[r]
      /\ \A r \in Room : d \notin rooms'[r]
  BY <1>1, <1>2, DropMemberRooms
<1>4. MembersOpen'
  <2> SUFFICES ASSUME NEW r \in Room, NEW c \in rooms'[r]
               PROVE  room[c] = r /\ c \notin closed' /\ rpc[c] \in {"start", "read", "send", "unregister"}
    BY <1>1 DEF MembersOpen
  <2>1. c \in rooms[r] /\ c # d
    BY <1>3
  <2>2. QED
    BY <1>1, <2>1 DEF MembersOpen
<1>5. OneInHand'
  BY <1>1 DEF OneInHand
<1>6. Joining'
  <2>1. rpc[d] \notin {"new", "register"}
    BY <1>2 DEF MembersOpen, TypeOK, ConnTypeOK
  <2>2. \A c \in Conn : c # d => (c \in rooms'[room[c]] <=> c \in rooms[room[c]]) /\ (c \in closed' <=> c \in closed)
    BY <1>1, <1>3 DEF TypeOK, ConnTypeOK
  <2>3. d \in closed'
    BY <1>1
  <2>4. rpc[d] = "start" => wpc[d] = "off"
    BY <2>1 DEF Joining
  <2>5. QED
    BY <1>1, <2>1, <2>2, <2>3, <2>4 DEF Joining
<1>7. Broadcasting'
  <2>1. \A c \in todo' : c \in Conn /\ c \in todo /\ c # d /\ c \in rooms'[room[c]]
    BY <1>2, <1>3 DEF Broadcasting, TypeOK, HubTypeOK, ConnTypeOK
  <2>2. todo' # {} => m' = m
    BY <1>2
  <2>3. QED
    BY <1>1, <1>2, <2>1, <2>2 DEF Broadcasting
<1>8. ASSUME NEW c \in Conn PROVE Follows(c)'
  <2>1. Stream(c)' = Stream(c)
    BY <1>1 DEF Stream
  <2>2. CASE c = d
    <3>1. c \notin rooms'[room[c]] /\ room[c] \in Room
      BY <1>3, <2>2 DEF TypeOK, ConnTypeOK
    <3>2. QED
      BY <1>1, <2>1, <3>1 DEF Follows
  <2>3. CASE c # d
    <3>1. (c \in todo' <=> c \in todo) /\ (c \in rooms'[room[c]] => c \in rooms[room[c]])
      BY <1>2, <1>3, <2>3 DEF TypeOK, ConnTypeOK
    <3>2. QED
      BY <1>1, <2>1, <3>1 DEF Follows
  <2>4. QED
    BY <2>2, <2>3
<1>9. QED
  BY <1>3, <1>4, <1>5, <1>6, <1>7, <1>8

\* Every step preserves the invariant.
LEMMA NextInv == HubInv /\ [Next]_vars => HubInv'
<1> SUFFICES ASSUME HubInv, [Next]_vars PROVE HubInv'
  OBVIOUS
<1>1. TypeOK'
  BY NextType DEF HubInv
<1>2. ASSUME NEW c \in Conn, HubStep(c) PROVE HubInv'
  BY <1>1, <1>2, RegisterInv, UnregisterInv, BroadcastInv, SendInv, EvictInv DEF HubStep
<1>3. ASSUME NEW c \in Conn, ReaderStep(c) \/ Serve(c) \/ ReadMessage(c) \/ PeerDrops(c) PROVE HubInv'
  BY <1>1, <1>3, PumpStepInv
<1>4. ASSUME NEW c \in Conn, WriterStep(c) PROVE HubInv'
  BY <1>1, <1>4, PumpStepInv DEF WriterStep, WriteFails, PingFails, WriterSeesClose
<1>5. CASE UNCHANGED vars
  <2>1. RoomsExact' /\ MembersOpen' /\ Joining' /\ OneInHand'
    BY <1>5 DEF HubInv, RoomsExact, MembersOpen, Joining, OneInHand, vars, hubVars, connVars, history
  <2>2. Broadcasting'
    BY <1>5 DEF HubInv, Broadcasting, vars, hubVars, connVars, history
  <2>3. ASSUME NEW c \in Conn PROVE Follows(c)'
    BY <1>5 DEF HubInv, Follows, Stream, vars, hubVars, connVars, history
  <2>4. QED
    BY <1>1, <2>1, <2>2, <2>3 DEF HubInv
<1>6. QED
  BY <1>2, <1>3, <1>4, <1>5 DEF Next, Quiesced

\* The invariant holds in every reachable state.
THEOREM Inductive == Spec => []HubInv
<1>1. QED
  BY InitInv, NextInv, PTL DEF Spec

\* The hub never closes a channel twice nor sends on a closed one, however
\* evictions, unregistrations and broadcasts follow one another.
THEOREM NeverPanics == Spec => []HubNeverPanics
<1>1. HubInv => HubNeverPanics
  BY DEF HubInv, Broadcasting, HubNeverPanics
<1>2. QED
  BY <1>1, Inductive, PTL

\* A room has an entry in the hub's map if and only if it has a member.
THEOREM RoomEntries == Spec => []RoomsExact
<1>1. HubInv => RoomsExact
  BY DEF HubInv
<1>2. QED
  BY <1>1, Inductive, PTL

\* Every connection's stream is a gapless piece of its room's log.
THEOREM Contiguous == Spec => []ContiguousFeed
<1>1. HubInv => ContiguousFeed
  <2> SUFFICES ASSUME HubInv, NEW c \in Conn
               PROVE  LET feed == log[room[c]]
                          seen == join[c] + Len(Stream(c))
                      IN  /\ seen <= Len(feed)
                          /\ Stream(c) = SubSeq(feed, join[c] + 1, seen)
                          /\ c \in rooms[room[c]] => seen = Len(feed) - (IF c \in todo THEN 1 ELSE 0)
    BY DEF ContiguousFeed
  <2> DEFINE feed == log[room[c]]
             s == Stream(c)
             seen == join[c] + Len(s)
  <2>1. s \in Seq(Message) /\ Len(s) \in Nat /\ feed \in Seq(Message) /\ Len(feed) \in Nat /\ join[c] \in Nat
    BY StreamType DEF HubInv, TypeOK, FeedTypeOK, ConnTypeOK
  <2>2. /\ seen <= Len(feed)
        /\ \A i \in 1..Len(s) : s[i] = feed[join[c] + i]
        /\ c \in rooms[room[c]] => seen = IF c \in todo THEN Len(feed) - 1 ELSE Len(feed)
    BY DEF HubInv, Follows
  <2>3. s = SubSeq(feed, join[c] + 1, seen)
    <3> HIDE DEF s, feed
    <3>1. QED
      BY <2>1, <2>2, PieceIsSubSeq
  <2>4. c \in rooms[room[c]] => seen = Len(feed) - (IF c \in todo THEN 1 ELSE 0)
    <3>1. CASE c \in todo
      BY <2>2, <3>1
    <3>2. CASE c \notin todo
      <4> DEFINE n == Len(feed)
      <4>1. n \in Nat /\ (c \in rooms[room[c]] => seen = n)
        BY <2>1, <2>2, <3>2
      <4> HIDE DEF n, seen
      <4>2. c \in rooms[room[c]] => seen = n - 0
        BY <4>1
      <4>3. QED
        BY <3>2, <4>2 DEF n
    <3>3. QED
      BY <3>1, <3>2
  <2>5. QED
    BY <2>2, <2>3, <2>4
<1>2. QED
  BY <1>1, Inductive, PTL

-----------------------------------------------------------------------------
(* The hub does not wait for the members of a room *)

\* No buffer holds more than a channel does: HubSend and HubEvict split on it.
WithinCap == \A c \in Conn : Len(send[c]) <= Cap

\* Every step keeps the buffers within the capacity of their channels.
LEMMA NextCap == WithinCap /\ HubInv /\ [Next]_vars => WithinCap'
<1> SUFFICES ASSUME WithinCap, HubInv, [Next]_vars PROVE WithinCap'
  OBVIOUS
<1> USE CapAssumption DEF WithinCap
<1>1. send \in [Conn -> Seq(Message)]
  BY DEF HubInv, TypeOK, FeedTypeOK
<1>2. ASSUME NEW d \in Conn, HubSend(d) PROVE WithinCap'
  <2>1. d \in todo /\ Visited(d) /\ Len(send[d]) < Cap /\ send' = [send EXCEPT ![d] = @ \o m]
    BY <1>2 DEF HubSend
  <2>2. m \in Seq(Message) /\ Len(m) = 1
    <3>1. m = <<log[room[d]][Len(log[room[d]])]>>
      BY <2>1, LoopFacts
    <3>2. Len(m) = 1
      BY <3>1
    <3>3. QED
      BY <3>2 DEF HubInv, TypeOK, HubTypeOK
  <2>3. Len(send[d] \o m) = Len(send[d]) + 1
    <3>1. send[d] \in Seq(Message)
      BY <1>1
    <3>2. Len(send[d] \o m) = Len(send[d]) + Len(m)
      BY <2>2, <3>1, ConcatEntries
    <3>3. QED
      BY <2>2, <3>2
  <2>4. Len(send[d]) \in Nat
    BY <1>1
  <2>5. Len(send'[d]) <= Cap
    <3>1. send'[d] = send[d] \o m
      BY <1>1, <2>1
    <3>2. QED
      BY <2>1, <2>3, <2>4, <3>1
  <2>6. \A c \in Conn : c # d => send'[c] = send[c]
    BY <1>1, <2>1
  <2>7. QED
    BY <2>5, <2>6
<1>3. ASSUME NEW d \in Conn, Dequeue(d) PROVE WithinCap'
  <2>1. send[d] # <<>> /\ send' = [send EXCEPT ![d] = Tail(@)]
    BY <1>3 DEF Dequeue
  <2>2. Len(Tail(send[d])) = Len(send[d]) - 1 /\ Len(send[d]) \in Nat
    BY <1>1, <2>1, HeadTailProperties
  <2>3. Len(send'[d]) <= Cap
    BY <1>1, <2>1, <2>2
  <2>4. \A c \in Conn : c # d => send'[c] = send[c]
    BY <1>1, <2>1
  <2>5. QED
    BY <2>3, <2>4
<1>4. ASSUME NEW d \in Conn, \/ HubRegister(d) \/ HubUnregister(d) \/ HubBroadcast(d) \/ HubEvict(d)
                             \/ ReaderStep(d) \/ Serve(d) \/ ReadMessage(d) \/ PeerDrops(d)
                             \/ WriteOk(d) \/ WriteFails(d) \/ PingFails(d) \/ WriterSeesClose(d)
      PROVE  send' = send
  BY <1>4 DEF HubRegister, HubUnregister, HubBroadcast, HubEvict, ReaderStep, StartPumps, ReadFails,
     CloseSocket, Serve, ReadMessage, PeerDrops, WriteOk, WriteFails, PingFails, WriterSeesClose, WriterStops
<1>5. CASE UNCHANGED vars
  BY <1>5 DEF vars, connVars
<1>6. QED
  BY <1>2, <1>3, <1>4, <1>5 DEF Next, HubStep, WriterStep, Quiesced

\* The select with a default case never blocks: as long as the loop of a
\* broadcast runs there is a member to visit, and for each of them, however slow
\* it is, either the send's guard or the default's holds, on an open channel.
THEOREM NeverWaits ==
  Spec => [](hub # "select" => /\ todo # {}
                               /\ \A c \in todo : /\ c \notin closed
                                                  /\ Len(send[c]) < Cap \/ Len(send[c]) = Cap)
<1>1. Init => WithinCap
  BY CapAssumption DEF Init, WithinCap
<1>2. HubInv /\ WithinCap
      => (hub # "select" => /\ todo # {}
                            /\ \A c \in todo : /\ c \notin closed
                                               /\ Len(send[c]) < Cap \/ Len(send[c]) = Cap)
  <2> SUFFICES ASSUME HubInv, WithinCap, hub # "select"
               PROVE  /\ todo # {}
                      /\ \A c \in todo : c \notin closed /\ (Len(send[c]) < Cap \/ Len(send[c]) = Cap)
    OBVIOUS
  <2>1. todo # {}
    BY DEF HubInv, Broadcasting
  <2>2. ASSUME NEW c \in todo PROVE c \notin closed /\ (Len(send[c]) < Cap \/ Len(send[c]) = Cap)
    <3>1. c \in Conn /\ c \in rooms[room[c]] /\ room[c] \in Room /\ Len(send[c]) \in Nat
      BY DEF HubInv, Broadcasting, TypeOK, HubTypeOK, ConnTypeOK, FeedTypeOK
    <3>2. c \notin closed
      BY <3>1 DEF HubInv, MembersOpen
    <3>3. QED
      BY <3>1, <3>2, CapAssumption DEF WithinCap
  <2>3. QED
    BY <2>1, <2>2, Zenon
<1>3. QED
  BY <1>1, <1>2, NextCap, Inductive, PTL DEF Spec

-----------------------------------------------------------------------------
(* What is posted *)

\* readPump holds a message only after it has read one.
HasRead == \A c \in Conn : rpc[c] = "send" => sent[c] > 0

\* Where ServeWs and readPump of a connection can be.
Rpc == {"new", "register", "start", "read", "send", "unregister", "close", "done"}

PostInv == TypeOK /\ HasRead /\ PostedInOrder

\* A step that reads nothing and broadcasts nothing leaves what is posted alone.
LEMMA QuietPost ==
  ASSUME PostInv, TypeOK', UNCHANGED <<log, room, sent>>,
         \A c \in Conn : rpc'[c] = "send" <=> rpc[c] = "send"
  PROVE  PostInv'
<1>1. \A c \in Conn : Taken(c)' = Taken(c)
  BY DEF Taken
<1>2. HasRead'
  BY DEF PostInv, HasRead
<1>3. PostedInOrder'
  <2>1. \A msg \in Message : msg.from \in Conn
    BY DEF Message
  <2> QED
    BY <1>1, <2>1 DEF PostInv, PostedInOrder
<1> QED
  BY <1>2, <1>3 DEF PostInv

\* readPump reads a message and holds it (ReadMessage).
LEMMA ReadPost == ASSUME PostInv, TypeOK', NEW c \in Conn, ReadMessage(c) PROVE PostInv'
<1>1. /\ UNCHANGED <<log, room>> /\ rpc[c] = "read" /\ rpc' = [rpc EXCEPT ![c] = "send"]
      /\ sent' = [sent EXCEPT ![c] = @ + 1]
  BY DEF ReadMessage, history
<1>2. sent \in [Conn -> Nat] /\ rpc \in [Conn -> Rpc]
  BY MaxSentAssumption DEF PostInv, TypeOK, ConnTypeOK, Rpc
<1>3. ASSUME NEW d \in Conn PROVE Taken(d)' = Taken(d) /\ (rpc'[d] = "send" => sent'[d] > 0)
  <2>1. CASE d = c
    <3>1. rpc'[d] = "send" /\ sent'[d] = sent[d] + 1 /\ rpc[d] = "read" /\ sent[d] \in Nat
      BY <1>1, <1>2, <2>1
    <3> QED
      BY <3>1 DEF Taken
  <2>2. CASE d # c
    <3>1. rpc'[d] = rpc[d] /\ sent'[d] = sent[d]
      BY <1>1, <1>2, <2>2
    <3> QED
      BY <3>1 DEF Taken, PostInv, HasRead
  <2> QED
    BY <2>1, <2>2
<1>4. HasRead'
  BY <1>3 DEF HasRead
<1>5. PostedInOrder'
  <2>1. \A msg \in Message : msg.from \in Conn
    BY DEF Message
  <2> QED
    BY <1>1, <1>3, <2>1 DEF PostInv, PostedInOrder
<1> QED
  BY <1>4, <1>5 DEF PostInv

\* The hub takes the message and appends it to the log (case <-h.broadcast).
LEMMA BroadcastPost == ASSUME PostInv, TypeOK', NEW c \in Conn, HubBroadcast(c) PROVE PostInv'
<1> DEFINE new == LastRead(c)
           ro == room[c]
           L == log[ro]
<1>0. TypeOK /\ HasRead /\ PostedInOrder
  BY DEF PostInv
<1>1. /\ UNCHANGED <<room, sent>> /\ rpc[c] = "send" /\ rpc' = [rpc EXCEPT ![c] = "read"]
      /\ log' = [log EXCEPT ![ro] = Append(L, new)]
  BY DEF HubBroadcast
<1>2. /\ sent \in [Conn -> 0..MaxSent] /\ rpc \in [Conn -> Rpc] /\ ro \in Room
      /\ log \in [Room -> Seq(Message)] /\ L \in Seq(Message)
  BY <1>0 DEF TypeOK, ConnTypeOK, FeedTypeOK, Rpc
<1>3. new \in Message /\ new.from = c /\ new.num = sent[c] /\ sent[c] > 0 /\ sent[c] \in Nat
  BY <1>0, <1>1, <1>2, MaxSentAssumption DEF LastRead, Message, HasRead
<1>4. Taken(c) = sent[c] - 1 /\ Taken(c)' = sent[c]
  BY <1>1, <1>2 DEF Taken
<1>5. ASSUME NEW d \in Conn, d # c PROVE Taken(d)' = Taken(d) /\ (rpc'[d] = "send" <=> rpc[d] = "send")
  BY <1>1, <1>2, <1>5 DEF Taken
<1>6. HasRead'
  <2>1. rpc'[c] # "send"
    BY <1>1, <1>2
  <2> QED
    BY <1>0, <1>1, <1>5, <2>1 DEF HasRead
<1>7. /\ log'[ro] = Append(L, new) /\ DOMAIN Append(L, new) = 1..(Len(L) + 1)
      /\ Append(L, new)[Len(L) + 1] = new
      /\ \A i \in 1..Len(L) : Append(L, new)[i] = L[i]
      /\ DOMAIN L = 1..Len(L) /\ Len(L) \in Nat
  BY <1>1, <1>2, <1>3, AppendProperties
<1>8. \A r \in Room : r # ro => log'[r] = log[r]
  BY <1>1, <1>2
<1> HIDE DEF new, ro, L
<1>9. \A i \in 1..Len(L) : L[i] \in Message
  BY <1>2, <1>7, ElementOfSeq
<1>10. \A msg \in Message : msg.from \in Conn /\ msg.num \in Nat
  BY MaxSentAssumption DEF Message
<1>11. ASSUME NEW r \in Room, NEW i \in DOMAIN log'[r], NEW j \in DOMAIN log'[r],
              i < j, log'[r][i].from = log'[r][j].from
       PROVE  log'[r][i].num < log'[r][j].num
  <2>1. CASE r # ro
    BY <1>0, <1>8, <1>11, <2>1 DEF PostedInOrder
  <2>2. CASE r = ro
    <3>1. i \in 1..Len(L) /\ log'[r][i] = L[i] /\ L[i] \in Message
      BY <1>7, <1>9, <1>11, <2>2
    <3>2. CASE j \in 1..Len(L)
      <4>1. log'[r][j] = L[j] /\ L[i].from = L[j].from
        BY <1>7, <1>11, <2>2, <3>1, <3>2
      <4>2. L[i].num < L[j].num
        <5>1. L = log[ro] /\ i \in DOMAIN L /\ j \in DOMAIN L
          BY <1>7, <3>1, <3>2 DEF L
        <5> QED
          BY <1>0, <1>2, <1>11, <4>1, <5>1 DEF PostedInOrder
      <4> QED
        BY <3>1, <4>1, <4>2
    <3>3. CASE j = Len(L) + 1
      <4>1. log'[r][j] = new /\ L[i].from = c
        BY <1>3, <1>7, <1>11, <2>2, <3>1, <3>3
      <4>2. L[i].num \in 1..Taken(c)
        BY <1>0, <1>2, <1>7, <3>1, <4>1 DEF PostedInOrder, L
      <4>3. L[i].num < sent[c]
        BY <1>3, <1>4, <4>2
      <4> QED
        BY <1>3, <3>1, <4>1, <4>3
    <3> QED
      BY <1>7, <2>2, <3>2, <3>3
  <2> QED
    BY <2>1, <2>2
<1>12. ASSUME NEW r \in Room, NEW msg \in Message
       PROVE  (\E i \in DOMAIN log'[r] : log'[r][i] = msg)
                <=> r = room'[msg.from] /\ msg.num \in 1..Taken(msg.from)'
  <2>1. (\E i \in DOMAIN log[r] : log[r][i] = msg) <=> r = room[msg.from] /\ msg.num \in 1..Taken(msg.from)
    BY <1>0 DEF PostedInOrder
  <2>2. CASE r # ro
    <3>1. msg.from = c => r # room[msg.from]
      BY <2>2 DEF ro
    <3>2. msg.from # c => Taken(msg.from)' = Taken(msg.from)
      BY <1>5, <1>10
    <3> QED
      BY <1>1, <1>8, <2>1, <2>2, <3>1, <3>2
  <2>3. CASE r = ro
    <3>1. (\E i \in DOMAIN log'[r] : log'[r][i] = msg) <=> (\E i \in DOMAIN log[r] : log[r][i] = msg) \/ msg = new
      <4>1. log[r] = L
        BY <2>3 DEF L
      <4> QED
        BY <1>7, <2>3, <4>1
    <3>2. CASE msg.from = c
      <4>1. msg = new <=> msg.num = sent[c]
        BY <3>2 DEF new, LastRead, Message
      <4>2. msg.num \in 1..sent[c] <=> msg.num \in 1..(sent[c] - 1) \/ msg.num = sent[c]
        BY <1>3, <1>10
      <4>3. r = room[msg.from]
        BY <2>3, <3>2 DEF ro
      <4> QED
        BY <1>1, <1>4, <2>1, <3>1, <3>2, <4>1, <4>2, <4>3
    <3>3. CASE msg.from # c
      <4>1. msg # new /\ Taken(msg.from)' = Taken(msg.from)
        BY <1>3, <1>5, <1>10, <3>3
      <4> QED
        BY <1>1, <2>1, <3>1, <4>1
    <3> QED
      BY <3>2, <3>3
  <2> QED
    BY <2>2, <2>3
<1>13. PostedInOrder'
  BY <1>11, <1>12 DEF PostedInOrder
<1> QED
  BY <1>6, <1>13 DEF PostInv

\* What is posted is posted once, in its room and in its sender's order.
THEOREM Posted == Spec => []PostedInOrder
<1>1. Init => PostInv
  <2> SUFFICES ASSUME Init PROVE PostInv
    OBVIOUS
  <2>1. HasRead
    BY DEF Init, HasRead
  <2>2. ASSUME NEW r \in Room PROVE DOMAIN log[r] = {}
    BY DEF Init
  <2>3. ASSUME NEW msg \in Message PROVE msg.num \notin 1..Taken(msg.from)
    BY DEF Init, Taken, Message
  <2> QED
    BY <2>1, <2>2, <2>3, InitType DEF PostInv, PostedInOrder
<1>2. PostInv /\ [Next]_vars => PostInv'
  <2> SUFFICES ASSUME PostInv, [Next]_vars PROVE PostInv'
    OBVIOUS
  <2>0. TypeOK /\ TypeOK'
    BY NextType DEF PostInv
  <2>1. rpc \in [Conn -> Rpc]
    BY <2>0 DEF TypeOK, ConnTypeOK, Rpc
  <2>2. ASSUME NEW c \in Conn, HubRegister(c) \/ HubUnregister(c) \/ ReaderStep(c) \/ Serve(c) PROVE PostInv'
    <3>1. UNCHANGED <<log, room, sent>>
      BY <2>2 DEF HubRegister, HubUnregister, ReaderStep, StartPumps, ReadFails, CloseSocket, Serve, history
    <3>2. \E p \in {"register", "start", "read", "unregister", "close", "done"} :
             rpc[c] # "send" /\ rpc' = [rpc EXCEPT ![c] = p]
      BY <2>2 DEF HubRegister, HubUnregister, ReaderStep, StartPumps, ReadFails, CloseSocket, Serve
    <3>3. \A d \in Conn : rpc'[d] = "send" <=> rpc[d] = "send"
      BY <2>1, <3>2
    <3> QED
      BY <2>0, <3>1, <3>3, QuietPost
  <2>3. ASSUME NEW c \in Conn, HubSend(c) \/ HubEvict(c) \/ WriterStep(c) \/ PeerDrops(c) PROVE PostInv'
    <3>1. UNCHANGED <<log, room, sent, rpc>>
      BY <2>3 DEF HubSend, HubEvict, WriterStep, Dequeue, WriteOk, WriteFails, PingFails, WriterSeesClose,
                  WriterStops, PeerDrops, history
    <3> QED
      BY <2>0, <3>1, QuietPost
  <2>4. CASE UNCHANGED vars
    <3>1. UNCHANGED <<log, room, sent, rpc>>
      BY <2>4 DEF vars, connVars, history
    <3> QED
      BY <2>0, <3>1, QuietPost
  <2> QED
    BY <2>0, <2>2, <2>3, <2>4, ReadPost, BroadcastPost DEF Next, HubStep, Quiesced
<1>3. PostInv => PostedInOrder
  BY DEF PostInv
<1> QED
  BY <1>1, <1>2, <1>3, PTL DEF Spec

-----------------------------------------------------------------------------
(* What the people in a room see *)

\* A concatenation begins with its first piece.
LEMMA FirstPiece ==
  ASSUME NEW x \in Seq(Message), NEW y \in Seq(Message), NEW z \in Seq(Message), NEW i \in DOMAIN x
  PROVE  i \in 1..Len(x \o y \o z) /\ (x \o y \o z)[i] = x[i]
<1>1. Len(x) \in Nat /\ Len(y) \in Nat /\ Len(z) \in Nat /\ i \in 1..Len(x)
  OBVIOUS
<1>2. /\ Len(x \o y) = Len(x) + Len(y)
      /\ \A k \in 1..Len(x) + Len(y) : (x \o y)[k] = IF k <= Len(x) THEN x[k] ELSE y[k - Len(x)]
  BY ConcatEntries
<1>3. i \in 1..Len(x) + Len(y) /\ i <= Len(x) /\ Len(x) + Len(y) \in Nat
  BY <1>1
<1>4. (x \o y)[i] = x[i] /\ i \in 1..Len(x \o y) /\ Len(x \o y) \in Nat
  BY <1>2, <1>3
<1>5. x \o y \in Seq(Message)
  BY ConcatProperties
<1>6. /\ Len((x \o y) \o z) = Len(x \o y) + Len(z)
      /\ \A k \in 1..Len(x \o y) + Len(z) :
            ((x \o y) \o z)[k] = IF k <= Len(x \o y) THEN (x \o y)[k] ELSE z[k - Len(x \o y)]
  BY <1>5, ConcatEntries
<1>7. i \in 1..Len(x \o y) + Len(z) /\ i <= Len(x \o y)
  BY <1>1, <1>4
<1>8. QED
  BY <1>4, <1>6, <1>7

\* What is written to a websocket is the log of its room, entry by entry, from where
\* its connection joined.
LEMMA DeliveredEntry ==
  ASSUME HubInv, NEW c \in Conn, NEW i \in DOMAIN delivered[c]
  PROVE  /\ join[c] + i \in DOMAIN log[room[c]]
         /\ delivered[c][i] = log[room[c]][join[c] + i] /\ delivered[c][i] \in Message
         /\ i \in Nat /\ join[c] \in Nat /\ room[c] \in Room
<1>1. /\ delivered[c] \in Seq(Message) /\ hand[c] \in Seq(Message) /\ send[c] \in Seq(Message)
      /\ join[c] \in Nat /\ room[c] \in Room
  BY DEF HubInv, TypeOK, FeedTypeOK, ConnTypeOK
<1>2. delivered[c][i] \in Message /\ i \in Nat
  BY <1>1
<1>3. i \in 1..Len(Stream(c)) /\ Stream(c)[i] = delivered[c][i]
  BY <1>1, FirstPiece DEF Stream
<1>4. Stream(c) \in Seq(Message) /\ log[room[c]] \in Seq(Message)
  BY StreamType DEF HubInv, TypeOK, FeedTypeOK, ConnTypeOK
<1>5. /\ join[c] + Len(Stream(c)) <= Len(log[room[c]])
      /\ \A k \in 1..Len(Stream(c)) : Stream(c)[k] = log[room[c]][join[c] + k]
  BY DEF HubInv, Follows
<1> DEFINE s == Stream(c)
           feed == log[room[c]]
<1>6. s \in Seq(Message) /\ feed \in Seq(Message) /\ i \in 1..Len(s) /\ join[c] + Len(s) <= Len(feed)
  BY <1>3, <1>4, <1>5
<1> HIDE DEF s, feed
<1>7. join[c] + i \in DOMAIN feed
  <2>1. Len(s) \in Nat /\ Len(feed) \in Nat /\ DOMAIN feed = 1..Len(feed)
    BY <1>6
  <2>2. QED
    BY <1>1, <1>2, <1>6, <2>1
<1>8. QED
  BY <1>1, <1>2, <1>3, <1>5, <1>7 DEF feed

\* A message is in one log, and there once.
LEMMA LogEntry ==
  ASSUME TypeOK, PostedInOrder, NEW r \in Room, NEW p \in DOMAIN log[r],
         NEW q \in Room, NEW o \in DOMAIN log[q], log[r][p] = log[q][o]
  PROVE  r = q /\ p = o
<1>1. log[r] \in Seq(Message) /\ log[q] \in Seq(Message) /\ log[r][p] \in Message
  BY DEF TypeOK, FeedTypeOK
<1>2. r = q
  BY <1>1 DEF PostedInOrder
<1>3. p \in Nat /\ o \in Nat
  BY <1>1
<1>4. log[r][p].num \in Nat
  BY <1>1, MaxSentAssumption DEF Message
<1>5. ~(p < o) /\ ~(o < p)
  BY <1>2, <1>4 DEF PostedInOrder
<1>6. QED
  BY <1>2, <1>3, <1>5

\* Any two people, also of different rooms or one who is evicted, see what they both see
\* in the same order, and nobody sees a message twice.
SameOrder ==
  \A c, d \in Conn : \A i, j \in DOMAIN delivered[c] : \A k, l \in DOMAIN delivered[d] :
    delivered[c][i] = delivered[d][k] /\ delivered[c][j] = delivered[d][l] => (i < j <=> k < l)

\* The one goroutine of the hub orders the messages of a room; neither the arbitrary
\* order in which it visits members nor the pumps that overtake one another can make
\* two members disagree.
THEOREM MembersAgree == Spec => []SameOrder
<1>1. ASSUME HubInv, PostedInOrder PROVE SameOrder
  <2>1. ASSUME NEW c \in Conn, NEW d \in Conn, NEW i \in DOMAIN delivered[c], NEW k \in DOMAIN delivered[d],
               delivered[c][i] = delivered[d][k]
        PROVE  join[c] + i = join[d] + k
    <3>1. /\ join[c] + i \in DOMAIN log[room[c]] /\ delivered[c][i] = log[room[c]][join[c] + i]
          /\ room[c] \in Room
      BY <1>1, DeliveredEntry
    <3>2. /\ join[d] + k \in DOMAIN log[room[d]] /\ delivered[d][k] = log[room[d]][join[d] + k]
          /\ room[d] \in Room
      BY <1>1, DeliveredEntry
    <3>3. log[room[c]][join[c] + i] = log[room[d]][join[d] + k]
      BY <2>1, <3>1, <3>2
    <3>4. QED
      BY <1>1, <3>1, <3>2, <3>3, LogEntry DEF HubInv
  <2>2. ASSUME NEW c \in Conn, NEW d \in Conn, NEW i \in DOMAIN delivered[c], NEW j \in DOMAIN delivered[c],
               NEW k \in DOMAIN delivered[d], NEW l \in DOMAIN delivered[d],
               delivered[c][i] = delivered[d][k], delivered[c][j] = delivered[d][l]
        PROVE  i < j <=> k < l
    <3>1. join[c] + i = join[d] + k /\ join[c] + j = join[d] + l
      BY <2>1, <2>2
    <3>2. join[c] \in Nat /\ join[d] \in Nat /\ i \in Nat /\ j \in Nat /\ k \in Nat /\ l \in Nat
      BY <1>1, DeliveredEntry
    <3>3. QED
      BY <3>1, <3>2
  <2>3. QED
    BY <2>2 DEF SameOrder
<1>2. HubInv /\ PostedInOrder => SameOrder
  BY <1>1
<1>3. QED
  BY <1>2, Inductive, Posted, PTL

\* How far behind the conversation a member can be before it is evicted.
BoundedLag ==
  \A c \in Conn : c \in rooms[room[c]] => Len(log[room[c]]) - join[c] - Len(delivered[c]) <= Cap + 2

\* writePump has at most one message in hand, also one that it could not write.
HandsFew == \A c \in Conn : Len(hand[c]) <= 1

\* Every step keeps it.
LEMMA NextHands == HandsFew /\ HubInv /\ [Next]_vars => HandsFew'
<1> SUFFICES ASSUME HandsFew, HubInv, [Next]_vars, NEW c \in Conn PROVE Len(hand'[c]) <= 1
  BY DEF HandsFew
<1>1. hand \in [Conn -> Seq(Message)] /\ Len(hand[c]) <= 1
  BY DEF HandsFew, HubInv, TypeOK, FeedTypeOK
<1>2. ASSUME NEW d \in Conn, Dequeue(d) PROVE Len(hand'[c]) <= 1
  <2>1. hand'[c] = <<Head(send[d])>> \/ hand'[c] = hand[c]
    BY <1>1, <1>2 DEF Dequeue
  <2>2. Len(<<Head(send[d])>>) = 1 /\ 1 <= 1
    OBVIOUS
  <2>3. CASE hand'[c] = <<Head(send[d])>>
    BY <2>2, <2>3, Zenon
  <2>4. CASE hand'[c] = hand[c]
    BY <1>1, <2>4, Zenon
  <2>5. QED
    BY <2>1, <2>3, <2>4
<1>3. ASSUME NEW d \in Conn, WriteOk(d) PROVE Len(hand'[c]) <= 1
  <2>1. hand'[c] = << >> \/ hand'[c] = hand[c]
    BY <1>1, <1>3 DEF WriteOk
  <2>2. QED
    BY <1>1, <2>1
<1>4. ASSUME NEW d \in Conn, \/ HubStep(d) \/ ReaderStep(d) \/ Serve(d) \/ ReadMessage(d) \/ PeerDrops(d)
                             \/ WriteFails(d) \/ PingFails(d) \/ WriterSeesClose(d)
      PROVE  hand' = hand
  BY <1>4 DEF HubStep, HubRegister, HubUnregister, HubBroadcast, HubSend, HubEvict, ReaderStep, StartPumps,
     ReadFails, CloseSocket, Serve, ReadMessage, PeerDrops, WriteFails, PingFails, WriterSeesClose, WriterStops
<1>5. CASE UNCHANGED vars
  BY <1>1, <1>5 DEF vars, connVars
<1>6. QED
  BY <1>1, <1>2, <1>3, <1>4, <1>5 DEF Next, WriterStep, Quiesced

\* A member lacks no more than a full buffer, the message its writePump has in hand and
\* the one the hub is offering it: memory per member is bounded, however fast others talk.
THEOREM LagIsBounded == Spec => []BoundedLag
<1>1. Init => WithinCap /\ HandsFew
  BY CapAssumption DEF Init, WithinCap, HandsFew
<1>2. ASSUME HubInv, WithinCap, HandsFew, NEW c \in Conn, c \in rooms[room[c]]
      PROVE  Len(log[room[c]]) - join[c] - Len(delivered[c]) <= Cap + 2
  <2>1. /\ delivered[c] \in Seq(Message) /\ hand[c] \in Seq(Message) /\ send[c] \in Seq(Message)
        /\ join[c] \in Nat /\ log[room[c]] \in Seq(Message)
    BY <1>2 DEF HubInv, TypeOK, FeedTypeOK, ConnTypeOK
  <2>2. PICK l \in Nat, k \in Nat, h \in Nat, s \in Nat :
               /\ l = Len(log[room[c]]) /\ k = Len(delivered[c])
               /\ h = Len(hand[c]) /\ s = Len(send[c])
    BY <2>1
  <2>3. join[c] + Len(Stream(c)) = (IF c \in todo THEN l - 1 ELSE l) /\ Len(Stream(c)) = k + h + s
    BY <1>2, <2>2, StreamType DEF HubInv, Follows
  <2>4. h <= 1 /\ s <= Cap
    BY <1>2, <2>2 DEF HandsFew, WithinCap
  <2>5. l - join[c] - k <= Cap + 2
    BY <2>1, <2>3, <2>4, CapAssumption
  <2>6. QED
    BY <2>2, <2>5, Zenon
<1>3. HubInv /\ WithinCap /\ HandsFew => BoundedLag
  BY <1>2 DEF BoundedLag
<1>4. QED
  BY <1>1, <1>3, NextCap, NextHands, Inductive, PTL DEF Spec

\* From the close of its channel on, by eviction or by unregister, a connection gets
\* nothing more from the hub and is not taken in again, while what its writePump has left
\* to write stays in order: nothing of a broadcast under way slips in after the close.
THEOREM ClosedForGood ==
  Spec => [][\A c \in closed : /\ c \in closed' /\ c \notin rooms'[room'[c]]
                               /\ Stream(c)' = Stream(c)]_vars
<1>1. ASSUME HubInv, HubInv', [Next]_vars, NEW c \in closed
      PROVE  c \in closed' /\ c \notin rooms'[room'[c]] /\ Stream(c)' = Stream(c)
  <2>1. c \in Conn /\ send \in [Conn -> Seq(Message)]
    BY <1>1 DEF HubInv, TypeOK, ConnTypeOK, FeedTypeOK
  <2>2. c \in closed' /\ Stream(c)' = Stream(c)
    <3>1. ASSUME NEW d \in Conn, Dequeue(d) \/ WriteOk(d) PROVE c \in closed' /\ Stream(c)' = Stream(c)
      <4>1. closed' = closed
        BY <3>1 DEF Dequeue, WriteOk
      <4>2. QED
        BY <1>1, <2>1, <3>1, <4>1, PumpKeepsStream DEF HubInv
    <3>2. ASSUME NEW d \in Conn, HubSend(d) PROVE c \in closed' /\ Stream(c)' = Stream(c)
      <4>1. d \in todo /\ Visited(d)
        BY <3>2 DEF HubSend
      <4>2. d # c
        BY <1>1, <4>1, LoopFacts
      <4>3. closed' = closed /\ delivered' = delivered /\ hand' = hand /\ send'[c] = send[c]
        BY <2>1, <3>2, <4>2 DEF HubSend, history
      <4>4. QED
        BY <4>3 DEF Stream
    <3>3. ASSUME NEW d \in Conn, \/ HubRegister(d) \/ HubUnregister(d) \/ HubBroadcast(d) \/ HubEvict(d)
                                 \/ ReaderStep(d) \/ Serve(d) \/ ReadMessage(d) \/ PeerDrops(d)
                                 \/ WriteFails(d) \/ PingFails(d) \/ WriterSeesClose(d)
          PROVE  c \in closed' /\ Stream(c)' = Stream(c)
      <4>1. c \in closed' /\ delivered' = delivered /\ hand' = hand /\ send' = send
        BY <3>3 DEF HubRegister, HubUnregister, HubBroadcast, HubEvict, ReaderStep, StartPumps, ReadFails,
           CloseSocket, Serve, ReadMessage, PeerDrops, WriteFails, PingFails, WriterSeesClose, WriterStops,
           history
      <4>2. QED
        BY <4>1 DEF Stream
    <3>4. CASE UNCHANGED vars
      BY <3>4 DEF vars, connVars, history, Stream
    <3>5. QED
      BY <1>1, <3>1, <3>2, <3>3, <3>4 DEF Next, HubStep, WriterStep, Quiesced
  <2>3. c \notin rooms'[room'[c]]
    <3>1. room'[c] \in Room /\ MembersOpen'
      BY <1>1, <2>1 DEF HubInv, TypeOK, ConnTypeOK
    <3>2. QED
      BY <2>2, <3>1 DEF MembersOpen
  <2>4. QED
    BY <2>2, <2>3
<1>2. HubInv /\ HubInv' /\ [Next]_vars =>
      [\A c \in closed : /\ c \in closed' /\ c \notin rooms'[room'[c]]
                         /\ Stream(c)' = Stream(c)]_vars
  BY <1>1
<1>3. QED
  BY <1>2, Inductive, PTL DEF Spec

-----------------------------------------------------------------------------
(* WsHub implements RoomFeed *)

\* Steps that touch no part of the feed but, perhaps, the buffers.
LEMMA FeedStutter ==
  ASSUME UNCHANGED <<log, room, join, delivered, rooms, closed>>,
         \A c \in closed : Len(hand'[c]) + Len(send'[c]) = Len(hand[c]) + Len(send[c]),
         TypeOK, TypeOK'
  PROVE  UNCHANGED Feed!vars
<1>1. feedStatus' = feedStatus
  BY DEF feedStatus
<1>2. feedLimit' = feedLimit
  <2>1. ASSUME NEW c \in Conn, c \in closed
        PROVE  join[c] + Len(delivered[c]) + Len(hand'[c]) + Len(send'[c])
                 = join[c] + Len(delivered[c]) + Len(hand[c]) + Len(send[c])
    <3>1. /\ join[c] \in Nat /\ Len(delivered[c]) \in Nat /\ Len(hand[c]) \in Nat /\ Len(send[c]) \in Nat
          /\ Len(hand'[c]) \in Nat /\ Len(send'[c]) \in Nat
      BY DEF TypeOK, FeedTypeOK
    <3>2. PICK j \in Nat, n \in Nat, h \in Nat, s \in Nat, h1 \in Nat, s1 \in Nat :
                 /\ j = join[c] /\ n = Len(delivered[c]) /\ h = Len(hand[c]) /\ s = Len(send[c])
                 /\ h1 = Len(hand'[c]) /\ s1 = Len(send'[c])
      BY <3>1
    <3>3. h1 + s1 = h + s
      BY <2>1, <3>2
    <3>4. j + n + h1 + s1 = j + n + h + s
      BY <3>3
    <3>5. QED
      BY <3>2, <3>4
  <2>2. QED
    BY <2>1 DEF feedLimit
<1>3. QED
  BY <1>1, <1>2 DEF Feed!vars

\* Closing a member's channel cuts it off where its buffer ends.
LEMMA FeedCut ==
  ASSUME HubInv, NEW d \in Conn, d \in rooms[room[d]], DropMember(d), closed' = closed \union {d},
         UNCHANGED <<log, room, join, delivered, hand, send>>
  PROVE  Feed!Cut(d)
<1> USE DEF HubInv
<1>1. \A r \in Room : rooms'[r] = IF r = room[d] THEN rooms[r] \ {d} ELSE rooms[r]
  BY DropMemberRooms
<1>2. d \notin closed /\ room[d] \in Room
  BY DEF MembersOpen, TypeOK, ConnTypeOK
<1>3. feedStatus[d] = "member"
  BY <1>2 DEF feedStatus
<1>4. feedStatus' = [feedStatus EXCEPT ![d] = "cut"]
  <2>1. ASSUME NEW c \in Conn, c # d
        PROVE  (c \in closed' <=> c \in closed) /\ (c \in rooms'[room[c]] <=> c \in rooms[room[c]])
    BY <1>1, <2>1 DEF TypeOK, ConnTypeOK
  <2>2. QED
    BY <1>2, <2>1 DEF feedStatus
<1> DEFINE n == join[d] + Len(delivered[d]) + Len(hand[d]) + Len(send[d])
<1>5. n \in Feed!NextIndex(d) - 1 .. Len(log[room[d]])
  <2>1. /\ join[d] \in Nat /\ Len(delivered[d]) \in Nat /\ Len(hand[d]) \in Nat /\ Len(send[d]) \in Nat
        /\ Len(log[room[d]]) \in Nat
    BY DEF TypeOK, FeedTypeOK, ConnTypeOK
  <2>2. join[d] + Len(Stream(d)) <= Len(log[room[d]])
    BY DEF Follows
  <2>3. Len(Stream(d)) = Len(delivered[d]) + Len(hand[d]) + Len(send[d])
    BY StreamType
  <2>4. PICK j \in Nat, k \in Nat, h \in Nat, s \in Nat, l \in Nat :
               /\ j = join[d] /\ k = Len(delivered[d]) /\ h = Len(hand[d]) /\ s = Len(send[d])
               /\ l = Len(log[room[d]])
    BY <2>1
  <2>5. j + (k + h + s) <= l
    BY <2>2, <2>3, <2>4
  <2>6. j + k + h + s \in j + k + 1 - 1 .. l
    BY <2>5
  <2>7. QED
    BY <2>4, <2>6 DEF Feed!NextIndex
<1>6. feedLimit' = [feedLimit EXCEPT ![d] = n]
  BY DEF feedLimit
<1>7. QED
  BY <1>3, <1>4, <1>5, <1>6 DEF Feed!Cut

\* A write takes the connection one message further in the log.
LEMMA FeedReceive ==
  ASSUME HubInv, HubInv', NEW d \in Conn, WriteOk(d)
  PROVE  Feed!Receive(d)
<1> USE DEF HubInv
<1> DEFINE feed == log[room[d]]
           k == Len(delivered[d])
<1>1. /\ UNCHANGED <<log, room, join, rooms, closed, send>>
      /\ wpc[d] = "write"
      /\ delivered' = [delivered EXCEPT ![d] = @ \o hand[d]] /\ hand' = [hand EXCEPT ![d] = <<>>]
  BY DEF WriteOk, hubVars
<1>2. /\ join[d] \in Nat /\ delivered[d] \in Seq(Message) /\ hand[d] \in Seq(Message) /\ send[d] \in Seq(Message)
      /\ feed \in Seq(Message) /\ Len(hand[d]) = 1
  BY <1>1 DEF TypeOK, FeedTypeOK, ConnTypeOK, OneInHand
<1>3. /\ Stream(d) = (delivered[d] \o hand[d]) \o send[d]
      /\ Len(Stream(d)) = k + 1 + Len(send[d])
  BY <1>2, StreamType DEF Stream
<1>4. /\ join[d] + Len(Stream(d)) <= Len(feed)
      /\ \A i \in 1..Len(Stream(d)) : Stream(d)[i] = feed[join[d] + i]
  BY DEF Follows
<1>5. Stream(d)[k + 1] = hand[d][1]
  <2>1. PICK x \in Seq(Message), y \in Seq(Message), z \in Seq(Message) :
               x = delivered[d] /\ y = hand[d] /\ z = send[d]
    BY <1>2
  <2>2. /\ x \o y \in Seq(Message) /\ Len(x \o y) = Len(x) + Len(y)
        /\ \A i \in 1 .. Len(x) + Len(y) : (x \o y)[i] = IF i <= Len(x) THEN x[i] ELSE y[i - Len(x)]
    BY ConcatProperties
  <2>3. /\ \A i \in 1 .. Len(x \o y) + Len(z) : ((x \o y) \o z)[i] = IF i <= Len(x \o y) THEN (x \o y)[i] ELSE z[i - Len(x \o y)]
    BY <2>2, ConcatProperties
  <2>4. Len(y) = 1 /\ Len(x) \in Nat /\ Len(z) \in Nat
    BY <1>2, <2>1
  <2>5. (x \o y)[Len(x) + 1] = y[1]
    BY <2>2, <2>4
  <2>6. ((x \o y) \o z)[Len(x) + 1] = (x \o y)[Len(x) + 1]
    BY <2>2, <2>3, <2>4
  <2>7. QED
    BY <1>3, <2>1, <2>5, <2>6
<1>6. PICK j \in Nat, a \in Nat, s \in Nat, l \in Nat :
             j = join[d] /\ a = k /\ s = Len(send[d]) /\ l = Len(feed)
  BY <1>2
<1>7. hand[d][1] = feed[join[d] + k + 1]
  <2>1. a + 1 \in 1..a + 1 + s
    OBVIOUS
  <2>2. Stream(d)[a + 1] = feed[j + (a + 1)]
    BY <1>3, <1>4, <1>6, <2>1
  <2>3. j + (a + 1) = j + a + 1
    OBVIOUS
  <2>4. QED
    BY <1>5, <1>6, <2>2, <2>3
<1>8. delivered' = [delivered EXCEPT ![d] = Append(@, feed[Feed!NextIndex(d)])]
  <2>1. PICK x \in Seq(Message), y \in Seq(Message) : x = delivered[d] /\ y = hand[d]
    BY <1>2
  <2>2. y = <<y[1]>> /\ y[1] \in Message
    BY <1>2, <2>1
  <2>3. x \o y = Append(x, y[1])
    BY <2>2, AppendIsConcat
  <2>4. Feed!NextIndex(d) = join[d] + k + 1
    BY DEF Feed!NextIndex
  <2>5. QED
    BY <1>1, <1>7, <2>1, <2>3, <2>4
<1>9. Feed!NextIndex(d) <= Len(feed) /\ (feedStatus[d] = "cut" => Feed!NextIndex(d) <= feedLimit[d])
  <2>1. Feed!NextIndex(d) = join[d] + k + 1
    BY DEF Feed!NextIndex
  <2>2. j + (a + 1 + s) <= l
    BY <1>3, <1>4, <1>6
  <2>3. j + a + 1 <= l /\ j + a + 1 <= j + a + 1 + s
    BY <2>2
  <2>4. feedStatus[d] = "cut" => feedLimit[d] = j + a + 1 + s
    BY <1>2, <1>6 DEF feedStatus, feedLimit
  <2>5. QED
    BY <1>6, <2>1, <2>3, <2>4
<1>10. feedStatus[d] # "outside"
  <2>1. rpc[d] \notin {"new", "register"}
    BY <1>1 DEF Joining
  <2>2. QED
    BY <2>1 DEF Joining, feedStatus
<1>11. feedStatus' = feedStatus
  BY <1>1 DEF feedStatus
<1>12. feedLimit' = feedLimit
  <2>1. Len(delivered'[d]) + Len(hand'[d]) = k + 1 /\ Len(hand'[d]) \in Nat /\ Len(delivered'[d]) \in Nat
    <3>1. delivered'[d] = delivered[d] \o hand[d] /\ hand'[d] = <<>>
      BY <1>1 DEF TypeOK, FeedTypeOK
    <3>2. PICK x \in Seq(Message), y \in Seq(Message) : x = delivered[d] /\ y = hand[d]
      BY <1>2
    <3>3. Len(x \o y) = Len(x) + Len(y)
      BY ConcatProperties
    <3>4. Len(x) \in Nat /\ Len(y) = 1 /\ Len(x \o y) = Len(x) + 1
      BY <1>2, <3>2, <3>3
    <3>5. QED
      BY <3>1, <3>2, <3>4
  <2>2. \A c \in Conn : c # d => delivered'[c] = delivered[c] /\ hand'[c] = hand[c]
    BY <1>1 DEF TypeOK, FeedTypeOK
  <2>3. join[d] + Len(delivered'[d]) + Len(hand'[d]) + Len(send[d]) = join[d] + k + Len(hand[d]) + Len(send[d])
    <3>1. PICK p \in Nat, q \in Nat : p = Len(delivered'[d]) /\ q = Len(hand'[d])
      BY <2>1
    <3>2. p + q = a + 1
      BY <1>6, <2>1, <3>1
    <3>3. j + p + q + s = j + a + 1 + s
      BY <3>2
    <3>4. QED
      BY <1>2, <1>6, <3>1, <3>3
  <2>4. ASSUME NEW c \in Conn
        PROVE  join[c] + Len(delivered'[c]) + Len(hand'[c]) + Len(send[c])
                 = join[c] + Len(delivered[c]) + Len(hand[c]) + Len(send[c])
    BY <2>2, <2>3
  <2>5. QED
    BY <1>1, <2>4 DEF feedLimit
<1>13. QED
  BY <1>1, <1>8, <1>9, <1>10, <1>11, <1>12 DEF Feed!Receive

\* Every step of the hub, a pump or the network is a step of the feed, or none.
LEMMA FeedStep == HubInv /\ HubInv' /\ [Next]_vars => [Feed!Next]_(Feed!vars)
<1> SUFFICES ASSUME HubInv, HubInv', [Next]_vars PROVE Feed!Next \/ UNCHANGED Feed!vars
  BY DEF Feed!vars
<1> TypeOK /\ TypeOK'
  BY DEF HubInv
<1>1. ASSUME NEW d \in Conn, HubRegister(d) PROVE Feed!Join(d)
  <2>1. /\ UNCHANGED <<room, closed, log, delivered, hand, send>>
        /\ rooms' = [rooms EXCEPT ![room[d]] = @ \union {d}]
        /\ rpc[d] = "register" /\ join' = [join EXCEPT ![d] = Len(log[room[d]])]
    BY <1>1 DEF HubRegister
  <2>2. d \notin closed /\ room[d] \in Room /\ d \notin rooms[room[d]]
    BY <2>1 DEF HubInv, Joining, MembersOpen, TypeOK, ConnTypeOK
  <2>3. feedStatus[d] = "outside"
    BY <2>2 DEF feedStatus
  <2>4. feedStatus' = [feedStatus EXCEPT ![d] = "member"]
    <3>1. d \in rooms'[room[d]]
      BY <2>1, <2>2 DEF TypeOK, HubTypeOK
    <3>2. \A c \in Conn : c # d => (c \in rooms'[room[c]] <=> c \in rooms[room[c]])
      BY <2>1, <2>2 DEF TypeOK, HubTypeOK, ConnTypeOK
    <3>3. QED
      BY <2>1, <2>2, <3>1, <3>2 DEF feedStatus
  <2>5. feedLimit' = feedLimit
    <3>1. \A c \in closed : c # d
      BY <2>2
    <3>2. \A c \in closed : join'[c] = join[c]
      BY <2>1, <3>1 DEF TypeOK, FeedTypeOK, ConnTypeOK
    <3>3. QED
      BY <2>1, <3>2 DEF feedLimit
  <2>6. QED
    BY <2>1, <2>3, <2>4, <2>5 DEF Feed!Join
<1>2. ASSUME NEW d \in Conn, HubUnregister(d) PROVE Feed!Cut(d) \/ UNCHANGED Feed!vars
  <2>1. UNCHANGED <<log, room, join, delivered, hand, send>>
    BY <1>2 DEF HubUnregister, history
  <2>2. CASE room[d] \in present /\ d \in rooms[room[d]]
    BY <1>2, <2>1, <2>2, FeedCut DEF HubUnregister
  <2>3. CASE ~(room[d] \in present /\ d \in rooms[room[d]])
    <3>1. UNCHANGED <<rooms, closed>>
      BY <1>2, <2>3 DEF HubUnregister
    <3>2. QED
      BY <2>1, <3>1, FeedStutter
  <2>4. QED
    BY <2>2, <2>3
<1>3. ASSUME NEW d \in Conn, HubBroadcast(d) PROVE Feed!Post(room[d], LastRead(d))
  <2>1. /\ UNCHANGED <<rooms, room, closed, join, delivered, hand, send>>
        /\ log' = [log EXCEPT ![room[d]] = Append(@, LastRead(d))]
    BY <1>3 DEF HubBroadcast
  <2>2. UNCHANGED <<feedStatus, feedLimit>>
    BY <2>1 DEF feedStatus, feedLimit
  <2>3. QED
    BY <2>1, <2>2 DEF Feed!Post
<1>4. ASSUME NEW d \in Conn PROVE LastRead(d) \in Message /\ room[d] \in Room
  BY DEF LastRead, Message, TypeOK, ConnTypeOK
<1>5. ASSUME NEW d \in Conn, HubSend(d) PROVE UNCHANGED Feed!vars
  <2>1. /\ UNCHANGED <<rooms, room, closed, log, join, delivered, hand>>
        /\ send' = [send EXCEPT ![d] = @ \o m] /\ d \in todo /\ Visited(d)
    BY <1>5 DEF HubSend, history
  <2>2. d \notin closed
    BY <2>1, LoopFacts
  <2>3. \A c \in closed : send'[c] = send[c]
    BY <2>1, <2>2 DEF TypeOK, FeedTypeOK, ConnTypeOK
  <2>4. QED
    BY <2>1, <2>3, FeedStutter
<1>6. ASSUME NEW d \in Conn, HubEvict(d) PROVE Feed!Cut(d)
  <2>1. /\ UNCHANGED <<room, send, log, join, delivered, hand>>
        /\ d \in todo /\ Visited(d) /\ DropMember(d) /\ closed' = closed \union {d}
    BY <1>6 DEF HubEvict, history
  <2>2. d \in rooms[room[d]]
    BY <2>1, LoopFacts
  <2>3. QED
    BY <2>1, <2>2, FeedCut
<1>7. ASSUME NEW d \in Conn, Serve(d) \/ ReaderStep(d) \/ ReadMessage(d) \/ PeerDrops(d) \/ WriterStops(d)
      PROVE  UNCHANGED Feed!vars
  <2>1. UNCHANGED <<log, room, join, delivered, rooms, closed, hand, send>>
    BY <1>7 DEF Serve, ReaderStep, StartPumps, ReadFails, CloseSocket, ReadMessage, PeerDrops,
       WriterStops,
                hubVars, history
  <2>2. QED
    BY <2>1, FeedStutter
<1>8. ASSUME NEW d \in Conn, Dequeue(d) PROVE UNCHANGED Feed!vars
  <2>1. /\ UNCHANGED <<log, room, join, delivered, rooms, closed>>
        /\ hand' = [hand EXCEPT ![d] = <<Head(send[d])>>] /\ send' = [send EXCEPT ![d] = Tail(@)]
        /\ hand[d] = <<>> /\ send[d] # <<>>
    BY <1>8 DEF Dequeue, HubInv, OneInHand, hubVars, history
  <2>2. Len(hand'[d]) = 1 /\ Len(send'[d]) = Len(send[d]) - 1 /\ Len(hand[d]) = 0 /\ Len(send[d]) \in Nat
    BY <2>1 DEF TypeOK, FeedTypeOK
  <2>3. \A c \in Conn : c # d => hand'[c] = hand[c] /\ send'[c] = send[c]
    BY <2>1 DEF TypeOK, FeedTypeOK
  <2>4. Len(hand'[d]) + Len(send'[d]) = Len(hand[d]) + Len(send[d])
    <3>1. PICK s \in Nat : s = Len(send[d])
      BY <2>2
    <3>2. 1 + (s - 1) = 0 + s
      OBVIOUS
    <3>3. QED
      BY <2>2, <3>1, <3>2
  <2>5. \A c \in closed : Len(hand'[c]) + Len(send'[c]) = Len(hand[c]) + Len(send[c])
    BY <2>3, <2>4 DEF TypeOK, ConnTypeOK
  <2>6. QED
    BY <2>1, <2>5, FeedStutter
<1>9. ASSUME NEW d \in Conn, WriteOk(d) PROVE Feed!Receive(d)
  BY <1>9, FeedReceive
<1>10. CASE UNCHANGED vars
  <2>1. UNCHANGED <<log, room, join, delivered, rooms, closed, hand, send>>
    BY <1>10 DEF vars, hubVars, connVars, history
  <2>2. QED
    BY <2>1, FeedStutter
<1>11. ASSUME NEW d \in Conn, HubStep(d) PROVE Feed!Next \/ UNCHANGED Feed!vars
  BY <1>11, <1>1, <1>2, <1>3, <1>4, <1>5, <1>6 DEF HubStep, Feed!Next
<1>12. ASSUME NEW d \in Conn, WriterStep(d) PROVE Feed!Next \/ UNCHANGED Feed!vars
  BY <1>12, <1>7, <1>8, <1>9 DEF WriterStep, WriteFails, PingFails, WriterSeesClose, Feed!Next
<1>13. QED
  BY <1>7, <1>10, <1>11, <1>12 DEF Next, Quiesced

\* The hub, its pumps and the network together implement a feed per room: all
\* members of a room get the same messages in the same order, from where they
\* joined, and nothing that is posted after they were cut off.
THEOREM Implements == Spec => ImplementsFeed
<1>1. Init => Feed!Init
  BY DEF Init, Feed!Init, feedStatus, feedLimit
<1>2. QED
  BY <1>1, Inductive, FeedStep, PTL DEF Spec, ImplementsFeed, Feed!Spec
=============================================================================
