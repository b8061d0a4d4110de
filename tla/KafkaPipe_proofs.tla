-------------------------- MODULE KafkaPipe_proofs --------------------------
(***************************************************************************)
(* Proofs about KafkaPipe, for any senders, topics and number of ends of   *)
(* the process and of sessions.  LostOnlyInHand is not inductive: a        *)
(* consumer takes the committed offset for its position, so what a commit  *)
(* may have taken in must be bounded by what was read (OffsetsOrdered).    *)
(***************************************************************************)
EXTENDS KafkaPipe, TLAPS

\* Neither the offset store nor the broker is ahead of what was handed over.
OffsetsOrdered == \A t \in Topic : stored[t] <= pos[t] /\ committed[t] <= pos[t]

\* A message is in the queue of at most one producer, and that as long as its sender
\* waits without a report: whoever waits for a report has a producer that owes it.
Queued ==
  \A s \in Sender :
    /\ spc[s] \in {"idle", "make", "use"} => report[s] = "none"
    /\ spc[s] = "wait" /\ report[s] = "none" => \E p \in Sender : s \in queue[p]
    /\ s \in sent => spc[s] \in {"wait", "done", "dead"}
    /\ \A p \in Sender : s \in queue[p] =>
         /\ spc[s] = "wait" /\ report[s] = "none"
         /\ \A r \in Sender : s \in queue[r] => r = p

PipeInv == TypeOK /\ OffsetsOrdered /\ ReportedBeforeReturn /\ LostOnlyInHand /\ Queued

\* Every step keeps the types.
LEMMA TypeStep == ASSUME TypeOK, [Next]_vars PROVE TypeOK'
<1> USE SendersAssumption, BoundsAssumption DEF TypeOK, sending, consuming, upsets
<1>1. ASSUME Restart PROVE TypeOK'
  BY <1>1 DEF Restart, StartOffset
<1>2. ASSUME NEW s \in Sender, GetProducer(s) PROVE TypeOK'
  BY <1>2 DEF GetProducer
<1>3. ASSUME NEW s \in Sender, MakeProducer(s) \/ MakeFails(s) PROVE TypeOK'
  BY <1>3 DEF MakeProducer, MakeFails
<1>4. ASSUME NEW s \in Sender, Produce(s) \/ ProduceFails(s) PROVE TypeOK'
  <2>1. CASE Produce(s)
    <3>1. queue' \in [Sender -> SUBSET Sender]
      BY <2>1 DEF Produce
    <3>2. spc' \in [Sender -> {"idle", "make", "use", "wait", "done", "error", "dead"}]
      BY <2>1 DEF Produce
    <3>3. sent' \in SUBSET Sender /\ UNCHANGED <<topic, prod, report, log, consuming, committed, upsets>>
      BY <2>1 DEF Produce
    <3>4. QED
      BY <3>1, <3>2, <3>3
  <2>2. CASE ProduceFails(s)
    BY <2>2 DEF ProduceFails
  <2>3. QED
    BY <1>4, <2>1, <2>2
<1>5. ASSUME NEW s \in Sender, NilProducer(s) PROVE TypeOK'
  BY <1>1, <1>5 DEF NilProducer
<1>6. ASSUME NEW s \in Sender, Return(s) PROVE TypeOK'
  BY <1>6 DEF Return
<1>7. ASSUME NEW s \in Sender, Store(s) PROVE TypeOK'
  <2>1. log' \in [Topic -> Seq(Sender)]
    <3>1. topic[s] \in Topic /\ log \in [Topic -> Seq(Sender)]
      OBVIOUS
    <3>2. PICK l \in Seq(Sender) : l = log[topic[s]]
      BY <3>1
    <3>3. log' = [log EXCEPT ![topic[s]] = Append(l, s)] /\ Append(l, s) \in Seq(Sender)
      BY <1>7, <3>2 DEF Store
    <3>4. QED
      BY <3>1, <3>3
  <2>2. UNCHANGED <<sending, consuming, committed, upsets>>
    BY <1>7 DEF Store
  <2>3. QED
    BY <2>1, <2>2
<1>8. ASSUME NEW p \in Sender, NEW s \in Sender, Report(p, s) PROVE TypeOK'
  BY <1>8 DEF Report
<1>9. ASSUME NEW t \in Topic, ReadMessage(t) PROVE TypeOK'
  <2>1. PICK n \in Nat : n = pos[t] + 1
    OBVIOUS
  <2>2. /\ pos' = [pos EXCEPT ![t] = n] /\ stored' = [stored EXCEPT ![t] = n]
        /\ hand' = [hand EXCEPT ![t] = {n}]
    BY <1>9, <2>1 DEF ReadMessage
  <2>3. pos' \in [Topic -> Nat] /\ stored' \in [Topic -> Nat]
    BY <2>2
  <2>4. hand' \in [Topic -> SUBSET Nat] /\ \A u \in Topic : \A i, j \in hand'[u] : i = j
    BY <2>2
  <2>5. UNCHANGED <<sending, log, con, committed, handled, upsets>>
    BY <1>9 DEF ReadMessage
  <2>6. QED
    BY <2>3, <2>4, <2>5
<1>10. ASSUME NEW t \in Topic, HandlerReturns(t) PROVE TypeOK'
  BY <1>10 DEF HandlerReturns
<1>11. ASSUME NEW t \in Topic, Commit(t) PROVE TypeOK'
  BY <1>11 DEF Commit
<1>12. ASSUME NEW t \in Topic, Start(t) \/ Assign(t) PROVE TypeOK'
  <2>1. con' \in [Topic -> {"new", "gone", "joining", "reading"}]
    <3>1. PICK v \in {"gone", "joining", "reading"} : con' = [con EXCEPT ![t] = v]
      BY <1>12 DEF Start, Subscribe, NoConsumer, Assign
    <3>2. QED
      BY <3>1
  <2>2. pos' \in [Topic -> Nat] /\ stored' \in [Topic -> Nat]
    <3>1. CASE Start(t)
      BY <3>1 DEF Start, Subscribe, NoConsumer
    <3>2. CASE Assign(t)
      <4>1. PICK n \in Nat : pos' = [pos EXCEPT ![t] = n] /\ stored' = [stored EXCEPT ![t] = 0]
        BY <3>2 DEF Assign, StartOffset
      <4>2. QED
        BY <4>1
    <3>3. QED
      BY <1>12, <3>1, <3>2
  <2>3. UNCHANGED <<sending, log, hand, handled, committed, upsets>>
    BY <1>12 DEF Start, Subscribe, NoConsumer, Assign
  <2>4. QED
    BY <2>1, <2>2, <2>3
<1>13. ASSUME NEW t \in Topic, Revoke(t) PROVE TypeOK'
  <2>1. committed' \in [Topic -> Nat] /\ stored' \in [Topic -> Nat] /\ lapsed' \in SUBSET Topic
    BY <1>13 DEF Revoke
  <2>2. con' \in [Topic -> {"new", "gone", "joining", "reading"}] /\ revokes' \in 0..MaxRevokes
    BY <1>13 DEF Revoke
  <2>3. UNCHANGED <<sending, log, pos, hand, crashes, handled, caught>>
    BY <1>13 DEF Revoke
  <2>4. QED
    BY <2>1, <2>2, <2>3
<1>14. ASSUME UNCHANGED vars PROVE TypeOK'
  BY <1>14 DEF vars
<1>15. QED
  BY <1>1, <1>2, <1>3, <1>4, <1>5, <1>6, <1>7, <1>8, <1>9, <1>10, <1>11, <1>12, <1>13, <1>14
     DEF Next, Broker, ReportOn, SendMessage, Consume

\* A message in a partition stays there: partitions only grow.
LEMMA LogGrows ==
  ASSUME TypeOK, [Next]_vars, NEW k \in Sender, InLog(k)
  PROVE  InLog(k)' /\ topic' = topic
<1> USE DEF sending, consuming, upsets
<1>1. ASSUME NEW s \in Sender, Store(s) PROVE InLog(k)' /\ topic' = topic
  <2>1. topic' = topic /\ topic[k] \in Topic /\ topic[s] \in Topic
    BY <1>1 DEF Store, TypeOK
  <2>2. log' = [log EXCEPT ![topic[s]] = Append(@, s)] /\ log \in [Topic -> Seq(Sender)]
    BY <1>1 DEF Store, TypeOK
  <2>3. PICK l \in Seq(Sender) : l = log[topic[k]]
    BY <2>1, <2>2
  <2>4. log'[topic[k]] = l \/ log'[topic[k]] = Append(l, s)
    BY <2>1, <2>2, <2>3
  <2>5. PICK i \in 1..Len(l) : l[i] = k
    BY <2>3 DEF InLog
  <2>6. i \in 1..Len(log'[topic[k]]) /\ log'[topic[k]][i] = k
    BY <2>4, <2>5
  <2>7. QED
    BY <2>1, <2>6 DEF InLog
<1>2. ASSUME topic' = topic, log' = log PROVE InLog(k)' /\ topic' = topic
  BY <1>2 DEF InLog
<1>3. CASE Broker \/ Restart
  BY <1>1, <1>2, <1>3 DEF Broker, ReportOn, Report, Restart
<1>4. ASSUME NEW s \in Sender, SendMessage(s) PROVE InLog(k)' /\ topic' = topic
  BY <1>2, <1>4
     DEF SendMessage, GetProducer, MakeProducer, MakeFails, Produce, ProduceFails, NilProducer, Return, Restart
<1>5. ASSUME NEW t \in Topic, Consume(t) PROVE InLog(k)' /\ topic' = topic
  BY <1>2, <1>5 DEF Consume, Start, Subscribe, NoConsumer, Assign, Revoke, ReadMessage, HandlerReturns, Commit
<1>6. CASE UNCHANGED vars
  BY <1>2, <1>6 DEF vars
<1>7. QED
  BY <1>3, <1>4, <1>5, <1>6 DEF Next

\* A report is final; it says delivered only of what is in the partition, and only
\* its arrival lets SendMessage return.
LEMMA ReportStep ==
  ASSUME TypeOK, [Next]_vars, NEW k \in Sender
  PROVE  /\ report'[k] # "none" \/ report'[k] = report[k]
         /\ report'[k] = "delivered" => report[k] = "delivered" \/ InLog(k)
         /\ spc'[k] = "done" => spc[k] = "done" \/ report[k] # "none"
<1> DEFINE Goal == /\ report'[k] # "none" \/ report'[k] = report[k]
                   /\ report'[k] = "delivered" => report[k] = "delivered" \/ InLog(k)
                   /\ spc'[k] = "done" => spc[k] = "done" \/ report[k] # "none"
<1> SUFFICES Goal
  OBVIOUS
<1> USE DEF TypeOK, sending, consuming, upsets
<1>1. ASSUME Restart PROVE Goal
  BY <1>1 DEF Restart
<1>2. ASSUME NEW s \in Sender, SendMessage(s) PROVE Goal
  <2>1. CASE NilProducer(s)
    BY <1>1, <2>1 DEF NilProducer
  <2>2. CASE Return(s)
    BY <2>2 DEF Return
  <2>3. CASE GetProducer(s)
    BY <2>3 DEF GetProducer
  <2>4. CASE MakeProducer(s) \/ MakeFails(s)
    BY <2>4 DEF MakeProducer, MakeFails
  <2>5. CASE Produce(s) \/ ProduceFails(s)
    BY <2>5 DEF Produce, ProduceFails
  <2>6. QED
    BY <1>2, <2>1, <2>2, <2>3, <2>4, <2>5 DEF SendMessage
<1>3. ASSUME NEW p \in Sender, NEW s \in Sender, Store(s) \/ Report(p, s) PROVE Goal
  BY <1>3 DEF Store, Report
<1>4. ASSUME NEW t \in Topic, Consume(t) PROVE Goal
  BY <1>4 DEF Consume, Start, Subscribe, NoConsumer, Assign, Revoke, ReadMessage, HandlerReturns, Commit
<1>5. CASE UNCHANGED vars
  BY <1>5 DEF vars
<1>6. QED
  BY <1>1, <1>2, <1>3, <1>4, <1>5 DEF Next, Broker, ReportOn

\* What one step does to the offsets of a topic.
LEMMA OffsetStep ==
  ASSUME PipeInv, [Next]_vars, NEW t \in Topic
  PROVE  /\ stored'[t] <= pos'[t] /\ committed'[t] <= pos'[t]
         /\ 1..pos'[t] \subseteq handled'[t] \union caught'[t] \union hand'[t]
<1> DEFINE Goal == /\ stored'[t] <= pos'[t] /\ committed'[t] <= pos'[t]
                   /\ 1..pos'[t] \subseteq handled'[t] \union caught'[t] \union hand'[t]
<1> SUFFICES Goal
  OBVIOUS
<1> USE DEF PipeInv, TypeOK, OffsetsOrdered, LostOnlyInHand, sending, consuming, upsets
<1>1. ASSUME Restart PROVE Goal
  BY <1>1 DEF Restart, StartOffset
<1>2. ASSUME NEW s \in Sender, SendMessage(s) PROVE Goal
  BY <1>1, <1>2
     DEF SendMessage, GetProducer, MakeProducer, MakeFails, Produce, ProduceFails, NilProducer, Return
<1>3. ASSUME NEW p \in Sender, NEW s \in Sender, Store(s) \/ Report(p, s) PROVE Goal
  BY <1>3 DEF Store, Report
<1>4. ASSUME NEW u \in Topic, ReadMessage(u) PROVE Goal
  <2>1. CASE u # t
    <3>1. pos'[t] = pos[t] /\ stored'[t] = stored[t] /\ hand'[t] = hand[t]
      BY <1>4, <2>1 DEF ReadMessage
    <3>2. con' = con /\ committed' = committed /\ handled' = handled /\ caught' = caught
      BY <1>4 DEF ReadMessage
    <3>3. QED
      BY <3>1, <3>2
  <2>2. CASE u = t
    <3>1. PICK n \in Nat : n = pos[t]
      OBVIOUS
    <3>2. pos'[t] = n + 1 /\ stored'[t] = n + 1 /\ hand'[t] = {n + 1} /\ con'[t] = "reading"
      BY <1>4, <2>2, <3>1 DEF ReadMessage
    <3>3. committed' = committed /\ handled' = handled /\ caught' = caught /\ hand[t] = {}
      BY <1>4, <2>2 DEF ReadMessage
    <3>4. 1..n \subseteq handled[t] \union caught[t] /\ committed[t] <= n /\ committed[t] \in Nat
      BY <3>1, <3>3
    <3>5. 1..(n + 1) \subseteq handled[t] \union caught[t] \union {n + 1}
      BY <3>4
    <3>6. QED
      BY <3>1, <3>2, <3>3, <3>4, <3>5
  <2>3. QED
    BY <2>1, <2>2
<1>5. ASSUME NEW u \in Topic, HandlerReturns(u) PROVE Goal
  BY <1>5 DEF HandlerReturns
<1>6. ASSUME NEW u \in Topic, Commit(u) PROVE Goal
  BY <1>6 DEF Commit
<1>7. ASSUME NEW u \in Topic, Start(u) \/ Assign(u) PROVE Goal
  <2>1. /\ UNCHANGED <<hand, handled, committed, caught>>
        /\ \/ pos'[t] = pos[t] /\ stored'[t] = stored[t]
           \/ pos'[t] = committed[t] /\ stored'[t] = 0
    BY <1>7 DEF Start, Subscribe, NoConsumer, Assign, StartOffset
  <2>2. 1..committed[t] \subseteq 1..pos[t]
    OBVIOUS
  <2>3. QED
    BY <2>1, <2>2
<1>8. ASSUME NEW u \in Topic, Revoke(u) PROVE Goal
  BY <1>8 DEF Revoke
<1>9. CASE UNCHANGED vars
  BY <1>9 DEF vars
<1>10. QED
  BY <1>1, <1>2, <1>3, <1>4, <1>5, <1>6, <1>7, <1>8, <1>9 DEF Next, Broker, ReportOn, Consume

\* What one step does to the queues, seen from one sender.
LEMMA QueueStep ==
  ASSUME PipeInv, [Next]_vars, NEW k \in Sender
  PROVE  /\ spc'[k] \in {"idle", "make", "use"} => report'[k] = "none"
         /\ spc'[k] = "wait" /\ report'[k] = "none" => \E p \in Sender : k \in queue'[p]
         /\ k \in sent' => spc'[k] \in {"wait", "done", "dead"}
         /\ \A p \in Sender : k \in queue'[p] =>
              /\ spc'[k] = "wait" /\ report'[k] = "none"
              /\ \A r \in Sender : k \in queue'[r] => r = p
<1> DEFINE Goal == /\ spc'[k] \in {"idle", "make", "use"} => report'[k] = "none"
                   /\ spc'[k] = "wait" /\ report'[k] = "none" => \E p \in Sender : k \in queue'[p]
                   /\ k \in sent' => spc'[k] \in {"wait", "done", "dead"}
                   /\ \A p \in Sender : k \in queue'[p] =>
                        /\ spc'[k] = "wait" /\ report'[k] = "none"
                        /\ \A r \in Sender : k \in queue'[r] => r = p
<1> SUFFICES Goal
  OBVIOUS
<1>0. /\ spc \in [Sender -> {"idle", "make", "use", "wait", "done", "error", "dead"}]
      /\ queue \in [Sender -> SUBSET Sender]
      /\ report \in [Sender -> {"none", "delivered", "failed"}]
      /\ prod \in Sender \union {NoProducer}
      /\ Queued
  BY DEF PipeInv, TypeOK
<1> USE DEF Queued, sending, consuming, upsets
<1>1. ASSUME Restart PROVE Goal
  BY <1>0, <1>1 DEF Restart
<1>2. ASSUME NEW s \in Sender, SendMessage(s) PROVE Goal
  <2>1. CASE NilProducer(s)
    BY <1>0, <1>1, <2>1 DEF NilProducer
  <2>2. CASE Return(s)
    BY <1>0, <2>2 DEF Return
  <2>3. CASE GetProducer(s)
    BY <1>0, <2>3 DEF GetProducer
  <2>4. CASE MakeProducer(s) \/ MakeFails(s)
    BY <1>0, <2>4 DEF MakeProducer, MakeFails
  <2>5. CASE Produce(s)
    BY <1>0, <2>5 DEF Produce
  <2>6. CASE ProduceFails(s)
    BY <1>0, <2>6 DEF ProduceFails
  <2>7. QED
    BY <1>2, <2>1, <2>2, <2>3, <2>4, <2>5, <2>6 DEF SendMessage
<1>3. ASSUME NEW s \in Sender, Store(s) PROVE Goal
  BY <1>0, <1>3 DEF Store
<1>4. ASSUME NEW p \in Sender, NEW s \in Sender, Report(p, s) PROVE Goal
  BY <1>0, <1>4 DEF Report
<1>5. ASSUME NEW t \in Topic, Consume(t) PROVE Goal
  BY <1>0, <1>5 DEF Consume, Start, Subscribe, NoConsumer, Assign, Revoke, ReadMessage, HandlerReturns, Commit
<1>6. CASE UNCHANGED vars
  BY <1>0, <1>6 DEF vars
<1>7. QED
  BY <1>1, <1>2, <1>3, <1>4, <1>5, <1>6 DEF Next, Broker, ReportOn

\* The inductive invariant of the pipe.
THEOREM Inductive == Spec => []PipeInv
<1>1. Init => PipeInv
  BY SendersAssumption, BoundsAssumption
     DEF Init, PipeInv, TypeOK, OffsetsOrdered, ReportedBeforeReturn, LostOnlyInHand, Queued
<1>2. PipeInv /\ [Next]_vars => PipeInv'
  <2> SUFFICES ASSUME PipeInv, [Next]_vars PROVE PipeInv'
    OBVIOUS
  <2>1. TypeOK'
    BY TypeStep DEF PipeInv
  <2>2. OffsetsOrdered' /\ LostOnlyInHand'
    BY OffsetStep DEF OffsetsOrdered, LostOnlyInHand
  <2>3. ReportedBeforeReturn'
    <3> SUFFICES ASSUME NEW s \in Sender
                 PROVE  (spc'[s] = "done" => report'[s] # "none") /\ (report'[s] = "delivered" => InLog(s)')
      BY DEF ReportedBeforeReturn
    <3>1. InLog(s) => InLog(s)'
      BY LogGrows DEF PipeInv
    <3>2. QED
      BY <3>1, ReportStep DEF PipeInv, ReportedBeforeReturn
  <2>4. Queued'
    BY QueueStep DEF Queued
  <2>5. QED
    BY <2>1, <2>2, <2>3, <2>4 DEF PipeInv
<1>3. QED
  BY <1>1, <1>2, PTL DEF Spec

\* The state of the senders, the partitions and the consumers has its types; at most
\* one message of a topic is in its handler.
THEOREM TypeCorrect == Spec => []TypeOK
<1>1. PipeInv => TypeOK
  BY DEF PipeInv
<1>2. QED
  BY Inductive, <1>1, PTL

\* SendMessage returns nil only with a report, and delivered means stored.
THEOREM Synchronous == Spec => []ReportedBeforeReturn
<1>1. PipeInv => ReportedBeforeReturn
  BY DEF PipeInv
<1>2. QED
  BY Inductive, <1>1, PTL

\* However often the process ends and whenever offsets are committed, consumers pass
\* over no message but those that an end of the process caught in their handler.
THEOREM OnlyCaughtAreLost == Spec => []LostOnlyInHand
<1>1. PipeInv => LostOnlyInHand
  BY DEF PipeInv
<1>2. QED
  BY Inductive, <1>1, PTL

-----------------------------------------------------------------------------
(* What comes twice, and what does not. *)

\* What makes HandledOnce inductive: a consumer that reads has stored the offset of what
\* it read last, or has read nothing since it was assigned its partition; where nobody
\* reads and nothing has lapsed, the next consumer begins where the last one was.
Settled(t) ==
  /\ con[t] = "reading" => (stored[t] = 0 /\ pos[t] = committed[t]) \/ stored[t] = pos[t]
  /\ con[t] # "reading" => stored[t] = 0 /\ (t \notin lapsed => pos[t] = committed[t])
  /\ t \notin lapsed => /\ handled[t] \union hand[t] = 1..pos[t]
                       /\ handled[t] \intersect hand[t] = {} /\ caught[t] = {}

\* Every step keeps it, for each topic.
LEMMA SettledStep ==
  ASSUME PipeInv, [Next]_vars, NEW t \in Topic, Settled(t)
  PROVE  Settled(t)'
<1>0. /\ con \in [Topic -> {"new", "gone", "joining", "reading"}]
      /\ pos \in [Topic -> Nat] /\ stored \in [Topic -> Nat] /\ committed \in [Topic -> Nat]
      /\ hand \in [Topic -> SUBSET Nat] /\ handled \in [Topic -> SUBSET Nat] /\ caught \in [Topic -> SUBSET Nat]
      /\ lapsed \in SUBSET Topic /\ stored[t] <= pos[t] /\ committed[t] <= pos[t]
  BY DEF PipeInv, TypeOK, OffsetsOrdered
<1> USE DEF Settled, sending, consuming, upsets
<1>1. ASSUME Restart PROVE Settled(t)'
  <2>1. /\ con'[t] = "new" /\ stored'[t] = 0 /\ hand'[t] = {} /\ caught'[t] = caught[t] \union hand[t]
        /\ pos' = pos /\ committed' = committed /\ handled' = handled
        /\ lapsed' = lapsed \union {u \in Topic : Unsettled(u)}
    BY <1>0, <1>1 DEF Restart
  <2>2. CASE t \in lapsed'
    BY <2>1, <2>2
  <2>3. CASE t \notin lapsed'
    <3>1. t \notin lapsed /\ pos[t] = committed[t] /\ hand[t] = {}
      BY <2>1, <2>3 DEF Unsettled
    <3>2. QED
      BY <2>1, <3>1
  <2>4. QED
    BY <2>2, <2>3
<1>2. ASSUME NEW u \in Topic, ReadMessage(u) PROVE Settled(t)'
  <2>1. CASE u # t
    <3>1. /\ con' = con /\ committed' = committed /\ handled' = handled /\ caught' = caught /\ lapsed' = lapsed
          /\ pos'[t] = pos[t] /\ stored'[t] = stored[t] /\ hand'[t] = hand[t]
      BY <1>0, <1>2, <2>1 DEF ReadMessage
    <3>2. QED
      BY <3>1
  <2>2. CASE u = t
    <3>1. PICK n \in Nat : n = pos[t]
      BY <1>0
    <3>2. /\ pos'[t] = n + 1 /\ stored'[t] = n + 1 /\ hand'[t] = {n + 1} /\ con[t] = "reading" /\ hand[t] = {}
          /\ con' = con /\ handled' = handled /\ caught' = caught /\ lapsed' = lapsed
      BY <1>0, <1>2, <2>2, <3>1 DEF ReadMessage
    <3>3. t \notin lapsed => handled[t] = 1..n
      BY <3>1, <3>2
    <3>4. (1..n) \union {n + 1} = 1..(n + 1) /\ (1..n) \intersect {n + 1} = {}
      OBVIOUS
    <3>5. QED
      BY <3>2, <3>3, <3>4
  <2>3. QED
    BY <2>1, <2>2
<1>3. ASSUME NEW u \in Topic, HandlerReturns(u) PROVE Settled(t)'
  <2>1. /\ UNCHANGED <<con, pos, stored, committed, caught, lapsed>>
        /\ \/ hand'[t] = hand[t] /\ handled'[t] = handled[t]
           \/ hand'[t] = {} /\ handled'[t] = handled[t] \union hand[t]
    BY <1>0, <1>3 DEF HandlerReturns
  <2>2. QED
    BY <2>1
<1>4. ASSUME NEW u \in Topic, Commit(u) PROVE Settled(t)'
  <2>1. /\ UNCHANGED <<con, pos, stored, hand, handled, caught, lapsed>>
        /\ committed'[t] = committed[t] \/ (stored[t] > committed[t] /\ committed'[t] = stored[t])
    BY <1>0, <1>4 DEF Commit
  <2>2. QED
    BY <1>0, <2>1
<1>5. ASSUME NEW u \in Topic, Start(u) PROVE Settled(t)'
  <2>1. /\ UNCHANGED <<pos, stored, committed, hand, handled, caught, lapsed>>
        /\ con'[t] = con[t] \/ (con[t] = "new" /\ con'[t] \in {"joining", "gone"})
    BY <1>0, <1>5 DEF Start, Subscribe, NoConsumer
  <2>2. QED
    BY <2>1
<1>6. ASSUME NEW u \in Topic, Assign(u) PROVE Settled(t)'
  <2>1. /\ UNCHANGED <<committed, hand, handled, caught, lapsed>>
        /\ \/ con'[t] = con[t] /\ pos'[t] = pos[t] /\ stored'[t] = stored[t]
           \/ con[t] = "joining" /\ con'[t] = "reading" /\ pos'[t] = committed[t] /\ stored'[t] = 0
    BY <1>0, <1>6 DEF Assign, StartOffset
  <2>2. QED
    BY <2>1
<1>7. ASSUME NEW u \in Topic, Revoke(u) PROVE Settled(t)'
  <2>1. UNCHANGED <<pos, hand, handled, caught>>
    BY <1>7 DEF Revoke
  <2>2. CASE u # t
    <3>1. con'[t] = con[t] /\ stored'[t] = stored[t] /\ committed'[t] = committed[t]
      BY <1>0, <1>7, <2>2 DEF Revoke
    <3>2. t \in lapsed' <=> t \in lapsed
      BY <1>7, <2>2 DEF Revoke
    <3>3. QED
      BY <2>1, <3>1, <3>2
  <2>3. CASE u = t
    <3>1. con[t] = "reading" /\ con'[t] = "joining" /\ stored'[t] = 0
      BY <1>0, <1>7, <2>3 DEF Revoke
    <3>2. \/ lapsed' = lapsed /\ committed'[t] = IF stored[t] > committed[t] THEN stored[t] ELSE committed[t]
          \/ /\ committed' = committed /\ lapsed \subseteq lapsed'
             /\ Unsettled(t) => t \in lapsed'
      BY <1>0, <1>7, <2>3 DEF Revoke
    <3>3. t \notin lapsed' => pos[t] = committed'[t]
      BY <1>0, <3>1, <3>2 DEF Unsettled
    <3>4. QED
      BY <2>1, <3>1, <3>2, <3>3
  <2>4. QED
    BY <2>2, <2>3
<1>8. CASE Broker \/ (\E s \in Sender : SendMessage(s) /\ ~Restart) \/ UNCHANGED vars
  <2>1. UNCHANGED <<con, pos, stored, committed, hand, handled, caught, lapsed>>
    BY <1>8 DEF Broker, ReportOn, Store, Report, SendMessage, GetProducer, MakeProducer, MakeFails,
       Produce, ProduceFails, NilProducer, Return, vars
  <2>2. QED
    BY <2>1
<1>9. QED
  BY <1>1, <1>2, <1>3, <1>4, <1>5, <1>6, <1>7, <1>8 DEF Next, Consume

\* A handler gets a message again, or one is passed over, only where an end of the
\* process or a lost session met an offset not committed or the handler at work.
THEOREM OnceEach == Spec => []HandledOnce
<1> DEFINE AllSettled == \A t \in Topic : Settled(t)
<1>1. Init => AllSettled
  BY DEF Init, Settled
<1>2. PipeInv /\ AllSettled /\ [Next]_vars => AllSettled'
  BY SettledStep
<1>3. AllSettled => HandledOnce
  BY DEF Settled, HandledOnce
<1> HIDE DEF AllSettled
<1>4. QED
  BY <1>1, <1>2, <1>3, Inductive, PTL DEF Spec

\* What comes again is never what was committed: a committed offset does not go back,
\* and a handler is given nothing up to it.
OnlyUncommittedAgain == \A t \in Topic : /\ committed[t] <= committed'[t]
                                        /\ \A i \in hand'[t] \ hand[t] : i > committed[t]

\* It holds through ends of the process, lost sessions and partitions assigned anew.
THEOREM CommittedIsPast == Spec => [][OnlyUncommittedAgain]_vars
<1>1. ASSUME PipeInv, Next PROVE OnlyUncommittedAgain
  <2> SUFFICES ASSUME NEW t \in Topic
               PROVE  committed[t] <= committed'[t] /\ \A i \in hand'[t] \ hand[t] : i > committed[t]
    BY DEF OnlyUncommittedAgain
  <2>0. /\ committed \in [Topic -> Nat] /\ stored \in [Topic -> Nat] /\ pos \in [Topic -> Nat]
        /\ hand \in [Topic -> SUBSET Nat] /\ committed[t] <= pos[t]
    BY <1>1 DEF PipeInv, TypeOK, OffsetsOrdered
  <2> USE DEF sending, consuming, upsets
  <2>1. ASSUME committed' = committed, hand' = hand \/ hand'[t] = {}
        PROVE  committed[t] <= committed'[t] /\ \A i \in hand'[t] \ hand[t] : i > committed[t]
    BY <2>0, <2>1
  <2>2. CASE Restart
    BY <2>0, <2>1, <2>2 DEF Restart
  <2>3. CASE Broker \/ (\E s \in Sender : SendMessage(s) /\ ~Restart)
    BY <2>1, <2>3 DEF Broker, ReportOn, Store, Report, SendMessage, GetProducer, MakeProducer, MakeFails,
       Produce, ProduceFails, NilProducer, Return
  <2>4. ASSUME NEW u \in Topic, ReadMessage(u)
        PROVE  committed[t] <= committed'[t] /\ \A i \in hand'[t] \ hand[t] : i > committed[t]
    <3>1. committed' = committed /\ (hand'[t] = hand[t] \/ hand'[t] = {pos[t] + 1})
      BY <2>0, <2>4 DEF ReadMessage
    <3>2. QED
      BY <2>0, <3>1
  <2>5. ASSUME NEW u \in Topic, Commit(u) \/ Revoke(u)
        PROVE  committed[t] <= committed'[t] /\ \A i \in hand'[t] \ hand[t] : i > committed[t]
    <3>1. hand' = hand /\ (committed'[t] = committed[t] \/ (stored[t] > committed[t] /\ committed'[t] = stored[t]))
      BY <2>0, <2>5 DEF Commit, Revoke
    <3>2. QED
      BY <2>0, <3>1
  <2>6. ASSUME NEW u \in Topic, Start(u) \/ Assign(u) \/ HandlerReturns(u)
        PROVE  committed[t] <= committed'[t] /\ \A i \in hand'[t] \ hand[t] : i > committed[t]
    <3>1. committed' = committed /\ hand'[t] \subseteq hand[t]
      BY <2>0, <2>6 DEF Start, Subscribe, NoConsumer, Assign, HandlerReturns
    <3>2. QED
      BY <2>0, <3>1
  <2>7. QED
    BY <1>1, <2>2, <2>3, <2>4, <2>5, <2>6 DEF Next, Consume
<1>2. PipeInv /\ [Next]_vars => [OnlyUncommittedAgain]_vars
  BY <1>1
<1>3. QED
  BY <1>2, Inductive, PTL DEF Spec

\* What is in a partition was sent there by a call that has not been answered an error,
\* and is there once, whichever producers the calls went through.
SentOnce ==
  \A t \in Topic : \A i \in DOMAIN log[t] :
    /\ log[t][i] \in Sender /\ topic[log[t][i]] = t /\ spc[log[t][i]] \in {"wait", "done", "dead"}
    /\ \A j \in DOMAIN log[t] : log[t][j] = log[t][i] => j = i

\* A step that stores nothing and lets no call that waits fail keeps it.
LEMMA QuietSent ==
  ASSUME SentOnce, UNCHANGED <<topic, log>>,
         \A s \in Sender : spc[s] \in {"wait", "done", "dead"} => spc'[s] \in {"wait", "done", "dead"}
  PROVE  SentOnce'
BY DEF SentOnce

\* Storing a message keeps it, as what was sent is what a call waits or waited for.
LEMMA StoreSent ==
  ASSUME PipeInv, SentOnce, NEW s \in Sender, Store(s)
  PROVE  SentOnce'
<1> DEFINE u == topic[s]
<1>1. /\ u \in Topic /\ log \in [Topic -> Seq(Sender)] /\ log[u] \in Seq(Sender)
      /\ topic' = topic /\ spc' = spc /\ spc[s] \in {"wait", "done", "dead"} /\ ~InLog(s)
  BY DEF Store, sending, PipeInv, TypeOK, Queued
<1>2. PICK l \in Seq(Sender) : l = log[u]
  BY <1>1
<1>3. /\ log'[u] = Append(l, s) /\ \A t \in Topic : t # u => log'[t] = log[t]
  BY <1>1, <1>2 DEF Store
<1>4. \A i \in DOMAIN l : l[i] # s
  BY <1>1, <1>2 DEF InLog
<1>5. PICK n \in Nat : n = Len(l) /\ DOMAIN l = 1..n
  OBVIOUS
<1>6. /\ DOMAIN Append(l, s) = 1..(n + 1) /\ Append(l, s)[n + 1] = s
      /\ \A i \in 1..n : Append(l, s)[i] = l[i]
  BY <1>5
<1> SUFFICES ASSUME NEW t \in Topic, NEW i \in DOMAIN log'[t]
             PROVE  /\ log'[t][i] \in Sender /\ topic[log'[t][i]] = t
                    /\ spc[log'[t][i]] \in {"wait", "done", "dead"}
                    /\ \A j \in DOMAIN log'[t] : log'[t][j] = log'[t][i] => j = i
  BY <1>1 DEF SentOnce
<1>7. CASE t # u
  BY <1>3, <1>7 DEF SentOnce
<1>8. CASE t = u
  <2>1. \A k \in 1..n : /\ l[k] \in Sender /\ topic[l[k]] = u /\ spc[l[k]] \in {"wait", "done", "dead"}
                        /\ \A j \in 1..n : l[j] = l[k] => j = k
    BY <1>1, <1>2, <1>5 DEF SentOnce
  <2>2. log'[t] = Append(l, s) /\ i \in 1..(n + 1)
    BY <1>3, <1>6, <1>8
  <2>3. CASE i \in 1..n
    BY <1>4, <1>5, <1>6, <1>8, <2>1, <2>2, <2>3
  <2>4. CASE i = n + 1
    BY <1>1, <1>4, <1>5, <1>6, <1>8, <2>2, <2>4
  <2>5. QED
    BY <2>2, <2>3, <2>4
<1>9. QED
  BY <1>7, <1>8

\* A call that got an error has not sent its message and may be repeated; no message is
\* stored twice although two first senders make two producers and one is overwritten.
THEOREM StoredOnce == Spec => []SentOnce
<1>1. Init => SentOnce
  BY DEF Init, SentOnce
<1>2. ASSUME PipeInv, SentOnce, [Next]_vars PROVE SentOnce'
  <2> USE <1>2
  <2>0. spc \in [Sender -> {"idle", "make", "use", "wait", "done", "error", "dead"}]
    BY DEF PipeInv, TypeOK
  <2>1. CASE Restart
    BY <2>0, <2>1, QuietSent DEF Restart
  <2>2. ASSUME NEW s \in Sender, SendMessage(s) PROVE SentOnce'
    BY <2>0, <2>1, <2>2, QuietSent
       DEF SendMessage, GetProducer, MakeProducer, MakeFails, Produce, ProduceFails, NilProducer, Return
  <2>3. ASSUME NEW p \in Sender, NEW s \in Sender, Report(p, s) PROVE SentOnce'
    BY <2>3, QuietSent DEF Report
  <2>4. ASSUME NEW t \in Topic, Consume(t) PROVE SentOnce'
    BY <2>4, QuietSent DEF Consume, Start, Subscribe, NoConsumer, Assign, Revoke, ReadMessage, HandlerReturns, Commit, sending
  <2>5. CASE UNCHANGED vars
    BY <2>5, QuietSent DEF vars, sending
  <2>6. QED
    BY <2>1, <2>2, <2>3, <2>4, <2>5, StoreSent DEF Next, Broker, ReportOn
<1>3. PipeInv /\ SentOnce /\ [Next]_vars => SentOnce'
  BY <1>2
<1>4. QED
  BY <1>1, <1>3, Inductive, PTL DEF Spec

-----------------------------------------------------------------------------
(***************************************************************************)
(* KafkaPipe implements MessageBus: what callers and handlers see of a     *)
(* step is a step of the bus or nothing.                                   *)
(***************************************************************************)

\* What each point of SendMessage is for the bus.
LEMMA Stages ==
  /\ Stage["idle"] = "new" /\ Stage["make"] = "begun" /\ Stage["use"] = "begun"
  /\ Stage["wait"] = "given" /\ Stage["done"] = "returned" /\ Stage["error"] = "refused"
  /\ Stage["dead"] = "dead"
BY DEF Stage

\* Stored means the same in both.
LEMMA StoredIsInLog ==
  ASSUME TypeOK, NEW s \in Sender
  PROVE  Bus!Stored(s) <=> InLog(s)
<1>1. topic[s] \in Topic /\ log[topic[s]] \in Seq(Sender)
  BY DEF TypeOK
<1>2. DOMAIN log[topic[s]] = 1..Len(log[topic[s]])
  BY <1>1
<1>3. QED
  BY <1>2 DEF Bus!Stored, InLog

\* What SendMessage does is seen as the begin, the middle or the end of a call.
LEMMA CallerStep ==
  ASSUME PipeInv, NEW s \in Sender, SendMessage(s), ~Restart
  PROVE  Bus!Begin(s) \/ Bus!Give(s) \/ Bus!Refuse(s) \/ Bus!Return(s) \/ UNCHANGED Bus!vars
<1>1. spc \in [Sender -> {"idle", "make", "use", "wait", "done", "error", "dead"}]
  BY DEF PipeInv, TypeOK
<1>2. busCall[s] = Stage[spc[s]]
  BY DEF busCall
<1> USE Stages DEF sending, consuming, upsets, Bus!vars, Bus!calls, Bus!handlers
<1>3. CASE GetProducer(s)
  <2>1. PICK to \in {"make", "use"} : spc' = [spc EXCEPT ![s] = to]
    BY <1>3 DEF GetProducer
  <2>2. busCall' = [busCall EXCEPT ![s] = "begun"]
    BY <1>1, <2>1 DEF busCall
  <2>3. QED
    BY <1>2, <1>3, <2>2 DEF GetProducer, Bus!Begin, Bus!Goes
<1>4. CASE MakeProducer(s) \/ MakeFails(s)
  <2>1. spc[s] = "make" /\ spc' = [spc EXCEPT ![s] = "use"]
    BY <1>4 DEF MakeProducer, MakeFails
  <2>2. busCall' = [busCall EXCEPT ![s] = busCall[s]]
    BY <1>1, <1>2, <2>1 DEF busCall
  <2>3. busCall' = busCall
    BY <2>2 DEF busCall
  <2>4. QED
    BY <1>4, <2>3 DEF MakeProducer, MakeFails
<1>5. CASE Produce(s)
  <2>1. busCall' = [busCall EXCEPT ![s] = "given"]
    BY <1>1, <1>5 DEF Produce, busCall
  <2>2. QED
    BY <1>2, <1>5, <2>1 DEF Produce, Bus!Give, Bus!Goes
<1>6. CASE ProduceFails(s) \/ NilProducer(s)
  <2>1. /\ spc[s] = "use" /\ spc' = [spc EXCEPT ![s] = "error"]
        /\ UNCHANGED <<topic, prod, queue, report, sent, log, consuming, committed, upsets>>
    BY <1>6 DEF ProduceFails, NilProducer
  <2>2. busCall' = [busCall EXCEPT ![s] = "refused"]
    BY <1>1, <2>1 DEF busCall
  <2>3. QED
    BY <1>2, <2>1, <2>2 DEF Bus!Refuse, Bus!Goes
<1>7. CASE Return(s)
  <2>1. busCall' = [busCall EXCEPT ![s] = "returned"]
    BY <1>1, <1>7 DEF Return, busCall
  <2>2. QED
    BY <1>2, <1>7, <2>1 DEF Return, Bus!Return, Bus!Goes
<1>8. QED
  BY <1>3, <1>4, <1>5, <1>6, <1>7 DEF SendMessage

\* A partition takes what was given, once, and a report comes while its sender waits.
LEMMA BrokerStep ==
  ASSUME PipeInv, NEW p \in Sender, NEW s \in Sender, Store(s) \/ Report(p, s)
  PROVE  Bus!Store(s) \/ Bus!Tell(s)
<1>1. busCall' = busCall
  BY DEF Store, Report, sending, busCall
<1>2. Bus!Stored(s) <=> InLog(s)
  BY StoredIsInLog DEF PipeInv
<1>3. CASE Store(s)
  BY <1>1, <1>2, <1>3 DEF Store, Bus!Store, sending, consuming, upsets, Bus!calls, Bus!handlers
<1>4. CASE Report(p, s)
  <2>1. busCall[s] = "given" /\ report[s] = "none"
    BY <1>4, Stages DEF Report, PipeInv, Queued, busCall
  <2>2. PICK v \in {"delivered", "failed"} : (v = "delivered" => InLog(s)) /\ report' = [report EXCEPT ![s] = v]
    BY <1>4 DEF Report
  <2>3. UNCHANGED <<topic, busCall, sent, log, pos, hand, handled, caught>>
    BY <1>1, <1>4 DEF Report, consuming, upsets
  <2>4. QED
    BY <1>2, <2>1, <2>2, <2>3 DEF Bus!Tell, Bus!handlers
<1>5. QED
  BY <1>3, <1>4

\* Who is assigned a partition, and where offsets are stored and committed, is seen only
\* by the entries that come again: the next consumer begins at what was committed.
LEMMA ConsumerStep ==
  ASSUME PipeInv, NEW t \in Topic, Consume(t)
  PROVE  Bus!Deliver(t) \/ Bus!Finish(t) \/ Bus!Rewind(t) \/ UNCHANGED Bus!vars
<1>1. busCall' = busCall
  BY DEF Consume, Start, Subscribe, NoConsumer, Assign, Revoke, ReadMessage, HandlerReturns, Commit, sending, busCall
<1> USE DEF sending, consuming, upsets, Bus!vars, Bus!calls, Bus!handlers
<1>2. CASE ReadMessage(t) \/ HandlerReturns(t)
  BY <1>1, <1>2 DEF ReadMessage, HandlerReturns, Bus!Deliver, Bus!Finish
<1>3. CASE Start(t) \/ Revoke(t) \/ Commit(t)
  BY <1>1, <1>3 DEF Start, Subscribe, NoConsumer, Revoke, Commit
<1>4. CASE Assign(t)
  <2>1. committed[t] \in 0..pos[t]
    BY DEF PipeInv, TypeOK, OffsetsOrdered
  <2>2. QED
    BY <1>1, <1>4, <2>1 DEF Assign, StartOffset, Bus!Rewind
<1>5. QED
  BY <1>2, <1>3, <1>4 DEF Consume

\* An end of the process ends the calls under way and catches what is in hand.
LEMMA RestartStep ==
  ASSUME PipeInv, Restart
  PROVE  Bus!Crash
<1>1. spc \in [Sender -> {"idle", "make", "use", "wait", "done", "error", "dead"}]
  BY DEF PipeInv, TypeOK
<1>2. ASSUME NEW s \in Sender
      PROVE  Stage[spc'[s]] = IF busCall[s] \in {"begun", "given"} THEN "dead" ELSE busCall[s]
  BY <1>1, Stages DEF Restart, busCall
<1>3. busCall' = [s \in Sender |-> IF busCall[s] \in {"begun", "given"} THEN "dead" ELSE busCall[s]]
  BY <1>2 DEF busCall
<1>4. QED
  BY <1>3 DEF Restart, Bus!Crash

\* KafkaPipe implements MessageBus (ms/producer.go and ms/consumer.go together).
THEOREM Implements == Spec => ImplementsBus
<1>1. Init => Bus!Init
  <2> SUFFICES ASSUME Init PROVE Bus!Init
    OBVIOUS
  <2>1. busCall = [s \in Sender |-> "new"]
    BY Stages DEF Init, busCall
  <2>2. QED
    BY <2>1 DEF Init, Bus!Init
<1>2. PipeInv /\ [Next]_vars => [Bus!Next]_(Bus!vars)
  <2> SUFFICES ASSUME PipeInv, [Next]_vars PROVE [Bus!Next]_(Bus!vars)
    OBVIOUS
  <2>1. CASE Restart
    BY <2>1, RestartStep DEF Bus!Next
  <2>2. ASSUME NEW s \in Sender, SendMessage(s) PROVE [Bus!Next]_(Bus!vars)
    BY <2>1, <2>2, CallerStep DEF Bus!Next
  <2>3. ASSUME NEW p \in Sender, NEW s \in Sender, Store(s) \/ Report(p, s) PROVE [Bus!Next]_(Bus!vars)
    BY <2>3, BrokerStep DEF Bus!Next
  <2>4. ASSUME NEW t \in Topic, Consume(t) PROVE [Bus!Next]_(Bus!vars)
    BY <2>4, ConsumerStep DEF Bus!Next
  <2>5. CASE UNCHANGED vars
    BY <2>5 DEF vars, sending, consuming, upsets, busCall, Bus!vars, Bus!calls, Bus!handlers
  <2>6. QED
    BY <2>1, <2>2, <2>3, <2>4, <2>5 DEF Next, Broker, ReportOn
<1>3. QED
  BY <1>1, <1>2, Inductive, PTL DEF Spec, ImplementsBus, Bus!Spec

-----------------------------------------------------------------------------
(***************************************************************************)
(* Liveness.  That a step is enabled cannot be proved here: that is what   *)
(* WaitersCanGoOn says and TLC checks, and OwedReport is what it rests on. *)
(* From WaitersCanGoOn the fairness of librdkafka and of the scheduler     *)
(* brings every call back.                                                 *)
(***************************************************************************)

\* Whoever waits without a report is in the queue of a producer, which librdkafka
\* polls until it is empty although Producer.prod may be another one by now.
THEOREM OwedReport ==
  Spec => [](\A s \in Sender : spc[s] = "wait" /\ report[s] = "none" => \E p \in Sender : s \in queue[p])
<1>1. PipeInv => \A s \in Sender : spc[s] = "wait" /\ report[s] = "none" => \E p \in Sender : s \in queue[p]
  BY DEF PipeInv, Queued
<1>2. QED
  BY Inductive, <1>1, PTL

\* A call that waits goes on waiting, with what report it has, or it is over.
LEMMA WaitStep ==
  ASSUME PipeInv, [Next]_vars, NEW s \in Sender, spc[s] = "wait"
  PROVE  /\ spc[s]' = "wait" \/ spc[s]' \in {"done", "dead"}
         /\ report[s] # "none" => report[s]' # "none"
<1>1. /\ spc \in [Sender -> {"idle", "make", "use", "wait", "done", "error", "dead"}]
      /\ report \in [Sender -> {"none", "delivered", "failed"}]
  BY DEF PipeInv, TypeOK
<1> USE DEF sending, consuming, upsets
<1>2. CASE Restart
  BY <1>1, <1>2 DEF Restart
<1>3. ASSUME NEW p \in Sender, NEW r \in Sender, Report(p, r) \/ Store(r)
      PROVE  spc' = spc /\ (report[s] # "none" => report[s]' # "none")
  BY <1>1, <1>3 DEF Report, Store
<1>4. ASSUME NEW r \in Sender, SendMessage(r), ~Restart
      PROVE  /\ spc[s]' = "wait" \/ spc[s]' \in {"done", "dead"}
             /\ report' = report
  BY <1>1, <1>4 DEF SendMessage, GetProducer, MakeProducer, MakeFails, Produce, ProduceFails, NilProducer, Return
<1>5. ASSUME NEW t \in Topic, Consume(t) PROVE UNCHANGED <<spc, report>>
  BY <1>5 DEF Consume, Start, Subscribe, NoConsumer, Assign, Revoke, ReadMessage, HandlerReturns, Commit
<1>6. CASE UNCHANGED vars
  BY <1>6 DEF vars
<1>7. QED
  BY <1>2, <1>3, <1>4, <1>5, <1>6 DEF Next, Broker, ReportOn

\* The report comes, and then the call returns, unless the process ends before.
LEMMA OneReturns ==
  ASSUME NEW s \in Sender
  PROVE  Spec /\ []WaitersCanGoOn /\ SenderFairness(s) => SenderReturns(s)
<1> DEFINE Unreported == spc[s] = "wait" /\ report[s] = "none"
           Reported == spc[s] = "wait" /\ report[s] # "none"
           Over == spc[s] \in {"done", "dead"}
<1>1. PipeInv /\ [Next]_vars => (Unreported => Unreported' \/ Reported' \/ Over')
  BY WaitStep
<1>2. PipeInv /\ [Next]_vars => (Reported => Reported' \/ Over')
  BY WaitStep
<1>3. PipeInv /\ <<ReportOn(s)>>_vars => (Unreported => Reported')
  BY DEF PipeInv, TypeOK, ReportOn, Report
<1>4. PipeInv /\ <<Return(s)>>_vars => (Reported => Over')
  BY DEF PipeInv, TypeOK, Return
<1>5. WaitersCanGoOn /\ Unreported => ENABLED <<ReportOn(s)>>_vars
  BY DEF WaitersCanGoOn
<1>6. WaitersCanGoOn /\ Reported => ENABLED <<Return(s)>>_vars
  BY DEF WaitersCanGoOn
<1>7. spc[s] = "wait" <=> Unreported \/ Reported
  OBVIOUS
<1> HIDE DEF Unreported, Reported, Over
<1>8. Spec /\ []WaitersCanGoOn /\ SenderFairness(s) => (spc[s] = "wait" ~> Over)
  BY <1>1, <1>2, <1>3, <1>4, <1>5, <1>6, <1>7, Inductive, PTL DEF Spec, SenderFairness
<1>9. QED
  BY <1>8, PTL DEF SenderReturns, Over

\* SendMessage returns or the process ends, also for the sender that lost the race of
\* two first senders: if only WaitersCanGoOn holds, which TLC checks.
THEOREM Returns == FairSpec /\ []WaitersCanGoOn => SendersReturn
<1> SUFFICES ASSUME NEW s \in Sender
             PROVE  FairSpec /\ []WaitersCanGoOn => SenderReturns(s)
  BY DEF SendersReturn
<1>1. FairSpec => Spec /\ SenderFairness(s)
  BY DEF FairSpec
<1>2. QED
  BY <1>1, OneReturns, PTL
=============================================================================
