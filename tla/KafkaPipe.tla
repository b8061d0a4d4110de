----------------------------- MODULE KafkaPipe -----------------------------
(***************************************************************************)
(* The Kafka producer and consumers of go-service (ms/producer.go,         *)
(* ms/consumer.go) as main.go uses them: health checks send messages, from *)
(* the handler and from goroutines, and one consumer per topic handles     *)
(* them in the same process.                                               *)
(*                                                                         *)
(* librdkafka and the brokers are modelled from the configuration the code *)
(* gives them: an idempotent producer has a message stored at most once,   *)
(* but a message that was sent may be stored at any later time, also after *)
(* its time was over here (message.timeout.ms is only enforced locally) or *)
(* the process has ended.  Offsets are stored when a message is handed     *)
(* over and committed in the background; the consumers join one group,     *)
(* which may take a partition from its consumer and assign it anew, and a  *)
(* consumer begins at the committed offset or, if there is none, at the    *)
(* earliest.  A topic has one partition; offsets are counted from 1, a     *)
(* committed offset is the last one consumed, and the order of the         *)
(* messages in a partition is left open.                                   *)
(***************************************************************************)
EXTENDS Integers, Sequences, FiniteSets

CONSTANTS Sender,      \* calls of SendMessage, one message each
          Background,  \* those in goroutines of their own (go prod.SendMessage)
          Topic,       \* topics, each with a consumer
          NoProducer,  \* the nil pointer
          MaxCrashes,  \* bound: how often the process ends and starts again
          MaxRevokes   \* bound: how often a consumer loses its partition

ASSUME SendersAssumption == Background \subseteq Sender /\ NoProducer \notin Sender
ASSUME BoundsAssumption == MaxCrashes \in Nat /\ MaxRevokes \in Nat

VARIABLES
  topic,      \* the topic each sender sends to
  spc,        \* where SendMessage is
  prod,       \* Producer.prod: the producer made by that sender
  queue,      \* queue[p]: what producer p has still to report on
  report,     \* the delivery report of each message
  sent,       \* the messages that a producer has taken, and a broker may get
  log,        \* log[t]: the messages in the partition of t
  con,        \* the consumer of each topic: "new", "gone", "joining" or "reading"
  pos,        \* the offset it has read up to, until it is assigned the one before it had
  stored,     \* its offset store, in memory
  committed,  \* its committed offset, at the broker
  hand,       \* the offset its handler is working on: at most one
  crashes,    \* how often the process has ended
  revokes,    \* how often a consumer has lost its partition
  handled,    \* history: the offsets whose handler has returned
  caught,     \* history: the offsets that were in hand when the process ended
  lapsed      \* history: the topics where an end of the process or of a session met
              \* an offset that was not committed, or the handler at work

sending == <<topic, spc, prod, queue, report, sent>>
consuming == <<con, pos, stored, hand, handled>>
upsets == <<crashes, revokes, caught, lapsed>>
vars == <<sending, log, consuming, committed, upsets>>

Init == /\ topic \in [Sender -> Topic]
        /\ spc = [s \in Sender |-> "idle"] /\ prod = NoProducer
        /\ queue = [s \in Sender |-> {}] /\ report = [s \in Sender |-> "none"]
        /\ sent = {}
        /\ log = [t \in Topic |-> <<>>]
        /\ con = [t \in Topic |-> "new"] /\ pos = [t \in Topic |-> 0] /\ stored = [t \in Topic |-> 0]
        /\ committed = [t \in Topic |-> 0] /\ hand = [t \in Topic |-> {}]
        /\ crashes = 0 /\ revokes = 0
        /\ handled = [t \in Topic |-> {}] /\ caught = [t \in Topic |-> {}] /\ lapsed = {}

-----------------------------------------------------------------------------
(* The process ends and starts again.                                      *)

\* What an end of the process or of a session would undo: an offset that was handed
\* over and not committed, or a handler that has not returned.
Unsettled(t) == pos[t] # committed[t] \/ hand[t] # {}

\* All that is in memory is gone: senders, producers and their queues, consumers and
\* their offset stores; what the brokers were sent they may have, and store later.
\* A stop by a signal is the same, since nothing closes producer or consumers.
Restart == /\ crashes < MaxCrashes
           /\ crashes' = crashes + 1
           /\ spc' = [s \in Sender |-> IF spc[s] \in {"make", "use", "wait"} THEN "dead" ELSE spc[s]]
           /\ prod' = NoProducer
           /\ queue' = [s \in Sender |-> {}]
           /\ con' = [t \in Topic |-> "new"]
           /\ stored' = [t \in Topic |-> 0]
           /\ hand' = [t \in Topic |-> {}]
           /\ caught' = [t \in Topic |-> caught[t] \union hand[t]]
           /\ lapsed' = lapsed \union {t \in Topic : Unsettled(t)}
           /\ UNCHANGED <<topic, report, sent, log, pos, committed, revokes, handled>>

-----------------------------------------------------------------------------
(* SendMessage.                                                            *)

\* getProducer finds a producer, or none.
GetProducer(s) == /\ spc[s] = "idle"
                  /\ spc' = [spc EXCEPT ![s] = IF prod = NoProducer THEN "make" ELSE "use"]
                  /\ UNCHANGED <<topic, prod, queue, report, sent, log, consuming, committed, upsets>>

\* Mutant of MakeProducer: the producer that is there is closed first.
MakeProducerMutant(s) ==
  /\ spc[s] = "make"
  /\ prod' = s
  /\ queue' = [p \in Sender |-> IF p = prod THEN {} ELSE queue[p]]
  /\ spc' = [spc EXCEPT ![s] = "use"]
  /\ UNCHANGED <<topic, report, sent, log, consuming, committed, upsets>>

\* It makes one and keeps it, over one that another sender may have made since.
MakeProducer(s) == /\ spc[s] = "make"
                   /\ prod' = s
                   /\ spc' = [spc EXCEPT ![s] = "use"]
                   /\ UNCHANGED <<topic, queue, report, sent, log, consuming, committed, upsets>>

\* It cannot make one, and keeps the nil it got without looking at the error.
MakeFails(s) == /\ spc[s] = "make"
                /\ prod' = NoProducer
                /\ spc' = [spc EXCEPT ![s] = "use"]
                /\ UNCHANGED <<topic, queue, report, sent, log, consuming, committed, upsets>>

\* getProducer returns the producer that is kept now, and Produce puts the message into
\* its queue; between the two nothing happens that this sender could notice.
Produce(s) == /\ spc[s] = "use" /\ prod # NoProducer
              /\ queue' = [queue EXCEPT ![prod] = @ \union {s}]
              /\ sent' = sent \union {s}
              /\ spc' = [spc EXCEPT ![s] = "wait"]
              /\ UNCHANGED <<topic, prod, report, log, consuming, committed, upsets>>

\* Produce refuses the message, its queue being full: the caller gets the error.
ProduceFails(s) == /\ spc[s] = "use" /\ prod # NoProducer
                   /\ spc' = [spc EXCEPT ![s] = "error"]
                   /\ UNCHANGED <<topic, prod, queue, report, sent, log, consuming, committed, upsets>>

\* Produce on a nil producer panics: net/http recovers in a handler, but in a
\* goroutine of its own it is the end of the process.
NilProducer(s) == /\ spc[s] = "use" /\ prod = NoProducer
                  /\ \/ s \in Background /\ Restart
                     \/ /\ s \notin Background
                        /\ spc' = [spc EXCEPT ![s] = "error"]
                        /\ UNCHANGED <<topic, prod, queue, report, sent, log, consuming, committed, upsets>>

\* Mutant of Return: SendMessage does not wait for the report.
ReturnMutant(s) == /\ spc[s] = "wait"
                   /\ spc' = [spc EXCEPT ![s] = "done"]
                   /\ UNCHANGED <<topic, prod, queue, report, sent, log, consuming, committed, upsets>>

\* SendMessage takes the report off its channel, does not look at it and returns nil.
Return(s) == /\ spc[s] = "wait" /\ report[s] # "none"
             /\ spc' = [spc EXCEPT ![s] = "done"]
             /\ UNCHANGED <<topic, prod, queue, report, sent, log, consuming, committed, upsets>>

-----------------------------------------------------------------------------
(* librdkafka and the brokers.                                             *)

\* The message of s is in its partition.
InLog(s) == \E i \in 1..Len(log[topic[s]]) : log[topic[s]][i] = s

\* The partition takes a message that was sent: while its producer waits for the
\* acknowledgement, after that gave it up, or when the process has ended.
Store(s) == /\ s \in sent /\ ~InLog(s)
            /\ log' = [log EXCEPT ![topic[s]] = Append(@, s)]
            /\ UNCHANGED <<sending, consuming, committed, upsets>>

\* The producer reports on a message: it was acknowledged, or its time was over,
\* and the partition may have taken it nevertheless, or may yet.
Report(p, s) == /\ s \in queue[p]
                /\ queue' = [queue EXCEPT ![p] = @ \ {s}]
                /\ \/ InLog(s) /\ report' = [report EXCEPT ![s] = "delivered"]
                   \/ report' = [report EXCEPT ![s] = "failed"]
                /\ UNCHANGED <<topic, spc, prod, sent, log, consuming, committed, upsets>>

\* The offsets stored are committed in the background.
Commit(t) == /\ stored[t] > committed[t]
             /\ committed' = [committed EXCEPT ![t] = stored[t]]
             /\ UNCHANGED <<sending, log, consuming, upsets>>

\* The group takes the partition from its consumer, since another one joins or its
\* session is lost.  In the first case what is stored is committed; in both the
\* handler goes on with what it has in hand.
Revoke(t) == /\ con[t] = "reading" /\ revokes < MaxRevokes
             /\ revokes' = revokes + 1
             /\ con' = [con EXCEPT ![t] = "joining"]
             /\ stored' = [stored EXCEPT ![t] = 0]
             /\ \/ /\ committed' = [committed EXCEPT ![t] = IF stored[t] > @ THEN stored[t] ELSE @]
                   /\ UNCHANGED lapsed
                \/ /\ lapsed' = lapsed \union {u \in {t} : Unsettled(u)}
                   /\ UNCHANGED committed
             /\ UNCHANGED <<sending, log, pos, hand, crashes, handled, caught>>

-----------------------------------------------------------------------------
(* The consumer of a topic.                                                *)

\* newKafkaConsumer makes a consumer, and it subscribes.
Subscribe(t) == /\ con[t] = "new"
                /\ con' = [con EXCEPT ![t] = "joining"]
                /\ UNCHANGED <<sending, log, pos, stored, hand, handled, committed, upsets>>

\* newKafkaConsumer fails and the goroutine returns without a word; or Subscribe does,
\* the error is dropped, and ReadMessage waits for messages nobody assigns to it.
NoConsumer(t) == /\ con[t] = "new"
                 /\ con' = [con EXCEPT ![t] = "gone"]
                 /\ UNCHANGED <<sending, log, pos, stored, hand, handled, committed, upsets>>

\* Where a consumer begins.  Mutant: auto.offset.reset is "latest".
StartOffsetMutant(t) == IF committed[t] = 0 THEN Len(log[t]) ELSE committed[t]

\* Where a consumer begins.
StartOffset(t) == committed[t]

\* The group assigns the partition to the consumer.
Assign(t) == /\ con[t] = "joining"
             /\ con' = [con EXCEPT ![t] = "reading"]
             /\ pos' = [pos EXCEPT ![t] = StartOffset(t)]
             /\ stored' = [stored EXCEPT ![t] = 0]
             /\ UNCHANGED <<sending, log, hand, handled, committed, upsets>>

\* Mutant of ReadMessage: all that is there is stored, not what was handed over.
ReadMessageMutant(t) == /\ con[t] = "reading" /\ hand[t] = {} /\ pos[t] < Len(log[t])
                        /\ pos' = [pos EXCEPT ![t] = @ + 1]
                        /\ stored' = [stored EXCEPT ![t] = Len(log[t])]
                        /\ hand' = [hand EXCEPT ![t] = {pos[t] + 1}]
                        /\ UNCHANGED <<sending, log, con, committed, handled, upsets>>

\* Mutant of ReadMessage: handlers run in goroutines of their own.
ReadMessageSpawns(t) == /\ con[t] = "reading" /\ pos[t] < Len(log[t])
                        /\ pos' = [pos EXCEPT ![t] = @ + 1]
                        /\ stored' = [stored EXCEPT ![t] = pos[t] + 1]
                        /\ hand' = [hand EXCEPT ![t] = @ \union {pos[t] + 1}]
                        /\ UNCHANGED <<sending, log, con, committed, handled, upsets>>

\* Mutant of ReadMessage: the offset stored is that of the message before.
ReadMessageOffByOne(t) == /\ con[t] = "reading" /\ hand[t] = {} /\ pos[t] < Len(log[t])
                          /\ pos' = [pos EXCEPT ![t] = @ + 1]
                          /\ stored' = [stored EXCEPT ![t] = pos[t]]
                          /\ hand' = [hand EXCEPT ![t] = {pos[t] + 1}]
                          /\ UNCHANGED <<sending, log, con, committed, handled, upsets>>

\* ReadMessage hands over the next message, which stores its offset.
ReadMessage(t) == /\ con[t] = "reading" /\ hand[t] = {} /\ pos[t] < Len(log[t])
                  /\ pos' = [pos EXCEPT ![t] = @ + 1]
                  /\ stored' = [stored EXCEPT ![t] = pos[t] + 1]
                  /\ hand' = [hand EXCEPT ![t] = {pos[t] + 1}]
                  /\ UNCHANGED <<sending, log, con, committed, handled, upsets>>

\* The handler returns.
HandlerReturns(t) == /\ hand[t] # {}
                     /\ handled' = [handled EXCEPT ![t] = @ \union hand[t]]
                     /\ hand' = [hand EXCEPT ![t] = {}]
                     /\ UNCHANGED <<sending, log, con, pos, stored, committed, upsets>>

-----------------------------------------------------------------------------
SendMessage(s) == \/ GetProducer(s) \/ MakeProducer(s) \/ MakeFails(s) \/ Produce(s)
                  \/ ProduceFails(s) \/ NilProducer(s) \/ Return(s)

\* Whichever producer has the message of s reports on it.
ReportOn(s) == \E p \in Sender : Report(p, s)

Broker == \E s \in Sender : ReportOn(s) \/ Store(s)

\* The goroutine of Consume either gets its consumer or ends.
Start(t) == Subscribe(t) \/ NoConsumer(t)

Consume(t) == \/ Start(t) \/ Assign(t) \/ Revoke(t)
              \/ ReadMessage(t) \/ HandlerReturns(t) \/ Commit(t)

Next == Restart \/ Broker \/ (\E s \in Sender : SendMessage(s)) \/ (\E t \in Topic : Consume(t))

Spec == Init /\ [][Next]_vars

(* Goroutines that can run do; librdkafka reports on every message, at the latest *)
(* when message.timeout.ms is over; a consumer that joins is assigned its         *)
(* partition in the end.  Nothing says that a message is ever stored.             *)
SenderFairness(s) == WF_vars(ReportOn(s)) /\ WF_vars(Return(s))
ConsumerFairness(t) == /\ WF_vars(Start(t)) /\ WF_vars(Assign(t))
                       /\ WF_vars(ReadMessage(t)) /\ WF_vars(HandlerReturns(t))

FairSpec == /\ Spec
            /\ \A s \in Sender : SenderFairness(s)
            /\ \A t \in Topic : ConsumerFairness(t)

-----------------------------------------------------------------------------
(* Properties.                                                             *)

TypeOK ==
  /\ topic \in [Sender -> Topic]
  /\ spc \in [Sender -> {"idle", "make", "use", "wait", "done", "error", "dead"}]
  /\ prod \in Sender \union {NoProducer}
  /\ queue \in [Sender -> SUBSET Sender]
  /\ report \in [Sender -> {"none", "delivered", "failed"}]
  /\ log \in [Topic -> Seq(Sender)]
  /\ sent \in SUBSET Sender
  /\ con \in [Topic -> {"new", "gone", "joining", "reading"}]
  /\ pos \in [Topic -> Nat] /\ stored \in [Topic -> Nat] /\ committed \in [Topic -> Nat]
  /\ hand \in [Topic -> SUBSET Nat] /\ \A t \in Topic : \A i, j \in hand[t] : i = j
  /\ crashes \in 0..MaxCrashes /\ revokes \in 0..MaxRevokes
  /\ handled \in [Topic -> SUBSET Nat] /\ caught \in [Topic -> SUBSET Nat]
  /\ lapsed \in SUBSET Topic

\* SendMessage is synchronous: it returns nil only when the message has its report, and
\* a message reported as delivered is in its partition.
ReportedBeforeReturn == \A s \in Sender : /\ spc[s] = "done" => report[s] # "none"
                                          /\ report[s] = "delivered" => InLog(s)

\* Although offsets are stored before the handler runs and committed at any time, also
\* when the partition is taken away, a message is passed over only if its handler was
\* running when the process ended.
LostOnlyInHand == \A t \in Topic : 1..pos[t] \subseteq handled[t] \union caught[t] \union hand[t]

\* Until an end of the process, or of the consumer's session, meets an offset that was
\* not committed or the handler at work, the handler of a topic gets each message once
\* and in the order of the log: offsets committed in the background, partitions taken
\* away and assigned anew and stops between two messages repeat nothing.
HandledOnce == \A t \in Topic \ lapsed : /\ handled[t] \union hand[t] = 1..pos[t]
                                         /\ handled[t] \intersect hand[t] = {} /\ caught[t] = {}

SenderReturns(s) == spc[s] = "wait" ~> spc[s] \in {"done", "dead"}

\* Also the producer that lost the race of two first senders is not closed, so that
\* whoever waits for its report gets it, unless the process ends first.
SendersReturn == \A s \in Sender : SenderReturns(s)

\* A call that waits is never stuck: its report has come and it can return, or there
\* is a producer that can still report on it, also one that was overwritten since.
WaitersCanGoOn ==
  \A s \in Sender : spc[s] = "wait" =>
    IF report[s] = "none" THEN ENABLED <<ReportOn(s)>>_vars ELSE ENABLED <<Return(s)>>_vars

\* What is in a partition gets to a handler, also when it was stored while no consumer
\* was there or the partition was taken from it, except what a crash caught in its
\* handler; but a consumer that could not be made stays away until the next start.
StoredIsHandled ==
  \A t \in Topic : \A i \in 1..Cardinality(Sender) :
    Len(log[t]) >= i ~> i \in handled[t] \union caught[t] \/ con[t] = "gone"

\* producer.go says "SendMessage will send message to the partition": a call that
\* returned nil should have put its message there.
ReturnedIsStored == \A s \in Sender : spc[s] = "done" => InLog(s)

-----------------------------------------------------------------------------
(* The promise of MessageBus, kept by producers, brokers and consumers together. *)

\* What the caller of SendMessage makes of its position.
Stage == [idle |-> "new", make |-> "begun", use |-> "begun", wait |-> "given",
          done |-> "returned", error |-> "refused", dead |-> "dead"]

busCall == [s \in Sender |-> Stage[spc[s]]]

Bus == INSTANCE MessageBus WITH to <- topic, call <- busCall, verdict <- report, next <- pos

\* However many producers the senders make, whenever offsets are committed, partitions
\* change hands and the process ends, callers and handlers see one log per topic that
\* is handed over in order, and a caller returns only with a verdict that is no false
\* success.
ImplementsBus == Bus!Spec
=============================================================================
