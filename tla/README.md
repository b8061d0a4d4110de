# Verification of ms-go-node

TLA+ modules for the four services of this repository, the TLC runs that check
them on small instances, and proofs, checked by TLAPS, of the properties that
matter most. Paths are relative to `src/`.

## The system

| part | state | operations | talks to |
|---|---|---|---|
| ws-service: chat hub (`hub.go`) | `rooms`, three unbuffered channels | register, unregister, broadcast, one at a time in one goroutine | the pumps, through channels |
| ws-service: connection (`client.go`) | websocket, `send` channel (256 slots), two goroutines | `readPump`, `writePump`, ping/pong deadlines | the hub, the peer |
| user-service: accounts (`user.service.ts`, controller, router, models, jwt, argon2) | collections users, sessions, devices | register, login, verify | MongoDB |
| user-service: router and logs (`appRouter`, `server.ts`, `logger/*`) | one log object per request, wrapped `res.send` and `res.json` | validate, run the handler, map the status, log | Express |
| go-service: gateway (`main.go`, `middleware`, `client`, `ms/ctx.go`) | per request: context, log objects | login, register, verify forwarded to user-service | user-service |
| go-service: Kafka (`ms/producer.go`, `ms/consumer.go`) | one lazily made producer, one consumer per topic | SendMessage, Close, consume loop | Kafka |
| customer-service: router and server (`appRouter/index.ts`) | routes with their schemas, open connections, timers | validate, run the handler, map the status; signal, graceful and forced stop | clients, the operating system |
| go-service: server life cycle (`ms/application.go`, `ms/router.go`) | listener, open connections | start, signal, graceful stop | the operating system |
| logs of go-service and customer-service | open or ended detail log, masking | add, end, autoEnd | files, stdout |

There are no tests in the repository; `user-service/client.http` and
`go-service/client.http` are the only descriptions of how the services are used.

### What is hard, and what must hold

* **Chat hub.** One goroutine serves every room, so a panic or a blocking send
  there stops the service. Members join, are evicted when their channel is full,
  and unregister, in every order and in the middle of a broadcast. Every member
  must see one gapless piece of its room's log, entries of `rooms` must not leak,
  failed connections must be torn down, and no sender may wait forever.
* **Accounts.** Node interleaves handlers at every `await`. A login writes two
  collections at once with `Promise.all`, which gives up at the first failure
  while the other write goes on. Two first logins race for the upsert. Users must
  be unique and never replaced, sessions must be earned with the password, a
  completed login must replace the sessions before it and so revoke their tokens,
  and tokens must not outlive their ten minutes.
* **Gateway.** Logs are dereferenced that nobody created; the answer races the
  client's timeout and the caller's context.
* **Kafka.** The producer is made lazily under concurrent senders; delivery
  errors are dropped; a message whose call failed may still be stored; offsets are
  stored before the handler has run; the consumers share one group, which takes
  partitions from them while handlers run; a consumer that cannot be made is silently
  missing.
* **Shutdown.** Three different procedures: one exits at once, one waits up to 5
  seconds, one starts a timer per signal.
* **Logs.** Service, controller and the wrapped methods of the response all end
  the same log, and Express's `send` and `json` call each other: every event must be
  written once. The summary's wrapper is put in place after the handlers began.
* **Validation.** The errors of one part of a request are looked for in another, and
  a handler's `statusCode`, which may be any number, is cut or filled up to three
  characters: what is answered must follow from the schemas, and a handler's success
  must not become an error because Node refuses its status.

`PROJECT.json` lists each hazard at its line, with the properties that cover it.

## Modules

| module | models | proofs |
|---|---|---|
| `RoomFeed` | abstract: a room is a log, a connection receives from it, in order, between joining and being cut off | |
| `AccountStore` | abstract: an email is registered once, a login with its password stores the one token that is accepted | |
| `MessageBus` | abstract: a call gives a message to a topic's log and returns with a verdict, a message may be stored late; handlers get the log in order and may be taken back, none is passed over unless a crash caught it in its handler | |
| `GracefulServer` | abstract: once told to stop, a server lets nobody in, goes down when all are gone or its grace is over, and cuts off only then | |
| `WsHub` | `hub.go` and `client.go`: the hub loop, both pumps of each connection, the network | `WsHub_proofs` |
| `UserAuth` | the three account handlers, MongoDB, restarts | `UserAuth_proofs`, `UserAuth_refusals`, `UserAuth_liveness` |
| `Gateway` | go-service's process: start, graceful stop, requests, the calls to user-service, with time | `Gateway_proofs` |
| `KafkaPipe` | producer, partitions, offsets and consumers of go-service, rebalances, ends of the process | `KafkaPipe_proofs` |
| `CustomerServer` | customer-service's `AppRouter` and `AppServer`: connections, validation, answers, the stop, with time | `CustomerServer_proofs` |
| `UserLog` | the detail log and the summary of each request to user-service, through the wrapped response | `UserLog_proofs` |
| `MC_*` | symmetry sets for TLC, and the routes of `MC_CustomerServer` | |

How they fit together: `WsHub` is composed of the hub and its connections and
implements `RoomFeed`; `UserAuth` implements `AccountStore`; `KafkaPipe` implements
`MessageBus`. `Gateway` and `CustomerServer` stop in quite different ways, with
goroutines and a channel or with timers and callbacks, and both implement
`GracefulServer`. `Gateway` sees user-service only as something that acts on
a request some time after it was sent (`Sent`, `Acts`); what acting means is
`UserAuth`. It sees Kafka only as a report that comes or does not (`Published`);
what the report is worth is `KafkaPipe`. `UserLog` takes what MongoDB and the service
at port 8080 do as a choice; `UserAuth` models the former.

### WsHub

`rooms` and `present` are `Hub.rooms` (a set of members per room, and which rooms
have an entry). `hub`, `m` and `todo` are the position of `Hub.Run`: in the
`select`, or in the `range` loop of a broadcast with the members still to be
offered the message. `rpc` and `wpc` are the program counters of `readPump` and
`writePump`, `send` and `closed` the buffered channel of a connection, `hand` the
message that `writePump` has taken off it, `sock` the websocket.

A step is what a goroutine does between two points where it can block. An
unbuffered channel is a rendezvous, so `HubRegister`, `HubUnregister` and
`HubBroadcast` are joint steps of the hub and a pump. The loop of a broadcast is
one step per member, `HubSend` or `HubEvict` as the channel has a free slot or
not, while the pumps go on. Closing a closed channel and sending on one set `hub`
to `"panicked"`. `PeerDrops` stands for everything that makes a websocket fail:
the peer, the network, and the read and write deadlines, whose times are not
modelled here. A message is the pair of its sender and a number, which the program
does not have and no guard depends on: it only lets the properties tell messages apart.
`log`, `join` and `delivered` are history variables that no guard reads.

### UserAuth

A request `q` has a call (`register`, `login` or `verify` with their data, or one
that is malformed or forged), a position `pc`, and for a login the states `dev`
and `ses` of its two concurrent writes. An action is what a handler does between
two awaits, joined with the operation of MongoDB that the await stands for where
nothing can come between that matters. The upsert of the session is two steps,
`MissSession` and then `InsertSession` or `DuplicateSession`, because MongoDB
looks for a match first and inserts afterwards, and its own retry does not apply
to an update that sets the queried field. `LoginReply` is `Promise.all`: it
answers when both writes are through, or as soon as one has failed, while the
other goes on.

An operation may fail without effect, or take effect and have its answer lost
(`FailOnly`, `FailDevice`, `FailSession`, `Outcome`). It fails with a `MongoServerError`
(`"refused"`, or `"E11000"` from an index) or with anything else (`"error"`, as when
MongoDB cannot be reached); the controller answers 400 for the former, whatever its
code, and 500 for the latter (`ErrorStatus`). `Verdicts` are the statuses with which
`Promise.all` can end, given what has become of the writes. `Stop` is SIGINT or SIGTERM:
`index.ts` exits at once, the clients are cut off (`reply = "reset"`), reads are
gone, and writes that were sent may or may not be carried out. A stop also stands
for the restart after it, since handlers keep nothing outside MongoDB.

Abstractions: hashing is an injective wrapper, so that a stored password is
distinguishable from a plain one; a token is the pair that is signed (email and
second of issue), which makes two tokens of the same second equal, as RS256 does;
names, user agents, the refresh token, which nothing reads, and logging are left out.
The unique indexes are taken to be built.
`earlier` (the requests that were all over when this one started) and `startedAt`
are history variables; `failed` (the requests of which an operation has failed) is read
by the bound on failures only.

`AccountStore` is what is left without MongoDB, hashes, awaits, faults and time: a
request asks, takes effect at one moment, and may then be granted. `accountPassword`
and `accountHolder` read its two maps off the collections; `accountStatus` reads a
request's status off its handler. A login whose client was answered an error may
still store its token, and an effect whose answer was lost is never granted. Expiry
is not part of it (`VerifySound`), nor are refusals (`RegisteredCanLogin`).

### Gateway

`main`, `sig`, `result` and `grace` are `application.Run`: the main goroutine, the
goroutine that waits for a signal, the channel between them and the time that the
context of `Shutdown` has left. Per request, `pc` is where its handler is: a
connection without a request, the middleware reading the body, `Call` in its
`select`, `Call` reading the response's body, or a health check that waits for
Kafka. `fly` and `box` are the goroutine that `Call` starts and its two channels,
`left` the client's timeout, `up` what user-service has of the request, and
`answer` what the client got, which is `"lost"` if it has hung up, `"late"` if the
write deadline has passed, `"cut"` if the process ended first and `"aborted"` if
the handler panicked.

For `GracefulServer` a request that has not begun is an open guest and one in a
handler a busy one; the process is stopping while Shutdown waits or has its result
still to hand over, and down once `main` has left. The process may be `Abrupt`: a signal
before `signal.Notify`, which runs in a goroutine of its own, ends it at once.

Time is counted in seconds: `Tick` moves `age`, `left` and `grace`, and is blocked
while a timeout is due or a goroutine can go on (`Quiet`), which says that the
goroutines' own work takes no time next to a second. Waiting for clients, for
user-service and for Kafka takes as long as they like.

Abstractions: a connection carries one request; a body that does not come
completely is malformed, since `json.Decode` rejects its prefix, and what a client
sends is malformed or well formed from the start; which field was missing does
not matter, all are answered 400. `LogInput` ends in the panic that the code runs
into; `Login`'s and `Register`'s calls behind it are never reached and have no
action, and `Verify`'s is the only caller of `Call`. An end of the process other
than by a signal or by `Run` returning is left out, in particular the panic of a
health check without a producer, which is in `KafkaPipe`. `before` is a history
variable.

### KafkaPipe

`spc` is where each call of `SendMessage` is and `prod` the one pointer `Producer.prod`
that all of them share. Making a producer is two steps, since the check for nil and the
assignment are not atomic; a producer is named by the sender that made it, and `queue`
keeps what each has still to report on, also when the pointer has been overwritten. `sent`
are the messages that a producer has taken: the broker may store each of them once at any
time, before the report, after a report of failure (`message.timeout.ms` is only enforced
locally, `ms/producer.go:163`), or after the process has ended.

`log` are the partitions, `pos`, `stored` and `hand` a consumer's position, its offset
store and the message its handler works on, `committed` what the broker remembers.
`con` is the consumer itself. `Consume`'s goroutine makes it and subscribes
(`Subscribe`), or ends without a word because `NewConsumer` failed, or waits for ever
because the error of `Subscribe` was dropped (`NoConsumer`, both `"gone"`). The group
assigns it the partition (`Assign`), from the committed offset on, and may take it away
again (`Revoke`): in good order, with a commit of what is stored, when another
consumer of the group joins or leaves, or without one, when its session is lost. The
handler goes on with what it has. `Restart` is any end of the process with the start
that follows: a crash, a signal (nothing closes the producer or the consumers), or the
panic of `NilProducer` in a goroutine of its own. It ends the calls under way; those
that have returned, with nil or an error, stay as they are. `ReportOn(s)` is the report
on the message of `s` by whichever producer has it.

For `MessageBus`, `busCall` forgets how a call gets its producer: both steps of making
one are part of having begun, and both ways to fail before the message is taken are a
refusal. Producers, queues, group membership, stored and committed offsets are not there
at all: an assignment of the partition is a `Rewind`, mostly to where the handler was.

Abstractions: one partition per topic; messages of a topic may be stored in any
order; the idempotent producer stores a message at most once; there is no clock,
so that `message.timeout.ms` (12 hours) only appears as the fairness of `ReportOn`;
`ReadMessage`'s errors only make the loop go round; one instance of go-service runs,
whose two consumers make the group rebalance, so that a partition taken away comes back
to the same consumer. `handled`, `caught` and `lapsed` (the topics where an end of the
process or of a session met something not committed or the handler at work) are history
variables.

### CustomerServer

`conn` is what each connection is doing: its client is sending a request
(`reading`), its answer is being sent (`writing`), it is kept alive (`idle`), it was
closed by either side or destroyed (`cut`). `Connections` is the set `connections` of
`listen`. No handler of the program waits for anything, so the steps from the
routes' validation to `res.send` are one action, one for each way to an answer:
`Malformed`, `UnknownURL`, `Reject`, `Handle`, `HandlerThrows`. A schema is the set of
values it accepts; `Checked` are the schemas `register` leaves a route with,
`Refused` the parts of a request they do not accept, and `Details` those for which
`validateRequest` collects an error, which is not the same. `timers`, `closes` and
`ended` are the timers of the signals, the callbacks registered for the server's
`close` event and the calls of `listen`'s argument. An exit is one step with what
comes before it, because nothing can come between. Later timers cannot run once
the process has exited; that is why a set of them is enough.

`close()` may close idle connections, as Node 19 does, or leave them, as Node 18
does. What the connections, the answers and the clients do after that is the same
as before, except that nobody can connect.

For `GracefulServer` a connection that is kept alive is an open guest, one with a
request or an answer on its way a busy one, and the server is stopping from the first
signal on, however many follow.

A handler's `statusCode` is any number of JavaScript: its integer part and whether that
is all of it (`Number`). `Status` is what `preRequest` makes of it: the first three
digits from 1000 on, one digit of a number so large that it is written with an exponent
(`Exponent`), otherwise the number filled up with zeros to three characters, a sign or
a point counted. Node then takes that modulo 2^32 (`x | 0`, `Wrap`) and throws a
`RangeError` if it has not three digits; the error handler answers 500 (`Handle` with
`by = "failure"`).

Abstractions: `res.download`, which no handler uses, logs, ids, the tracer, the
metrics middleware, and the 304 that Express makes of a 200 for a client that has the
same answer cached are left out. The program's two routes declare no schema and return
no `statusCode`; `AppRouter` is modelled for any that are legal. `by` and `waited` are
history variables.

### UserLog

A request's log is a record with the events in memory and those in records, and
each method of `DetailLog` and each wrapper is an operator from a log to the next:
`Add`, `End`, `Flush` (the wrappers, which end a log only if it has events),
`Summarise` (the middleware's wrapper, which has no effect before `Wrap`). `SendText`,
`Json` and `SendObject` follow the calls of the response through both wrappers and
Express, whose `send` passes an object to `json`, whose text passes to `send` again.
`pc` is the await a handler is at: in the service, in login's two writes, in a call
of `/healthz`, or it was left for ever.

Abstractions: masking, times, ids and the fields of the records are left out; what MongoDB
answers is a choice between `Succeed`, `Matched` with `Written`, `Deny` and `Fail`;
`/healthz` makes `HealthCalls` calls rather than 10000, each of which returns, fails, or
has no further step: `axios.get` has no timeout. `added` and `late` are history.

## Runs

| run | instance | what it shows |
|---|---|---|
| `hub_safety` | 2 connections, 2 rooms, channels of 1 slot, 2 messages each | the hub never panics; `rooms` is exact; feeds are gapless and ordered; WsHub implements RoomFeed |
| `hub_liveness` | 2 connections, 1 room, 1 message each | teardown, no sender starves, delivery |
| `user_races` | 4 requests, 1 email, 2 passwords, 2 seconds | sessions are earned; a login revokes the tokens of those before it; registered credentials log in |
| `user_restarts` | 3 requests, 2 emails, 2 seconds, 1 request whose operations fail, 1 restart | types; who registers wins; expiry; a login takes over; AccountStore is implemented also with lost answers and half a login |
| `user_liveness` | 3 requests, 1 email and password, 1 request whose operations fail, 1 restart | every request is answered or cut off, no write stays behind, and until then one of its own steps is enabled |
| `gateway_stop` | 2 requests of any kind, timeouts 1, 2, 3, 5 | types; what answers tell of user-service; whom a stop cuts off; no answer is late; Gateway implements GracefulServer |
| `gateway_liveness` | 1 request of any kind, timeouts 1, 2, 3, 5 | requests and calls end whatever clients and user-service do; the process stops |
| `gateway_forwards` | 1 request | a violation: well-formed logins and registrations are aborted (see the findings) |
| `kafka_pipe` | 2 senders, 1 topic, 2 ends of the process, 2 rebalances | types; which messages handlers may miss, and which they get again; senders that wait can go on and return, messages are handled; KafkaPipe implements MessageBus |
| `kafka_returns` | 2 senders, 2 topics, 1 end, 1 rebalance | a violation: a call returns nil and its message is nowhere (see the findings) |
| `customer_run` | 2 connections, 4 routes, 2 signals, a grace period of 3 | which numbers a handler returns become a status and which an error; what was checked of a request; the process ends; CustomerServer implements GracefulServer |
| `user_log` | 2 requests, 3 calls of a health check | types, with one answer at most; every event is written once and in order, and which answers have summaries; only a health check can stay without an answer |

**Bounds.** A channel of one slot is full after one message, so that eviction, which needs
256 in the program, happens with three. Two connections are the smallest number with a
bystander to an eviction; two rooms show that a room is not disturbed by another. Four
requests are a registration, two logins that race or follow each other, and a verification
of the older token, which is what `OldTokenRevoked` takes to violate; all other
combinations of four are included. `TTL = 2` with two seconds keeps both tokens valid in
`user_races`, `TTL = 1` lets those of the first second expire in the second one in
`user_restarts`. In `user_liveness` one password is enough, as a wrong one takes the steps
of an unknown email. The bounds `MaxSent`, `MaxTime`, `MaxFaults`, `MaxStops`,
`MaxCrashes` and `MaxRevokes` occur in guards of the actions named after them. The
timeouts 1, 2, 3, 5 stand for 1, 5, 10 and 30 seconds: the properties depend on their
order and on `ReadTimeout + CallTimeout < WriteTimeout`, which `TimeoutsAssumption` states
and the proofs use, and the small numbers let every timeout run out before, with and after
every other. Two requests are one that hangs, so that a stop runs into its deadline, and
one that is in any state meanwhile. Two senders are the smallest race for the producer;
two messages give an offset with one before it, two ends of the process allow a second
restart from what was committed after the first, and two rebalances a lost session after
an orderly one or before it. Topics share nothing but the process and its senders, so
`kafka_pipe` has one; the safety properties are proved for any number. For
customer-service, two signals are the smallest race of timers, three units of time let the
second signal come before, between and at the last moment of the first one's, and two
connections are one that ends and one that holds the stop up. The routes are the two of
`index.ts` and one with schemas of the kind `index.ts` declares (`:11`) and attaches to
nothing; its handler returns codes of each number of digits that `preRequest` treats
differently, whole and with a fraction. The handler of a fourth returns numbers that no
status can be made of, negative, fractions, with an exponent, and one that is a status
modulo `Wrap`, or throws; `Exponent` is 10^5 instead of 10^21 and `Wrap` 2^16 instead of
2^32, which `Status` treats in the same way. Two values tell a part that is accepted from
one that is not. Requests share no log, so two of them are enough for `user_log`, and
three calls have a first, a last and one between. The proofs do without all of these
numbers.

**Fairness.** Go's scheduler runs every goroutine that can run: weak fairness of the
pumps' own steps and of the broadcast loop. The runtime picks among the ready cases of a
`select` at random and serves a channel's senders in order: strong fairness of the hub's
three receives. For user-service: the driver gives up on an operation after its timeouts
and the event loop runs what is ready, hence weak fairness of each request's handler and
of its operations. Nothing is assumed of clients, peers, faults or signals. For the
gateway: the runtime runs what can run, time passes, and net/http enforces its timeouts
(`CallDue(q) /\ DoFails(q)`); nothing is assumed of clients, of user-service or of Kafka,
so a health check may hang for ever, which `EveryRequestEnds` therefore excepts and
`StopsWhenTold` does not. For Kafka: librdkafka reports on every message in the end, and a
consumer that was made is assigned its partition in the end and reads it; nothing is
assumed of commits and stores, nor that a consumer can be made. For customer-service:
timers run and callbacks are called (`Tick`, `Exit`, `ForceExit`); nothing is assumed of
clients, connections or further signals, so `ShutdownEnds` holds with a client that never
ends its request. For `UserLog`: an operation of MongoDB returns or fails, as the driver
does after its timeouts; nothing is assumed of the calls of a health check, which have
none. Each property of each run has a mutant of the code that violates it; the mutants
stand next to the definitions they change.

## Proofs

All hold for every value of the constants, and assume only what the modules
assume of them (`MaxSentAssumption`, `CapAssumption`; `BoundsAssumption`, that the
bounds are natural numbers; `TimeoutsAssumption`; `SendersAssumption`, that
background senders are senders and nil is none; `RoutesAssumption`, that schemas are of
the three parts and codes are numbers, `NumbersAssumption`, that below the exponent some
power of ten cuts a number to three digits, which 10^21 and its powers satisfy, and
`GraceAssumption`; `HealthCallsAssumption`). The two theorems about liveness have one
hypothesis more each, which is named with them below.

**WsHub_proofs.** The types are proved (`TypeCorrect`) and not part of a run. `HubInv`
strengthens the checked invariants to an inductive one. `HubNeverPanics` is not inductive:
it needs `MembersOpen`, that the channel of a member is open and that of somebody who left
is closed, together with `Joining` (who is not registered yet has neither) and
`Broadcasting` (the members still to be offered a message are members of that room).
`ContiguousFeed` needs `OneInHand` and `Follows`, which count what has left the hub for a
connection. `Implements` maps each step of the hub and the pumps to a step of `RoomFeed`
or a stutter: `feedStatus` is member, outside or cut, `feedLimit` is the end of what is
still in the channel when it is closed. `PostedInOrder` says what the logs hold without
naming a recursive operator, so that it can be proved: entries of one sender have
increasing numbers, and exactly the numbers taken so far occur (`PostInv`, with `HasRead`:
who sends has read). `NeverWaits` adds `WithinCap`, that a buffer holds at most the
channel's capacity, and with it says that a broadcast's `select` always has a case that is
ready: the hub does not block on a member.

Three theorems say what the people in a room may rely on. `MembersAgree`: any two
connections have what both of them got in the same order, and nobody has a message
twice; it follows from `Contiguous` and `Posted`, since both pieces come from one log in
which no message occurs twice. `LagIsBounded`: a member is at most `Cap + 2` messages
behind its room before it is evicted, one being in writePump's hand (`HandsFew`) and one
in the broadcast under way; TLC reaches `Cap + 2`, so the bound is exact. `ClosedForGood`,
an action property: from the close of its channel on, nothing is added to what a
connection gets, and it is never a member again.

**UserAuth_proofs.** The type invariant needs `Stages`: which call a handler at
each position serves, since only some calls have an email, a password or a token.
`Kept` says what a step leaves alone (the call of a request under way, signed
tokens, settled requests, stored users), and one lemma per variable says which
action changes it and when. On these rest the parts of `UserInv`:

* users come from registrations and are unique, because `Create` tests the index;
* what `findOne` returned is still stored, because users are never replaced: the
  stale read of `login` is harmless (`FoundSound`, `TokensSound`);
* a request that is over stays over (`Past`) and so cannot replace the session of
  a login that started later (`WritesDone`), which gives `LoginTakesOver`;
* with one session per email that the signing login wrote (`SessionsSound`), the
  session found for an old token would be of a login before, and there is another
  of a login that was not: `OldTokenRevoked`.

`Implements` maps `Create` to `Register`, the session's update or insert to `Store`,
`LoginReply` to `Grant` and `Lookup` to `Accept`, everything else to a stutter. `Sign`
needs `FoundSound`, that what was read two awaits ago still holds, and `Accept` needs
`TokensSound`, that a token of another email cannot match.

**UserAuth_refusals.** The properties of `UserAuth` say what a 200 stands for; this module
proves that every other answer has its reason, so that nobody is refused who could have
been served. TLC checked each formula on the runs' instances before it was proved.
`ErrorsHaveReasons`: a request is answered 500 only if an operation of its own failed; a
registration or login is answered 400 only if that is so, which includes any
`MongoServerError`, or if another registration made the email's user or another login
wrote the email's session, and a verification only if its read failed; a login is answered
404 only if no user that was there before it has its password, which is stronger than
`RegisteredCanLogin`, as the user's own registration may have been answered an error;
without a stop no client is cut off. (A body that its schema refuses is answered 400 as
well and is none of these calls.) `NoSpuriousLogout` is the converse of `OldTokenRevoked`:
a token of a login that was answered 200 is refused before it expires only if another
login of the same email, not over when that one started, has signed one. Such a login need
not have been answered 200, which is the hazard at `user.service.ts:80`: the theorem says
that nothing else logs anybody out. `ReplyIsFinal` is an action property: no answer is
changed by the other write of `Promise.all` or by a stop. `RefusalInv` adds to `UserInv`
that who made a document is done with it (`MadeByDone`), so that a request is never
refused for its own document; that a write has failed because of MongoDB or with its
handler (`FailureSeen`); that E11000 still means a session of the email, since sessions
are only replaced (`Taken`, `SessionStays`); and that `findOne` returned who was there
before (`FoundBefore`).

**UserAuth_liveness.** `Answered` says that a handler which is through has answered and
one at `Promise.all` has sent both writes; so with none on its way `Verdicts`, of which
`LoginReply` takes one, is not empty (`ReplyHasItsCase`), whichever write failed and
with whichever error. `ForwardStep`,
`MongoStep` and `HandleStep` say that no step takes a request back, and that its own
steps take it on or make `Left`, the steps its writes still need, smaller; at most six
fair steps (`OneSettles`) then bring any one request to its end, and `AllSettle` is that
for all.

**Gateway_proofs.** None of the properties is inductive. `Untouched` says that a request
has no call and all its time before its handler begins one, `Settled` that an answer is
the end of a request, `Truth` where user-service is when its answer is in a channel or
being read; with them `AnswerTells` is kept. `InTime` bounds the time a request has used
plus the time its call may still take by `ReadTimeout + CallTimeout`: a tick takes from
the one what it adds to the other, and `NeverLate` follows. `Survives` does the same
between a call and `Shutdown`: both count down together, so the call stays ahead, and when
`Shutdown` gives up no call that it found under way is left. `Life` ties the two
goroutines of `Run` together, which gives `CutOnlyByDeadline`. There is one lemma per
part, with one step per action. `Implements` maps `Signal` to `Stop`, `Tick` to `Wait`
while Shutdown waits, `RunReturns` to `GoDown` or, after the deadline, to `Force`, and
what requests do to `Serve`; it needs `GaveUp`, that a Shutdown that gave up had no time
left, because Shutdown decides and Run acts on it in two steps. `ResultIsOwed` says that
nobody waits in Call's `select` for a goroutine that has ended (`Owed`), and bounds with
`InTime` how long.

About time two more things are proved. `EndsInTime`: a handler that is no health check is
never older than `ReadTimeout + CallTimeout`. `NoTimeLock`: until the process exits, the
clock may move or some timeout or result is there to be acted on, so that no bound on time
holds only because time stands still. `AnsweredOnce` is an action property: the first
answer of a request, also that it was lost, late or cut, is its last. And
`CredentialsNeverForwarded` (with `Unforwarded`) gives the finding of `gateway_forwards`
its full extent: whatever the constants, no well-formed login or registration reaches
user-service or is answered a status.

**KafkaPipe_proofs.** `PipeInv` adds to the checked invariants `OffsetsOrdered`: neither
the offset store nor the broker is ahead of what was handed over. `LostOnlyInHand` needs
it because a consumer that is assigned its partition takes the committed offset for its
position. That a partition only grows (`LogGrows`) keeps `delivered` true. `Queued` says
that a message is with exactly one producer from the call of Produce to its report, also
after `Producer.prod` was overwritten, so that a verdict is not given twice, and that only
what a call gave was sent: `Implements` needs the one for `Tell` and the other for
`Store`, whose guard in `MessageBus` is no more than that the message was given and is not
stored yet. A restart is `Crash` and an assignment of the partition `Rewind`, since
`OffsetsOrdered` bounds where they take a consumer back to.

Three theorems say where messages may come twice. `OnceEach` (`HandledOnce`): until an end of
the process, or of a session, meets an offset that was not committed or the handler at
work, what was handed over is exactly the entries up to the consumer's position, each
handled or in the handler once and none caught, through any number of orderly rebalances
and of stops in between. It needs `Settled`: a consumer that reads has stored what it read
last, or has read nothing since it was assigned its partition, and one that does not read
will begin where it left off. `CommittedIsPast`, an action property: through all ends,
sessions and assignments, a committed offset never goes back and nothing up to it is handed
over again. `StoredOnce` (`SentOnce`): a message is in one partition entry at most, of
the topic of its call, and its call was not answered an error by `SendMessage`; so a
repetition is always the same entry read again.

**CustomerServer_proofs.** `Clock` ties the oldest timer to the time since the first
signal: until the exit their sum is the grace period, and no timer has less left, which
gives the exact moment of the forced exit however many signals came. `Ends` says that
connections are destroyed only by that exit, and that a graceful one finds none open.
`Implements` maps the first signal to `Stop` and every later one to a stutter;
`TimersSet`, that there is a timer exactly if there was a signal, gives `Clock` for the
stop, and by itself that the forced exit is set (`ForcedExitIsSet`). `AnswersChecked` is
kept because an answer's request, status and source change together. `StatusesSendable`
holds for every number a handler may return, negative, fractional or beyond the exponent:
those that are `Plain` become a status with three digits (`StatusPlain`, with
`ThreeDigits` for what `slice` leaves and `BelowModulus` for `x | 0`), so a success is
answered as an error only if its number is not `Plain`, and then with 500.

**UserLog_proofs.** A lemma per operator says what it keeps of a log: what was written
followed by what is in memory is what was added (`Kept`). `Open` is a log whose answer
is to come, `Closed` one whose answer is out, with its summaries; `JsonCloses` and
`SendObjectCloses` go from one to the other. `LogInv` says which of them a request is
in at each point of its handler, and that the middleware's wrapper is there as soon as
an await is reached; a step is then a composition of the lemmas (`ReplyInv` for every
answer of the router). `OnlyHealthIsLeft` is the safety part of
`AnsweredUnlessHealth`: a request has been answered exactly if its handler is through,
and only a health check gives up without (`LeftHealth`). That no other waits for ever is
the run's.

**What is only model-checked.** Two things keep liveness from being proved here.
The prover takes `ENABLED` for an opaque formula, and it has no induction over time, so a
leads-to can be proved only if it takes a number of steps that is known beforehand.

* `SendersReturn` and `AnsweredAndSettled` take such a number: a call's report and its
  return; a handler's awaits and its two writes. They are theorems (`Returns`,
  `AllSettle`) under the assumption that the owed steps are enabled: `WaitersCanGoOn` and
  `NobodyStuck`, state invariants that the runs `kafka_pipe` and `user_liveness` check.
  What can be said of the guards without `ENABLED` is proved with no assumption
  (`OwedReport`, `ReplyHasItsCase`).
* The others count something down whose length is not known, and stay with TLC: members
  still to visit in a broadcast (`TornDown`, `SenderServed`), messages in a buffer
  (`PostDelivered`, `StoredIsHandled`), seconds of a timeout (`EveryRequestEnds`,
  `CallsEnd`, `StopsWhenTold`, `ShutdownEnds`), operations and calls of a request
  (`AnsweredUnlessHealth`). For the hub, `NeverWaits` proves that each visit can be made,
  and for the two stops, `ImplementsStop` proves when they may end and what they must wait
  for; `ResultIsOwed` and `ForcedExitIsSet` prove that the timeouts they wait for are
  running, `EndsInTime` and `NoTimeLock` that the gateway's are kept, and
  `OnlyHealthIsLeft` who may be left at the end.

`ReportedBeforeReturn`, `CutOnlyByDeadline` and `ShutdownSound` have no run of their own:
they are theorems, and the refinements that the runs check imply what they
say of calls and clients. No operator of the modules is recursive.

## Findings about the code

* **Well-formed logins and registrations crash in the gateway** (`gateway_forwards`,
  `WellFormedAnswered`). `Login` (`go-service/main.go:129`) and `Register` (`:179`) call
  `c.AddInputLogClient`, which uses `c.Log` (`ms/ctx.go:69`). Nothing sets `c.Log`, so
  `AddEvent` dereferences nil (`mlog/mlog.go:113`), the handler panics and net/http
  closes the connection. `go-service/client.http` registers, logs in and takes the
  tokens from the answer.
* **SendMessage does not look at its delivery report** (`kafka_returns`,
  `ReturnedIsStored`). `ms/producer.go:65` receives the report and drops it; the call
  returns nil although the message may be in no partition, while the comments at
  `:10` and `:37` say that it sends the message, synchronously.

Two behaviours that no statement of the repository contradicts are listed as
hazards: a login that was answered an error may still replace the session later
(`user.service.ts:80`), and two racing first logins can give one of them 400 "User
already exists" (`user.service.ts:85`).

Others are shown by the models without a run of their own:

* A body or query that its schema refuses reaches the handler if the params would
  pass that schema (`customer-service/src/appRouter/index.ts:219`, `:232`: both collect
  `Errors(req.params)`). `AnswersChecked` therefore speaks of the params only. No route
  of the program declares a schema.
* The argument of `listen` is called at the exit (`:488`, `:498`), while `index.ts:62` uses
  it to report that the server is running.
* Requests to user-service that are answered without an await (unknown URLs and bodies
  refused by a schema) and those that cannot be parsed leave no summary; every other
  answer that is an object leaves two (`server.ts:44`, `SummaryOfLateAnswers`).
* A health check of user-service one of whose calls fails, or hangs, is never answered
  (`server.ts:60`, `AnsweredUnlessHealth`): Express 4 ignores the rejection, and
  `axios.get` has no timeout.
* A handler's success with a `statusCode` that is negative, a fraction below 100 or beyond
  10^20 is answered 500, and 5 is answered 500 as well, since it is filled up to that
  (`customer-service/src/appRouter/index.ts:292`, `StatusSendable`).
* A consumer of go-service that cannot be made, or whose subscription fails, is missing
  until the next start, and nothing says so (`ms/consumer.go:67`, `StoredIsHandled` with its
  exception).

## Not modelled

* `user-service/src/logger/detailog.ts`: only the second `/healthz` of `server.ts` makes
  such a log, and the first never passes a request on. `AppServer` and the Swagger
  generator of user-service's router are not used either.
* The logs of customer-service: its class is a copy of the one in `UserLog`, used in a
  straight line by one handler. The tracer has no effect on an answer.
* Detail and summary logs and metrics of the gateway: their panic for want of a log is
  in `Gateway`; the rest is written to files and read by nobody.
* The masking functions are recursions over nested data with no state.
* Ping period and deadlines of ws-service's connections: `WsHub` has no clock, a
  websocket fails at any time. That a peer which answers is never dropped is a
  statement about network delays that nothing in the code bounds.
* Configuration, container files, `PostForm`, `microservice`, `getUser` and
  `consumeMultiple` (never called).

What could follow: a clock for `WsHub`.
