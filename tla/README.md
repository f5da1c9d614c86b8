# A verification of go-messaging-amqp

TLA+ models, TLC runs and TLAPS proofs for the AMQP transport in this repository:
a Go library that lets services publish and consume events, requests and responses
over RabbitMQ. The modules follow the Go source; `PROJECT.json` gives, for every
definition, the lines it stands for.

## The system

| Component | State | Operations | Where it is hard |
|---|---|---|---|
| Publisher (`setup_publisher.go`, `outbox_adapter.go`) | mutex, AMQP channel, `confirmCh` | `setup`, `Publish`, `PublishRaw` | many goroutines share one confirmation channel; calls are cancelled while their confirmation is on the way; the library's reader goroutine blocks when nobody drains `confirmCh` |
| Consumer loop (`consumer.go`, `handler.go`, `notifications.go`) | the deliveries channel, the delivery at hand, counters | `consume`, `loop`, `handleDelivery`, `rejectOrNack` | redelivery after a lost link, crashes between handler and ack, single active consumer with prefetch, full notification channels, messages that fail each time, the queue's delivery limit and expiry |
| Connection (`connection.go`, `setup.go`, `setup_consumer.go`) | `started`, the connection, its channels, configuration, loops | `Start`, the Setup functions, `startConsumers`, `Close`, close listeners | `Start` fails half way and is called again; configuration is copied before it is set; the connection is lost, or the broker closes a channel, at any point, and nobody reads the error |
| Handler registry, bindings and names (`routingkey_handlers.go`, `queue_binding_config.go`, `naming.go`) | pattern to handler, per queue; exchanges, queues and bindings at the broker | `add`, `exists`, `get`, the declarations and `QueueBind` | `get` ranges over a Go map; queues and bindings outlive the process and meet other versions and other services |
| Topology export (`topology_export.go`) | the recorded endpoints | `CollectTopology`, `Topology` | it runs the Setup functions on a second, hand-made `Connection` |
| Request/response (`request_response.go`) | the shared response channel | `RequestResponseHandler`, `PublishServiceResponse` | unconfirmed responses, a response sent before the ack of its request, one that cannot be sent |
| Headers and tracing (`headers.go`, `tracing.go`, and the header code of publisher, outbox adapter and consumer) | header tables | normalising, injecting, extracting | three spellings of CloudEvents keys, copied in map order; headers passed on from other messages |
| Metrics (`metrics.go`) | the routing key mapper, nine collectors | the event functions, `InitMetrics` | `InitMetrics` may run beside events, and fail half way |
| TCK adapter, public types | none | test harness, declarations | see "Not modelled" |

How they interact: `Start` opens the response and setup channels and runs the Setup
functions in order; a publisher Setup function gives its `Publisher` an AMQP channel
of its own, a consumer Setup function registers a handler and declares and binds the
queue. `startConsumers` then gives each queue a channel and a goroutine that loops
over its deliveries. All channels of a connection share the AMQP library's one reader
goroutine, so that whatever blocks it (a full `confirmCh`, a `NotifyClose` listener
nobody reads) blocks them all. The library never reconnects; `CloseListener` is meant
to let the application end and be restarted.

What makes each part correct:

* a call of `Publish` returns, and answers for the message it published;
* a message leaves its queue only after its handler has succeeded, because it can never
  be handled, or through what the queue was declared with (a delivery limit, an expiry),
  and it does leave; nothing delivered is forgotten or settled twice;
* `Start` either fails or leaves one loop on every queue, with all handlers in place;
  `Close` ends the loops; the loss of the connection is reported; and it is known what
  can keep `Start` and `Close` from returning;
* the handler a message gets does not depend on chance, and a running consumer has its
  queue, arguments and binding at the broker, whoever else declares there;
* a request that leaves its queue has been answered, to the service that asked and in
  its trace; what repeats or is lost, is so because a link was lost or an answer could
  not be sent;
* metrics carry only the labels the mapper gives, and agree with each other.

## Modules

| Module | Models | Checked by | Proofs |
|---|---|---|---|
| `Publisher` | one publisher, its callers, the library's confirmations and the end of the channel | `MCPublisher`, `Publisher*.cfg` | `PublisherProofs` |
| `PublishContract` | what a publisher promises, without mutex, channel or buffer, and when the promise is void | refined by `Publisher` | `PublisherProofs` |
| `Consumer` | one queue, the replicas that consume it, their loops | `MCConsumer`, `Consumer*.cfg` | `ConsumerProofs`, `ConsumerBoundProofs` |
| `Connection` | one `Connection` through `Start`, failure, retry, `Close` and loss | `MCConnection`, `Connection*.cfg` | `ConnectionProofs` |
| `Topology` | several processes, of several services and versions, that declare, bind and consume on one broker; `CollectTopology` | `MCTopology`, `Topology.cfg` | `TopologyProofs`, `TopologyBrokerProofs` |
| `Headers` | the header tables of `Publish`, `PublishRaw` and responses, and how consumers read them (operators only) | through `RequestResponse` | `RequestResponseProofs` |
| `RequestResponse` | composition: the wrapped handler on top of an instance of `Consumer`, responses and the callers' queues | `MCRequestResponse`, `RequestResponse.cfg` | `RequestResponseProofs` |
| `Metrics` | mapper, collectors, events and `InitMetrics` | `MCMetrics`, `Metrics.cfg` | `MetricsProofs` |

### Publisher

`mu` is `p.mu`, `confirmCh` the buffered confirmations (by delivery tag), `wired` that
`setup` has run. A caller goes through `pc` = idle, locking, locked, waiting; its steps
are `Call`, `Lock`, then one of `Refuse`, `SendFails`, `Send`, `SendUnconfirmed`, then
one of the cases of the select: `Receive`, `ReceiveClosed`, `CtxDone`. `Publish` and
`PublishRaw` differ only in when they refuse (`kind`). `mode` is the combination of
options the publisher was made with. Messages are their delivery
tags; headers are in `Headers`, payloads have no influence on any property.

The library and broker are external: `Verdict` (an ack or nack arrives, in any order),
`Deliver` (confirmations are handed over in tag order, one at a time, into a buffer of
`ConfirmCap`), `Close` (a graceful end closes `confirmCh`) and `Lose`. After an abnormal
end `confirmCh` is *not* closed: the library reports the error to the channel's
`NotifyClose` listeners first, and `amqpConn.channel` registers an unbuffered one that
nobody reads. For the same reason a `PublishWithContext` on such a channel may return an
error (`SendFails`) or never return, with `p.mu` locked: no fairness is assumed of it.

History variables: `abandoned` counts calls that left through `ctx.Done()`, `stolen`
confirmations taken by a monitoring goroutine, `read[t]` is the confirmation the call
that published `t` has read, `reported[t]` what it returned.

`ImplementsContract` says that the publisher implements `PublishContract`, in which calls
are served one at a time and each answers for its own message. The mapping gives `void`
the value "confirms are off, or a call was abandoned, or a confirmation was stolen": the
contract itself says that giving up, or taking somebody's answer, voids the promise.

### Consumer

The broker's side is `owner` (who holds a message unacked), `gone` (acked or discarded)
and `active` (the single active consumer). A replica has a `link`, a `buffer` of
deliveries and a loop: `Take`, then `NoHandler`, `HandlerSucceeds` or `HandlerFails`,
then `Settle` or `SettleFails`. `Lose` leaves buffered deliveries behind to be handled
(their settlement fails), `Leave` (`Connection.Close`) drops them, `Crash` loses the
process at any point, `Restart` replaces one without a link. A message the broker takes
back, on a Nack with requeue or with a lost link, returns to its original place, unless it
has been taken back `DeliveryLimit` times before (`Returned`): the queues are quorum queues
declared without `x-delivery-limit`, and RabbitMQ 4, to which the repository's compose
file and CI are pinned, then drops a message after 20 returns. `Expire` is `x-expires`: a
queue nobody consumes from is deleted with its messages. `Unrouted`, `Unparsable` and
`Untyped` are the messages that end in `Reject(false)` or `Nack(false, false)`; any other
may succeed or fail at every attempt. `failed` counts the handler's errors, `open` is
`amqp_events_received` minus the counters of ended deliveries, `ackExtra` is `amqp_events_ack` minus the acks that reached the broker.

### Connection

`pc` walks through `Start`: dial, response, setup, options (with `opt`, the Setup
function it is at), register, consume. Each step has its success and its failure;
`Fail` undoes nothing, as the code does not. `captured` holds the fields of `amqpConn`,
copied when it is dialled. `Lose` may happen anywhere.

An error on a channel goes to its `errChannel`, unbuffered and without a reader unless
`captured` has a listener, and with it the library's one reader goroutine stops. What
follows from that:

* `Hang`: the connection is lost during a call that waits for the broker;
* `Refused`: the broker refuses a declaration or a consumer and closes the channel, while
  the connection stays open;
* `ChannelError`: the broker closes the channel of a running consumer; from then on the
  connection is `Stuck`, and later calls of `Start` that need an answer do not get one
  (`Stall`; on a lost connection they may find the library's lock taken);
* `CloseHangs`: `Close` waits for the answer to the close of a consumer channel, after
  such an error or a loss, and does not get as far as closing the connection.

A `Start` or `Close` that waits for ever has `pc` = "hung". Only a part of the consumer loops may end then
(`Ended`).

`ChannelMax` is small, so that channels run out. A service is a sequence of Setup functions, each a record; `setups` is the one being
started, chosen from the constant `Services`. A function the application wrote itself
(`Custom`, `CustomFails`) may fail once and succeed the next time, which those of the
package do not. `attached` counts the channels each `Publisher` has registered its
`confirmCh` on: the library closes it once for each, so that `Close` ends in "panicked"
if there are two.

### Topology

A process runs a deployment: a service name and its Setup functions. `at` is the Setup
function `Start` is at and the stage of it: a consumer registers its handler
(`Add`, `AddRefused`), declares exchange and queue, and binds (`Bind`), which also
records the endpoint; a request consumer first declares the response exchange; a
publisher declares its exchange and is wired. Then `Consume` takes the registered queues
one by one. `AddRefused` and `Custom` make `Start` return an error ("failed") that `Retry`
may follow; what the *broker* refuses (a queue with other arguments, a binding of a queue
that has expired) leaves `Start` waiting for ever ("stuck"), for the error goes to a
`NotifyClose` channel without reader. The broker keeps `exchanges`, `queues` with
their arguments, and `bindings`; an unused queue expires (`Expire`).

Names are records of the parts the code joins. Service names and suffixes are
sequences of words, concatenated, since all are joined by dashes: "order" with suffix
"service" and "order-service" meet in one queue. The random part of a transient queue's
name is the deployment, the call of `Start` and the Setup function that made it.

`Assigned` is the assignment to the map of a queue's handlers, which would replace one of
the very same key. `Routes` is the broker's: topic exchanges match patterns, the direct
exchange of requests compares keys, and the headers exchange of responses brings a service
every response meant for it, whatever its key.

`Get` is a set: the handlers the map iteration may return. `Matches` and `Overlaps` stand
for `MatchRoutingKey` and `RoutingKeyOverlaps` of the spec module, which is not in this
repository; `OverlapAssumption` states what `add` needs of them, and the run instantiates
them with AMQP topic matching.

`CollectTopology` is what running the Setup functions on the no-op channel comes to: a
consumer is accepted if its options are valid and it overlaps with none before it on its
queue (`Accepts`), and every function but the application's own appends one endpoint. The
list is given by places: the endpoint of a function comes after those of the recorded
functions before it (`Place`).

### Headers and RequestResponse

A header table is a function from keys to values, a key a pair of prefix and name. A
CloudEvents attribute has three spellings: `ce-`, `cloudEvents:` and `cloudEvents_`. The
consumer accepts all of them, and `NormalizeCEHeaders` is the *set* of values an attribute
may then have; publishers rename only the first. `PublishRaw` is a set of tables, for it
copies in map order; `publishMessage` is not, because a `cloudEvents:` key always wins
there.

`RequestResponse` instantiates `Consumer` as the request queue and refines one of its
steps: what `Consumer` calls `HandlerSucceeds` is here `Handle` (the application returns)
and then `Respond` (the response is written), `RespondFails` (it does not marshal, or the
response channel or the connection is gone; the request is requeued) or `NoSender` (the
request names no service, and is requeued). `flight` are the responses on
a replica's link, lost with it (`Unlink`, `Crash`); `Route` is the headers exchange
followed by the caller's consumer. The requests of a behaviour are published beforehand
in the ways of one of `Batches`. History variables: `handled`, `unsent` (responses that failed on a live link), `inbox`,
`lost`.

### Metrics

An event maps its routing key and increments its counter; some then map again, because
the code does, and observe a duration. `InitMetrics` stores the mapper, then resets and
registers one collector at a time; `RegisterFails` is any error but "already
registered". `overlap` records that an event ran beside the last call.

## Runs

Passing runs:

| Run | Bounds | Shows |
|---|---|---|
| `publisher_safety` | 3 callers, 4 messages, buffer of 1, every combination of options, any caller may cancel, both faults | answers are right until the first abandoned call; then the drift is exactly the abandoned calls less the confirmations a monitor took; a stall of the connection needs more abandoned calls than `confirmCh` has room; the publisher implements `PublishContract` |
| `publisher_live` | 2 callers, 3 messages, with and without confirms, both faults | a call that waits for its confirmation returns if all callers have deadlines, lost channel or not, and any call does while the channel is not lost; without deadlines every call returns if the broker answers and the channel is not lost |
| `consumer_safety` | 2 replicas, 5 messages of every sort, prefetch 2, single active consumer, delivery limit 1, 2 losses | at-least-once up to the delivery limit, own settlements, nothing forgotten, duplicates and miscounted acks only after losses, balanced metrics, one live replica at a time |
| `consumer_live` | 2 replicas, single active consumer, prefetch 2, a window of 2 messages that may fail each time before an unparsable one, delivery limit 1, 2 losses | the poison message is rejected, and every message leaves |
| `connection_start` | seven services, two queues, 6 channels, 3 calls of `Start` | one loop per queue, all or an error, handlers before deliveries, a broken service never consumes, `Start` returns and `Close` ends the loops unless the connection is lost or a channel is closed with an error, `Close` panics only for a publisher set up twice, a loss is noticed |
| `topology` | 2 processes, 3 deployments out of nine (five patterns; versions that change bindings or arguments, some that never start, one that only publishes, a client and its server), 2 calls of `Start` each | dispatch is unique, events and requests find no handler only through foreign bindings, a running consumer is backed by the broker, one Setup function handles an event twice only after a retry, responses have their exchange, the exported topology is the real one |
| `request_response` | 2 replicas, single active consumer, prefetch 2, 3 requests, delivery limit 1, 1 loss, 3 batches | an acked request is answered, repetitions need a loss or an answer that could not be sent, answers go home and in their trace, ids are kept as far as stated, every request that can be answered is, unless its answer is lost, it is dropped or the queue expires |
| `metrics` | 2 goroutines, 2 events, 2 calls of `InitMetrics`, 2 mappers | after a call that met no event only its labels are in use and counters match histograms |

The bounds suffice for the cases to happen: three callers give one that waits, one
behind the mutex and one that cancels; four messages show a drift of two after it has
happened; a second loss hits a replica that handles what the first one requeued; three
calls of `Start` are a failure, its retry and one more. The services of `MCConnection`
are a full one, one with a channel too many for `startConsumers`, one that only
publishes, one with overlapping consumers, one with an invalid option, one with a Setup
function of its own and one that passes a `Publisher` to two Setup functions. Three
deployments on two processes are two that run together and a replacement for one of them.
In `consumer_live` the two messages in front fill the window of the active replica; a
limit of one lets each fail once, return and fail again, and two losses exceed it. In
`request_response` each batch has a window of two requests that name no sender before
the third, which comes from `Publish` or out of an outbox; one loss suffices for a
response to be lost or repeated (`MaxLosses` bounds the repetitions, and
`RepeatsNeedLoss` is stated relative to it). In `metrics` a call of `InitMetrics` can fail
after the other has succeeded, with an event before, between and beside them.
`CHECK_DEADLOCK FALSE` is given where the system may come to rest: when all messages
have left and the losses are used up, when `Start` hangs or its calls are used up, in
`Topology` and `Metrics` when the deployments, events and calls are used up, and when
every caller waits for a stolen confirmation.

Runs that end in a violation, each of a sentence in the documentation or a comment
(`PROJECT.json`, findings, quotes it):

| Run | What the code does |
|---|---|
| `publisher_stale_confirm` | after a cancelled call, `Publish` returns nil for a message that is not acked |
| `publisher_stolen_confirm` | with the documented monitoring goroutine, `Publish` may wait for ever |
| `consumer_order` | single active consumer does not keep order across a requeue |
| `connection_options` | `WithPrefetchLimit` has no effect, and `CloseListener` is not told of channel errors |

The passing properties also mark where the code stops short of what a reader of the
documentation may expect:

* `StallNeedsAbandons` is tight: an *idle* publisher with `ConfirmCap + 1` abandoned
  calls blocks the reader goroutine, and so every channel of its connection.
* `DeadlinesReturn` needs a deadline on *every* caller: the mutex is taken without
  regard to the context, so that a cancelled call can be stuck behind one that waits. And
  after the channel is lost it says nothing of calls that have not got to waiting: one may
  be stuck in `PublishWithContext`, and the others behind it.
* `LeavesForAReason` and `EveryMessageLeaves`: a message whose handler keeps failing is
  dropped by the broker after 20 returns, to the dead letter exchange if there is one;
  nothing in the library ends the retries. On a broker without a default limit they do not
  end, and a prefetch window of such messages holds up the whole queue of a single active
  consumer: there neither `PoisonLeaves` nor `EveryRequestAnswered` would hold.
* `publisher_live` leaves out `WithConfirm` together with `WithoutPublisherConfirms`:
  such a call waits on a channel that was never registered.
* `AckMetricError` bounds what `amqp_events_ack` counts too much; it is not zero.
* `OneLiveReplicaAtATime` speaks of live links: a replica whose link is lost goes on
  handling what it has buffered while the broker has activated another.
* `LossIsNoticed` speaks of services with consumers: a service that only publishes is
  not told of a loss between the end of its Setup functions and `NotifyClose`, for
  `NotifyClose` on a dead connection only closes the listener's channel.
* `ClosedConnectionStops` speaks of a started connection: after a failed `Start`, `Close`
  does nothing, and loops that `startConsumers` had started go on. It also excepts a lost
  connection and one on which the broker has closed a channel with an error: there
  `Close` may wait for ever in the close of a consumer channel, and the other loops go on,
  though `docs/connection.md` says that it "stops all consumers".
* `StartReturns` leaves out a lost connection and an error of a channel, and `Topology` has
  processes that are stuck: a declaration the broker refuses closes the channel, and since
  the close listener is not yet set when the connection is dialled, the library waits for
  a reader of the error and `Start` never returns it. Changing an option of a durable queue
  (single active consumer, dead letter) therefore hangs the new version while the queue
  exists.
* `PanicNeedsRepeat`: a service whose own Setup function fails once, after a publisher's,
  and whose `Start` is called again, panics in `Close`.
* `HandledTwiceNeedsRetry`: after such a retry a transient consumer may handle every event
  twice, from the queues of both attempts; or, if the first has expired, `Start` gets stuck.
* `OrphansAreForeign` blames foreign bindings, and those are not only of earlier versions:
  a suffix can make the queue name of another service, and then each of the two rejects
  what only the other has a handler for. Responses are excepted: they are routed by
  service, so that a process's own binding brings it responses to requests it has no
  response handler for, and those are rejected.
* `AckedMeansAnswered`, `RepeatsNeedLoss`: a request without the service header, as
  `PublishRaw` sends it unless it was stored, is handled again and again until the broker
  drops it, and so is one whose response does not marshal, while
  `docs/request-response.md` knows only "Response published to caller, request ACKed" and
  the handler's errors.
* `IdIsKept` speaks of one spelling: if an outbox message has its id in two, map order
  decides which one is sent or read. If one of them is empty the message may arrive without
  an id although it was stored with one. `Publish` with a `cloudEvents_id` sends an id of its
  own beside it, and either may be read.
* `OnlyMappedLabels` needs a call that met no event, as its comment in `metrics.go` asks:
  labels of the former mapper survive in collectors reset before the event counts.

Differences between documentation and code that no run is about, being plain constants:
queues get `x-expires`, not the documented `x-message-ttl`; transient queues are quorum
queues that expire, not classic ones that are deleted; `cloudEvents:source` is the name of
the service, not of the exchange; the `result` labels are ACK, NACK, OK and ERROR. A raw
message to a queue publisher lacks the CC header its routing rests on.

### Fairness

* Publisher, `FairSpec`: a goroutine that can run runs (weak fairness of its steps),
  `sync.Mutex` starves nobody (strong fairness of `Lock`: its starvation mode hands the
  lock over in order), the reader goroutine and the monitor go on. That contexts with a
  deadline end, and that the broker answers, are hypotheses of the properties
  (`DeadlinesReturn`, `AnswersReturn`), as the code cannot guarantee either.
  Of a call within `PublishWithContext` nothing is assumed once the channel is lost.
* Consumer, `FairSpec`: the loop runs, the broker fills the prefetch window of a live
  channel, a supervisor restarts a process that lost its link. Nothing is assumed of the
  application's handler but that it returns.
* RequestResponse, `FairSpec`: as Consumer; and what is written to a live connection reaches
  the broker. None for `RespondFails`: a publish on a dead connection may block, and a
  restart ends it.
* Connection, `FairSpec`: `Start`, the forwarding goroutine, and the library's end of
  deliveries after `Close` go on. Nobody is forced to call anything. (A `Start` that `Stall`
  applies to may still return its error: which of the two happens is up to the library.)

## Proofs

Proved for every value of the constants that satisfies the named assumptions.

**PublisherProofs.** The inductive invariant `IInv` joins type correctness with

* `LockInv`: the mutex is held by exactly the call between lock and return;
* `TagInv`: the call that waits has published the latest message;
* `BufferInv`: `confirmCh` holds the confirmations `consumed + 1 .. delivered`, in order;
* `VerdictInv`, `ClosedInv`, `GhostInv`: what is known of unsent messages, of a closed
  channel and of the history variables;
* `CountInv`: `sent + stolen = consumed + abandoned + Owed`, each message sent is
  answered, abandoned or waited for.

`CountInv` is the heart: when a call receives, the confirmation at the head of the buffer
is number `consumed + 1`, and the balance makes that `tag - (abandoned - stolen)`. From
`IInv` follow `Honesty`, `OneCall` (no confirmation answers two calls), `Stall` and the
action property `Drift`. `Refinement`
shows, for every combination of options and any callers, that each step is a step of
`PublishContract` or a stutter: while nothing is abandoned or stolen the balance says that
a call reads its own confirmation, and afterwards the contract is void.

**ConsumerProofs.** `IInv` adds to the properties that a process with a live link holds
exactly what the broker has given it, in distinct places, and that the result of a
handler is consistent with the message at hand. For messages that are dropped, `ReturnInv`
keeps an account: the broker has taken a message back at most once for each failure of its
handler and each lost link, and less often than that while a failure is still to be
nacked. `AtLeastOnce`, `OwnSettlements`,
`NoForgotten` and `Balance` follow. `OneActive` needs one more invariant, `ActiveInv`: what
is unacked belongs to the active replica.

**ConsumerBoundProofs.** The bounds on duplicates and miscounted acks are no invariants by
themselves, for a lost link permits later steps of the process that lost it. `BoundInv`
is an account of what is still to come. A lost link turns at most a prefetch window of
deliveries stale (`WindowInv`), and each of them is counted as an ack at most once: `AckInv`
bounds `ackExtra` *plus* the stale deliveries (`Stale`) by `Prefetch * losses`. In the same
way `DupInv` bounds, for each message, its successes plus the processes without a link that
have it still to handle (`Late`) plus one for the delivery that is yet to be acked, unless
the message is `Spent`: acked, discarded, or about to be acked on a live channel. It needs
that a process never holds a message twice (`DistinctInv`) and that a message that has left
is nobody's (`GoneInv`). From it follow `Duplicates` and `AckError`.

**ConnectionProofs.** `StageInv` ties the place of `Start` to the state of the connection.
`OneLoopPerQueue` is not inductive, since `Start` may be called again after `startConsumers`
failed half way: the proof shows that no such call gets past its first consumer. `PassInv`:
the consumers behind `Start` are registered and were accepted; `LoopsNeedAll`: while
any loop runs, every consumer is registered, and so refused when it comes again;
`PassedMeansNoLoops`: a `Start` that got past a consumer meets no loop. `OneLoop`,
`ConsumesAll`, `HandlersFirst` and `BrokenNeverConsumes` follow. `ClosePanics` has an
invariant of its own, `PubInv`: unless a `Publisher` was passed twice or a function of the
application's own could have failed, either each `Publisher` has been set up by this
`Start` only (`Fresh`) or this `Start` cannot succeed (`Doomed`: the connection is gone, no
channel is left, or a consumer is bound to be refused).

**TopologyProofs.** `IInv` says of each process that its handlers are those of its own
Setup functions under the names of its calls of `Start` (`Known`), that a consumer on its
way to `QueueBind` is registered (`Pending`), that what it bound and what it consumes has a
handler, and `UniqueDispatch`. `StepIsLocal` shows that a step leaves the other processes
alone, so that the argument is made for one process. `Dispatch` needs only
`OverlapAssumption`: the test may be coarser than matching, and need not be symmetric.
`AddsOne` says that the assignment of `add` overwrites nothing, because a key overlaps
itself and `exists` has found no overlap; `Kept` follows. `Routing` rests on the order of
`add` before `QueueBind`, and
`HandledOnce` on `Known`: two handlers of a Setup function have one queue name unless a
random part tells them apart, and that differs only between calls of `Start`.

**TopologyBrokerProofs.** What processes share. `ResponseInv`: a request consumer past its
first stage has its response exchange, and exchanges are never deleted; `Responses` follows.
`StartedIsBacked` rests on `BackInv`. A queue has one set of arguments (`QueuesInv`) and live
processes have different numbers (`IncInv`), so that a random name belongs to one process.
The queue of a transient consumer, once bound, is there with its binding or has expired and
never comes back (`HandlerInv`), in which case `Consume` is refused. The queue of any other
consumer that *this* `Start` has passed is there, because days do not pass during a
`Start`; it may be gone from one call of `Start` to the next, but then `add` refuses
the consumer, whose handler is still registered, and no consuming comes of it. `Exported` is
proved from `AcceptInv` (what this `Start` has passed `Accepts`, and its handlers are
still there for `add` to compare with; a retried `Start` compares with more handlers than
`CollectTopology`, never with fewer) and from `ListInv`: after `i` Setup functions of a
first `Start` the list has `Place(d, i)` endpoints, each in the place of its function.

**RequestResponseProofs.** `ImplementsConsumer` shows that every step of the composition is
a step of `Consumer` or leaves it alone, so that all that is proved in
`ConsumerBoundProofs` holds for the request queue (`P` instantiates it, with the sets of
undeliverable messages empty; `QueueAssumption` restates its assumptions). On top of that
`RpcInv` says how the tables on the wire were made (`WayInv`), that an answer is pending only
while its request is being handled (`RespInv`), that what is written answers a request that
names its sender (`FlightInv`, `HomeInv`), that a request handled with success names its
sender and its answer has arrived, is on its way or was lost with a link (`AnswerInv`), and
that the answers, arrived and on the way, are no more than the successes (`SentInv`).
`HandledInv` repeats the account of `DupInv` for the calls of the application, which come
before the successes the queue knows of: these wait for the response to be written.
In it `unsent` pays for the calls whose answer failed on a live link.
`Acked` follows from `AnswerInv`, `Repeats` from `SentInv`, `HandledInv` and the bound of
`ConsumerBoundProofs`, `Home` and `Ids` from `WayInv`, `HomeInv` and
the lemmas about header tables (`PlainKept`, `PublishNames`, `RawNames`, `NormalizedId`,
`IdSource` and the like), which hold for any headers of the four kinds `HeadersAssumption`
lists: plain ones and the three spellings of CloudEvents attributes.

**MetricsProofs.** `IInv` says that a call of `InitMetrics` that has met no event runs alone
(`AloneInv`), that without such a meeting each event carries a label of the mapper in use
(`LabelInv`), that the collectors the call is done with are empty (`ResetInv`), and that each
counter is ahead of its histogram by exactly the events between the two (`AheadInv`);
`LabelsAreMapped` and `CountersAgree` follow.

All safety invariants and action properties of the runs are proved. Only model-checked,
being out of the prover's reach: the liveness properties (`DeadlinesReturn`,
`AnswersReturn`, `PoisonLeaves`, `EveryMessageLeaves`, `EveryRequestAnswered`,
`ClosedConnectionStops`, `StartReturns`, `LossIsNoticed`), and the topic matching of
`MCTopology`, which is recursive and in the proofs is any relation that satisfies
`OverlapAssumption`.

## Not modelled, and why

* Span names and attributes, logging, histogram buckets: nothing reads them back.
* Payloads: JSON is parsed or not (`Unparsable`), which is all the code asks.
* `cmd/tck-adapter`: a test harness around the library, process input and output.
* `must.go`, `channel.go`, `consumableEvent.go`, `doc.go`: declarations and one-liners.

## Plan

1. *(done)* `Publisher` with `PublishContract`, `Consumer`, `Connection`, their proofs.
2. *(done)* `Topology` in place of a registry by itself, `Headers`, `RequestResponse`,
   `Metrics`; set-up twice and own Setup functions in `Connection`; the unconditional
   refinement of `PublishContract`; the proofs about `Topology`.
3. *(done)* Proofs of the remaining safety invariants: the life cycle of a connection, the
   broker's side of `Topology` with `CollectTopology`, the bounds of `Consumer`,
   `RequestResponse` as a refinement of `Consumer` with its own invariants, `Metrics`.
4. Shorter proofs: the lemmas about single actions of `ConnectionProofs` that only say
   what does not change could be joined; facts about sequences and tables that two
   modules prove could move to one.
