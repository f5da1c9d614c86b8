------------------------------ MODULE Topology ------------------------------
(***************************************************************************)
(* What the Setup functions make of one broker: several processes, of one  *)
(* service or of several and possibly of different versions, declare and   *)
(* bind their queues, register their handlers, consume, stop and come back *)
(* (setup_consumer.go, setup_publisher.go, naming.go,                      *)
(* queue_binding_config.go, routingkey_handlers.go), and what each of them *)
(* says it did (Topology, CollectTopology).                                *)
(*                                                                         *)
(* Names are built from parts. A service name is a sequence of words, the  *)
(* ones its dashes separate: serviceEventQueueName and AddQueueNameSuffix  *)
(* join with dashes too, so "order" with suffix "service" makes the queue  *)
(* name of "order-service".                                                *)
(*                                                                         *)
(* A call the broker refuses never returns: the error is reported to a     *)
(* NotifyClose channel nobody reads (see Connection). Such a process is    *)
(* "stuck". The loss of a process's connection is, to the broker, its end. *)
(***************************************************************************)
EXTENDS Integers, Sequences, FiniteSets

CONSTANTS
    Procs,        \* processes
    Deployments,  \* what can be deployed: [service, setups]
    Patterns,     \* routing keys given to consumers, with wildcards
    RoutingKeys,  \* routing keys of messages
    Matches,      \* spec.MatchRoutingKey: pairs of pattern and routing key
    Overlaps,     \* spec.RoutingKeyOverlaps: pairs of patterns
    MaxDeploys,   \* bound: processes started
    MaxStarts     \* bound: calls of Start in one process

(* What add and get need of the functions of the spec module: overlapping  *)
(* covers every two patterns that match a common routing key, and a key    *)
(* matches itself.                                                         *)
ASSUME OverlapAssumption ==
    /\ \A p \in Patterns : <<p, p>> \in Overlaps
    /\ \A p, q \in Patterns, k \in RoutingKeys :
          <<p, k>> \in Matches /\ <<q, k>> \in Matches => <<p, q>> \in Overlaps
    /\ \A k \in Patterns \cap RoutingKeys : <<k, k>> \in Matches

(* A Setup function is a record: the consumers have a routing key and      *)
(* options (suffix, DisableSingleActiveConsumer, WithDeadLetter, and       *)
(* whether one of them returns an error); "custom" is one the application  *)
(* wrote itself.                                                           *)
Consumers == {"stream", "transient", "request", "response"}
Publishers == {"publisher", "servicePublisher", "queuePublisher"}

ASSUME DeploymentsAssumption ==
    /\ MaxDeploys \in Nat /\ MaxStarts \in Nat \ {0}
    /\ \A d \in Deployments :
          /\ DOMAIN d.setups = 1..Len(d.setups)
          /\ \A i \in DOMAIN d.setups :
                /\ d.setups[i].op \in Consumers \cup Publishers \cup {"custom"}
                /\ d.setups[i].op \in Consumers => d.setups[i].key \in Patterns

VARIABLES
    phase,      \* "down", "setup", "failed", "stuck" or "consuming"
    dep,        \* what the process runs
    inc,        \* number of the deployment that made the process
    starts,     \* calls of Start in it
    at,         \* <<Setup function, stage of it>> Start is at
    handlers,   \* queueConsumers: queue, pattern and Setup function
    bound,      \* the bindings the process has made
    endpoints,  \* c.topology.Endpoints
    consumed,   \* queues the process consumes
    deploys,    \* deployments so far
    exchanges,  \* exchanges of the broker
    queues,     \* queues of the broker, with their arguments
    bindings    \* bindings of the broker

procVars == <<phase, dep, inc, starts>>
localVars == <<handlers, bound, endpoints>>
brokerVars == <<exchanges, queues, bindings>>
vars == <<procVars, at, localVars, consumed, deploys, brokerVars>>

-----------------------------------------------------------------------------
(* naming.go and newConsumerConfig.                                        *)

topicExchangeName(e) == [owner |-> e, role |-> "topic"]
serviceRequestExchangeName(s) == [owner |-> s, role |-> "request"]
serviceResponseExchangeName(s) == [owner |-> s, role |-> "response"]

ExchangeOf(s, f) ==
    CASE f.op \in {"stream", "transient", "publisher"} -> topicExchangeName(f.target)
      [] f.op = "request" -> serviceRequestExchangeName(s)
      [] f.op = "servicePublisher" -> serviceRequestExchangeName(f.target)
      [] f.op = "response" -> serviceResponseExchangeName(f.target)

(* Mutant: every queue name has a random part.                             *)
QueueNameRandom(s, f, uuid) ==
    [exchange |-> ExchangeOf(s, f), who |-> s \o f.suffix, uuid |-> uuid]

(* The queue of a consumer: its exchange, then the service (the request    *)
(* queue has none of its own), a random string for a transient consumer,   *)
(* and the suffix.                                                         *)
QueueName(s, f, uuid) ==
    [exchange |-> ExchangeOf(s, f),
     who |-> (IF f.op = "request" THEN <<>> ELSE s) \o f.suffix,
     uuid |-> IF f.op = "transient" THEN uuid ELSE <<>>]

(* defaultQueueOpts and the options. QueueTTLArg is x-expires.             *)
QueueHeaders(f) ==
    [singleActive |-> ~f.shared,
     expires |-> IF f.op = "transient" THEN "second" ELSE "days",
     deadLetter |-> f.deadLetter]

(* The service header a response queue is bound with.                      *)
BindingHeaders(s, f) == IF f.op = "response" THEN s ELSE <<>>

Endpoint(s, f, uuid) ==
    CASE f.op \in Consumers ->
           [direction |-> "consume", exchange |-> ExchangeOf(s, f),
            queue |-> QueueName(s, f, uuid), key |-> f.key]
      [] f.op \in {"publisher", "servicePublisher"} ->
           [direction |-> "publish", exchange |-> ExchangeOf(s, f)]
      [] f.op = "queuePublisher" -> [direction |-> "publish", queue |-> f.target]

-----------------------------------------------------------------------------
(* What a process runs that is down.                                       *)
Nothing == [service |-> <<>>, setups |-> <<>>]

Init ==
    /\ phase = [p \in Procs |-> "down"]
    /\ dep = [p \in Procs |-> Nothing]
    /\ inc = [p \in Procs |-> 0]
    /\ starts = [p \in Procs |-> 0]
    /\ at = [p \in Procs |-> <<1, "begin">>]
    /\ handlers = [p \in Procs |-> {}]
    /\ bound = [p \in Procs |-> {}]
    /\ endpoints = [p \in Procs |-> <<>>]
    /\ consumed = [p \in Procs |-> {}]
    /\ deploys = 0
    /\ exchanges = {}
    /\ queues = {}
    /\ bindings = {}

(* The Setup function process p is at, its queue and its binding.          *)
Setup(p) == dep[p].setups[at[p][1]]
Service(p) == dep[p].service
Queue(p) == QueueName(Service(p), Setup(p), <<inc[p], starts[p], at[p][1]>>)
Binding(p) ==
    [exchange |-> ExchangeOf(Service(p), Setup(p)), key |-> Setup(p).key,
     headers |-> BindingHeaders(Service(p), Setup(p)), queue |-> Queue(p)]

AtStage(p, stage) ==
    /\ phase[p] = "setup"
    /\ at[p][1] <= Len(dep[p].setups)
    /\ at[p][2] = stage

AtOp(p, stage, ops) == AtStage(p, stage) /\ Setup(p).op \in ops

Goto(p, stage) == at' = [at EXCEPT ![p] = <<@[1], stage>>]
NextSetup(p) == at' = [at EXCEPT ![p] = <<@[1] + 1, "begin">>]

(* Start returns an error, or waits for ever; nothing is undone.           *)
End(p, ph) ==
    /\ phase' = [phase EXCEPT ![p] = ph]
    /\ UNCHANGED <<dep, inc, starts, at, localVars, consumed, deploys, brokerVars>>

(* A new process of some version of some service calls Start.              *)
Deploy(p, d) ==
    /\ phase[p] = "down"
    /\ deploys < MaxDeploys
    /\ deploys' = deploys + 1
    /\ inc' = [inc EXCEPT ![p] = deploys + 1]
    /\ dep' = [dep EXCEPT ![p] = d]
    /\ phase' = [phase EXCEPT ![p] = "setup"]
    /\ starts' = [starts EXCEPT ![p] = 1]
    /\ UNCHANGED <<at, localVars, consumed, brokerVars>>

(* The process calls Start again after an error: its Connection still has  *)
(* the handlers and endpoints of the first attempt.                        *)
Retry(p) ==
    /\ phase[p] = "failed"
    /\ starts[p] < MaxStarts
    /\ starts' = [starts EXCEPT ![p] = @ + 1]
    /\ phase' = [phase EXCEPT ![p] = "setup"]
    /\ at' = [at EXCEPT ![p] = <<1, "begin">>]
    /\ UNCHANGED <<dep, inc, localVars, consumed, deploys, brokerVars>>

(* Mutant: the consumers of a process outlive it.                          *)
StopKeepsConsuming(p) ==
    /\ phase[p] # "down"
    /\ phase' = [phase EXCEPT ![p] = "down"]
    /\ dep' = [dep EXCEPT ![p] = Nothing]
    /\ inc' = [inc EXCEPT ![p] = 0]
    /\ starts' = [starts EXCEPT ![p] = 0]
    /\ at' = [at EXCEPT ![p] = <<1, "begin">>]
    /\ handlers' = [handlers EXCEPT ![p] = {}]
    /\ bound' = [bound EXCEPT ![p] = {}]
    /\ endpoints' = [endpoints EXCEPT ![p] = <<>>]
    /\ UNCHANGED <<consumed, deploys, brokerVars>>

(* The process, or its connection, ends.                                   *)
Stop(p) ==
    /\ phase[p] # "down"
    /\ phase' = [phase EXCEPT ![p] = "down"]
    /\ dep' = [dep EXCEPT ![p] = Nothing]
    /\ inc' = [inc EXCEPT ![p] = 0]
    /\ starts' = [starts EXCEPT ![p] = 0]
    /\ at' = [at EXCEPT ![p] = <<1, "begin">>]
    /\ handlers' = [handlers EXCEPT ![p] = {}]
    /\ bound' = [bound EXCEPT ![p] = {}]
    /\ endpoints' = [endpoints EXCEPT ![p] = <<>>]
    /\ consumed' = [consumed EXCEPT ![p] = {}]
    /\ UNCHANGED <<deploys, brokerVars>>

-----------------------------------------------------------------------------
(* The consumer Setup functions, in stages.                                *)

(* Mutant: the response exchange is left to the first response consumer.   *)
ResponseExchangeLater(p) ==
    /\ AtOp(p, "begin", {"request"})
    /\ Goto(p, "config")
    /\ UNCHANGED <<procVars, localVars, consumed, deploys, brokerVars>>

(* ServiceRequestConsumer first declares the exchange of its responses.    *)
ResponseExchange(p) ==
    /\ AtOp(p, "begin", {"request"})
    /\ exchanges' = exchanges \cup {serviceResponseExchangeName(Service(p))}
    /\ Goto(p, "config")
    /\ UNCHANGED <<procVars, localVars, consumed, deploys, queues, bindings>>

AtConfig(p) ==
    \/ AtOp(p, "config", {"request"})
    \/ AtOp(p, "begin", Consumers \ {"request"})

(* Mutant: only the very same pattern is refused.                          *)
ExistsSame(p) ==
    \E h \in handlers[p] : h.queue = Queue(p) /\ h.key = Setup(p).key

(* routingKeyHandler.exists: a pattern of the queue overlaps the new one.  *)
Exists(p) ==
    \E h \in handlers[p] : h.queue = Queue(p) /\ <<Setup(p).key, h.key>> \in Overlaps

(* queueConsumers.add assigns to the map of the queue: a handler that was  *)
(* there under the very same routing key is gone.                          *)
Assigned(p) ==
    {h \in handlers[p] : h.queue # Queue(p) \/ h.key # Setup(p).key}
        \cup {[queue |-> Queue(p), key |-> Setup(p).key, by |-> at[p][1]]}

(* newConsumerConfig applies the options and queueConsumers.add registers. *)
Add(p) ==
    /\ AtConfig(p)
    /\ Setup(p).valid
    /\ ~Exists(p)
    /\ handlers' = [handlers EXCEPT ![p] = Assigned(p)]
    /\ Goto(p, "exchange")
    /\ UNCHANGED <<procVars, bound, endpoints, consumed, deploys, brokerVars>>

(* Mutant: a consumer that cannot be added is bound all the same.          *)
AddRefusedIgnored(p) ==
    /\ AtConfig(p)
    /\ ~Setup(p).valid \/ Exists(p)
    /\ Goto(p, "exchange")
    /\ UNCHANGED <<procVars, localVars, consumed, deploys, brokerVars>>

AddRefused(p) ==
    /\ AtConfig(p)
    /\ ~Setup(p).valid \/ Exists(p)
    /\ End(p, "failed")

DeclareExchange(p) ==
    /\ \/ AtOp(p, "exchange", Consumers) /\ Goto(p, "queue")
       \/ AtOp(p, "begin", {"publisher", "servicePublisher"}) /\ Goto(p, "wire")
    /\ exchanges' = exchanges \cup {ExchangeOf(Service(p), Setup(p))}
    /\ UNCHANGED <<procVars, localVars, consumed, deploys, queues, bindings>>

Declared(q) == \E r \in queues : r.name = q

(* Mutant: an existing queue is taken as it is.                            *)
DeclareQueuePassive(p) ==
    /\ AtStage(p, "queue")
    /\ queues' = IF Declared(Queue(p)) THEN queues
                 ELSE queues \cup {[name |-> Queue(p), args |-> QueueHeaders(Setup(p))]}
    /\ Goto(p, "bind")
    /\ UNCHANGED <<procVars, localVars, consumed, deploys, exchanges, bindings>>

(* QueueDeclare makes the queue, or finds it with the very same arguments. *)
DeclareQueue(p) ==
    /\ AtStage(p, "queue")
    /\ \A r \in queues : r.name = Queue(p) => r.args = QueueHeaders(Setup(p))
    /\ queues' = queues \cup {[name |-> Queue(p), args |-> QueueHeaders(Setup(p))]}
    /\ Goto(p, "bind")
    /\ UNCHANGED <<procVars, localVars, consumed, deploys, exchanges, bindings>>

QueueRefused(p) ==
    /\ AtStage(p, "queue")
    /\ \E r \in queues : r.name = Queue(p) /\ r.args # QueueHeaders(Setup(p))
    /\ End(p, "stuck")

(* The queue is bound and the endpoint recorded.                           *)
Bind(p) ==
    /\ AtStage(p, "bind")
    /\ Declared(Queue(p))
    /\ bindings' = bindings \cup {Binding(p)}
    /\ bound' = [bound EXCEPT ![p] = @ \cup {Binding(p)}]
    /\ endpoints' = [endpoints EXCEPT ![p] = Append(@, Endpoint(Service(p), Setup(p), Queue(p).uuid))]
    /\ NextSetup(p)
    /\ UNCHANGED <<procVars, handlers, consumed, deploys, exchanges, queues>>

BindRefused(p) ==
    /\ AtStage(p, "bind")
    /\ ~Declared(Queue(p))
    /\ End(p, "stuck")

-----------------------------------------------------------------------------
(* The other Setup functions.                                              *)

(* Mutant: a publisher to a queue is not recorded.                         *)
WireUnrecorded(p) ==
    /\ AtOp(p, "wire", Publishers) \/ AtOp(p, "begin", {"queuePublisher"})
    /\ NextSetup(p)
    /\ UNCHANGED <<procVars, localVars, consumed, deploys, brokerVars>>

(* A publisher opens its channel, is recorded and set up.                  *)
Wire(p) ==
    /\ AtOp(p, "wire", Publishers) \/ AtOp(p, "begin", {"queuePublisher"})
    /\ endpoints' = [endpoints EXCEPT ![p] = Append(@, Endpoint(Service(p), Setup(p), <<>>))]
    /\ NextSetup(p)
    /\ UNCHANGED <<procVars, handlers, bound, consumed, deploys, brokerVars>>

Custom(p) ==
    /\ AtOp(p, "begin", {"custom"})
    /\ \/ NextSetup(p) /\ UNCHANGED phase
       \/ phase' = [phase EXCEPT ![p] = "failed"] /\ UNCHANGED at
    /\ UNCHANGED <<dep, inc, starts, localVars, consumed, deploys, brokerVars>>

-----------------------------------------------------------------------------
(* startConsumers, and what the broker does by itself.                     *)

AtConsume(p) == phase[p] = "setup" /\ at[p][1] = Len(dep[p].setups) + 1

Consume(p, q) ==
    /\ AtConsume(p)
    /\ Declared(q)
    /\ consumed' = [consumed EXCEPT ![p] = @ \cup {q}]
    /\ UNCHANGED <<procVars, at, localVars, deploys, brokerVars>>

ConsumeRefused(p, q) ==
    /\ AtConsume(p)
    /\ ~Declared(q)
    /\ End(p, "stuck")

Started(p) ==
    /\ AtConsume(p)
    /\ \A h \in handlers[p] : h.queue \in consumed[p]
    /\ End(p, "consuming")

(* An unused queue expires: a transient one after a second, the others     *)
(* after days, which no Setup function takes. Its bindings go with it.     *)
Expire(r) ==
    /\ \A p \in Procs : r.name \notin consumed[p]
    /\ r.args.expires = "second" \/ \A p \in Procs : phase[p] # "setup"
    /\ queues' = queues \ {r}
    /\ bindings' = {b \in bindings : b.queue # r.name}
    /\ UNCHANGED <<procVars, at, localVars, consumed, deploys, exchanges>>

SetupStep(p) ==
    \/ ResponseExchange(p) \/ Add(p) \/ AddRefused(p) \/ DeclareExchange(p)
    \/ DeclareQueue(p) \/ QueueRefused(p) \/ Bind(p) \/ BindRefused(p)
    \/ Wire(p) \/ Custom(p)

ProcNext(p) ==
    \/ \E d \in Deployments : Deploy(p, d)
    \/ Retry(p) \/ Stop(p) \/ SetupStep(p) \/ Started(p)
    \/ \E h \in handlers[p] : Consume(p, h.queue) \/ ConsumeRefused(p, h.queue)

Next ==
    \/ \E p \in Procs : ProcNext(p)
    \/ \E r \in queues : Expire(r)

Spec == Init /\ [][Next]_vars

-----------------------------------------------------------------------------
(* CollectTopology runs the Setup functions against a noop channel: it     *)
(* finds invalid options and overlaps, and records the endpoints.          *)
ConsumersOf(d) == {i \in DOMAIN d.setups : d.setups[i].op \in Consumers}

Accepts(d, i) ==
    LET own(j) == QueueName(d.service, d.setups[j], <<j>>)
    IN  /\ d.setups[i].valid
        /\ \A j \in ConsumersOf(d) :
              j < i /\ own(i) = own(j) =>
                  <<d.setups[i].key, d.setups[j].key>> \notin Overlaps

(* The Setup functions that record an endpoint, and how many of them are   *)
(* among the first i: the place of theirs in the list.                     *)
Recorded(d) == {i \in DOMAIN d.setups : d.setups[i].op # "custom"}
Place(d, i) == Cardinality({j \in Recorded(d) : j <= i})

CollectTopology(d) ==
    [ok |-> \A i \in ConsumersOf(d) : Accepts(d, i),
     endpoints |-> [n \in 1..Place(d, Len(d.setups)) |->
                      Endpoint(d.service,
                               d.setups[CHOOSE i \in Recorded(d) : Place(d, i) = n], <<>>)]]

(* An endpoint up to the random part of its queue's name.                  *)
Anonymous(e) ==
    IF e.direction = "consume" THEN [e EXCEPT !.queue.uuid = <<>>] ELSE e

(* The broker routes a message with key k along a binding. The headers     *)
(* exchange of responses does not look at keys: every response to the      *)
(* service of the binding goes along it.                                   *)
Routes(b, k) ==
    \/ b.exchange.role = "topic" /\ <<b.key, k>> \in Matches
    \/ b.exchange.role = "request" /\ b.key = k
    \/ b.exchange.role = "response"

(* routingKeyHandler.get: the handlers it may return for a routing key.    *)
Get(p, q, k) == {h \in handlers[p] : h.queue = q /\ <<h.key, k>> \in Matches}

TypeOK ==
    /\ phase \in [Procs -> {"down", "setup", "failed", "stuck", "consuming"}]
    /\ inc \in [Procs -> 0..MaxDeploys]
    /\ starts \in [Procs -> 0..MaxStarts]
    /\ at \in [Procs -> Nat \X {"begin", "config", "exchange", "queue", "bind", "wire"}]
    /\ \A p \in Procs :
          /\ phase[p] # "down" => dep[p] \in Deployments
          /\ \A h \in handlers[p] : h.key \in Patterns /\ h.by \in Nat
          /\ consumed[p] \subseteq {h.queue : h \in handlers[p]}
    /\ deploys \in 0..MaxDeploys

(* The dispatch of a message does not depend on the order of a Go map: at  *)
(* most one pattern of its queue matches it, however often Start has been  *)
(* called.                                                                 *)
UniqueDispatch ==
    \A p \in Procs : \A h, g \in handlers[p], k \in RoutingKeys :
        /\ h.queue = g.queue
        /\ <<h.key, k>> \in Matches
        /\ <<g.key, k>> \in Matches
        => h = g

(* A handler is never dropped or replaced within a process.                *)
HandlerIsKept ==
    [][\A p \in Procs : phase'[p] # "down" => handlers[p] \subseteq handlers'[p]]_vars

(* A message that finds no handler in the process that consumes its queue, *)
(* and is rejected there, was not routed by a binding that process made    *)
(* itself, but by one of an earlier or a concurrent version, or of another *)
(* service with the same queue name. Responses are the exception: a        *)
(* process's own binding brings it those it has no handler for.            *)
OrphansAreForeign ==
    \A p \in Procs : \A q \in consumed[p], k \in RoutingKeys : Get(p, q, k) = {} =>
        \A b \in bindings : b.queue = q /\ Routes(b, k) =>
            b \notin bound[p] \/ b.exchange.role = "response"

(* While a process consumes, each of its handlers has its queue at the     *)
(* broker, with the arguments of its own options whoever declared it, and  *)
(* bound with its routing key.                                             *)
StartedIsBacked ==
    \A p \in Procs : phase[p] = "consuming" => \A h \in handlers[p] :
        /\ [name |-> h.queue, args |-> QueueHeaders(dep[p].setups[h.by])] \in queues
        /\ \E b \in bindings : b.queue = h.queue /\ b.key = h.key

(* An event reaches each consumer of a process once. After a retried Start *)
(* a transient consumer may get it twice: the queue of the first attempt   *)
(* is still registered, and consumed.                                      *)
HandledTwiceNeedsRetry ==
    \A p \in Procs : \A h, g \in handlers[p] :
        h.by = g.by /\ {h.queue, g.queue} \subseteq consumed[p] =>
            h = g \/ (starts[p] > 1 /\ dep[p].setups[h.by].op = "transient")

(* A request can be routed to a service only if the exchange its response  *)
(* will be published to is there: a publishing to an unknown exchange ends *)
(* the channel all responses of the process share.                         *)
ResponsesHaveExchange ==
    \A b \in bindings : b.exchange.role = "request" =>
        serviceResponseExchangeName(b.exchange.owner) \in exchanges

(* CollectTopology is right about a service: if it fails, no Start of the  *)
(* service succeeds, however often it is retried; if the first Start       *)
(* succeeds, Topology returns what CollectTopology had returned, up to     *)
(* random queue names.                                                     *)
TopologyIsExported ==
    \A p \in Procs : phase[p] = "consuming" =>
        /\ CollectTopology(dep[p]).ok
        /\ starts[p] = 1 =>
              CollectTopology(dep[p]).endpoints =
                  [i \in DOMAIN endpoints[p] |-> Anonymous(endpoints[p][i])]
=============================================================================
