------------------------- MODULE TopologyBrokerProofs -------------------------
(***************************************************************************)
(* Proofs about what Topology's broker has of the processes: exchanges,    *)
(* queues and bindings, shared by all of them and outliving each.          *)
(***************************************************************************)
EXTENDS TopologyProofs, FiniteSetTheorems

(* Queues have one set of arguments; processes have different numbers.     *)
QueuesInv ==
    /\ \A r \in queues : r = [name |-> r.name, args |-> r.args]
    /\ \A r, t \in queues : r.name = t.name => r = t
IncInv ==
    /\ \A p \in Procs : inc[p] <= deploys
    /\ \A p, r \in Procs :
          phase[p] # "down" /\ phase[r] # "down" /\ inc[p] = inc[r] => p = r

(* The queue of a handler is there, as its options ask for it, and bound.  *)
OwnQueue(p, h) == [name |-> h.queue, args |-> QueueHeaders(dep[p].setups[h.by])]
Backed(p, h) ==
    /\ OwnQueue(p, h) \in queues
    /\ \E b \in bindings : b.queue = h.queue /\ b.key = h.key

IsTransient(p, h) == dep[p].setups[h.by].op = "transient"

(* The queue of h is the one that is being set up.                         *)
Current(p, h) == at[p][2] \in {"exchange", "queue", "bind"} /\ h.queue = Queue(p)

(* Between QueueDeclare and QueueBind.                                     *)
BindingInv(p) ==
    phase[p] = "setup" /\ at[p][2] = "bind" =>
        \/ [name |-> Queue(p), args |-> QueueHeaders(Setup(p))] \in queues
        \/ Setup(p).op = "transient" /\ ~Declared(Queue(p))

(* A transient queue may expire, and does not come back. The queue of any  *)
(* other consumer stays while Start runs, but not from one Start to the    *)
(* next: then add refuses the consumer, and Start does not get past it.    *)
HandlerInv(p) ==
    /\ phase[p] \in {"setup", "failed"} => \A h \in handlers[p] :
          IsTransient(p, h) /\ ~Current(p, h) => Backed(p, h) \/ ~Declared(h.queue)
    /\ phase[p] = "setup" => \A h \in handlers[p] :
          ~IsTransient(p, h) /\ h.by < at[p][1] => Backed(p, h)

ConsumingInv(p) ==
    /\ phase[p] = "failed" => at[p][2] \in {"begin", "config"}
    /\ \A q \in consumed[p] : Declared(q)
    /\ phase[p] = "consuming" => \A h \in handlers[p] : h.queue \in consumed[p] /\ Backed(p, h)

Held(p) == BindingInv(p) /\ HandlerInv(p) /\ ConsumingInv(p)

BackInv ==
    /\ QueuesInv /\ IncInv
    /\ \A p \in Procs : Held(p)

(* The exchange of the responses is there from the first stage of a        *)
(* request consumer on.                                                    *)
CanRespond(p) ==
    /\ phase[p] = "setup" /\ at[p][2] \in {"config", "exchange", "queue", "bind"}
    /\ Setup(p).op = "request"
    => serviceResponseExchangeName(Service(p)) \in exchanges
ResponseInv == ResponsesHaveExchange /\ \A p \in Procs : CanRespond(p)

(* add has accepted consumer i in this Start; it is still registered.      *)
Behind(p, i) ==
    \/ i < at[p][1]
    \/ i = at[p][1] /\ at[p][2] \in {"exchange", "queue", "bind"}
AcceptInv(p) ==
    /\ phase[p] = "setup" => \A i \in ConsumersOf(dep[p]) : Behind(p, i) =>
          /\ Accepts(dep[p], i)
          /\ dep[p].setups[i].op # "transient" => \E h \in handlers[p] : h.by = i
    /\ phase[p] = "consuming" => \A i \in ConsumersOf(dep[p]) : Accepts(dep[p], i)

(* CollectTopology returns no error for what a process consumes with.      *)
CollectedFirst ==
    \A p \in Procs : phase[p] = "consuming" =>
        \A i \in ConsumersOf(dep[p]) : Accepts(dep[p], i)

(* The list of endpoints after the first i Setup functions.                *)
ListOf(d, i, s) ==
    /\ s \in Seq({s[n] : n \in DOMAIN s})
    /\ Len(s) = Place(d, i)
    /\ \A k \in Recorded(d) : k <= i =>
          Anonymous(s[Place(d, k)]) = Endpoint(d.service, d.setups[k], <<>>)
    /\ \A n \in 1..Len(s) : \E k \in Recorded(d) : k <= i /\ Place(d, k) = n

(* A first Start has recorded what it has passed.                          *)
ListInv(p) ==
    /\ phase[p] = "down" => endpoints[p] = <<>>
    /\ phase[p] = "consuming" => at[p][1] = Len(dep[p].setups) + 1
    /\ phase[p] \in {"setup", "consuming"} /\ starts[p] = 1 =>
          ListOf(dep[p], at[p][1] - 1, endpoints[p])

-----------------------------------------------------------------------------
(* What is known of a process whose Start is at a Setup function.          *)
LEMMA AtFacts ==
    ASSUME IInv, NEW p \in Procs, phase[p] = "setup", at[p][1] <= Len(dep[p].setups)
    PROVE  /\ dep[p] \in Deployments
           /\ at[p][1] \in DOMAIN dep[p].setups
           /\ at[p][1] \in Nat
  <1>1. dep[p] \in Deployments /\ at[p][1] \in Nat /\ at[p][1] >= 1
    BY DEF IInv, ProcInv, Types
  <1> QED
    BY <1>1, DeploymentsAssumption

(* ResponsesHaveExchange.                                                  *)

(* At first there is no binding.                                           *)
LEMMA ResponseInit == Init => ResponseInv
  BY DEF Init, ResponseInv, ResponsesHaveExchange, CanRespond

(* Exchanges are never deleted.                                            *)
LEMMA ExchangesStay ==
    ASSUME [Next]_vars
    PROVE  exchanges \subseteq exchanges'
  BY DEF Next, ProcNext, SetupStep, Deploy, Retry, Stop, ResponseExchange, Add, AddRefused,
     DeclareExchange, DeclareQueue, QueueRefused, Bind, BindRefused, Wire, Custom, Consume,
     ConsumeRefused, Started, Expire, End, brokerVars, vars

(* A request consumer gets past its first stage only by declaring the      *)
(* exchange of its responses.                                              *)
LEMMA ResponseOwn ==
    ASSUME IInv, ResponseInv, NEW p \in Procs, ProcNext(p), exchanges \subseteq exchanges'
    PROVE  CanRespond(p)'
  <1> USE DEF procVars, localVars
  <1>0. CanRespond(p) /\ ProcInv(p) /\ Types /\ FunInv
    BY DEF ResponseInv, IInv
  <1>1. ASSUME NEW d \in Deployments, Deploy(p, d)
        PROVE  CanRespond(p)'
    <2>1. at'[p][2] = "begin"
      BY <1>0, <1>1 DEF Deploy, ProcInv
    <2> QED
      BY <2>1 DEF CanRespond
  <1>2. CASE Retry(p) \/ Stop(p) \/ Bind(p) \/ Wire(p)
    <2>1. at'[p][2] = "begin"
      BY <1>0, <1>2 DEF Retry, Stop, Bind, Wire, NextSetup, Types
    <2> QED
      BY <2>1 DEF CanRespond
  <1>3. CASE AddRefused(p) \/ QueueRefused(p) \/ BindRefused(p) \/ Started(p)
    <2>1. phase'[p] # "setup"
      BY <1>0, <1>3 DEF AddRefused, QueueRefused, BindRefused, Started, End, Types
    <2> QED
      BY <2>1 DEF CanRespond
  <1>4. CASE Custom(p)
    <2>1. phase'[p] # "setup" \/ at'[p][2] = "begin"
      BY <1>0, <1>4 DEF Custom, NextSetup, Types
    <2> QED
      BY <2>1 DEF CanRespond
  <1>5. CASE ResponseExchange(p)
    <2>1. /\ serviceResponseExchangeName(Service(p)) \in exchanges' /\ dep' = dep
      BY <1>5 DEF ResponseExchange
    <2> QED
      BY <2>1 DEF CanRespond, Service, serviceResponseExchangeName
  <1>6. CASE Add(p)
    <2>1. /\ at[p][2] = "config" \/ Setup(p).op # "request"
          /\ phase[p] = "setup" /\ dep' = dep /\ at'[p][1] = at[p][1]
      BY <1>0, <1>6 DEF Add, AtConfig, AtOp, AtStage, Goto, Types
    <2>2. Setup(p)' = Setup(p) /\ Service(p)' = Service(p)
      BY <2>1 DEF Setup, Service
    <2> QED
      BY <1>0, <2>1, <2>2 DEF CanRespond, serviceResponseExchangeName
  <1>7. CASE DeclareExchange(p) \/ DeclareQueue(p)
    <2>1. /\ at[p][2] \in {"exchange", "queue"} \/ at'[p][2] = "wire"
          /\ phase[p] = "setup" /\ dep' = dep /\ at'[p][1] = at[p][1]
      BY <1>0, <1>7 DEF DeclareExchange, DeclareQueue, AtOp, AtStage, Goto, Types
    <2>2. Setup(p)' = Setup(p) /\ Service(p)' = Service(p)
      BY <2>1 DEF Setup, Service
    <2> QED
      BY <1>0, <2>1, <2>2 DEF CanRespond, serviceResponseExchangeName
  <1>8. ASSUME NEW h \in handlers[p], Consume(p, h.queue) \/ ConsumeRefused(p, h.queue)
        PROVE  CanRespond(p)'
    <2>1. at' = at /\ dep' = dep /\ phase[p] = "setup"
      BY <1>8 DEF Consume, ConsumeRefused, AtConsume, End
    <2>2. Setup(p)' = Setup(p) /\ Service(p)' = Service(p)
      BY <2>1 DEF Setup, Service
    <2> QED
      BY <1>0, <2>1, <2>2 DEF CanRespond, serviceResponseExchangeName
  <1> QED
    BY <1>1, <1>2, <1>3, <1>4, <1>5, <1>6, <1>7, <1>8 DEF ProcNext, SetupStep

(* A binding to a request exchange is made by the service that owns it,    *)
(* after the exchange of its responses.                                    *)
LEMMA BindResponse ==
    ASSUME IInv, ResponseInv, NEW p \in Procs, Bind(p),
           Binding(p).exchange.role = "request"
    PROVE  serviceResponseExchangeName(Binding(p).exchange.owner) \in exchanges
  <1>1. phase[p] = "setup" /\ at[p][2] = "bind"
    BY DEF Bind, AtStage
  <1>2. Setup(p).op \in Consumers
    BY <1>1 DEF IInv, ProcInv, Pending
  <1>3. Binding(p).exchange = ExchangeOf(Service(p), Setup(p))
    BY DEF Binding
  <1>4. Setup(p).op = "request"
    BY <1>2, <1>3 DEF ExchangeOf, Consumers, topicExchangeName, serviceResponseExchangeName
  <1>5. Binding(p).exchange.owner = Service(p)
    BY <1>3, <1>4 DEF ExchangeOf, serviceRequestExchangeName
  <1> QED
    BY <1>1, <1>4, <1>5 DEF ResponseInv, CanRespond

(* No step binds a request queue before the exchange of its responses.     *)
LEMMA ResponseStep ==
    ASSUME IInv, ResponseInv, [Next]_vars
    PROVE  ResponseInv'
  <1>1. exchanges \subseteq exchanges'
    BY ExchangesStay
  <1>2. ASSUME NEW b \in bindings', b.exchange.role = "request"
        PROVE  serviceResponseExchangeName(b.exchange.owner) \in exchanges'
    <2>1. CASE b \in bindings
      BY <1>1, <1>2, <2>1 DEF ResponseInv, ResponsesHaveExchange
    <2>2. CASE b \notin bindings
      <3>1. PICK p \in Procs : Bind(p)
        BY <2>2 DEF Next, ProcNext, SetupStep, Deploy, Retry, Stop, ResponseExchange, Add,
           AddRefused, DeclareExchange, DeclareQueue, QueueRefused, BindRefused, Wire, Custom,
           Consume, ConsumeRefused, Started, Expire, End, brokerVars, vars
      <3>2. b = Binding(p)
        BY <2>2, <3>1 DEF Bind
      <3> QED
        BY <1>1, <1>2, <3>1, <3>2, BindResponse
    <2> QED
      BY <2>1, <2>2
  <1>3. ASSUME NEW r \in Procs, Same(r)
        PROVE  CanRespond(r)'
    <2>1. Setup(r)' = Setup(r) /\ Service(r)' = Service(r)
      BY <1>3 DEF Same, Setup, Service
    <2> QED
      BY <1>1, <1>3, <2>1 DEF Same, ResponseInv, CanRespond, serviceResponseExchangeName
  <1>4. \A r \in Procs : CanRespond(r)'
    <2>1. ASSUME NEW p \in Procs, ProcNext(p)
          PROVE  \A r \in Procs : CanRespond(r)'
      BY <2>1, <1>1, <1>3, ResponseOwn, StepIsLocal DEF IInv
    <2>2. CASE UNCHANGED <<phase, dep, inc, starts, at, handlers, bound, consumed>>
      BY <2>2, <1>3 DEF Same
    <2> QED
      BY <2>1, <2>2 DEF Next, Expire, vars, procVars, localVars
  <1> QED
    BY <1>2, <1>4 DEF ResponseInv, ResponsesHaveExchange

(* Whatever is deployed and whatever fails: a request reaches a service    *)
(* only when the exchange of its response is there.                        *)
THEOREM Responses == Spec => []ResponsesHaveExchange
  <1>1. Init => IInv /\ ResponseInv
    BY InitIInv, ResponseInit
  <1>2. IInv /\ ResponseInv /\ [Next]_vars => (IInv /\ ResponseInv)'
    BY NextIInv, ResponseStep
  <1>3. ResponseInv => ResponsesHaveExchange
    BY DEF ResponseInv
  <1> QED
    BY <1>1, <1>2, <1>3, PTL DEF Spec

-----------------------------------------------------------------------------
(* StartedIsBacked.                                                        *)

(* At first there is no process and no queue.                              *)
LEMMA BackInit == Init => BackInv
  BY DEF Init, BackInv, QueuesInv, IncInv, Held, BindingInv, HandlerInv, ConsumingInv

(* The random name of a transient queue: a process that declares it is the *)
(* one whose handler it has, and is setting up that handler.               *)
LEMMA RandomNames ==
    ASSUME IInv, IncInv, NEW p \in Procs, NEW h \in handlers[p], IsTransient(p, h),
           NEW r \in Procs, phase[r] = "setup", Queue(r) = h.queue
    PROVE  r = p /\ at[p][1] = h.by /\ Setup(p).op = "transient"
  <1>1. phase[p] # "down" /\ Known(p, h)
    BY DEF IInv, ProcInv
  <1>2. PICK n \in 1..starts[p] : h.queue = QueueName(Service(p), dep[p].setups[h.by], <<inc[p], n, h.by>>)
    BY <1>1 DEF Known
  <1>3. h.queue.uuid = <<inc[p], n, h.by>>
    BY <1>2 DEF QueueName, IsTransient
  <1>4. Queue(r).uuid = IF Setup(r).op = "transient" THEN <<inc[r], starts[r], at[r][1]>> ELSE <<>>
    BY DEF Queue, QueueName
  <1>5. Setup(r).op = "transient" /\ inc[r] = inc[p] /\ at[r][1] = h.by
    BY <1>3, <1>4
  <1>6. r = p
    BY <1>1, <1>5 DEF IncInv
  <1> QED
    BY <1>5, <1>6

(* The queue of any other consumer is named after it alone.                *)
LEMMA FixedNames ==
    ASSUME IInv, NEW p \in Procs, NEW h \in handlers[p], phase[p] = "setup",
           h.by = at[p][1], ~IsTransient(p, h) \/ h.queue = Queue(p)
    PROVE  /\ h.queue = Queue(p) /\ h.key = Setup(p).key
           /\ OwnQueue(p, h) = [name |-> Queue(p), args |-> QueueHeaders(Setup(p))]
  <1>1. Known(p, h)
    BY DEF IInv, ProcInv
  <1>2. PICK n \in 1..starts[p] :
           h = [queue |-> QueueName(Service(p), dep[p].setups[h.by], <<inc[p], n, h.by>>),
                key |-> dep[p].setups[h.by].key, by |-> h.by]
    BY <1>1 DEF Known
  <1>3. dep[p].setups[h.by] = Setup(p)
    BY DEF Setup
  <1>4. h.key = Setup(p).key
    BY <1>2, <1>3
  <1>5. h.queue = Queue(p)
    <2>1. ASSUME Setup(p).op # "transient"
          PROVE  h.queue = Queue(p)
      <3>1. h.queue = QueueName(Service(p), Setup(p), <<inc[p], n, h.by>>)
        BY <1>2, <1>3
      <3> QED
        BY <2>1, <3>1 DEF Queue, QueueName
    <2> QED
      BY <1>3, <2>1 DEF IsTransient
  <1> QED
    BY <1>3, <1>4, <1>5 DEF OwnQueue

(* A process that a step leaves alone, when the step leaves the queues and *)
(* the bindings alone too.                                                 *)
LEMMA SameHeld ==
    ASSUME NEW r \in Procs, Same(r), Held(r), UNCHANGED <<queues, bindings>>
    PROVE  Held(r)'
  <1>1. Setup(r)' = Setup(r) /\ Queue(r)' = Queue(r)
    BY DEF Same, Setup, Queue, Service
  <1>2. \A q : Declared(q)' = Declared(q)
    BY DEF Declared
  <1>3. \A h : Backed(r, h)' = Backed(r, h) /\ IsTransient(r, h)' = IsTransient(r, h)
    BY DEF Same, Backed, OwnQueue, IsTransient
  <1>4. \A h : Current(r, h)' = Current(r, h)
    BY <1>1 DEF Current, Same
  <1>5. BindingInv(r)'
    BY <1>1, <1>2 DEF Same, Held, BindingInv
  <1>6. HandlerInv(r)'
    BY <1>2, <1>3, <1>4 DEF Same, Held, HandlerInv
  <1>7. ConsumingInv(r)'
    BY <1>2, <1>3 DEF Same, Held, ConsumingInv
  <1> QED
    BY <1>5, <1>6, <1>7 DEF Held

(* The steps of a process that leave the broker's queues alone.            *)
LEMMA OwnHeld ==
    ASSUME IInv, BackInv, NEW p \in Procs, ProcNext(p), ~DeclareQueue(p), ~Bind(p)
    PROVE  Held(p)'
  <1> USE DEF procVars, localVars, brokerVars, End
  <1>0. /\ ProcInv(p) /\ Types /\ FunInv /\ Held(p) /\ at[p][1] \in Nat
        /\ \A h \in handlers[p] : Known(p, h)
    BY DEF IInv, BackInv, Types, ProcInv
  <1>1. ASSUME NEW d \in Deployments, Deploy(p, d)
        PROVE  Held(p)'
    <2>1. /\ handlers'[p] = {} /\ consumed'[p] = {} /\ phase'[p] = "setup" /\ at'[p][2] = "begin"
      BY <1>0, <1>1 DEF Deploy, ProcInv, Types, FunInv
    <2> QED
      BY <2>1 DEF Held, BindingInv, HandlerInv, ConsumingInv
  <1>2. CASE Stop(p)
    <2>1. handlers'[p] = {} /\ consumed'[p] = {} /\ phase'[p] = "down"
      BY <1>0, <1>2 DEF Stop, Types, FunInv
    <2> QED
      BY <2>1 DEF Held, BindingInv, HandlerInv, ConsumingInv
  <1>3. ASSUME UNCHANGED <<queues, bindings, dep>>
        PROVE  /\ \A q : Declared(q)' = Declared(q)
               /\ \A h : Backed(p, h)' = Backed(p, h) /\ IsTransient(p, h)' = IsTransient(p, h)
    BY <1>3 DEF Declared, Backed, OwnQueue, IsTransient
  <1>4. CASE Retry(p)
    <2>1. /\ UNCHANGED <<queues, bindings, dep, handlers, consumed>>
          /\ phase[p] = "failed" /\ phase'[p] = "setup" /\ at'[p] = <<1, "begin">>
      BY <1>0, <1>4 DEF Retry, Types
    <2>2. \A h \in handlers[p] : ~Current(p, h)
      BY <1>0, <2>1 DEF Held, ConsumingInv, Current
    <2>3. \A h \in handlers[p] : ~(h.by < 1)
      BY <1>0, <2>1, DeploymentsAssumption DEF Known, ProcInv
    <2>4. BindingInv(p)' /\ ConsumingInv(p)'
      BY <1>0, <1>3, <2>1 DEF Held, BindingInv, ConsumingInv
    <2>5. HandlerInv(p)'
      BY <1>0, <1>3, <2>1, <2>2, <2>3 DEF Held, HandlerInv
    <2> QED
      BY <2>4, <2>5 DEF Held
  <1>5. CASE Add(p)
    <2>1. /\ UNCHANGED <<queues, bindings, dep, inc, starts, consumed, phase>>
          /\ handlers'[p] = handlers[p] \cup
                {[queue |-> Queue(p), key |-> Setup(p).key, by |-> at[p][1]]}
          /\ phase[p] = "setup" /\ at[p][2] \in {"begin", "config"}
          /\ at'[p] = <<at[p][1], "exchange">>
      BY <1>0, <1>5, AddsOne DEF Add, AtConfig, AtOp, AtStage, Goto, Types, FunInv
    <2>2. Queue(p)' = Queue(p)
      BY <2>1 DEF Queue, Setup, Service
    <2>3. \A h \in handlers[p] : ~Current(p, h)
      BY <2>1 DEF Current
    <2>4. \A h \in handlers'[p] : h \in handlers[p] \/ (h.by = at[p][1] /\ Current(p, h)')
      BY <2>1, <2>2 DEF Current
    <2>5. BindingInv(p)' /\ ConsumingInv(p)'
      BY <1>0, <1>3, <2>1 DEF Held, BindingInv, ConsumingInv
    <2>6. HandlerInv(p)'
      BY <1>0, <1>3, <2>1, <2>3, <2>4 DEF Held, HandlerInv
    <2> QED
      BY <2>5, <2>6 DEF Held
  <1>6. CASE AddRefused(p)
    <2>1. /\ UNCHANGED <<queues, bindings, dep, inc, starts, consumed, handlers, at>>
          /\ phase[p] = "setup" /\ at[p][2] \in {"begin", "config"} /\ phase'[p] = "failed"
      BY <1>0, <1>6 DEF AddRefused, AtConfig, AtOp, AtStage, Types
    <2>2. \A h \in handlers[p] : ~Current(p, h)
      BY <2>1 DEF Current
    <2> QED
      BY <1>0, <1>3, <2>1, <2>2 DEF Held, BindingInv, HandlerInv, ConsumingInv
  <1>7. CASE QueueRefused(p) \/ BindRefused(p) \/ \E h \in handlers[p] : ConsumeRefused(p, h.queue)
    <2>1. UNCHANGED <<queues, bindings, dep, consumed>> /\ phase'[p] = "stuck"
      BY <1>0, <1>7 DEF QueueRefused, BindRefused, ConsumeRefused, Types
    <2> QED
      BY <1>0, <1>3, <2>1 DEF Held, BindingInv, HandlerInv, ConsumingInv
  <1>8. CASE ResponseExchange(p) \/ DeclareExchange(p)
    <2>1. /\ UNCHANGED <<queues, bindings, dep, inc, starts, consumed, handlers, phase>>
          /\ at'[p][1] = at[p][1] /\ phase[p] = "setup" /\ at'[p][2] # "bind"
          /\ \/ at[p][2] = "begin"
             \/ at[p][2] = "exchange" /\ at'[p][2] = "queue"
      BY <1>0, <1>8 DEF ResponseExchange, DeclareExchange, AtOp, AtStage, Goto, Types
    <2>2. Queue(p)' = Queue(p)
      BY <2>1 DEF Queue, Setup, Service
    <2>3. \A h \in handlers[p] : Current(p, h) => Current(p, h)'
      BY <2>1, <2>2 DEF Current
    <2>4. BindingInv(p)' /\ ConsumingInv(p)'
      BY <1>0, <1>3, <2>1 DEF Held, BindingInv, ConsumingInv
    <2>5. HandlerInv(p)'
      BY <1>0, <1>3, <2>1, <2>3 DEF Held, HandlerInv
    <2> QED
      BY <2>4, <2>5 DEF Held
  <1>9. CASE Wire(p) \/ Custom(p)
    <2>1. /\ UNCHANGED <<queues, bindings, dep, consumed, handlers>>
          /\ phase[p] = "setup" /\ at[p][2] \in {"begin", "wire"}
          /\ Setup(p).op \notin Consumers
      BY <1>0, <1>9 DEF Wire, Custom, AtOp, AtStage, Consumers, Publishers
    <2>2. \/ phase' = phase /\ at'[p] = <<at[p][1] + 1, "begin">>
          \/ phase'[p] = "failed" /\ at' = at /\ at[p][2] = "begin"
      BY <1>0, <1>9 DEF Wire, Custom, AtOp, AtStage, NextSetup, Types
    <2>3. \A h \in handlers[p] : ~Current(p, h)
      BY <2>1 DEF Current
    <2>4. \A h \in handlers[p] : h.by # at[p][1]
      BY <1>0, <2>1 DEF Known, Setup
    <2>5. \A h \in handlers[p] : h.by \in Nat
      BY KnownTyped
    <2>6. BindingInv(p)' /\ ConsumingInv(p)'
      BY <1>0, <1>3, <2>1, <2>2 DEF Held, BindingInv, ConsumingInv
    <2>7. \A h \in handlers[p] : h.by < at[p][1] + 1 => h.by < at[p][1]
      BY <1>0, <2>4, <2>5
    <2>8. CASE phase' = phase /\ at'[p] = <<at[p][1] + 1, "begin">>
      <3>1. at'[p][1] = at[p][1] + 1
        BY <2>8
      <3>2. HandlerInv(p)'
        BY <1>0, <1>3, <2>1, <2>8, <3>1, <2>3, <2>7 DEF Held, HandlerInv
      <3> QED
        BY <2>6, <3>2 DEF Held
    <2>9. CASE phase'[p] = "failed" /\ at' = at
      <3>1. HandlerInv(p)'
        BY <1>0, <1>3, <2>1, <2>9, <2>3 DEF Held, HandlerInv
      <3> QED
        BY <2>6, <3>1 DEF Held
    <2> QED
      BY <2>2, <2>8, <2>9
  <1>10. ASSUME NEW g \in handlers[p], Consume(p, g.queue)
         PROVE  Held(p)'
    <2>1. /\ UNCHANGED <<queues, bindings, dep, inc, starts, handlers, phase, at>>
          /\ phase[p] = "setup" /\ Declared(g.queue)
          /\ consumed'[p] = consumed[p] \cup {g.queue}
      BY <1>0, <1>10 DEF Consume, AtConsume, FunInv
    <2>2. Queue(p)' = Queue(p) /\ Setup(p)' = Setup(p)
      BY <2>1 DEF Queue, Setup, Service
    <2>3. \A h \in handlers[p] : Current(p, h)' = Current(p, h)
      BY <2>1, <2>2 DEF Current
    <2>4. BindingInv(p)' /\ ConsumingInv(p)'
      BY <1>0, <1>3, <2>1, <2>2 DEF Held, BindingInv, ConsumingInv
    <2>5. HandlerInv(p)'
      BY <1>0, <1>3, <2>1, <2>3 DEF Held, HandlerInv
    <2> QED
      BY <2>4, <2>5 DEF Held
  <1>11. CASE Started(p)
    <2>1. /\ UNCHANGED <<queues, bindings, dep, consumed, handlers>>
          /\ phase[p] = "setup" /\ phase'[p] = "consuming"
          /\ \A h \in handlers[p] : h.queue \in consumed[p]
      BY <1>0, <1>11 DEF Started, AtConsume, Types
    <2>2. \A h \in handlers[p] : h.by < at[p][1]
      BY <1>0, <1>11, <2>1, DeploymentsAssumption DEF Started, AtConsume, Known, ProcInv
    <2>3. \A h \in handlers[p] : Declared(h.queue)
      BY <1>0, <2>1 DEF Held, ConsumingInv
    <2>4. ASSUME NEW h \in handlers[p], IsTransient(p, h)
          PROVE  Backed(p, h)
      <3>1. ~Current(p, h)
        <4>1. CASE h.queue = Queue(p)
          <5>1. at[p][1] = h.by
            BY <2>1, <2>4, <4>1, RandomNames DEF BackInv
          <5>2. h.by \in Nat
            BY KnownTyped
          <5> QED
            BY <1>0, <2>2, <5>1, <5>2
        <4> QED
          BY <4>1 DEF Current
      <3> QED
        BY <1>0, <2>1, <2>3, <2>4, <3>1 DEF Held, HandlerInv
    <2>5. \A h \in handlers[p] : Backed(p, h)
      BY <1>0, <2>1, <2>2, <2>4 DEF Held, HandlerInv
    <2> QED
      BY <1>0, <1>3, <2>1, <2>5 DEF Held, BindingInv, HandlerInv, ConsumingInv
  <1> QED
    BY <1>1, <1>2, <1>4, <1>5, <1>6, <1>7, <1>8, <1>9, <1>10, <1>11 DEF ProcNext, SetupStep

(* QueueDeclare: no other process waits for that queue to stay away.       *)
LEMMA DeclareHeld ==
    ASSUME IInv, BackInv, NEW p \in Procs, DeclareQueue(p), NEW r \in Procs,
           r # p => Same(r)
    PROVE  Held(r)'
  <1> USE DEF procVars, localVars
  <1> DEFINE new == [name |-> Queue(p), args |-> QueueHeaders(Setup(p))]
  <1>1. /\ UNCHANGED <<phase, dep, inc, starts, handlers, consumed, bindings>>
        /\ phase[p] = "setup" /\ at[p][2] = "queue" /\ queues' = queues \cup {new}
        /\ at'[p] = <<at[p][1], "bind">>
    BY DEF DeclareQueue, AtStage, Goto, IInv, Types
  <1>2. at'[r][1] = at[r][1] /\ (r # p => at'[r] = at[r])
    BY <1>1 DEF Same
  <1>3. Setup(r)' = Setup(r) /\ Queue(r)' = Queue(r)
    BY <1>1, <1>2 DEF Setup, Queue, Service
  <1>4. ASSUME NEW q PROVE Declared(q)' <=> Declared(q) \/ q = Queue(p)
    <2>1. new.name = Queue(p)
      OBVIOUS
    <2>2. Declared(q) => Declared(q)'
      BY <1>1 DEF Declared
    <2>3. q = Queue(p) => Declared(q)'
      BY <1>1, <2>1 DEF Declared
    <2>4. Declared(q)' => Declared(q) \/ q = Queue(p)
      BY <1>1, <2>1 DEF Declared
    <2> QED
      BY <2>2, <2>3, <2>4
  <1>5. \A h : /\ Backed(r, h) => Backed(r, h)'
               /\ IsTransient(r, h)' = IsTransient(r, h)
               /\ Current(r, h)' = Current(r, h)
    BY <1>1, <1>2, <1>3 DEF Backed, OwnQueue, IsTransient, Current
  <1>6. BindingInv(r)'
    <2>1. CASE r = p
      BY <1>1, <1>3, <2>1 DEF BindingInv
    <2>2. CASE r # p /\ phase[r] = "setup" /\ at[r][2] = "bind" /\ Setup(r).op = "transient"
      <3>1. PICK h \in handlers[r] : h.queue = Queue(r)
        BY <2>2 DEF IInv, ProcInv, Pending
      <3>2. Queue(p) # Queue(r)
        <4>1. Queue(r).uuid = <<inc[r], starts[r], at[r][1]>>
          BY <2>2 DEF Queue, QueueName
        <4>2. Queue(p).uuid = <<inc[p], starts[p], at[p][1]>> \/ Queue(p).uuid = <<>>
          BY DEF Queue, QueueName
        <4>3. inc[r] # inc[p]
          BY <1>1, <2>2 DEF BackInv, IncInv
        <4> QED
          BY <4>1, <4>2, <4>3
      <3> QED
        BY <1>1, <1>2, <1>3, <1>4, <2>2, <3>2 DEF BackInv, Held, BindingInv
    <2>3. CASE r # p /\ ~(phase[r] = "setup" /\ at[r][2] = "bind" /\ Setup(r).op = "transient")
      BY <1>1, <1>2, <1>3, <2>3 DEF BackInv, Held, BindingInv
    <2> QED
      BY <2>1, <2>2, <2>3
  <1>7. HandlerInv(r)'
    <2>1. ASSUME NEW h \in handlers[r], IsTransient(r, h), ~Current(r, h), h.queue = Queue(p)
          PROVE  FALSE
      <3>1. r = p
        BY <1>1, <2>1, RandomNames DEF BackInv
      <3> QED
        BY <1>1, <2>1, <3>1 DEF Current
    <2> QED
      BY <1>1, <1>2, <1>4, <1>5, <2>1 DEF BackInv, Held, HandlerInv
  <1>8. ConsumingInv(r)'
    BY <1>1, <1>2, <1>4, <1>5 DEF BackInv, Held, ConsumingInv, Same
  <1> QED
    BY <1>6, <1>7, <1>8 DEF Held

(* QueueBind: the handlers of the Setup function it ends are backed.       *)
LEMMA BindHeld ==
    ASSUME IInv, BackInv, NEW p \in Procs, Bind(p), NEW r \in Procs,
           r # p => Same(r)
    PROVE  Held(r)'
  <1> USE DEF procVars
  <1>1. /\ UNCHANGED <<phase, dep, inc, starts, handlers, consumed, queues>>
        /\ phase[p] = "setup" /\ at[p][2] = "bind" /\ bindings' = bindings \cup {Binding(p)}
        /\ Declared(Queue(p)) /\ at'[p] = <<at[p][1] + 1, "begin">>
        /\ at[p][1] \in Nat
    BY DEF Bind, AtStage, NextSetup, IInv, Types
  <1>2. \A q : Declared(q)' = Declared(q)
    BY <1>1 DEF Declared
  <1>3. \A h : /\ Backed(r, h) => Backed(r, h)'
               /\ IsTransient(r, h)' = IsTransient(r, h)
    BY <1>1 DEF Backed, OwnQueue, IsTransient
  <1>4. ConsumingInv(r)'
    BY <1>1, <1>2, <1>3 DEF BackInv, Held, ConsumingInv, Same
  <1>5. CASE r # p
    <2>1. /\ Setup(r)' = Setup(r) /\ Queue(r)' = Queue(r)
          /\ \A h : Current(r, h)' = Current(r, h)
      BY <1>1, <1>5 DEF Same, Setup, Queue, Service, Current
    <2>2. BindingInv(r)'
      BY <1>1, <1>2, <1>5, <2>1 DEF BackInv, Held, BindingInv, Same
    <2>3. HandlerInv(r)'
      BY <1>1, <1>2, <1>3, <1>5, <2>1 DEF BackInv, Held, HandlerInv, Same
    <2> QED
      BY <1>4, <2>2, <2>3 DEF Held
  <1>6. CASE r = p
    <2>1. BindingInv(r)'
      BY <1>1, <1>6 DEF BindingInv
    <2>2. [name |-> Queue(p), args |-> QueueHeaders(Setup(p))] \in queues
      BY <1>1 DEF BackInv, Held, BindingInv
    <2>3. Binding(p).queue = Queue(p) /\ Binding(p).key = Setup(p).key
      BY DEF Binding
    <2>4. ASSUME NEW h \in handlers[p], h.by = at[p][1], ~IsTransient(p, h) \/ h.queue = Queue(p)
          PROVE  Backed(p, h)'
      <3>1. /\ h.queue = Queue(p) /\ h.key = Setup(p).key
            /\ OwnQueue(p, h) = [name |-> Queue(p), args |-> QueueHeaders(Setup(p))]
        BY <1>1, <2>4, FixedNames
      <3> QED
        BY <1>1, <2>2, <2>3, <3>1 DEF Backed, OwnQueue
    <2>5. ASSUME NEW h \in handlers[p], IsTransient(p, h)
          PROVE  Backed(p, h)' \/ ~Declared(h.queue)
      <3>1. CASE h.queue = Queue(p)
        <4>1. at[p][1] = h.by
          BY <1>1, <2>5, <3>1, RandomNames DEF BackInv
        <4> QED
          BY <2>4, <3>1, <4>1
      <3>2. CASE h.queue # Queue(p)
        BY <1>1, <1>3, <1>6, <2>5, <3>2 DEF BackInv, Held, HandlerInv, Current
      <3> QED
        BY <3>1, <3>2
    <2>6. ASSUME NEW h \in handlers[p], ~IsTransient(p, h), h.by < at[p][1] + 1
          PROVE  Backed(p, h)'
      <3>1. h.by \in Nat
        BY KnownTyped
      <3>2. h.by < at[p][1] \/ h.by = at[p][1]
        BY <1>1, <2>6, <3>1
      <3> QED
        BY <1>1, <1>3, <1>6, <2>4, <2>6, <3>2 DEF BackInv, Held, HandlerInv
    <2>7. HandlerInv(r)'
      BY <1>1, <1>2, <1>3, <1>6, <2>5, <2>6 DEF HandlerInv
    <2> QED
      BY <1>4, <2>1, <2>7 DEF Held
  <1> QED
    BY <1>5, <1>6

(* A queue expires, with its bindings: a transient one that is not         *)
(* consumed, or any that is not while no process is setting up.            *)
LEMMA ExpireHeld ==
    ASSUME IInv, BackInv, NEW x \in queues, Expire(x), NEW r \in Procs
    PROVE  Held(r)'
  <1> USE DEF procVars, localVars
  <1>1. /\ UNCHANGED <<phase, dep, inc, starts, at, handlers, consumed>>
        /\ queues' = queues \ {x} /\ bindings' = {b \in bindings : b.queue # x.name}
        /\ x.name \notin consumed[r] /\ (phase[r] = "setup" => x.args.expires = "second")
    BY DEF Expire
  <1>2. Setup(r)' = Setup(r) /\ Queue(r)' = Queue(r)
    BY <1>1 DEF Setup, Queue, Service
  <1>3. \A q : /\ q # x.name => Declared(q)' = Declared(q)
               /\ q = x.name => ~Declared(q)'
    BY <1>1 DEF Declared, BackInv, QueuesInv
  <1>4. \A h : /\ IsTransient(r, h)' = IsTransient(r, h) /\ Current(r, h)' = Current(r, h)
               /\ Backed(r, h) /\ h.queue # x.name => Backed(r, h)'
    BY <1>1, <1>2 DEF IsTransient, Current, Backed, OwnQueue
  <1>5. ASSUME NEW q, NEW f, [name |-> q, args |-> QueueHeaders(f)] \in queues,
               f.op # "transient", phase[r] = "setup"
        PROVE  q # x.name
    <2>1. CASE q = x.name
      <3>1. x = [name |-> q, args |-> QueueHeaders(f)]
        BY <1>5, <2>1 DEF BackInv, QueuesInv
      <3>2. x.args.expires = "days"
        BY <1>5, <3>1 DEF QueueHeaders
      <3> QED
        BY <1>1, <1>5, <3>2
    <2> QED
      BY <2>1
  <1>6. BindingInv(r)'
    <2> SUFFICES ASSUME phase[r] = "setup", at[r][2] = "bind"
                 PROVE  \/ [name |-> Queue(r), args |-> QueueHeaders(Setup(r))] \in queues'
                        \/ Setup(r).op = "transient" /\ ~Declared(Queue(r))'
      BY <1>1, <1>2, <1>3 DEF BindingInv, Declared
    <2>0. \/ [name |-> Queue(r), args |-> QueueHeaders(Setup(r))] \in queues
          \/ Setup(r).op = "transient" /\ ~Declared(Queue(r))
      BY DEF BackInv, Held, BindingInv
    <2>1. CASE Queue(r) = x.name
      <3>1. ~Declared(Queue(r))'
        BY <1>2, <1>3, <2>1
      <3>2. Declared(Queue(r))
        BY <2>1 DEF Declared
      <3> QED
        BY <1>5, <2>0, <2>1, <3>1, <3>2
    <2>2. CASE Queue(r) # x.name
      <3>1. Declared(Queue(r))' = Declared(Queue(r))
        BY <1>2, <1>3, <2>2
      <3> QED
        BY <1>1, <2>0, <2>2, <3>1
    <2> QED
      BY <2>1, <2>2
  <1>7. HandlerInv(r)'
    <2>1. ASSUME NEW h \in handlers[r], Backed(r, h), ~IsTransient(r, h), phase[r] = "setup"
          PROVE  h.queue # x.name
      BY <1>5, <2>1 DEF Backed, OwnQueue, IsTransient
    <2>2. ASSUME NEW h \in handlers[r], Backed(r, h) \/ ~Declared(h.queue)
          PROVE  Backed(r, h)' \/ ~Declared(h.queue)'
      BY <1>3, <1>4, <2>2
    <2> QED
      BY <1>1, <1>4, <2>1, <2>2 DEF BackInv, Held, HandlerInv
  <1>8. ConsumingInv(r)'
    BY <1>1, <1>3, <1>4 DEF BackInv, Held, ConsumingInv
  <1> QED
    BY <1>6, <1>7, <1>8 DEF Held

(* QueueDeclare never gives a queue a second set of arguments.             *)
LEMMA QueuesStep ==
    ASSUME QueuesInv, [Next]_vars
    PROVE  QueuesInv'
  <1>1. ASSUME NEW p \in Procs, DeclareQueue(p)
        PROVE  QueuesInv'
    BY <1>1 DEF DeclareQueue, QueuesInv
  <1>2. CASE queues' \subseteq queues
    BY <1>2 DEF QueuesInv
  <1> QED
    BY <1>1, <1>2 DEF Next, ProcNext, SetupStep, Expire, Bind, vars, Deploy, Retry, Stop, ResponseExchange, Add, AddRefused,
         DeclareExchange, QueueRefused, BindRefused, Wire, Custom, Consume, ConsumeRefused,
         Started, End, brokerVars

(* Every deployment has a number of its own.                               *)
LEMMA IncStep ==
    ASSUME IInv, IncInv, [Next]_vars
    PROVE  IncInv'
  <1> USE DEF IInv, Types, procVars
  <1>0. deploys \in Nat /\ \A p \in Procs : inc[p] \in Nat
    BY DeploymentsAssumption
  <1>1. ASSUME NEW p \in Procs, NEW d \in Deployments, Deploy(p, d)
        PROVE  IncInv'
    <2>1. /\ \A r \in Procs : inc'[r] = IF r = p THEN deploys + 1 ELSE inc[r]
          /\ \A r \in Procs : r # p => phase'[r] = phase[r]
          /\ deploys' = deploys + 1
      BY <1>1 DEF Deploy
    <2> QED
      BY <1>0, <2>1 DEF IncInv
  <1>2. ASSUME NEW p \in Procs, Stop(p)
        PROVE  IncInv'
    <2>1. /\ \A r \in Procs : inc'[r] = IF r = p THEN 0 ELSE inc[r]
          /\ \A r \in Procs : phase'[r] = IF r = p THEN "down" ELSE phase[r]
          /\ deploys' = deploys
      BY <1>2 DEF Stop
    <2> QED
      BY <1>0, <2>1 DEF IncInv
  <1>3. ASSUME NEW p \in Procs, ProcNext(p),
               \A d \in Deployments : ~Deploy(p, d), ~Stop(p)
        PROVE  IncInv'
    <2>1. inc' = inc /\ deploys' = deploys
      BY <1>3 DEF ProcNext, SetupStep, DeclareQueue, Bind, Retry, ResponseExchange, Add, AddRefused,
         DeclareExchange, QueueRefused, BindRefused, Wire, Custom, Consume, ConsumeRefused,
         Started, End
    <2>2. phase[p] # "down"
      BY <1>3 DEF ProcNext, SetupStep, DeclareQueue, Bind, Retry, ResponseExchange, Add,
         AddRefused, DeclareExchange, QueueRefused, BindRefused, Wire, Custom, Consume,
         ConsumeRefused, Started, AtConfig, AtConsume, AtOp, AtStage
    <2>3. \A r \in Procs : r # p => phase'[r] = phase[r]
      BY <1>3, StepIsLocal DEF Same
    <2> QED
      BY <2>1, <2>2, <2>3 DEF IncInv
  <1>4. CASE UNCHANGED <<phase, inc, deploys>>
    BY <1>4 DEF IncInv
  <1> QED
    BY <1>1, <1>2, <1>3, <1>4 DEF Next, ProcNext, Expire, vars

(* No step, of any process or of the broker, takes away the queue of a     *)
(* handler that may still be consumed.                                     *)
LEMMA BackStep ==
    ASSUME IInv, BackInv, [Next]_vars
    PROVE  BackInv'
  <1>1. ASSUME NEW p \in Procs, ProcNext(p), NEW r \in Procs
        PROVE  Held(r)'
    <2>1. r # p => Same(r)
      BY <1>1, StepIsLocal DEF IInv
    <2>2. CASE DeclareQueue(p)
      BY <2>1, <2>2, DeclareHeld
    <2>3. CASE Bind(p)
      BY <2>1, <2>3, BindHeld
    <2>4. CASE ~DeclareQueue(p) /\ ~Bind(p)
      <3>1. UNCHANGED <<queues, bindings>>
        BY <1>1, <2>4 DEF ProcNext, SetupStep, Deploy, Retry, Stop, ResponseExchange, Add, AddRefused,
         DeclareExchange, QueueRefused, BindRefused, Wire, Custom, Consume, ConsumeRefused,
         Started, End, brokerVars
      <3>2. CASE r # p
        BY <2>1, <3>1, <3>2, SameHeld DEF BackInv
      <3> QED
        BY <1>1, <2>4, <3>2, OwnHeld
    <2> QED
      BY <2>2, <2>3, <2>4
  <1>2. ASSUME NEW x \in queues, Expire(x), NEW r \in Procs
        PROVE  Held(r)'
    BY <1>2, ExpireHeld
  <1>3. ASSUME UNCHANGED vars, NEW r \in Procs
        PROVE  Held(r)'
    BY <1>3, SameHeld DEF Same, BackInv, vars, procVars, localVars, brokerVars
  <1>4. \A r \in Procs : Held(r)'
    BY <1>1, <1>2, <1>3 DEF Next
  <1>5. QueuesInv' /\ IncInv'
    BY QueuesStep, IncStep DEF BackInv
  <1> QED
    BY <1>4, <1>5 DEF BackInv

(* Whoever else declares, binds and expires queues of the same broker: a   *)
(* process that consumes has all its queues, with its own arguments, bound.*)
THEOREM StartedBacked == Spec => []StartedIsBacked
  <1>1. Init => IInv /\ BackInv
    BY InitIInv, BackInit
  <1>2. IInv /\ BackInv /\ [Next]_vars => (IInv /\ BackInv)'
    BY NextIInv, BackStep
  <1>3. BackInv => StartedIsBacked
    BY DEF BackInv, Held, ConsumingInv, Backed, OwnQueue, StartedIsBacked
  <1> QED
    BY <1>1, <1>2, <1>3, PTL DEF Spec

-----------------------------------------------------------------------------
(* CollectTopology, as far as the consumers it accepts.                    *)

(* add refuses what CollectTopology refuses: the consumers before it, on   *)
(* the same queue, are registered.                                         *)
LEMMA AddAccepts ==
    ASSUME IInv, NEW p \in Procs, AcceptInv(p), Add(p), NEW n, n = at[p][1]
    PROVE  n \in ConsumersOf(dep[p]) /\ Accepts(dep[p], n)
  <1>1. /\ phase[p] = "setup" /\ at[p][2] \in {"begin", "config"} /\ Setup(p).op \in Consumers
        /\ at[p][1] <= Len(dep[p].setups) /\ Setup(p).valid /\ ~Exists(p)
    BY DEF Add, AtConfig, AtOp, AtStage, Consumers
  <1>2. n \in ConsumersOf(dep[p]) /\ Setup(p) = dep[p].setups[n]
    BY <1>1, AtFacts DEF ConsumersOf, Setup
  <1>3. ASSUME NEW j \in ConsumersOf(dep[p]), j < n,
               QueueName(dep[p].service, dep[p].setups[n], <<n>>)
                   = QueueName(dep[p].service, dep[p].setups[j], <<j>>)
        PROVE  <<dep[p].setups[n].key, dep[p].setups[j].key>> \notin Overlaps
    <2>1. dep[p].setups[n].op # "transient" /\ dep[p].setups[j].op # "transient"
      <3>0. j # n
        BY <1>3, <1>1, AtFacts
      <3>1. (IF dep[p].setups[n].op = "transient" THEN <<n>> ELSE <<>>)
               = IF dep[p].setups[j].op = "transient" THEN <<j>> ELSE <<>>
        BY <1>3 DEF QueueName
      <3>2. <<n>> # <<j>> /\ <<n>> # <<>> /\ <<j>> # <<>>
        BY <3>0
      <3> QED
        BY <3>1, <3>2
    <2>2. PICK h \in handlers[p] : h.by = j
      BY <1>1, <1>3, <2>1 DEF AcceptInv, Behind
    <2>3. Known(p, h)
      BY DEF IInv, ProcInv
    <2>4. PICK m \in 1..starts[p] :
             h = [queue |-> QueueName(Service(p), dep[p].setups[j], <<inc[p], m, j>>),
                  key |-> dep[p].setups[j].key, by |-> j]
      BY <2>2, <2>3 DEF Known
    <2>5. h.key = dep[p].setups[j].key
      BY <2>4
    <2>6. h.queue = QueueName(dep[p].service, dep[p].setups[j], <<j>>)
      BY <2>1, <2>4 DEF QueueName, Service
    <2>7. Queue(p) = QueueName(dep[p].service, dep[p].setups[n], <<n>>)
      BY <1>2, <2>1 DEF Queue, QueueName, Service
    <2> QED
      BY <1>1, <1>2, <1>3, <2>5, <2>6, <2>7 DEF Exists
  <1> QED
    BY <1>1, <1>2, <1>3 DEF Accepts

(* Start passes a consumer only if CollectTopology would.                  *)
LEMMA AcceptOwn ==
    ASSUME IInv, NEW p \in Procs, AcceptInv(p), ProcNext(p)
    PROVE  AcceptInv(p)'
  <1> USE DEF procVars, localVars, End
  <1>0. /\ ProcInv(p) /\ Types /\ FunInv /\ at[p][1] \in Nat
        /\ phase[p] # "down" => /\ dep[p] \in Deployments
                                /\ \A i \in ConsumersOf(dep[p]) : i \in 1..Len(dep[p].setups)
    BY DeploymentsAssumption DEF IInv, Types, ProcInv, ConsumersOf
  <1>1. ASSUME NEW d \in Deployments, Deploy(p, d)
        PROVE  AcceptInv(p)'
    <2>1. /\ at'[p] = <<1, "begin">> /\ phase'[p] = "setup" /\ dep'[p] = d
      BY <1>0, <1>1 DEF Deploy, ProcInv, Types, FunInv
    <2>2. \A i \in ConsumersOf(d) : ~Behind(p, i)'
      BY <2>1, DeploymentsAssumption DEF ConsumersOf, Behind
    <2> QED
      BY <2>1, <2>2 DEF AcceptInv
  <1>2. CASE Retry(p)
    <2>1. /\ at'[p] = <<1, "begin">> /\ phase'[p] = "setup" /\ dep' = dep /\ phase[p] # "down"
      BY <1>0, <1>2 DEF Retry, Types, FunInv
    <2>2. \A i \in ConsumersOf(dep[p]) : ~Behind(p, i)'
      BY <1>0, <2>1 DEF Behind
    <2> QED
      BY <2>1, <2>2 DEF AcceptInv
  <1>3. CASE Stop(p) \/ AddRefused(p) \/ QueueRefused(p) \/ BindRefused(p)
             \/ \E h \in handlers[p] : ConsumeRefused(p, h.queue)
    <2>1. phase'[p] \in {"down", "failed", "stuck"}
      BY <1>0, <1>3 DEF Stop, AddRefused, QueueRefused, BindRefused, ConsumeRefused, Types
    <2> QED
      BY <2>1 DEF AcceptInv
  <1>4. CASE Add(p)
    <2>1. PICK n : n = at[p][1]
      OBVIOUS
    <2>2. n \in ConsumersOf(dep[p]) /\ Accepts(dep[p], n)
      BY <1>4, <2>1, AddAccepts
    <2>3. /\ UNCHANGED <<phase, dep>> /\ phase[p] = "setup" /\ at'[p] = <<n, "exchange">>
          /\ handlers'[p] = handlers[p] \cup {[queue |-> Queue(p), key |-> Setup(p).key, by |-> n]}
      BY <1>0, <1>4, <2>1, AddsOne DEF Add, AtConfig, AtOp, AtStage, Goto, Types, FunInv
    <2>4. \A i : Behind(p, i)' => Behind(p, i) \/ i = n
      BY <2>1, <2>3 DEF Behind
    <2>5. \E h \in handlers'[p] : h.by = n
      <3> DEFINE new == [queue |-> Queue(p), key |-> Setup(p).key, by |-> n]
      <3>1. new.by = n
        OBVIOUS
      <3>2. new \in handlers'[p]
        BY <2>3
      <3> HIDE DEF new
      <3> QED
        BY <3>1, <3>2
    <2> QED
      BY <2>2, <2>3, <2>4, <2>5 DEF AcceptInv
  <1>5. CASE ResponseExchange(p) \/ DeclareExchange(p) \/ DeclareQueue(p)
    <2>1. /\ UNCHANGED <<phase, dep, handlers>> /\ phase[p] = "setup" /\ at'[p][1] = at[p][1]
          /\ at[p][2] \in {"exchange", "queue"} \/ at'[p][2] \in {"config", "wire"}
      BY <1>0, <1>5 DEF ResponseExchange, DeclareExchange, DeclareQueue, AtOp, AtStage, Goto, Types
    <2>2. \A i : Behind(p, i)' => Behind(p, i)
      BY <2>1 DEF Behind
    <2> QED
      BY <2>1, <2>2 DEF AcceptInv
  <1>6. CASE Bind(p)
    <2>1. /\ UNCHANGED <<phase, dep, handlers>> /\ phase[p] = "setup"
          /\ at[p][2] = "bind" /\ at'[p] = <<at[p][1] + 1, "begin">>
      BY <1>0, <1>6 DEF Bind, AtStage, NextSetup, Types
    <2>2. \A i \in ConsumersOf(dep[p]) : Behind(p, i)' => Behind(p, i)
      BY <1>0, <2>1 DEF Behind
    <2> QED
      BY <2>1, <2>2 DEF AcceptInv
  <1>7. CASE Wire(p) \/ Custom(p)
    <2>1. /\ UNCHANGED <<dep, handlers>> /\ phase[p] = "setup"
          /\ at[p][1] \notin ConsumersOf(dep[p])
          /\ \/ phase' = phase /\ at'[p] = <<at[p][1] + 1, "begin">>
             \/ phase'[p] = "failed"
      BY <1>0, <1>7 DEF Wire, Custom, AtOp, AtStage, NextSetup, Types, Consumers, Publishers,
         ConsumersOf, Setup
    <2>2. CASE phase' = phase /\ at'[p] = <<at[p][1] + 1, "begin">>
      <3>1. \A i \in ConsumersOf(dep[p]) : Behind(p, i)' => Behind(p, i)
        BY <1>0, <2>1, <2>2 DEF Behind
      <3> QED
        BY <2>1, <2>2, <3>1 DEF AcceptInv
    <2>3. CASE phase'[p] = "failed"
      BY <2>3 DEF AcceptInv
    <2> QED
      BY <2>1, <2>2, <2>3
  <1>8. ASSUME NEW h \in handlers[p], Consume(p, h.queue)
        PROVE  AcceptInv(p)'
    BY <1>8 DEF Consume, AcceptInv, Behind
  <1>9. CASE Started(p)
    <2>1. /\ UNCHANGED <<dep, handlers>> /\ phase[p] = "setup" /\ phase'[p] = "consuming"
          /\ at[p][1] = Len(dep[p].setups) + 1
      BY <1>0, <1>9 DEF Started, AtConsume, Types
    <2>2. \A i \in ConsumersOf(dep[p]) : Behind(p, i)
      BY <1>0, <2>1 DEF Behind
    <2> QED
      BY <2>1, <2>2 DEF AcceptInv
  <1> QED
    BY <1>1, <1>2, <1>3, <1>4, <1>5, <1>6, <1>7, <1>8, <1>9 DEF ProcNext, SetupStep

(* If CollectTopology fails for a service, no Start of it succeeds,        *)
(* however often it is called again.                                       *)
THEOREM Collected == Spec => []CollectedFirst
  <1> DEFINE Inv == IInv /\ \A p \in Procs : AcceptInv(p)
  <1>1. Init => Inv
    BY InitIInv DEF Init, AcceptInv
  <1>2. Inv /\ [Next]_vars => Inv'
    <2> SUFFICES ASSUME Inv, [Next]_vars, NEW r \in Procs
                 PROVE  AcceptInv(r)'
      BY NextIInv
    <2>1. ASSUME NEW p \in Procs, ProcNext(p), r # p
          PROVE  AcceptInv(r)'
      <3>1. Same(r)
        BY <2>1, StepIsLocal DEF IInv
      <3> QED
        BY <3>1 DEF Same, AcceptInv, Behind
    <2>2. ASSUME ProcNext(r)
          PROVE  AcceptInv(r)'
      BY <2>2, AcceptOwn
    <2>3. CASE UNCHANGED <<phase, dep, at, handlers>>
      BY <2>3 DEF AcceptInv, Behind
    <2> QED
      BY <2>1, <2>2, <2>3 DEF Next, Expire, vars, procVars, localVars
  <1>3. Inv => CollectedFirst
    BY DEF AcceptInv, CollectedFirst
  <1> QED
    BY <1>1, <1>2, <1>3, PTL DEF Spec

-----------------------------------------------------------------------------
(* CollectTopology, as far as the list of endpoints.                       *)

(* How the places go on from one Setup function to the next.               *)
LEMMA Places ==
    ASSUME NEW d \in Deployments, NEW i \in 0..Len(d.setups)
    PROVE  /\ Place(d, i) \in Nat
           /\ i = 0 => Place(d, i) = 0
           /\ \A k \in Recorded(d) : /\ k \in 1..Len(d.setups)
                                     /\ k <= i => Place(d, k) \in 1..Place(d, i)
           /\ i > 0 => Place(d, i) = IF i \in Recorded(d) THEN Place(d, i - 1) + 1
                                     ELSE Place(d, i - 1)
  <1> DEFINE Upto(k) == {j \in Recorded(d) : j <= k}
  <1>0. Len(d.setups) \in Nat /\ Recorded(d) \subseteq 1..Len(d.setups)
    <2>1. DOMAIN d.setups = 1..Len(d.setups) /\ Len(d.setups) \in Nat
      BY DeploymentsAssumption
    <2> QED
      BY <2>1 DEF Recorded
  <1>1. \A k : IsFiniteSet(Upto(k)) /\ Cardinality(Upto(k)) \in Nat /\ Place(d, k) = Cardinality(Upto(k))
    <2> TAKE k
    <2>1. IsFiniteSet(1..Len(d.setups))
      BY <1>0, FS_Interval
    <2>2. IsFiniteSet(Upto(k))
      BY <1>0, <2>1, FS_Subset
    <2> QED
      BY <2>2, FS_CardinalityType DEF Place
  <1>2. i = 0 => Place(d, i) = 0
    <2> SUFFICES ASSUME i = 0 PROVE Place(d, i) = 0
      OBVIOUS
    <2>1. Upto(i) = {}
      BY <1>0
    <2> QED
      BY <1>1, <2>1, FS_EmptySet
  <1>3. ASSUME NEW k \in Recorded(d) PROVE k <= i => Place(d, k) \in 1..Place(d, i)
    <2> SUFFICES ASSUME k <= i PROVE Place(d, k) \in 1..Place(d, i)
      OBVIOUS
    <2>0. k \in Nat /\ i \in Nat
      BY <1>0
    <2>1. Upto(k) \subseteq Upto(i)
      BY <1>0, <2>0
    <2>2. Cardinality(Upto(k)) <= Cardinality(Upto(i))
      BY <1>1, <2>1, FS_Subset
    <2>3. k \in Upto(k)
      BY <2>0
    <2>4. Cardinality(Upto(k)) # 0
      <3>1. IsFiniteSet(Upto(k))
        BY <1>1
      <3> HIDE DEF Upto
      <3> QED
        BY <2>3, <3>1, FS_EmptySet
    <2>5. /\ Place(d, k) = Cardinality(Upto(k)) /\ Cardinality(Upto(k)) \in Nat
          /\ Place(d, i) = Cardinality(Upto(i)) /\ Cardinality(Upto(i)) \in Nat
      BY <1>1
    <2> HIDE DEF Upto
    <2> QED
      BY <2>2, <2>4, <2>5
  <1>4. ASSUME i > 0
        PROVE  Place(d, i) = IF i \in Recorded(d) THEN Place(d, i - 1) + 1 ELSE Place(d, i - 1)
    <2>1. CASE i \in Recorded(d)
      <3>1. Upto(i) = Upto(i - 1) \cup {i} /\ i \notin Upto(i - 1)
        BY <1>0, <1>4, <2>1
      <3>2. IsFiniteSet(Upto(i - 1))
        BY <1>1
      <3>3. Place(d, i) = Cardinality(Upto(i)) /\ Place(d, i - 1) = Cardinality(Upto(i - 1))
        BY <1>1
      <3> HIDE DEF Upto
      <3> QED
        BY <2>1, <3>1, <3>2, <3>3, FS_AddElement
    <2>2. CASE i \notin Recorded(d)
      <3>1. Upto(i) = Upto(i - 1)
        BY <1>0, <1>4, <2>2
      <3> QED
        BY <1>1, <2>2, <3>1
    <2> QED
      BY <2>1, <2>2
  <1> QED
    BY <1>0, <1>1, <1>2, <1>3, <1>4

(* The endpoint of a Setup function, but for the random part of its queue. *)
LEMMA AnonymousEndpoint ==
    ASSUME NEW s, NEW f, NEW uuid, f.op \in Consumers \cup Publishers
    PROVE  Anonymous(Endpoint(s, f, uuid)) = Endpoint(s, f, <<>>)
  <1>1. CASE f.op \in Consumers
    <2> DEFINE e == [direction |-> "consume", exchange |-> ExchangeOf(s, f),
                     queue |-> QueueName(s, f, uuid), key |-> f.key]
    <2>1. Endpoint(s, f, uuid) = e
      BY <1>1 DEF Endpoint, Consumers
    <2>2. Endpoint(s, f, <<>>) = [direction |-> "consume", exchange |-> ExchangeOf(s, f),
                                  queue |-> QueueName(s, f, <<>>), key |-> f.key]
      BY <1>1 DEF Endpoint, Consumers
    <2>3. [QueueName(s, f, uuid) EXCEPT !.uuid = <<>>] = QueueName(s, f, <<>>)
      <3> DEFINE x == ExchangeOf(s, f)
                 y == (IF f.op = "request" THEN <<>> ELSE s) \o f.suffix
                 z == IF f.op = "transient" THEN uuid ELSE <<>>
      <3>1. /\ QueueName(s, f, uuid) = [exchange |-> x, who |-> y, uuid |-> z]
            /\ QueueName(s, f, <<>>) = [exchange |-> x, who |-> y, uuid |-> <<>>]
        BY DEF QueueName
      <3> HIDE DEF x, y, z
      <3> QED
        BY <3>1
    <2>4. [e EXCEPT !.queue = QueueName(s, f, <<>>)]
            = [direction |-> "consume", exchange |-> ExchangeOf(s, f),
               queue |-> QueueName(s, f, <<>>), key |-> f.key]
      OBVIOUS
    <2>5. Anonymous(e) = [e EXCEPT !.queue = [e.queue EXCEPT !.uuid = <<>>]]
      BY DEF Anonymous
    <2>6. e.queue = QueueName(s, f, uuid)
      OBVIOUS
    <2> QED
      BY <2>1, <2>2, <2>3, <2>4, <2>5, <2>6
  <1>2. CASE f.op \in Publishers
    <2>1. /\ Endpoint(s, f, uuid) = Endpoint(s, f, <<>>)
          /\ Endpoint(s, f, uuid).direction = "publish"
      BY <1>2 DEF Endpoint, Publishers, Consumers
    <2> QED
      BY <2>1 DEF Anonymous
  <1> QED
    BY <1>1, <1>2

(* A function on the first numbers is a sequence.                          *)
LEMMA IsASeq ==
    ASSUME NEW S, NEW t, NEW n \in Nat, t = [k \in 1..n |-> t[k]], \A k \in 1..n : t[k] \in S
    PROVE  t \in Seq(S)
OBVIOUS

(* Recording the endpoint of the next Setup function extends the list.     *)
LEMMA ListGrows ==
    ASSUME NEW d \in Deployments, NEW i \in Recorded(d), NEW s, ListOf(d, i - 1, s),
           NEW e, Anonymous(e) = Endpoint(d.service, d.setups[i], <<>>)
    PROVE  ListOf(d, i, Append(s, e))
  <1> DEFINE S == {s[n] : n \in DOMAIN s}
             t == Append(s, e)
  <1>0. /\ DOMAIN d.setups = 1..Len(d.setups) /\ i \in 1..Len(d.setups)
        /\ i \in Nat /\ i > 0 /\ i - 1 \in 0..Len(d.setups) /\ i \in 0..Len(d.setups)
    <2>1. DOMAIN d.setups = 1..Len(d.setups) /\ i \in 1..Len(d.setups)
      BY DeploymentsAssumption DEF Recorded
    <2> QED
      BY <2>1
  <1>1. /\ Place(d, i) = Place(d, i - 1) + 1 /\ Place(d, i - 1) \in Nat
        /\ \A k \in Recorded(d) : /\ k \in 1..Len(d.setups)
                                  /\ k <= i - 1 => Place(d, k) \in 1..Place(d, i - 1)
    BY <1>0, Places
  <1>2. s \in Seq(S) /\ Len(s) = Place(d, i - 1)
    BY DEF ListOf
  <1>3. s \in Seq(S \cup {e})
    <2> HIDE DEF S
    <2> QED
      BY <1>2
  <1>4. /\ t \in Seq(S \cup {e}) /\ Len(t) = Len(s) + 1 /\ t[Len(s) + 1] = e
        /\ \A n \in 1..Len(s) : t[n] = s[n]
        /\ DOMAIN t = 1..(Len(s) + 1) /\ Len(s) \in Nat /\ DOMAIN s = 1..Len(s)
    <2> HIDE DEF S
    <2> QED
      BY <1>3
  <1> HIDE DEF t
  <1>5. t \in Seq({t[n] : n \in DOMAIN t})
    <2>1. \A n \in 1..Len(t) : t[n] \in {t[k] : k \in DOMAIN t}
      BY <1>4
    <2> HIDE DEF S
    <2>2. t = [n \in 1..Len(t) |-> t[n]] /\ Len(t) \in Nat
      BY <1>4
    <2> QED
      BY <2>1, <2>2, IsASeq
  <1>6. \A k \in Recorded(d) : k <= i => k <= i - 1 \/ k = i
    BY <1>0, <1>1
  <1>7. ASSUME NEW k \in Recorded(d), k <= i
        PROVE  Anonymous(t[Place(d, k)]) = Endpoint(d.service, d.setups[k], <<>>)
    <2>1. CASE k = i
      <3>1. t[Place(d, k)] = e
        BY <1>1, <1>2, <1>4, <2>1
      <3> QED
        BY <2>1, <3>1
    <2>2. CASE k <= i - 1
      <3>1. t[Place(d, k)] = s[Place(d, k)]
        BY <1>1, <1>2, <1>4, <2>2
      <3> QED
        BY <2>2, <3>1 DEF ListOf
    <2> QED
      BY <1>6, <1>7, <2>1, <2>2
  <1>8. ASSUME NEW n \in 1..Len(t) PROVE \E k \in Recorded(d) : k <= i /\ Place(d, k) = n
    <2>1. CASE n = Len(s) + 1
      BY <1>0, <1>1, <1>2, <2>1
    <2>2. CASE n \in 1..Len(s)
      <3>1. PICK k \in Recorded(d) : k <= i - 1 /\ Place(d, k) = n
        BY <2>2 DEF ListOf
      <3>2. k <= i
        BY <1>0, <1>1, <3>1
      <3> QED
        BY <3>1, <3>2
    <2> QED
      BY <1>4, <2>1, <2>2
  <1>9. Len(t) = Place(d, i)
    BY <1>1, <1>2, <1>4
  <1> QED
    BY <1>5, <1>7, <1>8, <1>9 DEF ListOf, t

(* A custom Setup function leaves the list as it is.                       *)
LEMMA ListStays ==
    ASSUME NEW d \in Deployments, NEW i \in 1..Len(d.setups), i \notin Recorded(d),
           NEW s, ListOf(d, i - 1, s)
    PROVE  ListOf(d, i, s)
  <1>0. i \in Nat /\ i > 0 /\ i \in 0..Len(d.setups)
    OBVIOUS
  <1>1. Place(d, i) = Place(d, i - 1) /\ \A k \in Recorded(d) : k \in 1..Len(d.setups)
    BY <1>0, Places
  <1>2. \A k \in Recorded(d) : k <= i <=> k <= i - 1
    BY <1>0, <1>1
  <1> QED
    BY <1>1, <1>2 DEF ListOf


(* The list of a process is changed by that process only.                  *)
LEMMA OtherLists ==
    ASSUME IInv, NEW p \in Procs, ProcNext(p), NEW r \in Procs, r # p, ListInv(r)
    PROVE  ListInv(r)'
  <1>1. Same(r)
    BY StepIsLocal DEF IInv
  <1>2. endpoints'[r] = endpoints[r]
    <2>1. endpoints = [q \in Procs |-> endpoints[q]]
      BY DEF IInv, FunInv
    <2> QED
      BY <2>1 DEF ProcNext, SetupStep, Deploy, Retry, Stop, ResponseExchange, Add, AddRefused,
         DeclareExchange, DeclareQueue, QueueRefused, Bind, BindRefused, Wire, Custom, Consume,
         ConsumeRefused, Started, End, localVars
  <1> QED
    BY <1>1, <1>2 DEF Same, ListInv

(* Each step of a process keeps its list.                                  *)
LEMMA ListOwn ==
    ASSUME IInv, NEW p \in Procs, ListInv(p), ProcNext(p)
    PROVE  ListInv(p)'
  <1> USE DEF procVars, localVars, End
  <1>0. /\ ProcInv(p) /\ Types /\ FunInv /\ at[p][1] \in Nat /\ starts[p] \in Nat
        /\ phase[p] # "down" => dep[p] \in Deployments
    BY DEF IInv, Types, ProcInv
  <1>1. ASSUME NEW d \in Deployments, Deploy(p, d)
        PROVE  ListInv(p)'
    <2>1. /\ at'[p] = <<1, "begin">> /\ phase'[p] = "setup" /\ dep'[p] = d
          /\ endpoints'[p] = <<>>
      BY <1>0, <1>1 DEF Deploy, ProcInv, Types, FunInv, ListInv
    <2>2. Place(d, 0) = 0 /\ \A k \in Recorded(d) : k \in 1..Len(d.setups)
      <3>1. Len(d.setups) \in Nat
        BY DeploymentsAssumption
      <3>2. 0 \in 0..Len(d.setups)
        BY <3>1
      <3> QED
        BY <3>2, Places
    <2>3. ListOf(d, 0, <<>>)
      <3>1. <<>> \in Seq({<<>>[n] : n \in DOMAIN <<>>})
        OBVIOUS
      <3>2. \A k \in Recorded(d) : ~(k <= 0)
        BY <2>2
      <3> QED
        BY <2>2, <3>1, <3>2 DEF ListOf
    <2> QED
      BY <2>1, <2>3 DEF ListInv
  <1>2. CASE Retry(p)
    <2>1. phase'[p] = "setup" /\ starts'[p] # 1
      BY <1>0, <1>2 DEF Retry, Types, FunInv, ProcInv
    <2> QED
      BY <2>1 DEF ListInv
  <1>3. CASE Stop(p)
    <2>1. phase'[p] = "down" /\ endpoints'[p] = <<>>
      BY <1>0, <1>3 DEF Stop, Types, FunInv
    <2> QED
      BY <2>1 DEF ListInv
  <1>4. CASE AddRefused(p) \/ QueueRefused(p) \/ BindRefused(p)
             \/ \E h \in handlers[p] : ConsumeRefused(p, h.queue)
    <2>1. phase'[p] \in {"failed", "stuck"}
      BY <1>0, <1>4 DEF AddRefused, QueueRefused, BindRefused, ConsumeRefused, Types
    <2> QED
      BY <2>1 DEF ListInv
  <1>5. CASE ResponseExchange(p) \/ Add(p) \/ DeclareExchange(p) \/ DeclareQueue(p)
             \/ \E h \in handlers[p] : Consume(p, h.queue)
    <2>1. UNCHANGED <<phase, dep, starts, endpoints>> /\ phase[p] = "setup" /\ at'[p][1] = at[p][1]
      BY <1>0, <1>5 DEF ResponseExchange, Add, AtConfig, DeclareExchange, DeclareQueue, Consume,
         AtConsume, AtOp, AtStage, Goto, Types
    <2> QED
      BY <2>1 DEF ListInv
  <1>6. ASSUME NEW e, NEW i, i = at[p][1], phase[p] = "setup", i \in Recorded(dep[p]),
               Anonymous(e) = Endpoint(dep[p].service, dep[p].setups[i], <<>>),
               UNCHANGED <<phase, dep, starts>>,
               endpoints' = [endpoints EXCEPT ![p] = Append(@, e)], NextSetup(p)
        PROVE  ListInv(p)'
    <2>1. /\ at'[p][1] = i + 1 /\ endpoints'[p] = Append(endpoints[p], e)
          /\ dep[p] \in Deployments
      BY <1>0, <1>6 DEF NextSetup, Types, FunInv
    <2>2. starts[p] = 1 => ListOf(dep[p], i - 1, endpoints[p])
      BY <1>6 DEF ListInv
    <2>3. starts[p] = 1 => ListOf(dep[p], i, Append(endpoints[p], e))
      BY <1>6, <2>1, <2>2, ListGrows
    <2>4. phase'[p] = "setup" /\ starts'[p] = starts[p] /\ dep'[p] = dep[p]
      BY <1>6
    <2>5. at'[p][1] - 1 = i
      <3>1. i \in Nat /\ at'[p][1] = i + 1
        BY <1>0, <1>6, <2>1
      <3> QED
        BY <3>1
    <2>6. starts'[p] = 1 => ListOf(dep'[p], at'[p][1] - 1, endpoints'[p])
      BY <2>1, <2>3, <2>4, <2>5
    <2> QED
      BY <2>4, <2>6 DEF ListInv
  <1>7. CASE Bind(p)
    <2>1. AtStage(p, "bind") /\ phase[p] = "setup" /\ at[p][1] <= Len(dep[p].setups)
      BY <1>7 DEF Bind, AtStage
    <2>2. Setup(p).op \in Consumers /\ at[p][1] \in DOMAIN dep[p].setups
      BY <1>0, <2>1, AtFacts DEF ProcInv, Pending, AtStage
    <2>3. at[p][1] \in Recorded(dep[p])
      BY <2>2 DEF Recorded, Setup, Consumers
    <2>4. Anonymous(Endpoint(Service(p), Setup(p), Queue(p).uuid))
            = Endpoint(Service(p), Setup(p), <<>>)
      BY <2>2, AnonymousEndpoint
    <2> QED
      BY <1>6, <1>7, <2>1, <2>3, <2>4 DEF Bind, Service, Setup
  <1>8. CASE Wire(p)
    <2>1. phase[p] = "setup" /\ at[p][1] <= Len(dep[p].setups) /\ Setup(p).op \in Publishers
      BY <1>8 DEF Wire, AtOp, AtStage, Publishers
    <2>2. at[p][1] \in DOMAIN dep[p].setups
      BY <2>1, AtFacts
    <2>3. at[p][1] \in Recorded(dep[p])
      BY <2>1, <2>2 DEF Recorded, Setup, Publishers
    <2>4. Anonymous(Endpoint(Service(p), Setup(p), <<>>)) = Endpoint(Service(p), Setup(p), <<>>)
      BY <2>1, AnonymousEndpoint
    <2> QED
      BY <1>6, <1>8, <2>1, <2>3, <2>4 DEF Wire, Service, Setup
  <1>9. CASE Custom(p)
    <2>1. /\ phase[p] = "setup" /\ at[p][1] <= Len(dep[p].setups)
          /\ Setup(p).op = "custom" /\ UNCHANGED <<dep, starts, endpoints>>
          /\ \/ phase' = phase /\ at'[p][1] = at[p][1] + 1
             \/ phase'[p] = "failed"
      BY <1>0, <1>9 DEF Custom, AtOp, AtStage, NextSetup, Types
    <2>2. CASE phase' = phase /\ at'[p][1] = at[p][1] + 1
      <3>1. /\ at[p][1] \in 1..Len(dep[p].setups) /\ at[p][1] \notin Recorded(dep[p])
            /\ dep[p] \in Deployments /\ at[p][1] + 1 - 1 = at[p][1]
        BY <1>0, <2>1, AtFacts, DeploymentsAssumption DEF Recorded, Setup
      <3>2. starts[p] = 1 => ListOf(dep[p], at[p][1] - 1, endpoints[p])
        BY <2>1 DEF ListInv
      <3>3. starts[p] = 1 => ListOf(dep[p], at[p][1], endpoints[p])
        BY <3>1, <3>2, ListStays
      <3> QED
        BY <2>1, <2>2, <3>1, <3>3 DEF ListInv
    <2>3. CASE phase'[p] = "failed"
      BY <2>3 DEF ListInv
    <2> QED
      BY <2>1, <2>2, <2>3
  <1>10. CASE Started(p)
    <2>1. /\ UNCHANGED <<dep, at, starts, endpoints>> /\ phase[p] = "setup"
          /\ phase'[p] = "consuming" /\ at[p][1] = Len(dep[p].setups) + 1
      BY <1>0, <1>10 DEF Started, AtConsume, Types
    <2> QED
      BY <2>1 DEF ListInv
  <1> QED
    BY <1>1, <1>2, <1>3, <1>4, <1>5, <1>7, <1>8, <1>9, <1>10 DEF ProcNext, SetupStep

(* A list that is complete is CollectTopology's, up to random names.       *)
LEMMA ListIsExported ==
    ASSUME NEW d \in Deployments, NEW s, ListOf(d, Len(d.setups), s)
    PROVE  CollectTopology(d).endpoints = [i \in DOMAIN s |-> Anonymous(s[i])]
  <1> DEFINE at0(n) == CHOOSE i \in Recorded(d) : Place(d, i) = n
             ends == [n \in 1..Place(d, Len(d.setups)) |->
                        Endpoint(d.service, d.setups[at0(n)], <<>>)]
  <1>1. CollectTopology(d).endpoints = ends
    BY DEF CollectTopology
  <1>2. Len(s) = Place(d, Len(d.setups)) /\ DOMAIN s = 1..Len(s)
    BY DEF ListOf
  <1>3. \A k \in Recorded(d) : k <= Len(d.setups)
    <2>1. DOMAIN d.setups = 1..Len(d.setups) /\ Len(d.setups) \in Nat
      BY DeploymentsAssumption
    <2> QED
      BY <2>1 DEF Recorded
  <1>4. ASSUME NEW n \in 1..Len(s)
        PROVE  Endpoint(d.service, d.setups[at0(n)], <<>>) = Anonymous(s[n])
    <2>1. \E k \in Recorded(d) : Place(d, k) = n
      BY DEF ListOf
    <2>2. at0(n) \in Recorded(d) /\ Place(d, at0(n)) = n
      BY <2>1
    <2>3. at0(n) <= Len(d.setups)
      BY <1>3, <2>2
    <2> HIDE DEF at0
    <2> QED
      BY <2>2, <2>3 DEF ListOf
  <1> HIDE DEF at0
  <1> QED
    BY <1>1, <1>2, <1>4

(* CollectTopology is right about every service that starts: it returns no *)
(* error for it, and after a first Start the endpoints Topology returns    *)
(* are its endpoints, in their order, up to random queue names.            *)
THEOREM Exported == Spec => []TopologyIsExported
  <1> DEFINE Inv == IInv /\ \A p \in Procs : ListInv(p)
  <1>1. Init => Inv
    BY InitIInv DEF Init, ListInv
  <1>2. Inv /\ [Next]_vars => Inv'
    <2> SUFFICES ASSUME Inv, [Next]_vars, NEW r \in Procs
                 PROVE  ListInv(r)'
      BY NextIInv
    <2>1. ASSUME NEW p \in Procs, ProcNext(p), r # p
          PROVE  ListInv(r)'
      BY <2>1, OtherLists
    <2>2. ASSUME ProcNext(r)
          PROVE  ListInv(r)'
      BY <2>2, ListOwn
    <2>3. CASE UNCHANGED <<phase, dep, starts, at, endpoints>>
      BY <2>3 DEF ListInv
    <2> QED
      BY <2>1, <2>2, <2>3 DEF Next, Expire, vars, procVars, localVars
  <1>3. Inv /\ CollectedFirst => TopologyIsExported
    <2> SUFFICES ASSUME Inv, CollectedFirst, NEW p \in Procs, phase[p] = "consuming"
                 PROVE  /\ CollectTopology(dep[p]).ok
                        /\ starts[p] = 1 =>
                              CollectTopology(dep[p]).endpoints =
                                  [i \in DOMAIN endpoints[p] |-> Anonymous(endpoints[p][i])]
      BY DEF TopologyIsExported
    <2>1. CollectTopology(dep[p]).ok
      BY DEF CollectTopology, CollectedFirst
    <2>2. dep[p] \in Deployments
      BY DEF IInv, ProcInv, Types
    <2>3. at[p][1] = Len(dep[p].setups) + 1 /\ Len(dep[p].setups) \in Nat
      BY <2>2, DeploymentsAssumption DEF ListInv
    <2>4. at[p][1] - 1 = Len(dep[p].setups)
      BY <2>3
    <2>5. starts[p] = 1 => ListOf(dep[p], Len(dep[p].setups), endpoints[p])
      BY <2>4 DEF ListInv
    <2> QED
      BY <2>1, <2>2, <2>5, ListIsExported
  <1> QED
    BY <1>1, <1>2, <1>3, Collected, PTL DEF Spec
=============================================================================
