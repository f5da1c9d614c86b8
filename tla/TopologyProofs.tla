--------------------------- MODULE TopologyProofs ---------------------------
(***************************************************************************)
(* Proofs about Topology for any processes, deployments, patterns and      *)
(* routing keys, from what OverlapAssumption asks of the overlap test: it  *)
(* need not be exact, nor symmetric.                                       *)
(***************************************************************************)
EXTENDS Topology, TLAPS

(* The untyped variables are functions on the processes.                   *)
FunInv ==
    /\ dep = [p \in Procs |-> dep[p]]
    /\ handlers = [p \in Procs |-> handlers[p]]
    /\ bound = [p \in Procs |-> bound[p]]
    /\ endpoints = [p \in Procs |-> endpoints[p]]
    /\ consumed = [p \in Procs |-> consumed[p]]

(* A handler is that of some call of its Setup function by this process.   *)
Known(p, h) ==
    /\ h.by \in DOMAIN dep[p].setups
    /\ dep[p].setups[h.by].op \in Consumers
    /\ \E n \in 1..starts[p] :
          h = [queue |-> QueueName(Service(p), dep[p].setups[h.by], <<inc[p], n, h.by>>),
               key |-> dep[p].setups[h.by].key,
               by |-> h.by]

(* The consumer being set up has its handler: add comes before QueueBind.  *)
Pending(p) ==
    phase[p] = "setup" /\ at[p][2] \in {"exchange", "queue", "bind"} =>
        /\ Setup(p).op \in Consumers
        /\ \E h \in handlers[p] : h.queue = Queue(p) /\ h.key = Setup(p).key

Unique(p) ==
    \A h, g \in handlers[p], k \in RoutingKeys :
        h.queue = g.queue /\ <<h.key, k>> \in Matches /\ <<g.key, k>> \in Matches => h = g

(* What holds of each process by itself.                                   *)
ProcInv(p) ==
    /\ phase[p] = "down" => /\ handlers[p] = {} /\ bound[p] = {} /\ consumed[p] = {}
                            /\ at[p] = <<1, "begin">>
    /\ phase[p] # "down" => dep[p] \in Deployments /\ starts[p] >= 1
    /\ at[p][1] >= 1
    /\ consumed[p] \subseteq {h.queue : h \in handlers[p]}
    /\ \A h \in handlers[p] : Known(p, h)
    /\ \A b \in bound[p] : \E h \in handlers[p] : h.queue = b.queue /\ h.key = b.key
    /\ Pending(p)
    /\ Unique(p)

Types ==
    /\ phase \in [Procs -> {"down", "setup", "failed", "stuck", "consuming"}]
    /\ inc \in [Procs -> 0..MaxDeploys]
    /\ starts \in [Procs -> 0..MaxStarts]
    /\ at \in [Procs -> Nat \X {"begin", "config", "exchange", "queue", "bind", "wire"}]
    /\ deploys \in 0..MaxDeploys

IInv == Types /\ FunInv /\ \A p \in Procs : ProcInv(p)

(* A step leaves what concerns process r alone.                            *)
Same(r) ==
    /\ phase'[r] = phase[r] /\ dep'[r] = dep[r] /\ inc'[r] = inc[r]
    /\ starts'[r] = starts[r] /\ at'[r] = at[r] /\ handlers'[r] = handlers[r]
    /\ bound'[r] = bound[r] /\ consumed'[r] = consumed[r]

-----------------------------------------------------------------------------
(* The steps of a process are well typed and leave the others alone.       *)
LEMMA StepIsLocal ==
    ASSUME Types, FunInv, NEW p \in Procs, ProcNext(p)
    PROVE  Types' /\ FunInv' /\ \A r \in Procs : r # p => Same(r)
<1> USE DEF procVars, localVars, End
<1>1. ASSUME NEW d \in Deployments, Deploy(p, d)
      PROVE  Types' /\ FunInv' /\ \A r \in Procs : r # p => Same(r)
  <2>1. Types'
    BY <1>1, DeploymentsAssumption DEF Deploy, Types
  <2>2. FunInv'
    BY <1>1 DEF Deploy, FunInv
  <2>3. \A r \in Procs : r # p => Same(r)
    BY <1>1 DEF Deploy, Types, FunInv, Same
  <2> QED
    BY <2>1, <2>2, <2>3
<1>2. CASE Retry(p)
  <2>1. Types'
    BY <1>2, DeploymentsAssumption DEF Retry, Types
  <2>2. FunInv'
    BY <1>2 DEF Retry, FunInv
  <2>3. \A r \in Procs : r # p => Same(r)
    BY <1>2 DEF Retry, Types, FunInv, Same
  <2> QED
    BY <2>1, <2>2, <2>3
<1>3. CASE Stop(p)
  <2>1. Types'
    BY <1>3, DeploymentsAssumption DEF Stop, Types
  <2>2. FunInv'
    BY <1>3 DEF Stop, FunInv
  <2>3. \A r \in Procs : r # p => Same(r)
    BY <1>3 DEF Stop, Types, FunInv, Same
  <2> QED
    BY <2>1, <2>2, <2>3
<1>4. CASE ResponseExchange(p)
  <2>1. Types'
    BY <1>4, DeploymentsAssumption DEF ResponseExchange, Goto, Types
  <2>2. FunInv'
    BY <1>4 DEF ResponseExchange, Goto, FunInv
  <2>3. \A r \in Procs : r # p => Same(r)
    BY <1>4 DEF ResponseExchange, Goto, Types, FunInv, Same
  <2> QED
    BY <2>1, <2>2, <2>3
<1>5. CASE Add(p)
  <2>1. Types'
    BY <1>5, DeploymentsAssumption DEF Add, Goto, Types
  <2>2. FunInv'
    BY <1>5 DEF Add, Goto, FunInv
  <2>3. \A r \in Procs : r # p => Same(r)
    BY <1>5 DEF Add, Goto, Types, FunInv, Same
  <2> QED
    BY <2>1, <2>2, <2>3
<1>6. CASE AddRefused(p) \/ QueueRefused(p) \/ BindRefused(p) \/ Started(p)
  <2>1. Types'
    BY <1>6, DeploymentsAssumption DEF AddRefused, QueueRefused, BindRefused, Started, Types
  <2>2. FunInv'
    BY <1>6 DEF AddRefused, QueueRefused, BindRefused, Started, FunInv
  <2>3. \A r \in Procs : r # p => Same(r)
    BY <1>6 DEF AddRefused, QueueRefused, BindRefused, Started, Types, FunInv, Same
  <2> QED
    BY <2>1, <2>2, <2>3
<1>7. CASE DeclareExchange(p)
  <2>1. Types'
    <3>1. CASE Goto(p, "queue")
      BY <1>7, <3>1, DeploymentsAssumption DEF DeclareExchange, Goto, Types
    <3>2. CASE Goto(p, "wire")
      BY <1>7, <3>2, DeploymentsAssumption DEF DeclareExchange, Goto, Types
    <3> QED
      BY <1>7, <3>1, <3>2 DEF DeclareExchange
  <2>2. FunInv'
    BY <1>7 DEF DeclareExchange, Goto, FunInv
  <2>3. \A r \in Procs : r # p => Same(r)
    BY <1>7 DEF DeclareExchange, Goto, Types, FunInv, Same
  <2> QED
    BY <2>1, <2>2, <2>3
<1>8. CASE DeclareQueue(p)
  <2>1. Types'
    BY <1>8, DeploymentsAssumption DEF DeclareQueue, Goto, Types
  <2>2. FunInv'
    BY <1>8 DEF DeclareQueue, Goto, FunInv
  <2>3. \A r \in Procs : r # p => Same(r)
    BY <1>8 DEF DeclareQueue, Goto, Types, FunInv, Same
  <2> QED
    BY <2>1, <2>2, <2>3
<1>9. CASE Bind(p)
  <2>1. Types'
    BY <1>9, DeploymentsAssumption DEF Bind, NextSetup, Types
  <2>2. FunInv'
    BY <1>9 DEF Bind, NextSetup, FunInv
  <2>3. \A r \in Procs : r # p => Same(r)
    BY <1>9 DEF Bind, NextSetup, Types, FunInv, Same
  <2> QED
    BY <2>1, <2>2, <2>3
<1>10. CASE Wire(p)
  <2>1. Types'
    BY <1>10, DeploymentsAssumption DEF Wire, NextSetup, Types
  <2>2. FunInv'
    BY <1>10 DEF Wire, NextSetup, FunInv
  <2>3. \A r \in Procs : r # p => Same(r)
    BY <1>10 DEF Wire, NextSetup, Types, FunInv, Same
  <2> QED
    BY <2>1, <2>2, <2>3
<1>11. CASE Custom(p)
  <2>1. Types'
    <3>1. CASE NextSetup(p) /\ UNCHANGED phase
      BY <1>11, <3>1, DeploymentsAssumption DEF Custom, NextSetup, Types
    <3>2. CASE phase' = [phase EXCEPT ![p] = "failed"] /\ UNCHANGED at
      BY <1>11, <3>2, DeploymentsAssumption DEF Custom, Types
    <3> QED
      BY <1>11, <3>1, <3>2 DEF Custom
  <2>2. FunInv'
    BY <1>11 DEF Custom, NextSetup, FunInv
  <2>3. \A r \in Procs : r # p => Same(r)
    BY <1>11 DEF Custom, NextSetup, Types, FunInv, Same
  <2> QED
    BY <2>1, <2>2, <2>3
<1>12. ASSUME NEW h \in handlers[p], Consume(p, h.queue) \/ ConsumeRefused(p, h.queue)
       PROVE  Types' /\ FunInv' /\ \A r \in Procs : r # p => Same(r)
  <2>1. Types'
    BY <1>12, DeploymentsAssumption DEF Consume, ConsumeRefused, Types
  <2>2. FunInv'
    BY <1>12 DEF Consume, ConsumeRefused, FunInv
  <2>3. \A r \in Procs : r # p => Same(r)
    BY <1>12 DEF Consume, ConsumeRefused, Types, FunInv, Same
  <2> QED
    BY <2>1, <2>2, <2>3
<1> QED
  BY <1>1, <1>2, <1>3, <1>4, <1>5, <1>6, <1>7, <1>8, <1>9, <1>10, <1>11, <1>12
     DEF ProcNext, SetupStep

(* A process nothing happens to keeps its invariant.                       *)
LEMMA SameKeeps ==
    ASSUME NEW r \in Procs, ProcInv(r), Same(r)
    PROVE  ProcInv(r)'
BY DEF ProcInv, Same, Known, Pending, Unique, Setup, Service, Queue

-----------------------------------------------------------------------------
(* A registered handler has a pattern for a key and a number for a Setup   *)
(* function.                                                               *)
LEMMA KnownTyped ==
    ASSUME IInv, NEW p \in Procs, NEW h \in handlers[p]
    PROVE  h.key \in Patterns /\ h.by \in Nat
<1>1. phase[p] # "down" /\ Known(p, h)
  BY DEF IInv, ProcInv
<1>2. dep[p] \in Deployments
  BY <1>1 DEF IInv, ProcInv
<1> QED
  BY <1>1, <1>2, DeploymentsAssumption DEF Known

(* The routing key of the consumer that add is called for is a pattern.    *)
LEMMA AddTyped ==
    ASSUME IInv, NEW p \in Procs, Add(p)
    PROVE  Setup(p).key \in Patterns
<1>1. phase[p] = "setup" /\ dep[p] \in Deployments
  BY DEF Add, AtConfig, AtOp, AtStage, IInv, ProcInv
<1>2. at[p][1] \in 1..Len(dep[p].setups) /\ Setup(p).op \in Consumers
  <2>1. at[p][1] \in Nat /\ at[p][1] >= 1
    BY DEF IInv, Types, ProcInv
  <2>2. at[p][1] <= Len(dep[p].setups) /\ Setup(p).op \in Consumers
    BY DEF Add, AtConfig, AtOp, AtStage, Consumers
  <2>3. Len(dep[p].setups) \in Nat
    BY <1>1, DeploymentsAssumption
  <2> QED
    BY <2>1, <2>2, <2>3
<1> QED
  BY <1>1, <1>2, DeploymentsAssumption DEF Setup

(* add overwrites nothing: it assigns to the map of the queue, but only if *)
(* exists found no overlap, and a routing key overlaps itself.             *)
LEMMA AddsOne ==
    ASSUME IInv, NEW p \in Procs, Add(p)
    PROVE  handlers'[p] = handlers[p] \cup
               {[queue |-> Queue(p), key |-> Setup(p).key, by |-> at[p][1]]}
<1>1. handlers'[p] = Assigned(p)
  BY DEF Add, IInv, FunInv
<1>2. <<Setup(p).key, Setup(p).key>> \in Overlaps
  BY AddTyped, OverlapAssumption
<1>3. \A h \in handlers[p] : h.queue # Queue(p) \/ h.key # Setup(p).key
  BY <1>2 DEF Add, Exists
<1> QED
  BY <1>1, <1>3 DEF Assigned

(* add keeps the dispatch determined: the pattern it registers overlaps    *)
(* none of the queue's, so it shares no routing key with them.             *)
LEMMA AddUnique ==
    ASSUME IInv, NEW p \in Procs, Add(p)
    PROVE  Unique(p)'
<1> DEFINE n == [queue |-> Queue(p), key |-> Setup(p).key, by |-> at[p][1]]
<1>1. handlers'[p] = handlers[p] \cup {n}
  BY AddsOne
<1>2. \A h \in handlers[p] : h.queue = Queue(p) => <<Setup(p).key, h.key>> \notin Overlaps
  BY DEF Add, Exists
<1>3. \A h \in handlers[p] : h.key \in Patterns
  BY KnownTyped
<1>4. Setup(p).key \in Patterns
  BY AddTyped
<1> SUFFICES ASSUME NEW h \in handlers'[p], NEW g \in handlers'[p], NEW k \in RoutingKeys,
                    h.queue = g.queue, <<h.key, k>> \in Matches, <<g.key, k>> \in Matches
             PROVE  h = g
  BY DEF Unique
<1>5. CASE h \in handlers[p] /\ g \in handlers[p]
  BY <1>5 DEF IInv, ProcInv, Unique
<1>6. CASE h = n /\ g \in handlers[p]
  BY <1>2, <1>3, <1>4, <1>6, OverlapAssumption
<1>7. CASE g = n /\ h \in handlers[p]
  BY <1>2, <1>3, <1>4, <1>7, OverlapAssumption
<1> QED
  BY <1>1, <1>5, <1>6, <1>7

(* add registers a handler of the Setup function Start is at.              *)
LEMMA AddKeeps ==
    ASSUME IInv, NEW p \in Procs, Add(p)
    PROVE  ProcInv(p)'
<1> DEFINE n == [queue |-> Queue(p), key |-> Setup(p).key, by |-> at[p][1]]
<1>1. /\ handlers'[p] = handlers[p] \cup {n}
      /\ UNCHANGED <<phase, dep, inc, starts, bound, consumed>>
      /\ at'[p] = <<at[p][1], "exchange">>
  BY AddsOne DEF Add, Goto, procVars, IInv, FunInv, Types
<1>2. phase[p] = "setup" /\ dep[p] \in Deployments /\ starts[p] >= 1
  BY DEF Add, AtConfig, AtOp, AtStage, IInv, ProcInv
<1>3. at[p][1] \in DOMAIN dep[p].setups /\ Setup(p).op \in Consumers
  BY <1>2, DeploymentsAssumption
     DEF Add, AtConfig, AtOp, AtStage, Consumers, IInv, ProcInv, Types
<1>4. Known(p, n)
  <2>1. starts[p] \in 1..starts[p]
    BY <1>2, DeploymentsAssumption DEF IInv, Types
  <2>2. n.by = at[p][1] /\ dep[p].setups[n.by] = Setup(p)
    BY DEF Setup
  <2>3. n = [queue |-> QueueName(Service(p), dep[p].setups[n.by], <<inc[p], starts[p], n.by>>),
             key |-> dep[p].setups[n.by].key,
             by |-> n.by]
    BY <2>2 DEF Queue
  <2> HIDE DEF n
  <2> QED
    BY <1>3, <2>1, <2>2, <2>3 DEF Known
<1>5. \A h : Known(p, h)' <=> Known(p, h)
  BY <1>1 DEF Known, Service
<1>6. Pending(p)'
  <2>1. Setup(p)' = Setup(p) /\ Service(p)' = Service(p)
    BY <1>1 DEF Setup, Service
  <2>2. Queue(p)' = Queue(p)
    BY <1>1, <2>1 DEF Queue
  <2>3. n.queue = Queue(p) /\ n.key = Setup(p).key
    OBVIOUS
  <2> QED
    BY <1>1, <1>3, <2>1, <2>2, <2>3 DEF Pending
<1>7. Unique(p)'
  BY AddUnique
<1> QED
  BY <1>1, <1>2, <1>4, <1>5, <1>6, <1>7 DEF IInv, ProcInv

(* The other steps that move Start along leave the handlers alone.         *)
LEMMA MoveKeeps ==
    ASSUME IInv, NEW p \in Procs,
           UNCHANGED <<dep, inc, starts, handlers>>,
           phase[p] # "down", phase'[p] # "down",
           consumed'[p] \subseteq {h.queue : h \in handlers[p]},
           \A b \in bound'[p] : \E h \in handlers[p] : h.queue = b.queue /\ h.key = b.key,
           at'[p][1] >= 1,
           Pending(p)'
    PROVE  ProcInv(p)'
<1>1. \A h : Known(p, h)' <=> Known(p, h)
  BY DEF Known, Service
<1>2. Unique(p)'
  BY DEF IInv, ProcInv, Unique
<1> QED
  BY <1>1, <1>2 DEF IInv, ProcInv

(* A process keeps its invariant through its own steps.                    *)
LEMMA OwnStep ==
    ASSUME IInv, NEW p \in Procs, ProcNext(p)
    PROVE  ProcInv(p)'
<1> USE DEF procVars, localVars, End
<1>0. ProcInv(p) /\ Types /\ FunInv /\ at[p][1] \in Nat /\ starts[p] \in Nat
  BY DeploymentsAssumption DEF IInv, Types
<1>1. ASSUME NEW d \in Deployments, Deploy(p, d)
      PROVE  ProcInv(p)'
  <2>1. /\ handlers'[p] = {} /\ bound'[p] = {} /\ consumed'[p] = {}
        /\ phase'[p] = "setup" /\ dep'[p] = d /\ starts'[p] = 1
        /\ at'[p] = at[p]
    BY <1>1, <1>0 DEF Deploy, ProcInv, Types, FunInv
  <2>2. at[p][2] = "begin"
    BY <1>1, <1>0 DEF Deploy, ProcInv, Types, FunInv
  <2> QED
    BY <1>0, <2>1, <2>2 DEF ProcInv, Pending, Unique
<1>2. CASE Retry(p)
  <2>1. /\ UNCHANGED <<dep, inc, handlers, bound, consumed>>
        /\ phase[p] = "failed" /\ phase'[p] = "setup"
        /\ starts'[p] = starts[p] + 1
        /\ at'[p] = <<1, "begin">>
    BY <1>2, <1>0 DEF Retry, Types, FunInv
  <2>2. \A h : Known(p, h) => Known(p, h)'
    BY <1>0, <2>1 DEF Known, Service
  <2>3. Pending(p)'
    BY <2>1 DEF Pending
  <2>4. Unique(p)'
    BY <1>0, <2>1 DEF ProcInv, Unique
  <2> QED
    BY <1>0, <2>1, <2>2, <2>3, <2>4 DEF ProcInv
<1>3. CASE Stop(p)
  <2>1. /\ handlers'[p] = {} /\ bound'[p] = {} /\ consumed'[p] = {}
        /\ phase'[p] = "down" /\ at'[p] = <<1, "begin">>
    BY <1>3, <1>0 DEF Stop, Types, FunInv
  <2> QED
    BY <2>1 DEF ProcInv, Pending, Unique
<1>4. CASE Add(p)
  BY <1>4, AddKeeps
<1>5. CASE AddRefused(p) \/ QueueRefused(p) \/ BindRefused(p) \/ Started(p)
  <2>1. /\ UNCHANGED <<dep, inc, starts, handlers, bound, consumed, at>>
        /\ phase[p] = "setup" /\ phase'[p] \in {"failed", "stuck", "consuming"}
    BY <1>5, <1>0 DEF AddRefused, QueueRefused, BindRefused, Started, AtConfig, AtOp, AtStage,
         AtConsume, Types, FunInv
  <2>2. Pending(p)'
    BY <2>1 DEF Pending
  <2> QED
    BY <1>0, <2>1, <2>2, MoveKeeps DEF ProcInv
<1>6. CASE ResponseExchange(p)
  <2>1. /\ UNCHANGED <<phase, dep, inc, starts, handlers, bound, consumed>>
        /\ phase[p] = "setup" /\ at'[p] = <<at[p][1], "config">>
    BY <1>6, <1>0 DEF ResponseExchange, Goto, AtOp, AtStage, Types, FunInv
  <2>2. Pending(p)'
    BY <2>1 DEF Pending
  <2> QED
    BY <1>0, <2>1, <2>2, MoveKeeps DEF ProcInv
<1>7. CASE DeclareExchange(p)
  <2>1. /\ UNCHANGED <<phase, dep, inc, starts, handlers, bound, consumed>>
        /\ phase[p] = "setup"
        /\ \/ at[p][2] = "exchange" /\ at'[p] = <<at[p][1], "queue">>
           \/ at'[p] = <<at[p][1], "wire">>
    BY <1>7, <1>0 DEF DeclareExchange, Goto, AtOp, AtStage, Types, FunInv
  <2>2. Pending(p)'
    BY <1>0, <2>1 DEF ProcInv, Pending, Setup, Queue, Service
  <2> QED
    BY <1>0, <2>1, <2>2, MoveKeeps DEF ProcInv
<1>8. CASE DeclareQueue(p)
  <2>1. /\ UNCHANGED <<phase, dep, inc, starts, handlers, bound, consumed>>
        /\ phase[p] = "setup"
        /\ at[p][2] = "queue" /\ at'[p] = <<at[p][1], "bind">>
    BY <1>8, <1>0 DEF DeclareQueue, Goto, AtStage, Types, FunInv
  <2>2. Pending(p)'
    BY <1>0, <2>1 DEF ProcInv, Pending, Setup, Queue, Service
  <2> QED
    BY <1>0, <2>1, <2>2, MoveKeeps DEF ProcInv
<1>9. CASE Bind(p)
  <2>1. /\ UNCHANGED <<phase, dep, inc, starts, handlers, consumed>>
        /\ bound'[p] = bound[p] \cup {Binding(p)}
        /\ phase[p] = "setup" /\ at[p][2] = "bind"
        /\ at'[p] = <<at[p][1] + 1, "begin">>
    BY <1>9, <1>0 DEF Bind, NextSetup, AtStage, Types, FunInv
  <2>2. Pending(p)'
    BY <2>1 DEF Pending
  <2>3. \E h \in handlers[p] : h.queue = Binding(p).queue /\ h.key = Binding(p).key
    BY <1>0, <2>1 DEF ProcInv, Pending, Binding
  <2> QED
    BY <1>0, <2>1, <2>2, <2>3, MoveKeeps DEF ProcInv
<1>10. CASE Wire(p) \/ Custom(p)
  <2>1. /\ UNCHANGED <<dep, inc, starts, handlers, bound, consumed>>
        /\ phase[p] = "setup"
        /\ \/ phase' = phase /\ at'[p] = <<at[p][1] + 1, "begin">>
           \/ phase'[p] = "failed" /\ at' = at
    BY <1>10, <1>0 DEF Wire, Custom, NextSetup, AtOp, AtStage, Types, FunInv
  <2>2. Pending(p)'
    BY <2>1 DEF Pending
  <2> QED
    BY <1>0, <2>1, <2>2, MoveKeeps DEF ProcInv
<1>11. ASSUME NEW h \in handlers[p], Consume(p, h.queue) \/ ConsumeRefused(p, h.queue)
       PROVE  ProcInv(p)'
  <2>1. /\ UNCHANGED <<dep, inc, starts, handlers, bound, at>>
        /\ phase[p] = "setup"
        /\ phase' = phase \/ phase'[p] = "stuck"
        /\ consumed'[p] \subseteq consumed[p] \cup {h.queue}
    BY <1>11, <1>0 DEF Consume, ConsumeRefused, AtConsume, Types, FunInv
  <2>2. Pending(p)'
    BY <1>0, <2>1 DEF ProcInv, Pending, Setup, Queue, Service
  <2> QED
    BY <1>0, <1>11, <2>1, <2>2, MoveKeeps DEF ProcInv
<1> QED
  BY <1>1, <1>2, <1>3, <1>4, <1>5, <1>6, <1>7, <1>8, <1>9, <1>10, <1>11
     DEF ProcNext, SetupStep

(* The initial states satisfy the inductive invariant.                     *)
LEMMA InitIInv == Init => IInv
BY DeploymentsAssumption DEF Init, IInv, Types, FunInv, ProcInv, Pending, Unique

(* Every step keeps the inductive invariant.                               *)
LEMMA NextIInv == IInv /\ [Next]_vars => IInv'
<1> SUFFICES ASSUME IInv, [Next]_vars PROVE IInv'
  OBVIOUS
<1>1. ASSUME NEW p \in Procs, ProcNext(p)
      PROVE  IInv'
  <2>1. Types' /\ FunInv' /\ \A r \in Procs : r # p => Same(r)
    BY <1>1, StepIsLocal DEF IInv
  <2>2. ProcInv(p)'
    BY <1>1, OwnStep
  <2>3. \A r \in Procs : r # p => ProcInv(r)'
    BY <2>1, SameKeeps DEF IInv
  <2> QED
    BY <2>1, <2>2, <2>3 DEF IInv
<1>2. CASE UNCHANGED <<phase, dep, inc, starts, at, handlers, bound, endpoints, consumed, deploys>>
  <2>1. \A r \in Procs : ProcInv(r)'
    BY <1>2, SameKeeps DEF IInv, Same
  <2> QED
    BY <1>2, <2>1 DEF IInv, Types, FunInv
<1> QED
  BY <1>1, <1>2 DEF Next, Expire, vars, procVars, localVars

(* The inductive invariant holds throughout.                               *)
THEOREM Invariance == Spec => []IInv
BY InitIInv, NextIInv, PTL DEF Spec

-----------------------------------------------------------------------------
(* TypeOK is an invariant of the processes and their broker.               *)
THEOREM TypeCorrect == Spec => []TypeOK
<1>1. IInv => TypeOK
  BY KnownTyped DEF IInv, Types, ProcInv, TypeOK
<1> QED
  BY <1>1, Invariance, PTL

(* For any patterns and routing keys, routingKeyHandler.get has at most    *)
(* one handler to choose, however often Start is retried: the order of     *)
(* Go's map does not matter.                                               *)
THEOREM Dispatch == Spec => []UniqueDispatch
<1>1. IInv => UniqueDispatch
  BY DEF IInv, ProcInv, Unique, UniqueDispatch
<1> QED
  BY <1>1, Invariance, PTL

(* No Setup function drops or replaces the handler of another one, though  *)
(* registering is an assignment to a map: exists refuses what it would     *)
(* overwrite.                                                              *)
THEOREM Kept == Spec => HandlerIsKept
<1>1. IInv /\ [Next]_vars =>
        [\A p \in Procs : phase'[p] # "down" => handlers[p] \subseteq handlers'[p]]_vars
  <2> SUFFICES ASSUME IInv, [Next]_vars, NEW p \in Procs, phase'[p] # "down"
               PROVE  handlers[p] \subseteq handlers'[p]
    OBVIOUS
  <2> USE DEF IInv, FunInv, Types
  <2>1. CASE UNCHANGED handlers
    BY <2>1
  <2>2. ASSUME NEW r \in Procs, Add(r)
        PROVE  handlers[p] \subseteq handlers'[p]
    <3>1. CASE p = r
      BY <2>2, <3>1, AddsOne
    <3>2. CASE p # r
      BY <2>2, <3>2 DEF Add
    <3> QED
      BY <3>1, <3>2
  <2>3. ASSUME NEW r \in Procs, Stop(r)
        PROVE  handlers[p] \subseteq handlers'[p]
    BY <2>3 DEF Stop
  <2> QED
    BY <2>1, <2>2, <2>3 DEF Next, ProcNext, SetupStep, Deploy, Retry, ResponseExchange,
         AddRefused, DeclareExchange, DeclareQueue, QueueRefused, Bind, BindRefused, Wire,
         Custom, Consume, ConsumeRefused, Started, Expire, End, localVars, vars
<1> QED
  BY <1>1, Invariance, PTL DEF Spec, HandlerIsKept

(* Whatever else is deployed, before or at the same time: a process has a  *)
(* handler for every event and request its own bindings bring it.          *)
THEOREM Routing == Spec => []OrphansAreForeign
<1>1. IInv => OrphansAreForeign
  <2> SUFFICES ASSUME IInv, NEW p \in Procs, NEW q \in consumed[p], NEW k \in RoutingKeys,
                      NEW b \in bindings, b.queue = q, Routes(b, k), Get(p, q, k) = {}
               PROVE  b \notin bound[p] \/ b.exchange.role = "response"
    BY DEF OrphansAreForeign
  <2> SUFFICES ASSUME b \in bound[p], b.exchange.role # "response"
               PROVE  FALSE
    OBVIOUS
  <2>1. PICK h \in handlers[p] : h.queue = q /\ h.key = b.key
    BY DEF IInv, ProcInv
  <2>2. h.key \in Patterns
    BY KnownTyped
  <2>3. <<h.key, k>> \in Matches
    <3>1. CASE b.exchange.role = "topic"
      BY <2>1, <3>1 DEF Routes
    <3>2. CASE b.exchange.role = "request"
      <4>1. b.key = k
        BY <3>2 DEF Routes
      <4> QED
        BY <2>1, <2>2, <4>1, OverlapAssumption
    <3> QED
      BY <3>1, <3>2 DEF Routes
  <2> QED
    BY <2>1, <2>3 DEF Get
<1> QED
  BY <1>1, Invariance, PTL

(* Only a transient consumer of a process that called Start again can have *)
(* two queues, and so handle an event twice.                               *)
THEOREM HandledOnce == Spec => []HandledTwiceNeedsRetry
<1>1. IInv => HandledTwiceNeedsRetry
  <2> SUFFICES ASSUME IInv, NEW p \in Procs, NEW h \in handlers[p], NEW g \in handlers[p],
                      h.by = g.by,
                      ~(starts[p] > 1 /\ dep[p].setups[h.by].op = "transient")
               PROVE  h = g
    BY DEF HandledTwiceNeedsRetry
  <2>1. Known(p, h) /\ Known(p, g) /\ starts[p] \in Nat
    BY DeploymentsAssumption DEF IInv, ProcInv, Types
  <2>2. CASE starts[p] <= 1
    BY <2>1, <2>2 DEF Known
  <2>3. CASE dep[p].setups[h.by].op # "transient"
    BY <2>1, <2>3 DEF Known, QueueName
  <2> QED
    BY <2>1, <2>2, <2>3
<1> QED
  BY <1>1, Invariance, PTL
=============================================================================
