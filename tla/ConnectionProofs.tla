-------------------------- MODULE ConnectionProofs --------------------------
(***************************************************************************)
(* Proofs about Connection, for any services, queues, overlap relation and *)
(* channel limit, and any number of calls of Start.                        *)
(***************************************************************************)
EXTENDS Connection, TLAPS

(* Where Start is says what the connection and its channels are like.      *)
StageInv ==
    /\ pc = "dial" => conn = "none"
    /\ pc = "response" => conn # "none"
    /\ pc \in {"setup", "options", "register", "consume"} => conn \in {"open", "lost"}
    /\ pc \in {"setup", "options"} => channels >= 1
    /\ started => pc = "idle" /\ conn \in {"open", "lost"}

(* Start has left Setup function i behind.                                 *)
Passed(i) == (pc = "options" /\ i < opt) \/ pc \in {"register", "consume"}

HasHandler(i) == setups[i].key \in registry[setups[i].queue]

(* add can accept consumer i after the consumers before it.                *)
Sound(i) ==
    /\ setups[i].valid
    /\ \A j \in Is("consumer") :
          j < i /\ setups[j].queue = setups[i].queue
              => <<setups[i].key, setups[j].key>> \notin Overlaps

(* The consumers behind Start are registered, and were fit to be.          *)
PassInv == \A i \in Is("consumer") : Passed(i) => HasHandler(i) /\ Sound(i)

OnlyConsumersRegister == \A q \in Queues : registry[q] # {} => Is("consumer") # {}

(* Once a loop runs all consumers are registered, so that no later Start   *)
(* gets past the first of them: one that did meets no loop.                *)
LoopsNeedAll ==
    \A q \in Queues : loops[q] > 0 => \A i \in Is("consumer") : HasHandler(i) /\ Sound(i)
PassedMeansNoLoops ==
    /\ pc \in {"options", "register"}
    /\ \E i \in Is("consumer") : Passed(i)
    => \A q \in Queues : loops[q] = 0
ConsumeInv ==
    pc = "consume" => \A q \in Queues :
        IF q \in todo THEN loops[q] = 0 ELSE registry[q] # {} => loops[q] = 1

LoopInv ==
    /\ OneLoopPerQueue
    /\ LoopsNeedAll
    /\ PassedMeansNoLoops
    /\ ConsumeInv
    /\ StartedConsumesAll

IInv == TypeOK /\ StageInv /\ PassInv /\ OnlyConsumersRegister /\ LoopInv

-----------------------------------------------------------------------------
(* Publishers: a Start after an error of the package's own does not get    *)
(* through, because the error comes again.                                 *)

(* A consumer at or after place n that add refuses, now and for ever.      *)
Culprit(n) ==
    \E i \in Is("consumer") :
        i >= n /\ (~setups[i].valid \/ Taken(setups[i].queue, setups[i].key))

(* This Start, or the next one, cannot succeed on a connection that lives. *)
Doomed ==
    \/ conn \in {"lost", "closed", "abandoned"}
    \/ pc \in {"idle", "dial", "response"} /\ ~started /\ channels = ChannelMax
    \/ pc \in {"idle", "dial", "response", "setup"} /\ ~started /\ Culprit(1)
    \/ pc = "options" /\ Culprit(opt)

(* Every Publisher has been set up by this Start at most, and once.        *)
Fresh ==
    \A p \in Pubs :
        /\ attached[p] <= 1
        /\ pc \in {"idle", "dial", "response", "setup"} /\ ~started => attached[p] = 0
        /\ pc = "options" /\ attached[p] = 1 =>
              \E j \in Is("publisher") : j < opt /\ setups[j].pub = p

Distinct == \A i, j \in Is("publisher") : setups[i].pub = setups[j].pub => i = j

(* No Publisher is passed twice, and no error of the application's own can *)
(* have made Start fail before its call number n + 1.                      *)
Plain(n) == Distinct /\ (Is("custom") = {} \/ starts <= n)

PubInv ==
    /\ pc # "idle" \/ started => starts >= 1
    /\ Plain(1) /\ (started \/ pc \notin {"idle", "hung", "panicked"}) => Fresh \/ Doomed
    /\ Plain(0) /\ pc = "idle" /\ ~started => Fresh \/ Doomed
    /\ PanicNeedsRepeat

-----------------------------------------------------------------------------
(* Facts about the constants.                                              *)

(* The Setup functions are numbered, and consumers and publishers are what *)
(* SetupsAssumption says.                                                  *)
LEMMA SetupFacts ==
    ASSUME setups \in Services
    PROVE  /\ Len(setups) \in Nat
           /\ \A op : Is(op) \subseteq 1..Len(setups)
           /\ \A i \in Is("consumer") :
                 setups[i].queue \in Queues /\ setups[i].valid \in BOOLEAN /\ setups[i].key \in Keys
           /\ \A i \in Is("prefetch") : setups[i].limit \in Nat
           /\ \A i \in Is("publisher") : setups[i].pub \in Pubs
  <1>1. \A i \in Is("consumer") : setups[i].key \in Keys
    BY DEF Is, Keys
  <1>2. \A i \in Is("publisher") : setups[i].pub \in Pubs
    BY DEF Is, Pubs
  <1>3. /\ Len(setups) \in Nat
        /\ \A op : Is(op) \subseteq 1..Len(setups)
    BY SetupsAssumption DEF Is, Of
  <1>4. /\ \A i \in Is("consumer") : setups[i].queue \in Queues /\ setups[i].valid \in BOOLEAN
        /\ \A i \in Is("prefetch") : setups[i].limit \in Nat
    BY SetupsAssumption DEF Is
  <1> QED
    BY <1>1, <1>2, <1>3, <1>4

(* The flags among the variables, and the rest of TypeOK.                  *)
FlagsOK ==
    /\ started \in BOOLEAN /\ listener \in BOOLEAN /\ closeCalled \in BOOLEAN
    /\ forwarding \in BOOLEAN /\ pending \in BOOLEAN /\ chanError \in BOOLEAN
DataOK ==
    /\ setups \in Services
    /\ prefetch \in Nat
    /\ registry \in [Queues -> SUBSET Keys]
    /\ conn \in {"none", "open", "lost", "closed", "abandoned"}
    /\ captured \in [prefetch : Nat, listener : BOOLEAN]
    /\ attached \in [Pubs -> Nat]
    /\ channels \in 0..ChannelMax
    /\ pc \in {"idle", "dial", "response", "setup", "options", "register", "consume", "hung", "panicked"}
    /\ opt \in 1..(Len(setups) + 1)
    /\ todo \subseteq Queues
    /\ qos \in [Queues -> Nat]
    /\ loops \in [Queues -> Nat]
    /\ told \subseteq {"connection", "channel"}
    /\ result \in {"none", "nil", "error", "already"}
    /\ starts \in 0..MaxStarts

(* The types and stages hold at first.                                     *)
LEMMA TypeInit == Init => TypeOK /\ StageInv
  <1> SUFFICES ASSUME Init PROVE TypeOK /\ StageInv
    OBVIOUS
  <1>1. StageInv
    BY DEF Init, StageInv
  <1>2. Len(setups) \in Nat
    BY SetupsAssumption DEF Init
  <1>3. FlagsOK
    BY DEF Init, FlagsOK
  <1>4. DataOK
    BY <1>2, KeysAssumption DEF Init, DataOK
  <1> QED
    BY <1>1, <1>3, <1>4 DEF TypeOK, FlagsOK, DataOK

(* Each step keeps the types; StageInv is what keeps the count of the      *)
(* channels from going below zero.                                         *)
LEMMA TypeStep ==
    ASSUME TypeOK, StageInv, [Next]_vars
    PROVE  TypeOK' /\ StageInv'
  <1> SUFFICES FlagsOK' /\ DataOK' /\ StageInv'
    BY DEF TypeOK, FlagsOK, DataOK
  <1>0. FlagsOK /\ DataOK
    BY DEF TypeOK, FlagsOK, DataOK
  <1> USE <1>0, SetupFacts, KeysAssumption DEF FlagsOK, DataOK, StageInv, configVars, startVars, loopVars, noticeVars, appVars
  <1>1. CASE Start
    <2>1. FlagsOK'
      BY <1>1 DEF Start
    <2>2. DataOK'
      BY <1>1 DEF Start
    <2>3. StageInv'
      BY <1>1 DEF Start
    <2> QED
      BY <2>1, <2>2, <2>3
  <1>2. CASE StartAgain
    <2>1. FlagsOK'
      BY <1>2 DEF StartAgain
    <2>2. DataOK'
      BY <1>2 DEF StartAgain
    <2>3. StageInv'
      BY <1>2 DEF StartAgain
    <2> QED
      BY <2>1, <2>2, <2>3
  <1>3. CASE Close
    BY <1>3 DEF Close, Panics
  <1>4. CASE Dial
    BY <1>4 DEF Dial
  <1>5. CASE DialFails
    BY <1>5 DEF DialFails, Fail
  <1>6. CASE OpenResponse
    BY <1>6 DEF OpenResponse, CanOpen
  <1>7. CASE OpenSetup
    BY <1>7 DEF OpenSetup, CanOpen
  <1>8. CASE OpenFails
    BY <1>8 DEF OpenFails, Fail
  <1>9. CASE SetListener
    BY <1>9 DEF SetListener, AtOption
  <1>10. CASE SetPrefetch
    BY <1>10 DEF SetPrefetch, AtOption
  <1>11. CASE SetupPublisher
    BY <1>11 DEF SetupPublisher, CanOpen, AtOption
  <1>12. CASE PublisherFails
    BY <1>12 DEF PublisherFails, Fail, AtOption
  <1>13. CASE Custom
    BY <1>13 DEF Custom, AtOption
  <1>14. CASE CustomFails
    BY <1>14 DEF CustomFails, Fail, AtOption
  <1>15. CASE SetupConsumer
    BY <1>15 DEF SetupConsumer, AtOption, Registered
  <1>16. CASE ConsumerFails
    BY <1>16 DEF ConsumerFails, Fail, AtOption, Registered
  <1>17. CASE CloseSetup
    BY <1>17 DEF CloseSetup
  <1>18. CASE CloseSetupFails
    BY <1>18 DEF CloseSetupFails, Fail
  <1>19. CASE Register
    BY <1>19 DEF Register
  <1>20. ASSUME NEW q \in Queues, StartConsumer(q) PROVE FlagsOK' /\ DataOK' /\ StageInv'
    BY <1>20 DEF StartConsumer, CanOpen
  <1>21. CASE StartConsumersFails
    BY <1>21 DEF StartConsumersFails, Fail
  <1>22. CASE Started
    BY <1>22 DEF Started
  <1>23. CASE Lose
    BY <1>23 DEF Lose
  <1>24. CASE Forward
    <2>1. FlagsOK'
      BY <1>24 DEF Forward
    <2>2. DataOK'
      BY <1>24 DEF Forward
    <2>3. StageInv'
      BY <1>24 DEF Forward
    <2> QED
      BY <2>1, <2>2, <2>3
  <1>25. CASE Hang
    <2>1. FlagsOK'
      BY <1>25 DEF Hang
    <2>2. DataOK'
      BY <1>25 DEF Hang
    <2>3. StageInv'
      BY <1>25 DEF Hang, Waiting, AtOption
    <2> QED
      BY <2>1, <2>2, <2>3
  <1>26. ASSUME NEW q \in Queues, LoopExits(q) PROVE FlagsOK' /\ DataOK' /\ StageInv'
    BY <1>26 DEF LoopExits
  <1>27. ASSUME NEW q \in Queues, ChannelError(q) PROVE FlagsOK' /\ DataOK' /\ StageInv'
    BY <1>27 DEF ChannelError
  <1>28. CASE UNCHANGED vars
    BY <1>28 DEF vars, Is, Of
  <1>29. CASE CloseHangs
    <2>1. FlagsOK'
      BY <1>29 DEF CloseHangs
    <2>2. DataOK'
      BY <1>29 DEF CloseHangs
    <2>3. StageInv'
      BY <1>29 DEF CloseHangs
    <2> QED
      BY <2>1, <2>2, <2>3
  <1>30. CASE Refused
    <2>1. FlagsOK'
      BY <1>30 DEF Refused
    <2>2. DataOK'
      BY <1>30 DEF Refused
    <2>3. StageInv'
      BY <1>30 DEF Refused, AtOption
    <2> QED
      BY <2>1, <2>2, <2>3
  <1>31. CASE Stall
    <2>1. FlagsOK'
      BY <1>31 DEF Stall
    <2>2. DataOK'
      BY <1>31 DEF Stall
    <2>3. StageInv'
      BY <1>31 DEF Stall, Waiting, AtOption
    <2> QED
      BY <2>1, <2>2, <2>3
  <1> QED
    BY <1>1, <1>2, <1>3, <1>4, <1>5, <1>6, <1>7, <1>8, <1>9, <1>10, <1>11, <1>12, <1>13, <1>14, <1>15, <1>16, <1>17, <1>18, <1>19, <1>20, <1>21, <1>22, <1>23, <1>24, <1>25, <1>26, <1>27, <1>28, <1>29, <1>30, <1>31 DEF Next, StartStep

(* The variables keep their types; the channels stay within their limit.   *)
THEOREM TypeCorrect == Spec => []TypeOK
  <1>1. Init => TypeOK /\ StageInv
    BY TypeInit
  <1>2. TypeOK /\ StageInv /\ [Next]_vars => (TypeOK /\ StageInv)'
    BY TypeStep
  <1> QED
    BY <1>1, <1>2, PTL DEF Spec

-----------------------------------------------------------------------------
(* The handlers and the loops.                                             *)

RestInv == PassInv /\ OnlyConsumersRegister /\ LoopInv

(* No handler is registered and no loop runs at first.                     *)
LEMMA RestInit == Init => RestInv
  BY SetupsAssumption DEF Init, RestInv, PassInv, OnlyConsumersRegister, LoopInv,
     OneLoopPerQueue, LoopsNeedAll, PassedMeansNoLoops, ConsumeInv, StartedConsumesAll, Passed

(* What does not change while the service stays the same; a handler that   *)
(* is registered stays so.                                                 *)
LEMMA SameSetups ==
    ASSUME setups' = setups
    PROVE  /\ \A op : Is(op)' = Is(op)
           /\ \A i : Sound(i)' = Sound(i)
           /\ registry' = registry => \A i : HasHandler(i)' = HasHandler(i)
  BY DEF Is, Sound, HasHandler

(* A step that takes Start out of the Setup functions and what follows, or *)
(* that does not concern it.                                               *)
LEMMA Leaves ==
    ASSUME RestInv, setups' = setups, registry' = registry, loops' = loops,
           pc' \notin {"options", "register", "consume"},
           started' => started
    PROVE  RestInv'
  <1> USE SameSetups
  <1>1. PassInv' /\ PassedMeansNoLoops' /\ ConsumeInv'
    BY DEF PassInv, PassedMeansNoLoops, ConsumeInv, Passed
  <1>2. OnlyConsumersRegister' /\ OneLoopPerQueue' /\ StartedConsumesAll'
    BY DEF RestInv, OnlyConsumersRegister, LoopInv, OneLoopPerQueue, StartedConsumesAll
  <1>3. LoopsNeedAll'
    BY DEF RestInv, LoopInv, LoopsNeedAll
  <1> QED
    BY <1>1, <1>2, <1>3 DEF RestInv, LoopInv

(* A step that leaves the same consumers behind Start.                     *)
LEMMA Stays ==
    ASSUME RestInv, setups' = setups, registry' = registry, loops' = loops,
           pc' = pc, todo' = todo, started' = started,
           pc = "options" => \A i \in Is("consumer") : i < opt' <=> i < opt
    PROVE  RestInv'
  <1> USE SameSetups
  <1>0. \A i \in Is("consumer") : Passed(i)' = Passed(i)
    BY DEF Passed
  <1>1. PassInv'
    BY <1>0 DEF RestInv, PassInv
  <1>2. PassedMeansNoLoops'
    BY <1>0 DEF RestInv, LoopInv, PassedMeansNoLoops
  <1>3. ConsumeInv' /\ OnlyConsumersRegister' /\ OneLoopPerQueue' /\ StartedConsumesAll'
    BY DEF RestInv, LoopInv, ConsumeInv, OnlyConsumersRegister, OneLoopPerQueue, StartedConsumesAll
  <1>4. LoopsNeedAll'
    BY DEF RestInv, LoopInv, LoopsNeedAll
  <1> QED
    BY <1>1, <1>2, <1>3, <1>4 DEF RestInv, LoopInv

(* A handler is added: none is lost, and the queue is that of a consumer.  *)
LEMMA Registers ==
    ASSUME TypeOK, NEW n \in Is("consumer"), opt = n, registry' = Registered, setups' = setups
    PROVE  /\ HasHandler(n)'
           /\ \A i \in Is("consumer") : HasHandler(i) => HasHandler(i)'
           /\ \A q \in Queues : registry[q] \subseteq registry'[q]
           /\ OnlyConsumersRegister'
  <1>1. /\ registry \in [Queues -> SUBSET Keys]
        /\ setups[opt].queue \in Queues
    BY SetupFacts DEF TypeOK
  <1>2. \A q \in Queues : registry'[q] =
           IF q = setups[opt].queue THEN registry[q] \cup {setups[opt].key} ELSE registry[q]
    BY <1>1 DEF Registered
  <1>3. \A i \in Is("consumer") : setups[i].queue \in Queues
    BY SetupFacts DEF TypeOK
  <1>4. HasHandler(n)'
    BY <1>1, <1>2 DEF HasHandler
  <1>5. \A i \in Is("consumer") : HasHandler(i) => HasHandler(i)'
    BY <1>2, <1>3 DEF HasHandler
  <1>6. OnlyConsumersRegister'
    BY SameSetups DEF OnlyConsumersRegister
  <1> QED
    BY <1>2, <1>4, <1>5, <1>6

(* A consumer that is not refused was not registered, on a queue where the *)
(* consumers before it are.                                                *)
LEMMA Accepted ==
    ASSUME TypeOK, PassInv, NEW n \in Is("consumer"), opt = n, pc = "options", ~Rejected
    PROVE  ~HasHandler(n) /\ Sound(n)
  <1>1. /\ setups[n].valid /\ setups[n].key \in Keys
        /\ \A j \in registry[setups[n].queue] : <<setups[n].key, j>> \notin Overlaps
    BY SetupFacts DEF TypeOK, Rejected, Taken
  <1>2. \A j \in Is("consumer") : j < n => HasHandler(j)
    BY DEF PassInv, Passed
  <1>3. ~HasHandler(n)
    BY <1>1, KeysAssumption DEF HasHandler
  <1> QED
    BY <1>1, <1>2, <1>3 DEF Sound, HasHandler

(* No loop runs while a consumer is not registered.                        *)
LEMMA NoLoops ==
    ASSUME TypeOK, LoopsNeedAll, NEW n \in Is("consumer"), ~HasHandler(n)
    PROVE  \A q \in Queues : loops[q] = 0
  BY DEF TypeOK, LoopsNeedAll

(* add accepts a consumer: it has no conflict with those before it, and no *)
(* loop can be running.                                                    *)
LEMMA SetupConsumerRest ==
    ASSUME TypeOK, StageInv, RestInv, SetupConsumer
    PROVE  RestInv'
  <1>1. PICK n \in Is("consumer") : n = opt
    BY DEF SetupConsumer, AtOption
  <1> USE SameSetups DEF configVars, startVars, loopVars, noticeVars, appVars
  <1>2. /\ setups' = setups /\ loops' = loops /\ pc = "options" /\ pc' = pc
        /\ opt' = n + 1 /\ todo' = todo /\ started' = started /\ registry' = Registered
    BY <1>1 DEF SetupConsumer, AtOption
  <1>3. ~HasHandler(n) /\ Sound(n)
    BY <1>1, <1>2, Accepted DEF SetupConsumer, RestInv
  <1>4. \A q \in Queues : loops[q] = 0
    BY <1>3, NoLoops DEF RestInv, LoopInv
  <1>5. /\ HasHandler(n)'
        /\ \A i \in Is("consumer") : HasHandler(i) => HasHandler(i)'
        /\ OnlyConsumersRegister'
    BY <1>1, <1>2, Registers
  <1>6. PassInv'
    <2> SUFFICES ASSUME NEW i \in Is("consumer"), i < n + 1
                 PROVE  HasHandler(i)' /\ Sound(i)'
      BY <1>2 DEF PassInv, Passed
    <2>1. CASE i = n
      BY <2>1, <1>2, <1>3, <1>5
    <2>2. CASE i # n
      <3>1. i < opt
        BY <2>2, <1>1, SetupFacts DEF TypeOK
      <3>2. HasHandler(i) /\ Sound(i)
        BY <3>1, <1>2 DEF RestInv, PassInv, Passed
      <3> QED
        BY <3>2, <1>2, <1>5
    <2> QED
      BY <2>1, <2>2
  <1>7. OneLoopPerQueue' /\ LoopsNeedAll' /\ PassedMeansNoLoops'
    BY <1>2, <1>4 DEF OneLoopPerQueue, LoopsNeedAll, PassedMeansNoLoops
  <1>8. ConsumeInv' /\ StartedConsumesAll'
    BY <1>2 DEF ConsumeInv, StartedConsumesAll, StageInv
  <1> QED
    BY <1>5, <1>6, <1>7, <1>8 DEF RestInv, LoopInv

(* A consumer that add refuses ends Start and leaves the registry.         *)
LEMMA ConsumerFailsRest ==
    ASSUME TypeOK, StageInv, RestInv, ConsumerFails
    PROVE  RestInv'
  <1>1. PICK n \in Is("consumer") : n = opt
    BY DEF ConsumerFails, AtOption
  <1> USE SameSetups DEF configVars, startVars, loopVars, noticeVars, appVars
  <1>2. /\ setups' = setups /\ loops' = loops /\ pc = "options" /\ pc' = "idle"
        /\ started' = started /\ started = FALSE /\ registry' \in {registry, Registered}
    BY DEF ConsumerFails, Fail, AtOption, StageInv, TypeOK
  <1>3. CASE registry' = registry
    BY <1>2, <1>3, Leaves
  <1>4. CASE registry' = Registered
    <2>1. /\ \A i \in Is("consumer") : HasHandler(i) => HasHandler(i)'
          /\ OnlyConsumersRegister'
      BY <1>1, <1>2, <1>4, Registers
    <2>2. PassInv' /\ PassedMeansNoLoops' /\ ConsumeInv' /\ StartedConsumesAll'
      BY <1>2 DEF PassInv, PassedMeansNoLoops, ConsumeInv, StartedConsumesAll, Passed
    <2>3. OneLoopPerQueue' /\ LoopsNeedAll'
      BY <1>2, <2>1 DEF RestInv, LoopInv, OneLoopPerQueue, LoopsNeedAll
    <2> QED
      BY <2>1, <2>2, <2>3 DEF RestInv, LoopInv
  <1> QED
    BY <1>2, <1>3, <1>4

(* Start goes on to the consumers with all of them behind it.              *)
LEMMA CloseSetupRest ==
    ASSUME TypeOK, StageInv, RestInv, CloseSetup
    PROVE  RestInv'
  <1> USE SameSetups DEF configVars, startVars, loopVars, noticeVars, appVars
  <1>1. /\ setups' = setups /\ registry' = registry /\ loops' = loops /\ pc = "options"
        /\ pc' = "register" /\ todo' = todo /\ started' = started /\ started = FALSE
    BY DEF CloseSetup, StageInv, TypeOK
  <1>2. \A i \in Is("consumer") : Passed(i)
    BY <1>1, SetupFacts DEF TypeOK, CloseSetup, Passed
  <1>3. PassInv'
    BY <1>1, <1>2 DEF RestInv, PassInv
  <1>4. PassedMeansNoLoops'
    BY <1>1, <1>2 DEF RestInv, LoopInv, PassedMeansNoLoops
  <1>5. ConsumeInv' /\ StartedConsumesAll'
    BY <1>1 DEF ConsumeInv, StartedConsumesAll
  <1>6. OneLoopPerQueue' /\ OnlyConsumersRegister' /\ LoopsNeedAll'
    BY <1>1 DEF RestInv, LoopInv, OneLoopPerQueue, OnlyConsumersRegister, LoopsNeedAll
  <1> QED
    BY <1>3, <1>4, <1>5, <1>6 DEF RestInv, LoopInv

(* Behind the last Setup function all consumers are registered, and no     *)
(* loop runs yet.                                                          *)
LEMMA RegisterRest ==
    ASSUME TypeOK, StageInv, RestInv, Register
    PROVE  RestInv'
  <1> USE SameSetups DEF configVars, startVars, loopVars, noticeVars, appVars
  <1>1. /\ setups' = setups /\ registry' = registry /\ loops' = loops /\ pc = "register"
        /\ pc' = "consume" /\ todo' = {q \in Queues : registry[q] # {}}
        /\ started' = started /\ started = FALSE
    BY DEF Register, StageInv, TypeOK
  <1>2. \A i : Passed(i) /\ Passed(i)'
    BY <1>1 DEF Passed
  <1>3. PassInv'
    BY <1>1, <1>2 DEF RestInv, PassInv
  <1>4. ConsumeInv'
    <2>1. \A q \in Queues : registry[q] # {} => loops[q] = 0
      BY <1>1, <1>2 DEF RestInv, LoopInv, OnlyConsumersRegister, PassedMeansNoLoops
    <2> QED
      BY <2>1, <1>1 DEF ConsumeInv
  <1>5. PassedMeansNoLoops' /\ StartedConsumesAll'
    BY <1>1 DEF PassedMeansNoLoops, StartedConsumesAll
  <1>6. OneLoopPerQueue' /\ OnlyConsumersRegister' /\ LoopsNeedAll'
    BY <1>1 DEF RestInv, LoopInv, OneLoopPerQueue, OnlyConsumersRegister, LoopsNeedAll
  <1> QED
    BY <1>3, <1>4, <1>5, <1>6 DEF RestInv, LoopInv

(* A loop starts on a queue that has none, with every consumer registered. *)
LEMMA StartConsumerRest ==
    ASSUME TypeOK, StageInv, RestInv, NEW q \in Queues, StartConsumer(q)
    PROVE  RestInv'
  <1> USE SameSetups DEF configVars, startVars, loopVars, noticeVars, appVars
  <1>1. /\ setups' = setups /\ registry' = registry /\ loops' = [loops EXCEPT ![q] = @ + 1]
        /\ pc = "consume" /\ pc' = pc /\ q \in todo /\ todo' = todo \ {q}
        /\ started' = started /\ started = FALSE
    BY DEF StartConsumer, StageInv, TypeOK
  <1>2. \A i : Passed(i) /\ Passed(i)'
    BY <1>1 DEF Passed
  <1>3. \A i \in Is("consumer") : HasHandler(i) /\ Sound(i)
    BY <1>2 DEF RestInv, PassInv
  <1>4. PassInv' /\ LoopsNeedAll'
    BY <1>1, <1>3 DEF PassInv, LoopsNeedAll
  <1>5. loops \in [Queues -> Nat] /\ loops[q] = 0
    BY <1>1 DEF TypeOK, RestInv, LoopInv, ConsumeInv
  <1>6. ConsumeInv' /\ OneLoopPerQueue'
    BY <1>1, <1>5 DEF RestInv, LoopInv, ConsumeInv, OneLoopPerQueue
  <1>7. PassedMeansNoLoops' /\ StartedConsumesAll' /\ OnlyConsumersRegister'
    BY <1>1 DEF PassedMeansNoLoops, StartedConsumesAll, OnlyConsumersRegister, RestInv
  <1> QED
    BY <1>4, <1>6, <1>7 DEF RestInv, LoopInv

(* Start returns nil when the last queue has its loop.                     *)
LEMMA StartedRest ==
    ASSUME TypeOK, StageInv, RestInv, Started
    PROVE  RestInv'
  <1> USE SameSetups DEF configVars, startVars, loopVars, noticeVars, appVars
  <1>1. /\ setups' = setups /\ registry' = registry /\ loops' = loops
        /\ pc = "consume" /\ pc' = "idle" /\ todo = {}
    BY DEF Started
  <1>2. StartedConsumesAll'
    BY <1>1 DEF RestInv, LoopInv, ConsumeInv, StartedConsumesAll
  <1>3. PassInv' /\ PassedMeansNoLoops' /\ ConsumeInv'
    BY <1>1 DEF PassInv, PassedMeansNoLoops, ConsumeInv, Passed
  <1>4. OneLoopPerQueue' /\ OnlyConsumersRegister' /\ LoopsNeedAll'
    BY <1>1 DEF RestInv, LoopInv, OneLoopPerQueue, OnlyConsumersRegister, LoopsNeedAll
  <1> QED
    BY <1>2, <1>3, <1>4 DEF RestInv, LoopInv

(* Loops end only outside Start, on a connection that is not started.      *)
LEMMA LoopExitsRest ==
    ASSUME TypeOK, StageInv, RestInv, NEW q \in Queues, LoopExits(q)
    PROVE  RestInv'
  <1> USE SameSetups DEF configVars, startVars, loopVars, noticeVars, appVars
  <1>1. /\ setups' = setups /\ registry' = registry /\ loops' = [loops EXCEPT ![q] = 0]
        /\ pc' = pc /\ pc \notin {"options", "register", "consume"}
        /\ started' = started /\ started = FALSE
    BY DEF LoopExits, Ended, StageInv, TypeOK
  <1>2. PassInv' /\ PassedMeansNoLoops' /\ ConsumeInv' /\ StartedConsumesAll'
    BY <1>1 DEF PassInv, PassedMeansNoLoops, ConsumeInv, StartedConsumesAll, Passed
  <1>3. \A r \in Queues : loops'[r] \in {loops[r], 0}
    BY <1>1 DEF TypeOK
  <1>4. OneLoopPerQueue' /\ OnlyConsumersRegister' /\ LoopsNeedAll'
    BY <1>1, <1>3 DEF RestInv, LoopInv, OneLoopPerQueue, OnlyConsumersRegister, LoopsNeedAll
  <1> QED
    BY <1>2, <1>4 DEF RestInv, LoopInv

(* A Start that is at its first Setup function has passed no consumer.     *)
LEMMA OpenSetupRest ==
    ASSUME TypeOK, StageInv, RestInv, OpenSetup
    PROVE  RestInv'
  <1> USE SameSetups DEF configVars, startVars, loopVars, noticeVars, appVars
  <1>1. /\ setups' = setups /\ registry' = registry /\ loops' = loops
        /\ pc' = "options" /\ opt' = 1 /\ started' = started /\ started = FALSE
    BY DEF OpenSetup, StageInv, TypeOK
  <1>2. \A i \in Is("consumer") : ~Passed(i)'
    BY <1>1, SetupFacts DEF TypeOK, Passed
  <1>3. PassInv' /\ PassedMeansNoLoops' /\ ConsumeInv' /\ StartedConsumesAll'
    BY <1>1, <1>2 DEF PassInv, PassedMeansNoLoops, ConsumeInv, StartedConsumesAll
  <1>4. OneLoopPerQueue' /\ OnlyConsumersRegister' /\ LoopsNeedAll'
    BY <1>1 DEF RestInv, LoopInv, OneLoopPerQueue, OnlyConsumersRegister, LoopsNeedAll
  <1> QED
    BY <1>3, <1>4 DEF RestInv, LoopInv

(* Every step keeps what is said of handlers and loops.                    *)
LEMMA RestStep ==
    ASSUME TypeOK, StageInv, RestInv, [Next]_vars
    PROVE  RestInv'
  <1> USE DEF configVars, startVars, loopVars, noticeVars, appVars
  <1>1. CASE Start
    BY <1>1, Leaves DEF Start
  <1>2. CASE Dial
    BY <1>2, Leaves DEF Dial
  <1>3. CASE DialFails
    BY <1>3, Leaves DEF DialFails, Fail
  <1>4. CASE OpenResponse
    BY <1>4, Leaves DEF OpenResponse
  <1>5. CASE OpenFails
    BY <1>5, Leaves DEF OpenFails, Fail
  <1>6. CASE PublisherFails
    BY <1>6, Leaves DEF PublisherFails, Fail
  <1>7. CASE CustomFails
    BY <1>7, Leaves DEF CustomFails, Fail
  <1>8. CASE CloseSetupFails
    BY <1>8, Leaves DEF CloseSetupFails, Fail
  <1>9. CASE StartConsumersFails
    BY <1>9, Leaves DEF StartConsumersFails, Fail
  <1>10. CASE Close
    <2>1. pc' \in {"idle", "panicked"} /\ started' = FALSE
      BY <1>10 DEF Close
    <2> QED
      BY <1>10, <2>1, Leaves DEF Close
  <1>11. CASE Hang
    BY <1>11, Leaves DEF Hang
  <1>12. CASE SetListener
    <2>1. opt \notin Is("consumer") /\ opt' = opt + 1
      BY <1>12 DEF SetListener, AtOption, Is, Of
    <2>2. \A i \in Is("consumer") : i < opt' <=> i < opt
      BY <2>1, SetupFacts DEF TypeOK
    <2> QED
      BY <1>12, <2>2, Stays DEF SetListener
  <1>13. CASE SetPrefetch
    <2>1. opt \notin Is("consumer") /\ opt' = opt + 1
      BY <1>13 DEF SetPrefetch, AtOption, Is, Of
    <2>2. \A i \in Is("consumer") : i < opt' <=> i < opt
      BY <2>1, SetupFacts DEF TypeOK
    <2> QED
      BY <1>13, <2>2, Stays DEF SetPrefetch
  <1>14. CASE SetupPublisher
    <2>1. opt \notin Is("consumer") /\ opt' = opt + 1
      BY <1>14 DEF SetupPublisher, AtOption, Is, Of
    <2>2. \A i \in Is("consumer") : i < opt' <=> i < opt
      BY <2>1, SetupFacts DEF TypeOK
    <2> QED
      BY <1>14, <2>2, Stays DEF SetupPublisher
  <1>15. CASE Custom
    <2>1. opt \notin Is("consumer") /\ opt' = opt + 1
      BY <1>15 DEF Custom, AtOption, Is, Of
    <2>2. \A i \in Is("consumer") : i < opt' <=> i < opt
      BY <2>1, SetupFacts DEF TypeOK
    <2> QED
      BY <1>15, <2>2, Stays DEF Custom
  <1>16. CASE StartAgain
    BY <1>16, Stays DEF StartAgain
  <1>17. CASE Lose
    BY <1>17, Stays DEF Lose
  <1>18. CASE Forward
    BY <1>18, Stays DEF Forward
  <1>19. ASSUME NEW q \in Queues, ChannelError(q) PROVE RestInv'
    BY <1>19, Stays DEF ChannelError
  <1>20. CASE UNCHANGED vars
    BY <1>20, Stays DEF vars
  <1>21. CASE CloseHangs
    BY <1>21, Leaves DEF CloseHangs
  <1>22. CASE Refused
    BY <1>22, Leaves DEF Refused
  <1>23. CASE Stall
    BY <1>23, Leaves DEF Stall
  <1> QED
    BY <1>1, <1>2, <1>3, <1>4, <1>5, <1>6, <1>7, <1>8, <1>9, <1>10, <1>11, <1>12, <1>13, <1>14, <1>15, <1>16, <1>17, <1>18, <1>19, <1>20, <1>21, <1>22, <1>23,
       SetupConsumerRest, ConsumerFailsRest, CloseSetupRest, RegisterRest, StartConsumerRest,
       StartedRest, LoopExitsRest, OpenSetupRest DEF Next, StartStep

(* The inductive invariant of the handlers and the loops.                  *)
THEOREM Invariance == Spec => []IInv
  <1>1. Init => IInv
    BY TypeInit, RestInit DEF IInv, RestInv
  <1>2. IInv /\ [Next]_vars => IInv'
    BY TypeStep, RestStep DEF IInv, RestInv
  <1> QED
    BY <1>1, <1>2, PTL DEF Spec

(* However often Start fails and is called again, a queue never has two    *)
(* loops of one process.                                                   *)
THEOREM OneLoop == Spec => []OneLoopPerQueue
  <1>1. IInv => OneLoopPerQueue
    BY DEF IInv, LoopInv
  <1> QED
    BY <1>1, Invariance, PTL

(* Start succeeds only when there is a loop on every queue that has a      *)
(* handler.                                                                *)
THEOREM ConsumesAll == Spec => []StartedConsumesAll
  <1>1. IInv => StartedConsumesAll
    BY DEF IInv, LoopInv
  <1> QED
    BY <1>1, Invariance, PTL

(* No delivery comes before the handlers of its queue are all registered.  *)
THEOREM HandlersFirst == Spec => []HandlersBeforeDeliveries
  <1>1. IInv => HandlersBeforeDeliveries
    BY SetupFacts DEF IInv, TypeOK, LoopInv, LoopsNeedAll, HandlersBeforeDeliveries, HasHandler
  <1> QED
    BY <1>1, Invariance, PTL

(* A service with an invalid or a conflicting consumer never consumes.     *)
THEOREM BrokenNeverConsumes == Spec => []BrokenServiceNeverConsumes
  <1>1. IInv => BrokenServiceNeverConsumes
    <2> SUFFICES ASSUME IInv, NEW q \in Queues, loops[q] # 0
                 PROVE  \A i \in Is("consumer") : Sound(i)
      BY DEF BrokenServiceNeverConsumes, Sound
    <2>1. loops[q] > 0
      BY DEF IInv, TypeOK
    <2> QED
      BY <2>1 DEF IInv, LoopInv, LoopsNeedAll
  <1> QED
    BY <1>1, Invariance, PTL

-----------------------------------------------------------------------------
(* The Publishers and Close.                                               *)

(* No Publisher is set up at first.                                        *)
LEMMA PubInit == Init => PubInv
  <1> SUFFICES ASSUME Init PROVE PubInv
    OBVIOUS
  <1>1. Fresh
    BY DEF Init, Fresh
  <1> QED
    BY <1>1 DEF Init, PubInv, PanicNeedsRepeat

(* What depends on the service, the registry and the calls of Start only.  *)
LEMMA SamePlain ==
    ASSUME setups' = setups
    PROVE  /\ Distinct' = Distinct
           /\ \A n : starts' = starts => Plain(n)' = Plain(n)
           /\ registry' = registry => \A n : Culprit(n)' = Culprit(n)
  BY DEF Is, Distinct, Plain, Culprit, Taken

(* A consumer that add refuses is refused for ever: no handler goes away.  *)
LEMMA CulpritStays ==
    ASSUME TypeOK, setups' = setups, \A q \in Queues : registry[q] \subseteq registry'[q], NEW n
    PROVE  Culprit(n) => Culprit(n)'
  <1>1. \A i \in Is("consumer") : setups[i].queue \in Queues
    BY SetupFacts DEF TypeOK
  <1> QED
    BY <1>1 DEF Culprit, Taken, Is

(* What a step has to show while Start is at work.                         *)
LEMMA PubBusy ==
    ASSUME PubInv, setups' = setups, starts' = starts, started' = started, started = FALSE,
           pc \notin {"idle", "hung", "panicked"}, pc' # "panicked",
           starts \in Nat,
           (Fresh \/ Doomed) /\ Distinct /\ (pc' = "idle" => Is("custom") = {}) => Fresh' \/ Doomed'
    PROVE  PubInv'
  <1>1. starts >= 1
    BY DEF PubInv
  <1>2. /\ Plain(1)' = Plain(1)
        /\ Plain(0)' => Is("custom") = {}
    BY <1>1, SamePlain, SameSetups DEF Plain
  <1>3. Plain(0)' /\ pc' = "idle" => Fresh' \/ Doomed'
    BY <1>1, <1>2, SamePlain DEF PubInv, Plain
  <1>4. Plain(1)' /\ pc' # "idle" => Fresh' \/ Doomed'
    BY <1>1, <1>2 DEF PubInv, Plain
  <1> QED
    BY <1>1, <1>2, <1>3, <1>4 DEF PubInv, PanicNeedsRepeat

(* Before the Setup functions no Publisher has been set up.                *)
LEMMA PubDial ==
    ASSUME TypeOK, StageInv, PubInv, Dial
    PROVE  PubInv'
  <1> USE SamePlain DEF configVars, startVars, loopVars, noticeVars, appVars
  <1>1. /\ setups' = setups /\ starts' = starts /\ started' = started /\ started = FALSE
        /\ pc \notin {"idle", "hung", "panicked"} /\ pc' # "panicked" /\ starts \in Nat
    BY KeysAssumption DEF Dial, StageInv, TypeOK
  <1> SUFFICES ASSUME Fresh \/ Doomed, Distinct, pc' = "idle" => Is("custom") = {}
               PROVE  Fresh' \/ Doomed'
    BY <1>1, PubBusy
  <1>2. Fresh => Fresh'
    BY <1>1, SameSetups DEF Dial, Fresh
  <1>3. Doomed => Doomed'
    BY <1>1 DEF Dial, Doomed, StageInv
  <1> QED
    BY <1>2, <1>3

(* A dial that fails sets up no Publisher.                                 *)
LEMMA PubDialFails ==
    ASSUME TypeOK, StageInv, PubInv, DialFails
    PROVE  PubInv'
  <1> USE SamePlain DEF configVars, startVars, loopVars, noticeVars, appVars
  <1>1. /\ setups' = setups /\ starts' = starts /\ started' = started /\ started = FALSE
        /\ pc \notin {"idle", "hung", "panicked"} /\ pc' # "panicked" /\ starts \in Nat
    BY KeysAssumption DEF DialFails, Fail, StageInv, TypeOK
  <1> SUFFICES ASSUME Fresh \/ Doomed, Distinct, pc' = "idle" => Is("custom") = {}
               PROVE  Fresh' \/ Doomed'
    BY <1>1, PubBusy
  <1>2. Fresh => Fresh'
    BY <1>1, SameSetups DEF DialFails, Fail, Fresh
  <1>3. Doomed => Doomed'
    BY <1>1 DEF DialFails, Fail, Doomed
  <1> QED
    BY <1>2, <1>3

(* Opening the response channel sets up no Publisher.                      *)
LEMMA PubOpenResponse ==
    ASSUME TypeOK, StageInv, PubInv, OpenResponse
    PROVE  PubInv'
  <1> USE SamePlain DEF configVars, startVars, loopVars, noticeVars, appVars
  <1>1. /\ setups' = setups /\ starts' = starts /\ started' = started /\ started = FALSE
        /\ pc \notin {"idle", "hung", "panicked"} /\ pc' # "panicked" /\ starts \in Nat
    BY KeysAssumption DEF OpenResponse, CanOpen, StageInv, TypeOK
  <1> SUFFICES ASSUME Fresh \/ Doomed, Distinct, pc' = "idle" => Is("custom") = {}
               PROVE  Fresh' \/ Doomed'
    BY <1>1, PubBusy
  <1>2. Fresh => Fresh'
    BY <1>1, SameSetups DEF OpenResponse, CanOpen, Fresh
  <1>3. Doomed => Doomed'
    BY <1>1, KeysAssumption DEF OpenResponse, CanOpen, Doomed, TypeOK
  <1> QED
    BY <1>2, <1>3

(* Opening the setup channel sets up no Publisher.                         *)
LEMMA PubOpenSetup ==
    ASSUME TypeOK, StageInv, PubInv, OpenSetup
    PROVE  PubInv'
  <1> USE SamePlain DEF configVars, startVars, loopVars, noticeVars, appVars
  <1>1. /\ setups' = setups /\ starts' = starts /\ started' = started /\ started = FALSE
        /\ pc \notin {"idle", "hung", "panicked"} /\ pc' # "panicked" /\ starts \in Nat
    BY KeysAssumption DEF OpenSetup, CanOpen, StageInv, TypeOK
  <1> SUFFICES ASSUME Fresh \/ Doomed, Distinct, pc' = "idle" => Is("custom") = {}
               PROVE  Fresh' \/ Doomed'
    BY <1>1, PubBusy
  <1>2. Fresh => Fresh'
    BY <1>1, SameSetups DEF OpenSetup, CanOpen, Fresh
  <1>3. Doomed => Doomed'
    BY <1>1 DEF OpenSetup, CanOpen, Doomed
  <1> QED
    BY <1>2, <1>3

(* No channel can be opened: the connection is lost or has no channel      *)
(* left, now and at the next Start.                                        *)
LEMMA PubOpenFails ==
    ASSUME TypeOK, StageInv, PubInv, OpenFails
    PROVE  PubInv'
  <1> USE SamePlain DEF configVars, startVars, loopVars, noticeVars, appVars
  <1>1. /\ setups' = setups /\ starts' = starts /\ started' = started /\ started = FALSE
        /\ pc \notin {"idle", "hung", "panicked"} /\ pc' # "panicked" /\ starts \in Nat
    BY KeysAssumption DEF OpenFails, Fail, StageInv, TypeOK
  <1> SUFFICES ASSUME Fresh \/ Doomed, Distinct, pc' = "idle" => Is("custom") = {}
               PROVE  Fresh' \/ Doomed'
    BY <1>1, PubBusy
  <1>2. Fresh => Fresh'
    BY <1>1, SameSetups DEF OpenFails, Fail, Fresh
  <1>3. CASE pc = "response"
    BY <1>1, <1>2, <1>3 DEF OpenFails, Fail, Doomed
  <1>4. CASE pc = "setup"
    BY <1>1, <1>2, <1>4 DEF OpenFails, Fail, Doomed
  <1> QED
    BY <1>2, <1>3, <1>4 DEF OpenFails

(* Setup functions other than publishers and consumers just go by.         *)
LEMMA PubSetListener ==
    ASSUME TypeOK, StageInv, PubInv, SetListener
    PROVE  PubInv'
  <1> USE SamePlain DEF configVars, startVars, loopVars, noticeVars, appVars
  <1>1. /\ setups' = setups /\ starts' = starts /\ started' = started /\ started = FALSE
        /\ pc \notin {"idle", "hung", "panicked"} /\ pc' # "panicked" /\ starts \in Nat
    BY KeysAssumption DEF SetListener, AtOption, StageInv, TypeOK
  <1> SUFFICES ASSUME Fresh \/ Doomed, Distinct, pc' = "idle" => Is("custom") = {}
               PROVE  Fresh' \/ Doomed'
    BY <1>1, PubBusy
  <1>2. /\ opt \notin Is("consumer") /\ opt' = opt + 1 /\ opt \in Int
        /\ \A i \in Is("consumer") \cup Is("publisher") : i \in Int
    BY SetupFacts DEF SetListener, AtOption, Is, Of, TypeOK
  <1>3. Fresh => Fresh'
    BY <1>1, <1>2, SameSetups DEF SetListener, AtOption, Fresh
  <1>4. Culprit(opt) => Culprit(opt + 1)
    BY <1>2 DEF Culprit
  <1>5. Doomed => Doomed'
    BY <1>1, <1>2, <1>4 DEF SetListener, AtOption, Doomed
  <1> QED
    BY <1>3, <1>5

(* A prefetch option sets up no Publisher.                                 *)
LEMMA PubSetPrefetch ==
    ASSUME TypeOK, StageInv, PubInv, SetPrefetch
    PROVE  PubInv'
  <1> USE SamePlain DEF configVars, startVars, loopVars, noticeVars, appVars
  <1>1. /\ setups' = setups /\ starts' = starts /\ started' = started /\ started = FALSE
        /\ pc \notin {"idle", "hung", "panicked"} /\ pc' # "panicked" /\ starts \in Nat
    BY KeysAssumption DEF SetPrefetch, AtOption, StageInv, TypeOK
  <1> SUFFICES ASSUME Fresh \/ Doomed, Distinct, pc' = "idle" => Is("custom") = {}
               PROVE  Fresh' \/ Doomed'
    BY <1>1, PubBusy
  <1>2. /\ opt \notin Is("consumer") /\ opt' = opt + 1 /\ opt \in Int
        /\ \A i \in Is("consumer") \cup Is("publisher") : i \in Int
    BY SetupFacts DEF SetPrefetch, AtOption, Is, Of, TypeOK
  <1>3. Fresh => Fresh'
    BY <1>1, <1>2, SameSetups DEF SetPrefetch, AtOption, Fresh
  <1>4. Culprit(opt) => Culprit(opt + 1)
    BY <1>2 DEF Culprit
  <1>5. Doomed => Doomed'
    BY <1>1, <1>2, <1>4 DEF SetPrefetch, AtOption, Doomed
  <1> QED
    BY <1>3, <1>5

(* The application's own Setup function sets up no Publisher.              *)
LEMMA PubCustom ==
    ASSUME TypeOK, StageInv, PubInv, Custom
    PROVE  PubInv'
  <1> USE SamePlain DEF configVars, startVars, loopVars, noticeVars, appVars
  <1>1. /\ setups' = setups /\ starts' = starts /\ started' = started /\ started = FALSE
        /\ pc \notin {"idle", "hung", "panicked"} /\ pc' # "panicked" /\ starts \in Nat
    BY KeysAssumption DEF Custom, AtOption, StageInv, TypeOK
  <1> SUFFICES ASSUME Fresh \/ Doomed, Distinct, pc' = "idle" => Is("custom") = {}
               PROVE  Fresh' \/ Doomed'
    BY <1>1, PubBusy
  <1>2. /\ opt \notin Is("consumer") /\ opt' = opt + 1 /\ opt \in Int
        /\ \A i \in Is("consumer") \cup Is("publisher") : i \in Int
    BY SetupFacts DEF Custom, AtOption, Is, Of, TypeOK
  <1>3. Fresh => Fresh'
    BY <1>1, <1>2, SameSetups DEF Custom, AtOption, Fresh
  <1>4. Culprit(opt) => Culprit(opt + 1)
    BY <1>2 DEF Culprit
  <1>5. Doomed => Doomed'
    BY <1>1, <1>2, <1>4 DEF Custom, AtOption, Doomed
  <1> QED
    BY <1>3, <1>5

(* A Publisher that Start has not met yet has no channel: it gets one.     *)
LEMMA PubSetupPublisher ==
    ASSUME TypeOK, StageInv, PubInv, SetupPublisher
    PROVE  PubInv'
  <1> USE SamePlain DEF configVars, startVars, loopVars, noticeVars, appVars
  <1>1. /\ setups' = setups /\ starts' = starts /\ started' = started /\ started = FALSE
        /\ pc \notin {"idle", "hung", "panicked"} /\ pc' # "panicked" /\ starts \in Nat
    BY KeysAssumption DEF SetupPublisher, AtOption, StageInv, TypeOK
  <1> SUFFICES ASSUME Fresh \/ Doomed, Distinct, pc' = "idle" => Is("custom") = {}
               PROVE  Fresh' \/ Doomed'
    BY <1>1, PubBusy
  <1>2. /\ opt \notin Is("consumer") /\ opt' = opt + 1 /\ opt \in Int /\ opt \in Is("publisher")
        /\ \A i \in Is("consumer") \cup Is("publisher") : i \in Int
    BY SetupFacts DEF SetupPublisher, AtOption, Is, Of, TypeOK
  <1>3. /\ pc = "options" /\ pc' = pc /\ setups[opt].pub \in Pubs /\ attached \in [Pubs -> Nat]
        /\ attached' = [attached EXCEPT ![setups[opt].pub] = @ + 1]
    BY <1>2, SetupFacts DEF SetupPublisher, AtOption, TypeOK
  <1>4. ASSUME Fresh PROVE Fresh'
    <2>1. attached[setups[opt].pub] = 0
      BY <1>2, <1>3, <1>4 DEF Fresh, Distinct
    <2>2. ASSUME NEW p \in Pubs PROVE attached'[p] <= 1
      BY <1>3, <1>4, <2>1 DEF Fresh
    <2>3. ASSUME NEW p \in Pubs, attached'[p] = 1
          PROVE  \E j \in Is("publisher") : j < opt + 1 /\ setups[j].pub = p
      <3>1. CASE p = setups[opt].pub
        BY <3>1, <1>2
      <3>2. CASE p # setups[opt].pub
        <4>1. attached[p] = 1
          BY <3>2, <2>3, <1>3
        <4>2. PICK j \in Is("publisher") : j < opt /\ setups[j].pub = p
          BY <4>1, <1>3, <1>4 DEF Fresh
        <4> QED
          BY <4>2, <1>2
      <3> QED
        BY <3>1, <3>2
    <2> QED
      BY <1>1, <1>2, <1>3, <2>2, <2>3, SameSetups DEF Fresh
  <1>5. Culprit(opt) => Culprit(opt + 1)
    BY <1>2 DEF Culprit
  <1>6. Doomed => Doomed'
    BY <1>1, <1>2, <1>3, <1>5 DEF SetupPublisher, Doomed
  <1> QED
    BY <1>4, <1>6

(* Errors that come again: no channel, a connection that is gone.          *)
LEMMA PubPublisherFails ==
    ASSUME TypeOK, StageInv, PubInv, PublisherFails
    PROVE  PubInv'
  <1> USE SamePlain DEF configVars, startVars, loopVars, noticeVars, appVars
  <1>1. /\ setups' = setups /\ starts' = starts /\ started' = started /\ started = FALSE
        /\ pc \notin {"idle", "hung", "panicked"} /\ pc' # "panicked" /\ starts \in Nat
    BY KeysAssumption DEF PublisherFails, AtOption, Fail, StageInv, TypeOK
  <1> SUFFICES ASSUME Fresh \/ Doomed, Distinct, pc' = "idle" => Is("custom") = {}
               PROVE  Fresh' \/ Doomed'
    BY <1>1, PubBusy
  <1>2. conn \in {"open", "lost"} /\ conn' = conn /\ pc' = "idle" /\ channels' = channels
    BY DEF PublisherFails, AtOption, Fail, StageInv
  <1>3. conn = "lost" \/ channels = ChannelMax
    BY <1>2, KeysAssumption DEF PublisherFails, CannotOpen, TypeOK
  <1> QED
    BY <1>1, <1>2, <1>3 DEF Doomed

(* startConsumers fails: no channel is left, or the connection is lost.    *)
LEMMA PubStartConsumersFails ==
    ASSUME TypeOK, StageInv, PubInv, StartConsumersFails
    PROVE  PubInv'
  <1> USE SamePlain DEF configVars, startVars, loopVars, noticeVars, appVars
  <1>1. /\ setups' = setups /\ starts' = starts /\ started' = started /\ started = FALSE
        /\ pc \notin {"idle", "hung", "panicked"} /\ pc' # "panicked" /\ starts \in Nat
    BY KeysAssumption DEF StartConsumersFails, Fail, StageInv, TypeOK
  <1> SUFFICES ASSUME Fresh \/ Doomed, Distinct, pc' = "idle" => Is("custom") = {}
               PROVE  Fresh' \/ Doomed'
    BY <1>1, PubBusy
  <1>2. conn \in {"open", "lost"} /\ conn' = conn /\ pc' = "idle" /\ channels' = channels
    BY DEF StartConsumersFails, Fail, StageInv
  <1>3. conn = "lost" \/ channels = ChannelMax
    BY <1>2, KeysAssumption DEF StartConsumersFails, CannotOpen, TypeOK
  <1> QED
    BY <1>1, <1>2, <1>3 DEF Doomed

(* The setup channel cannot be closed: the connection is lost.             *)
LEMMA PubCloseSetupFails ==
    ASSUME TypeOK, StageInv, PubInv, CloseSetupFails
    PROVE  PubInv'
  <1> USE SamePlain DEF configVars, startVars, loopVars, noticeVars, appVars
  <1>1. /\ setups' = setups /\ starts' = starts /\ started' = started /\ started = FALSE
        /\ pc \notin {"idle", "hung", "panicked"} /\ pc' # "panicked" /\ starts \in Nat
    BY KeysAssumption DEF CloseSetupFails, Fail, StageInv, TypeOK
  <1> SUFFICES ASSUME Fresh \/ Doomed, Distinct, pc' = "idle" => Is("custom") = {}
               PROVE  Fresh' \/ Doomed'
    BY <1>1, PubBusy
  <1>2. conn = "lost" /\ conn' = conn
    BY DEF CloseSetupFails, Fail, StageInv
  <1> QED
    BY <1>2 DEF Doomed

(* The one error that need not come again; the next Start is the second.   *)
LEMMA PubCustomFails ==
    ASSUME TypeOK, StageInv, PubInv, CustomFails
    PROVE  PubInv'
  <1> USE SamePlain DEF configVars, startVars, loopVars, noticeVars, appVars
  <1>1. /\ setups' = setups /\ starts' = starts /\ started' = started /\ started = FALSE
        /\ pc \notin {"idle", "hung", "panicked"} /\ pc' # "panicked" /\ starts \in Nat
    BY KeysAssumption DEF CustomFails, Fail, AtOption, StageInv, TypeOK
  <1> SUFFICES ASSUME Fresh \/ Doomed, Distinct, pc' = "idle" => Is("custom") = {}
               PROVE  Fresh' \/ Doomed'
    BY <1>1, PubBusy
  <1> QED
    BY DEF CustomFails, Fail, AtOption

(* A consumer that is refused, or whose queue cannot be declared.          *)
LEMMA PubConsumerFails ==
    ASSUME TypeOK, StageInv, PubInv, ConsumerFails
    PROVE  PubInv'
  <1> USE SamePlain DEF configVars, startVars, loopVars, noticeVars, appVars
  <1>1. /\ setups' = setups /\ starts' = starts /\ started' = started /\ started = FALSE
        /\ pc \notin {"idle", "hung", "panicked"} /\ pc' # "panicked" /\ starts \in Nat
    BY KeysAssumption DEF ConsumerFails, Fail, AtOption, StageInv, TypeOK
  <1> SUFFICES ASSUME Fresh \/ Doomed, Distinct, pc' = "idle" => Is("custom") = {}
               PROVE  Fresh' \/ Doomed'
    BY <1>1, PubBusy
  <1>2. /\ conn \in {"open", "lost"} /\ conn' = conn /\ pc' = "idle"
        /\ opt \in Is("consumer") /\ opt >= 1
    BY SetupFacts DEF ConsumerFails, AtOption, Fail, StageInv, TypeOK
  <1>3. CASE Rejected /\ registry' = registry
    <2>1. Culprit(1)
      BY <1>2, <1>3 DEF Culprit, Rejected
    <2> QED
      BY <1>1, <1>2, <1>3, <2>1 DEF Doomed
  <1>4. CASE conn # "open"
    BY <1>2, <1>4 DEF Doomed
  <1> QED
    BY <1>3, <1>4 DEF ConsumerFails

(* A consumer that is not refused leaves the one that will be ahead.       *)
LEMMA PubSetupConsumer ==
    ASSUME TypeOK, StageInv, PubInv, SetupConsumer
    PROVE  PubInv'
  <1> USE SamePlain DEF configVars, startVars, loopVars, noticeVars, appVars
  <1>1. /\ setups' = setups /\ starts' = starts /\ started' = started /\ started = FALSE
        /\ pc \notin {"idle", "hung", "panicked"} /\ pc' # "panicked" /\ starts \in Nat
    BY KeysAssumption DEF SetupConsumer, AtOption, StageInv, TypeOK
  <1> SUFFICES ASSUME Fresh \/ Doomed, Distinct, pc' = "idle" => Is("custom") = {}
               PROVE  Fresh' \/ Doomed'
    BY <1>1, PubBusy
  <1>2. PICK n \in Is("consumer") : n = opt
    BY DEF SetupConsumer, AtOption
  <1>3. /\ pc = "options" /\ pc' = pc /\ opt' = n + 1 /\ conn' = conn /\ attached' = attached
        /\ registry' = Registered /\ ~Rejected
        /\ \A i \in Is("consumer") \cup Is("publisher") : i \in Int
    BY <1>2, SetupFacts DEF SetupConsumer, AtOption, TypeOK
  <1>4. \A q \in Queues : registry[q] \subseteq registry'[q]
    BY <1>1, <1>2, <1>3, Registers
  <1>5. Fresh => Fresh'
    BY <1>1, <1>2, <1>3, SameSetups DEF Fresh
  <1>6. Culprit(opt) => Culprit(n + 1)
    BY <1>2, <1>3 DEF Culprit, Rejected
  <1>7. Culprit(n + 1) => Culprit(n + 1)'
    BY <1>1, <1>4, CulpritStays
  <1>8. Doomed => Doomed'
    BY <1>1, <1>3, <1>6, <1>7 DEF Doomed
  <1> QED
    BY <1>5, <1>8

(* Behind the Setup functions no consumer is left that could be refused.   *)
LEMMA PubCloseSetup ==
    ASSUME TypeOK, StageInv, PubInv, CloseSetup
    PROVE  PubInv'
  <1> USE SamePlain DEF configVars, startVars, loopVars, noticeVars, appVars
  <1>1. /\ setups' = setups /\ starts' = starts /\ started' = started /\ started = FALSE
        /\ pc \notin {"idle", "hung", "panicked"} /\ pc' # "panicked" /\ starts \in Nat
    BY KeysAssumption DEF CloseSetup, StageInv, TypeOK
  <1> SUFFICES ASSUME Fresh \/ Doomed, Distinct, pc' = "idle" => Is("custom") = {}
               PROVE  Fresh' \/ Doomed'
    BY <1>1, PubBusy
  <1>2. ~Culprit(opt)
    BY SetupFacts DEF CloseSetup, Culprit, TypeOK
  <1>3. Fresh => Fresh'
    BY <1>1 DEF CloseSetup, Fresh
  <1>4. Doomed => Doomed'
    BY <1>1, <1>2 DEF CloseSetup, Doomed
  <1> QED
    BY <1>3, <1>4

(* Registering the close listener sets up no Publisher.                    *)
LEMMA PubRegister ==
    ASSUME TypeOK, StageInv, PubInv, Register
    PROVE  PubInv'
  <1> USE SamePlain DEF configVars, startVars, loopVars, noticeVars, appVars
  <1>1. /\ setups' = setups /\ starts' = starts /\ started' = started /\ started = FALSE
        /\ pc \notin {"idle", "hung", "panicked"} /\ pc' # "panicked" /\ starts \in Nat
    BY KeysAssumption DEF Register, StageInv, TypeOK
  <1> SUFFICES ASSUME Fresh \/ Doomed, Distinct, pc' = "idle" => Is("custom") = {}
               PROVE  Fresh' \/ Doomed'
    BY <1>1, PubBusy
  <1>2. Fresh => Fresh'
    BY <1>1 DEF Register, Fresh
  <1>3. Doomed => Doomed'
    BY <1>1 DEF Register, Doomed
  <1> QED
    BY <1>2, <1>3

(* Starting a loop sets up no Publisher.                                   *)
LEMMA PubStartConsumer ==
    ASSUME TypeOK, StageInv, PubInv, NEW q \in Queues, StartConsumer(q)
    PROVE  PubInv'
  <1> USE SamePlain DEF configVars, startVars, loopVars, noticeVars, appVars
  <1>1. /\ setups' = setups /\ starts' = starts /\ started' = started /\ started = FALSE
        /\ pc \notin {"idle", "hung", "panicked"} /\ pc' # "panicked" /\ starts \in Nat
    BY KeysAssumption DEF StartConsumer, StageInv, TypeOK
  <1> SUFFICES ASSUME Fresh \/ Doomed, Distinct, pc' = "idle" => Is("custom") = {}
               PROVE  Fresh' \/ Doomed'
    BY <1>1, PubBusy
  <1>2. Fresh => Fresh'
    BY <1>1 DEF StartConsumer, Fresh
  <1>3. Doomed => Doomed'
    BY <1>1 DEF StartConsumer, Doomed
  <1> QED
    BY <1>2, <1>3

(* A new call of Start begins fresh, or on what dooms it.                  *)
LEMMA PubStart ==
    ASSUME TypeOK, StageInv, PubInv, Start
    PROVE  PubInv'
  <1> USE SamePlain, SameSetups DEF configVars, startVars, loopVars, noticeVars, appVars
  <1>1. /\ setups' = setups /\ starts' = starts + 1 /\ started' = started /\ started = FALSE
        /\ pc = "idle" /\ pc' \in {"dial", "response"} /\ starts \in Nat
    BY KeysAssumption DEF Start, TypeOK
  <1>2. Plain(1)' => Plain(0)
    <2>1. Is("custom")' = Is("custom") /\ Distinct' = Distinct
      BY <1>1
    <2>2. Plain(1)' = (Distinct' /\ (Is("custom")' = {} \/ starts' <= 1))
      BY DEF Plain
    <2> QED
      BY <1>1, <2>1, <2>2 DEF Plain
  <1>3. Fresh => Fresh'
    BY <1>1 DEF Start, Fresh
  <1>4. Doomed => Doomed'
    BY <1>1 DEF Start, Doomed
  <1> QED
    BY <1>1, <1>2, <1>3, <1>4 DEF PubInv, PanicNeedsRepeat

(* A Start on a started connection is refused and changes nothing.         *)
LEMMA PubStartAgain ==
    ASSUME TypeOK, StageInv, PubInv, StartAgain
    PROVE  PubInv'
  <1> USE SamePlain, SameSetups DEF configVars, startVars, loopVars, noticeVars, appVars
  <1>1. /\ setups' = setups /\ starts' = starts + 1 /\ started' = started /\ started
        /\ pc = "idle" /\ pc' = pc /\ starts \in Nat /\ starts >= 1
    BY KeysAssumption DEF StartAgain, TypeOK, PubInv
  <1>2. Plain(1)' => Plain(1)
    <2>1. Is("custom")' = Is("custom") /\ Distinct' = Distinct
      BY <1>1
    <2>2. Plain(1)' = (Distinct' /\ (Is("custom")' = {} \/ starts' <= 1))
      BY DEF Plain
    <2> QED
      BY <1>1, <2>1, <2>2 DEF Plain
  <1>3. Fresh => Fresh'
    BY <1>1 DEF StartAgain, Fresh
  <1>4. Doomed => Doomed'
    BY <1>1 DEF StartAgain, Doomed
  <1> QED
    BY <1>1, <1>2, <1>3, <1>4 DEF PubInv, PanicNeedsRepeat

(* Start returns nil and leaves the Publishers as they were set up.        *)
LEMMA PubStarted ==
    ASSUME TypeOK, StageInv, PubInv, Started
    PROVE  PubInv'
  <1> USE SamePlain, SameSetups DEF configVars, startVars, loopVars, noticeVars, appVars
  <1>1. /\ setups' = setups /\ starts' = starts /\ started' /\ starts \in Nat
        /\ pc = "consume" /\ pc' = "idle" /\ starts >= 1
    BY KeysAssumption DEF Started, TypeOK, PubInv
  <1>2. Fresh => Fresh'
    BY <1>1 DEF Started, Fresh
  <1>3. Doomed => Doomed'
    BY <1>1 DEF Started, Doomed
  <1> QED
    BY <1>1, <1>2, <1>3 DEF PubInv, PanicNeedsRepeat

(* Close panics only when a Publisher has two channels on a connection     *)
(* that is up: that connection is not doomed and the Publisher not fresh.  *)
LEMMA PubClose ==
    ASSUME TypeOK, StageInv, PubInv, Close
    PROVE  PubInv'
  <1> USE SamePlain, SameSetups DEF configVars, startVars, loopVars, noticeVars, appVars
  <1>1. /\ setups' = setups /\ starts' = starts /\ started' = FALSE /\ pc = "idle"
        /\ starts \in Nat
    BY KeysAssumption DEF Close, TypeOK
  <1>2. CASE Panics
    <2>1. ~Fresh
      BY <1>2 DEF Panics, Fresh, TypeOK
    <2>2. ~Doomed
      BY <1>1, <1>2 DEF Panics, Doomed
    <2>3. ~Plain(1)
      BY <1>2, <2>1, <2>2 DEF PubInv, Panics
    <2>4. starts >= 1
      BY <1>2 DEF PubInv, Panics
    <2>5. pc' = "panicked"
      BY <1>2 DEF Close
    <2>6. PanicNeedsRepeat'
      BY <1>1, <2>3 DEF PanicNeedsRepeat, Plain, Distinct
    <2> QED
      BY <1>1, <2>4, <2>5, <2>6 DEF PubInv
  <1>3. CASE started /\ ~Panics
    <2>1. Doomed' /\ pc' = "idle"
      BY <1>1, <1>3 DEF Close, Doomed
    <2> QED
      BY <1>1, <2>1 DEF PubInv, PanicNeedsRepeat
  <1>4. CASE ~started
    <2>1. pc' = pc /\ started' = started /\ conn' = conn
      BY <1>1, <1>4 DEF Close, Panics, TypeOK
    <2>2. Fresh => Fresh'
      BY <1>1, <2>1 DEF Close, Fresh
    <2>3. Doomed => Doomed'
      BY <1>1, <2>1 DEF Close, Doomed
    <2> QED
      BY <1>1, <2>1, <2>2, <2>3 DEF PubInv, PanicNeedsRepeat
  <1> QED
    BY <1>2, <1>3, <1>4

(* Steps of the library that leave Start and the connection alone.         *)
LEMMA PubElsewhere ==
    ASSUME PubInv, setups' = setups, starts' = starts, started' = started, pc' = pc,
           opt' = opt, registry' = registry, attached' = attached, channels' = channels,
           conn' = conn \/ conn' = "lost"
    PROVE  PubInv'
  <1> USE SamePlain, SameSetups DEF configVars, startVars, loopVars, noticeVars, appVars
  <1>1. Fresh => Fresh'
    BY DEF Fresh
  <1>2. Doomed => Doomed'
    BY DEF Doomed
  <1> QED
    BY <1>1, <1>2 DEF PubInv, PanicNeedsRepeat

(* Every step keeps what is said of Publishers.                            *)
LEMMA PubStep ==
    ASSUME TypeOK, StageInv, PubInv, [Next]_vars
    PROVE  PubInv'
  <1> USE DEF configVars, startVars, loopVars, noticeVars, appVars
  <1>1. CASE StartStep
    BY <1>1, PubDial, PubDialFails, PubOpenResponse, PubOpenSetup, PubOpenFails,
       PubSetListener, PubSetPrefetch, PubSetupPublisher, PubPublisherFails, PubCustom,
       PubCustomFails, PubSetupConsumer, PubConsumerFails, PubCloseSetup,
       PubCloseSetupFails, PubRegister, PubStartConsumer, PubStartConsumersFails,
       PubStarted DEF StartStep
  <1>2. CASE Lose \/ Forward \/ UNCHANGED vars
    BY <1>2, PubElsewhere DEF Lose, Forward, vars
  <1>3. ASSUME NEW q \in Queues, LoopExits(q) \/ ChannelError(q)
        PROVE  PubInv'
    BY <1>3, PubElsewhere DEF LoopExits, ChannelError
  <1>4. CASE Hang \/ Refused \/ Stall
    <2>1. pc \notin {"idle", "panicked", "hung"} /\ pc' = "hung"
      BY <1>4 DEF Hang, Refused, Stall, Waiting, AtOption
    <2>2. starts >= 1 /\ started = FALSE
      BY <2>1 DEF PubInv, StageInv, TypeOK
    <2>3. starts' = starts /\ started' = started
      BY <1>4 DEF Hang, Refused, Stall
    <2> QED
      BY <2>1, <2>2, <2>3 DEF PubInv, PanicNeedsRepeat
  <1>5. CASE CloseHangs
    BY <1>5 DEF CloseHangs, PubInv, PanicNeedsRepeat
  <1> QED
    BY <1>1, <1>2, <1>3, <1>4, <1>5, PubStart, PubStartAgain, PubClose DEF Next

(* Close panics only if a Publisher was passed to two Setup functions, or  *)
(* if Start was called again after an error of the application's own: any  *)
(* other error of Start comes again.                                       *)
THEOREM ClosePanics == Spec => []PanicNeedsRepeat
  <1>1. Init => TypeOK /\ StageInv /\ PubInv
    BY TypeInit, PubInit
  <1>2. TypeOK /\ StageInv /\ PubInv /\ [Next]_vars => (TypeOK /\ StageInv /\ PubInv)'
    BY TypeStep, PubStep
  <1>3. PubInv => PanicNeedsRepeat
    BY DEF PubInv
  <1> QED
    BY <1>1, <1>2, <1>3, PTL DEF Spec

=============================================================================
