----------------------------- MODULE Connection -----------------------------
(***************************************************************************)
(* The life of a Connection (connection.go): Start, step by step, with the *)
(* Setup functions it is given, startConsumers and Close, while the AMQP   *)
(* connection may be lost at any point between or during its calls.        *)
(*                                                                         *)
(* One application goroutine calls Start and Close; it may call Start      *)
(* again, with the same Setup functions, after an error.                   *)
(*                                                                         *)
(* amqpConn is made when the broker is dialled and keeps the prefetch      *)
(* limit and the close listener of that moment; the Setup functions that   *)
(* set them run later. amqpConn.channel registers an unbuffered NotifyClose*)
(* channel and reads it only if amqpConn has a listener. The library       *)
(* reports errors on such channels synchronously, from the goroutine that  *)
(* reads the connection: an error nobody reads leaves every call that      *)
(* waits for the broker, in Start or Close, waiting for ever.              *)
(***************************************************************************)
EXTENDS Integers, Sequences, FiniteSets

CONSTANTS
    Services,         \* services, each the sequence of Setup functions it
                      \* passes to Start
    Queues,           \* queues of the consumers among them
    Overlaps,         \* pairs of routing keys that overlap
    DefaultPrefetch,  \* newConnection's prefetchLimit
    ChannelMax,       \* channels the broker allows on a connection
    MaxStarts         \* bound: calls of Start

(* A Setup function is a record; op is "listener" (CloseListener),         *)
(* "prefetch" (WithPrefetchLimit), "publisher", "consumer" or "custom", a  *)
(* function of the application's own. The options of a consumer may be     *)
(* invalid, as AddQueueNameSuffix("") is.                                  *)
Of(s, op) == {i \in DOMAIN s : s[i].op = op}
Pubs == UNION {{s[i].pub : i \in Of(s, "publisher")} : s \in Services}
Keys == UNION {{s[i].key : i \in Of(s, "consumer")} : s \in Services}

ASSUME SetupsAssumption ==
    \A s \in Services :
        /\ Len(s) \in Nat /\ DOMAIN s = 1..Len(s)
        /\ \A i \in Of(s, "consumer") : s[i].queue \in Queues /\ s[i].valid \in BOOLEAN
        /\ \A i \in Of(s, "prefetch") : s[i].limit \in Nat
ASSUME KeysAssumption ==
    /\ \A k \in Keys : <<k, k>> \in Overlaps
    /\ DefaultPrefetch \in Nat /\ ChannelMax \in Nat /\ MaxStarts \in Nat

VARIABLES
    setups,      \* the Setup functions of this service
    started,     \* c.started
    listener,    \* c.closeListener # nil
    prefetch,    \* c.prefetchLimit
    registry,    \* c.queueConsumers: the routing keys handled, by queue
    conn,        \* c.connection: "none", "open", "lost", "closed", or
                 \* "abandoned": closed by the application after it was lost
    captured,    \* the fields of amqpConn, taken when it was dialled
    attached,    \* channels that hold the confirmCh of each Publisher
    channels,    \* AMQP channels open on the connection
    pc,          \* where Start is; "idle" outside it, "hung" for ever in it
                 \* or in Close, "panicked" once the process is dead
    opt,         \* the Setup function Start is at
    todo,        \* queues startConsumers has still to start
    qos,         \* prefetch of the consumer channel of each queue
    loops,       \* consumer loops running on each queue
    forwarding,  \* connection-level NotifyClose is registered
    pending,     \* an error is on its way to the close listener
    told,        \* what the close listener has been told
    chanError,   \* the broker has closed a channel with an error
    result,      \* what the last call of Start returned
    closeCalled, \* Close has been called since Start last was
    starts       \* calls of Start so far

configVars == <<listener, prefetch, registry, attached>>
startVars == <<pc, opt, todo>>
loopVars == <<qos, loops>>
noticeVars == <<forwarding, pending, told, chanError>>
appVars == <<started, result, closeCalled, starts>>
vars == <<setups, configVars, conn, captured, channels, startVars, loopVars, noticeVars, appVars>>

Is(op) == Of(setups, op)

Init ==
    /\ setups \in Services
    /\ started = FALSE
    /\ listener = FALSE
    /\ prefetch = DefaultPrefetch
    /\ registry = [q \in Queues |-> {}]
    /\ conn = "none"
    /\ captured = [prefetch |-> 0, listener |-> FALSE]
    /\ attached = [p \in Pubs |-> 0]
    /\ channels = 0
    /\ pc = "idle"
    /\ opt = 1
    /\ todo = {}
    /\ qos = [q \in Queues |-> 0]
    /\ loops = [q \in Queues |-> 0]
    /\ forwarding = FALSE
    /\ pending = FALSE
    /\ told = {}
    /\ chanError = FALSE
    /\ result = "none"
    /\ closeCalled = FALSE
    /\ starts = 0

-----------------------------------------------------------------------------
(* Start up to the Setup functions.                                        *)

StartAgain ==
    /\ pc = "idle"
    /\ starts < MaxStarts
    /\ started
    /\ starts' = starts + 1
    /\ closeCalled' = FALSE
    /\ result' = "already"
    /\ UNCHANGED <<setups, configVars, conn, captured, channels, startVars, loopVars, noticeVars, started>>

(* Only a Connection without a connection dials: not one that was lost or  *)
(* closed.                                                                 *)
Start ==
    /\ pc = "idle"
    /\ starts < MaxStarts
    /\ ~started
    /\ starts' = starts + 1
    /\ closeCalled' = FALSE
    /\ result' = "none"
    /\ pc' = IF conn = "none" THEN "dial" ELSE "response"
    /\ UNCHANGED <<setups, configVars, conn, captured, channels, opt, todo, loopVars, noticeVars, started>>

(* Start returns an error; nothing it has done so far is undone.           *)
Fail ==
    /\ pc' = "idle"
    /\ result' = "error"
    /\ UNCHANGED <<setups, opt, todo, conn, captured, loopVars, noticeVars, started, closeCalled, starts>>

Dial ==
    /\ pc = "dial"
    /\ conn' = "open"
    /\ captured' = [prefetch |-> prefetch, listener |-> listener]
    /\ pc' = "response"
    /\ UNCHANGED <<setups, configVars, channels, opt, todo, loopVars, noticeVars, appVars>>

DialFails ==
    /\ pc = "dial"
    /\ Fail
    /\ UNCHANGED <<setups, configVars, channels>>

(* The error of a channel waits in an errChannel that nobody reads, and    *)
(* the goroutine that reads the connection with it.                        *)
Stuck == chanError /\ ~captured.listener

(* amqpConn.channel, when it can open one and when it returns an error.    *)
CanOpen == conn = "open" /\ channels < ChannelMax /\ ~Stuck
CannotOpen == conn # "open" \/ channels = ChannelMax

OpenResponse ==
    /\ pc = "response"
    /\ CanOpen
    /\ channels' = channels + 1
    /\ pc' = "setup"
    /\ UNCHANGED <<setups, configVars, conn, captured, opt, todo, loopVars, noticeVars, appVars>>

OpenSetup ==
    /\ pc = "setup"
    /\ CanOpen
    /\ channels' = channels + 1
    /\ pc' = "options"
    /\ opt' = 1
    /\ UNCHANGED <<setups, configVars, conn, captured, todo, loopVars, noticeVars, appVars>>

(* Mutant: the response channel is closed even if it was never opened.     *)
OpenFailsAlwaysCloses ==
    /\ pc \in {"response", "setup"}
    /\ CannotOpen
    /\ channels' = channels - 1
    /\ Fail
    /\ UNCHANGED <<setups, configVars>>

(* No channel: the response channel, if it was opened, is closed again.    *)
OpenFails ==
    /\ pc \in {"response", "setup"}
    /\ CannotOpen
    /\ channels' = IF pc = "setup" THEN channels - 1 ELSE channels
    /\ Fail
    /\ UNCHANGED <<setups, configVars>>

-----------------------------------------------------------------------------
(* The Setup functions, in order.                                          *)

AtOption(op) == pc = "options" /\ opt \in Is(op)

SetListener ==
    /\ AtOption("listener")
    /\ listener' = TRUE
    /\ opt' = opt + 1
    /\ UNCHANGED <<setups, prefetch, registry, attached, conn, captured, channels, pc, todo, loopVars, noticeVars, appVars>>

SetPrefetch ==
    /\ AtOption("prefetch")
    /\ prefetch' = setups[opt].limit
    /\ opt' = opt + 1
    /\ UNCHANGED <<setups, listener, registry, attached, conn, captured, channels, pc, todo, loopVars, noticeVars, appVars>>

(* Mutant: the confirms are asked for twice.                               *)
SetupPublisherTwice ==
    /\ AtOption("publisher")
    /\ CanOpen
    /\ channels' = channels + 1
    /\ attached' = [attached EXCEPT ![setups[opt].pub] = @ + 2]
    /\ opt' = opt + 1
    /\ UNCHANGED <<setups, listener, prefetch, registry, conn, captured, pc, todo, loopVars, noticeVars, appVars>>

(* A publisher declares its exchange and opens a channel of its own, which *)
(* gets its confirmCh: the one of an earlier setup, if there was one.      *)
SetupPublisher ==
    /\ AtOption("publisher")
    /\ CanOpen
    /\ channels' = channels + 1
    /\ attached' = [attached EXCEPT ![setups[opt].pub] = @ + 1]
    /\ opt' = opt + 1
    /\ UNCHANGED <<setups, listener, prefetch, registry, conn, captured, pc, todo, loopVars, noticeVars, appVars>>

(* No exchange, or no channel.                                             *)
PublisherFails ==
    /\ AtOption("publisher")
    /\ CannotOpen
    /\ conn = "open" => ~Stuck
    /\ Fail
    /\ UNCHANGED <<setups, configVars, channels>>

Custom ==
    /\ AtOption("custom")
    /\ opt' = opt + 1
    /\ UNCHANGED <<setups, configVars, conn, captured, channels, pc, todo, loopVars, noticeVars, appVars>>

CustomFails ==
    /\ AtOption("custom")
    /\ Fail
    /\ UNCHANGED <<setups, configVars, channels>>

(* queueConsumers.add refuses a routing key that overlaps one of the queue.*)
Taken(q, k) == \E j \in registry[q] : <<k, j>> \in Overlaps

(* Mutant: the errors of consumer options are dropped.                     *)
RejectedIfTaken == Taken(setups[opt].queue, setups[opt].key)

(* newConsumerConfig fails on an invalid option, before anything is added. *)
Rejected == ~setups[opt].valid \/ Taken(setups[opt].queue, setups[opt].key)

Registered == [registry EXCEPT ![setups[opt].queue] = @ \cup {setups[opt].key}]

(* Mutant: the loop of a queue starts as soon as the queue is bound.       *)
SetupConsumerStartsLoop ==
    /\ AtOption("consumer")
    /\ ~Rejected
    /\ conn = "open" /\ ~Stuck
    /\ registry' = Registered
    /\ loops' = [loops EXCEPT ![setups[opt].queue] = 1]
    /\ opt' = opt + 1
    /\ UNCHANGED <<setups, listener, prefetch, attached, conn, captured, channels, pc, todo, qos, noticeVars, appVars>>

(* messageHandlerBindQueueToExchange: the handler is registered first, and *)
(* stays registered if declaring or binding the queue then fails.          *)
SetupConsumer ==
    /\ AtOption("consumer")
    /\ ~Rejected
    /\ conn = "open" /\ ~Stuck
    /\ registry' = Registered
    /\ opt' = opt + 1
    /\ UNCHANGED <<setups, listener, prefetch, attached, conn, captured, channels, pc, todo, loopVars, noticeVars, appVars>>

(* (ServiceRequestConsumer declares an exchange before it registers.)      *)
ConsumerFails ==
    /\ AtOption("consumer")
    /\ \/ /\ Rejected
          /\ UNCHANGED registry
       \/ /\ ~Rejected
          /\ conn # "open"
          /\ registry' \in {registry, Registered}
    /\ Fail
    /\ UNCHANGED <<setups, listener, prefetch, attached, channels>>

-----------------------------------------------------------------------------
(* Start after the Setup functions.                                        *)

CloseSetup ==
    /\ pc = "options"
    /\ opt = Len(setups) + 1
    /\ conn = "open" /\ ~Stuck
    /\ channels' = channels - 1
    /\ pc' = "register"
    /\ UNCHANGED <<setups, configVars, conn, captured, opt, todo, loopVars, noticeVars, appVars>>

CloseSetupFails ==
    /\ pc = "options"
    /\ opt = Len(setups) + 1
    /\ conn # "open"
    /\ Fail
    /\ UNCHANGED <<setups, configVars, channels>>

(* Mutant: only a listener amqpConn knows of gets connection errors.       *)
RegisterCaptured ==
    /\ pc = "register"
    /\ forwarding' = (forwarding \/ (captured.listener /\ conn = "open"))
    /\ pc' = "consume"
    /\ todo' = {q \in Queues : registry[q] # {}}
    /\ UNCHANGED <<setups, configVars, conn, captured, channels, opt, loopVars, pending, told, chanError, appVars>>

(* NotifyClose on the connection. On one that is already gone the library  *)
(* just closes the channel: the forwarding goroutine ends in silence.      *)
Register ==
    /\ pc = "register"
    /\ forwarding' = (forwarding \/ (listener /\ conn = "open"))
    /\ pc' = "consume"
    /\ todo' = {q \in Queues : registry[q] # {}}
    /\ UNCHANGED <<setups, configVars, conn, captured, channels, opt, loopVars, pending, told, chanError, appVars>>

(* Mutant: one loop for each handler of the queue.                         *)
StartConsumerPerKey(q) ==
    /\ pc = "consume"
    /\ q \in todo
    /\ CanOpen
    /\ channels' = channels + 1
    /\ qos' = [qos EXCEPT ![q] = captured.prefetch]
    /\ loops' = [loops EXCEPT ![q] = @ + Cardinality(registry[q])]
    /\ todo' = todo \ {q}
    /\ UNCHANGED <<setups, configVars, conn, captured, pc, opt, noticeVars, appVars>>

(* startConsumers, one queue at a time in the order of a map.              *)
StartConsumer(q) ==
    /\ pc = "consume"
    /\ q \in todo
    /\ CanOpen
    /\ channels' = channels + 1
    /\ qos' = [qos EXCEPT ![q] = captured.prefetch]
    /\ loops' = [loops EXCEPT ![q] = @ + 1]
    /\ todo' = todo \ {q}
    /\ UNCHANGED <<setups, configVars, conn, captured, pc, opt, noticeVars, appVars>>

(* Mutant: a queue that cannot be consumed is logged and left out.         *)
StartConsumersSkips ==
    /\ pc = "consume"
    /\ todo # {}
    /\ CannotOpen
    /\ todo' = {}
    /\ UNCHANGED <<setups, configVars, conn, captured, channels, pc, opt, loopVars, noticeVars, appVars>>

(* Mutant: Start waits for a channel to become free.                       *)
StartConsumersWaits ==
    /\ pc = "consume"
    /\ todo # {}
    /\ CannotOpen
    /\ UNCHANGED vars

StartConsumersFails ==
    /\ pc = "consume"
    /\ todo # {}
    /\ CannotOpen
    /\ Fail
    /\ UNCHANGED <<setups, configVars, channels>>

Started ==
    /\ pc = "consume"
    /\ todo = {}
    /\ started' = TRUE
    /\ result' = "nil"
    /\ pc' = "idle"
    /\ UNCHANGED <<setups, configVars, conn, captured, channels, opt, todo, loopVars, noticeVars, closeCalled, starts>>

(* Close does nothing unless Start has succeeded. Closing the connection   *)
(* closes the confirmCh of each publisher, once for every channel that has *)
(* it; the second time panics. (Channels of a connection that was lost are *)
(* not closed: the library is stuck at the first of them.)                 *)
Panics == started /\ conn = "open" /\ \E p \in Pubs : attached[p] > 1

Close ==
    /\ pc = "idle"
    /\ ~closeCalled
    /\ started /\ conn = "open" => ~Stuck
    /\ closeCalled' = TRUE
    /\ started' = FALSE
    /\ conn' = IF ~started THEN conn
               ELSE IF conn = "open" THEN "closed" ELSE "abandoned"
    /\ pc' = IF Panics THEN "panicked" ELSE pc
    /\ UNCHANGED <<setups, configVars, captured, channels, opt, todo, loopVars, noticeVars, result, starts>>

(* Close waits for the broker to agree that a consumer channel, or in the  *)
(* end the connection, is closed: for ever if the answer is not read or    *)
(* the connection is lost meanwhile. And on a connection lost before, the  *)
(* library may hold the lock that closing a consumer channel takes.        *)
CloseHangs ==
    /\ pc = "idle"
    /\ ~closeCalled
    /\ started
    /\ ~captured.listener
    /\ \/ conn = "open" /\ Stuck /\ UNCHANGED <<conn, pending>>
       \/ conn = "open" /\ conn' = "lost" /\ pending' \in {forwarding, FALSE}
       \/ /\ conn = "lost" /\ \E q \in Queues : loops[q] > 0
          /\ UNCHANGED <<conn, pending>>
    /\ closeCalled' = TRUE
    /\ started' = FALSE
    /\ pc' = "hung"
    /\ UNCHANGED <<setups, configVars, captured, channels, opt, todo, loopVars, forwarding, told, chanError, result, starts>>

-----------------------------------------------------------------------------
(* The AMQP library and the broker.                                        *)

(* Deliveries end on a connection the application closed. If it was lost   *)
(* before, or Close hangs, they do on some channels.                       *)
Ended == conn \in {"closed", "abandoned"} \/ (pc = "hung" /\ closeCalled)

(* Mutant: a loop that does not notice that its deliveries have ended.     *)
LoopExitsLate(q) ==
    /\ Ended /\ conn # "closed"
    /\ loops[q] > 0
    /\ loops' = [loops EXCEPT ![q] = 0]
    /\ UNCHANGED <<setups, configVars, conn, captured, channels, startVars, qos, noticeVars, appVars>>

(* The loop that ranges over them ends.                                    *)
LoopExits(q) ==
    /\ Ended
    /\ loops[q] > 0
    /\ loops' = [loops EXCEPT ![q] = 0]
    /\ UNCHANGED <<setups, configVars, conn, captured, channels, startVars, qos, noticeVars, appVars>>

(* The connection is lost while Start is not waiting for an answer.        *)
Lose ==
    /\ conn = "open"
    /\ conn' = "lost"
    /\ pending' = forwarding
    /\ UNCHANGED <<setups, configVars, captured, channels, startVars, loopVars, forwarding, told, chanError, appVars>>

(* The goroutine of Start passes the error on to the close listener.       *)
Forward ==
    /\ pending
    /\ pending' = FALSE
    /\ told' = told \cup {"connection"}
    /\ UNCHANGED <<setups, configVars, conn, captured, channels, startVars, loopVars, forwarding, chanError, appVars>>

(* Start waits for an answer of the broker.                                *)
Waiting ==
    \/ pc = "response" /\ channels > 0
    \/ pc = "setup"
    \/ AtOption("publisher")
    \/ AtOption("consumer")
    \/ pc = "options" /\ opt = Len(setups) + 1
    \/ pc = "consume" /\ todo # {}

(* The connection is lost meanwhile. The error does not get to the call:   *)
(* it is stuck in the errChannel of some channel, the response channel's   *)
(* for one, that has no reader.                                            *)
Hang ==
    /\ Waiting
    /\ conn = "open"
    /\ ~captured.listener
    /\ conn' = "lost"
    /\ pending' \in {forwarding, FALSE}
    /\ pc' = "hung"
    /\ UNCHANGED <<setups, configVars, captured, channels, opt, todo, loopVars, forwarding, told, chanError, appVars>>

(* The broker refuses what Start asks for, a queue that exists with other  *)
(* arguments for one, and closes the channel with the error: the           *)
(* connection stays open, and Start never gets to return the error.        *)
Refused ==
    /\ AtOption("publisher") \/ (AtOption("consumer") /\ ~Rejected) \/ (pc = "consume" /\ todo # {})
    /\ conn = "open"
    /\ ~captured.listener
    /\ chanError' = TRUE
    /\ pc' = "hung"
    /\ UNCHANGED <<setups, configVars, conn, captured, channels, opt, todo, loopVars, forwarding, pending, told, appVars>>

(* Start calls the broker when nobody reads its answers any more, or when  *)
(* the connection is lost and the library, stuck in its shutdown, holds    *)
(* the lock on it, which NotifyClose takes too.                            *)
Stall ==
    /\ \/ Waiting /\ conn = "open" /\ Stuck /\ (CannotOpen => pc = "options")
       \/ (Waiting \/ (pc = "register" /\ listener)) /\ conn = "lost" /\ channels > 0
    /\ ~captured.listener
    /\ pc' = "hung"
    /\ UNCHANGED <<setups, configVars, conn, captured, channels, opt, todo, loopVars, noticeVars, appVars>>

(* The broker closes a consumer channel with an error, which reaches the   *)
(* close listener if amqpConn has one, and otherwise gets stuck.           *)
ChannelError(q) ==
    /\ conn = "open"
    /\ loops[q] > 0
    /\ ~chanError
    /\ chanError' = TRUE
    /\ told' = IF captured.listener THEN told \cup {"channel"} ELSE told
    /\ UNCHANGED <<setups, configVars, conn, captured, channels, startVars, loopVars, forwarding, pending, appVars>>

-----------------------------------------------------------------------------
StartStep ==
    \/ Dial \/ DialFails
    \/ OpenResponse \/ OpenSetup \/ OpenFails
    \/ SetListener \/ SetPrefetch \/ SetupPublisher \/ PublisherFails
    \/ Custom \/ CustomFails
    \/ SetupConsumer \/ ConsumerFails
    \/ CloseSetup \/ CloseSetupFails \/ Register
    \/ (\E q \in Queues : StartConsumer(q)) \/ StartConsumersFails \/ Started

Next ==
    \/ Start \/ StartAgain \/ Close \/ CloseHangs
    \/ StartStep
    \/ Lose \/ Forward \/ Hang \/ Refused \/ Stall
    \/ \E q \in Queues : LoopExits(q) \/ ChannelError(q)

Spec == Init /\ [][Next]_vars

(* Start's goroutine runs, and so do the library's and the forwarder.      *)
FairSpec ==
    /\ Spec
    /\ WF_vars(StartStep)
    /\ WF_vars(Forward)
    /\ \A q \in Queues : WF_vars(LoopExits(q) /\ conn = "closed")

-----------------------------------------------------------------------------
TypeOK ==
    /\ setups \in Services
    /\ started \in BOOLEAN /\ listener \in BOOLEAN /\ closeCalled \in BOOLEAN
    /\ prefetch \in Nat
    /\ registry \in [Queues -> SUBSET Keys]
    /\ conn \in {"none", "open", "lost", "closed", "abandoned"}
    /\ captured \in [prefetch : Nat, listener : BOOLEAN]
    /\ attached \in [Pubs -> Nat]
    /\ channels \in 0..ChannelMax
    /\ pc \in {"idle", "dial", "response", "setup", "options", "register", "consume", "hung", "panicked"}
    /\ opt \in 1..(Len(setups) + 1)
    /\ todo \subseteq Queues
    /\ qos \in [Queues -> Nat]
    /\ loops \in [Queues -> Nat]
    /\ forwarding \in BOOLEAN /\ pending \in BOOLEAN /\ chanError \in BOOLEAN
    /\ told \subseteq {"connection", "channel"}
    /\ result \in {"none", "nil", "error", "already"}
    /\ starts \in 0..MaxStarts

(* However often Start fails and is called again, a queue never has two    *)
(* loops: two would share its messages and break their order.              *)
OneLoopPerQueue == \A q \in Queues : loops[q] <= 1

(* A started connection consumes every queue it has a handler for.         *)
StartedConsumesAll ==
    started => \A q \in Queues : registry[q] # {} => loops[q] = 1

(* Deliveries start only when every handler of the queue is registered: a  *)
(* message that arrived sooner would be rejected, and lost, for want of    *)
(* its handler.                                                            *)
HandlersBeforeDeliveries ==
    \A i \in Is("consumer") :
        loops[setups[i].queue] > 0 => setups[i].key \in registry[setups[i].queue]

(* A service with an invalid consumer, or with one whose routing key       *)
(* overlaps that of an earlier one on its queue, never consumes from any   *)
(* queue, however often Start is called.                                   *)
BrokenServiceNeverConsumes ==
    \/ \A i \in Is("consumer") :
          /\ setups[i].valid
          /\ \A j \in Is("consumer") :
                j < i /\ setups[j].queue = setups[i].queue
                    => <<setups[i].key, setups[j].key>> \notin Overlaps
    \/ \A q \in Queues : loops[q] = 0

(* Close panics only if a Publisher was set up twice on one connection: it *)
(* was passed to two Setup functions, or Start succeeded when it was       *)
(* called again, which it does only after an error of a function that the  *)
(* application wrote: the errors of the package's own come again.          *)
PanicNeedsRepeat ==
    pc = "panicked" =>
        \/ starts > 1 /\ Is("custom") # {}
        \/ \E i, j \in Is("publisher") : i # j /\ setups[i].pub = setups[j].pub

(* docs/connection.md: Close "stops all consumers": after Close has been   *)
(* called on a started connection every loop ends; but not if the          *)
(* connection was lost before or is lost meanwhile, nor if the broker had  *)
(* closed a channel with an error: then Close itself may not return, and   *)
(* the connection stays open.                                              *)
ClosedConnectionStops ==
    closeCalled /\ result \in {"nil", "already"}
        ~> (\A q \in Queues : loops[q] = 0) \/ conn \in {"lost", "abandoned"} \/ chanError

(* Start returns, whatever else fails, unless the connection is lost or    *)
(* the broker closes a channel with an error, as it does when it refuses a *)
(* declaration: then Start may wait for ever, whatever its context says.   *)
StartReturns ==
    pc \notin {"idle", "panicked"} ~> pc = "idle" \/ conn = "lost" \/ chanError

(* The loss of the connection of a started service reaches its listener.   *)
(* A service without consumers is not so safe: a loss before NotifyClose   *)
(* is noticed by nobody.                                                   *)
LossIsNoticed ==
    conn = "lost" /\ started /\ listener /\ Is("consumer") # {}
        ~> "connection" \in told \/ ~started

(* docs/connection.md: prefetch "Controls how many unacknowledged messages *)
(* each consumer channel can hold"; setup.go: CloseListener "receives      *)
(* close errors from both AMQP channels and the underlying connection":    *)
(* the channels of a started connection have been opened with the options  *)
(* of the service.                                                         *)
OptionsTakeEffect ==
    started => /\ \A q \in Queues : loops[q] > 0 => qos[q] = prefetch
               /\ captured.listener = listener
=============================================================================
