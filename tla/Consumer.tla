------------------------------ MODULE Consumer ------------------------------
(***************************************************************************)
(* One queue and the replicas of a service that consume from it            *)
(* (consumer.go): the broker's side of the queue, the deliveries buffered  *)
(* in each process, the consumer loop, its handler and the Ack, Nack or    *)
(* Reject that ends each delivery.                                         *)
(*                                                                         *)
(* Messages are numbered by their place in the queue. A message the broker *)
(* takes back goes to its original place, until it has been taken back     *)
(* more often than the broker's delivery limit allows: the queues are      *)
(* quorum queues, declared without a limit of their own, and RabbitMQ 4    *)
(* then has one of 20. The library never reconnects: a process that lost   *)
(* its link keeps the deliveries it has, and the rest of its life is spent *)
(* handling those.                                                         *)
(***************************************************************************)
EXTENDS Integers, Sequences, FiniteSets

CONSTANTS
    Replicas,      \* processes consuming from the queue
    Nobody,        \* no replica
    NumMsgs,       \* messages 1..NumMsgs are published to the queue
    Unrouted,      \* messages whose routing key no handler matches
    Unparsable,    \* messages whose body does not unmarshal (ErrParseJSON)
    Untyped,       \* ... whose key the TypeMapper does not know
    Prefetch,      \* Qos of the consumer channels
    SingleActive,  \* x-single-active-consumer
    NotifyCap,     \* capacity of the notification and error channels
    DeliveryLimit, \* times the broker takes a message back before it drops it
    MaxLosses      \* bound: times a live link is lost, closed or crashes

Msgs == 1..NumMsgs

ASSUME MsgsAssumption ==
    /\ NumMsgs \in Nat
    /\ Unrouted \subseteq Msgs /\ Unparsable \subseteq Msgs /\ Untyped \subseteq Msgs
ASSUME ReplicasAssumption == Nobody \notin Replicas
ASSUME LimitsAssumption ==
    /\ Prefetch \in Nat \ {0} /\ NotifyCap \in Nat /\ DeliveryLimit \in Nat
    /\ MaxLosses \in Nat
    /\ SingleActive \in BOOLEAN

VARIABLES
    owner,    \* the replica that holds a message unacked, or Nobody
    gone,     \* how a message has left the queue, or "no"
    returns,  \* times the broker has taken a message back
    active,   \* the replica the broker has activated
    link,     \* each replica's channel: "down", "up", "dead", "closed"
    buffer,   \* the deliveries channel of its loop
    pc,       \* where its loop is
    cur,      \* the delivery being handled; 0 = none
    outcome,  \* what the handler returned for it
    notes,    \* notifications waiting in the application's channels
    open,     \* amqp_events_received minus the counters of ended deliveries
    ackExtra, \* amqp_events_ack minus the acks the broker has seen
    success,  \* how often the handler succeeded, for each message
    failed,   \* how often it failed with an error of its own
    losses    \* links lost so far

brokerVars == <<owner, gone, returns, active>>
loopVars == <<buffer, pc, cur, outcome>>
countVars == <<notes, open, ackExtra, success, failed>>
vars == <<brokerVars, link, loopVars, countVars, losses>>

Permanent == Unrouted \cup Unparsable \cup Untyped
Results == {"nil", "error", "unparsable", "untyped", "unrouted"}

(* Mutant: x-single-active-consumer is not among the queue's arguments.    *)
ExclusiveNever == FALSE

(* The queue is declared with x-single-active-consumer, the default, and   *)
(* not with DisableSingleActiveConsumer().                                 *)
Exclusive == SingleActive

Ready == {m \in Msgs : gone[m] = "no" /\ owner[m] = Nobody}
Unacked(r) == {m \in Msgs : owner[m] = r}

(* What can become of a message: newWrappedHandler and TypeMappingHandler  *)
(* fail for good on a body or a key they cannot map; the application's     *)
(* handler returns nil or an error of its own.                             *)
HandlerResults(m) ==
    IF m \in Unparsable THEN {"unparsable"}
    ELSE IF m \in Untyped THEN {"untyped"}
    ELSE {"nil", "error"}

Init ==
    /\ owner = [m \in Msgs |-> Nobody]
    /\ gone = [m \in Msgs |-> "no"]
    /\ returns = [m \in Msgs |-> 0]
    /\ active = Nobody
    /\ link = [r \in Replicas |-> "down"]
    /\ buffer = [r \in Replicas |-> <<>>]
    /\ pc = [r \in Replicas |-> "range"]
    /\ cur = [r \in Replicas |-> 0]
    /\ outcome = [r \in Replicas |-> "nil"]
    /\ notes = [r \in Replicas |-> [ok |-> 0, failed |-> 0]]
    /\ open = [r \in Replicas |-> 0]
    /\ ackExtra = 0
    /\ success = [m \in Msgs |-> 0]
    /\ failed = [m \in Msgs |-> 0]
    /\ losses = 0

-----------------------------------------------------------------------------
(* The broker.                                                             *)

(* consume: a started process registers its consumer on a fresh channel.   *)
Join(r) ==
    /\ link[r] = "down"
    /\ link' = [link EXCEPT ![r] = "up"]
    /\ UNCHANGED <<brokerVars, loopVars, countVars, losses>>

Activate(r) ==
    /\ Exclusive
    /\ active = Nobody
    /\ link[r] = "up"
    /\ active' = r
    /\ UNCHANGED <<owner, gone, returns, link, loopVars, countVars, losses>>

(* The first message of the queue goes to a replica below its prefetch.    *)
Deliver(r, m) ==
    /\ link[r] = "up"
    /\ Exclusive => active = r
    /\ m \in Ready
    /\ \A n \in Ready : m <= n
    /\ Cardinality(Unacked(r)) < Prefetch
    /\ owner' = [owner EXCEPT ![m] = r]
    /\ buffer' = [buffer EXCEPT ![r] = Append(@, m)]
    /\ UNCHANGED <<gone, returns, active, link, pc, cur, outcome, countVars, losses>>

(* What becomes of a message the broker takes back.                        *)
Returned(m) == IF returns[m] < DeliveryLimit THEN "no" ELSE "dropped"

(* The broker drops a replica's channel and takes back all it had unacked. *)
Drop(r) ==
    /\ losses < MaxLosses
    /\ losses' = losses + 1
    /\ owner' = [m \in Msgs |-> IF owner[m] = r THEN Nobody ELSE owner[m]]
    /\ gone' = [m \in Msgs |-> IF owner[m] = r THEN Returned(m) ELSE gone[m]]
    /\ returns' = [m \in Msgs |-> IF owner[m] = r THEN returns[m] + 1 ELSE returns[m]]
    /\ active' = IF active = r THEN Nobody ELSE active

(* x-expires: the broker deletes a queue that nobody consumes from, after  *)
(* five days or, if it is transient, a second, with the messages in it.    *)
Expire ==
    /\ \A r \in Replicas : link[r] # "up"
    /\ \E m \in Msgs : gone[m] = "no"
    /\ gone' = [m \in Msgs |-> IF gone[m] = "no" THEN "expired" ELSE gone[m]]
    /\ UNCHANGED <<owner, returns, active, link, loopVars, countVars, losses>>

(* The link fails. The library gets stuck reporting the error to the       *)
(* channel's unread NotifyClose listener: the deliveries channel stays     *)
(* open, with what it holds.                                               *)
Lose(r) ==
    /\ link[r] = "up"
    /\ Drop(r)
    /\ link' = [link EXCEPT ![r] = "dead"]
    /\ UNCHANGED <<loopVars, countVars>>

(* Connection.Close: the library closes the deliveries channel and drops   *)
(* what it holds.                                                          *)
Leave(r) ==
    /\ link[r] = "up"
    /\ Drop(r)
    /\ link' = [link EXCEPT ![r] = "closed"]
    /\ buffer' = [buffer EXCEPT ![r] = <<>>]
    /\ UNCHANGED <<pc, cur, outcome, countVars>>

(* Everything a process holds in memory is lost with it.                   *)
Forget(r) ==
    /\ link' = [link EXCEPT ![r] = "down"]
    /\ buffer' = [buffer EXCEPT ![r] = <<>>]
    /\ pc' = [pc EXCEPT ![r] = "range"]
    /\ cur' = [cur EXCEPT ![r] = 0]
    /\ outcome' = [outcome EXCEPT ![r] = "nil"]
    /\ notes' = [notes EXCEPT ![r] = [ok |-> 0, failed |-> 0]]
    /\ open' = [open EXCEPT ![r] = 0]
    /\ UNCHANGED <<ackExtra, success, failed>>

(* The process dies, at any point of its loop: a handler that panics takes *)
(* it down, for nothing in the loop recovers.                              *)
Crash(r) ==
    /\ link[r] = "up"
    /\ Drop(r)
    /\ Forget(r)

(* A process without a link ends, so that it can be started again: what    *)
(* CloseListener is for ("fail-fast behavior (e.g. os.Exit)").             *)
Restart(r) ==
    /\ link[r] \in {"dead", "closed"}
    /\ Forget(r)
    /\ UNCHANGED <<brokerVars, losses>>

-----------------------------------------------------------------------------
(* The loop.                                                               *)

(* for delivery := range deliveries, and eventReceived.                    *)
Take(r) ==
    /\ pc[r] = "range"
    /\ buffer[r] # <<>>
    /\ cur' = [cur EXCEPT ![r] = Head(buffer[r])]
    /\ buffer' = [buffer EXCEPT ![r] = Tail(@)]
    /\ pc' = [pc EXCEPT ![r] = "handling"]
    /\ open' = [open EXCEPT ![r] = @ + 1]
    /\ UNCHANGED <<brokerVars, link, outcome, notes, ackExtra, success, failed, losses>>

(* Mutant: the loop goes on to the next delivery without a Reject.         *)
NoHandlerContinues(r) ==
    /\ pc[r] = "handling"
    /\ cur[r] \in Unrouted
    /\ cur' = [cur EXCEPT ![r] = 0]
    /\ pc' = [pc EXCEPT ![r] = "range"]
    /\ open' = [open EXCEPT ![r] = @ - 1]
    /\ UNCHANGED <<brokerVars, link, buffer, outcome, notes, ackExtra, success, failed, losses>>

(* Mutant: the continue after the Reject is missing.                       *)
NoHandlerFallsThrough(r) ==
    /\ pc[r] = "handling"
    /\ cur[r] \in Unrouted
    /\ link[r] = "up"
    /\ owner' = [owner EXCEPT ![cur[r]] = Nobody]
    /\ gone' = [gone EXCEPT ![cur[r]] = "discarded"]
    /\ outcome' = [outcome EXCEPT ![r] = "error"]
    /\ pc' = [pc EXCEPT ![r] = "settling"]
    /\ open' = [open EXCEPT ![r] = @ - 1]
    /\ UNCHANGED <<returns, active, link, buffer, cur, notes, ackExtra, success, failed, losses>>

(* Mutant: eventWithoutHandler is not called.                              *)
NoHandlerUncounted(r) ==
    /\ pc[r] = "handling"
    /\ cur[r] \in Unrouted
    /\ outcome' = [outcome EXCEPT ![r] = "unrouted"]
    /\ pc' = [pc EXCEPT ![r] = "settling"]
    /\ UNCHANGED <<brokerVars, link, buffer, cur, countVars, losses>>

(* No handler for the key: eventWithoutHandler, then on to Reject(false).  *)
NoHandler(r) ==
    /\ pc[r] = "handling"
    /\ cur[r] \in Unrouted
    /\ outcome' = [outcome EXCEPT ![r] = "unrouted"]
    /\ pc' = [pc EXCEPT ![r] = "settling"]
    /\ open' = [open EXCEPT ![r] = @ - 1]
    /\ UNCHANGED <<brokerVars, link, buffer, cur, notes, ackExtra, success, failed, losses>>

(* Mutant: notifications queue up without bound.                           *)
NotifyAlways(n) == n + 1

(* A non-blocking send on a notification channel: dropped when it is full. *)
Notify(n) == IF n < NotifyCap THEN n + 1 ELSE n

(* The handler returns nil: notifyEventHandlerSucceed, then on to Ack.     *)
HandlerSucceeds(r) ==
    /\ pc[r] = "handling"
    /\ cur[r] \notin Unrouted
    /\ "nil" \in HandlerResults(cur[r])
    /\ outcome' = [outcome EXCEPT ![r] = "nil"]
    /\ pc' = [pc EXCEPT ![r] = "settling"]
    /\ notes' = [notes EXCEPT ![r].ok = Notify(@)]
    /\ success' = [success EXCEPT ![cur[r]] = @ + 1]
    /\ UNCHANGED <<brokerVars, link, buffer, cur, open, ackExtra, failed, losses>>

(* Mutant: after a failure the delivery is not settled.                    *)
HandlerFailsSilently(r, o) ==
    /\ pc[r] = "handling"
    /\ cur[r] \notin Unrouted
    /\ o \in HandlerResults(cur[r]) \ {"nil"}
    /\ cur' = [cur EXCEPT ![r] = 0]
    /\ pc' = [pc EXCEPT ![r] = "range"]
    /\ notes' = [notes EXCEPT ![r].failed = Notify(@)]
    /\ open' = [open EXCEPT ![r] = @ - 1]
    /\ UNCHANGED <<brokerVars, link, buffer, outcome, ackExtra, success, failed, losses>>

(* The handler fails: notifyEventHandlerFailed and, in rejectOrNack, the   *)
(* counter of the error before the Nack or Reject.                         *)
HandlerFails(r, o) ==
    /\ pc[r] = "handling"
    /\ cur[r] \notin Unrouted
    /\ o \in HandlerResults(cur[r]) \ {"nil"}
    /\ outcome' = [outcome EXCEPT ![r] = o]
    /\ pc' = [pc EXCEPT ![r] = "settling"]
    /\ notes' = [notes EXCEPT ![r].failed = Notify(@)]
    /\ open' = [open EXCEPT ![r] = @ - 1]
    /\ failed' = [failed EXCEPT ![cur[r]] = IF o = "error" THEN @ + 1 ELSE @]
    /\ UNCHANGED <<brokerVars, link, buffer, cur, ackExtra, success, losses>>

(* Mutants: failures are not requeued; all failures are; successes are.    *)
RequeueNever(o) == FALSE
RequeueFailures(o) == o # "nil"
RequeueSuccesses(o) == o \in {"nil", "error"}

(* rejectOrNack requeues what failed with an error of the handler's own.   *)
Requeue(o) == o = "error"

(* What the broker does with a settled delivery: Nack with requeue returns *)
(* it, Ack removes it, Reject and Nack without requeue discard it (to the  *)
(* dead letter exchange, if the queue has one).                            *)
Settlement(o, m) ==
    IF Requeue(o) THEN Returned(m)
    ELSE IF o = "nil" THEN "acked"
    ELSE "discarded"

(* Mutant: eventAck is called twice.                                       *)
SettleCountsTwice(r) ==
    /\ pc[r] = "settling"
    /\ link[r] = "up"
    /\ owner' = [owner EXCEPT ![cur[r]] = Nobody]
    /\ gone' = [gone EXCEPT ![cur[r]] = Settlement(outcome[r], cur[r])]
    /\ returns' = [returns EXCEPT ![cur[r]] = IF Requeue(outcome[r]) THEN @ + 1 ELSE @]
    /\ pc' = [pc EXCEPT ![r] = "range"]
    /\ cur' = [cur EXCEPT ![r] = 0]
    /\ open' = [open EXCEPT ![r] = IF outcome[r] = "nil" THEN @ - 2 ELSE @]
    /\ ackExtra' = IF outcome[r] = "nil" THEN ackExtra + 1 ELSE ackExtra
    /\ UNCHANGED <<active, link, buffer, outcome, notes, success, failed, losses>>

(* Ack, Nack or Reject on a live channel, and eventAck after an Ack.       *)
Settle(r) ==
    /\ pc[r] = "settling"
    /\ link[r] = "up"
    /\ owner' = [owner EXCEPT ![cur[r]] = Nobody]
    /\ gone' = [gone EXCEPT ![cur[r]] = Settlement(outcome[r], cur[r])]
    /\ returns' = [returns EXCEPT ![cur[r]] = IF Requeue(outcome[r]) THEN @ + 1 ELSE @]
    /\ pc' = [pc EXCEPT ![r] = "range"]
    /\ cur' = [cur EXCEPT ![r] = 0]
    /\ open' = [open EXCEPT ![r] = IF outcome[r] = "nil" THEN @ - 1 ELSE @]
    /\ UNCHANGED <<active, link, buffer, outcome, notes, ackExtra, success, failed, losses>>

(* On a channel that is gone the call fails or goes nowhere; the error is  *)
(* only logged, and eventAck counts an ack all the same.                   *)
SettleFails(r) ==
    /\ pc[r] = "settling"
    /\ link[r] # "up"
    /\ pc' = [pc EXCEPT ![r] = "range"]
    /\ cur' = [cur EXCEPT ![r] = 0]
    /\ open' = [open EXCEPT ![r] = IF outcome[r] = "nil" THEN @ - 1 ELSE @]
    /\ ackExtra' = IF outcome[r] = "nil" THEN ackExtra + 1 ELSE ackExtra
    /\ UNCHANGED <<brokerVars, link, buffer, outcome, notes, success, failed, losses>>

(* The deliveries channel is closed: the loop ends.                        *)
Exit(r) ==
    /\ pc[r] = "range"
    /\ link[r] = "closed"
    /\ pc' = [pc EXCEPT ![r] = "exited"]
    /\ UNCHANGED <<brokerVars, link, buffer, cur, outcome, countVars, losses>>

-----------------------------------------------------------------------------
Handling(r) ==
    \/ NoHandler(r)
    \/ HandlerSucceeds(r)
    \/ \E o \in Results : HandlerFails(r, o)

Loop(r) == Take(r) \/ Handling(r) \/ Settle(r) \/ SettleFails(r) \/ Exit(r)

Next ==
    \/ Expire
    \/ \E r \in Replicas :
          \/ Join(r)
          \/ Activate(r)
          \/ \E m \in Msgs : Deliver(r, m)
          \/ Lose(r) \/ Leave(r) \/ Crash(r) \/ Restart(r)
          \/ Loop(r)

Spec == Init /\ [][Next]_vars

(* The loop runs, a supervisor restarts processes that have lost their     *)
(* link, and the broker fills the prefetch window of a channel.            *)
Fairness ==
    \A r \in Replicas :
        /\ WF_vars(Loop(r))
        /\ WF_vars(Join(r))
        /\ WF_vars(Restart(r))
        /\ WF_vars(Activate(r))
        /\ WF_vars(\E m \in Msgs : Deliver(r, m))

FairSpec == Spec /\ Fairness

-----------------------------------------------------------------------------
TypeOK ==
    /\ owner \in [Msgs -> Replicas \cup {Nobody}]
    /\ gone \in [Msgs -> {"no", "acked", "discarded", "dropped", "expired"}]
    /\ returns \in [Msgs -> Nat]
    /\ active \in Replicas \cup {Nobody}
    /\ link \in [Replicas -> {"down", "up", "dead", "closed"}]
    /\ buffer \in [Replicas -> Seq(Msgs)]
    /\ pc \in [Replicas -> {"range", "handling", "settling", "exited"}]
    /\ cur \in [Replicas -> 0..NumMsgs]
    /\ outcome \in [Replicas -> Results]
    /\ notes \in [Replicas -> [ok : 0..NotifyCap, failed : 0..NotifyCap]]
    /\ open \in [Replicas -> Int]
    /\ ackExtra \in Nat
    /\ success \in [Msgs -> Nat]
    /\ failed \in [Msgs -> Nat]
    /\ losses \in 0..MaxLosses

(* While somebody consumes from the queue, a message leaves it acked only  *)
(* after its handler has succeeded, discarded only if no handling of it    *)
(* could ever succeed, and dropped by the broker only after handlers that  *)
(* failed and links that were lost have together used up the limit of its  *)
(* deliveries. (With the queue itself, when it expires, any message goes.) *)
LeavesForAReason ==
    \A m \in Msgs :
        /\ gone[m] = "acked" => success[m] > 0
        /\ gone[m] = "discarded" => m \in Permanent
        /\ gone[m] = "dropped" => failed[m] + losses > DeliveryLimit

(* The delivery a replica is at, and those it has buffered, are unacked    *)
(* deliveries of its channel, all distinct.                                *)
OwnDeliveries(r) ==
    /\ pc[r] \in {"handling", "settling"} => owner[cur[r]] = r
    /\ \A i \in 1..Len(buffer[r]) :
          /\ owner[buffer[r][i]] = r
          /\ buffer[r][i] # cur[r]
          /\ \A j \in 1..Len(buffer[r]) : buffer[r][i] = buffer[r][j] => i = j

(* On a live channel a replica settles only what it holds, and that once.  *)
(* (The broker closes the channel on any other delivery tag.)              *)
SettlesItsOwn == \A r \in Replicas : link[r] = "up" => OwnDeliveries(r)

(* A live replica r is at message m or has it buffered.                    *)
Held(r, m) ==
    /\ link[r] = "up"
    /\ cur[r] = m \/ \E i \in 1..Len(buffer[r]) : buffer[r][i] = m

(* No delivery on a live channel is forgotten: everything the broker has   *)
(* as unacked there is buffered or being handled.                          *)
NothingForgotten ==
    \A m \in Msgs, r \in Replicas : owner[m] = r => Held(r, m)

(* The handler succeeds twice for a message only if a link was lost.       *)
DuplicatesNeedLoss == \A m \in Msgs : success[m] <= losses + 1

(* Every delivery is counted once when it arrives and once when it ends.   *)
MetricsBalance ==
    \A r \in Replicas :
        open[r] = IF \/ pc[r] = "handling"
                     \/ pc[r] = "settling" /\ outcome[r] = "nil"
                  THEN 1 ELSE 0

(* docs/consumers.md: rejecting without requeue "prevents poison messages  *)
(* from blocking the queue": each of them is rejected, even if the whole   *)
(* prefetch window before it fails each time it is handled, and even if no *)
(* one reads notifications; unless the queue expires, or links are lost    *)
(* more often than the broker delivers a message again.                    *)
PoisonLeaves ==
    \A m \in Permanent :
        <>(gone[m] \in {"discarded", "expired"} \/ losses > DeliveryLimit)

(* Every message leaves the queue, whatever its handler does: the broker's *)
(* delivery limit, not the library, ends the retries of one that fails     *)
(* each time.                                                              *)
EveryMessageLeaves == \A m \in Msgs : <>(gone[m] # "no")

(* amqp_events_ack counts acks that never reached the broker, but no more  *)
(* than the prefetch window of each lost link.                             *)
AckMetricError == ackExtra <= Prefetch * losses

(* With single active consumer the replicas that hold a live link and are  *)
(* at a delivery are one at most: it takes a lost link for a second one to *)
(* process messages at the same time.                                      *)
OneLiveReplicaAtATime ==
    SingleActive =>
        \A r, s \in Replicas :
            /\ link[r] = "up" /\ pc[r] \in {"handling", "settling"}
            /\ link[s] = "up" /\ pc[s] \in {"handling", "settling"}
            => r = s

(* docs/consumers.md: single active consumer "guarantees ordering within   *)
(* the queue": a message is handled with success for the first time only   *)
(* when every earlier one has been, or has left the queue.                 *)
OrderedProcessing ==
    \A m, n \in Msgs : m < n /\ success[n] > 0 => success[m] > 0 \/ gone[m] # "no"
=============================================================================
