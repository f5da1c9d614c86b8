--------------------------- MODULE RequestResponse ---------------------------
(***************************************************************************)
(* The request queue of a service set up with RequestResponseHandler: its  *)
(* consumers (Consumer) run the wrapped handler, which publishes what the  *)
(* application returned to the service that sent the request, without      *)
(* waiting for a confirm, before the request is acked                      *)
(* (request_response.go, Connection.PublishServiceResponse).               *)
(*                                                                         *)
(* The requests are published in the ways of a batch before the behaviour  *)
(* begins: how they get to the queue is Publisher's subject. All have a    *)
(* handler and a body that parses: Consumer has those that do not. A       *)
(* caller's side is its response queue, one for all its routing keys.      *)
(***************************************************************************)
EXTENDS Integers, Sequences, FiniteSets, Headers

CONSTANTS
    Replicas, Nobody, NumMsgs, Prefetch, SingleActive, NotifyCap, DeliveryLimit,
    MaxLosses,      \* see Consumer
    Service,        \* the name of the service
    Batches,        \* the ways, [raw, caller, headers], to publish 1..NumMsgs
    Listening,      \* callers with a ServiceResponseConsumer for Service
    Claims,         \* messages for whose routing key it has a handler
    LegacySupport   \* WithLegacySupport()

ASSUME WaysAssumption ==
    /\ \A b \in Batches : DOMAIN b = 1..NumMsgs
    /\ \A c \in Listening : \E b \in Batches, m \in 1..NumMsgs : b[m].caller = c
    /\ Claims \subseteq 1..NumMsgs /\ LegacySupport \in BOOLEAN
ASSUME QueueAssumption ==
    /\ NumMsgs \in Nat /\ Nobody \notin Replicas
    /\ Prefetch \in Nat \ {0} /\ NotifyCap \in Nat /\ DeliveryLimit \in Nat
    /\ MaxLosses \in Nat /\ SingleActive \in BOOLEAN

VARIABLES
    owner, gone, returns, active, link, buffer, pc, cur, outcome, notes, open,
    ackExtra, success, failed, losses,   \* see Consumer
    way,         \* how each request was published
    wire,        \* its header table
    responding,  \* replicas whose handler has returned a response
    handled,     \* how often the application has handled a request
    unsent,      \* how often its response could not be sent on a live link
    flight,      \* responses a replica has written, not yet routed
    inbox,       \* answers each caller has handled, for each request
    lost         \* requests an answer to which was lost with a link

Requests == INSTANCE Consumer WITH Unrouted <- {}, Unparsable <- {}, Untyped <- {}

consumerVars ==
    <<owner, gone, returns, active, link, buffer, pc, cur, outcome, notes, open,
      ackExtra, success, failed, losses>>
rpcVars == <<way, wire, responding, handled, unsent, flight, inbox, lost>>
vars == <<consumerVars, rpcVars>>

Msgs == Requests!Msgs
Callers == UNION {{b[m].caller : m \in Msgs} : b \in Batches}

(* The trace in which a request is published, and the trace and ids that a *)
(* replica makes up.                                                       *)
Trace == "trace"
Own == "own"

(* A header has a key of one of the four kinds, and never the value of an  *)
(* id or trace that is yet to be made up.                                  *)
ASSUME HeadersAssumption ==
    \A b \in Batches : \A m \in 1..NumMsgs :
        /\ b[m].raw \in BOOLEAN
        /\ \A k \in DOMAIN b[m].headers :
              /\ k = <<k[1], k[2]>> /\ k[1] \in {"", "ce-", "cloudEvents:", "cloudEvents_"}
              /\ b[m].headers[k] \notin {Missing, "uuid", Own}

(* Publish refuses reserved keys; PublishRaw takes what is stored.         *)
Accepted(w) == w.raw \/ validateKeys(w.headers)

OnWire(w) ==
    IF w.raw THEN PublishRaw(w.headers) ELSE {Publish(w.headers, w.caller, "uuid", Trace)}

Named(m) == sendingService(wire[m]) \notin {Missing, NotAString}

(* The response to a request: PublishServiceResponse in the context of the *)
(* handler, and so in its trace.                                           *)
Response(m) ==
    PublishServiceResponse(sendingService(wire[m]), Service, Own, extractToContext(wire[m], Own))

Init ==
    /\ Requests!Init
    /\ way \in {b \in Batches : \A m \in Msgs : Accepted(b[m])}
    /\ wire \in [Msgs -> UNION {OnWire(way[m]) : m \in Msgs}]
    /\ \A m \in Msgs : wire[m] \in OnWire(way[m])
    /\ responding = {}
    /\ handled = [m \in Msgs |-> 0]
    /\ unsent = [m \in Msgs |-> 0]
    /\ flight = [r \in Replicas |-> <<>>]
    /\ inbox = [c \in Callers |-> [m \in Msgs |-> 0]]
    /\ lost = {}

-----------------------------------------------------------------------------
(* The wrapped handler.                                                    *)

(* The application's handler returns a response.                           *)
Handle(r) ==
    /\ pc[r] = "handling"
    /\ r \notin responding
    /\ responding' = responding \cup {r}
    /\ handled' = [handled EXCEPT ![cur[r]] = @ + 1]
    /\ UNCHANGED <<consumerVars, way, wire, unsent, flight, inbox, lost>>

(* The application's handler fails.                                        *)
Fail(r) ==
    /\ r \notin responding
    /\ Requests!HandlerFails(r, "error")
    /\ UNCHANGED rpcVars

(* Mutant: without a sender there is nothing to answer.                    *)
NoSenderIgnored(r) ==
    /\ r \in responding
    /\ ~Named(cur[r])
    /\ Requests!HandlerSucceeds(r)
    /\ responding' = responding \ {r}
    /\ UNCHANGED <<way, wire, handled, unsent, flight, inbox, lost>>

(* sendingService fails, after the application has done its work: the      *)
(* request is requeued.                                                    *)
NoSender(r) ==
    /\ r \in responding
    /\ ~Named(cur[r])
    /\ Requests!HandlerFails(r, "error")
    /\ responding' = responding \ {r}
    /\ UNCHANGED <<way, wire, handled, unsent, flight, inbox, lost>>

(* Mutant: the error of the publish is shadowed.                           *)
RespondUnsent(r) ==
    /\ r \in responding
    /\ Named(cur[r])
    /\ link[r] = "up"
    /\ Requests!HandlerSucceeds(r)
    /\ responding' = responding \ {r}
    /\ UNCHANGED <<way, wire, handled, unsent, flight, inbox, lost>>

(* Mutant: the request is requeued although its answer was sent.           *)
RespondRequeues(r) ==
    /\ r \in responding
    /\ Named(cur[r])
    /\ link[r] = "up"
    /\ Requests!HandlerFails(r, "error")
    /\ flight' = [flight EXCEPT ![r] = Append(@, [to |-> cur[r], table |-> Response(cur[r])])]
    /\ responding' = responding \ {r}
    /\ UNCHANGED <<way, wire, handled, unsent, inbox, lost>>

(* The response is written to the connection, and that is all that the     *)
(* publish without confirm tells. Then the loop acks.                      *)
Respond(r) ==
    /\ r \in responding
    /\ Named(cur[r])
    /\ link[r] = "up"
    /\ Requests!HandlerSucceeds(r)
    /\ flight' = [flight EXCEPT ![r] = Append(@, [to |-> cur[r], table |-> Response(cur[r])])]
    /\ responding' = responding \ {r}
    /\ UNCHANGED <<way, wire, handled, unsent, inbox, lost>>

(* The response does not get as far as the connection: it does not         *)
(* marshal, the response channel is closed, or the connection is gone. The *)
(* request is requeued. (A channel that the broker closes also stalls the  *)
(* reader of the connection, which ends in Lose.)                          *)
RespondFails(r) ==
    /\ r \in responding
    /\ Named(cur[r])
    /\ Requests!HandlerFails(r, "error")
    /\ unsent' = [unsent EXCEPT ![cur[r]] = IF link[r] = "up" THEN @ + 1 ELSE @]
    /\ responding' = responding \ {r}
    /\ UNCHANGED <<way, wire, handled, flight, inbox, lost>>

(* The response exchange routes by the service header alone. Where nobody  *)
(* listens the broker drops the answer; a caller rejects an answer with a  *)
(* routing key it has no handler for.                                      *)
Route(r) ==
    /\ flight[r] # <<>>
    /\ flight' = [flight EXCEPT ![r] = Tail(@)]
    /\ LET m == Head(flight[r]).to
           c == Head(flight[r]).table[headerService]
       IN  inbox' = IF c \in Listening /\ m \in Claims
                    THEN [inbox EXCEPT ![c][m] = @ + 1] ELSE inbox
    /\ UNCHANGED <<consumerVars, way, wire, responding, handled, unsent, lost>>

-----------------------------------------------------------------------------
(* A replica loses its link, and what is on it.                            *)
Unlink(r) ==
    /\ Requests!Lose(r) \/ Requests!Leave(r)
    /\ lost' = lost \cup {flight[r][i].to : i \in DOMAIN flight[r]}
    /\ flight' = [flight EXCEPT ![r] = <<>>]
    /\ UNCHANGED <<way, wire, responding, handled, unsent, inbox>>

Crash(r) ==
    /\ Requests!Crash(r)
    /\ lost' = lost \cup {flight[r][i].to : i \in DOMAIN flight[r]}
    /\ flight' = [flight EXCEPT ![r] = <<>>]
    /\ responding' = responding \ {r}
    /\ UNCHANGED <<way, wire, handled, unsent, inbox>>

Restart(r) ==
    /\ Requests!Restart(r)
    /\ responding' = responding \ {r}
    /\ UNCHANGED <<way, wire, handled, unsent, flight, inbox, lost>>

(* The broker, and the part of the loop that has nothing to do with        *)
(* answers.                                                                *)
Join(r) == Requests!Join(r) /\ UNCHANGED rpcVars
Activate(r) == Requests!Activate(r) /\ UNCHANGED rpcVars
Deliver(r, m) == Requests!Deliver(r, m) /\ UNCHANGED rpcVars
Expire == Requests!Expire /\ UNCHANGED rpcVars
LoopStep(r) ==
    /\ \/ Requests!Take(r)
       \/ Requests!Settle(r)
       \/ Requests!SettleFails(r)
       \/ Requests!Exit(r)
    /\ UNCHANGED rpcVars

Work(r) ==
    \/ LoopStep(r)
    \/ Handle(r) \/ Fail(r) \/ NoSender(r) \/ Respond(r)

Next ==
    \/ Expire
    \/ \E r \in Replicas :
          \/ Join(r) \/ Activate(r) \/ Unlink(r) \/ Crash(r) \/ Restart(r)
          \/ \E m \in Msgs : Deliver(r, m)
          \/ Work(r) \/ RespondFails(r) \/ Route(r)

Spec == Init /\ [][Next]_vars

(* As in Consumer, without RespondFails: on a dead connection the publish  *)
(* may block. What is written to a connection that lives gets to the       *)
(* broker.                                                                 *)
Fairness ==
    \A r \in Replicas :
        /\ WF_vars(Work(r)) /\ WF_vars(Route(r))
        /\ WF_vars(Join(r)) /\ WF_vars(Restart(r)) /\ WF_vars(Activate(r))
        /\ WF_vars(\E m \in Msgs : Deliver(r, m))

FairSpec == Spec /\ Fairness

-----------------------------------------------------------------------------
(* The answers to request m that r has written and the broker not seen.    *)
Flying(r, m) == {i \in DOMAIN flight[r] : flight[r][i].to = m}

(* Whoever m names as its sender listens for the answer.                   *)
Answerable(m) == sendingService(wire[m]) \in Listening /\ m \in Claims
Answered(m) == inbox[sendingService(wire[m])][m] > 0

(* docs/request-response.md, "Response published to caller, request        *)
(* ACKed": a request that has left its queue named its sender, and the     *)
(* answer is with the caller or on its way, or was lost with a link; a     *)
(* caller misses it only if it has no handler for its routing key.         *)
AckedMeansAnswered ==
    \A m \in Msgs : gone[m] = "acked" =>
        /\ Named(m)
        /\ Answerable(m) =>
              \/ Answered(m)
              \/ \E r \in Replicas : Flying(r, m) # {}
              \/ m \in lost /\ losses > 0

(* A request that names its sender is handled again after it was handled   *)
(* with success only if a link was lost or the answer could not be sent,   *)
(* and a caller gets a second answer only if a link was lost. (A request   *)
(* without the service header, as PublishRaw may send it, is handled again *)
(* and again.)                                                             *)
RepeatsNeedLoss ==
    \A m \in Msgs : Named(m) =>
        /\ handled[m] <= losses + 1 + unsent[m]
        /\ \A c \in Callers, r \in Replicas :
              inbox[c][m] + Cardinality(Flying(r, m)) <= losses + 1

(* The answer to a request goes to the service whose publisher sent it: no *)
(* header of a Publish changes that, and for PublishRaw the stored service *)
(* header says it. And it is in the trace of the Publish that sent the     *)
(* request, even if the caller passed headers on that it had got with      *)
(* another message: docs/observability.md links "producer and consumer     *)
(* spans into a single distributed trace".                                 *)
AnswersGoHome ==
    /\ \A m \in Msgs, c \in Callers : inbox[c][m] > 0 =>
          c = IF way[m].raw THEN way[m].headers[headerService] ELSE way[m].caller
    /\ \A r \in Replicas : \A i \in DOMAIN flight[r] :
          ~way[flight[r][i].to].raw => flight[r][i].table[traceparent] = Trace

(* The handler sees an id that the publisher was given, or the one Publish *)
(* makes up; an id given in one spelling only is kept, but by Publish not  *)
(* the "cloudEvents_" one, beside which it sends an id of its own. It sees *)
(* none only if PublishRaw was given none or an unusable one, or an        *)
(* unusable "cloudEvents_" one was sent along; and one is made up at the   *)
(* consumer only for messages without any CloudEvents header.              *)
IdIsKept ==
    \A m \in Msgs : \A id \in metadataID(wire[m], LegacySupport, Own) :
        LET t == way[m].headers
            keys == DOMAIN t \cap Spellings("id")
            given == {t[k] : k \in keys} \ {NotAString, ""}
            unusable == {k \in keys : t[k] \notin given}
        IN  /\ id \in given \cup {"uuid", Own, ""}
            /\ Cardinality(keys) = 1 /\ given # {} /\ (way[m].raw \/ JMSHeaderKey("id") \notin keys)
                  => id \in given
            /\ id = "uuid" => ~way[m].raw
            /\ id = "" => IF way[m].raw THEN keys = {} \/ unusable # {}
                          ELSE JMSHeaderKey("id") \in unusable
            /\ id = Own => LegacySupport /\ \A k \in DOMAIN t : k[1] = ""

(* Every request whose sender listens is answered in the end, even behind  *)
(* a prefetch window of requests that name no sender and are requeued each *)
(* time; unless the only answer was lost after the request had left the    *)
(* queue, the broker dropped the request after too many failures and lost  *)
(* links, or the queue expired.                                            *)
EveryRequestAnswered ==
    \A m \in Msgs :
        <>(\/ ~Answerable(m)
           \/ Answered(m)
           \/ m \in lost /\ gone[m] = "acked"
           \/ gone[m] \in {"dropped", "expired"})
=============================================================================
