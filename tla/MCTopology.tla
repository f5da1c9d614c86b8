----------------------------- MODULE MCTopology -----------------------------
(* Topology for TLC: topic patterns are words joined by dots, where *      *)
(* stands for one word and # for any number of them.                       *)
EXTENDS Topology, TLC

Words == {"order", "created"}

MCKeys == {<<w>> : w \in Words} \cup {<<v, w>> : v \in Words, w \in Words}

MCPatterns ==
    { <<"order", "created">>, <<"order", "*">>, <<"*", "created">>,
      <<"order", "#">>, <<"created">> }

RECURSIVE TopicMatch(_, _)
TopicMatch(p, k) ==
    IF p = <<>> THEN k = <<>>
    ELSE IF Head(p) = "#"
         THEN \/ TopicMatch(Tail(p), k)
              \/ k # <<>> /\ TopicMatch(p, Tail(k))
    ELSE /\ k # <<>>
         /\ Head(p) \in {"*", Head(k)}
         /\ TopicMatch(Tail(p), Tail(k))

MCMatches == {pk \in MCPatterns \X MCKeys : TopicMatch(pk[1], pk[2])}

MCOverlaps ==
    {pq \in MCPatterns \X MCPatterns :
        \E k \in MCKeys : <<pq[1], k>> \in MCMatches /\ <<pq[2], k>> \in MCMatches}

-----------------------------------------------------------------------------
Consumer(op, target, key) ==
    [op |-> op, target |-> target, key |-> key, suffix |-> <<>>,
     shared |-> FALSE, deadLetter |-> "none", valid |-> TRUE]

Plain(op, target) == [op |-> op, target |-> target]

Events == <<"events">>
Order == <<"order">>
OrderService == <<"order", "service">>
Created == <<"order", "created">>
AnyOrder == <<"order", "*">>
AnyCreated == <<"*", "created">>

(* Three versions of "order": the second binds more, the third changes the *)
(* arguments of the queue.                                                 *)
OrderV1 == <<Consumer("stream", Events, Created), Plain("custom", <<>>)>>
OrderV2 == <<Consumer("stream", Events, AnyOrder), Consumer("stream", Events, <<"created">>)>>
OrderV3 == <<[Consumer("stream", Events, Created) EXCEPT !.shared = TRUE, !.deadLetter = "dlx"]>>

(* Two that never start, for their options and for their patterns.         *)
OrderBad == <<[Consumer("stream", Events, Created) EXCEPT !.valid = FALSE]>>
OrderTwice == <<Consumer("stream", Events, AnyCreated), Consumer("stream", Events, AnyOrder)>>

(* One that only publishes.                                                *)
OrderPublisher == <<Plain("publisher", Events), Plain("custom", <<>>),
                    Plain("queuePublisher", "q"), Plain("servicePublisher", OrderService)>>

(* One whose first Start may fail and a second succeed.                    *)
OrderRetry == <<Consumer("transient", Events, <<"order", "#">>), Plain("custom", <<>>)>>

(* A client of "order-service", one of whose queues gets the name of that  *)
(* service's, and "order-service" itself.                                  *)
OrderClient == <<[Consumer("stream", Events, AnyCreated) EXCEPT !.suffix = <<"service">>],
                 Consumer("response", OrderService, Created)>>
OrderServer == <<Consumer("request", <<>>, Created), Consumer("stream", Events, Created)>>

MCDeployments ==
    [service : {Order}, setups : {OrderV1, OrderV2, OrderV3, OrderBad, OrderTwice,
                                  OrderPublisher, OrderRetry, OrderClient}]
        \cup {[service |-> OrderService, setups |-> OrderServer]}

ProcSymmetry == Permutations(Procs)
=============================================================================
