---------------------------- MODULE MCConnection ----------------------------
(* Services for TLC: the Setup functions each passes to Start.             *)
EXTENDS Connection

Option(op) == [op |-> op, queue |-> "-", key |-> "-", pub |-> "-", limit |-> 0, valid |-> TRUE]
Limit(n) == [Option("prefetch") EXCEPT !.limit = n]
PublisherOf(p) == [Option("publisher") EXCEPT !.pub = p]
ConsumerOf(q, k) == [Option("consumer") EXCEPT !.queue = q, !.key = k]

(* A listener, a prefetch limit, a publisher and three consumers on two    *)
(* queues.                                                                 *)
FullService ==
    << Option("listener"), Limit(5), PublisherOf("p1"),
       ConsumerOf("q1", "k1"), ConsumerOf("q1", "k2"), ConsumerOf("q2", "k1") >>

(* More publishers, and one channel too many for startConsumers.           *)
LargeService == <<PublisherOf("p2"), PublisherOf("p3"), PublisherOf("p4")>> \o FullService

ConsumerService ==
    << Option("listener"), Limit(5), ConsumerOf("q1", "k1"), ConsumerOf("q2", "k1") >>

PublisherService == << Option("listener"), PublisherOf("p1") >>

(* Two consumers for one routing key of one queue.                         *)
ConflictService ==
    << Option("listener"), PublisherOf("p1"), ConsumerOf("q2", "k1"),
       ConsumerOf("q1", "k1"), ConsumerOf("q1", "k1") >>

(* A consumer with an invalid option, after one that is in order.          *)
InvalidService ==
    << Option("listener"), PublisherOf("p1"), ConsumerOf("q2", "k1"),
       [ConsumerOf("q1", "k1") EXCEPT !.valid = FALSE] >>

(* A Setup function of its own between a publisher and a consumer.         *)
CustomService == << PublisherOf("p1"), Option("custom"), ConsumerOf("q1", "k1") >>

(* One Publisher for two exchanges.                                        *)
SharedService == << PublisherOf("p1"), PublisherOf("p1") >>

AllServices ==
    {FullService, LargeService, PublisherService, ConflictService, InvalidService,
     CustomService, SharedService}
OneService == {ConsumerService}

SameKey == {<<k, k>> : k \in {"k1", "k2"}}
=============================================================================
