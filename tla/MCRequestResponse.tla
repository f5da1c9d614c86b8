-------------------------- MODULE MCRequestResponse --------------------------
(* RequestResponse for TLC: the callers are "a" and "b", and the batches   *)
(* differ in what the wire carries.                                        *)
EXTENDS RequestResponse, TLC

Published(caller, headers) == [raw |-> FALSE, caller |-> caller, headers |-> headers]
Stored(caller, headers) == [raw |-> TRUE, caller |-> caller, headers |-> headers]
NoHeaders == [k \in {} |-> ""]

(* A window of requests that name no sender before one of Publish, with    *)
(* headers passed on from another message and the ids "" and "j", or one   *)
(* out of an outbox, with two spellings of its id; and a request that      *)
(* Publish refuses.                                                        *)
MCBatches ==
    {<<Stored("a", NoHeaders), Stored("a", CE("id") :> "i"), w>> :
        w \in {Published("a", CE("id") :> "" @@ JMSHeaderKey("id") :> "j" @@ traceparent :> "old"),
               Stored("b", headerService :> "b" @@ CE("id") :> "i" @@ JMSHeaderKey("id") :> ""),
               Published("a", headerService :> "b")}}
=============================================================================
