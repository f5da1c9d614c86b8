------------------------------ MODULE Headers ------------------------------
(***************************************************************************)
(* The header tables of messages: what Publish, PublishServiceResponse and *)
(* PublishRaw put on the wire for the headers they are given, and what the *)
(* consumer reads back (setup_publisher.go, outbox_adapter.go, headers.go, *)
(* tracing.go, consumer.go).                                               *)
(*                                                                         *)
(* A table is a function from keys to values. A key is a prefix and a      *)
(* name: "ce-", "cloudEvents:" and "cloudEvents_" are the spellings of a   *)
(* CloudEvents attribute, other keys have no prefix. The consumer accepts  *)
(* all three; publishers rename only the first. Of the attributes, "id"    *)
(* has a rule of its own, and "source" stands for those with a plain       *)
(* default.                                                                *)
(* NotAString stands for a value of another type, which only Publish takes *)
(* and only consumers look at.                                             *)
(***************************************************************************)

Plain(name) == <<"", name>>
CE(attr) == <<"ce-", attr>>
AMQPCEHeaderKey(attr) == <<"cloudEvents:", attr>>
JMSHeaderKey(attr) == <<"cloudEvents_", attr>>
Spellings(attr) == {CE(attr), AMQPCEHeaderKey(attr), JMSHeaderKey(attr)}

headerService == Plain("service")
traceparent == Plain("traceparent")

NotAString == "*not a string*"
Missing == "*missing*"

At(t, k) == IF k \in DOMAIN t THEN t[k] ELSE Missing

(* The entries of t, and those of u on top.                                *)
Over(t, u) == [k \in DOMAIN t \cup DOMAIN u |-> IF k \in DOMAIN u THEN u[k] ELSE t[k]]

Entry(k, v) == [j \in {k} |-> v]

(* Mutant: any key is taken.                                               *)
validateAny(t) == TRUE

(* Header.validateKey for each header of a call of Publish.                *)
validateKeys(t) == headerService \notin DOMAIN t /\ Plain("") \notin DOMAIN t

-----------------------------------------------------------------------------
(* publishMessage renames "ce-" headers, unless the "cloudEvents:" one of  *)
(* the same name is there: the order of the map does not matter.           *)
Normalized(t) ==
    LET moved == {k \in DOMAIN t : k[1] = "ce-"}
        kept == {k \in DOMAIN t : k[1] # "ce-"}
    IN  [k \in kept \cup {AMQPCEHeaderKey(j[2]) : j \in moved} |->
            IF k \in kept THEN t[k] ELSE t[CE(k[2])]]

(* Mutant: an id that is there is taken as it is.                          *)
MessageIDAny(t, uuid) ==
    IF AMQPCEHeaderKey("id") \in DOMAIN t THEN t[AMQPCEHeaderKey("id")] ELSE uuid

(* The id of the message: the one given, if it is a string and not empty,  *)
(* or a new one.                                                           *)
MessageID(t, uuid) ==
    IF At(t, AMQPCEHeaderKey("id")) \in {Missing, NotAString, ""}
    THEN uuid
    ELSE t[AMQPCEHeaderKey("id")]

(* Mutant: the trace of a header the caller passed on is kept.             *)
injectUnlessSet(t, span) == Over(Entry(traceparent, span), t)

(* injectToHeaders, with a propagator that writes traceparent.             *)
injectToHeaders(t, span) == Over(t, Entry(traceparent, span))

(* publishMessage: the table on the wire for a message of service source.  *)
publishMessage(t, source, uuid, span) ==
    LET n == Over(Entry(AMQPCEHeaderKey("source"), source), Normalized(t))
    IN  injectToHeaders(Over(n, Entry(AMQPCEHeaderKey("id"), MessageID(n, uuid))), span)

(* Publisher.Publish: the caller's headers on top of the publisher's.      *)
Publish(t, source, uuid, span) ==
    publishMessage(Over(Entry(headerService, source), t), source, uuid, span)

(* PublishServiceResponse: the answer names the service it goes to.        *)
PublishServiceResponse(target, source, uuid, span) ==
    publishMessage(Entry(headerService, target), source, uuid, span)

(* OutboxRawPublisher.PublishRaw copies the stored headers and renames the *)
(* "ce-" ones, in the order of the map: of two spellings of an attribute   *)
(* the later one wins. It adds nothing: no service, no id, no trace.       *)
PublishRaw(t) ==
    {w \in [DOMAIN Normalized(t) -> {t[k] : k \in DOMAIN t}] :
        \A k \in DOMAIN w :
            \/ k \in DOMAIN t /\ w[k] = t[k]
            \/ k[1] = "cloudEvents:" /\ CE(k[2]) \in DOMAIN t /\ w[k] = t[CE(k[2])]}

-----------------------------------------------------------------------------
(* The consumer's side of spec.NormalizeCEHeaders: each spelling becomes   *)
(* "ce-". The values the attribute may have then: one of those it has on   *)
(* the wire, and which one, when there are several, is up to the order of  *)
(* the map.                                                                *)
NormalizeCEHeaders(w, attr) == {w[k] : k \in DOMAIN w \cap Spellings(attr)}

HasCEHeaders(w) == \E k \in DOMAIN w : k[1] # ""

(* handleDelivery: the Metadata.ID the handler may be given. A legacy      *)
(* message, one without CloudEvents headers, has none, or with             *)
(* legacySupport one that is made up at each delivery.                     *)
metadataID(w, legacySupport, uuid) ==
    IF legacySupport /\ ~HasCEHeaders(w) THEN {uuid}
    ELSE IF NormalizeCEHeaders(w, "id") = {} THEN {""}
    ELSE {IF v = NotAString THEN "" ELSE v : v \in NormalizeCEHeaders(w, "id")}

(* extractToContext, and the consumer's span: it joins the trace of the    *)
(* message, or starts a trace of its own.                                  *)
extractToContext(w, own) ==
    IF At(w, traceparent) \in {Missing, NotAString, ""} THEN own ELSE w[traceparent]

(* sendingService; Missing and NotAString are its two errors.              *)
sendingService(w) == At(w, headerService)
=============================================================================
