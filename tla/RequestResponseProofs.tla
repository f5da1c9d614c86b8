------------------------ MODULE RequestResponseProofs ------------------------
(***************************************************************************)
(* Proofs about RequestResponse, for any replicas, callers, headers and    *)
(* number of lost links. What is proved of the queue and its consumers in  *)
(* ConsumerBoundProofs holds for the request queue as well: P below.       *)
(***************************************************************************)
EXTENDS RequestResponse, FiniteSetTheorems, TLAPS

-----------------------------------------------------------------------------
(* Header tables.                                                          *)

(* What lies in a table laid over another.                                 *)
LEMMA OverAt ==
    ASSUME NEW t, NEW u, NEW k
    PROVE  /\ k \in DOMAIN Over(t, u) <=> k \in DOMAIN t \/ k \in DOMAIN u
           /\ k \in DOMAIN u => Over(t, u)[k] = u[k]
           /\ k \in DOMAIN t /\ k \notin DOMAIN u => Over(t, u)[k] = t[k]
BY DEF Over

(* A table of one entry.                                                   *)
LEMMA EntryAt ==
    ASSUME NEW k, NEW v
    PROVE  /\ \A j : j \in DOMAIN Entry(k, v) <=> j = k
           /\ Entry(k, v)[k] = v
BY DEF Entry

(* Renaming leaves keys without the "ce-" prefix where they are.           *)
LEMMA NormalizedAt ==
    ASSUME NEW t, NEW k \in DOMAIN t, k[1] # "ce-"
    PROVE  k \in DOMAIN Normalized(t) /\ Normalized(t)[k] = t[k]
BY DEF Normalized

(* The keys the library deals with, and how they differ.                   *)
LEMMA KeysDiffer ==
    /\ headerService[1] = "" /\ traceparent[1] = ""
    /\ headerService # traceparent
    /\ CE("id") # AMQPCEHeaderKey("id")
    /\ CE("id")[1] = "ce-" /\ CE("id")[2] = "id"
    /\ AMQPCEHeaderKey("id")[1] = "cloudEvents:" /\ AMQPCEHeaderKey("id")[2] = "id"
    /\ AMQPCEHeaderKey("source")[1] = "cloudEvents:"
    /\ AMQPCEHeaderKey("source") # AMQPCEHeaderKey("id")
    /\ JMSHeaderKey("id")[1] = "cloudEvents_"
BY DEF headerService, traceparent, Plain, CE, AMQPCEHeaderKey, JMSHeaderKey

(* publishMessage changes no plain header but the trace, which is always   *)
(* that of the publisher.                                                  *)
LEMMA PlainKept ==
    ASSUME NEW t, NEW source, NEW uuid, NEW span
    PROVE  LET w == publishMessage(t, source, uuid, span)
           IN  /\ headerService \in DOMAIN t =>
                     headerService \in DOMAIN w /\ w[headerService] = t[headerService]
               /\ traceparent \in DOMAIN w /\ w[traceparent] = span
<1> DEFINE n == Over(Entry(AMQPCEHeaderKey("source"), source), Normalized(t))
           i == Over(n, Entry(AMQPCEHeaderKey("id"), MessageID(n, uuid)))
           w == publishMessage(t, source, uuid, span)
<1>1. w = Over(i, Entry(traceparent, span))
  BY DEF publishMessage, injectToHeaders
<1>2. traceparent \in DOMAIN w /\ w[traceparent] = span
  BY <1>1, OverAt, EntryAt
<1>3. ASSUME headerService \in DOMAIN t
      PROVE  headerService \in DOMAIN w /\ w[headerService] = t[headerService]
  <2>1. /\ headerService \in DOMAIN Normalized(t)
        /\ Normalized(t)[headerService] = t[headerService]
    BY <1>3, NormalizedAt, KeysDiffer
  <2>2. headerService \in DOMAIN n /\ n[headerService] = t[headerService]
    BY <2>1, OverAt
  <2>3. headerService # AMQPCEHeaderKey("id")
    BY KeysDiffer
  <2> HIDE DEF n
  <2>4. headerService \in DOMAIN i /\ i[headerService] = t[headerService]
    BY <2>2, <2>3, OverAt, EntryAt
  <2>5. headerService \notin DOMAIN Entry(traceparent, span)
    BY KeysDiffer DEF Entry
  <2> HIDE DEF i
  <2>6. /\ headerService \in DOMAIN Over(i, Entry(traceparent, span))
        /\ Over(i, Entry(traceparent, span))[headerService] = t[headerService]
    BY <2>4, <2>5, OverAt
  <2> HIDE DEF w
  <2> QED
    BY <1>1, <2>6
<1> QED
  BY <1>2, <1>3

(* A request of Publish names its publisher and carries its trace.         *)
LEMMA PublishNames ==
    ASSUME NEW t, NEW source, NEW uuid, NEW span, validateKeys(t)
    PROVE  LET w == Publish(t, source, uuid, span)
           IN  /\ sendingService(w) = source
               /\ traceparent \in DOMAIN w /\ w[traceparent] = span
<1> DEFINE o == Over(Entry(headerService, source), t)
<1>1. headerService \in DOMAIN o /\ o[headerService] = source
  <2>1. headerService \notin DOMAIN t
    BY DEF validateKeys
  <2>2. headerService \in DOMAIN Entry(headerService, source)
    BY EntryAt
  <2>3. Entry(headerService, source)[headerService] = source
    BY EntryAt
  <2> QED
    BY <2>1, <2>2, <2>3, OverAt
<1> HIDE DEF o
<1>2. Publish(t, source, uuid, span) = publishMessage(o, source, uuid, span)
  BY DEF Publish, o
<1> QED
  BY <1>1, <1>2, PlainKept DEF sendingService, At

(* A stored request names the service its stored headers name.             *)
LEMMA RawNames ==
    ASSUME NEW t, NEW w \in PublishRaw(t), headerService \in DOMAIN w
    PROVE  headerService \in DOMAIN t /\ w[headerService] = t[headerService]
BY KeysDiffer DEF PublishRaw

(* An answer goes to the service it is for, in the trace it is given.      *)
LEMMA ResponseNames ==
    ASSUME NEW target, NEW source, NEW uuid, NEW span
    PROVE  LET w == PublishServiceResponse(target, source, uuid, span)
           IN  w[headerService] = target /\ w[traceparent] = span
<1>1. /\ headerService \in DOMAIN Entry(headerService, target)
      /\ Entry(headerService, target)[headerService] = target
  BY EntryAt
<1> QED
  BY <1>1, PlainKept DEF PublishServiceResponse

-----------------------------------------------------------------------------
(* Message ids.                                                            *)

(* The three spellings of the id, the keys a publisher may use, and those  *)
(* on the wire.                                                            *)
K == AMQPCEHeaderKey("id")
C == CE("id")
J == JMSHeaderKey("id")
Key(k, S) == k = <<k[1], k[2]>> /\ k[1] \in S
Kinds(t) == \A k \in DOMAIN t : Key(k, {"", "ce-", "cloudEvents:", "cloudEvents_"})
WireKinds(w) == \A k \in DOMAIN w : Key(k, {"", "cloudEvents:", "cloudEvents_"})

(* v is what a table says of the id, in a spelling that publishers rename  *)
(* or use.                                                                 *)
Spelled(t, v) ==
    \/ C \notin DOMAIN t /\ K \notin DOMAIN t /\ v = Missing
    \/ C \in DOMAIN t /\ v = t[C]
    \/ K \in DOMAIN t /\ v = t[K]

(* The third spelling is in w as it is in t.                               *)
SameJ(t, w) ==
    /\ J \in DOMAIN w <=> J \in DOMAIN t
    /\ J \in DOMAIN t => w[J] = t[J]

(* Renaming gives keys of the wire, gives the id one of its values, and    *)
(* leaves its third spelling alone.                                        *)
LEMMA NormalizedId ==
    ASSUME NEW t, Kinds(t)
    PROVE  /\ WireKinds(Normalized(t))
           /\ K \in DOMAIN Normalized(t) <=> K \in DOMAIN t \/ C \in DOMAIN t
           /\ K \in DOMAIN t => Normalized(t)[K] = t[K]
           /\ K \notin DOMAIN t /\ C \in DOMAIN t => Normalized(t)[K] = t[C]
           /\ SameJ(t, Normalized(t))
           /\ (\A k \in DOMAIN Normalized(t) : k[1] = "") => \A k \in DOMAIN t : k[1] = ""
<1> DEFINE moved == {k \in DOMAIN t : k[1] = "ce-"}
           kept == {k \in DOMAIN t : k[1] # "ce-"}
           D == kept \cup {AMQPCEHeaderKey(j[2]) : j \in moved}
<1>1. /\ DOMAIN Normalized(t) = D
      /\ \A k \in D : Normalized(t)[k] = IF k \in kept THEN t[k] ELSE t[CE(k[2])]
  BY DEF Normalized
<1>2. \A j \in DOMAIN t : /\ j = <<j[1], j[2]>>
                          /\ j[1] \in {"", "ce-", "cloudEvents:", "cloudEvents_"}
  BY DEF Kinds, Key
<1>3. \A j \in moved : j = CE(j[2])
  BY <1>2 DEF CE
<1>4. WireKinds(Normalized(t))
  <2> SUFFICES ASSUME NEW k \in D PROVE Key(k, {"", "cloudEvents:", "cloudEvents_"})
    BY <1>1 DEF WireKinds
  <2>1. CASE k \in kept
    <3>1. k = <<k[1], k[2]>> /\ k[1] \in {"", "cloudEvents:", "cloudEvents_"}
      BY <1>2, <2>1
    <3> QED
      BY <3>1 DEF Key
  <2>2. ASSUME NEW j \in moved, k = AMQPCEHeaderKey(j[2])
        PROVE  Key(k, {"", "cloudEvents:", "cloudEvents_"})
    BY <1>3, <2>2 DEF AMQPCEHeaderKey, Key
  <2> QED
    BY <2>1, <2>2
<1>5. K[1] # "ce-" /\ K = AMQPCEHeaderKey("id") /\ CE(K[2]) = C /\ C[1] = "ce-" /\ C[2] = "id"
  BY KeysDiffer DEF K, C
<1>6. K \in kept <=> K \in DOMAIN t
  BY <1>5
<1>7. K \in {AMQPCEHeaderKey(j[2]) : j \in moved} <=> C \in DOMAIN t
  <2>1. ASSUME C \in DOMAIN t PROVE K \in {AMQPCEHeaderKey(j[2]) : j \in moved}
    BY <1>5, <2>1
  <2>2. ASSUME NEW j \in moved, K = AMQPCEHeaderKey(j[2]) PROVE C \in DOMAIN t
    <3>1. j[2] = "id"
      BY <1>5, <2>2 DEF AMQPCEHeaderKey
    <3> QED
      BY <1>3, <3>1 DEF C
  <2> QED
    BY <2>1, <2>2
<1>8. ASSUME \A k \in D : k[1] = "", NEW k \in DOMAIN t PROVE k[1] = ""
  <2>1. CASE k \in kept
    BY <1>8, <2>1
  <2>2. CASE k \in moved
    <3>1. AMQPCEHeaderKey(k[2]) \in D /\ AMQPCEHeaderKey(k[2])[1] = "cloudEvents:"
      BY <2>2 DEF AMQPCEHeaderKey
    <3> QED
      BY <1>8, <3>1
  <2> QED
    BY <2>1, <2>2
<1>9. SameJ(t, Normalized(t))
  <2>1. J[1] = "cloudEvents_"
    BY KeysDiffer DEF J
  <2>2. J \in kept <=> J \in DOMAIN t
    BY <2>1
  <2>3. \A j \in moved : AMQPCEHeaderKey(j[2]) # J
    BY <2>1 DEF AMQPCEHeaderKey
  <2> HIDE DEF moved, kept
  <2> QED
    BY <1>1, <2>2, <2>3 DEF SameJ
<1> HIDE DEF moved, kept
<1> QED
  BY <1>1, <1>4, <1>5, <1>6, <1>7, <1>8, <1>9

(* What a handler makes of the value of an id.                             *)
Read(v) == IF v = NotAString THEN "" ELSE v

(* What the consumer may take for the id of a message: what one of the two *)
(* spellings on the wire says, and nothing only if there is none.          *)
LEMMA ReadId ==
    ASSUME NEW w, WireKinds(w), NEW legacy, NEW own, NEW id \in metadataID(w, legacy, own)
    PROVE  \/ legacy /\ (\A k \in DOMAIN w : k[1] = "") /\ id = own
           \/ K \in DOMAIN w /\ id = Read(w[K])
           \/ J \in DOMAIN w /\ id = Read(w[J])
           \/ K \notin DOMAIN w /\ J \notin DOMAIN w /\ id = ""
<1>1. C \notin DOMAIN w
  BY KeysDiffer DEF WireKinds, Key, C
<1>2. \A k : k \in DOMAIN w \cap Spellings("id") <=> k \in DOMAIN w /\ (k = K \/ k = J)
  BY <1>1 DEF Spellings, C, K, J
<1>3. NormalizeCEHeaders(w, "id") = {w[k] : k \in DOMAIN w \cap Spellings("id")}
  BY DEF NormalizeCEHeaders
<1>4. CASE legacy /\ ~HasCEHeaders(w)
  BY <1>4 DEF metadataID, HasCEHeaders
<1>5. CASE ~(legacy /\ ~HasCEHeaders(w)) /\ NormalizeCEHeaders(w, "id") = {}
  <2>1. id = ""
    BY <1>5 DEF metadataID
  <2>2. K \notin DOMAIN w /\ J \notin DOMAIN w
    BY <1>2, <1>3, <1>5
  <2> QED
    BY <2>1, <2>2
<1>6. CASE ~(legacy /\ ~HasCEHeaders(w)) /\ NormalizeCEHeaders(w, "id") # {}
  <2>1. PICK v \in NormalizeCEHeaders(w, "id") : id = IF v = NotAString THEN "" ELSE v
    BY <1>6 DEF metadataID
  <2>2. PICK k \in DOMAIN w \cap Spellings("id") : v = w[k]
    BY <1>3, <2>1
  <2>3. id = Read(w[k])
    BY <2>1, <2>2 DEF Read
  <2> QED
    BY <1>2, <2>2, <2>3
<1> QED
  BY <1>4, <1>5, <1>6

(* PublishRaw keeps one of the values of the id, and adds none.            *)
LEMMA RawId ==
    ASSUME NEW t, Kinds(t), NEW w \in PublishRaw(t)
    PROVE  /\ WireKinds(w) /\ SameJ(t, w)
           /\ K \in DOMAIN w => Spelled(t, w[K])
           /\ K \notin DOMAIN w => K \notin DOMAIN t /\ C \notin DOMAIN t
           /\ (\A k \in DOMAIN w : k[1] = "") => \A k \in DOMAIN t : k[1] = ""
<1>1. /\ DOMAIN w = DOMAIN Normalized(t)
      /\ \A k \in DOMAIN w :
            \/ k \in DOMAIN t /\ w[k] = t[k]
            \/ k[1] = "cloudEvents:" /\ CE(k[2]) \in DOMAIN t /\ w[k] = t[CE(k[2])]
  BY DEF PublishRaw
<1>2. CE(K[2]) = C
  BY KeysDiffer DEF K, C
<1>3. K \in DOMAIN w => Spelled(t, w[K])
  BY <1>1, <1>2 DEF Spelled
<1>4. K \notin DOMAIN w => K \notin DOMAIN t /\ C \notin DOMAIN t
  BY <1>1, NormalizedId
<1>5. SameJ(t, w)
  <2>1. J[1] # "cloudEvents:"
    BY KeysDiffer DEF J
  <2>2. J \in DOMAIN w <=> J \in DOMAIN t
    BY <1>1, NormalizedId DEF SameJ
  <2> QED
    BY <1>1, <2>1, <2>2 DEF SameJ
<1> QED
  BY <1>1, <1>3, <1>4, <1>5, NormalizedId DEF WireKinds

(* Publish keeps a usable id, and makes one up for a message without.      *)
LEMMA PublishedId ==
    ASSUME NEW t, Kinds(t), NEW source, NEW uuid, NEW span
    PROVE  LET w == Publish(t, source, uuid, span)
           IN  /\ WireKinds(w) /\ K \in DOMAIN w /\ SameJ(t, w)
               /\ \E v : /\ Spelled(t, v)
                         /\ w[K] = IF v \in {Missing, NotAString, ""} THEN uuid ELSE v
<1> DEFINE e == Entry(headerService, source)
           o == Over(e, t)
           s == Entry(AMQPCEHeaderKey("source"), source)
           n == Over(s, Normalized(o))
           d == Entry(AMQPCEHeaderKey("id"), MessageID(n, uuid))
           i == Over(n, d)
           p == Entry(traceparent, span)
           w == Over(i, p)
<1>1. Publish(t, source, uuid, span) = w
  BY DEF Publish, publishMessage, injectToHeaders
<1>2. \A k \in DOMAIN o : k \in DOMAIN t \/ k = headerService
  BY OverAt DEF Entry
<1>3. Kinds(o)
  <2>1. Key(headerService, {"", "ce-", "cloudEvents:", "cloudEvents_"})
    BY DEF headerService, Plain, Key
  <2> QED
    BY <1>2, <2>1 DEF Kinds
<1>4. /\ K \in DOMAIN o <=> K \in DOMAIN t
      /\ C \in DOMAIN o <=> C \in DOMAIN t
      /\ K \in DOMAIN t => o[K] = t[K]
      /\ C \in DOMAIN t => o[C] = t[C]
      /\ J \in DOMAIN o <=> J \in DOMAIN t
      /\ J \in DOMAIN t => o[J] = t[J]
  <2>1. K # headerService /\ C # headerService /\ J # headerService
    BY KeysDiffer DEF K, C, J
  <2> QED
    BY <1>2, <2>1, OverAt
<1> DEFINE v == At(Normalized(o), K)
<1>5. Spelled(t, v)
  BY <1>3, <1>4, NormalizedId DEF Spelled, At
<1>6. At(n, K) = v /\ (K \in DOMAIN n => n[K] = At(n, K))
  <2>1. K \notin DOMAIN s
    BY KeysDiffer DEF Entry, K
  <2> HIDE DEF s, o
  <2>2. /\ K \in DOMAIN n <=> K \in DOMAIN Normalized(o)
        /\ K \in DOMAIN Normalized(o) => n[K] = Normalized(o)[K]
    BY <2>1, OverAt
  <2> HIDE DEF n
  <2> QED
    BY <2>2 DEF At
<1>7. MessageID(n, uuid) = IF v \in {Missing, NotAString, ""} THEN uuid ELSE v
  <2>1. MessageID(n, uuid) = IF At(n, K) \in {Missing, NotAString, ""} THEN uuid ELSE n[K]
    BY DEF MessageID, K
  <2>2. At(n, K) # Missing => K \in DOMAIN n
    BY DEF At
  <2> HIDE DEF n, v
  <2> QED
    BY <1>6, <2>1, <2>2
<1>8. K \in DOMAIN w /\ w[K] = MessageID(n, uuid)
  <2>1. K \in DOMAIN d /\ d[K] = MessageID(n, uuid)
    BY DEF Entry, K
  <2>2. K \notin DOMAIN p
    BY KeysDiffer DEF Entry, K
  <2> HIDE DEF d, p, n
  <2>3. K \in DOMAIN i /\ i[K] = MessageID(n, uuid)
    BY <2>1, OverAt
  <2> HIDE DEF i
  <2> QED
    BY <2>2, <2>3, OverAt
<1>9. WireKinds(w)
  <2>1. /\ Key(AMQPCEHeaderKey("source"), {"", "cloudEvents:", "cloudEvents_"})
        /\ Key(AMQPCEHeaderKey("id"), {"", "cloudEvents:", "cloudEvents_"})
        /\ Key(traceparent, {"", "cloudEvents:", "cloudEvents_"})
    BY DEF AMQPCEHeaderKey, traceparent, Plain, Key
  <2>2. \A k \in DOMAIN Normalized(o) : Key(k, {"", "cloudEvents:", "cloudEvents_"})
    BY <1>3, NormalizedId DEF WireKinds
  <2>3. \A k \in DOMAIN w : \/ k \in DOMAIN Normalized(o) \/ k = traceparent
                            \/ k = AMQPCEHeaderKey("source") \/ k = AMQPCEHeaderKey("id")
    <3>1. /\ \A k \in DOMAIN s : k = AMQPCEHeaderKey("source")
          /\ \A k \in DOMAIN d : k = AMQPCEHeaderKey("id")
          /\ \A k \in DOMAIN p : k = traceparent
      BY DEF Entry
    <3> HIDE DEF s, d, p, o
    <3>2. \A k \in DOMAIN n : k \in DOMAIN s \/ k \in DOMAIN Normalized(o)
      BY OverAt
    <3> HIDE DEF n
    <3>3. \A k \in DOMAIN i : k \in DOMAIN n \/ k \in DOMAIN d
      BY OverAt
    <3> HIDE DEF i
    <3>4. \A k \in DOMAIN w : k \in DOMAIN i \/ k \in DOMAIN p
      BY OverAt
    <3> HIDE DEF w
    <3> QED
      BY <3>1, <3>2, <3>3, <3>4
  <2> HIDE DEF w, o
  <2> QED
    BY <2>1, <2>2, <2>3 DEF WireKinds
<1>10. SameJ(t, w)
  <2>1. J \notin DOMAIN s /\ J \notin DOMAIN d /\ J \notin DOMAIN p
    BY KeysDiffer DEF Entry, J
  <2>2. SameJ(o, Normalized(o))
    BY <1>3, NormalizedId
  <2> HIDE DEF s, d, p, o
  <2>3. J \in DOMAIN n <=> J \in DOMAIN Normalized(o)
    BY <2>1, OverAt
  <2>4. J \in DOMAIN Normalized(o) => n[J] = Normalized(o)[J]
    BY OverAt
  <2> HIDE DEF n
  <2>5. (J \in DOMAIN i <=> J \in DOMAIN n) /\ (J \in DOMAIN n => i[J] = n[J])
    BY <2>1, OverAt
  <2> HIDE DEF i
  <2>6. (J \in DOMAIN w <=> J \in DOMAIN i) /\ (J \in DOMAIN i => w[J] = i[J])
    BY <2>1, OverAt
  <2> HIDE DEF w
  <2> QED
    BY <1>4, <2>2, <2>3, <2>4, <2>5, <2>6 DEF SameJ
<1> HIDE DEF w, n, v
<1> QED
  BY <1>1, <1>5, <1>7, <1>8, <1>9, <1>10

(* Where the id the handler sees comes from, for a message with headers t  *)
(* whose id has the spellings keys.                                        *)
Sources(raw, t, keys, legacy, id) ==
    \/ raw /\ legacy /\ (\A k \in DOMAIN t : k[1] = "") /\ id = Own
    \/ raw /\ keys = {} /\ id = ""
    \/ raw /\ \E k \in keys : id = Read(t[k])
    \/ ~raw /\ J \in keys /\ id = Read(t[J])
    \/ ~raw /\ \E k \in keys \ {J} : t[k] \notin {NotAString, ""} /\ id = t[k]
    \/ /\ ~raw /\ id = "uuid"
       /\ keys \subseteq {J} \/ \E k \in keys \ {J} : t[k] \in {NotAString, ""}

(* It has no other source.                                                 *)
LEMMA IdSource ==
    ASSUME NEW raw \in BOOLEAN, NEW t, Kinds(t), NEW legacy \in BOOLEAN,
           \A k \in DOMAIN t : t[k] \notin {Missing, "uuid", Own}, NEW source, NEW w,
           w \in IF raw THEN PublishRaw(t) ELSE {Publish(t, source, "uuid", Trace)},
           NEW id \in metadataID(w, legacy, Own)
    PROVE  Sources(raw, t, DOMAIN t \cap Spellings("id"), legacy, id)
<1> DEFINE keys == DOMAIN t \cap Spellings("id")
<1>1. \A k : k \in keys <=> k \in DOMAIN t /\ (k = C \/ k = K \/ k = J)
  BY DEF Spellings, C, K, J
<1>2. C # J /\ K # J
  BY KeysDiffer DEF C, K, J
<1>3. ASSUME NEW v, Spelled(t, v)
      PROVE  \/ v = Missing /\ keys \subseteq {J}
             \/ v # Missing /\ \E k \in keys \ {J} : v = t[k]
  BY <1>1, <1>2, <1>3 DEF Spelled
<1> HIDE DEF keys
<1>4. CASE raw
  <2>1. w \in PublishRaw(t)
    BY <1>4
  <2>2. /\ WireKinds(w) /\ SameJ(t, w)
        /\ K \in DOMAIN w => Spelled(t, w[K])
        /\ K \notin DOMAIN w => K \notin DOMAIN t /\ C \notin DOMAIN t
        /\ (\A k \in DOMAIN w : k[1] = "") => \A k \in DOMAIN t : k[1] = ""
    BY <2>1, RawId
  <2>3. CASE legacy /\ (\A k \in DOMAIN w : k[1] = "") /\ id = Own
    BY <1>4, <2>2, <2>3 DEF Sources, keys
  <2>4. CASE K \in DOMAIN w /\ id = Read(w[K])
    <3>1. \E k \in keys : w[K] = t[k]
      <4>1. K \in DOMAIN t \/ C \in DOMAIN t
        <5>1. DOMAIN w = DOMAIN Normalized(t)
          BY <2>1 DEF PublishRaw
        <5> QED
          BY <2>4, <5>1, NormalizedId
      <4> QED
        BY <1>1, <2>2, <2>4, <4>1 DEF Spelled
    <3>2. \E k \in keys : id = Read(t[k])
      BY <2>4, <3>1
    <3> QED
      BY <1>4, <3>2 DEF Sources, keys
  <2>5. CASE J \in DOMAIN w /\ id = Read(w[J])
    <3>1. J \in keys /\ id = Read(t[J])
      BY <1>1, <2>2, <2>5 DEF SameJ
    <3> QED
      BY <1>4, <3>1 DEF Sources, keys
  <2>6. CASE K \notin DOMAIN w /\ J \notin DOMAIN w /\ id = ""
    <3>1. keys = {}
      BY <1>1, <2>2, <2>6 DEF SameJ
    <3> QED
      BY <1>4, <2>6, <3>1 DEF Sources, keys
  <2> QED
    BY <2>2, <2>3, <2>4, <2>5, <2>6, ReadId
<1>5. CASE ~raw
  <2>1. w = Publish(t, source, "uuid", Trace)
    BY <1>5
  <2>2. WireKinds(w) /\ K \in DOMAIN w /\ SameJ(t, w)
    BY <2>1, PublishedId
  <2>3. PICK v : /\ Spelled(t, v)
                 /\ w[K] = IF v \in {Missing, NotAString, ""} THEN "uuid" ELSE v
    BY <2>1, PublishedId
  <2>4. ~(\A k \in DOMAIN w : k[1] = "")
    BY <2>2, KeysDiffer DEF K
  <2>5. CASE id = Read(w[K])
    <3>1. "uuid" # NotAString
      BY DEF NotAString
    <3>2. \/ v \in {Missing, NotAString, ""} /\ id = "uuid"
          \/ v \notin {Missing, NotAString, ""} /\ id = v
      BY <2>3, <2>5, <3>1 DEF Read
    <3>3. \/ ~raw /\ (\E k \in keys \ {J} : t[k] \notin {NotAString, ""} /\ id = t[k])
          \/ /\ ~raw /\ id = "uuid"
             /\ keys \subseteq {J} \/ \E k \in keys \ {J} : t[k] \in {NotAString, ""}
      BY <1>3, <1>5, <2>3, <3>2
    <3> QED
      BY <3>3 DEF Sources, keys
  <2>6. CASE J \in DOMAIN w /\ id = Read(w[J])
    <3>1. J \in keys /\ id = Read(t[J])
      BY <1>1, <2>2, <2>6 DEF SameJ
    <3> QED
      BY <1>5, <3>1 DEF Sources, keys
  <2> QED
    BY <2>2, <2>4, <2>5, <2>6, ReadId
<1> QED
  BY <1>4, <1>5

(* What IdIsKept says of an id seen for a message with headers t.          *)
Kept(raw, t, legacy, id) ==
    LET keys == DOMAIN t \cap Spellings("id")
        given == {t[k] : k \in keys} \ {NotAString, ""}
        unusable == {k \in keys : t[k] \notin given}
    IN  /\ id \in given \cup {"uuid", Own, ""}
        /\ Cardinality(keys) = 1 /\ given # {} /\ (raw \/ JMSHeaderKey("id") \notin keys)
              => id \in given
        /\ id = "uuid" => ~raw
        /\ id = "" => IF raw THEN keys = {} \/ unusable # {}
                      ELSE JMSHeaderKey("id") \in unusable
        /\ id = Own => legacy /\ \A k \in DOMAIN t : k[1] = ""

(* It holds for each message and each way to publish it.                   *)
LEMMA IdOfMessage ==
    ASSUME NEW raw \in BOOLEAN, NEW t, NEW legacy \in BOOLEAN, NEW id,
           \A k \in DOMAIN t : t[k] \notin {Missing, "uuid", Own},
           Sources(raw, t, DOMAIN t \cap Spellings("id"), legacy, id)
    PROVE  Kept(raw, t, legacy, id)
<1> DEFINE keys == DOMAIN t \cap Spellings("id")
           given == {t[k] : k \in keys} \ {NotAString, ""}
           unusable == {k \in keys : t[k] \notin given}
           plain == \A k \in DOMAIN t : k[1] = ""
<1>1. /\ keys \subseteq DOMAIN t
      /\ \A k : k \in keys <=> k \in DOMAIN t /\ (k = C \/ k = K \/ k = J)
  BY DEF Spellings, C, K, J
<1>2. plain => keys = {}
  BY <1>1, KeysDiffer DEF C, K, J
<1>3. \A k \in keys : t[k] \notin {"uuid", Own}
  BY <1>1
<1>4. \A k \in keys : t[k] \in given <=> t[k] \notin {NotAString, ""}
  OBVIOUS
<1>5. \A k \in keys : /\ t[k] \in given => Read(t[k]) = t[k] /\ t[k] # ""
                      /\ t[k] \notin given => Read(t[k]) = "" /\ k \in unusable
                      /\ Read(t[k]) \notin {"uuid", Own}
  BY <1>3, <1>4 DEF Read, Own, NotAString
<1>6. "uuid" # Own /\ "uuid" # "" /\ Own # ""
  BY DEF Own
<1>7. \/ raw /\ legacy /\ plain /\ id = Own
      \/ raw /\ keys = {} /\ id = ""
      \/ raw /\ \E k \in keys : id = Read(t[k])
      \/ ~raw /\ J \in keys /\ id = Read(t[J])
      \/ ~raw /\ \E k \in keys \ {J} : t[k] \in given /\ id = t[k]
      \/ /\ ~raw /\ id = "uuid"
         /\ keys \subseteq {J} \/ \E k \in keys \ {J} : t[k] \notin given
  BY <1>4 DEF Sources
<1>8. J = JMSHeaderKey("id")
  BY DEF J
<1>9. Cardinality(keys) = 1 /\ given # {} => \E x \in keys : keys = {x} /\ t[x] \in given
  <2> SUFFICES ASSUME Cardinality(keys) = 1, given # {}
               PROVE  \E x \in keys : keys = {x} /\ t[x] \in given
    OBVIOUS
  <2>1. IsFiniteSet(Spellings("id"))
    <3>1. IsFiniteSet({CE("id")} \cup {AMQPCEHeaderKey("id")})
      BY FS_Singleton, FS_AddElement
    <3>2. IsFiniteSet(({CE("id")} \cup {AMQPCEHeaderKey("id")}) \cup {JMSHeaderKey("id")})
      BY <3>1, FS_AddElement
    <3>3. ({CE("id")} \cup {AMQPCEHeaderKey("id")}) \cup {JMSHeaderKey("id")} = Spellings("id")
      BY DEF Spellings
    <3> QED
      BY <3>2, <3>3
  <2>2. IsFiniteSet(keys)
    BY <2>1, FS_Subset
  <2>3. PICK x : keys = {x}
    BY <2>2, FS_Singleton
  <2>4. \E k \in keys : t[k] \in given
    OBVIOUS
  <2> HIDE DEF keys, given
  <2> QED
    BY <2>3, <2>4
<1> HIDE DEF keys, given, unusable, plain
<1>10. id \in given \cup {"uuid", Own, ""}
  BY <1>5, <1>7
<1>11. ASSUME Cardinality(keys) = 1, given # {}, raw \/ J \notin keys PROVE id \in given
  <2>1. PICK x \in keys : keys = {x} /\ t[x] \in given
    BY <1>9, <1>11
  <2>2. ~plain /\ keys # {} /\ (J \in keys => raw)
    BY <1>2, <1>11, <2>1
  <2>3. \A k \in keys : t[k] \in given /\ Read(t[k]) \in given
    BY <1>5, <2>1
  <2> QED
    BY <1>7, <2>2, <2>3
<1>12. id = "uuid" => ~raw
  BY <1>5, <1>6, <1>7
<1>13. id = "" => IF raw THEN keys = {} \/ unusable # {} ELSE J \in unusable
  BY <1>5, <1>6, <1>7
<1>14. id = Own => legacy /\ plain
  BY <1>3, <1>5, <1>6, <1>7
<1> QED
  BY <1>8, <1>10, <1>11, <1>12, <1>13, <1>14 DEF Kept, keys, given, unusable, plain

-----------------------------------------------------------------------------
(* The request queue.                                                      *)
P == INSTANCE ConsumerBoundProofs WITH Unrouted <- {}, Unparsable <- {}, Untyped <- {}

(* The actions of the two instances of Consumer are the same.              *)
LEMMA SameBroker ==
    ASSUME NEW r
    PROVE  /\ Requests!Join(r) = P!Join(r)
           /\ Requests!Activate(r) = P!Activate(r)
           /\ \A m : Requests!Deliver(r, m) => P!Deliver(r, m)
           /\ Requests!Lose(r) = P!Lose(r)
           /\ Requests!Leave(r) = P!Leave(r)
           /\ Requests!Crash(r) = P!Crash(r)
           /\ Requests!Restart(r) = P!Restart(r)
           /\ Requests!Expire = P!Expire
<1> USE DEF Requests!brokerVars, Requests!loopVars, Requests!countVars,
            P!brokerVars, P!loopVars, P!countVars
<1>1. Requests!Msgs = P!Msgs /\ Requests!Exclusive = P!Exclusive
  BY DEF Requests!Msgs, P!Msgs, Requests!Exclusive, P!Exclusive
<1>2. Requests!Join(r) = P!Join(r) /\ Requests!Activate(r) = P!Activate(r)
  BY <1>1 DEF Requests!Join, P!Join, Requests!Activate, P!Activate
<1>3. Requests!Ready = P!Ready /\ Requests!Unacked(r) = P!Unacked(r)
  BY <1>1 DEF Requests!Ready, P!Ready, Requests!Unacked, P!Unacked
<1>a. Requests!Cardinality(P!Unacked(r)) = P!Cardinality(P!Unacked(r))
  BY DEF Requests!Cardinality, P!Cardinality
<1>4. ASSUME NEW m, Requests!Deliver(r, m) PROVE P!Deliver(r, m)
  BY <1>1, <1>3, <1>4, <1>a DEF Requests!Deliver, P!Deliver
<1>b. \A m : Requests!Returned(m) = P!Returned(m)
  BY DEF Requests!Returned, P!Returned
<1>5. Requests!Drop(r) = P!Drop(r)
  BY <1>1, <1>b DEF Requests!Drop, P!Drop
<1>6. Requests!Forget(r) = P!Forget(r)
  BY DEF Requests!Forget, P!Forget
<1>7. /\ Requests!Lose(r) = P!Lose(r) /\ Requests!Leave(r) = P!Leave(r)
      /\ Requests!Crash(r) = P!Crash(r) /\ Requests!Restart(r) = P!Restart(r)
  BY <1>5, <1>6 DEF Requests!Lose, P!Lose, Requests!Leave, P!Leave, Requests!Crash, P!Crash,
                    Requests!Restart, P!Restart
<1>8. Requests!Expire = P!Expire
  BY <1>1 DEF Requests!Expire, P!Expire
<1> QED
  BY <1>2, <1>4, <1>7, <1>8

(* And so are those of the loop.                                           *)
LEMMA SameLoop ==
    ASSUME NEW r
    PROVE  /\ Requests!Take(r) = P!Take(r)
           /\ Requests!HandlerSucceeds(r) = P!HandlerSucceeds(r)
           /\ Requests!HandlerFails(r, "error") = P!HandlerFails(r, "error")
           /\ Requests!Settle(r) = P!Settle(r)
           /\ Requests!SettleFails(r) = P!SettleFails(r)
           /\ Requests!Exit(r) = P!Exit(r)
<1> USE DEF Requests!brokerVars, Requests!loopVars, Requests!countVars,
            P!brokerVars, P!loopVars, P!countVars
<1>1. Requests!Take(r) = P!Take(r) /\ Requests!Exit(r) = P!Exit(r)
  BY DEF Requests!Take, P!Take, Requests!Exit, P!Exit
<1>2. \A o, m : /\ Requests!Settlement(o, m) = P!Settlement(o, m)
                /\ Requests!Requeue(o) = P!Requeue(o)
  BY DEF Requests!Settlement, P!Settlement, Requests!Requeue, P!Requeue, Requests!Returned,
         P!Returned
<1>3. Requests!Settle(r) = P!Settle(r)
  BY <1>2 DEF Requests!Settle, P!Settle
<1>4. Requests!SettleFails(r) = P!SettleFails(r)
  BY DEF Requests!SettleFails, P!SettleFails
<1>5. \A n : Requests!Notify(n) = P!Notify(n)
  BY DEF Requests!Notify, P!Notify
<1>6. Requests!HandlerResults(cur[r]) = P!HandlerResults(cur[r])
  BY DEF Requests!HandlerResults, P!HandlerResults
<1>7. Requests!HandlerSucceeds(r) = P!HandlerSucceeds(r)
  BY <1>5, <1>6 DEF Requests!HandlerSucceeds, P!HandlerSucceeds
<1>8. Requests!HandlerFails(r, "error") = P!HandlerFails(r, "error")
  BY <1>5, <1>6 DEF Requests!HandlerFails, P!HandlerFails
<1> QED
  BY <1>1, <1>3, <1>4, <1>7, <1>8

(* Every step is a step of the queue and its consumers, or leaves them be. *)
LEMMA QueueStep == [Next]_vars => [P!Next]_(P!vars)
<1> SUFFICES ASSUME [Next]_vars PROVE [P!Next]_(P!vars)
  OBVIOUS
<1>1. UNCHANGED consumerVars => UNCHANGED P!vars
  BY DEF consumerVars, P!vars, P!brokerVars, P!loopVars, P!countVars
<1>2. CASE UNCHANGED vars
  BY <1>1, <1>2 DEF vars
<1>3. ASSUME NEW r \in Replicas,
             \/ Handle(r) \/ Route(r)
      PROVE  UNCHANGED P!vars
  BY <1>1, <1>3 DEF Handle, Route
<1>4. ASSUME NEW r \in Replicas,
             \/ Join(r) \/ Activate(r) \/ Unlink(r) \/ Crash(r) \/ Restart(r)
             \/ \E m \in Msgs : Deliver(r, m)
      PROVE  P!Next
  <2>1. \/ P!Join(r) \/ P!Activate(r) \/ P!Lose(r) \/ P!Leave(r) \/ P!Crash(r) \/ P!Restart(r)
        \/ \E m \in Msgs : P!Deliver(r, m)
    BY <1>4, SameBroker DEF Join, Activate, Unlink, Crash, Restart, Deliver
  <2>2. Msgs = P!Msgs
    BY DEF Msgs, Requests!Msgs, P!Msgs
  <2> QED
    BY <2>1, <2>2 DEF P!Next
<1>5. ASSUME NEW r \in Replicas,
             \/ LoopStep(r) \/ Fail(r) \/ NoSender(r) \/ Respond(r) \/ RespondFails(r)
      PROVE  P!Next
  <2>1. \/ P!Take(r) \/ P!Settle(r) \/ P!SettleFails(r) \/ P!Exit(r)
        \/ P!HandlerSucceeds(r) \/ P!HandlerFails(r, "error")
    BY <1>5, SameLoop DEF LoopStep, Fail, NoSender, Respond, RespondFails
  <2>2. P!Loop(r)
    BY <2>1 DEF P!Loop, P!Handling, P!Results
  <2> QED
    BY <2>2 DEF P!Next
<1>6. ASSUME Expire PROVE P!Next
  BY <1>6, SameBroker DEF Expire, P!Next
<1> QED
  BY <1>2, <1>3, <1>4, <1>5, <1>6 DEF Next, Work

(* The request queue begins as any queue does.                             *)
LEMMA QueueInit == Init => P!Init
<1>1. Requests!Msgs = P!Msgs
  BY DEF Requests!Msgs, P!Msgs
<1> QED
  BY <1>1 DEF Init, Requests!Init, P!Init

(* With the wrapped handler a service is still one consumer loop for each  *)
(* replica: whatever RequestResponse does, Consumer can do, the response   *)
(* being written somewhere within the call of the handler.                 *)
THEOREM ImplementsConsumer == Spec => P!Spec
BY QueueInit, QueueStep, PTL DEF Spec, P!Spec

(* What is proved of every queue holds for the requests.                   *)
LEMMA Queue == Spec => [](P!IInv /\ P!BoundInv)
<1>1. Init => P!IInv /\ P!BoundInv
  BY QueueInit, P!InitIInv, P!InitBound, QueueAssumption
<1>2. P!IInv /\ P!BoundInv /\ [Next]_vars => P!IInv' /\ P!BoundInv'
  BY QueueStep, P!NextIInv, P!NextBound, QueueAssumption
<1> QED
  BY <1>1, <1>2, PTL DEF Spec

-----------------------------------------------------------------------------
(* The inductive invariant.                                                *)

(* The requests are on the wire as one of the batches was published.       *)
WayInv ==
    /\ way \in Batches
    /\ \A m \in Msgs : Accepted(way[m]) /\ wire[m] \in OnWire(way[m])

(* A response is pending only while its request is being handled.          *)
RespInv ==
    /\ responding \subseteq Replicas
    /\ \A r \in responding : pc[r] = "handling"

(* What is written is an answer to a request that names its sender.        *)
Answers == {[to |-> m, table |-> Response(m)] : m \in {n \in Msgs : Named(n)}}
FlightInv == flight \in [Replicas -> Seq(Answers)]

(* What a caller has handled is an answer to a request that names it.      *)
HomeInv ==
    /\ inbox \in [Callers -> [Msgs -> Nat]]
    /\ \A c \in Callers, m \in Msgs :
          inbox[c][m] > 0 => Named(m) /\ c = sendingService(wire[m])

(* A request handled with success has its answer somewhere.                *)
Traced(m) == Answered(m) \/ (\E r \in Replicas : Flying(r, m) # {}) \/ m \in lost
AnswerInv ==
    /\ \A m \in Msgs : success[m] > 0 => Named(m) /\ (Answerable(m) => Traced(m))
    /\ lost # {} => losses > 0

(* The answers to m on their way. With those a caller has handled they are *)
(* no more than the successes.                                             *)
Sent(m) == {x \in Replicas \X Nat : x[2] \in Flying(x[1], m)}
SentInv ==
    \A m \in Msgs :
        /\ IsFiniteSet(Sent(m))
        /\ \A c \in Callers : inbox[c][m] + Cardinality(Sent(m)) <= success[m]

(* The account of ConsumerBoundProofs, kept for the calls of the           *)
(* application: they come before the successes, which wait for the answer. *)
TodoA(r) ==
    P!Elems(buffer[r]) \cup
        (IF pc[r] = "handling" /\ r \notin responding THEN {cur[r]} ELSE {})
LateA(m) == {r \in Replicas : link[r] # "up" /\ m \in TodoA(r)}
AckingA(r, m) ==
    /\ link[r] = "up" /\ cur[r] = m
    /\ \/ pc[r] = "handling" /\ r \in responding
       \/ pc[r] = "settling" /\ outcome[r] = "nil"
SpentA(m) == gone[m] # "no" \/ \E r \in Replicas : AckingA(r, m)
PaidA(m) ==
    /\ IsFiniteSet(LateA(m))
    /\ handled[m] + Cardinality(LateA(m)) + (IF SpentA(m) THEN 0 ELSE 1) <= losses + 1 + unsent[m]
HandledInv ==
    /\ handled \in [Msgs -> Nat] /\ unsent \in [Msgs -> Nat]
    /\ \A m \in Msgs : Named(m) => PaidA(m)

RpcInv == WayInv /\ RespInv /\ FlightInv /\ HomeInv /\ AnswerInv /\ SentInv /\ HandledInv

(* Requests do not change on the wire, nor what they say.                  *)
LEMMA Fixed ==
    ASSUME [Next]_vars
    PROVE  /\ way' = way /\ wire' = wire /\ Answers' = Answers
           /\ \A m : Named(m)' = Named(m) /\ Answerable(m)' = Answerable(m)
<1>1. way' = way /\ wire' = wire
  BY DEF Next, vars, rpcVars, Work, Join, Activate, Unlink, Crash, Restart, Deliver, LoopStep,
         Handle, Fail, NoSender, Respond, RespondFails, Route, Expire
<1>2. \A m : /\ Named(m)' = Named(m) /\ Answerable(m)' = Answerable(m)
             /\ Response(m)' = Response(m)
  BY <1>1 DEF Named, Answerable, Response
<1>3. Answers' = Answers
  BY <1>2 DEF Answers
<1> QED
  BY <1>1, <1>2, <1>3

(* The types of what the queue keeps.                                      *)
LEMMA QueueTyped ==
    ASSUME P!IInv
    PROVE  /\ Msgs = 1..NumMsgs /\ Msgs = P!Msgs
           /\ DOMAIN pc = Replicas /\ DOMAIN success = Msgs
           /\ losses \in Nat
           /\ \A m \in Msgs : success[m] \in Nat
           /\ \A r \in Replicas : pc[r] \in {"handling", "settling"} => cur[r] \in Msgs
<1>1. Msgs = 1..NumMsgs /\ Msgs = P!Msgs
  BY DEF Msgs, Requests!Msgs, P!Msgs
<1>2. /\ DOMAIN pc = Replicas /\ DOMAIN success = P!Msgs /\ P!TypeOK /\ P!BusyInv
      /\ losses \in Nat /\ \A m \in P!Msgs : success[m] \in Nat
  BY P!Typed, P!Counts, QueueAssumption
<1>3. \A r \in Replicas : pc[r] \in {"handling", "settling"} => cur[r] \in P!Msgs
  BY <1>2, P!BusyAt, QueueAssumption
<1> QED
  BY <1>1, <1>2, <1>3

(* The steps that touch answers or the counts they are held against.       *)
LEMMA AnswerSteps ==
    ASSUME [Next]_vars
    PROVE  \/ UNCHANGED <<flight, inbox, lost, success, losses>>
           \/ \E r \in Replicas : Respond(r) \/ Route(r) \/ Unlink(r) \/ Crash(r)
<1> USE DEF rpcVars, Requests!brokerVars, Requests!loopVars, Requests!countVars
<1>1. CASE UNCHANGED vars
  BY <1>1 DEF vars, consumerVars
<1>2. ASSUME NEW r \in Replicas, Join(r) \/ Activate(r) \/ Restart(r)
      PROVE  UNCHANGED <<flight, inbox, lost, success, losses>>
  BY <1>2 DEF Join, Activate, Restart, Requests!Join, Requests!Activate, Requests!Restart,
              Requests!Forget
<1>3. ASSUME NEW r \in Replicas, NEW m \in Msgs, Deliver(r, m)
      PROVE  UNCHANGED <<flight, inbox, lost, success, losses>>
  BY <1>3 DEF Deliver, Requests!Deliver
<1>4. ASSUME NEW r \in Replicas, LoopStep(r)
      PROVE  UNCHANGED <<flight, inbox, lost, success, losses>>
  BY <1>4 DEF LoopStep, Requests!Take, Requests!Settle, Requests!SettleFails, Requests!Exit
<1>5. ASSUME NEW r \in Replicas, Handle(r)
      PROVE  UNCHANGED <<flight, inbox, lost, success, losses>>
  BY <1>5 DEF Handle, consumerVars
<1>6. ASSUME NEW r \in Replicas, Fail(r) \/ NoSender(r) \/ RespondFails(r)
      PROVE  UNCHANGED <<flight, inbox, lost, success, losses>>
  BY <1>6 DEF Fail, NoSender, RespondFails, Requests!HandlerFails
<1>7. CASE Expire
  BY <1>7 DEF Expire, Requests!Expire
<1> QED
  BY <1>1, <1>2, <1>3, <1>4, <1>5, <1>6, <1>7 DEF Next, Work

-----------------------------------------------------------------------------
(* What the three kinds of steps do to the answers on their way.           *)

(* Writing an answer puts it behind those to be routed before it.          *)
LEMMA RespondEffect ==
    ASSUME P!IInv, FlightInv, NEW r \in Replicas, Respond(r)
    PROVE  /\ cur[r] \in Msgs /\ Named(cur[r]) /\ UNCHANGED <<inbox, lost, losses>>
           /\ success'[cur[r]] = success[cur[r]] + 1
           /\ \A m \in Msgs : m # cur[r] => success'[m] = success[m]
           /\ flight' \in [Replicas -> Seq(Answers)]
           /\ \A s \in Replicas, m \in Msgs :
                 s # r \/ m # cur[r] => Flying(s, m)' = Flying(s, m)
           /\ \A m \in Msgs : m = cur[r] =>
                 Flying(r, m)' = Flying(r, m) \cup {Len(flight[r]) + 1}
           /\ Len(flight[r]) \in Nat
<1> DEFINE a == [to |-> cur[r], table |-> Response(cur[r])]
           f == flight[r]
<1>1. /\ pc[r] = "handling" /\ Named(cur[r]) /\ UNCHANGED <<inbox, lost, losses>>
      /\ success' = [success EXCEPT ![cur[r]] = @ + 1]
      /\ flight' = [flight EXCEPT ![r] = Append(f, a)]
  BY DEF Respond, Requests!HandlerSucceeds
<1>2. cur[r] \in Msgs /\ DOMAIN success = Msgs
  BY <1>1, QueueTyped
<1>3. a \in Answers /\ a.to = cur[r]
  BY <1>1, <1>2 DEF Answers
<1>4. f \in Seq(Answers) /\ DOMAIN flight = Replicas
  BY DEF FlightInv
<1> HIDE DEF a, f
<1>5. /\ Append(f, a) \in Seq(Answers) /\ Len(f) \in Nat /\ Len(Append(f, a)) = Len(f) + 1
      /\ Append(f, a)[Len(f) + 1] = a /\ \A i \in 1..Len(f) : Append(f, a)[i] = f[i]
      /\ DOMAIN f = 1..Len(f) /\ DOMAIN Append(f, a) = 1..(Len(f) + 1)
  BY <1>3, <1>4
<1>6. flight'[r] = Append(f, a) /\ \A s \in Replicas : s # r => flight'[s] = flight[s]
  BY <1>1, <1>4
<1>7. flight' \in [Replicas -> Seq(Answers)]
  BY <1>1, <1>5 DEF FlightInv
<1>8. \A s \in Replicas, m \in Msgs : s # r => Flying(s, m)' = Flying(s, m)
  BY <1>6 DEF Flying
<1>9. \A i : i \in 1..(Len(f) + 1) <=> i \in 1..Len(f) \/ i = Len(f) + 1
  BY <1>5
<1>10. \A m : Flying(r, m)' = {i \in DOMAIN Append(f, a) : Append(f, a)[i].to = m}
  BY <1>6 DEF Flying
<1>11. \A m : Flying(r, m) = {i \in DOMAIN f : f[i].to = m}
  BY DEF Flying, f
<1>12. \A m : m # cur[r] => Flying(r, m)' = Flying(r, m)
  <2> SUFFICES ASSUME NEW m, m # cur[r] PROVE Flying(r, m)' = Flying(r, m)
    OBVIOUS
  <2>1. ASSUME NEW i \in 1..(Len(f) + 1)
        PROVE  Append(f, a)[i].to = m <=> i \in 1..Len(f) /\ f[i].to = m
    <3>1. i \in 1..Len(f) => Append(f, a)[i] = f[i]
      BY <1>5
    <3>2. i = Len(f) + 1 => Append(f, a)[i].to # m /\ i \notin 1..Len(f)
      BY <1>3, <1>5
    <3> QED
      BY <1>9, <3>1, <3>2
  <2> QED
    BY <1>5, <1>9, <1>10, <1>11, <2>1
<1>13. \A m : m = cur[r] => Flying(r, m)' = Flying(r, m) \cup {Len(f) + 1}
  <2> SUFFICES ASSUME NEW m, m = cur[r] PROVE Flying(r, m)' = Flying(r, m) \cup {Len(f) + 1}
    OBVIOUS
  <2>1. \A i \in 1..Len(f) : Append(f, a)[i].to = f[i].to
    BY <1>5
  <2>2. Append(f, a)[Len(f) + 1].to = m
    BY <1>3, <1>5
  <2> QED
    BY <1>5, <1>9, <1>10, <1>11, <2>1, <2>2
<1>14. /\ success'[cur[r]] = success[cur[r]] + 1
       /\ \A m \in Msgs : m # cur[r] => success'[m] = success[m]
  BY <1>1, <1>2
<1>15. /\ \A s \in Replicas, m \in Msgs :
             s # r \/ m # cur[r] => Flying(s, m)' = Flying(s, m)
  BY <1>8, <1>12
<1> QED
  BY <1>1, <1>2, <1>5, <1>7, <1>13, <1>14, <1>15 DEF f

(* Routing takes the first answer, to a request that names its sender, and *)
(* hands it to that service, if it listens.                                *)
LEMMA RouteEffect ==
    ASSUME FlightInv, NEW r \in Replicas, Route(r)
    PROVE  \E n \in Msgs :
             /\ Named(n)
             /\ inbox' = IF Answerable(n)
                         THEN [inbox EXCEPT ![sendingService(wire[n])][n] = @ + 1] ELSE inbox
             /\ UNCHANGED <<lost, success, losses>>
             /\ flight' \in [Replicas -> Seq(Answers)]
             /\ 1 \in Flying(r, n)
             /\ \A s \in Replicas, m \in Msgs : s # r => Flying(s, m)' = Flying(s, m)
             /\ \A m \in Msgs, i \in Nat \ {0} : i + 1 \in Flying(r, m) <=> i \in Flying(r, m)'
             /\ \A m \in Msgs : /\ m # n => 1 \notin Flying(r, m)
                                /\ Flying(r, m) \subseteq Nat \ {0}
                                /\ Flying(r, m)' \subseteq Nat \ {0}
<1> DEFINE f == flight[r]
<1>1. f \in Seq(Answers) /\ DOMAIN flight = Replicas /\ f # <<>>
  BY DEF FlightInv, Route
<1> HIDE DEF f
<1>2. /\ Head(f) \in Answers /\ Head(f) = f[1] /\ Tail(f) \in Seq(Answers)
      /\ Len(f) \in Nat \ {0} /\ DOMAIN f = 1..Len(f) /\ DOMAIN Tail(f) = 1..(Len(f) - 1)
      /\ \A i \in 1..(Len(f) - 1) : Tail(f)[i] = f[i + 1]
  BY <1>1
<1>3. PICK n \in Msgs : Named(n) /\ Head(f) = [to |-> n, table |-> Response(n)]
  BY <1>2 DEF Answers
<1>4. Head(f).to = n /\ Head(f).table[headerService] = sendingService(wire[n])
  BY <1>3, ResponseNames DEF Response
<1>5. /\ flight' = [flight EXCEPT ![r] = Tail(f)] /\ UNCHANGED <<lost, success, losses>>
      /\ inbox' = IF Head(f).table[headerService] \in Listening /\ Head(f).to \in Claims
                  THEN [inbox EXCEPT ![Head(f).table[headerService]][Head(f).to] = @ + 1]
                  ELSE inbox
  BY DEF Route, consumerVars, f
<1>6. inbox' = IF Answerable(n)
               THEN [inbox EXCEPT ![sendingService(wire[n])][n] = @ + 1] ELSE inbox
  BY <1>4, <1>5 DEF Answerable
<1>7. flight'[r] = Tail(f) /\ \A s \in Replicas : s # r => flight'[s] = flight[s]
  BY <1>1, <1>5
<1>8. flight' \in [Replicas -> Seq(Answers)]
  BY <1>2, <1>5 DEF FlightInv
<1>9. \A s \in Replicas, m \in Msgs : s # r => Flying(s, m)' = Flying(s, m)
  BY <1>7 DEF Flying
<1>10. \A m : Flying(r, m)' = {i \in 1..(Len(f) - 1) : f[i + 1].to = m}
  BY <1>2, <1>7 DEF Flying
<1>11. \A m : Flying(r, m) = {i \in 1..Len(f) : f[i].to = m}
  BY <1>2 DEF Flying, f
<1>12. /\ 1..Len(f) \subseteq Nat \ {0} /\ 1..(Len(f) - 1) \subseteq Nat \ {0}
       /\ \A i \in Nat \ {0} : i + 1 \in 1..Len(f) <=> i \in 1..(Len(f) - 1)
       /\ 1 \in 1..Len(f)
  BY <1>2
<1>13. 1 \in Flying(r, n) /\ \A m : m # n => 1 \notin Flying(r, m)
  BY <1>2, <1>4, <1>11, <1>12
<1>14. \A m \in Msgs, i \in Nat \ {0} : i + 1 \in Flying(r, m) <=> i \in Flying(r, m)'
  BY <1>10, <1>11, <1>12
<1>15. \A m \in Msgs : /\ Flying(r, m) \subseteq Nat \ {0}
                       /\ Flying(r, m)' \subseteq Nat \ {0}
  BY <1>10, <1>11, <1>12
<1> QED
  BY <1>3, <1>5, <1>6, <1>8, <1>9, <1>13, <1>14, <1>15

(* With a link go the answers on it.                                       *)
LEMMA UnlinkEffect ==
    ASSUME P!IInv, FlightInv, NEW r \in Replicas, Unlink(r) \/ Crash(r)
    PROVE  /\ UNCHANGED <<inbox, success>> /\ losses' = losses + 1
           /\ lost' = lost \cup {flight[r][i].to : i \in DOMAIN flight[r]}
           /\ flight' \in [Replicas -> Seq(Answers)]
           /\ \A s \in Replicas, m \in Msgs : s # r => Flying(s, m)' = Flying(s, m)
           /\ \A m \in Msgs : Flying(r, m)' = {}
<1>1. /\ UNCHANGED <<inbox, success>> /\ losses' = losses + 1
      /\ lost' = lost \cup {flight[r][i].to : i \in DOMAIN flight[r]}
      /\ flight' = [flight EXCEPT ![r] = <<>>]
  BY DEF Unlink, Crash, Requests!Lose, Requests!Leave, Requests!Crash, Requests!Drop,
         Requests!Forget, Requests!countVars
<1>2. DOMAIN flight = Replicas
  BY DEF FlightInv
<1>3. flight'[r] = <<>> /\ \A s \in Replicas : s # r => flight'[s] = flight[s]
  BY <1>1, <1>2
<1>4. flight' \in [Replicas -> Seq(Answers)]
  BY <1>1 DEF FlightInv
<1>5. \A m \in Msgs : Flying(r, m)' = {}
  BY <1>3 DEF Flying
<1> QED
  BY <1>1, <1>3, <1>4, <1>5 DEF Flying

-----------------------------------------------------------------------------
(* Every step keeps the requests, and the answers well formed.             *)
LEMMA WayStep == WayInv /\ [Next]_vars => WayInv'
<1> SUFFICES ASSUME WayInv, [Next]_vars PROVE WayInv'
  OBVIOUS
<1>1. way' = way /\ wire' = wire
  BY Fixed
<1> QED
  BY <1>1 DEF WayInv

(* See FlightInv.                                                          *)
LEMMA FlightStep == P!IInv /\ FlightInv /\ [Next]_vars => FlightInv'
<1> SUFFICES ASSUME P!IInv, FlightInv, [Next]_vars PROVE FlightInv'
  OBVIOUS
<1>1. Answers' = Answers
  BY Fixed
<1>2. flight' \in [Replicas -> Seq(Answers)]
  BY AnswerSteps, RespondEffect, RouteEffect, UnlinkEffect DEF FlightInv
<1> QED
  BY <1>1, <1>2 DEF FlightInv

(* A pending response goes when its handler returns, and with its process. *)
LEMMA RespStep == P!IInv /\ RespInv /\ [Next]_vars => RespInv'
<1> SUFFICES ASSUME P!IInv, RespInv, [Next]_vars PROVE RespInv'
  OBVIOUS
<1> USE DEF rpcVars, Requests!brokerVars, Requests!loopVars, Requests!countVars
<1>0. DOMAIN pc = Replicas
  BY QueueTyped
<1>a. ASSUME UNCHANGED <<responding, pc>> PROVE RespInv'
  BY <1>a DEF RespInv
<1>b. ASSUME NEW r \in Replicas, NEW x, pc' = [pc EXCEPT ![r] = x],
             responding' = responding \ {r} \/ (responding' = responding /\ r \notin responding)
      PROVE  RespInv'
  <2>1. \A s \in responding' : s \in responding /\ s # r /\ pc'[s] = pc[s]
    BY <1>0, <1>b DEF RespInv
  <2> QED
    BY <1>b, <2>1 DEF RespInv
<1>1. CASE UNCHANGED vars
  BY <1>1, <1>a DEF vars, consumerVars
<1>2. ASSUME NEW r \in Replicas, Join(r) \/ Activate(r) \/ Unlink(r) \/ Route(r) PROVE RespInv'
  <2>1. UNCHANGED <<responding, pc>>
    BY <1>2 DEF Join, Activate, Unlink, Route, consumerVars, Requests!Join, Requests!Activate,
                Requests!Lose, Requests!Leave
  <2> QED
    BY <1>a, <2>1
<1>3. ASSUME NEW r \in Replicas, NEW m \in Msgs, Deliver(r, m) PROVE RespInv'
  BY <1>3, <1>a DEF Deliver, Requests!Deliver
<1>4. ASSUME NEW r \in Replicas, Crash(r) \/ Restart(r) PROVE RespInv'
  <2>1. pc' = [pc EXCEPT ![r] = "range"] /\ responding' = responding \ {r}
    BY <1>4 DEF Crash, Restart, Requests!Crash, Requests!Restart, Requests!Forget
  <2> QED
    BY <1>b, <2>1
<1>5. ASSUME NEW r \in Replicas, LoopStep(r) PROVE RespInv'
  <2>1. pc[r] # "handling" /\ responding' = responding /\ \E x : pc' = [pc EXCEPT ![r] = x]
    BY <1>5 DEF LoopStep, Requests!Take, Requests!Settle, Requests!SettleFails, Requests!Exit
  <2>2. r \notin responding
    BY <2>1 DEF RespInv
  <2> QED
    BY <1>b, <2>1, <2>2
<1>6. ASSUME NEW r \in Replicas, Fail(r) PROVE RespInv'
  BY <1>6, <1>b DEF Fail, Requests!HandlerFails
<1>7. ASSUME NEW r \in Replicas, NoSender(r) \/ Respond(r) \/ RespondFails(r) PROVE RespInv'
  <2>1. pc' = [pc EXCEPT ![r] = "settling"] /\ responding' = responding \ {r}
    BY <1>7 DEF NoSender, Respond, RespondFails, Requests!HandlerFails, Requests!HandlerSucceeds
  <2> QED
    BY <1>b, <2>1
<1>8. ASSUME NEW r \in Replicas, Handle(r) PROVE RespInv'
  BY <1>8 DEF Handle, consumerVars, RespInv
<1>9. CASE Expire
  BY <1>9, <1>a DEF Expire, Requests!Expire
<1> QED
  BY <1>1, <1>2, <1>3, <1>4, <1>5, <1>6, <1>7, <1>8, <1>9 DEF Next, Work

-----------------------------------------------------------------------------
(* Where answers go.                                                       *)

(* Who listens is a caller of some batch.                                  *)
LEMMA ListenersCall == Listening \subseteq Callers
<1> SUFFICES ASSUME NEW c \in Listening PROVE c \in Callers
  OBVIOUS
<1>1. PICK b \in Batches, m \in 1..NumMsgs : b[m].caller = c
  BY WaysAssumption
<1> QED
  BY <1>1 DEF Callers, Msgs, Requests!Msgs

(* The inbox after an answer is routed.                                    *)
LEMMA InboxAfter ==
    ASSUME HomeInv, NEW n \in Msgs,
           inbox' = IF Answerable(n)
                    THEN [inbox EXCEPT ![sendingService(wire[n])][n] = @ + 1] ELSE inbox
    PROVE  /\ inbox' \in [Callers -> [Msgs -> Nat]]
           /\ \A c \in Callers, m \in Msgs :
                 inbox'[c][m] =
                    IF Answerable(n) /\ c = sendingService(wire[n]) /\ m = n
                    THEN inbox[c][m] + 1 ELSE inbox[c][m]
<1> DEFINE d == sendingService(wire[n])
<1>1. inbox \in [Callers -> [Msgs -> Nat]]
  BY DEF HomeInv
<1>2. CASE ~Answerable(n)
  BY <1>1, <1>2
<1>3. CASE Answerable(n)
  <2>1. d \in Callers
    BY <1>3, ListenersCall DEF Answerable
  <2>2. inbox' = [inbox EXCEPT ![d][n] = inbox[d][n] + 1]
    BY <1>3
  <2> HIDE DEF d
  <2>3. inbox[d] \in [Msgs -> Nat] /\ inbox[d][n] + 1 \in Nat
    BY <1>1, <2>1
  <2>4. inbox' \in [Callers -> [Msgs -> Nat]]
    BY <1>1, <2>1, <2>2, <2>3
  <2>5. \A c \in Callers, m \in Msgs :
          inbox'[c][m] = IF c = d /\ m = n THEN inbox[c][m] + 1 ELSE inbox[c][m]
    BY <1>1, <2>1, <2>2, <2>3
  <2> QED
    BY <1>3, <2>4, <2>5 DEF d
<1> QED
  BY <1>2, <1>3

(* A caller handles only answers to its own requests.                      *)
LEMMA HomeStep == P!IInv /\ FlightInv /\ HomeInv /\ [Next]_vars => HomeInv'
<1> SUFFICES ASSUME P!IInv, FlightInv, HomeInv, [Next]_vars PROVE HomeInv'
  OBVIOUS
<1>0. wire' = wire /\ \A m : Named(m)' = Named(m)
  BY Fixed
<1>1. CASE inbox' = inbox
  BY <1>0, <1>1 DEF HomeInv
<1>2. ASSUME NEW r \in Replicas, Route(r) PROVE HomeInv'
  <2>1. PICK n \in Msgs :
          /\ Named(n)
          /\ inbox' = IF Answerable(n)
                      THEN [inbox EXCEPT ![sendingService(wire[n])][n] = @ + 1] ELSE inbox
    BY <1>2, RouteEffect
  <2>2. /\ inbox' \in [Callers -> [Msgs -> Nat]]
        /\ \A c \in Callers, m \in Msgs :
              inbox'[c][m] = inbox[c][m] \/ (c = sendingService(wire[n]) /\ m = n)
    BY <2>1, InboxAfter
  <2> QED
    BY <1>0, <2>1, <2>2 DEF HomeInv
<1> QED
  BY <1>1, <1>2, AnswerSteps, RespondEffect, UnlinkEffect

(* The answer to a request that was handled with success does not vanish.  *)
LEMMA AnswerStep ==
    ASSUME P!IInv, FlightInv, HomeInv, AnswerInv, [Next]_vars
    PROVE  AnswerInv'
<1>0. /\ wire' = wire
      /\ \A m : Named(m)' = Named(m) /\ Answerable(m)' = Answerable(m)
  BY Fixed
<1>a. losses \in Nat /\ \A m \in Msgs : success[m] \in Nat
  BY QueueTyped
<1>1. CASE UNCHANGED <<flight, inbox, lost, success, losses>>
  BY <1>0, <1>1 DEF AnswerInv, Traced, Answered, Flying
<1>2. ASSUME NEW r \in Replicas, Respond(r) PROVE AnswerInv'
  <2>1. lost' # {} => losses' > 0
    BY <1>2, RespondEffect DEF AnswerInv
  <2> SUFFICES ASSUME NEW m \in Msgs, success'[m] > 0
               PROVE  Named(m) /\ (Answerable(m) => Traced(m)')
    BY <1>0, <2>1 DEF AnswerInv
  <2>2. CASE m = cur[r]
    <3>1. Named(m) /\ Flying(r, m)' # {}
      BY <1>2, <2>2, RespondEffect
    <3> QED
      BY <3>1 DEF Traced
  <2>3. CASE m # cur[r]
    <3>1. /\ success[m] > 0 /\ UNCHANGED <<inbox, lost>>
          /\ \A s \in Replicas : Flying(s, m)' = Flying(s, m)
      BY <1>2, <2>3, RespondEffect
    <3> QED
      BY <1>0, <3>1 DEF AnswerInv, Traced, Answered
  <2> QED
    BY <2>2, <2>3
<1>3. ASSUME NEW r \in Replicas, Route(r) PROVE AnswerInv'
  <2>1. PICK n \in Msgs :
             /\ inbox' = IF Answerable(n)
                         THEN [inbox EXCEPT ![sendingService(wire[n])][n] = @ + 1] ELSE inbox
             /\ UNCHANGED <<lost, success, losses>>
             /\ \A s \in Replicas, m \in Msgs : s # r => Flying(s, m)' = Flying(s, m)
             /\ \A m \in Msgs, i \in Nat \ {0} : i + 1 \in Flying(r, m) <=> i \in Flying(r, m)'
             /\ \A m \in Msgs : /\ m # n => 1 \notin Flying(r, m)
                                /\ Flying(r, m) \subseteq Nat \ {0}
    BY <1>3, RouteEffect
  <2>2. \A c \in Callers, m \in Msgs :
           /\ inbox[c][m] \in Nat
           /\ inbox'[c][m] =
                 IF Answerable(n) /\ c = sendingService(wire[n]) /\ m = n
                 THEN inbox[c][m] + 1 ELSE inbox[c][m]
    BY <2>1, InboxAfter DEF HomeInv
  <2>3. lost' # {} => losses' > 0
    BY <2>1 DEF AnswerInv
  <2> SUFFICES ASSUME NEW m \in Msgs, success'[m] > 0
               PROVE  Named(m) /\ (Answerable(m) => Traced(m)')
    BY <1>0, <2>3 DEF AnswerInv
  <2>4. Named(m) /\ (Answerable(m) => Traced(m))
    BY <2>1 DEF AnswerInv
  <2> SUFFICES ASSUME Answerable(m) PROVE Traced(m)'
    BY <2>4
  <2>5. sendingService(wire[m]) \in Callers
    BY ListenersCall DEF Answerable
  <2>6. CASE Answered(m)
    <3>1. inbox'[sendingService(wire[m])][m] > 0
      BY <2>2, <2>5, <2>6 DEF Answered
    <3> QED
      BY <1>0, <3>1 DEF Traced, Answered
  <2>7. CASE m \in lost
    BY <2>1, <2>7 DEF Traced
  <2>8. ASSUME NEW s \in Replicas, Flying(s, m) # {} PROVE Traced(m)'
    <3>1. CASE s # r
      BY <2>1, <2>8, <3>1 DEF Traced
    <3>2. CASE s = r
      <4>1. PICK j \in Nat \ {0} : j \in Flying(r, m)
        BY <2>1, <2>8, <3>2
      <4>2. CASE j = 1
        <5>1. m = n
          BY <2>1, <4>1, <4>2
        <5>2. inbox'[sendingService(wire[m])][m] > 0
          BY <2>2, <2>5, <5>1
        <5> QED
          BY <1>0, <5>2 DEF Traced, Answered
      <4>3. CASE j # 1
        <5>1. j - 1 \in Nat \ {0} /\ (j - 1) + 1 = j
          BY <4>3
        <5>2. j - 1 \in Flying(r, m)'
          BY <2>1, <4>1, <5>1
        <5> QED
          BY <5>2 DEF Traced
      <4> QED
        BY <4>2, <4>3
    <3> QED
      BY <3>1, <3>2
  <2> QED
    BY <2>4, <2>6, <2>7, <2>8 DEF Traced
<1>4. ASSUME NEW r \in Replicas, Unlink(r) \/ Crash(r) PROVE AnswerInv'
  <2>1. /\ UNCHANGED <<inbox, success>> /\ losses' = losses + 1
        /\ lost' = lost \cup {flight[r][i].to : i \in DOMAIN flight[r]}
        /\ \A s \in Replicas, m \in Msgs : s # r => Flying(s, m)' = Flying(s, m)
    BY <1>4, UnlinkEffect
  <2>2. losses' > 0
    BY <1>a, <2>1
  <2> SUFFICES ASSUME NEW m \in Msgs, success'[m] > 0
               PROVE  Named(m) /\ (Answerable(m) => Traced(m)')
    BY <1>0, <2>2 DEF AnswerInv
  <2>3. Named(m) /\ (Answerable(m) => Traced(m))
    BY <2>1 DEF AnswerInv
  <2>4. Flying(r, m) # {} => m \in lost'
    BY <2>1 DEF Flying
  <2>5. Traced(m) => Traced(m)'
    BY <1>0, <2>1, <2>4 DEF Traced, Answered
  <2> QED
    BY <2>3, <2>5
<1> QED
  BY <1>1, <1>2, <1>3, <1>4, AnswerSteps

-----------------------------------------------------------------------------
(* How often answers are sent.                                             *)

(* The sizes of a part of a finite set, and of one with a new element.     *)
LEMMA NoMore ==
    ASSUME NEW S, NEW T, IsFiniteSet(S), T \subseteq S
    PROVE  /\ IsFiniteSet(T) /\ Cardinality(T) <= Cardinality(S)
           /\ Cardinality(T) \in Nat /\ Cardinality(S) \in Nat
<1>1. IsFiniteSet(T) /\ Cardinality(T) <= Cardinality(S)
  BY FS_Subset
<1> QED
  BY <1>1, FS_CardinalityType

(* See NoMore.                                                             *)
LEMMA OneMoreElement ==
    ASSUME NEW S, NEW T, NEW x, IsFiniteSet(S), T \subseteq S \cup {x}
    PROVE  /\ IsFiniteSet(T) /\ Cardinality(T) <= Cardinality(S) + 1
           /\ Cardinality(T) \in Nat /\ Cardinality(S) \in Nat
<1>1. /\ IsFiniteSet(S \cup {x})
      /\ Cardinality(S \cup {x}) = IF x \in S THEN Cardinality(S) ELSE Cardinality(S) + 1
  BY FS_AddElement
<1>2. Cardinality(S) \in Nat
  BY FS_CardinalityType
<1>3. /\ IsFiniteSet(T) /\ Cardinality(T) <= Cardinality(S \cup {x})
      /\ Cardinality(T) \in Nat /\ Cardinality(S \cup {x}) \in Nat
  BY <1>1, NoMore
<1>4. Cardinality(S \cup {x}) <= Cardinality(S) + 1
  BY <1>1, <1>2
<1> QED
  BY <1>2, <1>3, <1>4

(* See NoMore: one element is gone.                                        *)
LEMMA OneElementLess ==
    ASSUME NEW S, NEW T, NEW x \in S, IsFiniteSet(S), T \subseteq S \ {x}
    PROVE  /\ IsFiniteSet(T) /\ Cardinality(T) + 1 <= Cardinality(S)
           /\ Cardinality(T) \in Nat /\ Cardinality(S) \in Nat
<1>1. IsFiniteSet(S \ {x}) /\ Cardinality(S \ {x}) = Cardinality(S) - 1
  BY FS_RemoveElement
<1>2. Cardinality(S) \in Nat
  BY FS_CardinalityType
<1>3. /\ IsFiniteSet(T) /\ Cardinality(T) <= Cardinality(S \ {x})
      /\ Cardinality(T) \in Nat
  BY <1>1, NoMore
<1> QED
  BY <1>1, <1>2, <1>3

(* Routing moves the answers behind the first one up by a place.           *)
LEMMA RouteSent ==
    ASSUME NEW r \in Replicas, NEW m \in Msgs, IsFiniteSet(Sent(m)),
           \A s \in Replicas : s # r => Flying(s, m)' = Flying(s, m),
           \A i \in Nat \ {0} : i + 1 \in Flying(r, m) <=> i \in Flying(r, m)',
           Flying(r, m)' \subseteq Nat \ {0}
    PROVE  /\ IsFiniteSet(Sent(m)')
           /\ Cardinality(Sent(m)') <= Cardinality(Sent(m) \ {<<r, 1>>})
<1> DEFINE S == Sent(m)'
           T == Sent(m) \ {<<r, 1>>}
           f == [x \in S |-> IF x[1] = r THEN <<r, x[2] + 1>> ELSE x]
<1>1. \A x \in S : x \in Replicas \X Nat /\ x[2] \in Flying(x[1], m)'
  BY DEF Sent
<1>2. ASSUME NEW x \in S PROVE f[x] \in T
  <2>1. CASE x[1] = r
    <3>1. x[2] \in Nat \ {0} /\ x[2] + 1 \in Flying(r, m)
      BY <1>1, <2>1
    <3>2. x[2] + 1 \in Nat /\ x[2] + 1 # 1
      BY <3>1
    <3>3. f[x] = <<r, x[2] + 1>>
      BY <2>1
    <3> QED
      BY <3>1, <3>2, <3>3 DEF Sent
  <2>2. CASE x[1] # r
    <3>1. x[1] \in Replicas /\ x[2] \in Flying(x[1], m)
      BY <1>1, <2>2
    <3>2. x \in Sent(m) /\ x # <<r, 1>>
      BY <1>1, <2>2, <3>1 DEF Sent
    <3> QED
      BY <2>2, <3>2
  <2> QED
    BY <2>1, <2>2
<1>3. ASSUME NEW x \in S, NEW y \in S, f[x] = f[y] PROVE x = y
  <2>0. /\ x = <<x[1], x[2]>> /\ y = <<y[1], y[2]>>
        /\ x[2] \in Nat /\ y[2] \in Nat
    BY <1>1
  <2>1. CASE x[1] = r /\ y[1] = r
    <3>1. x[2] + 1 = y[2] + 1
      BY <1>3, <2>1
    <3> QED
      BY <2>0, <2>1, <3>1
  <2>2. CASE x[1] # r \/ y[1] # r
    BY <1>3, <2>0, <2>2
  <2> QED
    BY <2>1, <2>2
<1>4. f \in Injection(S, T)
  <2>1. f \in [S -> T]
    BY <1>2
  <2> HIDE DEF f, S, T
  <2> QED
    BY <1>3, <2>1 DEF Injection, IsInjective
<1>5. IsFiniteSet(T)
  BY NoMore
<1> HIDE DEF f, S, T
<1> QED
  BY <1>4, <1>5, FS_Injection DEF S, T

(* A caller's answers, with those on their way, are no more than the       *)
(* successes.                                                              *)
LEMMA SentStep ==
    ASSUME P!IInv, FlightInv, HomeInv, SentInv, [Next]_vars
    PROVE  SentInv'
<1> SUFFICES ASSUME NEW m \in Msgs
             PROVE  /\ IsFiniteSet(Sent(m)')
                    /\ \A c \in Callers : inbox'[c][m] + Cardinality(Sent(m)') <= success'[m]
  BY DEF SentInv
<1>a. /\ IsFiniteSet(Sent(m)) /\ Cardinality(Sent(m)) \in Nat /\ success[m] \in Nat
      /\ \A c \in Callers : /\ inbox[c][m] \in Nat
                            /\ inbox[c][m] + Cardinality(Sent(m)) <= success[m]
  BY QueueTyped, FS_CardinalityType DEF SentInv, HomeInv
<1>b. ASSUME Sent(m)' \subseteq Sent(m), inbox' = inbox, success'[m] = success[m]
      PROVE  /\ IsFiniteSet(Sent(m)')
             /\ \A c \in Callers : inbox'[c][m] + Cardinality(Sent(m)') <= success'[m]
  <2>1. /\ IsFiniteSet(Sent(m)') /\ Cardinality(Sent(m)') <= Cardinality(Sent(m))
        /\ Cardinality(Sent(m)') \in Nat
    BY <1>a, <1>b, NoMore
  <2> QED
    BY <1>a, <1>b, <2>1
<1>1. CASE UNCHANGED <<flight, inbox, lost, success, losses>>
  BY <1>1, <1>b DEF Sent, Flying
<1>2. ASSUME NEW r \in Replicas, Respond(r)
      PROVE  /\ IsFiniteSet(Sent(m)')
             /\ \A c \in Callers : inbox'[c][m] + Cardinality(Sent(m)') <= success'[m]
  <2>1. CASE m # cur[r]
    <3>1. success'[m] = success[m] /\ inbox' = inbox
      BY <1>2, <2>1, RespondEffect
    <3>2. \A s \in Replicas : Flying(s, m)' = Flying(s, m)
      BY <1>2, <2>1, RespondEffect
    <3>3. Sent(m)' \subseteq Sent(m)
      BY <3>2 DEF Sent
    <3> QED
      BY <1>b, <3>1, <3>3
  <2>2. CASE m = cur[r]
    <3>1. success'[m] = success[m] + 1 /\ inbox' = inbox
      BY <1>2, <2>2, RespondEffect
    <3>2. /\ \A s \in Replicas : s # r => Flying(s, m)' = Flying(s, m)
          /\ Flying(r, m)' = Flying(r, m) \cup {Len(flight[r]) + 1}
      BY <1>2, <2>2, RespondEffect
    <3>3. Sent(m)' \subseteq Sent(m) \cup {<<r, Len(flight[r]) + 1>>}
      BY <3>2 DEF Sent
    <3>4. /\ IsFiniteSet(Sent(m)') /\ Cardinality(Sent(m)') <= Cardinality(Sent(m)) + 1
          /\ Cardinality(Sent(m)') \in Nat
      BY <1>a, <3>3, OneMoreElement
    <3> QED
      BY <1>a, <3>1, <3>4
  <2> QED
    BY <2>1, <2>2
<1>3. ASSUME NEW r \in Replicas, Route(r)
      PROVE  /\ IsFiniteSet(Sent(m)')
             /\ \A c \in Callers : inbox'[c][m] + Cardinality(Sent(m)') <= success'[m]
  <2>1. PICK n \in Msgs :
             /\ inbox' = IF Answerable(n)
                         THEN [inbox EXCEPT ![sendingService(wire[n])][n] = @ + 1] ELSE inbox
             /\ success' = success /\ 1 \in Flying(r, n)
             /\ \A s \in Replicas, k \in Msgs : s # r => Flying(s, k)' = Flying(s, k)
             /\ \A k \in Msgs, i \in Nat \ {0} : i + 1 \in Flying(r, k) <=> i \in Flying(r, k)'
             /\ \A k \in Msgs : Flying(r, k)' \subseteq Nat \ {0}
    BY <1>3, RouteEffect
  <2>2. \A c \in Callers : \/ inbox'[c][m] = inbox[c][m]
                           \/ m = n /\ inbox'[c][m] = inbox[c][m] + 1
    BY <2>1, InboxAfter
  <2>3. /\ IsFiniteSet(Sent(m)')
        /\ Cardinality(Sent(m)') <= Cardinality(Sent(m) \ {<<r, 1>>})
    BY <1>a, <2>1, RouteSent
  <2>4. Cardinality(Sent(m)') \in Nat
    BY <2>3, FS_CardinalityType
  <2>5. CASE m = n
    <3>1. <<r, 1>> \in Sent(m)
      BY <2>1, <2>5 DEF Sent
    <3>2. /\ Cardinality(Sent(m) \ {<<r, 1>>}) + 1 <= Cardinality(Sent(m))
          /\ Cardinality(Sent(m) \ {<<r, 1>>}) \in Nat
      BY <1>a, <3>1, OneElementLess
    <3> QED
      BY <1>a, <2>1, <2>2, <2>3, <2>4, <3>2
  <2>6. CASE m # n
    <3>1. /\ Cardinality(Sent(m) \ {<<r, 1>>}) <= Cardinality(Sent(m))
          /\ Cardinality(Sent(m) \ {<<r, 1>>}) \in Nat
      BY <1>a, NoMore
    <3> QED
      BY <1>a, <2>1, <2>2, <2>3, <2>4, <2>6, <3>1
  <2> QED
    BY <2>5, <2>6
<1>4. ASSUME NEW r \in Replicas, Unlink(r) \/ Crash(r)
      PROVE  /\ IsFiniteSet(Sent(m)')
             /\ \A c \in Callers : inbox'[c][m] + Cardinality(Sent(m)') <= success'[m]
  <2>1. /\ UNCHANGED <<inbox, success>> /\ Flying(r, m)' = {}
        /\ \A s \in Replicas : s # r => Flying(s, m)' = Flying(s, m)
    BY <1>4, UnlinkEffect
  <2>2. Sent(m)' \subseteq Sent(m)
    BY <2>1 DEF Sent
  <2> QED
    BY <1>b, <2>1, <2>2
<1> QED
  BY <1>1, <1>2, <1>3, <1>4, AnswerSteps

-----------------------------------------------------------------------------
(* How often the application is called.                                    *)

(* Only replica r changes, and with it its pending response.               *)
OthersA(r) ==
    /\ P!Others(r)
    /\ \A s \in Replicas \ {r} : s \in responding' <=> s \in responding

(* The actions of replica r, as the account sees them: what happens to its *)
(* deliveries is what ConsumerBoundProofs says.                            *)
LEMMA BrokerEffect ==
    ASSUME P!IInv, RespInv, NEW r \in Replicas,
           \/ Join(r) \/ Restart(r) \/ \E m \in Msgs : Deliver(r, m)
    PROVE  /\ OthersA(r) /\ UNCHANGED <<handled, unsent, gone, losses>>
           /\ \A m \in Msgs :
                 /\ AckingA(r, m) => AckingA(r, m)'
                 /\ link'[r] # "up" => link[r] # "up" /\ m \notin TodoA(r)'
<1> USE DEF rpcVars
<1>1. CASE Join(r)
  <2>1. P!Join(r) /\ UNCHANGED <<responding, handled, unsent>>
    BY <1>1, SameBroker DEF Join
  <2>2. /\ P!Others(r) /\ link'[r] = "up" /\ pc[r] = "range"
        /\ UNCHANGED <<gone, losses>>
    BY <2>1, P!JoinEffect, QueueAssumption
  <2>3. OthersA(r)
    BY <2>1, <2>2 DEF OthersA
  <2> QED
    BY <2>1, <2>2, <2>3 DEF AckingA
<1>2. CASE Restart(r)
  <2>1. P!Restart(r) /\ responding' = responding \ {r} /\ UNCHANGED <<handled, unsent>>
    BY <1>2, SameBroker DEF Restart
  <2>2. /\ P!Others(r) /\ link[r] # "up" /\ buffer'[r] = <<>> /\ pc'[r] = "range"
        /\ UNCHANGED <<gone, losses>>
    BY <2>1, P!RestartEffect, QueueAssumption
  <2>3. OthersA(r)
    BY <2>1, <2>2 DEF OthersA
  <2>4. TodoA(r)' = {}
    BY <2>2, P!NoElems, QueueAssumption DEF TodoA
  <2> QED
    BY <2>1, <2>2, <2>3, <2>4 DEF AckingA
<1>3. ASSUME NEW n \in Msgs, Deliver(r, n)
      PROVE  /\ OthersA(r) /\ UNCHANGED <<handled, unsent, gone, losses>>
             /\ \A m \in Msgs :
                   /\ AckingA(r, m) => AckingA(r, m)'
                   /\ link'[r] # "up" => link[r] # "up" /\ m \notin TodoA(r)'
  <2>1. P!Deliver(r, n) /\ UNCHANGED <<responding, handled, unsent>> /\ n \in P!Msgs
    BY <1>3, SameBroker, QueueTyped DEF Deliver
  <2>2. /\ P!Others(r) /\ link[r] = "up"
        /\ UNCHANGED <<gone, link, pc, cur, outcome, losses>>
    BY <2>1, P!DeliverEffect, QueueAssumption
  <2>3. OthersA(r)
    BY <2>1, <2>2 DEF OthersA
  <2> QED
    BY <2>1, <2>2, <2>3 DEF AckingA
<1> QED
  BY <1>1, <1>2, <1>3

(* The steps of the loop and of the wrapped handler.                       *)
LEMMA LoopEffect ==
    ASSUME P!IInv, P!BoundInv, RespInv, NEW r \in Replicas,
           \/ P!Take(r) \/ P!Exit(r) \/ P!SettleFails(r), UNCHANGED rpcVars
    PROVE  /\ OthersA(r) /\ UNCHANGED <<handled, unsent, gone, losses, link>>
           /\ \A m \in Msgs : /\ AckingA(r, m) => AckingA(r, m)'
                              /\ m \in TodoA(r)' => m \in TodoA(r)
<1>0. P!DistinctInv
  BY DEF P!BoundInv
<1>1. UNCHANGED <<responding, handled, unsent>>
  BY DEF rpcVars
<1>2. CASE P!Take(r)
  <2>1. /\ P!Others(r) /\ pc[r] = "range"
        /\ P!Elems(buffer'[r]) = P!Elems(buffer[r]) \ {cur'[r]}
        /\ cur'[r] \in P!Elems(buffer[r]) /\ UNCHANGED <<gone, link, losses>>
    BY <1>0, <1>2, P!TakeEffect, QueueAssumption
  <2>2. OthersA(r)
    BY <1>1, <2>1 DEF OthersA
  <2>3. TodoA(r)' \subseteq TodoA(r)
    BY <2>1 DEF TodoA
  <2> QED
    BY <1>1, <2>1, <2>2, <2>3 DEF AckingA
<1>3. CASE P!Exit(r)
  <2>1. /\ P!Others(r) /\ pc[r] = "range" /\ pc'[r] = "exited"
        /\ UNCHANGED <<gone, link, buffer, losses>>
    BY <1>3, P!ExitEffect, QueueAssumption
  <2>2. OthersA(r)
    BY <1>1, <2>1 DEF OthersA
  <2>3. TodoA(r)' \subseteq TodoA(r)
    BY <2>1 DEF TodoA
  <2> QED
    BY <1>1, <2>1, <2>2, <2>3 DEF AckingA
<1>4. CASE P!SettleFails(r)
  <2>1. /\ P!Others(r) /\ pc[r] = "settling" /\ pc'[r] = "range" /\ link[r] # "up"
        /\ UNCHANGED <<gone, link, buffer, losses>>
    BY <1>4, P!SettleFailsEffect, QueueAssumption
  <2>2. OthersA(r)
    BY <1>1, <2>1 DEF OthersA
  <2>3. TodoA(r)' \subseteq TodoA(r)
    BY <2>1 DEF TodoA
  <2> QED
    BY <1>1, <2>1, <2>2, <2>3 DEF AckingA
<1> QED
  BY <1>2, <1>3, <1>4

(* The handler returns: a pending answer is sent before the request is     *)
(* acked, or it is counted as unsent; a request that names no sender is no *)
(* matter of the account.                                                  *)
LEMMA ReturnEffect ==
    ASSUME P!IInv, RespInv, HandledInv, NEW r \in Replicas,
           Fail(r) \/ NoSender(r) \/ Respond(r) \/ RespondFails(r)
    PROVE  /\ OthersA(r) /\ UNCHANGED <<handled, gone, losses, link>>
           /\ \A m \in Msgs : /\ unsent'[m] \in {unsent[m], unsent[m] + 1}
                              /\ Named(m) /\ AckingA(r, m) =>
                                    AckingA(r, m)' \/ unsent'[m] = unsent[m] + 1
                              /\ m \in TodoA(r)' => m \in TodoA(r)
<1>1. P!Handling(r) /\ handled' = handled
  <2>1. /\ P!HandlerSucceeds(r) \/ P!HandlerFails(r, "error")
        /\ handled' = handled
    BY SameLoop DEF Fail, NoSender, Respond, RespondFails, rpcVars
  <2> QED
    BY <2>1 DEF P!Handling, P!Results
<1>2. /\ P!Others(r) /\ pc[r] = "handling" /\ pc'[r] = "settling"
      /\ UNCHANGED <<gone, link, buffer, cur, losses>>
  BY <1>1, P!HandlingEffect, QueueAssumption
<1>3. OthersA(r)
  BY <1>2 DEF OthersA, Fail, NoSender, Respond, RespondFails, rpcVars
<1>4. TodoA(r)' \subseteq TodoA(r)
  BY <1>2 DEF TodoA
<1>a. DOMAIN unsent = Msgs
  BY DEF HandledInv
<1>b. ASSUME NEW m \in Msgs PROVE unsent'[m] \in {unsent[m], unsent[m] + 1}
  BY <1>a DEF Fail, NoSender, Respond, RespondFails, rpcVars
<1>5. ASSUME NEW m \in Msgs, Named(m), AckingA(r, m)
      PROVE  AckingA(r, m)' \/ unsent'[m] = unsent[m] + 1
  <2>1. link[r] = "up" /\ cur[r] = m /\ r \in responding
    BY <1>2, <1>5 DEF AckingA
  <2>a. CASE RespondFails(r)
    BY <1>a, <2>1, <2>a DEF RespondFails
  <2>2. CASE Respond(r)
    <3>1. P!HandlerSucceeds(r)
      BY <2>2, SameLoop DEF Respond
    <3>2. DOMAIN outcome = Replicas
      BY P!Typed, QueueAssumption
    <3>3. outcome'[r] = "nil"
      BY <3>1, <3>2 DEF P!HandlerSucceeds
    <3> QED
      BY <1>2, <2>1, <3>3 DEF AckingA
  <2> QED
    BY <1>5, <2>1, <2>a, <2>2 DEF Fail, NoSender
<1> QED
  BY <1>1, <1>2, <1>3, <1>4, <1>5, <1>b

(* A live channel settles the request.                                     *)
LEMMA SettledEffect ==
    ASSUME P!IInv, P!BoundInv, RespInv, NEW r \in Replicas, P!Settle(r), UNCHANGED rpcVars
    PROVE  /\ OthersA(r) /\ UNCHANGED <<handled, unsent, losses>> /\ link'[r] = "up"
           /\ \A m \in Msgs : /\ gone[m] # "no" => gone'[m] # "no"
                              /\ AckingA(r, m) => gone'[m] # "no"
<1>1. /\ P!Others(r) /\ link[r] = "up" /\ pc[r] = "settling" /\ cur[r] \in P!Msgs
      /\ owner[cur[r]] = r /\ UNCHANGED <<link, losses>>
      /\ gone' = [gone EXCEPT ![cur[r]] = P!Settlement(outcome[r], cur[r])]
      /\ DOMAIN gone = P!Msgs
  BY P!SettleEffect, P!Typed, QueueAssumption
<1>2. OthersA(r) /\ UNCHANGED <<handled, unsent>>
  BY <1>1 DEF OthersA, rpcVars
<1>3. gone[cur[r]] = "no"
  BY <1>1, QueueAssumption DEF P!BoundInv, P!GoneInv
<1>4. \A m \in Msgs : gone[m] # "no" => gone'[m] # "no"
  BY <1>1, <1>3, QueueTyped
<1>5. \A m \in Msgs : AckingA(r, m) => gone'[m] # "no"
  <2> SUFFICES ASSUME NEW m \in Msgs, AckingA(r, m) PROVE gone'[m] # "no"
    OBVIOUS
  <2>1. outcome[r] = "nil" /\ cur[r] = m
    BY <1>1 DEF AckingA
  <2> QED
    BY <1>1, <2>1 DEF P!Settlement, P!Requeue
<1> QED
  BY <1>1, <1>2, <1>4, <1>5

(* Who is late for message m: other replicas as before, and perhaps r.     *)
LEMMA LateSplit ==
    ASSUME NEW r \in Replicas, OthersA(r), NEW m \in Msgs, NEW s \in LateA(m)'
    PROVE  /\ s # r => s \in LateA(m)
           /\ s = r => link'[r] # "up" /\ m \in TodoA(r)'
<1>1. s \in Replicas /\ link'[s] # "up" /\ m \in TodoA(s)'
  BY DEF LateA
<1>2. ASSUME s # r PROVE s \in LateA(m)
  <2>1. TodoA(s)' = TodoA(s)
    BY <1>1, <1>2 DEF OthersA, P!Others, TodoA
  <2>2. link[s] # "up" /\ m \in TodoA(s)
    BY <1>1, <1>2, <2>1 DEF OthersA, P!Others
  <2> QED
    BY <1>1, <2>2 DEF LateA
<1> QED
  BY <1>1, <1>2

(* A request stays spent, unless r was to have it acked and no longer is.  *)
LEMMA SpentKept ==
    ASSUME NEW r \in Replicas, OthersA(r), NEW m \in Msgs,
           gone[m] # "no" => gone'[m] # "no",
           AckingA(r, m) => SpentA(m)', SpentA(m)
    PROVE  SpentA(m)'
<1>1. CASE gone[m] # "no"
  BY <1>1 DEF SpentA
<1>2. ASSUME NEW s \in Replicas, AckingA(s, m) PROVE SpentA(m)'
  <2>1. CASE s = r
    BY <1>2, <2>1
  <2>2. CASE s # r
    BY <1>2, <2>2 DEF OthersA, P!Others, AckingA, SpentA
  <2> QED
    BY <2>1, <2>2
<1> QED
  BY <1>1, <1>2 DEF SpentA

(* The account of a request, in numbers.                                   *)
LEMMA PaidKept ==
    ASSUME P!IInv, HandledInv, NEW m \in Msgs, PaidA(m), handled'[m] = handled[m],
           \/ losses' = losses /\ unsent'[m] = unsent[m] /\ (SpentA(m) => SpentA(m)')
           \/ losses' = losses /\ unsent'[m] = unsent[m] + 1
           \/ losses' = losses + 1 /\ unsent'[m] = unsent[m],
           LateA(m)' \subseteq LateA(m)
    PROVE  PaidA(m)'
<1>1. /\ IsFiniteSet(LateA(m))
      /\ handled[m] + Cardinality(LateA(m)) + (IF SpentA(m) THEN 0 ELSE 1) <= losses + 1 + unsent[m]
  BY DEF PaidA
<1>2. /\ IsFiniteSet(LateA(m)') /\ Cardinality(LateA(m)') <= Cardinality(LateA(m))
      /\ Cardinality(LateA(m)') \in Nat /\ Cardinality(LateA(m)) \in Nat
  BY <1>1, NoMore
<1>3. losses \in Nat /\ handled[m] \in Nat /\ unsent[m] \in Nat
  BY QueueTyped DEF HandledInv
<1>4. handled[m] + Cardinality(LateA(m)') + (IF SpentA(m)' THEN 0 ELSE 1) <= losses' + 1 + unsent'[m]
  BY <1>1, <1>2, <1>3
<1> QED
  BY <1>2, <1>4 DEF PaidA

(* A call of the application is paid for: on a live channel by the request *)
(* being the caller's alone, and without one by the link that was lost.    *)
LEMMA HandlePaid ==
    ASSUME P!IInv, P!BoundInv, RespInv, HandledInv, NEW r \in Replicas, Handle(r),
           NEW m \in Msgs, PaidA(m)
    PROVE  PaidA(m)'
<1>1. /\ pc[r] = "handling" /\ r \notin responding /\ responding' = responding \cup {r}
      /\ handled' = [handled EXCEPT ![cur[r]] = @ + 1]
      /\ UNCHANGED <<gone, link, buffer, pc, cur, outcome, owner, losses, unsent>>
  BY DEF Handle, consumerVars
<1>2. /\ cur[r] \in Msgs /\ DOMAIN handled = Msgs /\ losses \in Nat /\ handled[m] \in Nat
      /\ Msgs = P!Msgs /\ unsent[m] \in Nat
  BY <1>1, QueueTyped DEF HandledInv
<1>3. OthersA(r)
  BY <1>1 DEF OthersA, P!Others
<1>4. ~AckingA(r, m) /\ TodoA(r)' \subseteq TodoA(r) \ {cur[r]}
  <2>1. cur[r] \notin P!Elems(buffer[r])
    BY DEF P!BoundInv, P!DistinctInv
  <2> QED
    BY <1>1, <2>1 DEF AckingA, TodoA
<1>5. SpentA(m) => SpentA(m)'
  BY <1>1, <1>3, <1>4, SpentKept
<1>6. /\ IsFiniteSet(LateA(m))
      /\ handled[m] + Cardinality(LateA(m)) + (IF SpentA(m) THEN 0 ELSE 1) <= losses + 1 + unsent[m]
  BY DEF PaidA
<1>7. LateA(m)' \subseteq LateA(m)
  BY <1>1, <1>3, <1>4, LateSplit DEF LateA
<1>8. CASE m # cur[r]
  <2>1. handled'[m] = handled[m]
    BY <1>1, <1>2, <1>8
  <2> QED
    BY <1>1, <1>5, <1>7, <2>1, PaidKept
<1>9. CASE m = cur[r]
  <2>1. handled'[m] = handled[m] + 1
    BY <1>1, <1>2, <1>9
  <2>2. CASE link[r] = "up"
    <3>0. m # 0
      BY QueueTyped, QueueAssumption
    <3>1. owner[m] = r /\ r # Nobody
      BY <1>2, <1>9, <2>2, <3>0, P!LiveOwns, QueueAssumption
    <3>2. gone[m] = "no"
      BY <1>2, <3>1 DEF P!BoundInv, P!GoneInv
    <3>3. \A s \in Replicas : ~AckingA(s, m)
      <4> SUFFICES ASSUME NEW s \in Replicas, AckingA(s, m) PROVE FALSE
        OBVIOUS
      <4>1. link[s] = "up" /\ cur[s] = m /\ cur[s] # 0
        BY <3>0 DEF AckingA
      <4>2. owner[m] = s
        BY <4>1, P!LiveOwns, QueueAssumption
      <4> QED
        BY <1>4, <3>1, <4>2
    <3>4. ~SpentA(m)
      BY <3>2, <3>3 DEF SpentA
    <3>5. SpentA(m)'
      BY <1>1, <1>9, <2>2 DEF SpentA, AckingA
    <3>6. /\ IsFiniteSet(LateA(m)') /\ Cardinality(LateA(m)') <= Cardinality(LateA(m))
          /\ Cardinality(LateA(m)') \in Nat /\ Cardinality(LateA(m)) \in Nat
      BY <1>6, <1>7, NoMore
    <3>7. handled'[m] + Cardinality(LateA(m)') + 0 <= losses + 1 + unsent[m]
      BY <1>2, <1>6, <2>1, <3>4, <3>6
    <3> QED
      BY <1>1, <3>5, <3>6, <3>7 DEF PaidA
  <2>3. CASE link[r] # "up"
    <3>1. r \in LateA(m)
      BY <1>1, <1>9, <2>3 DEF LateA, TodoA
    <3>2. LateA(m)' \subseteq LateA(m) \ {r}
      BY <1>3, <1>4, <1>9, LateSplit
    <3>3. /\ IsFiniteSet(LateA(m)') /\ Cardinality(LateA(m)') + 1 <= Cardinality(LateA(m))
          /\ Cardinality(LateA(m)') \in Nat /\ Cardinality(LateA(m)) \in Nat
      BY <1>6, <3>1, <3>2, OneElementLess
    <3>4. handled'[m] + Cardinality(LateA(m)') + (IF SpentA(m)' THEN 0 ELSE 1) <= losses + 1 + unsent[m]
      BY <1>2, <1>5, <1>6, <2>1, <3>3
    <3> QED
      BY <1>1, <3>3, <3>4 DEF PaidA
  <2> QED
    BY <2>2, <2>3
<1> QED
  BY <1>8, <1>9

(* A lost link pays for one more call.                                     *)
LEMMA UnlinkPaid ==
    ASSUME P!IInv, P!BoundInv, RespInv, HandledInv, NEW r \in Replicas, Unlink(r) \/ Crash(r),
           NEW m \in Msgs, PaidA(m)
    PROVE  PaidA(m)'
<1>1. /\ P!Lose(r) \/ P!Leave(r) \/ P!Crash(r)
      /\ responding' = responding \/ responding' = responding \ {r}
      /\ UNCHANGED <<handled, unsent>>
  BY SameBroker DEF Unlink, Crash
<1>2. /\ P!Others(r) /\ losses' = losses + 1
      /\ \A n \in P!Msgs : owner[n] # r => gone'[n] = gone[n]
      /\ buffer'[r] = buffer[r] \/ buffer'[r] = <<>>
      /\ \/ pc'[r] = pc[r] /\ cur'[r] = cur[r]
         \/ pc'[r] = "range" /\ cur'[r] = 0
  BY <1>1, P!DropEffect, QueueAssumption
<1>3. OthersA(r)
  BY <1>1, <1>2 DEF OthersA
<1>4. TodoA(r)' \subseteq TodoA(r)
  <2>1. P!Elems(<<>>) = {}
    BY P!NoElems, QueueAssumption
  <2>2. Unlink(r) => responding' = responding
    BY DEF Unlink
  <2>3. Crash(r) => pc'[r] = "range"
    <3>1. DOMAIN pc = Replicas
      BY QueueTyped
    <3> QED
      BY <3>1 DEF Crash, Requests!Crash, Requests!Forget
  <2> QED
    BY <1>2, <2>1, <2>2, <2>3 DEF TodoA
<1>5. losses \in Nat /\ handled[m] \in Nat /\ unsent[m] \in Nat
  BY QueueTyped DEF HandledInv
<1>a. gone[m] # "no" => gone'[m] # "no"
  <2>1. m \in P!Msgs /\ Nobody # r
    BY QueueTyped, QueueAssumption
  <2>2. gone[m] # "no" => owner[m] = Nobody
    BY <2>1 DEF P!BoundInv, P!GoneInv
  <2> QED
    BY <1>2, <2>1, <2>2
<1>6. CASE m \notin TodoA(r)
  <2>1. LateA(m)' \subseteq LateA(m)
    BY <1>3, <1>4, <1>6, LateSplit
  <2> QED
    BY <1>1, <1>2, <2>1, PaidKept
<1>7. CASE m \in TodoA(r)
  <2>1. cur[r] \notin P!Elems(buffer[r])
    BY DEF P!BoundInv, P!DistinctInv
  <2>2. ~AckingA(r, m)
    BY <1>7, <2>1 DEF TodoA, AckingA
  <2>3. SpentA(m) => SpentA(m)'
    BY <1>3, <1>a, <2>2, SpentKept
  <2>4. LateA(m)' \subseteq LateA(m) \cup {r}
    BY <1>3, LateSplit
  <2>5. /\ IsFiniteSet(LateA(m))
        /\ handled[m] + Cardinality(LateA(m)) + (IF SpentA(m) THEN 0 ELSE 1) <= losses + 1 + unsent[m]
    BY DEF PaidA
  <2>6. /\ IsFiniteSet(LateA(m)') /\ Cardinality(LateA(m)') <= Cardinality(LateA(m)) + 1
        /\ Cardinality(LateA(m)') \in Nat /\ Cardinality(LateA(m)) \in Nat
    BY <2>4, <2>5, OneMoreElement
  <2>7. handled'[m] + Cardinality(LateA(m)') + (IF SpentA(m)' THEN 0 ELSE 1) <= losses' + 1 + unsent'[m]
    BY <1>1, <1>2, <1>5, <2>3, <2>5, <2>6
  <2> QED
    BY <2>6, <2>7 DEF PaidA
<1> QED
  BY <1>6, <1>7

(* Every step keeps the account of the calls.                              *)
LEMMA HandledStep ==
    ASSUME P!IInv, P!BoundInv, RespInv, HandledInv, [Next]_vars
    PROVE  HandledInv'
<1>0. \A m : Named(m)' = Named(m)
  BY Fixed
<1>1. handled' \in [Msgs -> Nat] /\ unsent' \in [Msgs -> Nat]
  <2>1. CASE UNCHANGED <<handled, unsent>>
    BY <2>1 DEF HandledInv
  <2>2. ASSUME NEW r \in Replicas, Handle(r)
        PROVE  handled' \in [Msgs -> Nat] /\ unsent' = unsent
    <3>1. /\ pc[r] = "handling" /\ unsent' = unsent
          /\ handled' = [handled EXCEPT ![cur[r]] = @ + 1]
      BY <2>2 DEF Handle
    <3>2. cur[r] \in Msgs
      BY <3>1, QueueTyped
    <3> QED
      BY <3>1, <3>2 DEF HandledInv
  <2>3. ASSUME NEW r \in Replicas, RespondFails(r)
        PROVE  handled' = handled /\ unsent' \in [Msgs -> Nat]
    <3>1. /\ handled' = handled
          /\ unsent' = [unsent EXCEPT ![cur[r]] =
                           IF link[r] = "up" THEN unsent[cur[r]] + 1 ELSE unsent[cur[r]]]
      BY <2>3 DEF RespondFails
    <3>2. cur[r] \in Msgs
      BY <2>3, QueueTyped DEF RespondFails, Requests!HandlerFails
    <3>3. unsent[cur[r]] \in Nat /\ unsent[cur[r]] + 1 \in Nat
      BY <3>2 DEF HandledInv
    <3> QED
      BY <3>1, <3>3 DEF HandledInv
  <2> QED
    BY <2>1, <2>2, <2>3 DEF HandledInv, Next, vars, rpcVars, Work, Join, Activate, Unlink,
         Crash, Restart, Deliver, LoopStep, Fail, NoSender, Respond, Route, Expire
<1> SUFFICES ASSUME NEW m \in Msgs, Named(m) PROVE PaidA(m)'
  BY <1>0, <1>1 DEF HandledInv
<1>2. PaidA(m)
  BY DEF HandledInv
<1>3. ASSUME NEW r \in Replicas, OthersA(r), UNCHANGED <<handled, losses>>, gone' = gone,
             \/ unsent'[m] = unsent[m] /\ (AckingA(r, m) => AckingA(r, m)')
             \/ unsent'[m] = unsent[m] + 1,
             link'[r] # "up" /\ m \in TodoA(r)' => link[r] # "up" /\ m \in TodoA(r)
      PROVE  PaidA(m)'
  <2>1. (AckingA(r, m) => AckingA(r, m)') => (SpentA(m) => SpentA(m)')
    BY <1>3, SpentKept DEF SpentA
  <2>2. LateA(m)' \subseteq LateA(m)
    BY <1>3, LateSplit DEF LateA
  <2> QED
    BY <1>2, <1>3, <2>1, <2>2, PaidKept
<1>4. CASE UNCHANGED <<handled, unsent, losses, gone, link, buffer, pc, cur, outcome, responding>>
  <2>1. LateA(m)' = LateA(m) /\ (SpentA(m) => SpentA(m)')
    BY <1>4 DEF LateA, TodoA, SpentA, AckingA
  <2> QED
    BY <1>2, <1>4, <2>1, PaidKept
<1>5. CASE UNCHANGED vars
  BY <1>4, <1>5 DEF vars, consumerVars, rpcVars
<1>6. ASSUME NEW r \in Replicas, Activate(r) \/ Route(r) PROVE PaidA(m)'
  BY <1>4, <1>6 DEF Activate, Route, Requests!Activate, Requests!loopVars, Requests!countVars,
                    consumerVars, rpcVars
<1>7. ASSUME NEW r \in Replicas, \/ Join(r) \/ Restart(r) \/ \E n \in Msgs : Deliver(r, n)
      PROVE  PaidA(m)'
  BY <1>3, <1>7, BrokerEffect
<1>8. ASSUME NEW r \in Replicas, Fail(r) \/ NoSender(r) \/ Respond(r) \/ RespondFails(r)
      PROVE  PaidA(m)'
  BY <1>3, <1>8, ReturnEffect
<1>9. ASSUME NEW r \in Replicas, LoopStep(r) PROVE PaidA(m)'
  <2>1. /\ P!Take(r) \/ P!Exit(r) \/ P!SettleFails(r) \/ P!Settle(r)
        /\ UNCHANGED rpcVars
    BY <1>9, SameLoop DEF LoopStep
  <2>2. CASE P!Take(r) \/ P!Exit(r) \/ P!SettleFails(r)
    BY <1>3, <2>1, <2>2, LoopEffect
  <2>3. CASE P!Settle(r)
    <3>1. /\ OthersA(r) /\ UNCHANGED <<handled, unsent, losses>> /\ link'[r] = "up"
          /\ gone[m] # "no" => gone'[m] # "no"
          /\ AckingA(r, m) => gone'[m] # "no"
      BY <2>1, <2>3, SettledEffect
    <3>2. SpentA(m) => SpentA(m)'
      BY <3>1, SpentKept DEF SpentA
    <3>3. LateA(m)' \subseteq LateA(m)
      BY <3>1, LateSplit
    <3> QED
      BY <1>2, <3>1, <3>2, <3>3, PaidKept
  <2> QED
    BY <2>1, <2>2, <2>3
<1>10. ASSUME NEW r \in Replicas, Handle(r) PROVE PaidA(m)'
  BY <1>2, <1>10, HandlePaid
<1>11. ASSUME NEW r \in Replicas, Unlink(r) \/ Crash(r) PROVE PaidA(m)'
  BY <1>2, <1>11, UnlinkPaid
<1>12. CASE Expire
  <2>1. /\ UNCHANGED <<handled, unsent, losses, link, buffer, pc, cur, outcome, responding>>
        /\ gone' = [n \in Msgs |-> IF gone[n] = "no" THEN "expired" ELSE gone[n]]
    BY <1>12 DEF Expire, Requests!Expire, Requests!loopVars, Requests!countVars, rpcVars, Msgs
  <2>2. LateA(m)' = LateA(m) /\ SpentA(m)'
    BY <2>1 DEF LateA, TodoA, SpentA
  <2> QED
    BY <1>2, <2>1, <2>2, PaidKept
<1> QED
  BY <1>5, <1>6, <1>7, <1>8, <1>9, <1>10, <1>11, <1>12 DEF Next, Work

-----------------------------------------------------------------------------
(* Nothing is answered before the first request is delivered.              *)
LEMMA InitRpc == Init => RpcInv
<1> SUFFICES ASSUME Init PROVE RpcInv
  OBVIOUS
<1>0. /\ \A r \in Replicas : buffer[r] = <<>> /\ pc[r] = "range" /\ flight[r] = <<>>
      /\ \A m \in Msgs : success[m] = 0 /\ handled[m] = 0 /\ unsent[m] = 0
      /\ responding = {} /\ lost = {} /\ losses = 0
  BY DEF Init, Requests!Init, Msgs
<1>1. WayInv
  BY DEF Init, WayInv
<1>2. RespInv
  BY <1>0 DEF RespInv
<1>3. FlightInv
  <2>1. <<>> \in Seq(Answers)
    OBVIOUS
  <2> QED
    BY <2>1 DEF Init, FlightInv
<1>4. inbox \in [Callers -> [Msgs -> Nat]] /\ \A c \in Callers, m \in Msgs : inbox[c][m] = 0
  BY DEF Init
<1>5. HomeInv
  BY <1>4 DEF HomeInv
<1>6. AnswerInv
  BY <1>0 DEF AnswerInv
<1>7. SentInv
  <2> SUFFICES ASSUME NEW m \in Msgs
               PROVE  /\ IsFiniteSet(Sent(m))
                      /\ \A c \in Callers : inbox[c][m] + Cardinality(Sent(m)) <= success[m]
    BY DEF SentInv
  <2>1. Sent(m) = {}
    BY <1>0 DEF Sent, Flying
  <2>2. IsFiniteSet(Sent(m)) /\ Cardinality(Sent(m)) = 0
    BY <2>1, FS_EmptySet
  <2>3. ASSUME NEW c \in Callers PROVE inbox[c][m] + Cardinality(Sent(m)) <= success[m]
    <3>1. inbox[c][m] = 0 /\ success[m] = 0
      BY <1>0, <1>4
    <3> QED
      BY <2>2, <3>1
  <2> QED
    BY <2>2, <2>3
<1>8. HandledInv
  <2>1. handled \in [Msgs -> Nat] /\ unsent \in [Msgs -> Nat]
    BY DEF Init
  <2>2. ASSUME NEW m \in Msgs PROVE PaidA(m)
    <3>1. P!Elems(<<>>) = {}
      BY P!NoElems, QueueAssumption
    <3>2. LateA(m) = {}
      BY <1>0, <3>1 DEF LateA, TodoA
    <3> QED
      BY <1>0, <3>2, FS_EmptySet DEF PaidA
  <2> QED
    BY <2>1, <2>2 DEF HandledInv
<1> QED
  BY <1>1, <1>2, <1>3, <1>5, <1>6, <1>7, <1>8 DEF RpcInv

(* The invariant of the request queue and its answers holds in every       *)
(* behaviour.                                                              *)
THEOREM Invariance == Spec => [](P!IInv /\ P!BoundInv /\ RpcInv)
<1>1. P!IInv /\ P!BoundInv /\ RpcInv /\ [Next]_vars => RpcInv'
  BY WayStep, RespStep, FlightStep, HomeStep, AnswerStep, SentStep, HandledStep DEF RpcInv
<1> QED
  BY <1>1, InitRpc, Queue, PTL DEF Spec

(* A request that has left its queue named its sender, and its answer is   *)
(* with the caller or on its way, or was lost with a link: the wrapped     *)
(* handler publishes the response before the loop acks.                    *)
THEOREM Acked == Spec => []AckedMeansAnswered
<1>1. P!IInv /\ RpcInv => AckedMeansAnswered
  <2> SUFFICES ASSUME P!IInv, RpcInv, NEW m \in Msgs, gone[m] = "acked"
               PROVE  Named(m) /\ (Answerable(m) => Traced(m) /\ (m \in lost => losses > 0))
    BY DEF AckedMeansAnswered, Traced
  <2>1. success[m] > 0
    BY QueueTyped DEF P!IInv, P!Small, P!SettledInv
  <2> QED
    BY <2>1 DEF RpcInv, AnswerInv
<1> QED
  BY <1>1, Invariance, PTL

(* The application is called again for a request that names its sender,    *)
(* after it has handled it with success, only if a link was lost or the    *)
(* answer could not be sent on a live one, and once for each at the most;  *)
(* a caller gets a second answer only if a link was lost.                  *)
THEOREM Repeats == Spec => []RepeatsNeedLoss
<1>1. P!IInv /\ P!BoundInv /\ RpcInv => RepeatsNeedLoss
  <2> SUFFICES ASSUME P!IInv, P!BoundInv, RpcInv, NEW m \in Msgs, Named(m)
               PROVE  /\ handled[m] <= losses + 1 + unsent[m]
                      /\ \A c \in Callers, r \in Replicas :
                            inbox[c][m] + Cardinality(Flying(r, m)) <= losses + 1
    BY DEF RepeatsNeedLoss
  <2>1. losses \in Nat /\ success[m] \in Nat /\ m \in P!Msgs
    BY QueueTyped
  <2>2. handled[m] <= losses + 1 + unsent[m]
    <3>1. /\ IsFiniteSet(LateA(m)) /\ handled[m] \in Nat /\ unsent[m] \in Nat
          /\ handled[m] + Cardinality(LateA(m)) + (IF SpentA(m) THEN 0 ELSE 1) <= losses + 1 + unsent[m]
      BY DEF RpcInv, HandledInv, PaidA
    <3>2. Cardinality(LateA(m)) \in Nat
      BY <3>1, FS_CardinalityType
    <3> QED
      BY <2>1, <3>1, <3>2
  <2>3. success[m] <= losses + 1
    BY <2>1, P!SuccessBound, QueueAssumption
  <2>4. ASSUME NEW c \in Callers, NEW r \in Replicas
        PROVE  inbox[c][m] + Cardinality(Flying(r, m)) <= losses + 1
    <3>1. /\ IsFiniteSet(Sent(m)) /\ inbox[c][m] \in Nat
          /\ inbox[c][m] + Cardinality(Sent(m)) <= success[m]
      BY DEF RpcInv, SentInv, HomeInv
    <3>2. flight[r] \in Seq(Answers)
      BY DEF RpcInv, FlightInv
    <3>3. Flying(r, m) \subseteq Nat
      BY <3>2 DEF Flying
    <3> DEFINE f == [i \in Flying(r, m) |-> <<r, i>>]
    <3>4. f \in Injection(Flying(r, m), Sent(m))
      BY <3>3 DEF Sent, Injection, IsInjective
    <3> HIDE DEF f
    <3>5. IsFiniteSet(Flying(r, m)) /\ Cardinality(Flying(r, m)) <= Cardinality(Sent(m))
      BY <3>1, <3>4, FS_Injection
    <3>6. Cardinality(Flying(r, m)) \in Nat /\ Cardinality(Sent(m)) \in Nat
      BY <3>1, <3>5, FS_CardinalityType
    <3> QED
      BY <2>1, <2>3, <3>1, <3>5, <3>6
  <2> QED
    BY <2>2, <2>4
<1> QED
  BY <1>1, Invariance, PTL

(* A request's answer goes to the service that published it, or that its   *)
(* stored headers name, and in the trace of the Publish, whatever headers  *)
(* the caller passed on.                                                   *)
THEOREM Home == Spec => []AnswersGoHome
<1>1. RpcInv => AnswersGoHome
  <2> SUFFICES ASSUME RpcInv PROVE AnswersGoHome
    OBVIOUS
  <2>0. ASSUME NEW m \in Msgs
        PROVE  /\ ~way[m].raw => /\ sendingService(wire[m]) = way[m].caller
                                 /\ extractToContext(wire[m], Own) = Trace
               /\ way[m].raw /\ Named(m) =>
                     sendingService(wire[m]) = way[m].headers[headerService]
    <3>1. Accepted(way[m]) /\ wire[m] \in OnWire(way[m])
      BY DEF RpcInv, WayInv
    <3>2. ASSUME ~way[m].raw
          PROVE  /\ sendingService(wire[m]) = way[m].caller
                 /\ extractToContext(wire[m], Own) = Trace
      <4>1. /\ wire[m] = Publish(way[m].headers, way[m].caller, "uuid", Trace)
            /\ validateKeys(way[m].headers)
        BY <3>1, <3>2 DEF Accepted, OnWire
      <4>2. /\ sendingService(wire[m]) = way[m].caller
            /\ traceparent \in DOMAIN wire[m] /\ wire[m][traceparent] = Trace
        BY <4>1, PublishNames
      <4> QED
        BY <4>2 DEF extractToContext, At, Trace, Missing, NotAString
    <3>3. ASSUME way[m].raw, Named(m)
          PROVE  sendingService(wire[m]) = way[m].headers[headerService]
      <4>1. wire[m] \in PublishRaw(way[m].headers)
        BY <3>1, <3>3 DEF OnWire
      <4>2. headerService \in DOMAIN wire[m]
        BY <3>3 DEF Named, sendingService, At
      <4> QED
        BY <4>1, <4>2, RawNames DEF sendingService, At
    <3> QED
      BY <3>2, <3>3
  <2>1. ASSUME NEW m \in Msgs, NEW c \in Callers, inbox[c][m] > 0
        PROVE  c = IF way[m].raw THEN way[m].headers[headerService] ELSE way[m].caller
    <3>1. Named(m) /\ c = sendingService(wire[m])
      BY <2>1 DEF RpcInv, HomeInv
    <3> QED
      BY <2>0, <3>1
  <2>2. ASSUME NEW r \in Replicas, NEW i \in DOMAIN flight[r], ~way[flight[r][i].to].raw
        PROVE  flight[r][i].table[traceparent] = Trace
    <3>1. flight[r] \in Seq(Answers)
      BY DEF RpcInv, FlightInv
    <3>2. flight[r][i] \in Answers
      BY <3>1
    <3>3. PICK n \in Msgs : flight[r][i] = [to |-> n, table |-> Response(n)]
      BY <3>2 DEF Answers
    <3>4. flight[r][i].to = n /\ flight[r][i].table = Response(n)
      BY <3>3
    <3>5. Response(n)[traceparent] = extractToContext(wire[n], Own)
      BY ResponseNames DEF Response
    <3> QED
      BY <2>0, <2>2, <3>4, <3>5
  <2> QED
    BY <2>1, <2>2 DEF AnswersGoHome
<1> QED
  BY <1>1, Invariance, PTL

(* For all headers, with the id in any of its three spellings or several,  *)
(* the handler sees an id the publisher was given or one that Publish made *)
(* up, and none only in the cases IdIsKept names: publishMessage and       *)
(* PublishRaw rename "ce-" to "cloudEvents:" and leave "cloudEvents_" as   *)
(* it is, and NormalizeCEHeaders turns both into one.                      *)
THEOREM Ids == Spec => []IdIsKept
<1>1. RpcInv => IdIsKept
  <2> SUFFICES ASSUME RpcInv PROVE IdIsKept
    OBVIOUS
  <2>1. ASSUME NEW m \in Msgs
        PROVE  /\ way[m].raw \in BOOLEAN /\ Kinds(way[m].headers)
               /\ \A k \in DOMAIN way[m].headers :
                     way[m].headers[k] \notin {Missing, "uuid", Own}
               /\ wire[m] \in IF way[m].raw THEN PublishRaw(way[m].headers)
                              ELSE {Publish(way[m].headers, way[m].caller, "uuid", Trace)}
    <3>1. way \in Batches /\ m \in 1..NumMsgs /\ wire[m] \in OnWire(way[m])
      BY DEF RpcInv, WayInv, Msgs, Requests!Msgs
    <3> QED
      BY <3>1, HeadersAssumption DEF OnWire, Kinds, Key
  <2>2. LegacySupport \in BOOLEAN
    BY WaysAssumption
  <2>3. ASSUME NEW m \in Msgs, NEW id \in metadataID(wire[m], LegacySupport, Own)
        PROVE  Kept(way[m].raw, way[m].headers, LegacySupport, id)
    <3>1. Sources(way[m].raw, way[m].headers, DOMAIN way[m].headers \cap Spellings("id"),
                  LegacySupport, id)
      BY <2>1, <2>2, IdSource
    <3> QED
      BY <2>1, <2>2, <3>1, IdOfMessage
  <2> QED
    BY <2>3 DEF IdIsKept, Kept
<1> QED
  BY <1>1, Invariance, PTL
=============================================================================
