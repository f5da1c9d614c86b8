------------------------------- MODULE Metrics -------------------------------
(***************************************************************************)
(* The metrics of the package (metrics.go): goroutines count events under  *)
(* labels made by the routing key mapper, while the application calls      *)
(* InitMetrics, which replaces the mapper and resets and registers the     *)
(* collectors one by one. Nothing but the mapper's atomic.Value and the    *)
(* collectors themselves is shared, and there is no lock around them.      *)
(***************************************************************************)
EXTENDS Integers, Sequences

CONSTANTS
    Emitters,   \* goroutines: consumer loops and publishers
    Keys,       \* routing keys
    Mappers,    \* what WithRoutingKeyMapper may be given: functions of Keys
    MaxEvents,  \* bound: events counted
    MaxInits    \* bound: calls of InitMetrics

(* The default mapper, also that of an InitMetrics without options.        *)
Identity == [k \in Keys |-> k]

ASSUME MapperAssumption ==
    /\ "" \notin Keys
    /\ Identity \in Mappers /\ \A f \in Mappers : DOMAIN f = Keys

(* Mutant: a collector is not in the list.                                 *)
collectorsShort ==
    <<"received", "ack", "nack", "withoutHandler", "notParsable", "processed",
      "publishSucceed", "publishFailed">>

routingKeyLabel(f, k) == IF f[k] = "" THEN "unknown" ELSE f[k]

(* The collectors, in the order of InitMetrics.                            *)
collectors ==
    <<"received", "ack", "nack", "withoutHandler", "notParsable", "processed",
      "publishSucceed", "publishFailed", "publishDuration">>

Names == {"received", "ack", "nack", "withoutHandler", "notParsable", "processed",
          "publishSucceed", "publishFailed", "publishDuration"}
Labels == {routingKeyLabel(f, k) : f \in Mappers, k \in Keys}
Results == {"", "ACK", "NACK", "OK", "ERROR"}

(* Mutant: eventNack observes its duration as an ACK.                      *)
durationsCopied ==
    [ack |-> <<"processed", "ACK">>, nack |-> <<"processed", "ACK">>,
     publishSucceed |-> <<"publishDuration", "OK">>,
     publishFailed |-> <<"publishDuration", "ERROR">>]

(* The events that observe a duration as well, and under which result.     *)
durations ==
    [ack |-> <<"processed", "ACK">>, nack |-> <<"processed", "NACK">>,
     publishSucceed |-> <<"publishDuration", "OK">>,
     publishFailed |-> <<"publishDuration", "ERROR">>]

(* An event is named after its counter.                                    *)
Events == Names \ {"processed", "publishDuration"}

VARIABLES
    mapper,   \* routingKeyMapperVal
    count,    \* of each collector, by label and result ("" for a counter)
    event,    \* the event an emitter is at, with its step and label
    at,       \* the collector InitMetrics is at; 0 = not running
    step,     \* ... and whether it will "reset" or "register" it
    failed,   \* the last call of InitMetrics returned an error
    overlap,  \* an event overlapped the last call
    events,   \* events counted so far
    inits     \* calls of InitMetrics

vars == <<mapper, count, event, at, step, failed, overlap, events, inits>>

Idle == [step |-> "idle"]

Init ==
    /\ mapper = Identity
    /\ count = [c \in Names |-> [s \in Labels \X Results |-> 0]]
    /\ event = [e \in Emitters |-> Idle]
    /\ at = 0 /\ step = "reset" /\ failed = FALSE /\ overlap = FALSE
    /\ events = 0 /\ inits = 0

(* eventReceived, eventAck, ...: the routing key is mapped.                *)
Emit(e, name, k) ==
    /\ event[e] = Idle
    /\ events < MaxEvents
    /\ events' = events + 1
    /\ event' = [event EXCEPT ![e] =
                   [step |-> "inc", name |-> name, key |-> k, label |-> routingKeyLabel(mapper, k)]]
    /\ overlap' = (overlap \/ at # 0)
    /\ UNCHANGED <<mapper, count, at, step, failed, inits>>

(* WithLabelValues(...).Inc(); an event with a duration goes on.           *)
Inc(e) ==
    /\ event[e].step = "inc"
    /\ count' = [count EXCEPT ![event[e].name][<<event[e].label, "">>] = @ + 1]
    /\ event' = [event EXCEPT ![e] =
                   IF event[e].name \in DOMAIN durations
                   THEN [@ EXCEPT !.step = "load"] ELSE Idle]
    /\ UNCHANGED <<mapper, at, step, failed, overlap, events, inits>>

(* The key is mapped for the histogram: the mapper is loaded anew.         *)
Load(e) ==
    /\ event[e].step = "load"
    /\ event' = [event EXCEPT ![e].step = "observe",
                              ![e].label = routingKeyLabel(mapper, event[e].key)]
    /\ UNCHANGED <<mapper, count, at, step, failed, overlap, events, inits>>

Observe(e) ==
    /\ event[e].step = "observe"
    /\ LET d == durations[event[e].name]
       IN  count' = [count EXCEPT ![d[1]][<<event[e].label, d[2]>>] = @ + 1]
    /\ event' = [event EXCEPT ![e] = Idle]
    /\ UNCHANGED <<mapper, at, step, failed, overlap, events, inits>>

-----------------------------------------------------------------------------
(* InitMetrics: the mapper is stored before any collector is reset.        *)
InitMetrics(f) ==
    /\ at = 0
    /\ inits < MaxInits
    /\ inits' = inits + 1
    /\ mapper' = f
    /\ at' = 1
    /\ step' = "reset"
    /\ overlap' = (\E e \in Emitters : event[e] # Idle)
    /\ UNCHANGED <<count, event, failed, events>>

Reset ==
    /\ at # 0 /\ step = "reset"
    /\ count' = [count EXCEPT ![collectors[at]] = [s \in Labels \X Results |-> 0]]
    /\ step' = "register"
    /\ UNCHANGED <<mapper, event, at, failed, overlap, events, inits>>

(* Register succeeds, or the collector was registered by an earlier call.  *)
Register ==
    /\ at # 0 /\ step = "register"
    /\ at' = IF at = Len(collectors) THEN 0 ELSE at + 1
    /\ step' = "reset"
    /\ failed' = IF at = Len(collectors) THEN FALSE ELSE failed
    /\ UNCHANGED <<mapper, count, event, overlap, events, inits>>

(* Any other error ends the call, with the mapper replaced and some of the *)
(* collectors reset.                                                       *)
RegisterFails ==
    /\ at # 0 /\ step = "register"
    /\ at' = 0
    /\ step' = "reset"
    /\ failed' = TRUE
    /\ UNCHANGED <<mapper, count, event, overlap, events, inits>>

Next ==
    \/ \E e \in Emitters :
          \/ \E name \in Events, k \in Keys : Emit(e, name, k)
          \/ Inc(e) \/ Load(e) \/ Observe(e)
    \/ \E f \in Mappers : InitMetrics(f)
    \/ Reset \/ Register \/ RegisterFails

Spec == Init /\ [][Next]_vars

-----------------------------------------------------------------------------
(* No call of InitMetrics runs, and the last one returned nil and met no   *)
(* event: "Call this once during application startup before Start()".      *)
Orderly == at = 0 /\ ~failed /\ ~overlap

(* After a call of InitMetrics that met no event, the labels in use are    *)
(* those of its mapper, in every collector: nothing WithRoutingKeyMapper   *)
(* is there to "normalize or redact" is left of the time before.           *)
OnlyMappedLabels ==
    Orderly => \A c \in Names, l \in Labels, r \in Results :
        count[c][<<l, r>>] > 0 => \E k \in Keys : l = routingKeyLabel(mapper, k)

(* The events at a step of theirs under label l.                           *)
Underway(name, l) ==
    {e \in Emitters : event[e].step \in {"load", "observe"} /\ event[e].name = name
                      /\ routingKeyLabel(mapper, event[e].key) = l}

(* And each counter agrees with its histogram, label by label, but for the *)
(* events between the two.                                                 *)
CountersMatchDurations ==
    Orderly => \A name \in DOMAIN durations, l \in Labels :
        LET d == durations[name]
        IN  /\ count[name][<<l, "">>] >= count[d[1]][<<l, d[2]>>]
            /\ Underway(name, l) = {} => count[name][<<l, "">>] = count[d[1]][<<l, d[2]>>]
=============================================================================
