---------------------------- MODULE MetricsProofs ----------------------------
(***************************************************************************)
(* Proofs about Metrics, for any goroutines, routing keys, mappers, events *)
(* and calls of InitMetrics.                                               *)
(***************************************************************************)
EXTENDS Metrics, FiniteSets, FiniteSetTheorems, TLAPS

(* An event a goroutine is at.                                             *)
Ev == [step : {"inc", "load", "observe"}, name : Events, key : Keys, label : Labels]

Cells == Labels \X Results
Zero == [s \in Cells |-> 0]

(* The steps of an event at which its counter is ahead of its histogram.   *)
Between == {"load", "observe"}

TypeInv ==
    /\ mapper \in Mappers
    /\ count \in [Names -> [Cells -> Nat]]
    /\ event \in [Emitters -> Ev \cup {Idle}]
    /\ \A e \in Emitters : event[e].step \in Between => event[e].name \in DOMAIN durations
    /\ at \in 0..Len(collectors)

(* A call that has met no event runs while every goroutine is idle.        *)
AloneInv == ~overlap /\ at # 0 => \A e \in Emitters : event[e] = Idle

(* Without such a meeting every event has a label of the mapper in use.    *)
LabelInv ==
    ~overlap => \A e \in Emitters : event[e] # Idle =>
        event[e].label = routingKeyLabel(mapper, event[e].key)

(* The collectors the call is done with are empty.                         *)
Done(i) == i < at \/ (i = at /\ step = "register")
ResetInv ==
    ~overlap /\ at # 0 =>
        \A i \in 1..Len(collectors) : Done(i) => count[collectors[i]] = Zero

(* Each counter is ahead of its histogram by the events between the two.   *)
Ahead(name, l) ==
    /\ IsFiniteSet(Underway(name, l))
    /\ count[name][<<l, "">>] =
          count[durations[name][1]][<<l, durations[name][2]>>] + Cardinality(Underway(name, l))
AheadInv == Orderly => \A name \in DOMAIN durations, l \in Labels : Ahead(name, l)

IInv == TypeInv /\ AloneInv /\ LabelInv /\ ResetInv /\ OnlyMappedLabels /\ AheadInv
-----------------------------------------------------------------------------
(* Every collector is in the list.                                         *)
LEMMA Collectors ==
    /\ Len(collectors) = 9
    /\ \A i \in 1..Len(collectors) : collectors[i] \in Names
    /\ \A c \in Names : \E i \in 1..Len(collectors) : collectors[i] = c
<1>1. Len(collectors) = 9
  BY DEF collectors
<1>2. /\ collectors[1] = "received" /\ collectors[2] = "ack" /\ collectors[3] = "nack"
      /\ collectors[4] = "withoutHandler" /\ collectors[5] = "notParsable"
      /\ collectors[6] = "processed" /\ collectors[7] = "publishSucceed"
      /\ collectors[8] = "publishFailed" /\ collectors[9] = "publishDuration"
  BY DEF collectors
<1>3. \A i \in 1..9 : i = 1 \/ i = 2 \/ i = 3 \/ i = 4 \/ i = 5 \/ i = 6 \/ i = 7 \/ i = 8 \/ i = 9
  OBVIOUS
<1>4. \A i \in 1..9 : collectors[i] \in Names
  BY <1>2, <1>3 DEF Names
<1>5. 1 \in 1..9 /\ 2 \in 1..9 /\ 3 \in 1..9 /\ 4 \in 1..9 /\ 5 \in 1..9 /\ 6 \in 1..9
      /\ 7 \in 1..9 /\ 8 \in 1..9 /\ 9 \in 1..9
  OBVIOUS
<1>6. \A c \in Names : \E i \in 1..9 : collectors[i] = c
  BY <1>2, <1>5 DEF Names
<1> QED
  BY <1>1, <1>4, <1>6

(* The events with a duration, and where they observe it.                  *)
LEMMA Durations ==
    ASSUME NEW name \in DOMAIN durations
    PROVE  /\ name \in Events /\ name \in Names
           /\ durations[name][1] \in Names \ Events
           /\ durations[name][2] \in Results \ {""}
           /\ \A n \in DOMAIN durations :
                 durations[n][1] = durations[name][1] /\ durations[n][2] = durations[name][2]
                 => n = name
<1>1. DOMAIN durations = {"ack", "nack", "publishSucceed", "publishFailed"}
  BY DEF durations
<1>2. /\ durations["ack"][1] = "processed" /\ durations["ack"][2] = "ACK"
      /\ durations["nack"][1] = "processed" /\ durations["nack"][2] = "NACK"
      /\ durations["publishSucceed"][1] = "publishDuration"
      /\ durations["publishSucceed"][2] = "OK"
      /\ durations["publishFailed"][1] = "publishDuration"
      /\ durations["publishFailed"][2] = "ERROR"
  BY DEF durations
<1> QED
  BY <1>1, <1>2 DEF Events, Names, Results

(* A mapped key is a label.                                                *)
LEMMA Labelled ==
    ASSUME NEW f \in Mappers, NEW k \in Keys
    PROVE  routingKeyLabel(f, k) \in Labels
BY DEF Labels

(* An event is not Idle.                                                   *)
LEMMA NotIdle ==
    ASSUME NEW v \in Ev \cup {Idle}, v.step \in {"inc", "load", "observe"}
    PROVE  v \in Ev /\ v # Idle /\ v.name \in Events /\ v.key \in Keys /\ v.label \in Labels
<1>1. Idle.step = "idle"
  BY DEF Idle
<1>2. v # Idle
  BY <1>1
<1> QED
  BY <1>2 DEF Ev

(* Every event is at one of its steps.                                     *)
LEMMA IdleOrNot ==
    ASSUME NEW v \in Ev \cup {Idle}
    PROVE  v = Idle \/ v.step \in {"inc", "load", "observe"}
BY DEF Ev

(* Inc and Observe on one series of a collector: it grows by one, and no   *)
(* other changes.                                                          *)
Grows(f, g, c, x) ==
    /\ g \in [Names -> [Cells -> Nat]]
    /\ g[c][x] = f[c][x] + 1
    /\ \A d \in Names, y \in Cells : d # c \/ y # x => g[d][y] = f[d][y]

(* That is what EXCEPT says.                                               *)
LEMMA OneCell ==
    ASSUME NEW f \in [Names -> [Cells -> Nat]], NEW c \in Names, NEW x \in Cells,
           NEW g, g = [f EXCEPT ![c][x] = @ + 1]
    PROVE  Grows(f, g, c, x)
<1>1. f[c] \in [Cells -> Nat] /\ f[c][x] + 1 \in Nat
  OBVIOUS
<1> DEFINE h == [f[c] EXCEPT ![x] = @ + 1]
<1>2. h \in [Cells -> Nat]
  BY <1>1
<1>3. g = [f EXCEPT ![c] = h]
  OBVIOUS
<1>4. g[c] = h /\ \A d \in Names \ {c} : g[d] = f[d]
  BY <1>3
<1>5. h[x] = f[c][x] + 1 /\ \A y \in Cells \ {x} : h[y] = f[c][y]
  BY <1>1
<1>6. g \in [Names -> [Cells -> Nat]]
  BY <1>2, <1>3
<1> QED
  BY <1>4, <1>5, <1>6 DEF Grows

(* What the actions do.                                                    *)
LEMMA EmitEffect ==
    ASSUME TypeInv, NEW e \in Emitters, NEW name \in Events, NEW k \in Keys, Emit(e, name, k)
    PROVE  /\ event'[e] \in Ev /\ event'[e] # Idle /\ event'[e].step = "inc"
           /\ event'[e].key = k /\ event'[e].label = routingKeyLabel(mapper, k)
           /\ \A d \in Emitters \ {e} : event'[d] = event[d]
           /\ event' \in [Emitters -> Ev \cup {Idle}]
           /\ event[e] = Idle
           /\ ~overlap' => ~overlap /\ at = 0
           /\ UNCHANGED <<mapper, count, at, step, failed>>
<1> DEFINE v == [step |-> "inc", name |-> name, key |-> k, label |-> routingKeyLabel(mapper, k)]
<1>1. routingKeyLabel(mapper, k) \in Labels
  BY Labelled DEF TypeInv
<1>2. v \in Ev /\ v.step = "inc" /\ v.key = k /\ v.label = routingKeyLabel(mapper, k)
  BY <1>1 DEF Ev
<1>3. v # Idle
  BY <1>2, NotIdle
<1>4. event' = [event EXCEPT ![e] = v] /\ event \in [Emitters -> Ev \cup {Idle}]
  BY DEF Emit, TypeInv
<1> HIDE DEF v
<1>5. event'[e] = v /\ event' \in [Emitters -> Ev \cup {Idle}]
      /\ \A d \in Emitters \ {e} : event'[d] = event[d]
  BY <1>2, <1>4
<1> QED
  BY <1>2, <1>3, <1>5 DEF Emit

(* The counter grows, and the event goes on if it has a duration.          *)
LEMMA IncEffect ==
    ASSUME TypeInv, NEW e \in Emitters, Inc(e)
    PROVE  /\ event[e] \in Ev /\ event[e] # Idle /\ event[e].step = "inc"
           /\ event[e].name \in Events /\ event[e].name \in Names /\ event[e].key \in Keys
           /\ <<event[e].label, "">> \in Cells /\ event[e].label \in Labels
           /\ Grows(count, count', event[e].name, <<event[e].label, "">>)
           /\ IF event[e].name \in DOMAIN durations
              THEN /\ event'[e] \in Ev /\ event'[e].step = "load"
                   /\ event'[e].name = event[e].name
                   /\ event'[e].key = event[e].key /\ event'[e].label = event[e].label
              ELSE event'[e] = Idle
           /\ \A d \in Emitters \ {e} : event'[d] = event[d]
           /\ event' \in [Emitters -> Ev \cup {Idle}]
           /\ UNCHANGED <<mapper, at, step, failed, overlap>>
<1>1. event \in [Emitters -> Ev \cup {Idle}] /\ event[e].step = "inc"
  BY DEF TypeInv, Inc
<1>2. /\ event[e] \in Ev /\ event[e] # Idle /\ event[e].name \in Events
      /\ event[e].key \in Keys /\ event[e].label \in Labels
  BY <1>1, NotIdle
<1>3. event[e].name \in Names /\ <<event[e].label, "">> \in Cells
  BY <1>2 DEF Events, Cells, Results
<1> DEFINE v == [event[e] EXCEPT !.step = "load"]
<1>4. /\ v \in Ev /\ v.step = "load" /\ v.name = event[e].name
      /\ v.key = event[e].key /\ v.label = event[e].label
  BY <1>2 DEF Ev
<1>5. event' = [event EXCEPT ![e] = IF event[e].name \in DOMAIN durations THEN v ELSE Idle]
  BY DEF Inc
<1> HIDE DEF v
<1>6. /\ event'[e] = IF event[e].name \in DOMAIN durations THEN v ELSE Idle
      /\ event' \in [Emitters -> Ev \cup {Idle}]
      /\ \A d \in Emitters \ {e} : event'[d] = event[d]
  BY <1>1, <1>4, <1>5
<1> DEFINE c == event[e].name
           x == <<event[e].label, "">>
<1>7. /\ c \in Names /\ x \in Cells /\ count \in [Names -> [Cells -> Nat]]
      /\ count' = [count EXCEPT ![c][x] = @ + 1]
  BY <1>3 DEF Inc, TypeInv
<1> HIDE DEF c, x
<1>8. Grows(count, count', c, x)
  BY <1>7, OneCell
<1> QED
  BY <1>1, <1>2, <1>3, <1>4, <1>6, <1>8 DEF Inc, c, x

(* The mapper is loaded anew.                                              *)
LEMMA LoadEffect ==
    ASSUME TypeInv, NEW e \in Emitters, Load(e)
    PROVE  /\ event[e] \in Ev /\ event[e] # Idle /\ event[e].step = "load"
           /\ event'[e] \in Ev /\ event'[e] # Idle /\ event'[e].step = "observe"
           /\ event'[e].name = event[e].name /\ event'[e].key = event[e].key
           /\ event'[e].label = routingKeyLabel(mapper, event[e].key)
           /\ \A d \in Emitters \ {e} : event'[d] = event[d]
           /\ event' \in [Emitters -> Ev \cup {Idle}]
           /\ UNCHANGED <<mapper, count, at, step, failed, overlap>>
<1>1. event \in [Emitters -> Ev \cup {Idle}] /\ event[e].step = "load"
  BY DEF TypeInv, Load
<1>2. event[e] \in Ev /\ event[e] # Idle /\ event[e].key \in Keys
  BY <1>1, NotIdle
<1>3. routingKeyLabel(mapper, event[e].key) \in Labels
  BY <1>2, Labelled DEF TypeInv
<1> DEFINE v == [event[e] EXCEPT !.step = "observe",
                                 !.label = routingKeyLabel(mapper, event[e].key)]
<1>4. /\ v \in Ev /\ v.step = "observe" /\ v.name = event[e].name
      /\ v.key = event[e].key /\ v.label = routingKeyLabel(mapper, event[e].key)
  BY <1>2, <1>3 DEF Ev
<1>5. v # Idle
  BY <1>4, NotIdle
<1>6. event' = [event EXCEPT ![e] = v]
  BY <1>1 DEF Load
<1> HIDE DEF v
<1>7. /\ event'[e] = v /\ event' \in [Emitters -> Ev \cup {Idle}]
      /\ \A d \in Emitters \ {e} : event'[d] = event[d]
  BY <1>1, <1>4, <1>6
<1> QED
  BY <1>1, <1>2, <1>4, <1>5, <1>7 DEF Load

(* The duration is observed, and the event ends.                           *)
LEMMA ObserveEffect ==
    ASSUME TypeInv, NEW e \in Emitters, Observe(e)
    PROVE  /\ event[e] \in Ev /\ event[e] # Idle /\ event[e].step = "observe"
           /\ event[e].name \in DOMAIN durations
           /\ event[e].key \in Keys /\ event[e].label \in Labels
           /\ durations[event[e].name][1] \in Names
           /\ <<event[e].label, durations[event[e].name][2]>> \in Cells
           /\ Grows(count, count', durations[event[e].name][1],
                    <<event[e].label, durations[event[e].name][2]>>)
           /\ event'[e] = Idle
           /\ \A d \in Emitters \ {e} : event'[d] = event[d]
           /\ event' \in [Emitters -> Ev \cup {Idle}]
           /\ UNCHANGED <<mapper, at, step, failed, overlap>>
<1>1. event \in [Emitters -> Ev \cup {Idle}] /\ event[e].step = "observe"
  BY DEF TypeInv, Observe
<1>2. /\ event[e] \in Ev /\ event[e] # Idle /\ event[e].name \in Events
      /\ event[e].key \in Keys /\ event[e].label \in Labels
  BY <1>1, NotIdle
<1>3. event[e].name \in DOMAIN durations
  BY <1>1 DEF TypeInv, Between
<1>4. /\ durations[event[e].name][1] \in Names
      /\ <<event[e].label, durations[event[e].name][2]>> \in Cells
  BY <1>2, <1>3, Durations DEF Cells
<1>5. event' = [event EXCEPT ![e] = Idle]
  BY DEF Observe
<1>6. /\ event'[e] = Idle /\ event' \in [Emitters -> Ev \cup {Idle}]
      /\ \A d \in Emitters \ {e} : event'[d] = event[d]
  BY <1>1, <1>5
<1> DEFINE c == durations[event[e].name][1]
           x == <<event[e].label, durations[event[e].name][2]>>
<1>7. /\ c \in Names /\ x \in Cells /\ count \in [Names -> [Cells -> Nat]]
      /\ count' = [count EXCEPT ![c][x] = @ + 1]
  BY <1>4 DEF Observe, TypeInv
<1> HIDE DEF c, x
<1>8. Grows(count, count', c, x)
  BY <1>7, OneCell
<1> QED
  BY <1>1, <1>2, <1>3, <1>4, <1>6, <1>8 DEF Observe, c, x

(* The steps there are; InitMetrics and its steps leave the events alone.  *)
LEMMA Steps ==
    ASSUME [Next]_vars
    PROVE  \/ UNCHANGED <<mapper, count, event, at, step, failed, overlap>>
           \/ \E e \in Emitters :
                 \/ \E name \in Events, k \in Keys : Emit(e, name, k)
                 \/ Inc(e) \/ Load(e) \/ Observe(e)
           \/ \E f \in Mappers : InitMetrics(f)
           \/ Reset \/ Register \/ RegisterFails
BY DEF Next, vars

-----------------------------------------------------------------------------
(* Every step keeps the types.                                             *)
LEMMA TypeStep == TypeInv /\ [Next]_vars => TypeInv'
<1> SUFFICES ASSUME TypeInv, [Next]_vars PROVE TypeInv'
  OBVIOUS
<1> DEFINE Known(e) == event[e].step \in Between => event[e].name \in DOMAIN durations
<1>0. /\ mapper \in Mappers /\ count \in [Names -> [Cells -> Nat]]
      /\ event \in [Emitters -> Ev \cup {Idle}] /\ \A e \in Emitters : Known(e)
      /\ at \in 0..Len(collectors)
  BY DEF TypeInv
<1>a. ASSUME NEW e \in Emitters, event' \in [Emitters -> Ev \cup {Idle}],
             \A d \in Emitters \ {e} : event'[d] = event[d], Known(e)',
             count' \in [Names -> [Cells -> Nat]], UNCHANGED <<mapper, at>>
      PROVE  TypeInv'
  <2>1. \A d \in Emitters : Known(d)'
    BY <1>0, <1>a
  <2> QED
    BY <1>0, <1>a, <2>1 DEF TypeInv
<1>b. Idle.step = "idle"
  BY DEF Idle
<1>1. ASSUME NEW e \in Emitters, NEW name \in Events, NEW k \in Keys, Emit(e, name, k)
      PROVE  TypeInv'
  BY <1>0, <1>1, <1>a, EmitEffect DEF Between
<1>2. ASSUME NEW e \in Emitters, Inc(e) PROVE TypeInv'
  <2>1. count' \in [Names -> [Cells -> Nat]]
    BY <1>2, IncEffect DEF Grows
  <2>2. Known(e)'
    BY <1>2, <1>b, IncEffect DEF Between
  <2> QED
    BY <1>2, <1>a, <2>1, <2>2, IncEffect
<1>3. ASSUME NEW e \in Emitters, Load(e) PROVE TypeInv'
  <2>1. Known(e)'
    BY <1>0, <1>3, LoadEffect DEF Between
  <2> QED
    BY <1>0, <1>3, <1>a, <2>1, LoadEffect
<1>4. ASSUME NEW e \in Emitters, Observe(e) PROVE TypeInv'
  <2>1. count' \in [Names -> [Cells -> Nat]]
    BY <1>4, ObserveEffect DEF Grows
  <2>2. Known(e)'
    BY <1>4, <1>b, ObserveEffect DEF Between
  <2> QED
    BY <1>4, <1>a, <2>1, <2>2, ObserveEffect
<1>5. ASSUME NEW f \in Mappers, InitMetrics(f) PROVE TypeInv'
  <2>1. at' \in 0..Len(collectors)
    BY <1>5, Collectors DEF InitMetrics
  <2> QED
    BY <1>0, <1>5, <2>1 DEF InitMetrics, TypeInv
<1>6. CASE Reset
  <2>1. Zero \in [Cells -> Nat]
    BY DEF Zero
  <2>2. count' = [count EXCEPT ![collectors[at]] = Zero]
    BY <1>6 DEF Reset, Zero, Cells
  <2>3. count' \in [Names -> [Cells -> Nat]]
    BY <1>0, <2>1, <2>2
  <2> QED
    BY <1>0, <1>6, <2>3 DEF Reset, TypeInv
<1>7. CASE Register \/ RegisterFails
  <2>1. at' = 0 \/ (at # Len(collectors) /\ at' = at + 1)
    BY <1>7 DEF Register, RegisterFails
  <2>2. at \in 0..9 /\ Len(collectors) = 9
    BY <1>0, Collectors
  <2>3. at' \in 0..9
    BY <2>1, <2>2
  <2> QED
    BY <1>0, <1>7, <2>2, <2>3 DEF Register, RegisterFails, TypeInv
<1>8. CASE UNCHANGED <<mapper, count, event, at, step, failed, overlap>>
  BY <1>0, <1>8 DEF TypeInv
<1> QED
  BY <1>1, <1>2, <1>3, <1>4, <1>5, <1>6, <1>7, <1>8, Steps

(* A call of InitMetrics that has met no event still meets none, unless it *)
(* is marked.                                                              *)
LEMMA AloneStep == TypeInv /\ AloneInv /\ [Next]_vars => AloneInv'
<1> SUFFICES ASSUME TypeInv, AloneInv, [Next]_vars, ~overlap', at' # 0
             PROVE  \A e \in Emitters : event'[e] = Idle
  BY DEF AloneInv
<1>0. ~overlap /\ at # 0 => \A e \in Emitters : event[e] = Idle
  BY DEF AloneInv
<1>1. ASSUME NEW e \in Emitters, NEW name \in Events, NEW k \in Keys, Emit(e, name, k)
      PROVE  FALSE
  BY <1>1, EmitEffect
<1>2. ASSUME NEW e \in Emitters, Inc(e) \/ Load(e) \/ Observe(e) PROVE FALSE
  <2>1. event[e] # Idle /\ UNCHANGED <<at, overlap>>
    BY <1>2, IncEffect, LoadEffect, ObserveEffect
  <2> QED
    BY <1>0, <2>1
<1>3. ASSUME NEW f \in Mappers, InitMetrics(f)
      PROVE  \A e \in Emitters : event'[e] = Idle
  BY <1>3 DEF InitMetrics
<1>4. CASE Reset \/ Register \/ RegisterFails
  BY <1>0, <1>4 DEF Reset, Register, RegisterFails
<1>5. CASE UNCHANGED <<mapper, count, event, at, step, failed, overlap>>
  BY <1>0, <1>5
<1> QED
  BY <1>1, <1>2, <1>3, <1>4, <1>5, Steps

(* Without such a meeting the labels are those of the mapper in use.       *)
LEMMA LabelStep == TypeInv /\ LabelInv /\ [Next]_vars => LabelInv'
<1> SUFFICES ASSUME TypeInv, LabelInv, [Next]_vars, ~overlap'
             PROVE  \A d \in Emitters : event'[d] # Idle =>
                       event'[d].label = routingKeyLabel(mapper', event'[d].key)
  BY DEF LabelInv
<1> DEFINE Fits(d) == event[d] # Idle => event[d].label = routingKeyLabel(mapper, event[d].key)
<1>0. ~overlap => \A d \in Emitters : Fits(d)
  BY DEF LabelInv
<1>a. ASSUME NEW e \in Emitters, \A d \in Emitters \ {e} : event'[d] = event[d],
             ~overlap, UNCHANGED mapper, Fits(e)'
      PROVE  \A d \in Emitters : Fits(d)'
  <2> SUFFICES ASSUME NEW d \in Emitters PROVE Fits(d)'
    OBVIOUS
  <2>1. CASE d = e
    BY <1>a, <2>1
  <2>2. CASE d # e
    <3>1. event'[d] = event[d] /\ Fits(d) /\ mapper' = mapper
      BY <1>0, <1>a, <2>2
    <3> QED
      BY <3>1 DEF routingKeyLabel
  <2> QED
    BY <2>1, <2>2
<1>1. ASSUME NEW e \in Emitters, NEW name \in Events, NEW k \in Keys, Emit(e, name, k)
      PROVE  \A d \in Emitters : Fits(d)'
  <2>1. /\ event'[e].key = k /\ event'[e].label = routingKeyLabel(mapper, k)
        /\ \A d \in Emitters \ {e} : event'[d] = event[d]
        /\ ~overlap /\ mapper' = mapper
    BY <1>1, EmitEffect
  <2>2. Fits(e)'
    BY <2>1 DEF routingKeyLabel
  <2> QED
    BY <1>a, <2>1, <2>2
<1>2. ASSUME NEW e \in Emitters, Inc(e) PROVE \A d \in Emitters : Fits(d)'
  <2>1. /\ \A d \in Emitters \ {e} : event'[d] = event[d]
        /\ ~overlap /\ mapper' = mapper /\ event[e] # Idle
        /\ \/ event'[e] = Idle
           \/ event'[e].key = event[e].key /\ event'[e].label = event[e].label
    BY <1>2, IncEffect
  <2>2. event[e].label = routingKeyLabel(mapper, event[e].key)
    BY <1>0, <2>1
  <2>3. Fits(e)'
    BY <2>1, <2>2 DEF routingKeyLabel
  <2> QED
    BY <1>a, <2>1, <2>3
<1>3. ASSUME NEW e \in Emitters, Load(e) PROVE \A d \in Emitters : Fits(d)'
  <2>1. /\ \A d \in Emitters \ {e} : event'[d] = event[d]
        /\ ~overlap /\ mapper' = mapper
        /\ event'[e].key = event[e].key
        /\ event'[e].label = routingKeyLabel(mapper, event[e].key)
    BY <1>3, LoadEffect
  <2>2. Fits(e)'
    BY <2>1 DEF routingKeyLabel
  <2> QED
    BY <1>a, <2>1, <2>2
<1>4. ASSUME NEW e \in Emitters, Observe(e) PROVE \A d \in Emitters : Fits(d)'
  <2>1. /\ \A d \in Emitters \ {e} : event'[d] = event[d]
        /\ ~overlap /\ mapper' = mapper /\ event'[e] = Idle
    BY <1>4, ObserveEffect
  <2> QED
    BY <1>a, <2>1
<1>5. ASSUME NEW f \in Mappers, InitMetrics(f) PROVE \A d \in Emitters : Fits(d)'
  BY <1>5 DEF InitMetrics
<1>6. CASE Reset \/ Register \/ RegisterFails
           \/ UNCHANGED <<mapper, count, event, at, step, failed, overlap>>
  <2>1. UNCHANGED <<mapper, event, overlap>>
    BY <1>6 DEF Reset, Register, RegisterFails
  <2> QED
    BY <1>0, <2>1 DEF routingKeyLabel
<1> QED
  BY <1>1, <1>2, <1>3, <1>4, <1>5, <1>6, Steps

(* InitMetrics works through the list.                                     *)
LEMMA ResetStep == TypeInv /\ AloneInv /\ ResetInv /\ [Next]_vars => ResetInv'
<1> SUFFICES ASSUME TypeInv, AloneInv, ResetInv, [Next]_vars, ~overlap', at' # 0,
                    NEW i \in 1..Len(collectors), Done(i)'
             PROVE  count'[collectors[i]] = Zero
  BY DEF ResetInv
<1>0. ~overlap /\ at # 0 /\ Done(i) => count[collectors[i]] = Zero
  BY DEF ResetInv
<1>a. at \in 0..9 /\ i \in 1..9 /\ Len(collectors) = 9
  BY Collectors DEF TypeInv
<1>b. ~overlap /\ at # 0 => \A e \in Emitters : event[e] = Idle
  BY DEF AloneInv
<1>1. ASSUME NEW e \in Emitters, NEW name \in Events, NEW k \in Keys, Emit(e, name, k)
      PROVE  FALSE
  BY <1>1, EmitEffect
<1>2. ASSUME NEW e \in Emitters, Inc(e) \/ Load(e) \/ Observe(e) PROVE FALSE
  <2>1. event[e] # Idle /\ UNCHANGED <<at, overlap>>
    BY <1>2, IncEffect, LoadEffect, ObserveEffect
  <2> QED
    BY <1>b, <2>1
<1>3. ASSUME NEW f \in Mappers, InitMetrics(f) PROVE FALSE
  BY <1>3, <1>a DEF InitMetrics, Done
<1>4. CASE Reset
  <2>1. /\ at' = at /\ at # 0 /\ step = "reset" /\ step' = "register" /\ overlap' = overlap
        /\ count' = [count EXCEPT ![collectors[at]] = Zero]
    BY <1>4 DEF Reset, Zero, Cells
  <2>2. collectors[i] \in DOMAIN count
    BY Collectors DEF TypeInv
  <2>3. i < at \/ i = at
    BY <2>1 DEF Done
  <2>4. CASE collectors[i] = collectors[at]
    BY <2>1, <2>2, <2>4
  <2>5. CASE collectors[i] # collectors[at]
    <3>1. i < at
      BY <2>3, <2>5
    <3>2. count[collectors[i]] = Zero
      BY <1>0, <2>1, <3>1 DEF Done
    <3> QED
      BY <2>1, <2>2, <2>5, <3>2
  <2> QED
    BY <2>4, <2>5
<1>5. CASE Register
  <2>1. /\ at' = at + 1 /\ at # 0 /\ step = "register" /\ step' = "reset"
        /\ overlap' = overlap /\ count' = count
    BY <1>5 DEF Register
  <2>2. i < at + 1
    BY <2>1 DEF Done
  <2>3. i < at \/ i = at
    BY <1>a, <2>2
  <2>4. Done(i)
    BY <2>1, <2>3 DEF Done
  <2> QED
    BY <1>0, <2>1, <2>4
<1>6. CASE RegisterFails
  BY <1>6 DEF RegisterFails
<1>7. CASE UNCHANGED <<mapper, count, event, at, step, failed, overlap>>
  BY <1>0, <1>7 DEF Done
<1> QED
  BY <1>1, <1>2, <1>3, <1>4, <1>5, <1>6, <1>7, Steps

(* When a call that met no event returns nil, every collector is empty.    *)
LEMMA AllEmpty ==
    ASSUME TypeInv, ResetInv, Register, at' = 0, ~overlap'
    PROVE  \A c \in Names, x \in Cells : count'[c][x] = 0
<1>1. /\ at = Len(collectors) /\ at # 0 /\ step = "register" /\ ~overlap /\ count' = count
  BY Collectors DEF Register, TypeInv
<1>2. \A i \in 1..Len(collectors) : i < at \/ i = at
  BY <1>1, Collectors
<1>3. \A i \in 1..Len(collectors) : count[collectors[i]] = Zero
  BY <1>1, <1>2 DEF ResetInv, Done
<1>4. \A c \in Names : count[c] = Zero
  BY <1>3, Collectors
<1> QED
  BY <1>1, <1>4 DEF Zero
-----------------------------------------------------------------------------
(* A series that counts has a label of the mapper.                         *)
LEMMA MappedStep ==
    ASSUME TypeInv, LabelInv, ResetInv, OnlyMappedLabels, [Next]_vars
    PROVE  OnlyMappedLabels'
<1> DEFINE Mapped(l) == \E k \in Keys : l = routingKeyLabel(mapper, k)
<1> SUFFICES ASSUME Orderly', NEW c \in Names, NEW l \in Labels, NEW r \in Results,
                    count'[c][<<l, r>>] > 0
             PROVE  Mapped(l)'
  BY DEF OnlyMappedLabels
<1>0. Orderly /\ count[c][<<l, r>>] > 0 => Mapped(l)
  BY DEF OnlyMappedLabels
<1>a. at' = 0 /\ ~failed' /\ ~overlap'
  BY DEF Orderly
<1>b. <<l, r>> \in Cells
  BY DEF Cells
<1>c. ASSUME mapper' = mapper, Mapped(l) PROVE Mapped(l)'
  BY <1>c DEF routingKeyLabel
<1>d. ASSUME Orderly, UNCHANGED mapper, NEW e \in Emitters, event[e] # Idle,
             event[e].key \in Keys, NEW b \in Names, NEW x \in Cells,
             Grows(count, count', b, x), x[1] = event[e].label
      PROVE  Mapped(l)'
  <2>1. event[e].label = routingKeyLabel(mapper, event[e].key)
    BY <1>d DEF LabelInv, Orderly
  <2>2. CASE <<l, r>> = x
    <3>1. l = event[e].label
      BY <1>d, <2>2
    <3> QED
      BY <1>c, <1>d, <2>1, <3>1
  <2>3. CASE <<l, r>> # x
    <3>1. count'[c][<<l, r>>] = count[c][<<l, r>>]
      BY <1>b, <1>d, <2>3 DEF Grows
    <3> QED
      BY <1>0, <1>c, <1>d, <3>1
  <2> QED
    BY <2>2, <2>3
<1>1. ASSUME NEW e \in Emitters, NEW name \in Events, NEW k \in Keys, Emit(e, name, k)
      PROVE  Mapped(l)'
  <2>1. Orderly /\ UNCHANGED <<mapper, count>>
    BY <1>1, <1>a, EmitEffect DEF Orderly
  <2> QED
    BY <1>0, <1>c, <2>1
<1>2. ASSUME NEW e \in Emitters, Inc(e) PROVE Mapped(l)'
  <2>1. Orderly
    BY <1>2, <1>a, IncEffect DEF Orderly
  <2>2. /\ UNCHANGED mapper /\ event[e] # Idle /\ event[e].key \in Keys /\ event[e].name \in Names
        /\ <<event[e].label, "">> \in Cells /\ <<event[e].label, "">>[1] = event[e].label
        /\ Grows(count, count', event[e].name, <<event[e].label, "">>)
    BY <1>2, IncEffect
  <2> QED
    BY <1>d, <2>1, <2>2
<1>3. ASSUME NEW e \in Emitters, Load(e) PROVE Mapped(l)'
  <2>1. Orderly /\ UNCHANGED <<mapper, count>>
    BY <1>3, <1>a, LoadEffect DEF Orderly
  <2> QED
    BY <1>0, <1>c, <2>1
<1>4. ASSUME NEW e \in Emitters, Observe(e) PROVE Mapped(l)'
  <2> DEFINE b == durations[event[e].name][1]
             x == <<event[e].label, durations[event[e].name][2]>>
  <2>1. Orderly
    BY <1>4, <1>a, ObserveEffect DEF Orderly
  <2>2. /\ UNCHANGED mapper /\ event[e] # Idle /\ event[e].key \in Keys
        /\ b \in Names /\ x \in Cells /\ Grows(count, count', b, x)
    BY <1>4, ObserveEffect
  <2>3. x[1] = event[e].label
    OBVIOUS
  <2> HIDE DEF b, x
  <2> QED
    BY <1>d, <2>1, <2>2, <2>3
<1>5. ASSUME NEW f \in Mappers, InitMetrics(f) PROVE FALSE
  BY <1>5, <1>a DEF InitMetrics
<1>6. CASE Reset \/ RegisterFails
  BY <1>6, <1>a DEF Reset, RegisterFails
<1>7. CASE Register
  <2>1. count'[c][<<l, r>>] = 0
    BY <1>7, <1>a, <1>b, AllEmpty
  <2> QED
    BY <2>1
<1>8. CASE UNCHANGED <<mapper, count, event, at, step, failed, overlap>>
  BY <1>0, <1>8, <1>c DEF Orderly
<1> QED
  BY <1>1, <1>2, <1>3, <1>4, <1>5, <1>6, <1>7, <1>8, Steps
-----------------------------------------------------------------------------
(* Who is between counter and histogram, by the state of each goroutine.   *)
LEMMA UnderwayIs ==
    ASSUME NEW name, NEW l, NEW e \in Emitters
    PROVE  e \in Underway(name, l) <=>
              /\ event[e].step \in Between /\ event[e].name = name
              /\ routingKeyLabel(mapper, event[e].key) = l
BY DEF Underway, Between

(* The same after a step.                                                  *)
LEMMA UnderwayIsNext ==
    ASSUME NEW name, NEW l, NEW e \in Emitters
    PROVE  e \in Underway(name, l)' <=>
              /\ event'[e].step \in Between /\ event'[e].name = name
              /\ routingKeyLabel(mapper', event'[e].key) = l
BY DEF Underway, Between, routingKeyLabel

(* A step of one goroutine concerns no other.                              *)
LEMMA UnderwayOthers ==
    ASSUME NEW name, NEW l, NEW e \in Emitters, mapper' = mapper,
           \A d \in Emitters \ {e} : event'[d] = event[d],
           NEW d \in Emitters, d # e
    PROVE  d \in Underway(name, l)' <=> d \in Underway(name, l)
<1>1. event'[d] = event[d]
  OBVIOUS
<1> QED
  BY <1>1, UnderwayIs, UnderwayIsNext

(* The account of a counter and its histogram stays right if neither       *)
(* changes and nobody starts or ends.                                      *)
LEMMA AheadSame ==
    ASSUME NEW name \in DOMAIN durations, NEW l \in Labels, Ahead(name, l),
           Underway(name, l)' = Underway(name, l),
           count'[name][<<l, "">>] = count[name][<<l, "">>],
           count'[durations[name][1]][<<l, durations[name][2]>>]
             = count[durations[name][1]][<<l, durations[name][2]>>]
    PROVE  Ahead(name, l)'
BY DEF Ahead

(* Only Emit, Inc, Load, Observe and a Register that ends the call leave   *)
(* an orderly state.                                                       *)
LEMMA AheadStep ==
    ASSUME TypeInv, AloneInv, LabelInv, ResetInv, AheadInv, [Next]_vars
    PROVE  AheadInv'
<1> SUFFICES ASSUME Orderly', NEW name \in DOMAIN durations, NEW l \in Labels
             PROVE  Ahead(name, l)'
  BY DEF AheadInv
<1>0. Orderly => Ahead(name, l)
  BY DEF AheadInv
<1>a. at' = 0 /\ ~failed' /\ ~overlap'
  BY DEF Orderly
<1> DEFINE h == durations[name][1]
           y == <<l, durations[name][2]>>
           n == <<l, "">>
<1>b. /\ name \in Events /\ name \in Names /\ h \in Names \ Events
      /\ durations[name][2] \in Results \ {""}
  BY Durations
<1>c. y \in Cells /\ n \in Cells
  BY <1>b DEF Cells, Results
<1>d. Idle.step \notin Between
  BY DEF Idle, Between
<1>e. count[name][n] \in Nat /\ count[h][y] \in Nat
  BY <1>b, <1>c DEF TypeInv
<1>1. ASSUME NEW e \in Emitters, NEW nm \in Events, NEW k \in Keys, Emit(e, nm, k)
      PROVE  Ahead(name, l)'
  <2>1. /\ event'[e].step = "inc" /\ event[e] = Idle /\ UNCHANGED <<mapper, count>>
        /\ \A d \in Emitters \ {e} : event'[d] = event[d]
    BY <1>1, EmitEffect
  <2>2. Orderly
    BY <1>1, <1>a, EmitEffect DEF Orderly
  <2>3. e \notin Underway(name, l) /\ e \notin Underway(name, l)'
    BY <1>d, <2>1, UnderwayIs, UnderwayIsNext DEF Between
  <2>4. \A d \in Emitters : d \in Underway(name, l)' <=> d \in Underway(name, l)
    BY <2>1, <2>3, UnderwayOthers
  <2>5. Underway(name, l)' = Underway(name, l)
    BY <2>4 DEF Underway
  <2> QED
    BY <1>0, <2>1, <2>2, <2>5, AheadSame
<1>2. ASSUME NEW e \in Emitters, Load(e) PROVE Ahead(name, l)'
  <2>1. /\ event[e].step = "load" /\ event'[e].step = "observe" /\ UNCHANGED <<mapper, count>>
        /\ event'[e].name = event[e].name /\ event'[e].key = event[e].key
        /\ \A d \in Emitters \ {e} : event'[d] = event[d]
    BY <1>2, LoadEffect
  <2>2. Orderly
    BY <1>2, <1>a, LoadEffect DEF Orderly
  <2>3. e \in Underway(name, l)' <=> e \in Underway(name, l)
    BY <2>1, UnderwayIs, UnderwayIsNext DEF Between
  <2>4. \A d \in Emitters : d \in Underway(name, l)' <=> d \in Underway(name, l)
    BY <2>1, <2>3, UnderwayOthers
  <2>5. Underway(name, l)' = Underway(name, l)
    BY <2>4 DEF Underway
  <2> QED
    BY <1>0, <2>1, <2>2, <2>5, AheadSame
<1>3. ASSUME NEW e \in Emitters, Inc(e) PROVE Ahead(name, l)'
  <2> DEFINE en == event[e].name
             x == <<event[e].label, "">>
  <2>1. /\ event[e].step = "inc" /\ event[e] # Idle /\ UNCHANGED mapper
        /\ en \in Events /\ en \in Names /\ x \in Cells
        /\ Grows(count, count', en, x)
        /\ \A d \in Emitters \ {e} : event'[d] = event[d]
    BY <1>3, IncEffect
  <2>2. Orderly /\ Ahead(name, l)
    BY <1>0, <1>3, <1>a, IncEffect DEF Orderly
  <2>3. event[e].label = routingKeyLabel(mapper, event[e].key)
    BY <2>1, <2>2 DEF LabelInv, Orderly
  <2>4. e \notin Underway(name, l)
    BY <2>1, UnderwayIs DEF Between
  <2>5. count'[h][y] = count[h][y]
    BY <1>b, <1>c, <2>1 DEF Grows
  <2>6. CASE en = name /\ event[e].label = l
    <3>1. event'[e].step = "load" /\ event'[e].name = name /\ event'[e].key = event[e].key
      BY <1>3, <2>6, IncEffect
    <3>2. e \in Underway(name, l)'
      BY <2>1, <2>3, <2>6, <3>1, UnderwayIsNext DEF Between
    <3>3. Underway(name, l)' = Underway(name, l) \cup {e}
      <4>1. \A d \in Emitters : d \in Underway(name, l)' <=> d \in Underway(name, l) \/ d = e
        BY <2>1, <3>2, UnderwayOthers
      <4> QED
        BY <4>1 DEF Underway
    <3>4. count'[name][n] = count[name][n] + 1
      BY <2>1, <2>6 DEF Grows
    <3>5. IsFiniteSet(Underway(name, l)) /\ Cardinality(Underway(name, l)) \in Nat
      BY <2>2, FS_CardinalityType DEF Ahead
    <3>6. /\ IsFiniteSet(Underway(name, l)')
          /\ Cardinality(Underway(name, l)') = Cardinality(Underway(name, l)) + 1
      BY <2>4, <3>3, <3>5, FS_AddElement
    <3>7. count[name][n] = count[h][y] + Cardinality(Underway(name, l))
      BY <2>2 DEF Ahead
    <3> HIDE DEF h, y, n
    <3>8. count'[name][n] = count'[h][y] + Cardinality(Underway(name, l)')
      BY <1>e, <2>5, <3>4, <3>5, <3>6, <3>7
    <3> QED
      BY <3>6, <3>8 DEF Ahead, h, y, n
  <2>7. CASE ~(en = name /\ event[e].label = l)
    <3>1. count'[name][n] = count[name][n]
      <4>1. en # name \/ n # x
        BY <2>7
      <4> QED
        BY <1>b, <1>c, <2>1, <4>1 DEF Grows
    <3>2. e \notin Underway(name, l)'
      <4> SUFFICES ASSUME e \in Underway(name, l)' PROVE FALSE
        OBVIOUS
      <4>1. /\ event'[e].step \in Between /\ event'[e].name = name
            /\ routingKeyLabel(mapper, event'[e].key) = l
        BY <2>1, UnderwayIsNext
      <4>2. event'[e].name = en /\ event'[e].key = event[e].key
        BY <1>3, <1>d, <4>1, IncEffect
      <4> QED
        BY <2>3, <2>7, <4>1, <4>2
    <3>3. Underway(name, l)' = Underway(name, l)
      <4>1. \A d \in Emitters : d \in Underway(name, l)' <=> d \in Underway(name, l)
        BY <2>1, <2>4, <3>2, UnderwayOthers
      <4> QED
        BY <4>1 DEF Underway
    <3> QED
      BY <2>2, <2>5, <3>1, <3>3, AheadSame
  <2> QED
    BY <2>6, <2>7
<1>4. ASSUME NEW e \in Emitters, Observe(e) PROVE Ahead(name, l)'
  <2> DEFINE en == event[e].name
             b == durations[en][1]
             x == <<event[e].label, durations[en][2]>>
  <2>1. /\ event[e].step = "observe" /\ event[e] # Idle /\ event'[e] = Idle /\ UNCHANGED mapper
        /\ en \in DOMAIN durations /\ b \in Names /\ x \in Cells
        /\ Grows(count, count', b, x)
        /\ \A d \in Emitters \ {e} : event'[d] = event[d]
    BY <1>4, ObserveEffect
  <2>2. Orderly /\ Ahead(name, l)
    BY <1>0, <1>4, <1>a, ObserveEffect DEF Orderly
  <2>3. event[e].label = routingKeyLabel(mapper, event[e].key)
    BY <2>1, <2>2 DEF LabelInv, Orderly
  <2>4. e \notin Underway(name, l)'
    BY <1>d, <2>1, UnderwayIsNext
  <2>a. b \in Names \ Events
    BY <2>1, Durations
  <2>5. count'[name][n] = count[name][n]
    BY <1>b, <1>c, <2>1, <2>a DEF Grows
  <2>6. CASE en = name /\ event[e].label = l
    <3>1. e \in Underway(name, l)
      BY <2>1, <2>3, <2>6, UnderwayIs DEF Between
    <3>2. Underway(name, l)' = Underway(name, l) \ {e}
      <4>1. \A d \in Emitters : d \in Underway(name, l)' <=> d \in Underway(name, l) /\ d # e
        BY <2>1, <2>4, UnderwayOthers
      <4> QED
        BY <4>1 DEF Underway
    <3>3. count'[h][y] = count[h][y] + 1
      BY <2>1, <2>6 DEF Grows
    <3>4. IsFiniteSet(Underway(name, l)) /\ Cardinality(Underway(name, l)) \in Nat
      BY <2>2, FS_CardinalityType DEF Ahead
    <3>5. /\ IsFiniteSet(Underway(name, l)')
          /\ Cardinality(Underway(name, l)') = Cardinality(Underway(name, l)) - 1
      BY <3>1, <3>2, <3>4, FS_RemoveElement
    <3>6. count[name][n] = count[h][y] + Cardinality(Underway(name, l))
      BY <2>2 DEF Ahead
    <3> HIDE DEF h, y, n
    <3>7. count'[name][n] = count'[h][y] + Cardinality(Underway(name, l)')
      BY <1>e, <2>5, <3>3, <3>4, <3>5, <3>6
    <3> QED
      BY <3>5, <3>7 DEF Ahead, h, y, n
  <2>7. CASE ~(en = name /\ event[e].label = l)
    <3>1. count'[h][y] = count[h][y]
      <4>1. b # h \/ y # x
        <5> SUFFICES ASSUME b = h, y = x PROVE FALSE
          OBVIOUS
        <5>1. durations[en][2] = durations[name][2] /\ event[e].label = l
          OBVIOUS
        <5>2. en = name
          BY <2>1, <5>1, Durations
        <5> QED
          BY <2>7, <5>1, <5>2
      <4> QED
        BY <1>b, <1>c, <2>1, <4>1 DEF Grows
    <3>2. e \notin Underway(name, l)
      BY <2>3, <2>7, UnderwayIs
    <3>3. Underway(name, l)' = Underway(name, l)
      <4>1. \A d \in Emitters : d \in Underway(name, l)' <=> d \in Underway(name, l)
        BY <2>1, <2>4, <3>2, UnderwayOthers
      <4> QED
        BY <4>1 DEF Underway
    <3> QED
      BY <2>2, <2>5, <3>1, <3>3, AheadSame
  <2> QED
    BY <2>6, <2>7
<1>5. ASSUME NEW f \in Mappers, InitMetrics(f) PROVE FALSE
  BY <1>5, <1>a DEF InitMetrics
<1>6. CASE Reset \/ RegisterFails
  BY <1>6, <1>a DEF Reset, RegisterFails
<1>7. CASE Register
  <2>1. count'[name][n] = 0 /\ count'[h][y] = 0
    BY <1>7, <1>a, <1>b, <1>c, AllEmpty
  <2>2. \A e \in Emitters : event'[e] = Idle
    BY <1>7, <1>a DEF Register, AloneInv
  <2>3. \A e \in Emitters : e \notin Underway(name, l)'
    BY <1>d, <2>2, UnderwayIsNext
  <2>4. Underway(name, l)' = {}
    BY <2>3 DEF Underway
  <2>5. IsFiniteSet(Underway(name, l)') /\ Cardinality(Underway(name, l)') = 0
    BY <2>4, FS_EmptySet
  <2>6. count'[name][n] = count'[h][y] + Cardinality(Underway(name, l)')
    <3> HIDE DEF h, y, n
    <3> QED
      BY <2>1, <2>5
  <2> QED
    BY <2>5, <2>6 DEF Ahead
<1>8. CASE UNCHANGED <<mapper, count, event, at, step, failed, overlap>>
  <2>1. Underway(name, l)' = Underway(name, l)
    BY <1>8 DEF Underway, routingKeyLabel
  <2>2. Orderly
    BY <1>8 DEF Orderly
  <2> QED
    BY <1>0, <1>8, <2>1, <2>2, AheadSame
<1> QED
  BY <1>1, <1>2, <1>3, <1>4, <1>5, <1>6, <1>7, <1>8, Steps

-----------------------------------------------------------------------------
(* Nothing is counted and nothing is under way at first.                   *)
LEMMA InitIInv == Init => IInv
<1> SUFFICES ASSUME Init PROVE IInv
  OBVIOUS
<1>1. Idle.step = "idle"
  BY DEF Idle
<1>2. TypeInv
  <2>1. mapper \in Mappers /\ at \in 0..Len(collectors)
    <3>1. mapper = Identity /\ at = 0
      BY DEF Init
    <3>2. 0 \in 0..Len(collectors)
      BY Collectors
    <3> QED
      BY <3>1, <3>2, MapperAssumption
  <2>3. count \in [Names -> [Cells -> Nat]]
    <3>1. Zero \in [Cells -> Nat]
      BY DEF Zero
    <3>2. count = [c \in Names |-> Zero]
      BY DEF Init, Zero, Cells
    <3> QED
      BY <3>1, <3>2
  <2>2. event \in [Emitters -> Ev \cup {Idle}] /\ \A e \in Emitters : event[e] = Idle
    BY DEF Init
  <2> QED
    BY <1>1, <2>1, <2>2, <2>3 DEF TypeInv, Between
<1>3. AloneInv /\ LabelInv /\ ResetInv
  BY DEF Init, AloneInv, LabelInv, ResetInv
<1>4. \A c \in Names, x \in Cells : count[c][x] = 0
  BY DEF Init, Cells
<1>5. OnlyMappedLabels
  <2>1. \A c \in Names, l \in Labels, r \in Results : count[c][<<l, r>>] = 0
    BY <1>4 DEF Cells
  <2> QED
    BY <2>1 DEF OnlyMappedLabels
<1>6. ASSUME NEW name \in DOMAIN durations, NEW l \in Labels PROVE Ahead(name, l)
  <2>1. /\ name \in Names /\ durations[name][1] \in Names
        /\ <<l, "">> \in Cells /\ <<l, durations[name][2]>> \in Cells
    BY Durations DEF Cells, Results
  <2>2. \A e \in Emitters : event[e].step \notin Between
    BY <1>1 DEF Init, Between
  <2>3. Underway(name, l) = {}
    BY <2>2 DEF Underway, Between
  <2>4. IsFiniteSet(Underway(name, l)) /\ Cardinality(Underway(name, l)) = 0
    BY <2>3, FS_EmptySet
  <2>5. /\ count[name][<<l, "">>] = 0
        /\ count[durations[name][1]][<<l, durations[name][2]>>] = 0
    BY <1>4, <2>1
  <2>6. 0 = 0 + 0
    OBVIOUS
  <2> QED
    BY <2>4, <2>5, <2>6 DEF Ahead
<1> QED
  BY <1>2, <1>3, <1>5, <1>6 DEF IInv, AheadInv

(* The inductive invariant holds in every behaviour.                       *)
THEOREM Invariance == Spec => []IInv
<1>1. IInv /\ [Next]_vars => IInv'
  BY TypeStep, AloneStep, LabelStep, ResetStep, MappedStep, AheadStep DEF IInv
<1> QED
  BY <1>1, InitIInv, PTL DEF Spec

(* After an InitMetrics that met no event and returned nil, no series of   *)
(* any collector has a label its mapper does not make, whatever was        *)
(* counted before under other mappers: the mapper is stored before the     *)
(* first Reset, and every collector is reset.                              *)
THEOREM LabelsAreMapped == Spec => []OnlyMappedLabels
BY Invariance, PTL DEF IInv

(* And the counters of acks, nacks and publishes agree with the number of  *)
(* durations observed, label by label, but for events between the two.     *)
THEOREM CountersAgree == Spec => []CountersMatchDurations
<1>1. IInv => CountersMatchDurations
  <2> SUFFICES ASSUME IInv, Orderly, NEW name \in DOMAIN durations, NEW l \in Labels
               PROVE  /\ count[name][<<l, "">>] >=
                            count[durations[name][1]][<<l, durations[name][2]>>]
                      /\ Underway(name, l) = {} =>
                            count[name][<<l, "">>] =
                               count[durations[name][1]][<<l, durations[name][2]>>]
    BY DEF CountersMatchDurations
  <2> DEFINE c == count[name][<<l, "">>]
             d == count[durations[name][1]][<<l, durations[name][2]>>]
             u == Cardinality(Underway(name, l))
  <2>1. Ahead(name, l)
    BY DEF IInv, AheadInv
  <2>2. c = d + u /\ u \in Nat
    BY <2>1, FS_CardinalityType DEF Ahead
  <2>3. Underway(name, l) = {} => u = 0
    BY FS_EmptySet
  <2>4. d \in Nat
    <3>1. durations[name][1] \in Names /\ <<l, durations[name][2]>> \in Cells
      BY Durations DEF Cells
    <3> QED
      BY <3>1 DEF IInv, TypeInv
  <2> HIDE DEF c, d, u
  <2>5. c >= d /\ (u = 0 => c = d)
    BY <2>2, <2>4
  <2> QED
    BY <2>3, <2>5 DEF c, d
<1> QED
  BY <1>1, Invariance, PTL
=============================================================================
