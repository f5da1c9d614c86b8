------------------------ MODULE ConsumerBoundProofs ------------------------
(***************************************************************************)
(* How often a message can be handled with success, and how far the ack    *)
(* counter can be off, for any replicas, prefetch limit and number of lost *)
(* links: both are paid for by the links that were lost.                   *)
(***************************************************************************)
EXTENDS ConsumerProofs, FiniteSetTheorems

(* The deliveries in a buffer, and the fact that they are distinct.        *)
Elems(s) == {s[i] : i \in 1..Len(s)}
NoRepeats(s) == \A i, j \in 1..Len(s) : s[i] = s[j] => i = j

(* What a process has still to settle, and what it has still to handle.    *)
Work(r) == Elems(buffer[r]) \cup (IF cur[r] # 0 THEN {cur[r]} ELSE {})
Todo(r) == Elems(buffer[r]) \cup (IF pc[r] = "handling" THEN {cur[r]} ELSE {})

(* The deliveries of a process are distinct, with or without a link.       *)
DistinctInv == \A r \in Replicas : NoRepeats(buffer[r]) /\ cur[r] \notin Elems(buffer[r])

(* A message that has left the queue is nobody's.                          *)
GoneInv == \A m \in Msgs : gone[m] # "no" => owner[m] = Nobody

WindowInv == \A r \in Replicas : Cardinality(Unacked(r)) <= Prefetch

-----------------------------------------------------------------------------
(* Deliveries that processes without a link have still to settle: each may *)
(* be counted as an ack the broker never sees.                             *)
Stale == {x \in Replicas \X Msgs : link[x[1]] # "up" /\ x[2] \in Work(x[1])}
AckInv == IsFiniteSet(Stale) /\ ackExtra + Cardinality(Stale) <= Prefetch * losses

(* Processes without a link that have still to handle message m.           *)
Late(m) == {r \in Replicas : link[r] # "up" /\ m \in Todo(r)}

(* A live channel is about to have message m acked by process r.           *)
Acking(r, m) ==
    link[r] = "up" /\ pc[r] = "settling" /\ cur[r] = m /\ outcome[r] = "nil"

(* Message m is gone for good, or is about to be.                          *)
Spent(m) == gone[m] # "no" \/ \E r \in Replicas : Acking(r, m)

(* What has succeeded and what still can add up to the links lost, and one.*)
Paid(m) ==
    /\ IsFiniteSet(Late(m))
    /\ success[m] + Cardinality(Late(m)) + (IF Spent(m) THEN 0 ELSE 1) <= losses + 1
DupInv == \A m \in Msgs : Paid(m)

BoundInv == DistinctInv /\ GoneInv /\ WindowInv /\ AckInv /\ DupInv

-----------------------------------------------------------------------------
(* What is left in a buffer when its first delivery is taken.              *)
LEMMA TailElems ==
    ASSUME NEW s \in Seq(Msgs), s # <<>>, NoRepeats(s)
    PROVE  /\ Elems(Tail(s)) = Elems(s) \ {Head(s)}
           /\ Head(s) \in Elems(s)
           /\ NoRepeats(Tail(s))
<1>1. /\ Head(s) = s[1] /\ Len(s) \in Nat \ {0} /\ Len(Tail(s)) = Len(s) - 1
      /\ \A i \in 1..Len(Tail(s)) : Tail(s)[i] = s[i + 1]
  BY TailOf
<1>2. \A i \in 1..Len(Tail(s)) : i + 1 \in 1..Len(s) /\ i + 1 # 1
  BY <1>1
<1>3. 1 \in 1..Len(s)
  BY <1>1
<1>4. \A i \in 1..Len(s) : i # 1 => i - 1 \in 1..Len(Tail(s)) /\ (i - 1) + 1 = i
  BY <1>1
<1>5. ASSUME NEW x \in Elems(Tail(s)) PROVE x \in Elems(s) /\ x # Head(s)
  <2>1. PICK i \in 1..Len(Tail(s)) : x = Tail(s)[i]
    BY DEF Elems
  <2>2. x = s[i + 1] /\ i + 1 \in 1..Len(s) /\ i + 1 # 1
    BY <1>1, <1>2, <2>1
  <2> QED
    BY <1>1, <1>3, <2>2 DEF Elems, NoRepeats
<1>6. ASSUME NEW x \in Elems(s), x # Head(s) PROVE x \in Elems(Tail(s))
  <2>1. PICK i \in 1..Len(s) : x = s[i]
    BY DEF Elems
  <2>2. i - 1 \in 1..Len(Tail(s)) /\ (i - 1) + 1 = i
    BY <1>1, <1>4, <1>6, <2>1
  <2>3. Tail(s)[i - 1] = x
    BY <1>1, <2>1, <2>2
  <2> QED
    BY <2>2, <2>3 DEF Elems
<1>7. Head(s) \in Elems(s)
  BY <1>1, <1>3 DEF Elems
<1>8. NoRepeats(Tail(s))
  <2> SUFFICES ASSUME NEW i \in 1..Len(Tail(s)), NEW j \in 1..Len(Tail(s)),
                      Tail(s)[i] = Tail(s)[j]
               PROVE  i = j
    BY DEF NoRepeats
  <2>1. s[i + 1] = s[j + 1] /\ i + 1 \in 1..Len(s) /\ j + 1 \in 1..Len(s)
    BY <1>1, <1>2
  <2>2. i + 1 = j + 1
    BY <2>1 DEF NoRepeats
  <2> QED
    BY <1>1, <2>2
<1> QED
  BY <1>5, <1>6, <1>7, <1>8

(* What is in a buffer when a delivery arrives.                            *)
LEMMA AppendElems ==
    ASSUME NEW s \in Seq(Msgs), NEW e \in Msgs, NoRepeats(s), e \notin Elems(s)
    PROVE  Elems(Append(s, e)) = Elems(s) \cup {e} /\ NoRepeats(Append(s, e))
<1>1. /\ Len(s) \in Nat /\ Len(Append(s, e)) = Len(s) + 1 /\ Append(s, e)[Len(s) + 1] = e
      /\ \A i \in 1..Len(s) : Append(s, e)[i] = s[i]
  BY AppendOf
<1>2. \A i \in 1..(Len(s) + 1) : i \in 1..Len(s) \/ i = Len(s) + 1
  BY <1>1
<1>3. Len(s) + 1 \in 1..(Len(s) + 1) /\ \A i \in 1..Len(s) : i \in 1..(Len(s) + 1)
  BY <1>1
<1>4. ASSUME NEW x \in Elems(Append(s, e)) PROVE x \in Elems(s) \cup {e}
  <2>1. PICK i \in 1..(Len(s) + 1) : x = Append(s, e)[i]
    BY <1>1 DEF Elems
  <2> QED
    BY <1>1, <1>2, <2>1 DEF Elems
<1>5. ASSUME NEW x \in Elems(s) PROVE x \in Elems(Append(s, e))
  <2>1. PICK i \in 1..Len(s) : x = s[i]
    BY DEF Elems
  <2>2. x = Append(s, e)[i] /\ i \in 1..Len(Append(s, e))
    BY <1>1, <1>3, <2>1
  <2> QED
    BY <2>2 DEF Elems
<1>6. e \in Elems(Append(s, e))
  BY <1>1, <1>3 DEF Elems
<1>7. NoRepeats(Append(s, e))
  <2>1. \A i \in 1..Len(s) : s[i] # e
    BY DEF Elems
  <2>2. \A i \in 1..Len(Append(s, e)) :
          \/ i \in 1..Len(s) /\ Append(s, e)[i] = s[i]
          \/ i = Len(s) + 1 /\ Append(s, e)[i] = e
    <3> SUFFICES ASSUME NEW i \in 1..(Len(s) + 1)
                 PROVE  \/ i \in 1..Len(s) /\ Append(s, e)[i] = s[i]
                        \/ i = Len(s) + 1 /\ Append(s, e)[i] = e
      BY <1>1
    <3>1. i \in 1..Len(s) \/ i = Len(s) + 1
      BY <1>2
    <3> QED
      BY <1>1, <3>1
  <2> QED
    BY <2>1, <2>2 DEF NoRepeats
<1> QED
  BY <1>4, <1>5, <1>6, <1>7

(* An empty buffer holds nothing.                                          *)
LEMMA NoElems == Elems(<<>>) = {} /\ NoRepeats(<<>>)
BY DEF Elems, NoRepeats

-----------------------------------------------------------------------------
(* Only replica r changes.                                                 *)
Others(r) ==
    \A s \in Replicas \ {r} :
        /\ link'[s] = link[s] /\ buffer'[s] = buffer[s] /\ pc'[s] = pc[s]
        /\ cur'[s] = cur[s] /\ outcome'[s] = outcome[s]

(* The types of the values the bounds speak of.                            *)
LEMMA Typed ==
    ASSUME IInv
    PROVE  /\ TypeOK /\ BusyInv /\ DownInv /\ SettlesItsOwn
           /\ DOMAIN link = Replicas /\ DOMAIN buffer = Replicas /\ DOMAIN pc = Replicas
           /\ DOMAIN cur = Replicas /\ DOMAIN outcome = Replicas
           /\ DOMAIN owner = Msgs /\ DOMAIN gone = Msgs /\ DOMAIN success = Msgs
BY DEF IInv, Small, TypeOK

(* The counters are natural numbers, and so is the bound on the acks.      *)
LEMMA Counts ==
    ASSUME IInv
    PROVE  /\ losses \in Nat /\ Prefetch \in Nat /\ ackExtra \in Nat
           /\ \A m \in Msgs : success[m] \in Nat
<1>1. TypeOK
  BY Typed
<1>2. losses \in Nat
  BY <1>1, LimitsAssumption DEF TypeOK
<1> QED
  BY <1>1, <1>2, LimitsAssumption DEF TypeOK

(* One more link lost pays for one more prefetch window.                   *)
LEMMA OneMore ==
    ASSUME NEW p \in Nat, NEW n \in Nat
    PROVE  p * n \in Nat /\ p * (n + 1) = p * n + p /\ p * (n + 1) \in Nat
OBVIOUS

(* What the actions do to the replica that takes them, and to no other.    *)
LEMMA JoinEffect ==
    ASSUME IInv, NEW r \in Replicas, Join(r)
    PROVE  /\ Others(r) /\ link'[r] = "up" /\ pc[r] = "range"
           /\ UNCHANGED <<owner, gone, buffer, pc, cur, ackExtra, success, losses>>
BY Typed DEF Join, Others, brokerVars, loopVars, countVars, DownInv

(* The next message in line goes to the end of r's buffer.                 *)
LEMMA DeliverEffect ==
    ASSUME IInv, NEW r \in Replicas, NEW m \in Msgs, Deliver(r, m)
    PROVE  /\ Others(r) /\ link[r] = "up"
           /\ gone[m] = "no" /\ owner[m] = Nobody /\ Cardinality(Unacked(r)) < Prefetch
           /\ owner' = [owner EXCEPT ![m] = r]
           /\ buffer'[r] = Append(buffer[r], m)
           /\ UNCHANGED <<gone, link, pc, cur, outcome, ackExtra, success, losses>>
BY Typed DEF Deliver, Ready, Others, countVars

(* Lose, Leave or Crash: the broker takes back what r had, and a link is   *)
(* lost. Lose leaves r what it had in its buffer.                          *)
LEMMA DropEffect ==
    ASSUME IInv, NEW r \in Replicas, Lose(r) \/ Leave(r) \/ Crash(r)
    PROVE  /\ Others(r) /\ link[r] = "up" /\ link'[r] # "up" /\ losses' = losses + 1
           /\ owner' = [m \in Msgs |-> IF owner[m] = r THEN Nobody ELSE owner[m]]
           /\ buffer'[r] = buffer[r] \/ buffer'[r] = <<>>
           /\ \/ pc'[r] = pc[r] /\ cur'[r] = cur[r]
              \/ pc'[r] = "range" /\ cur'[r] = 0
           /\ \A m \in Msgs : owner[m] # r => gone'[m] = gone[m]
           /\ UNCHANGED <<ackExtra, success>>
<1>1. CASE Lose(r)
  BY <1>1, Typed DEF Lose, Drop, Others, loopVars, countVars
<1>2. CASE Leave(r)
  BY <1>2, Typed DEF Leave, Drop, Others, countVars
<1>3. CASE Crash(r)
  BY <1>3, Typed DEF Crash, Forget, Drop, Others
<1> QED
  BY <1>1, <1>2, <1>3

(* A process without a link starts again with nothing.                     *)
LEMMA RestartEffect ==
    ASSUME IInv, NEW r \in Replicas, Restart(r)
    PROVE  /\ Others(r) /\ link[r] # "up" /\ link'[r] # "up"
           /\ buffer'[r] = <<>> /\ pc'[r] = "range" /\ cur'[r] = 0
           /\ UNCHANGED <<owner, gone, ackExtra, success, losses>>
BY Typed DEF Restart, Forget, Others, brokerVars

(* The first delivery of r's buffer becomes the one it is at.              *)
LEMMA TakeEffect ==
    ASSUME IInv, DistinctInv, NEW r \in Replicas, Take(r)
    PROVE  /\ Others(r) /\ pc[r] = "range" /\ cur[r] = 0 /\ pc'[r] = "handling"
           /\ cur'[r] = Head(buffer[r]) /\ cur'[r] # 0
           /\ Elems(buffer'[r]) = Elems(buffer[r]) \ {cur'[r]}
           /\ cur'[r] \in Elems(buffer[r]) /\ NoRepeats(buffer'[r])
           /\ UNCHANGED <<owner, gone, link, ackExtra, success, losses>>
<1>1. /\ Others(r) /\ pc[r] = "range" /\ cur[r] = 0 /\ pc'[r] = "handling"
      /\ cur'[r] = Head(buffer[r]) /\ buffer'[r] = Tail(buffer[r]) /\ buffer[r] # <<>>
      /\ UNCHANGED <<owner, gone, link, ackExtra, success, losses>>
  BY Typed DEF Take, Others, brokerVars, BusyInv
<1>2. buffer[r] \in Seq(Msgs) /\ NoRepeats(buffer[r])
  BY Typed DEF TypeOK, DistinctInv
<1>3. Head(buffer[r]) # 0
  BY <1>1, <1>2, TailOf, MsgsAssumption DEF Msgs
<1> QED
  BY <1>1, <1>2, <1>3, TailElems

(* A delivery is handled; a success is counted only with outcome nil.      *)
LEMMA HandlingEffect ==
    ASSUME IInv, NEW r \in Replicas, Handling(r)
    PROVE  /\ Others(r) /\ pc[r] = "handling" /\ pc'[r] = "settling" /\ cur[r] \in Msgs
           /\ \/ UNCHANGED success
              \/ /\ outcome'[r] = "nil"
                 /\ success' = [success EXCEPT ![cur[r]] = @ + 1]
           /\ UNCHANGED <<owner, gone, link, buffer, cur, ackExtra, losses>>
<1>1. pc[r] = "handling" /\ cur[r] \in Msgs
  BY Typed, BusyAt DEF Handling, NoHandler, HandlerSucceeds, HandlerFails
<1>2. CASE NoHandler(r)
  BY <1>1, <1>2, Typed DEF NoHandler, Others, brokerVars
<1>3. CASE HandlerSucceeds(r)
  BY <1>1, <1>3, Typed DEF HandlerSucceeds, Others, brokerVars
<1>4. ASSUME NEW o \in Results, HandlerFails(r, o)
      PROVE  /\ Others(r) /\ pc'[r] = "settling"
             /\ UNCHANGED <<success, owner, gone, link, buffer, cur, ackExtra, losses>>
  BY <1>4, Typed DEF HandlerFails, Others, brokerVars
<1> QED
  BY <1>1, <1>2, <1>3, <1>4 DEF Handling

(* A delivery of a live channel is settled at the broker.                  *)
LEMMA SettleEffect ==
    ASSUME IInv, NEW r \in Replicas, Settle(r)
    PROVE  /\ Others(r) /\ link[r] = "up" /\ pc[r] = "settling" /\ pc'[r] = "range"
           /\ cur[r] \in Msgs /\ owner[cur[r]] = r /\ cur'[r] = 0
           /\ owner' = [owner EXCEPT ![cur[r]] = Nobody]
           /\ gone' = [gone EXCEPT ![cur[r]] = Settlement(outcome[r], cur[r])]
           /\ UNCHANGED <<link, buffer, outcome, ackExtra, success, losses>>
<1>1. cur[r] \in Msgs /\ owner[cur[r]] = r
  BY Typed, BusyAt DEF Settle, SettlesItsOwn, OwnDeliveries
<1> QED
  BY <1>1, Typed DEF Settle, Others

(* Without a link only the counter may notice.                             *)
LEMMA SettleFailsEffect ==
    ASSUME IInv, NEW r \in Replicas, SettleFails(r)
    PROVE  /\ Others(r) /\ link[r] # "up" /\ pc[r] = "settling" /\ pc'[r] = "range"
           /\ cur[r] \in Msgs /\ cur[r] # 0 /\ cur'[r] = 0
           /\ ackExtra' = ackExtra \/ ackExtra' = ackExtra + 1
           /\ UNCHANGED <<owner, gone, link, buffer, outcome, success, losses>>
<1>1. cur[r] \in Msgs /\ cur[r] # 0
  BY Typed, BusyAt DEF SettleFails, BusyInv
<1> QED
  BY <1>1, Typed DEF SettleFails, Others, brokerVars

(* The loop of r ends.                                                     *)
LEMMA ExitEffect ==
    ASSUME IInv, NEW r \in Replicas, Exit(r)
    PROVE  /\ Others(r) /\ pc[r] = "range" /\ pc'[r] = "exited"
           /\ UNCHANGED <<owner, gone, link, buffer, cur, ackExtra, success, losses>>
BY Typed DEF Exit, Others, brokerVars, countVars

(* The steps that touch nothing the bounds speak of, but that the broker   *)
(* may delete a queue nobody consumes from.                                *)
Quiet ==
    /\ UNCHANGED <<owner, link, buffer, pc, cur, outcome, ackExtra, success, losses>>
    /\ \A m \in Msgs :
          \/ gone'[m] = gone[m]
          \/ gone'[m] = "expired" /\ \A r \in Replicas : link[r] # "up"

(* The steps there are.                                                    *)
LEMMA Steps ==
    ASSUME [Next]_vars
    PROVE  \/ Quiet
           \/ \E r \in Replicas :
                 \/ Join(r)
                 \/ \E m \in Msgs : Deliver(r, m)
                 \/ Lose(r) \/ Leave(r) \/ Crash(r)
                 \/ Restart(r) \/ Take(r) \/ Handling(r)
                 \/ Settle(r) \/ SettleFails(r) \/ Exit(r)
<1>1. ASSUME NEW r \in Replicas, Activate(r) PROVE Quiet
  BY <1>1 DEF Activate, Quiet, loopVars, countVars
<1>2. CASE UNCHANGED vars
  BY <1>2 DEF Quiet, vars, brokerVars, loopVars, countVars
<1>3. CASE Expire
  BY <1>3 DEF Expire, Quiet, loopVars, countVars
<1> QED
  BY <1>1, <1>2, <1>3 DEF Next, Loop

-----------------------------------------------------------------------------
(* A message lies in no buffer and is at no loop of a live replica that    *)
(* does not own it.                                                        *)
LEMMA LiveOwns ==
    ASSUME IInv, NEW r \in Replicas, link[r] = "up"
    PROVE  /\ \A x \in Elems(buffer[r]) : x \in Msgs /\ owner[x] = r
           /\ cur[r] # 0 => cur[r] \in Msgs /\ owner[cur[r]] = r
<1>1. OwnDeliveries(r)
  BY Typed DEF SettlesItsOwn
<1>2. \A x \in Elems(buffer[r]) : x \in Msgs /\ owner[x] = r
  BY <1>1, Typed, Buffered DEF OwnDeliveries, Elems
<1>3. cur[r] # 0 => pc[r] \in {"handling", "settling"}
  BY Typed DEF BusyInv
<1> QED
  BY <1>1, <1>2, <1>3, Typed, BusyAt DEF OwnDeliveries

(* Every process keeps its deliveries apart.                               *)
LEMMA DistinctStep == IInv /\ DistinctInv /\ [Next]_vars => DistinctInv'
<1> SUFFICES ASSUME IInv, DistinctInv, [Next]_vars PROVE DistinctInv'
  OBVIOUS
<1> DEFINE Apart(s) == NoRepeats(buffer[s]) /\ cur[s] \notin Elems(buffer[s])
<1>0. \A s \in Replicas : Apart(s)
  BY DEF DistinctInv
<1>a. ASSUME NEW r \in Replicas, Others(r), Apart(r)' PROVE DistinctInv'
  BY <1>0, <1>a DEF Others, DistinctInv
<1>b. \A r \in Replicas : 0 \notin Elems(buffer[r])
  BY Typed, Buffered DEF Elems
<1>1. ASSUME NEW r \in Replicas, Join(r) \/ Handling(r) \/ Exit(r) PROVE DistinctInv'
  <2>1. Others(r) /\ buffer' = buffer /\ cur' = cur
    BY <1>1, JoinEffect, HandlingEffect, ExitEffect
  <2> QED
    BY <1>0, <1>a, <2>1
<1>2. ASSUME NEW r \in Replicas, NEW m \in Msgs, Deliver(r, m) PROVE DistinctInv'
  <2>1. /\ Others(r) /\ link[r] = "up" /\ owner[m] = Nobody /\ cur' = cur
        /\ buffer'[r] = Append(buffer[r], m)
    BY <1>2, DeliverEffect
  <2>2. r # Nobody /\ m # 0
    BY ReplicasAssumption, MsgsAssumption DEF Msgs
  <2>3. m \notin Elems(buffer[r]) /\ m # cur[r]
    BY <2>1, <2>2, LiveOwns
  <2>4. buffer[r] \in Seq(Msgs)
    BY Typed DEF TypeOK
  <2>5. Elems(buffer'[r]) = Elems(buffer[r]) \cup {m} /\ NoRepeats(buffer'[r])
    BY <1>0, <2>1, <2>3, <2>4, AppendElems
  <2> QED
    BY <1>0, <1>a, <2>1, <2>3, <2>5
<1>3. ASSUME NEW r \in Replicas, Lose(r) \/ Leave(r) \/ Crash(r) PROVE DistinctInv'
  <2>1. /\ Others(r)
        /\ buffer'[r] = buffer[r] \/ buffer'[r] = <<>>
        /\ cur'[r] = cur[r] \/ cur'[r] = 0
    BY <1>3, DropEffect
  <2> QED
    BY <1>0, <1>a, <1>b, <2>1, NoElems
<1>4. ASSUME NEW r \in Replicas, Restart(r) PROVE DistinctInv'
  BY <1>4, <1>a, RestartEffect, NoElems
<1>5. ASSUME NEW r \in Replicas, Take(r) PROVE DistinctInv'
  BY <1>5, <1>a, TakeEffect
<1>6. ASSUME NEW r \in Replicas, Settle(r) \/ SettleFails(r) PROVE DistinctInv'
  <2>1. Others(r) /\ buffer' = buffer /\ cur'[r] = 0
    BY <1>6, SettleEffect, SettleFailsEffect
  <2> QED
    BY <1>0, <1>a, <1>b, <2>1
<1>7. CASE Quiet
  BY <1>0, <1>7 DEF Quiet, DistinctInv
<1> QED
  BY <1>1, <1>2, <1>3, <1>4, <1>5, <1>6, <1>7, Steps

(* The broker hands out only what is in the queue.                         *)
LEMMA GoneStep == IInv /\ GoneInv /\ [Next]_vars => GoneInv'
<1> SUFFICES ASSUME IInv, GoneInv, [Next]_vars PROVE GoneInv'
  OBVIOUS
<1>1. CASE UNCHANGED <<owner, gone>>
  BY <1>1 DEF GoneInv
<1>2. ASSUME NEW r \in Replicas, NEW m \in Msgs, Deliver(r, m) PROVE GoneInv'
  BY <1>2, DeliverEffect, Typed DEF GoneInv
<1>3. ASSUME NEW r \in Replicas, Lose(r) \/ Leave(r) \/ Crash(r) PROVE GoneInv'
  BY <1>3, DropEffect DEF GoneInv
<1>4. ASSUME NEW r \in Replicas, Settle(r) PROVE GoneInv'
  BY <1>4, SettleEffect, Typed DEF GoneInv
<1>5. CASE Quiet
  <2> SUFFICES ASSUME NEW m \in Msgs, gone'[m] # gone[m] PROVE owner[m] = Nobody
    BY <1>5 DEF Quiet, GoneInv
  <2>1. \A r \in Replicas : link[r] # "up"
    BY <1>5 DEF Quiet
  <2> QED
    BY <2>1 DEF IInv, NothingForgotten, Held, TypeOK
<1> QED
  BY <1>1, <1>2, <1>3, <1>4, <1>5, Steps, JoinEffect, RestartEffect, HandlingEffect,
     SettleFailsEffect, ExitEffect DEF Take, brokerVars

(* How much smaller or larger a part of a finite set is.                   *)
LEMMA NoMore ==
    ASSUME NEW S, NEW T, IsFiniteSet(S), T \subseteq S
    PROVE  /\ IsFiniteSet(T) /\ Cardinality(T) <= Cardinality(S)
           /\ Cardinality(T) \in Nat /\ Cardinality(S) \in Nat
<1>1. IsFiniteSet(T) /\ Cardinality(T) <= Cardinality(S)
  BY FS_Subset
<1> QED
  BY <1>1, FS_CardinalityType

(* A set with at most one new element.                                     *)
LEMMA OneMoreElement ==
    ASSUME NEW S, NEW T, NEW x, IsFiniteSet(S), T \subseteq S \cup {x}
    PROVE  /\ IsFiniteSet(T) /\ Cardinality(T) <= Cardinality(S) + 1
           /\ Cardinality(T) \in Nat /\ Cardinality(S) \in Nat
<1>1. /\ IsFiniteSet(S \cup {x})
      /\ Cardinality(S \cup {x}) = IF x \in S THEN Cardinality(S) ELSE Cardinality(S) + 1
  BY FS_AddElement
<1>2. Cardinality(S) \in Nat
  BY FS_CardinalityType
<1>3. /\ IsFiniteSet(T) /\ Cardinality(T) <= Cardinality(S \cup {x})
      /\ Cardinality(T) \in Nat /\ Cardinality(S \cup {x}) \in Nat
  BY <1>1, NoMore
<1>4. Cardinality(S \cup {x}) <= Cardinality(S) + 1
  BY <1>1, <1>2
<1> QED
  BY <1>2, <1>3, <1>4

(* A set without one of its elements.                                      *)
LEMMA OneElementLess ==
    ASSUME NEW S, NEW T, NEW x \in S, IsFiniteSet(S), T \subseteq S \ {x}
    PROVE  /\ IsFiniteSet(T) /\ Cardinality(T) + 1 <= Cardinality(S)
           /\ Cardinality(T) \in Nat /\ Cardinality(S) \in Nat
<1>1. IsFiniteSet(S \ {x}) /\ Cardinality(S \ {x}) = Cardinality(S) - 1
  BY FS_RemoveElement
<1>2. Cardinality(S) \in Nat
  BY FS_CardinalityType
<1>3. /\ IsFiniteSet(T) /\ Cardinality(T) <= Cardinality(S \ {x})
      /\ Cardinality(T) \in Nat
  BY <1>1, NoMore
<1> QED
  BY <1>1, <1>2, <1>3

(* What a channel has unacked is finite, being a part of the queue.        *)
LEMMA UnackedFinite ==
    ASSUME NEW S, S \subseteq Msgs
    PROVE  IsFiniteSet(S) /\ Cardinality(S) \in Nat
<1>1. IsFiniteSet(Msgs)
  BY MsgsAssumption, FS_Interval DEF Msgs
<1>2. IsFiniteSet(S)
  BY <1>1, FS_Subset
<1> QED
  BY <1>2, FS_CardinalityType

(* The broker keeps to the prefetch limit.                                 *)
LEMMA WindowStep == IInv /\ WindowInv /\ [Next]_vars => WindowInv'
<1> SUFFICES ASSUME IInv, WindowInv, [Next]_vars PROVE WindowInv'
  OBVIOUS
<1>0. Prefetch \in Nat
  BY LimitsAssumption
<1>a. ASSUME NEW s \in Replicas, Unacked(s)' \subseteq Unacked(s)
      PROVE  Cardinality(Unacked(s)') <= Prefetch
  <2>1. Unacked(s) \subseteq Msgs /\ Unacked(s)' \subseteq Msgs
    BY DEF Unacked
  <2>2. IsFiniteSet(Unacked(s)) /\ Cardinality(Unacked(s)) \in Nat
    BY <2>1, UnackedFinite
  <2>3. Cardinality(Unacked(s)') \in Nat /\ Cardinality(Unacked(s)') <= Cardinality(Unacked(s))
    BY <1>a, <2>1, <2>2, UnackedFinite, FS_Subset
  <2>4. Cardinality(Unacked(s)) <= Prefetch
    BY DEF WindowInv
  <2> QED
    BY <1>0, <2>2, <2>3, <2>4
<1>1. CASE UNCHANGED owner
  BY <1>1, <1>a DEF WindowInv, Unacked
<1>2. ASSUME NEW r \in Replicas, NEW m \in Msgs, Deliver(r, m) PROVE WindowInv'
  <2> SUFFICES ASSUME NEW s \in Replicas PROVE Cardinality(Unacked(s)') <= Prefetch
    BY DEF WindowInv
  <2>1. /\ owner[m] = Nobody /\ owner' = [owner EXCEPT ![m] = r] /\ DOMAIN owner = Msgs
        /\ Cardinality(Unacked(r)) < Prefetch
    BY <1>2, DeliverEffect, Typed
  <2>2. CASE s # r
    <3>1. Unacked(s)' \subseteq Unacked(s)
      BY <2>1, <2>2 DEF Unacked
    <3> QED
      BY <1>a, <3>1
  <2>3. CASE s = r
    <3>1. Unacked(r)' = Unacked(r) \cup {m}
      BY <2>1 DEF Unacked
    <3>2. IsFiniteSet(Unacked(r)) /\ Cardinality(Unacked(r)) \in Nat
      BY UnackedFinite DEF Unacked
    <3>3. /\ Cardinality(Unacked(r)') <= Cardinality(Unacked(r)) + 1
          /\ Cardinality(Unacked(r)') \in Nat
      BY <3>1, <3>2, OneMoreElement
    <3> QED
      BY <1>0, <2>1, <2>3, <3>2, <3>3
  <2> QED
    BY <2>2, <2>3
<1>3. ASSUME NEW r \in Replicas, Lose(r) \/ Leave(r) \/ Crash(r) PROVE WindowInv'
  <2>1. \A m \in Msgs : owner'[m] = owner[m] \/ owner'[m] = Nobody
    BY <1>3, DropEffect
  <2>2. \A s \in Replicas : Unacked(s)' \subseteq Unacked(s)
    BY <2>1, ReplicasAssumption DEF Unacked
  <2> QED
    BY <1>a, <2>2 DEF WindowInv
<1>4. ASSUME NEW r \in Replicas, Settle(r) PROVE WindowInv'
  <2>1. \A m \in Msgs : owner'[m] = owner[m] \/ owner'[m] = Nobody
    BY <1>4, SettleEffect, Typed
  <2>2. \A s \in Replicas : Unacked(s)' \subseteq Unacked(s)
    BY <2>1, ReplicasAssumption DEF Unacked
  <2> QED
    BY <1>a, <2>2 DEF WindowInv
<1> QED
  BY <1>1, <1>2, <1>3, <1>4, Steps, JoinEffect, RestartEffect, HandlingEffect,
     SettleFailsEffect, ExitEffect DEF Quiet, Take, brokerVars

-----------------------------------------------------------------------------
(* A replica other than r has the same work to do.                         *)
LEMMA SameWork ==
    ASSUME NEW r \in Replicas, Others(r), NEW s \in Replicas \ {r}
    PROVE  Work(s)' = Work(s) /\ Todo(s)' = Todo(s)
BY DEF Others, Work, Todo

(* The stale deliveries are those of the other replicas and those of r.    *)
LEMMA StaleSplit ==
    ASSUME NEW r \in Replicas, Others(r), NEW x \in Stale'
    PROVE  \/ x \in Stale
           \/ x[1] = r /\ link'[r] # "up" /\ x[2] \in Work(r)' /\ x = <<r, x[2]>>
<1>1. x \in Replicas \X Msgs /\ link'[x[1]] # "up" /\ x[2] \in Work(x[1])'
  BY DEF Stale
<1>2. x[1] \in Replicas /\ x = <<x[1], x[2]>>
  BY <1>1
<1>3. CASE x[1] = r
  BY <1>1, <1>2, <1>3
<1>4. CASE x[1] # r
  <2>1. x[1] \in Replicas \ {r}
    BY <1>2, <1>4
  <2>2. Work(x[1])' = Work(x[1])
    BY <2>1, SameWork
  <2>3. link[x[1]] # "up" /\ x[2] \in Work(x[1])
    BY <1>1, <2>1, <2>2 DEF Others
  <2>4. x \in Stale
    BY <1>1, <2>3 DEF Stale
  <2> QED
    BY <2>4
<1> QED
  BY <1>3, <1>4

(* The bound survives as long as no delivery becomes stale.                *)
LEMMA AckFrame ==
    ASSUME IInv, AckInv, Stale' \subseteq Stale, ackExtra' = ackExtra,
           losses' = losses \/ losses' = losses + 1
    PROVE  AckInv'
<1>1. IsFiniteSet(Stale) /\ ackExtra + Cardinality(Stale) <= Prefetch * losses
  BY DEF AckInv
<1>2. /\ IsFiniteSet(Stale') /\ Cardinality(Stale') <= Cardinality(Stale)
      /\ Cardinality(Stale') \in Nat /\ Cardinality(Stale) \in Nat
  BY <1>1, NoMore
<1>3. losses \in Nat /\ Prefetch \in Nat /\ ackExtra \in Nat
  BY Counts
<1>4. /\ Prefetch * losses \in Nat /\ Prefetch * losses' \in Nat
      /\ Prefetch * losses <= Prefetch * losses'
  <2>1. /\ Prefetch * losses \in Nat
        /\ Prefetch * (losses + 1) = Prefetch * losses + Prefetch
    BY <1>3, OneMore
  <2>2. CASE losses' = losses
    BY <2>1, <2>2
  <2>3. CASE losses' = losses + 1
    BY <1>3, <2>1, <2>3
  <2> QED
    BY <2>2, <2>3
<1>5. ackExtra + Cardinality(Stale') <= Prefetch * losses'
  BY <1>1, <1>2, <1>3, <1>4
<1> QED
  BY <1>2, <1>5 DEF AckInv

(* The acks the broker never sees are paid for by the links lost.          *)
LEMMA AckStep ==
    ASSUME IInv, DistinctInv, WindowInv, AckInv, [Next]_vars
    PROVE  AckInv'
<1>1. ASSUME NEW r \in Replicas, Others(r), UNCHANGED <<ackExtra, losses>>,
             \/ link'[r] = "up"
             \/ link[r] # "up" /\ Work(r)' \subseteq Work(r)
      PROVE  AckInv'
  <2>1. ASSUME NEW x \in Stale' PROVE x \in Stale
    <3>1. CASE x[1] = r /\ link'[r] # "up" /\ x[2] \in Work(r)' /\ x = <<r, x[2]>>
      <4>1. link[r] # "up" /\ x[2] \in Work(r)
        BY <1>1, <3>1
      <4>2. x \in Replicas \X Msgs
        BY DEF Stale
      <4> QED
        BY <3>1, <4>1, <4>2 DEF Stale
    <3> QED
      BY <1>1, <3>1, StaleSplit
  <2> QED
    BY <1>1, <2>1, AckFrame
<1>2. ASSUME NEW r \in Replicas, Join(r) PROVE AckInv'
  BY <1>1, <1>2, JoinEffect
<1>3. ASSUME NEW r \in Replicas, NEW m \in Msgs, Deliver(r, m) PROVE AckInv'
  BY <1>1, <1>3, DeliverEffect
<1>4. ASSUME NEW r \in Replicas, Settle(r) PROVE AckInv'
  BY <1>1, <1>4, SettleEffect
<1>5. ASSUME NEW r \in Replicas, Restart(r) PROVE AckInv'
  <2>1. Work(r)' = {}
    BY <1>5, RestartEffect, NoElems DEF Work
  <2> QED
    BY <1>1, <1>5, <2>1, RestartEffect
<1>6. ASSUME NEW r \in Replicas, Take(r) PROVE AckInv'
  <2>1. Work(r)' = Work(r)
    BY <1>6, TakeEffect DEF Work
  <2>2. Others(r) /\ UNCHANGED <<link, ackExtra, losses>>
    BY <1>6, TakeEffect
  <2> QED
    BY <1>1, <2>1, <2>2
<1>7. ASSUME NEW r \in Replicas, Handling(r) \/ Exit(r) PROVE AckInv'
  <2>1. Others(r) /\ UNCHANGED <<link, buffer, cur, ackExtra, losses>>
    BY <1>7, HandlingEffect, ExitEffect
  <2>2. Work(r)' = Work(r)
    BY <2>1 DEF Work
  <2> QED
    BY <1>1, <2>1, <2>2
<1>8. CASE Quiet
  <2>1. Stale' = Stale
    BY <1>8 DEF Quiet, Stale, Work
  <2> QED
    BY <1>8, <2>1, AckFrame DEF Quiet
<1>a. IsFiniteSet(Stale) /\ ackExtra + Cardinality(Stale) <= Prefetch * losses
  BY DEF AckInv
<1>b. losses \in Nat /\ Prefetch \in Nat /\ ackExtra \in Nat
  BY Counts
<1>c. /\ Prefetch * losses \in Nat
      /\ Prefetch * (losses + 1) = Prefetch * losses + Prefetch
      /\ Prefetch * (losses + 1) \in Nat
  BY <1>b, OneMore
<1>9. ASSUME NEW r \in Replicas, SettleFails(r) PROVE AckInv'
  <2>1. /\ Others(r) /\ UNCHANGED <<link, buffer, losses>> /\ link[r] # "up"
        /\ cur[r] \in Msgs /\ cur[r] # 0 /\ cur'[r] = 0
        /\ ackExtra' = ackExtra \/ ackExtra' = ackExtra + 1
    BY <1>9, SettleFailsEffect
  <2>2. Work(r) = Elems(buffer[r]) \cup {cur[r]} /\ Work(r)' = Elems(buffer[r])
    BY <2>1 DEF Work
  <2>3. cur[r] \notin Elems(buffer[r])
    BY DEF DistinctInv
  <2>4. <<r, cur[r]>> \in Stale
    BY <2>1, <2>2 DEF Stale
  <2>5. ASSUME NEW x \in Stale' PROVE x \in Stale \ {<<r, cur[r]>>}
    <3>1. x \in Replicas \X Msgs /\ x[2] \in Work(x[1])'
      BY DEF Stale
    <3>2. x # <<r, cur[r]>>
      BY <2>2, <2>3, <3>1
    <3>3. CASE x[1] = r /\ x[2] \in Work(r)' /\ x = <<r, x[2]>>
      BY <2>1, <2>2, <3>1, <3>2, <3>3 DEF Stale
    <3> QED
      BY <2>1, <3>2, <3>3, StaleSplit
  <2>6. /\ IsFiniteSet(Stale') /\ Cardinality(Stale') + 1 <= Cardinality(Stale)
        /\ Cardinality(Stale') \in Nat /\ Cardinality(Stale) \in Nat
    BY <1>a, <2>4, <2>5, OneElementLess
  <2>7. ackExtra' + Cardinality(Stale') <= Prefetch * losses
    BY <1>a, <1>b, <1>c, <2>1, <2>6
  <2> QED
    BY <2>1, <2>6, <2>7 DEF AckInv
<1>10. ASSUME NEW r \in Replicas, Lose(r) \/ Leave(r) \/ Crash(r) PROVE AckInv'
  <2>1. /\ Others(r) /\ link[r] = "up" /\ losses' = losses + 1 /\ ackExtra' = ackExtra
        /\ buffer'[r] = buffer[r] \/ buffer'[r] = <<>>
        /\ cur'[r] = cur[r] \/ cur'[r] = 0
    BY <1>10, DropEffect
  <2>2. Work(r)' \subseteq Work(r)
    BY <2>1, NoElems DEF Work
  <2>3. Work(r) \subseteq Unacked(r)
    BY <2>1, LiveOwns DEF Work, Unacked
  <2>4. IsFiniteSet(Unacked(r)) /\ Cardinality(Unacked(r)) <= Prefetch
    BY UnackedFinite DEF Unacked, WindowInv
  <2>5. /\ IsFiniteSet(Work(r)) /\ Cardinality(Work(r)) <= Prefetch
        /\ Cardinality(Work(r)) \in Nat
    BY <1>b, <2>3, <2>4, NoMore
  <2> DEFINE New == {r} \X Work(r)
  <2>6. /\ IsFiniteSet(New) /\ Cardinality(New) <= Prefetch /\ Cardinality(New) \in Nat
    <3>1. IsFiniteSet({r}) /\ Cardinality({r}) = 1
      BY FS_Singleton
    <3>2. IsFiniteSet(New) /\ Cardinality(New) = Cardinality({r}) * Cardinality(Work(r))
      BY <2>5, <3>1, FS_Product
    <3> QED
      BY <2>5, <3>1, <3>2
  <2>7. ASSUME NEW x \in Stale' PROVE x \in Stale \cup New
    <3>1. CASE x[1] = r /\ x[2] \in Work(r)' /\ x = <<r, x[2]>>
      BY <2>2, <3>1
    <3> QED
      BY <2>1, <3>1, StaleSplit
  <2> HIDE DEF New
  <2>8. /\ IsFiniteSet(Stale \cup New)
        /\ Cardinality(Stale \cup New) <= Cardinality(Stale) + Cardinality(New)
        /\ Cardinality(Stale) \in Nat
    <3>1. /\ IsFiniteSet(Stale \cup New)
          /\ Cardinality(Stale \cup New)
                = Cardinality(Stale) + Cardinality(New) - Cardinality(Stale \cap New)
      BY <1>a, <2>6, FS_Union
    <3>2. Cardinality(Stale \cap New) \in Nat /\ Cardinality(Stale) \in Nat
      BY <1>a, NoMore
    <3> QED
      BY <2>6, <3>1, <3>2
  <2>9. /\ IsFiniteSet(Stale') /\ Cardinality(Stale') <= Cardinality(Stale \cup New)
        /\ Cardinality(Stale') \in Nat /\ Cardinality(Stale \cup New) \in Nat
    BY <2>7, <2>8, NoMore
  <2>10. ackExtra + Cardinality(Stale') <= Prefetch * losses + Prefetch
    BY <1>a, <1>b, <1>c, <2>6, <2>8, <2>9
  <2> QED
    BY <1>c, <2>1, <2>9, <2>10 DEF AckInv
<1> QED
  BY <1>2, <1>3, <1>4, <1>5, <1>6, <1>7, <1>8, <1>9, <1>10, Steps

-----------------------------------------------------------------------------
(* Who is late for message m: other replicas as before, and perhaps r.     *)
LEMMA LateSplit ==
    ASSUME NEW r \in Replicas, Others(r), NEW m \in Msgs, NEW s \in Late(m)'
    PROVE  /\ s # r => s \in Late(m)
           /\ s = r => link'[r] # "up" /\ m \in Todo(r)'
<1>1. s \in Replicas /\ link'[s] # "up" /\ m \in Todo(s)'
  BY DEF Late
<1>2. ASSUME s # r PROVE s \in Late(m)
  <2>1. Todo(s)' = Todo(s)
    BY <1>1, <1>2, SameWork
  <2>2. link[s] # "up" /\ m \in Todo(s)
    BY <1>1, <1>2, <2>1 DEF Others
  <2> QED
    BY <1>1, <2>2 DEF Late
<1> QED
  BY <1>1, <1>2

(* A message stays spent, unless r was to have it acked and no longer is.  *)
LEMMA SpentKept ==
    ASSUME NEW r \in Replicas, Others(r), NEW m \in Msgs,
           gone[m] # "no" => gone'[m] # "no",
           Acking(r, m) => Spent(m)', Spent(m)
    PROVE  Spent(m)'
<1>1. CASE gone[m] # "no"
  BY <1>1 DEF Spent
<1>2. ASSUME NEW s \in Replicas, Acking(s, m) PROVE Spent(m)'
  <2>1. CASE s = r
    BY <1>2, <2>1
  <2>2. CASE s # r
    BY <1>2, <2>2 DEF Others, Acking, Spent
  <2> QED
    BY <2>1, <2>2
<1> QED
  BY <1>1, <1>2 DEF Spent

(* The account of a message, in numbers: what it was and what it becomes.  *)
LEMMA PaidKept ==
    ASSUME IInv, NEW m \in Msgs, Paid(m), success'[m] = success[m],
           \/ losses' = losses /\ (Spent(m) => Spent(m)')
           \/ losses' = losses + 1,
           Late(m)' \subseteq Late(m)
    PROVE  Paid(m)'
<1>1. /\ IsFiniteSet(Late(m))
      /\ success[m] + Cardinality(Late(m)) + (IF Spent(m) THEN 0 ELSE 1) <= losses + 1
  BY DEF Paid
<1>2. /\ IsFiniteSet(Late(m)') /\ Cardinality(Late(m)') <= Cardinality(Late(m))
      /\ Cardinality(Late(m)') \in Nat /\ Cardinality(Late(m)) \in Nat
  BY <1>1, NoMore
<1>3. losses \in Nat /\ success[m] \in Nat
  BY Counts
<1>4. success[m] + Cardinality(Late(m)') + (IF Spent(m)' THEN 0 ELSE 1) <= losses' + 1
  BY <1>1, <1>2, <1>3
<1> QED
  BY <1>2, <1>4 DEF Paid

(* No message is handled with success more often than links were lost, and *)
(* once.                                                                   *)
LEMMA DupStep ==
    ASSUME IInv, DistinctInv, GoneInv, DupInv, [Next]_vars
    PROVE  DupInv'
<1> SUFFICES ASSUME NEW m \in Msgs PROVE Paid(m)'
  BY DEF DupInv
<1>a. Paid(m)
  BY DEF DupInv
<1>b. losses \in Nat /\ success[m] \in Nat
  BY Counts
<1>c. m # 0
  BY MsgsAssumption DEF Msgs
<1>1. ASSUME NEW r \in Replicas, Others(r), success'[m] = success[m], losses' = losses,
             gone' = gone, ~Acking(r, m) \/ Acking(r, m)',
             \/ link'[r] = "up"
             \/ link[r] # "up" /\ Todo(r)' \subseteq Todo(r)
      PROVE  Paid(m)'
  <2>1. Spent(m) => Spent(m)'
    BY <1>1, SpentKept DEF Spent
  <2>2. ASSUME NEW s \in Late(m)' PROVE s \in Late(m)
    <3>1. CASE s = r
      <4>1. link[r] # "up" /\ m \in Todo(r)
        BY <1>1, <3>1, LateSplit
      <4> QED
        BY <3>1, <4>1 DEF Late
    <3> QED
      BY <1>1, <3>1, LateSplit
  <2> QED
    BY <1>1, <1>a, <2>1, <2>2, PaidKept
<1>2. ASSUME NEW r \in Replicas, Join(r) PROVE Paid(m)'
  <2>1. ~Acking(r, m)
    BY <1>2, JoinEffect DEF Acking
  <2> QED
    BY <1>1, <1>2, <2>1, JoinEffect
<1>3. ASSUME NEW r \in Replicas, NEW n \in Msgs, Deliver(r, n) PROVE Paid(m)'
  <2>1. /\ Others(r) /\ link[r] = "up"
        /\ UNCHANGED <<gone, link, pc, cur, outcome, success, losses>>
    BY <1>3, DeliverEffect
  <2>2. ~Acking(r, m) \/ Acking(r, m)'
    BY <2>1 DEF Acking
  <2> QED
    BY <1>1, <2>1, <2>2
<1>4. ASSUME NEW r \in Replicas, Restart(r) PROVE Paid(m)'
  <2>1. Todo(r)' = {} /\ ~Acking(r, m)
    BY <1>4, RestartEffect, NoElems DEF Todo, Acking
  <2> QED
    BY <1>1, <1>4, <2>1, RestartEffect
<1>5. ASSUME NEW r \in Replicas, Take(r) PROVE Paid(m)'
  <2>1. Others(r) /\ UNCHANGED <<gone, link, success, losses>>
    BY <1>5, TakeEffect
  <2>2. Todo(r)' = Todo(r) /\ ~Acking(r, m)
    BY <1>5, TakeEffect DEF Todo, Acking
  <2> QED
    BY <1>1, <2>1, <2>2
<1>6. ASSUME NEW r \in Replicas, Exit(r) PROVE Paid(m)'
  <2>1. Others(r) /\ UNCHANGED <<gone, link, success, losses>>
    BY <1>6, ExitEffect
  <2>2. Todo(r)' = Todo(r) /\ ~Acking(r, m)
    BY <1>6, ExitEffect DEF Todo, Acking
  <2> QED
    BY <1>1, <2>1, <2>2
<1>7. ASSUME NEW r \in Replicas, SettleFails(r) PROVE Paid(m)'
  <2>1. Others(r) /\ UNCHANGED <<gone, link, success, losses>> /\ link[r] # "up"
    BY <1>7, SettleFailsEffect
  <2>2. Todo(r)' \subseteq Todo(r) /\ ~Acking(r, m)
    BY <1>7, SettleFailsEffect DEF Todo, Acking
  <2> QED
    BY <1>1, <2>1, <2>2
<1>8. CASE Quiet
  <2>1. Late(m)' = Late(m) /\ (Spent(m) => Spent(m)')
    BY <1>8 DEF Quiet, Late, Todo, Spent, Acking
  <2> QED
    BY <1>8, <1>a, <2>1, PaidKept DEF Quiet
<1>9. ASSUME NEW r \in Replicas, Settle(r) PROVE Paid(m)'
  <2>1. /\ Others(r) /\ link[r] = "up" /\ UNCHANGED <<link, success, losses>>
        /\ cur[r] \in Msgs /\ owner[cur[r]] = r
        /\ gone' = [gone EXCEPT ![cur[r]] = Settlement(outcome[r], cur[r])] /\ DOMAIN gone = Msgs
    BY <1>9, SettleEffect, Typed
  <2>2. gone[cur[r]] = "no"
    BY <2>1, ReplicasAssumption DEF GoneInv
  <2>3. gone[m] # "no" => gone'[m] # "no"
    BY <2>1, <2>2
  <2>4. Acking(r, m) => Spent(m)'
    BY <2>1 DEF Acking, Settlement, Requeue, Spent
  <2>5. Spent(m) => Spent(m)'
    BY <2>1, <2>3, <2>4, SpentKept
  <2>6. Late(m)' \subseteq Late(m)
    BY <2>1, LateSplit
  <2> QED
    BY <1>a, <2>1, <2>5, <2>6, PaidKept
<1>10. ASSUME NEW r \in Replicas, Handling(r) PROVE Paid(m)'
  <2>1. /\ Others(r) /\ pc[r] = "handling" /\ pc'[r] = "settling" /\ cur[r] \in Msgs
        /\ UNCHANGED <<owner, gone, link, buffer, cur, losses>>
    BY <1>10, HandlingEffect
  <2>2. /\ ~Acking(r, m) /\ Todo(r) = Elems(buffer[r]) \cup {cur[r]}
        /\ Todo(r)' = Elems(buffer[r])
    BY <2>1 DEF Acking, Todo
  <2>3. CASE success'[m] = success[m]
    <3>1. link'[r] = "up" \/ link[r] # "up"
      BY <2>1
    <3> QED
      BY <1>1, <2>1, <2>2, <2>3, <3>1
  <2>4. CASE success'[m] # success[m]
    <3>1. success'[m] = success[m] + 1 /\ m = cur[r] /\ outcome'[r] = "nil"
      BY <1>10, <2>4, HandlingEffect, Typed
    <3>2. Spent(m) => Spent(m)'
      BY <2>1, <2>2, SpentKept
    <3>3. /\ IsFiniteSet(Late(m))
          /\ success[m] + Cardinality(Late(m)) + (IF Spent(m) THEN 0 ELSE 1) <= losses + 1
      BY <1>a DEF Paid
    <3>4. CASE link[r] = "up"
      <4>1. owner[m] = r /\ r # Nobody
        BY <1>c, <3>1, <3>4, LiveOwns, ReplicasAssumption
      <4>2. gone[m] = "no"
        BY <4>1 DEF GoneInv
      <4>3. \A s \in Replicas : ~Acking(s, m)
        <5> SUFFICES ASSUME NEW s \in Replicas, Acking(s, m) PROVE FALSE
          OBVIOUS
        <5>1. owner[m] = s
          BY <1>c, LiveOwns DEF Acking
        <5> QED
          BY <2>2, <4>1, <5>1
      <4>4. ~Spent(m)
        BY <4>2, <4>3 DEF Spent
      <4>5. Spent(m)'
        BY <2>1, <3>1, <3>4 DEF Spent, Acking
      <4>6. Late(m)' \subseteq Late(m)
        BY <2>1, <3>4, LateSplit
      <4>7. /\ IsFiniteSet(Late(m)') /\ Cardinality(Late(m)') <= Cardinality(Late(m))
            /\ Cardinality(Late(m)') \in Nat /\ Cardinality(Late(m)) \in Nat
        BY <3>3, <4>6, NoMore
      <4>8. success'[m] + Cardinality(Late(m)') + 0 <= losses + 1
        BY <1>b, <3>1, <3>3, <4>4, <4>7
      <4> QED
        BY <2>1, <4>5, <4>7, <4>8 DEF Paid
    <3>5. CASE link[r] # "up"
      <4>1. r \in Late(m)
        BY <2>2, <3>1, <3>5 DEF Late
      <4>2. m \notin Todo(r)'
        BY <2>2, <3>1 DEF DistinctInv
      <4>3. Late(m)' \subseteq Late(m) \ {r}
        BY <2>1, <4>2, LateSplit
      <4>4. /\ IsFiniteSet(Late(m)') /\ Cardinality(Late(m)') + 1 <= Cardinality(Late(m))
            /\ Cardinality(Late(m)') \in Nat /\ Cardinality(Late(m)) \in Nat
        BY <3>3, <4>1, <4>3, OneElementLess
      <4>5. success'[m] + Cardinality(Late(m)') + (IF Spent(m)' THEN 0 ELSE 1) <= losses + 1
        BY <1>b, <3>1, <3>2, <3>3, <4>4
      <4> QED
        BY <2>1, <4>4, <4>5 DEF Paid
    <3> QED
      BY <3>4, <3>5
  <2> QED
    BY <2>3, <2>4
<1>11. ASSUME NEW r \in Replicas, Lose(r) \/ Leave(r) \/ Crash(r) PROVE Paid(m)'
  <2>1. /\ Others(r) /\ link[r] = "up" /\ losses' = losses + 1
        /\ UNCHANGED success
        /\ gone[m] # "no" => gone'[m] # "no"
        /\ buffer'[r] = buffer[r] \/ buffer'[r] = <<>>
        /\ \/ pc'[r] = pc[r] /\ cur'[r] = cur[r]
           \/ pc'[r] = "range" /\ cur'[r] = 0
    BY <1>11, DropEffect, ReplicasAssumption DEF GoneInv
  <2>2. Todo(r)' \subseteq Todo(r)
    BY <2>1, NoElems DEF Todo
  <2>3. CASE m \notin Todo(r)
    <3>1. Late(m)' \subseteq Late(m)
      BY <2>1, <2>2, <2>3, LateSplit
    <3> QED
      BY <1>a, <2>1, <3>1, PaidKept
  <2>4. CASE m \in Todo(r)
    <3>1. ~Acking(r, m)
      BY <2>4 DEF Todo, Acking, DistinctInv
    <3>2. Spent(m) => Spent(m)'
      BY <2>1, <3>1, SpentKept
    <3>3. Late(m)' \subseteq Late(m) \cup {r}
      BY <2>1, LateSplit
    <3>4. /\ IsFiniteSet(Late(m))
          /\ success[m] + Cardinality(Late(m)) + (IF Spent(m) THEN 0 ELSE 1) <= losses + 1
      BY <1>a DEF Paid
    <3>5. /\ IsFiniteSet(Late(m)') /\ Cardinality(Late(m)') <= Cardinality(Late(m)) + 1
          /\ Cardinality(Late(m)') \in Nat /\ Cardinality(Late(m)) \in Nat
      BY <3>3, <3>4, OneMoreElement
    <3>6. success'[m] + Cardinality(Late(m)') + (IF Spent(m)' THEN 0 ELSE 1) <= losses' + 1
      BY <1>b, <2>1, <3>2, <3>4, <3>5
    <3> QED
      BY <3>5, <3>6 DEF Paid
  <2> QED
    BY <2>3, <2>4
<1> QED
  BY <1>2, <1>3, <1>4, <1>5, <1>6, <1>7, <1>8, <1>9, <1>10, <1>11, Steps

-----------------------------------------------------------------------------
(* Before the first link is lost nothing is stale or late.                 *)
LEMMA InitBound == Init => BoundInv
<1> SUFFICES ASSUME Init PROVE BoundInv
  OBVIOUS
<1>1. \A r \in Replicas : buffer[r] = <<>> /\ cur[r] = 0 /\ pc[r] = "range"
  BY DEF Init
<1>2. DistinctInv /\ GoneInv
  BY <1>1, NoElems DEF Init, DistinctInv, GoneInv
<1>3. WindowInv
  <2>1. \A r \in Replicas : Unacked(r) = {}
    BY ReplicasAssumption DEF Init, Unacked
  <2> QED
    BY <2>1, FS_EmptySet, LimitsAssumption DEF WindowInv
<1>4. AckInv
  <2>1. \A r \in Replicas : Work(r) = {}
    BY <1>1, NoElems DEF Work
  <2>2. Stale = {}
    BY <2>1 DEF Stale
  <2>3. ackExtra = 0 /\ Prefetch * losses = 0
    BY LimitsAssumption DEF Init
  <2> QED
    BY <2>2, <2>3, FS_EmptySet DEF AckInv
<1>5. DupInv
  <2> SUFFICES ASSUME NEW m \in Msgs PROVE Paid(m)
    BY DEF DupInv
  <2>1. \A r \in Replicas : Todo(r) = {}
    BY <1>1, NoElems DEF Todo
  <2>2. Late(m) = {}
    BY <2>1 DEF Late
  <2>3. success[m] = 0 /\ losses = 0
    BY DEF Init
  <2> QED
    BY <2>2, <2>3, FS_EmptySet DEF Paid
<1> QED
  BY <1>2, <1>3, <1>4, <1>5 DEF BoundInv

(* Every step keeps the accounts.                                          *)
LEMMA NextBound == IInv /\ BoundInv /\ [Next]_vars => BoundInv'
BY DistinctStep, GoneStep, WindowStep, AckStep, DupStep DEF BoundInv

(* The accounts of acks and successes balance in every behaviour.          *)
THEOREM Bounds == Spec => []BoundInv
BY NextBound, InitBound, Invariance, PTL DEF Spec

(* What the account says of the successes.                                 *)
LEMMA SuccessBound ==
    ASSUME IInv, BoundInv, NEW m \in Msgs
    PROVE  success[m] <= losses + 1
<1>1. /\ IsFiniteSet(Late(m))
      /\ success[m] + Cardinality(Late(m)) + (IF Spent(m) THEN 0 ELSE 1) <= losses + 1
  BY DEF BoundInv, DupInv, Paid
<1>2. Cardinality(Late(m)) \in Nat
  BY <1>1, FS_CardinalityType
<1>3. losses \in Nat /\ success[m] \in Nat
  BY Counts
<1> QED
  BY <1>1, <1>2, <1>3

(* A handler succeeds for the same message at most once more than links    *)
(* were lost: without a lost link the consumer loop handles each message   *)
(* with success once at the most, and each crash, Close or broken link     *)
(* adds one repetition, however many replicas hold stale deliveries of it. *)
THEOREM Duplicates == Spec => []DuplicatesNeedLoss
<1>1. IInv /\ BoundInv => DuplicatesNeedLoss
  BY SuccessBound DEF DuplicatesNeedLoss
<1> QED
  BY <1>1, Bounds, Invariance, PTL

(* amqp_events_ack is too high by at most a prefetch window for each link  *)
(* lost: eventAck counts acks on a channel that is gone, but only for the  *)
(* deliveries that channel had handed out.                                 *)
THEOREM AckError == Spec => []AckMetricError
<1>1. IInv /\ BoundInv => AckMetricError
  <2> SUFFICES ASSUME IInv, BoundInv PROVE ackExtra <= Prefetch * losses
    BY DEF AckMetricError
  <2>1. IsFiniteSet(Stale) /\ ackExtra + Cardinality(Stale) <= Prefetch * losses
    BY DEF BoundInv, AckInv
  <2>2. Cardinality(Stale) \in Nat
    BY <2>1, FS_CardinalityType
  <2>3. ackExtra \in Nat /\ Prefetch * losses \in Nat
    BY Counts, OneMore
  <2> QED
    BY <2>1, <2>2, <2>3
<1> QED
  BY <1>1, Bounds, Invariance, PTL
=============================================================================
