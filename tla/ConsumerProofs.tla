--------------------------- MODULE ConsumerProofs ---------------------------
(***************************************************************************)
(* Proofs about Consumer, for any replicas, messages, prefetch limit and   *)
(* number of lost links.                                                   *)
(***************************************************************************)
EXTENDS Consumer, TLAPS

(* A loop is at a delivery exactly while it is busy.                       *)
BusyInv == \A r \in Replicas : pc[r] \in {"handling", "settling"} <=> cur[r] # 0

(* A process that has not joined holds nothing.                            *)
DownInv == \A r \in Replicas : link[r] = "down" => buffer[r] = <<>> /\ pc[r] = "range"

(* The outcome of a delivery about to be settled is what happened to it.   *)
OutcomeInv ==
    \A r \in Replicas : pc[r] = "settling" =>
        /\ outcome[r] = "nil" => success[cur[r]] > 0
        /\ outcome[r] \notin {"nil", "error"} => cur[r] \in Permanent

(* The part of LeavesForAReason that is about Ack, Nack and Reject.         *)
SettledInv ==
    \A m \in Msgs :
        /\ gone[m] = "acked" => success[m] > 0
        /\ gone[m] = "discarded" => m \in Permanent

(* The five smaller invariants, which speak of one replica or one message  *)
(* at a time.                                                              *)
Small ==
    /\ BusyInv
    /\ DownInv
    /\ OutcomeInv
    /\ SettledInv
    /\ MetricsBalance

IInv ==
    /\ TypeOK
    /\ Small
    /\ SettlesItsOwn
    /\ NothingForgotten

-----------------------------------------------------------------------------
(* What the first delivery of a buffer is, and what is left behind it.     *)
LEMMA TailOf ==
    ASSUME NEW S, NEW s \in Seq(S), s # <<>>
    PROVE  /\ Head(s) \in S /\ Head(s) = s[1]
           /\ Tail(s) \in Seq(S)
           /\ Len(s) \in Nat \ {0}
           /\ Len(Tail(s)) = Len(s) - 1
           /\ \A i \in 1..Len(Tail(s)) : Tail(s)[i] = s[i + 1]
OBVIOUS

(* A delivery goes to the end of a buffer.                                 *)
LEMMA AppendOf ==
    ASSUME NEW S, NEW s \in Seq(S), NEW e \in S
    PROVE  /\ Append(s, e) \in Seq(S)
           /\ Len(s) \in Nat
           /\ Len(Append(s, e)) = Len(s) + 1
           /\ Append(s, e)[Len(s) + 1] = e
           /\ \A i \in 1..Len(s) : Append(s, e)[i] = s[i]
OBVIOUS

(* An update keeps a function well typed.                                  *)
LEMMA UpdateTyped ==
    ASSUME NEW D, NEW R, NEW f \in [D -> R], NEW x, NEW y \in R
    PROVE  [f EXCEPT ![x] = y] \in [D -> R]
OBVIOUS

(* Counting a delivery in or out keeps the balance an integer.             *)
LEMMA CountTyped ==
    ASSUME NEW f \in [Replicas -> Int], NEW r \in Replicas
    PROVE  /\ f[r] \in Int
           /\ [f EXCEPT ![r] = @ + 1] \in [Replicas -> Int]
           /\ [f EXCEPT ![r] = @ - 1] \in [Replicas -> Int]
<1>1. f[r] \in Int /\ f[r] + 1 \in Int /\ f[r] - 1 \in Int
  OBVIOUS
<1> QED
  BY <1>1, UpdateTyped

(* The initial state has the types TypeOK states.                          *)
LEMMA InitTypeOK == Init => TypeOK
BY MsgsAssumption, LimitsAssumption DEF Init, TypeOK, Results, Msgs

(* The broker's state stays well typed when it drops a channel.            *)
LEMMA DropTyped ==
    ASSUME TypeOK, NEW r \in Replicas, Drop(r)
    PROVE  /\ owner' \in [Msgs -> Replicas \cup {Nobody}]
           /\ gone' \in [Msgs -> {"no", "acked", "discarded", "dropped", "expired"}]
           /\ returns' \in [Msgs -> Nat]
           /\ active' \in Replicas \cup {Nobody}
           /\ losses' \in 0..MaxLosses
<1>1. losses' \in 0..MaxLosses
  BY LimitsAssumption DEF TypeOK, Drop
<1>2. owner' \in [Msgs -> Replicas \cup {Nobody}]
  BY DEF TypeOK, Drop
<1>3. gone' \in [Msgs -> {"no", "acked", "discarded", "dropped", "expired"}]
  BY DEF TypeOK, Drop, Returned
<1>4. returns' \in [Msgs -> Nat]
  BY DEF TypeOK, Drop
<1> QED
  BY <1>1, <1>2, <1>3, <1>4 DEF TypeOK, Drop

(* A full notification channel drops what is sent to it.                   *)
LEMMA NotifyTyped ==
    ASSUME NEW n \in 0..NotifyCap PROVE Notify(n) \in 0..NotifyCap
BY LimitsAssumption DEF Notify

(* Every step of the queue and its consumers keeps the types.              *)
LEMMA NextTypeOK == TypeOK /\ BusyInv /\ [Next]_vars => TypeOK'
<1> SUFFICES ASSUME TypeOK, BusyInv, [Next]_vars PROVE TypeOK'
  OBVIOUS
<1> USE MsgsAssumption, LimitsAssumption DEF TypeOK, Msgs
<1>1. ASSUME NEW r \in Replicas, Join(r) PROVE TypeOK'
  BY <1>1 DEF Join, brokerVars, loopVars, countVars
<1>2. ASSUME NEW r \in Replicas, Activate(r) PROVE TypeOK'
  BY <1>2 DEF Activate, loopVars, countVars
<1>3. ASSUME NEW r \in Replicas, NEW m \in Msgs, Deliver(r, m) PROVE TypeOK'
  <2>1. buffer' \in [Replicas -> Seq(Msgs)]
    BY <1>3, AppendOf DEF Deliver
  <2> QED
    BY <1>3, <2>1 DEF Deliver, countVars
<1>4. ASSUME NEW r \in Replicas, Lose(r) PROVE TypeOK'
  BY <1>4, DropTyped DEF Lose, loopVars, countVars
<1>5. ASSUME NEW r \in Replicas, Leave(r) PROVE TypeOK'
  <2>1. buffer' \in [Replicas -> Seq(Msgs)]
    BY <1>5, UpdateTyped DEF Leave
  <2>2. link' \in [Replicas -> {"down", "up", "dead", "closed"}]
    BY <1>5 DEF Leave
  <2> QED
    BY <1>5, <2>1, <2>2, DropTyped DEF Leave, countVars
<1>6. ASSUME NEW r \in Replicas, Forget(r) PROVE
        /\ link' \in [Replicas -> {"down", "up", "dead", "closed"}]
        /\ buffer' \in [Replicas -> Seq(Msgs)]
        /\ pc' \in [Replicas -> {"range", "handling", "settling", "exited"}]
        /\ cur' \in [Replicas -> 0..NumMsgs]
        /\ outcome' \in [Replicas -> Results]
        /\ notes' \in [Replicas -> [ok : 0..NotifyCap, failed : 0..NotifyCap]]
        /\ open' \in [Replicas -> Int]
  BY <1>6 DEF Forget, Results
<1>7. ASSUME NEW r \in Replicas, Crash(r) PROVE TypeOK'
  BY <1>6, <1>7, DropTyped DEF Crash, Forget
<1>8. ASSUME NEW r \in Replicas, Restart(r) PROVE TypeOK'
  BY <1>6, <1>8 DEF Restart, Forget, brokerVars
<1>9. ASSUME NEW r \in Replicas, Take(r) PROVE TypeOK'
  <2>1. buffer[r] \in Seq(Msgs) /\ buffer[r] # <<>>
    BY <1>9 DEF Take
  <2>2. Head(buffer[r]) \in Msgs /\ Tail(buffer[r]) \in Seq(Msgs)
    BY <2>1, TailOf
  <2>3. buffer' \in [Replicas -> Seq(Msgs)]
    BY <1>9, <2>2, UpdateTyped DEF Take
  <2>4. Head(buffer[r]) \in 0..NumMsgs
    <3>1. \A m \in Msgs : m \in 0..NumMsgs
      OBVIOUS
    <3> HIDE DEF TypeOK, Msgs
    <3> QED
      BY <2>2, <3>1
  <2>5. cur' \in [Replicas -> 0..NumMsgs]
    BY <1>9, <2>4, UpdateTyped DEF Take
  <2>6. open' \in [Replicas -> Int]
    BY <1>9, CountTyped DEF Take
  <2> QED
    BY <1>9, <2>3, <2>5, <2>6 DEF Take, brokerVars
<1>10. ASSUME NEW r \in Replicas, NoHandler(r) PROVE TypeOK'
  <2>1. open' \in [Replicas -> Int]
    BY <1>10, CountTyped DEF NoHandler
  <2> QED
    BY <1>10, <2>1 DEF NoHandler, brokerVars, Results
<1>11. ASSUME NEW r \in Replicas, HandlerSucceeds(r) PROVE TypeOK'
  <2>1. cur[r] \in Msgs
    BY <1>11 DEF HandlerSucceeds, BusyInv
  <2>2. notes' \in [Replicas -> [ok : 0..NotifyCap, failed : 0..NotifyCap]]
    BY <1>11, NotifyTyped DEF HandlerSucceeds
  <2>3. success' \in [Msgs -> Nat]
    BY <1>11, <2>1 DEF HandlerSucceeds
  <2> QED
    BY <1>11, <2>2, <2>3 DEF HandlerSucceeds, brokerVars, Results
<1>12. ASSUME NEW r \in Replicas, NEW o \in Results, HandlerFails(r, o) PROVE TypeOK'
  <2>1. notes' \in [Replicas -> [ok : 0..NotifyCap, failed : 0..NotifyCap]]
    BY <1>12, NotifyTyped DEF HandlerFails
  <2>2. open' \in [Replicas -> Int]
    BY <1>12, CountTyped DEF HandlerFails
  <2>3. failed' \in [Msgs -> Nat]
    <3>1. \A n \in Nat : n + 1 \in Nat
      OBVIOUS
    <3>2. cur[r] \in Msgs
      BY <1>12 DEF HandlerFails, BusyInv
    <3> QED
      BY <1>12, <3>1, <3>2 DEF HandlerFails
  <2> QED
    BY <1>12, <2>1, <2>2, <2>3 DEF HandlerFails, brokerVars
<1>13. ASSUME NEW r \in Replicas, Settle(r) PROVE TypeOK'
  <2>1. open' \in [Replicas -> Int]
    BY <1>13, CountTyped, UpdateTyped DEF Settle
  <2>2. gone' \in [Msgs -> {"no", "acked", "discarded", "dropped", "expired"}]
    BY <1>13, UpdateTyped DEF Settle, Settlement, Returned
  <2>3. owner' \in [Msgs -> Replicas \cup {Nobody}]
    BY <1>13, UpdateTyped DEF Settle
  <2>4. cur' \in [Replicas -> 0..NumMsgs]
    BY <1>13, UpdateTyped DEF Settle
  <2>5. returns' \in [Msgs -> Nat]
    <3>1. cur[r] \in Msgs /\ \A n \in Nat : n + 1 \in Nat
      BY <1>13 DEF Settle, BusyInv
    <3> QED
      BY <1>13, <3>1 DEF Settle
  <2> QED
    BY <1>13, <2>1, <2>2, <2>3, <2>4, <2>5 DEF Settle
<1>14. ASSUME NEW r \in Replicas, SettleFails(r) PROVE TypeOK'
  <2>1. open' \in [Replicas -> Int]
    BY <1>14, CountTyped, UpdateTyped DEF SettleFails
  <2>2. ackExtra' \in Nat
    BY <1>14 DEF SettleFails
  <2>3. cur' \in [Replicas -> 0..NumMsgs]
    BY <1>14, UpdateTyped DEF SettleFails
  <2> QED
    BY <1>14, <2>1, <2>2, <2>3 DEF SettleFails, brokerVars
<1>15. ASSUME NEW r \in Replicas, Exit(r) PROVE TypeOK'
  BY <1>15 DEF Exit, brokerVars, countVars
<1>16. CASE Expire
  BY <1>16 DEF Expire, loopVars, countVars
<1>17. CASE UNCHANGED vars
  BY <1>17 DEF vars, brokerVars, loopVars, countVars
<1> QED
  BY <1>1, <1>2, <1>3, <1>4, <1>5, <1>7, <1>8, <1>9, <1>10, <1>11, <1>12,
     <1>13, <1>14, <1>15, <1>16, <1>17 DEF Next, Loop, Handling

-----------------------------------------------------------------------------
(* The inductive invariant holds initially.                                *)
LEMMA InitIInv == Init => IInv
<1> SUFFICES ASSUME Init PROVE IInv
  OBVIOUS
<1>1. TypeOK
  BY InitTypeOK
<1>2. BusyInv /\ DownInv /\ OutcomeInv /\ SettledInv /\ MetricsBalance
  BY DEF Init, BusyInv, DownInv, OutcomeInv, SettledInv, MetricsBalance
<1>3. SettlesItsOwn /\ NothingForgotten
  <2>1. \A m \in Msgs : owner[m] \notin Replicas
    BY ReplicasAssumption DEF Init
  <2> QED
    BY <2>1 DEF Init, SettlesItsOwn, NothingForgotten
<1> QED
  BY <1>1, <1>2, <1>3 DEF IInv, Small

(* A busy loop is at a message.                                            *)
LEMMA BusyAt ==
    ASSUME TypeOK, BusyInv, NEW r \in Replicas, pc[r] \in {"handling", "settling"}
    PROVE  cur[r] \in Msgs
<1>1. cur[r] \in 0..NumMsgs /\ cur[r] # 0
  BY DEF TypeOK, BusyInv
<1> QED
  BY <1>1, MsgsAssumption DEF Msgs

(* A buffer holds messages.                                                *)
LEMMA Buffered ==
    ASSUME TypeOK, NEW r \in Replicas
    PROVE  /\ Len(buffer[r]) \in Nat
           /\ \A i \in 1..Len(buffer[r]) : buffer[r][i] \in Msgs /\ buffer[r][i] # 0
<1>1. buffer[r] \in Seq(Msgs)
  BY DEF TypeOK
<1>2. \A m \in Msgs : m # 0
  BY MsgsAssumption DEF Msgs
<1> QED
  BY <1>1, <1>2

(* A step of replica r that touches only its own deliveries and the queue  *)
(* keeps what the other replicas hold; what is left to show is that r      *)
(* still holds what it should.                                             *)
LEMMA OneReplica ==
    ASSUME TypeOK, BusyInv, SettlesItsOwn, NothingForgotten, NEW r \in Replicas,
           \A s \in Replicas \ {r} :
              /\ link'[s] = link[s] /\ buffer'[s] = buffer[s]
              /\ pc'[s] = pc[s] /\ cur'[s] = cur[s],
           \A m \in Msgs : \/ owner'[m] = owner[m]
                           \/ owner[m] \in {r, Nobody} /\ owner'[m] \in {r, Nobody},
           link'[r] = "up" => OwnDeliveries(r)',
           \A m \in Msgs : owner'[m] = r => Held(r, m)'
    PROVE  SettlesItsOwn' /\ NothingForgotten'
<1>1. ASSUME NEW s \in Replicas \ {r}, link'[s] = "up" PROVE OwnDeliveries(s)'
  <2>1. OwnDeliveries(s)
    BY <1>1 DEF SettlesItsOwn
  <2>2. s # Nobody
    BY ReplicasAssumption
  <2>3. \A m \in Msgs : owner[m] = s => owner'[m] = s
    BY <2>2
  <2>4. pc[s] \in {"handling", "settling"} => owner'[cur[s]] = s
    BY <2>1, <2>3, BusyAt DEF OwnDeliveries
  <2>5. \A i \in 1..Len(buffer[s]) : owner'[buffer[s][i]] = s
    BY <2>1, <2>3, Buffered DEF OwnDeliveries
  <2> QED
    BY <2>1, <2>4, <2>5 DEF OwnDeliveries
<1>2. ASSUME NEW s \in Replicas \ {r}, NEW m \in Msgs, owner'[m] = s PROVE Held(s, m)'
  <2>1. owner[m] = s
    BY <1>2, ReplicasAssumption
  <2>2. Held(s, m)
    BY <2>1 DEF NothingForgotten
  <2> QED
    BY <2>2 DEF Held
<1>3. SettlesItsOwn'
  BY <1>1 DEF SettlesItsOwn
<1>4. NothingForgotten'
  BY <1>2 DEF NothingForgotten
<1> QED
  BY <1>3, <1>4

(* Dropping a replica's channel leaves nothing to that replica.            *)
LEMMA DropKeeps ==
    ASSUME IInv, NEW r \in Replicas, Drop(r), link'[r] # "up",
           \A s \in Replicas \ {r} :
              /\ link'[s] = link[s] /\ buffer'[s] = buffer[s]
              /\ pc'[s] = pc[s] /\ cur'[s] = cur[s]
    PROVE  SettlesItsOwn' /\ NothingForgotten'
<1>1. \A m \in Msgs : owner'[m] = IF owner[m] = r THEN Nobody ELSE owner[m]
  BY DEF Drop
<1>2. \A m \in Msgs : owner'[m] # r
  BY <1>1, ReplicasAssumption
<1> QED
  BY <1>1, <1>2, OneReplica DEF IInv, Small

(* A step that touches the link and the memory of replica r, and settles   *)
(* nothing though the broker may drop messages, keeps them if they hold for r afterwards.              *)
LEMMA SmallFrame ==
    ASSUME Small, NEW r \in Replicas, UNCHANGED success,
           \A m \in Msgs : gone'[m] = gone[m] \/ gone'[m] \in {"no", "dropped", "expired"},
           \A s \in Replicas \ {r} :
              /\ link'[s] = link[s] /\ buffer'[s] = buffer[s]
              /\ pc'[s] = pc[s] /\ cur'[s] = cur[s]
              /\ outcome'[s] = outcome[s] /\ open'[s] = open[s],
           pc'[r] \in {"handling", "settling"} <=> cur'[r] # 0,
           link'[r] = "down" => buffer'[r] = <<>> /\ pc'[r] = "range",
           pc'[r] = "settling" =>
              /\ outcome'[r] = "nil" => success[cur'[r]] > 0
              /\ outcome'[r] \notin {"nil", "error"} => cur'[r] \in Permanent,
           open'[r] = IF pc'[r] = "handling" \/ (pc'[r] = "settling" /\ outcome'[r] = "nil")
                      THEN 1 ELSE 0
    PROVE  Small'
<1>1. BusyInv'
  BY DEF Small, BusyInv
<1>2. DownInv'
  BY DEF Small, DownInv
<1>3. OutcomeInv'
  BY DEF Small, OutcomeInv
<1>4. SettledInv'
  BY DEF Small, SettledInv
<1>5. MetricsBalance'
  BY DEF Small, MetricsBalance
<1> QED
  BY <1>1, <1>2, <1>3, <1>4, <1>5 DEF Small


(* Every step preserves it.                                                *)
LEMMA NextIInv == IInv /\ [Next]_vars => IInv'
<1> SUFFICES ASSUME IInv, [Next]_vars PROVE IInv'
  OBVIOUS
<1>0. TypeOK' /\ TypeOK /\ Small /\ BusyInv /\ SettlesItsOwn /\ NothingForgotten
  BY NextTypeOK DEF IInv, Small
<1>a. \A r \in Replicas :
        /\ pc[r] \in {"handling", "settling"} <=> cur[r] # 0
        /\ link[r] = "down" => buffer[r] = <<>> /\ pc[r] = "range"
        /\ pc[r] = "settling" =>
              /\ outcome[r] = "nil" => success[cur[r]] > 0
              /\ outcome[r] \notin {"nil", "error"} => cur[r] \in Permanent
        /\ open[r] = IF pc[r] = "handling" \/ (pc[r] = "settling" /\ outcome[r] = "nil")
                     THEN 1 ELSE 0
  BY <1>0 DEF Small, BusyInv, DownInv, OutcomeInv, MetricsBalance
<1>b. /\ link \in [Replicas -> {"down", "up", "dead", "closed"}]
      /\ DOMAIN buffer = Replicas /\ DOMAIN pc = Replicas /\ DOMAIN cur = Replicas
      /\ DOMAIN outcome = Replicas /\ DOMAIN open = Replicas
      /\ DOMAIN owner = Msgs /\ DOMAIN gone = Msgs /\ DOMAIN success = Msgs
  BY <1>0 DEF TypeOK
<1>1. ASSUME NEW r \in Replicas, Join(r) PROVE IInv'
  <2>1. /\ link[r] = "down" /\ link'[r] = "up"
        /\ \A s \in Replicas \ {r} : link'[s] = link[s]
        /\ UNCHANGED <<owner, gone, buffer, pc, cur, outcome, open, success>>
    BY <1>1, <1>b DEF Join, brokerVars, loopVars, countVars
  <2>2. buffer[r] = <<>> /\ pc[r] = "range"
    BY <1>a, <2>1
  <2>3. Small'
    BY <1>0, <1>a, <2>1, <2>2, SmallFrame
  <2>4. OwnDeliveries(r)'
    BY <2>1, <2>2 DEF OwnDeliveries
  <2>5. \A m \in Msgs : owner[m] # r
    BY <1>0, <2>1 DEF NothingForgotten, Held
  <2>6. SettlesItsOwn' /\ NothingForgotten'
    BY <1>0, <2>1, <2>4, <2>5, OneReplica
  <2> QED
    BY <1>0, <2>3, <2>6 DEF IInv
<1>2. ASSUME NEW r \in Replicas, Activate(r) PROVE IInv'
  <2>1. UNCHANGED <<owner, gone, link, buffer, pc, cur, outcome, open, success>>
    BY <1>2 DEF Activate, loopVars, countVars
  <2>2. Small'
    BY <1>0, <1>a, <2>1, SmallFrame
  <2>3. SettlesItsOwn' /\ NothingForgotten'
    BY <1>0, <2>1 DEF SettlesItsOwn, NothingForgotten, OwnDeliveries, Held
  <2> QED
    BY <1>0, <2>2, <2>3 DEF IInv
<1>3. ASSUME NEW r \in Replicas, NEW m \in Msgs, Deliver(r, m) PROVE IInv'
  <2>1. /\ link[r] = "up" /\ owner[m] = Nobody
        /\ UNCHANGED <<gone, link, pc, cur, outcome, open, success>>
        /\ \A s \in Replicas \ {r} : buffer'[s] = buffer[s]
        /\ owner'[m] = r /\ \A n \in Msgs \ {m} : owner'[n] = owner[n]
        /\ buffer'[r] = Append(buffer[r], m)
    BY <1>3, <1>b DEF Deliver, Ready, countVars
  <2>2. /\ Len(buffer[r]) \in Nat
        /\ Len(buffer'[r]) = Len(buffer[r]) + 1
        /\ buffer'[r][Len(buffer[r]) + 1] = m
        /\ \A i \in 1..Len(buffer[r]) : buffer'[r][i] = buffer[r][i]
    <3>1. buffer[r] \in Seq(Msgs)
      BY <1>0 DEF TypeOK
    <3> QED
      BY <2>1, <3>1, AppendOf
  <2>3. Small'
    <3>1. link'[r] # "down"
      BY <2>1
    <3> QED
      BY <1>0, <1>a, <2>1, <3>1, SmallFrame
  <2>4. OwnDeliveries(r)'
    <3>1. OwnDeliveries(r)
      BY <1>0, <2>1 DEF SettlesItsOwn
    <3>2. r # Nobody /\ m # 0
      BY ReplicasAssumption, MsgsAssumption DEF Msgs
    <3>3. cur[r] # m
      BY <1>a, <2>1, <3>1, <3>2 DEF OwnDeliveries
    <3>4. \A i \in 1..Len(buffer[r]) : buffer[r][i] \in Msgs /\ buffer[r][i] # m
      BY <1>0, <2>1, <3>1, <3>2, Buffered DEF OwnDeliveries
    <3>5. pc'[r] \in {"handling", "settling"} => owner'[cur'[r]] = r
      BY <1>0, <2>1, <3>1, BusyAt DEF OwnDeliveries
    <3>6. ASSUME NEW i \in 1..Len(buffer'[r])
          PROVE  /\ owner'[buffer'[r][i]] = r
                 /\ buffer'[r][i] # cur'[r]
                 /\ \A j \in 1..Len(buffer'[r]) : buffer'[r][i] = buffer'[r][j] => i = j
      <4>1. \A j \in 1..Len(buffer'[r]) : j \in 1..Len(buffer[r]) \/ j = Len(buffer[r]) + 1
        BY <2>2
      <4>2. CASE i \in 1..Len(buffer[r])
        BY <2>1, <2>2, <3>1, <3>4, <4>1, <4>2 DEF OwnDeliveries
      <4>3. CASE i = Len(buffer[r]) + 1
        BY <2>1, <2>2, <3>3, <3>4, <4>1, <4>3
      <4> QED
        BY <4>1, <4>2, <4>3
    <3> QED
      BY <3>5, <3>6 DEF OwnDeliveries
  <2>5. \A n \in Msgs : owner'[n] = r => Held(r, n)'
    <3> SUFFICES ASSUME NEW n \in Msgs, owner'[n] = r
                 PROVE  cur[r] = n \/ \E i \in 1..Len(buffer'[r]) : buffer'[r][i] = n
      BY <2>1 DEF Held
    <3>1. CASE n = m
      BY <2>2, <3>1
    <3>2. CASE n # m
      <4>1. Held(r, n)
        BY <1>0, <2>1, <3>2 DEF NothingForgotten
      <4> QED
        BY <2>2, <4>1 DEF Held
    <3> QED
      BY <3>1, <3>2
  <2>6. SettlesItsOwn' /\ NothingForgotten'
    BY <1>0, <2>1, <2>4, <2>5, OneReplica
  <2> QED
    BY <1>0, <2>3, <2>6 DEF IInv
<1>4. ASSUME NEW r \in Replicas, Lose(r) \/ Leave(r) PROVE IInv'
  <2>1. /\ Drop(r) /\ link'[r] \in {"dead", "closed"}
        /\ UNCHANGED <<pc, cur, outcome, open, success>>
        /\ \A s \in Replicas \ {r} : link'[s] = link[s] /\ buffer'[s] = buffer[s]
        /\ \A m \in Msgs : gone'[m] = gone[m] \/ gone'[m] \in {"no", "dropped", "expired"}
    BY <1>4, <1>b DEF Lose, Leave, Drop, Returned, loopVars, countVars
  <2>2. Small'
    BY <1>0, <1>a, <2>1, SmallFrame
  <2>3. SettlesItsOwn' /\ NothingForgotten'
    BY <2>1, DropKeeps
  <2> QED
    BY <1>0, <2>2, <2>3 DEF IInv
<1>5. ASSUME NEW r \in Replicas, Forget(r),
             \A m \in Msgs : gone'[m] = gone[m] \/ gone'[m] \in {"no", "dropped", "expired"}
      PROVE  Small'
  <2>1. /\ link'[r] = "down" /\ buffer'[r] = <<>> /\ pc'[r] = "range" /\ cur'[r] = 0
        /\ open'[r] = 0 /\ UNCHANGED success
        /\ \A s \in Replicas \ {r} :
              /\ link'[s] = link[s] /\ buffer'[s] = buffer[s]
              /\ pc'[s] = pc[s] /\ cur'[s] = cur[s]
              /\ outcome'[s] = outcome[s] /\ open'[s] = open[s]
    BY <1>5, <1>b DEF Forget
  <2> QED
    BY <1>0, <1>5, <2>1, SmallFrame
<1>6. ASSUME NEW r \in Replicas, Crash(r) PROVE IInv'
  <2>1. Small'
    BY <1>5, <1>6, <1>b DEF Crash, Drop, Returned
  <2>2. SettlesItsOwn' /\ NothingForgotten'
    BY <1>6, <1>b, DropKeeps DEF Crash, Forget
  <2> QED
    BY <1>0, <2>1, <2>2 DEF IInv
<1>7. ASSUME NEW r \in Replicas, Restart(r) PROVE IInv'
  <2>1. Small'
    BY <1>5, <1>7 DEF Restart, brokerVars
  <2>2. /\ link[r] # "up" /\ link'[r] # "up" /\ UNCHANGED owner
        /\ \A s \in Replicas \ {r} :
              /\ link'[s] = link[s] /\ buffer'[s] = buffer[s]
              /\ pc'[s] = pc[s] /\ cur'[s] = cur[s]
    BY <1>7, <1>b DEF Restart, Forget, brokerVars
  <2>3. \A m \in Msgs : owner'[m] # r
    BY <1>0, <2>2 DEF NothingForgotten, Held
  <2>4. SettlesItsOwn' /\ NothingForgotten'
    BY <1>0, <2>2, <2>3, OneReplica
  <2> QED
    BY <1>0, <2>1, <2>4 DEF IInv
<1>8. ASSUME NEW r \in Replicas, Take(r) PROVE IInv'
  <2>1. /\ pc[r] = "range" /\ buffer[r] # <<>> /\ pc'[r] = "handling"
        /\ UNCHANGED <<owner, gone, link, outcome, success>>
        /\ cur'[r] = Head(buffer[r]) /\ buffer'[r] = Tail(buffer[r])
        /\ open'[r] = open[r] + 1
        /\ \A s \in Replicas \ {r} : /\ cur'[s] = cur[s] /\ buffer'[s] = buffer[s]
                                    /\ pc'[s] = pc[s] /\ open'[s] = open[s]
    BY <1>8, <1>b DEF Take, brokerVars
  <2>2. /\ cur'[r] \in Msgs /\ cur'[r] = buffer[r][1]
        /\ Len(buffer[r]) \in Nat \ {0}
        /\ Len(buffer'[r]) = Len(buffer[r]) - 1
        /\ \A i \in 1..Len(buffer'[r]) : buffer'[r][i] = buffer[r][i + 1]
    <3>1. buffer[r] \in Seq(Msgs)
      BY <1>0 DEF TypeOK
    <3> QED
      BY <2>1, <3>1, TailOf
  <2>3. Small'
    <3>1. cur'[r] # 0
      BY <2>2, MsgsAssumption DEF Msgs
    <3>2. open'[r] = 1
      BY <1>a, <2>1
    <3>3. link'[r] # "down"
      BY <1>a, <2>1
    <3> QED
      BY <1>0, <2>1, <3>1, <3>2, <3>3, SmallFrame
  <2>4. ASSUME link'[r] = "up" PROVE OwnDeliveries(r)'
    <3>1. OwnDeliveries(r)
      BY <1>0, <2>1, <2>4 DEF SettlesItsOwn
    <3>2. owner'[cur'[r]] = r
      BY <2>1, <2>2, <3>1 DEF OwnDeliveries
    <3>3. ASSUME NEW i \in 1..Len(buffer'[r])
          PROVE  /\ owner'[buffer'[r][i]] = r
                 /\ buffer'[r][i] # cur'[r]
                 /\ \A j \in 1..Len(buffer'[r]) : buffer'[r][i] = buffer'[r][j] => i = j
      <4>1. \A j \in 1..Len(buffer'[r]) : j + 1 \in 1..Len(buffer[r]) /\ j + 1 # 1
        BY <2>2
      <4>2. 1 \in 1..Len(buffer[r])
        BY <2>2
      <4>3. owner[buffer[r][i + 1]] = r /\ buffer[r][i + 1] # buffer[r][1]
        BY <3>1, <4>1, <4>2 DEF OwnDeliveries
      <4>4. \A j \in 1..Len(buffer'[r]) : buffer[r][i + 1] = buffer[r][j + 1] => i + 1 = j + 1
        BY <3>1, <4>1 DEF OwnDeliveries
      <4>5. \A j \in 1..Len(buffer'[r]) : i + 1 = j + 1 => i = j
        BY <2>2
      <4> QED
        BY <2>1, <2>2, <4>3, <4>4, <4>5
    <3> QED
      BY <3>2, <3>3 DEF OwnDeliveries
  <2>5. \A n \in Msgs : owner'[n] = r => Held(r, n)'
    <3> SUFFICES ASSUME NEW n \in Msgs, owner'[n] = r PROVE Held(r, n)'
      OBVIOUS
    <3>1. Held(r, n)
      BY <1>0, <2>1 DEF NothingForgotten
    <3>2. cur[r] # n
      BY <1>a, <2>1, MsgsAssumption DEF Msgs
    <3>3. PICK i \in 1..Len(buffer[r]) : buffer[r][i] = n
      BY <3>1, <3>2 DEF Held
    <3>4. CASE i = 1
      BY <2>1, <2>2, <3>1, <3>3, <3>4 DEF Held
    <3>5. CASE i # 1
      <4>1. i - 1 \in 1..Len(buffer'[r]) /\ (i - 1) + 1 = i
        BY <2>2, <3>5
      <4>2. buffer'[r][i - 1] = n
        BY <2>2, <3>3, <4>1
      <4> QED
        BY <2>1, <3>1, <4>1, <4>2 DEF Held
    <3> QED
      BY <3>4, <3>5
  <2>6. SettlesItsOwn' /\ NothingForgotten'
    BY <1>0, <2>1, <2>4, <2>5, OneReplica
  <2> QED
    BY <1>0, <2>3, <2>6 DEF IInv
<1>9. ASSUME NEW r \in Replicas, Handling(r) PROVE IInv'
  <2>1. pc[r] = "handling"
    BY <1>9 DEF Handling, NoHandler, HandlerSucceeds, HandlerFails
  <2>2. cur[r] \in Msgs /\ open[r] = 1
    BY <1>0, <1>a, <2>1, BusyAt
  <2>3. /\ pc'[r] = "settling"
        /\ UNCHANGED <<owner, gone, link, buffer, cur>>
        /\ \A s \in Replicas \ {r} : /\ pc'[s] = pc[s] /\ outcome'[s] = outcome[s]
                                    /\ open'[s] = open[s]
    BY <1>9, <1>b DEF Handling, NoHandler, HandlerSucceeds, HandlerFails, brokerVars
  <2>4. /\ outcome'[r] = "nil" => success'[cur[r]] > 0
        /\ outcome'[r] \notin {"nil", "error"} => cur[r] \in Permanent
        /\ open'[r] = IF outcome'[r] = "nil" THEN 1 ELSE 0
        /\ \A m \in Msgs : success[m] > 0 => success'[m] > 0
    <3>1. CASE NoHandler(r)
      BY <1>b, <2>2, <3>1 DEF NoHandler, Permanent
    <3>2. CASE HandlerSucceeds(r)
      <4>1. success'[cur[r]] = success[cur[r]] + 1 /\ success[cur[r]] \in Nat
        BY <1>0, <1>b, <2>2, <3>2 DEF HandlerSucceeds, TypeOK
      <4>2. \A m \in Msgs \ {cur[r]} : success'[m] = success[m]
        BY <1>b, <3>2 DEF HandlerSucceeds
      <4>3. outcome'[r] = "nil" /\ open'[r] = 1
        BY <1>b, <2>2, <3>2 DEF HandlerSucceeds
      <4> QED
        BY <4>1, <4>2, <4>3
    <3>3. ASSUME NEW o \in Results, HandlerFails(r, o)
          PROVE  /\ outcome'[r] # "nil"
                 /\ outcome'[r] # "error" => cur[r] \in Permanent
                 /\ open'[r] = 0 /\ UNCHANGED success
      <4>1. o # "nil" /\ (o # "error" => cur[r] \in Permanent)
        BY <3>3 DEF HandlerFails, HandlerResults, Permanent
      <4>2. outcome'[r] = o /\ open'[r] = open[r] - 1 /\ UNCHANGED success
        BY <1>b, <3>3 DEF HandlerFails
      <4> QED
        BY <2>2, <4>1, <4>2
    <3> QED
      BY <1>9, <3>1, <3>2, <3>3 DEF Handling
  <2>5. BusyInv' /\ DownInv'
    BY <1>0, <2>1, <2>3 DEF Small, BusyInv, DownInv
  <2>6. OutcomeInv'
    <3> SUFFICES ASSUME NEW s \in Replicas, pc'[s] = "settling"
                 PROVE  /\ outcome'[s] = "nil" => success'[cur'[s]] > 0
                        /\ outcome'[s] \notin {"nil", "error"} => cur'[s] \in Permanent
      BY DEF OutcomeInv
    <3>1. CASE s = r
      BY <2>3, <2>4, <3>1
    <3>2. CASE s # r
      <4>1. pc[s] = "settling" /\ outcome'[s] = outcome[s]
        BY <2>3, <3>2
      <4>2. cur[s] \in Msgs
        BY <1>0, <4>1, BusyAt
      <4> QED
        BY <1>a, <2>3, <2>4, <4>1, <4>2
    <3> QED
      BY <3>1, <3>2
  <2>7. SettledInv'
    BY <1>0, <2>3, <2>4 DEF Small, SettledInv
  <2>8. MetricsBalance'
    BY <1>0, <2>3, <2>4 DEF Small, MetricsBalance
  <2>9. SettlesItsOwn' /\ NothingForgotten'
    BY <1>0, <2>1, <2>3 DEF SettlesItsOwn, NothingForgotten, OwnDeliveries, Held
  <2> QED
    BY <1>0, <2>5, <2>6, <2>7, <2>8, <2>9 DEF IInv, Small
<1>10. ASSUME NEW r \in Replicas, Settle(r) PROVE IInv'
  <2>1. /\ pc[r] = "settling" /\ pc'[r] = "range" /\ cur'[r] = 0 /\ link[r] = "up"
        /\ UNCHANGED <<link, buffer, outcome, success>>
        /\ \A s \in Replicas \ {r} : /\ pc'[s] = pc[s] /\ cur'[s] = cur[s]
                                    /\ open'[s] = open[s]
        /\ open'[r] = IF outcome[r] = "nil" THEN open[r] - 1 ELSE open[r]
    BY <1>10, <1>b DEF Settle
  <2>2. OwnDeliveries(r)
    BY <1>0, <2>1 DEF SettlesItsOwn
  <2>3. cur[r] \in Msgs /\ owner[cur[r]] = r
    BY <1>0, <2>1, <2>2, BusyAt DEF OwnDeliveries
  <2>4. /\ owner'[cur[r]] = Nobody /\ gone'[cur[r]] = Settlement(outcome[r], cur[r])
        /\ \A m \in Msgs \ {cur[r]} : owner'[m] = owner[m] /\ gone'[m] = gone[m]
    BY <1>10, <1>b, <2>3 DEF Settle
  <2>5. BusyInv' /\ DownInv' /\ OutcomeInv'
    BY <1>0, <2>1 DEF Small, BusyInv, DownInv, OutcomeInv
  <2>6. MetricsBalance'
    <3>1. open'[r] = 0
      BY <1>a, <2>1
    <3> QED
      BY <1>0, <2>1, <3>1 DEF Small, MetricsBalance
  <2>7. SettledInv'
    BY <1>0, <1>a, <2>1, <2>3, <2>4 DEF Small, SettledInv, Settlement, Requeue, Returned
  <2>8. OwnDeliveries(r)'
    <3>1. \A i \in 1..Len(buffer[r]) : buffer[r][i] \in Msgs /\ buffer[r][i] # 0
      BY <1>0, Buffered
    <3> QED
      BY <2>1, <2>2, <2>4, <3>1 DEF OwnDeliveries
  <2>9. \A m \in Msgs : owner'[m] = r => Held(r, m)'
    <3> SUFFICES ASSUME NEW m \in Msgs, owner'[m] = r PROVE Held(r, m)'
      OBVIOUS
    <3>1. m # cur[r] /\ owner[m] = r
      BY <2>4, ReplicasAssumption
    <3>2. Held(r, m)
      BY <1>0, <3>1 DEF NothingForgotten
    <3> QED
      BY <2>1, <3>1, <3>2 DEF Held
  <2>10. SettlesItsOwn' /\ NothingForgotten'
    BY <1>0, <2>1, <2>3, <2>4, <2>8, <2>9, OneReplica
  <2> QED
    BY <1>0, <2>5, <2>6, <2>7, <2>10 DEF IInv, Small
<1>11. ASSUME NEW r \in Replicas, SettleFails(r) PROVE IInv'
  <2>1. /\ pc[r] = "settling" /\ pc'[r] = "range" /\ cur'[r] = 0 /\ link[r] # "up"
        /\ UNCHANGED <<owner, gone, link, buffer, outcome, success>>
        /\ \A s \in Replicas \ {r} : /\ pc'[s] = pc[s] /\ cur'[s] = cur[s]
                                    /\ open'[s] = open[s]
        /\ open'[r] = IF outcome[r] = "nil" THEN open[r] - 1 ELSE open[r]
    BY <1>11, <1>b DEF SettleFails, brokerVars
  <2>2. open'[r] = 0
    BY <1>a, <2>1
  <2>3. link[r] # "down"
    BY <1>a, <2>1
  <2>4. Small'
    BY <1>0, <2>1, <2>2, <2>3, SmallFrame
  <2>5. \A m \in Msgs : owner'[m] # r
    BY <1>0, <2>1 DEF NothingForgotten, Held
  <2>6. SettlesItsOwn' /\ NothingForgotten'
    BY <1>0, <2>1, <2>5, OneReplica
  <2> QED
    BY <1>0, <2>4, <2>6 DEF IInv
<1>12. ASSUME NEW r \in Replicas, Exit(r) PROVE IInv'
  <2>1. /\ pc[r] = "range" /\ pc'[r] = "exited" /\ link[r] = "closed"
        /\ UNCHANGED <<owner, gone, link, buffer, cur, outcome, open, success>>
        /\ \A s \in Replicas \ {r} : pc'[s] = pc[s]
    BY <1>12, <1>b DEF Exit, brokerVars, countVars
  <2>2. Small'
    BY <1>0, <1>a, <2>1, SmallFrame
  <2>3. \A m \in Msgs : owner'[m] # r
    BY <1>0, <2>1 DEF NothingForgotten, Held
  <2>4. SettlesItsOwn' /\ NothingForgotten'
    BY <1>0, <2>1, <2>3, OneReplica
  <2> QED
    BY <1>0, <2>2, <2>4 DEF IInv
<1>13. CASE UNCHANGED vars
  <2>1. UNCHANGED <<owner, gone, link, buffer, pc, cur, outcome, open, success>>
    BY <1>13 DEF vars, brokerVars, loopVars, countVars
  <2>2. Small'
    BY <1>0, <2>1 DEF Small, BusyInv, DownInv, OutcomeInv, SettledInv, MetricsBalance
  <2>3. SettlesItsOwn' /\ NothingForgotten'
    BY <1>0, <2>1 DEF SettlesItsOwn, NothingForgotten, OwnDeliveries, Held
  <2> QED
    BY <1>0, <2>2, <2>3 DEF IInv
<1>14. CASE Expire
  <2>1. /\ UNCHANGED <<owner, link, buffer, pc, cur, outcome, open, success>>
        /\ \A m \in Msgs : gone'[m] = gone[m] \/ gone'[m] = "expired"
    BY <1>14, <1>b DEF Expire, loopVars, countVars
  <2>2. Small'
    BY <1>0, <2>1 DEF Small, BusyInv, DownInv, OutcomeInv, SettledInv, MetricsBalance
  <2>3. SettlesItsOwn' /\ NothingForgotten'
    BY <1>0, <2>1 DEF SettlesItsOwn, NothingForgotten, OwnDeliveries, Held
  <2> QED
    BY <1>0, <2>2, <2>3 DEF IInv
<1> QED
  BY <1>1, <1>2, <1>3, <1>4, <1>6, <1>7, <1>8, <1>9, <1>10, <1>11, <1>12, <1>13, <1>14
     DEF Next, Loop

-----------------------------------------------------------------------------
(* The inductive invariant holds in every behaviour.                       *)
THEOREM Invariance == Spec => []IInv
BY InitIInv, NextIInv, PTL DEF Spec

(* Every variable of the queue and its consumers keeps its type.           *)
THEOREM TypeCorrect == Spec => []TypeOK
BY Invariance, PTL DEF IInv, Small

(* The broker takes a message back for a failure of its handler, or with a *)
(* lost link; a failure that is still to be nacked is counted already. It  *)
(* drops what it has taken back too often.                                 *)
ReturnInv ==
    /\ \A m \in Msgs :
          /\ returns[m] <= failed[m] + losses
          /\ gone[m] = "dropped" => returns[m] > DeliveryLimit
    /\ \A r \in Replicas :
          link[r] = "up" /\ pc[r] = "settling" /\ outcome[r] = "error" =>
              returns[cur[r]] < failed[cur[r]] + losses

(* A step that takes nothing back keeps the count, if the replica r that   *)
(* takes it does not come to owe a Nack.                                   *)
LEMMA ReturnFrame ==
    ASSUME ReturnInv, UNCHANGED <<returns, failed, losses>>, NEW r \in Replicas,
           \A m \in Msgs : gone'[m] = gone[m] \/ gone'[m] \in {"no", "acked", "discarded", "expired"},
           \A s \in Replicas \ {r} : /\ link'[s] = link[s] /\ pc'[s] = pc[s]
                                     /\ cur'[s] = cur[s] /\ outcome'[s] = outcome[s],
           \/ link'[r] # "up" \/ pc'[r] # "settling" \/ outcome'[r] # "error"
           \/ UNCHANGED <<link, pc, cur, outcome>>
    PROVE  ReturnInv'
BY DEF ReturnInv

(* The count holds in every behaviour.                                     *)
LEMMA ReturnsBounded == Spec => []ReturnInv
<1>1. Init => ReturnInv
  BY LimitsAssumption DEF Init, ReturnInv
<1>2. IInv /\ ReturnInv /\ [Next]_vars => ReturnInv'
  <2> SUFFICES ASSUME IInv, ReturnInv, [Next]_vars PROVE ReturnInv'
    OBVIOUS
  <2>0. /\ TypeOK /\ BusyInv /\ DownInv /\ SettlesItsOwn
        /\ DOMAIN link = Replicas /\ DOMAIN pc = Replicas /\ DOMAIN cur = Replicas
        /\ DOMAIN outcome = Replicas /\ DOMAIN gone = Msgs
        /\ \A m \in Msgs : returns[m] \in Nat /\ failed[m] \in Nat
        /\ losses \in Nat
    BY LimitsAssumption DEF IInv, Small, TypeOK
  <2>a. \A r \in Replicas : pc[r] = "settling" => cur[r] \in Msgs
    BY <2>0, BusyAt
  <2>1. ASSUME NEW r \in Replicas, Join(r) PROVE ReturnInv'
    <3>1. pc[r] = "range"
      BY <2>0, <2>1 DEF DownInv, Join
    <3> QED
      BY <2>0, <2>1, <3>1, ReturnFrame DEF Join, brokerVars, loopVars, countVars
  <2>2. ASSUME NEW r \in Replicas, Activate(r) PROVE ReturnInv'
    BY <2>2, ReturnFrame DEF Activate, loopVars, countVars
  <2>3. ASSUME NEW r \in Replicas, NEW m \in Msgs, Deliver(r, m) PROVE ReturnInv'
    BY <2>3, ReturnFrame DEF Deliver, countVars
  <2>4. ASSUME NEW r \in Replicas, Lose(r) \/ Leave(r) \/ Crash(r) PROVE ReturnInv'
    <3>1. /\ Drop(r) /\ link'[r] # "up" /\ losses' = losses + 1 /\ UNCHANGED failed
          /\ \A s \in Replicas \ {r} : /\ link'[s] = link[s] /\ pc'[s] = pc[s]
                                      /\ cur'[s] = cur[s] /\ outcome'[s] = outcome[s]
      BY <2>0, <2>4 DEF Lose, Leave, Crash, Forget, Drop, loopVars, countVars
    <3>2. ASSUME NEW m \in Msgs
          PROVE  /\ returns'[m] = IF owner[m] = r THEN returns[m] + 1 ELSE returns[m]
                 /\ gone'[m] = IF owner[m] = r THEN Returned(m) ELSE gone[m]
      BY <3>1 DEF Drop
    <3>3. ASSUME NEW m \in Msgs
          PROVE  /\ returns'[m] <= failed'[m] + losses'
                 /\ gone'[m] = "dropped" => returns'[m] > DeliveryLimit
      <4>1. /\ returns[m] <= failed[m] + losses
            /\ gone[m] = "dropped" => returns[m] > DeliveryLimit
        BY DEF ReturnInv
      <4> QED
        BY <2>0, <3>1, <3>2, <4>1, LimitsAssumption DEF Returned
    <3>4. ASSUME NEW s \in Replicas, link'[s] = "up", pc'[s] = "settling", outcome'[s] = "error"
          PROVE  returns'[cur'[s]] < failed'[cur'[s]] + losses'
      <4>1. /\ s # r /\ cur'[s] = cur[s] /\ link[s] = "up"
            /\ pc[s] = "settling" /\ outcome[s] = "error"
        BY <3>1, <3>4
      <4>2. cur[s] \in Msgs /\ owner[cur[s]] = s
        BY <2>0, <2>a, <4>1 DEF SettlesItsOwn, OwnDeliveries
      <4>3. returns[cur[s]] < failed[cur[s]] + losses
        BY <4>1 DEF ReturnInv
      <4>4. returns'[cur[s]] = returns[cur[s]]
        BY <3>2, <4>1, <4>2
      <4> QED
        BY <2>0, <3>1, <4>1, <4>2, <4>3, <4>4
    <3> QED
      BY <3>3, <3>4 DEF ReturnInv
  <2>5. ASSUME NEW r \in Replicas, Restart(r) PROVE ReturnInv'
    BY <2>0, <2>5, ReturnFrame DEF Restart, Forget, brokerVars
  <2>6. ASSUME NEW r \in Replicas, Take(r) PROVE ReturnInv'
    BY <2>0, <2>6, ReturnFrame DEF Take, brokerVars
  <2>7. ASSUME NEW r \in Replicas, NoHandler(r) \/ HandlerSucceeds(r) PROVE ReturnInv'
    BY <2>0, <2>7, ReturnFrame DEF NoHandler, HandlerSucceeds, brokerVars
  <2>8. ASSUME NEW r \in Replicas, NEW o \in Results, HandlerFails(r, o) PROVE ReturnInv'
    <3>1. cur[r] \in Msgs
      BY <2>0, <2>8, BusyAt DEF HandlerFails
    <3>2. /\ UNCHANGED <<returns, gone, losses, link, cur>>
          /\ outcome'[r] = o
          /\ \A s \in Replicas \ {r} : pc'[s] = pc[s] /\ outcome'[s] = outcome[s]
          /\ \A m \in Msgs \ {cur[r]} : failed'[m] = failed[m]
          /\ failed'[cur[r]] = IF o = "error" THEN failed[cur[r]] + 1 ELSE failed[cur[r]]
      BY <2>0, <2>8, <3>1 DEF HandlerFails, brokerVars, TypeOK
    <3>3. \A m \in Msgs : failed'[m] >= failed[m] /\ failed'[m] \in Nat
      BY <2>0, <3>1, <3>2
    <3>4. ASSUME NEW m \in Msgs
          PROVE  /\ returns'[m] <= failed'[m] + losses'
                 /\ gone'[m] = "dropped" => returns'[m] > DeliveryLimit
      BY <2>0, <3>2, <3>3 DEF ReturnInv
    <3>5. ASSUME NEW s \in Replicas, link'[s] = "up", pc'[s] = "settling", outcome'[s] = "error"
          PROVE  returns'[cur'[s]] < failed'[cur'[s]] + losses'
      <4>1. CASE s = r
        <5>1. failed'[cur[r]] = failed[cur[r]] + 1
          BY <3>2, <3>5, <4>1
        <5>2. returns[cur[r]] <= failed[cur[r]] + losses
          BY <3>1 DEF ReturnInv
        <5> QED
          BY <2>0, <3>1, <3>2, <4>1, <5>1, <5>2
      <4>2. CASE s # r
        <5>1. pc[s] = "settling" /\ link[s] = "up" /\ outcome[s] = "error"
          BY <3>2, <3>5, <4>2
        <5>2. cur[s] \in Msgs /\ returns[cur[s]] < failed[cur[s]] + losses
          BY <2>a, <5>1 DEF ReturnInv
        <5> QED
          BY <2>0, <3>2, <3>3, <5>2
      <4> QED
        BY <4>1, <4>2
    <3> QED
      BY <3>4, <3>5 DEF ReturnInv
  <2>9. ASSUME NEW r \in Replicas, Settle(r) PROVE ReturnInv'
    <3>1. /\ link[r] = "up" /\ pc[r] = "settling" /\ pc'[r] = "range"
          /\ UNCHANGED <<link, outcome, failed, losses>>
          /\ \A s \in Replicas \ {r} : pc'[s] = pc[s] /\ cur'[s] = cur[s]
      BY <2>0, <2>9 DEF Settle
    <3>2. cur[r] \in Msgs /\ owner[cur[r]] = r
      BY <2>0, <2>a, <3>1 DEF SettlesItsOwn, OwnDeliveries
    <3>3. /\ \A m \in Msgs \ {cur[r]} : returns'[m] = returns[m] /\ gone'[m] = gone[m]
          /\ gone'[cur[r]] = Settlement(outcome[r], cur[r])
          /\ returns'[cur[r]] = IF outcome[r] = "error" THEN returns[cur[r]] + 1
                                ELSE returns[cur[r]]
      BY <2>0, <2>9, <3>2 DEF Settle, Requeue, TypeOK
    <3>4. ASSUME NEW m \in Msgs
          PROVE  /\ returns'[m] <= failed'[m] + losses'
                 /\ gone'[m] = "dropped" => returns'[m] > DeliveryLimit
      <4>1. returns[m] <= failed[m] + losses /\ (gone[m] = "dropped" => returns[m] > DeliveryLimit)
        BY DEF ReturnInv
      <4>2. CASE m # cur[r]
        BY <3>1, <3>3, <4>1, <4>2
      <4>3. CASE m = cur[r] /\ outcome[r] # "error"
        BY <3>1, <3>3, <4>1, <4>3 DEF Settlement, Requeue
      <4>4. CASE m = cur[r] /\ outcome[r] = "error"
        <5>1. returns[m] < failed[m] + losses
          BY <3>1, <4>4 DEF ReturnInv
        <5>2. returns'[m] = returns[m] + 1 /\ gone'[m] = Returned(m)
          BY <3>3, <4>4 DEF Settlement, Requeue
        <5> QED
          BY <2>0, <3>1, <5>1, <5>2, LimitsAssumption DEF Returned
      <4> QED
        BY <4>2, <4>3, <4>4
    <3>5. ASSUME NEW s \in Replicas, link'[s] = "up", pc'[s] = "settling", outcome'[s] = "error"
          PROVE  returns'[cur'[s]] < failed'[cur'[s]] + losses'
      <4>1. /\ s # r /\ cur'[s] = cur[s] /\ link[s] = "up"
            /\ pc[s] = "settling" /\ outcome[s] = "error"
        BY <3>1, <3>5
      <4>2. cur[s] \in Msgs /\ cur[s] # cur[r]
        BY <2>0, <2>a, <3>2, <4>1 DEF SettlesItsOwn, OwnDeliveries
      <4> QED
        BY <3>1, <3>3, <4>1, <4>2 DEF ReturnInv
    <3> QED
      BY <3>4, <3>5 DEF ReturnInv
  <2>10. ASSUME NEW r \in Replicas, SettleFails(r) \/ Exit(r) PROVE ReturnInv'
    BY <2>0, <2>10, ReturnFrame DEF SettleFails, Exit, brokerVars, countVars
  <2>11. CASE Expire
    BY <2>0, <2>11 DEF Expire, loopVars, countVars, ReturnInv
  <2>12. CASE UNCHANGED vars
    BY <2>12 DEF vars, brokerVars, loopVars, countVars, ReturnInv
  <2> QED
    BY <2>1, <2>2, <2>3, <2>4, <2>5, <2>6, <2>7, <2>8, <2>9, <2>10, <2>11, <2>12
       DEF Next, Loop, Handling
<1> QED
  BY <1>1, <1>2, Invariance, PTL DEF Spec

(* At-least-once: while somebody consumes from the queue, a message leaves *)
(* it acked only after a success of its handler, discarded only if it      *)
(* could not be handled at all, and dropped by the broker only after more  *)
(* failures and lost links than the delivery limit, however links are lost *)
(* and processes crash.                                                    *)
THEOREM AtLeastOnce == Spec => []LeavesForAReason
<1>1. IInv /\ ReturnInv => LeavesForAReason
  <2> SUFFICES ASSUME IInv, ReturnInv, NEW m \in Msgs, gone[m] = "dropped"
               PROVE  failed[m] + losses > DeliveryLimit
    BY DEF IInv, Small, SettledInv, LeavesForAReason
  <2>1. returns[m] <= failed[m] + losses /\ returns[m] > DeliveryLimit
    BY DEF ReturnInv
  <2>2. returns[m] \in Nat /\ failed[m] \in Nat /\ losses \in Nat
    BY LimitsAssumption DEF IInv, TypeOK
  <2> QED
    BY <2>1, <2>2, LimitsAssumption
<1> QED
  BY <1>1, Invariance, ReturnsBounded, PTL

(* On a live channel every Ack, Nack and Reject is for an unacked delivery *)
(* of that very channel, and each delivery is settled once.                *)
THEOREM OwnSettlements == Spec => []SettlesItsOwn
BY Invariance, PTL DEF IInv, Small

(* The loop forgets no delivery: what the broker holds as unacked on a     *)
(* live channel is still going to be settled.                              *)
THEOREM NoForgotten == Spec => []NothingForgotten
BY Invariance, PTL DEF IInv, Small

(* The counters of metrics.go add up: one received, one ended.             *)
THEOREM Balance == Spec => []MetricsBalance
BY Invariance, PTL DEF IInv, Small

-----------------------------------------------------------------------------
(* With single active consumer, what is unacked belongs to the active one. *)
ActiveInv ==
    SingleActive => \A m \in Msgs : owner[m] # Nobody => owner[m] = active

(* The broker's bookkeeping for single active consumer is consistent: it   *)
(* activates a replica only when nothing is left with another one.         *)
LEMMA ActiveOwner == Spec => []ActiveInv
<1>1. Init => ActiveInv
  BY DEF Init, ActiveInv
<1>2. TypeOK /\ BusyInv /\ ActiveInv /\ [Next]_vars => ActiveInv'
  <2> SUFFICES ASSUME TypeOK, BusyInv, ActiveInv, [Next]_vars, SingleActive
               PROVE  \A m \in Msgs : owner'[m] # Nobody => owner'[m] = active'
    BY DEF ActiveInv
  <2>0. \A m \in Msgs : owner[m] # Nobody => owner[m] = active
    BY DEF ActiveInv
  <2>1. CASE UNCHANGED <<owner, active>>
    BY <2>0, <2>1
  <2>2. ASSUME NEW r \in Replicas, Activate(r)
        PROVE  \A m \in Msgs : owner'[m] # Nobody => owner'[m] = active'
    BY <2>0, <2>2 DEF Activate
  <2>3. ASSUME NEW r \in Replicas, NEW n \in Msgs, Deliver(r, n)
        PROVE  \A m \in Msgs : owner'[m] # Nobody => owner'[m] = active'
    BY <2>0, <2>3 DEF Deliver, Exclusive, TypeOK
  <2>4. ASSUME NEW r \in Replicas, Drop(r)
        PROVE  \A m \in Msgs : owner'[m] # Nobody => owner'[m] = active'
    BY <2>0, <2>4 DEF Drop
  <2>5. ASSUME NEW r \in Replicas, Settle(r)
        PROVE  \A m \in Msgs : owner'[m] # Nobody => owner'[m] = active'
    <3>1. active' = active /\ owner' = [owner EXCEPT ![cur[r]] = Nobody]
      BY <2>5 DEF Settle
    <3> QED
      BY <2>0, <3>1 DEF TypeOK
  <2>6. ASSUME NEW r \in Replicas, Restart(r) \/ Join(r)
        PROVE  UNCHANGED <<owner, active>>
    BY <2>6 DEF Restart, Join, brokerVars
  <2>7. ASSUME NEW r \in Replicas, Loop(r), ~Settle(r)
        PROVE  UNCHANGED <<owner, active>>
    BY <2>7 DEF Loop, Take, Handling, NoHandler, HandlerSucceeds, HandlerFails, SettleFails,
         Exit, brokerVars
  <2> QED
    BY <2>1, <2>2, <2>3, <2>4, <2>5, <2>6, <2>7
       DEF Next, Expire, Lose, Leave, Crash, vars, brokerVars
<1> QED
  BY <1>1, <1>2, Invariance, PTL DEF Spec, IInv, Small

(* Of the replicas with a live link at most one is at a delivery when the  *)
(* queue has a single active consumer.                                     *)
THEOREM OneActive == Spec => []OneLiveReplicaAtATime
<1>1. IInv /\ ActiveInv => OneLiveReplicaAtATime
  <2> SUFFICES ASSUME IInv, ActiveInv, SingleActive
               PROVE  \A r \in Replicas :
                        link[r] = "up" /\ pc[r] \in {"handling", "settling"} => r = active
    BY DEF OneLiveReplicaAtATime
  <2> SUFFICES ASSUME NEW r \in Replicas, link[r] = "up", pc[r] \in {"handling", "settling"}
               PROVE  r = active
    OBVIOUS
  <2>1. owner[cur[r]] = r
    BY DEF IInv, SettlesItsOwn, OwnDeliveries
  <2>2. cur[r] \in Msgs
    BY MsgsAssumption DEF IInv, Small, TypeOK, BusyInv, Msgs
  <2> QED
    BY <2>1, <2>2, ReplicasAssumption DEF ActiveInv
<1> QED
  BY <1>1, Invariance, ActiveOwner, PTL
=============================================================================
