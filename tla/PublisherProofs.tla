-------------------------- MODULE PublisherProofs --------------------------
(***************************************************************************)
(* Proofs about Publisher, for any number of callers, any capacity of      *)
(* confirmCh, any options and any number of messages.                      *)
(***************************************************************************)
EXTENDS Publisher, TLAPS

(* 1 while a call waits for the answer to its message, else 0.             *)
Owed == IF mu \in Callers /\ pc[mu] = "waiting" THEN 1 ELSE 0

(* The mutex is held exactly by the call between Lock and its return.      *)
LockInv == \A c \in Callers : pc[c] \in {"locked", "waiting"} <=> mu = c

(* A waiting call has published the latest message and not yet reported.   *)
TagInv == \A c \in Callers : pc[c] = "waiting" =>
             /\ Waits
             /\ wired
             /\ tag[c] = sent
             /\ sent \in Tags
             /\ reported[sent] = "none"

(* confirmCh holds the confirmations consumed + 1 .. delivered, in order.  *)
BufferInv ==
    /\ Len(confirmCh) <= ConfirmCap
    /\ delivered = consumed + Len(confirmCh)
    /\ delivered <= sent
    /\ \A i \in 1..Len(confirmCh) : confirmCh[i] = consumed + i

(* Nothing is known of a message that has not been sent, the broker has    *)
(* answered every delivered one, and only a channel in confirm mode does.  *)
VerdictInv ==
    /\ \A t \in Tags : t > sent => reported[t] = "none" /\ verdict[t] = "none"
    /\ \A t \in Tags : t <= delivered => verdict[t] # "none"
    /\ NoConfirm => \A t \in Tags : verdict[t] = "none"

(* Every message is accounted for: its confirmation was read by a call, or *)
(* its call was abandoned, or its call still waits. A monitor's reads are  *)
(* taken from the calls. (A call that ends because confirmCh was closed    *)
(* breaks the balance, and no message is sent after it.)                   *)
CountInv ==
    Waits /\ (chan # "closed" \/ Owed = 1) =>
        sent + stolen = consumed + abandoned + Owed

ClosedInv ==
    /\ ~wired => sent = 0 /\ chan = "open"
    /\ chan = "closed" => ReaderIdle

GhostInv ==
    /\ abandoned > 0 => \E u \in Tags : u <= sent /\ reported[u] = "cancelled"
    /\ ~Monitor => stolen = 0
    /\ \A t \in Tags : read[t] <= consumed

IInv ==
    /\ TypeOK
    /\ LockInv
    /\ TagInv
    /\ BufferInv
    /\ VerdictInv
    /\ CountInv
    /\ ClosedInv
    /\ GhostInv
    /\ OneCallPerConfirm
    /\ HonestUntilAbandoned

-----------------------------------------------------------------------------
(* An update, inside the domain or not, keeps a function well typed.       *)
LEMMA UpdateTyped ==
    ASSUME NEW D, NEW R, NEW f \in [D -> R], NEW x, NEW y \in R
    PROVE  [f EXCEPT ![x] = y] \in [D -> R]
OBVIOUS

(* Initial states are well typed.                                          *)
LEMMA InitTypeOK == Init => TypeOK
<1> SUFFICES ASSUME Init
             PROVE  TypeOK
  OBVIOUS
<1>1. wired \in BOOLEAN /\ ctxDone \in [Callers -> BOOLEAN]
  BY Zenon DEF Init
<1>2. confirmCh \in Seq(Tags)
  BY DEF Init
<1>3. QED
  BY <1>1, <1>2, CallersAssumption, BoundsAssumption DEF Init, TypeOK, Tags, Outcomes

(* The end of a call keeps the state of the calls well typed.              *)
LEMMA ReturnTyped ==
    ASSUME TypeOK, NEW c \in Callers, Return(c)
    PROVE  /\ mu' \in Callers \cup {NoCaller}
           /\ pc' \in [Callers -> {"idle", "locking", "locked", "waiting"}]
           /\ kind' \in [Callers -> {"none", "publish", "raw"}]
           /\ ctxDone' \in [Callers -> BOOLEAN]
           /\ tag' \in [Callers -> 0..MaxMsgs]
<1>1. 0 \in 0..MaxMsgs
  BY BoundsAssumption
<1>2. tag' \in [Callers -> 0..MaxMsgs]
  BY <1>1, UpdateTyped DEF TypeOK, Return
<1> QED
  BY <1>2, UpdateTyped DEF TypeOK, Return

(* Every step of every actor keeps the state well typed.                   *)
LEMMA NextTypeOK == TypeOK /\ [Next]_vars => TypeOK'
<1> USE CallersAssumption, OptionsAssumption, BoundsAssumption
<1> SUFFICES ASSUME TypeOK, [Next]_vars
             PROVE  TypeOK'
  OBVIOUS
<1> USE DEF TypeOK, Tags, Outcomes, callVars, linkVars, reportVars
<1>1. CASE Setup
  BY <1>1 DEF Setup
<1>2. ASSUME NEW f \in Faults, SetupFails(f)
      PROVE  TypeOK'
  BY <1>2 DEF SetupFails, EndState
<1>3. ASSUME NEW c \in Callers, CallerNext(c)
      PROVE  TypeOK'
  <2>1. ASSUME NEW k \in {"publish", "raw"}, Call(c, k)
        PROVE  TypeOK'
    BY <2>1 DEF Call
  <2>2. CASE Cancel(c)
    BY <2>2 DEF Cancel
  <2>3. CASE Lock(c)
    BY <2>3 DEF Lock
  <2>4. CASE Refuse(c)
    BY <2>4, ReturnTyped DEF Refuse
  <2>5. CASE SendFails(c)
    BY <2>5, ReturnTyped DEF SendFails
  <2>6. CASE Send(c)
    BY <2>6 DEF Send
  <2>7. CASE SendUnconfirmed(c)
    <3>1. sent + 1 \in 0..MaxMsgs
      BY <2>7 DEF SendUnconfirmed
    <3>2. reported' \in [Tags -> {"none"} \cup Outcomes]
      BY <2>7, UpdateTyped DEF SendUnconfirmed
    <3>3. QED
      BY <2>7, <3>1, <3>2, ReturnTyped DEF SendUnconfirmed
  <2>8. CASE Receive(c)
    <3>1. confirmCh' \in Seq(Tags) /\ Head(confirmCh) \in Tags
      BY <2>8 DEF Receive
    <3>2. reported' \in [Tags -> {"none"} \cup Outcomes]
      BY <2>8, UpdateTyped DEF Receive
    <3>3. read' \in [Tags -> 0..MaxMsgs]
      BY <2>8, <3>1, UpdateTyped DEF Receive
    <3>4. consumed' \in Nat
      BY <2>8 DEF Receive
    <3>5. QED
      BY <2>8, <3>1, <3>2, <3>3, <3>4, ReturnTyped DEF Receive
  <2>9. CASE ReceiveClosed(c)
    <3>1. reported' \in [Tags -> {"none"} \cup Outcomes]
      BY <2>9, UpdateTyped DEF ReceiveClosed
    <3>2. QED
      BY <2>9, <3>1, ReturnTyped DEF ReceiveClosed
  <2>10. CASE CtxDone(c)
    <3>1. reported' \in [Tags -> {"none"} \cup Outcomes]
      BY <2>10, UpdateTyped DEF CtxDone
    <3>2. abandoned' \in Nat
      BY <2>10 DEF CtxDone
    <3>3. QED
      BY <2>10, <3>1, <3>2, ReturnTyped DEF CtxDone
  <2> HIDE DEF TypeOK
  <2>11. QED
    BY <1>3, <2>1, <2>2, <2>3, <2>4, <2>5, <2>6, <2>7, <2>8, <2>9, <2>10
       DEF CallerNext, Holding, Answered
<1>4. ASSUME NEW t \in Tags, NEW v \in {"ack", "nack"}, Verdict(t, v)
      PROVE  TypeOK'
  BY <1>4 DEF Verdict
<1>5. CASE Deliver
  BY <1>5 DEF Deliver, ReaderIdle
<1>6. CASE MonitorReads
  BY <1>6 DEF MonitorReads
<1>7. CASE Close
  BY <1>7 DEF Close
<1>8. CASE Lose
  BY <1>8 DEF Lose
<1>9. CASE UNCHANGED vars
  BY <1>9 DEF vars
<1> HIDE DEF TypeOK, Tags
<1>10. QED
  BY <1>1, <1>2, <1>3, <1>4, <1>5, <1>6, <1>7, <1>8, <1>9
     DEF Next, BrokerAnswers

(* The type invariant holds in every reachable state.                      *)
THEOREM TypeCorrect == Spec => []TypeOK
BY InitTypeOK, NextTypeOK, PTL DEF Spec

-----------------------------------------------------------------------------
(* Taking the head of a run of consecutive numbers leaves the run that     *)
(* starts one later.                                                       *)
LEMMA TailRun ==
    ASSUME NEW q \in Seq(Nat), q # <<>>, NEW n \in Nat,
           \A i \in 1..Len(q) : q[i] = n + i
    PROVE  /\ Head(q) = n + 1
           /\ Len(Tail(q)) = Len(q) - 1
           /\ \A i \in 1..Len(Tail(q)) : Tail(q)[i] = (n + 1) + i
<1>1. Len(q) \in Nat \ {0} /\ Len(Tail(q)) = Len(q) - 1
  OBVIOUS
<1>2. \A i \in 1..Len(Tail(q)) : Tail(q)[i] = q[i + 1]
  OBVIOUS
<1>3. QED
  BY <1>1, <1>2

(* Appending the next number to a run of consecutive numbers extends it.   *)
LEMMA AppendRun ==
    ASSUME NEW q \in Seq(Nat), NEW n \in Nat,
           \A i \in 1..Len(q) : q[i] = n + i
    PROVE  LET r == Append(q, n + Len(q) + 1)
           IN  /\ Len(r) = Len(q) + 1
               /\ \A i \in 1..Len(r) : r[i] = n + i
OBVIOUS

(* Receiving from confirmCh, by a call or by the monitor, yields the next  *)
(* confirmation in order and keeps the buffer a run.                       *)
LEMMA TakeConfirm ==
    ASSUME TypeOK, BufferInv, confirmCh # <<>>,
           confirmCh' = Tail(confirmCh), consumed' = consumed + 1,
           UNCHANGED <<delivered, sent>>
    PROVE  /\ Head(confirmCh) = consumed + 1
           /\ consumed + 1 <= delivered
           /\ BufferInv'
<1>1. confirmCh \in Seq(Nat) /\ consumed \in Nat /\ Len(confirmCh) \in Nat \ {0}
  BY BoundsAssumption DEF TypeOK, Tags
<1>2. \A i \in 1..Len(confirmCh) : confirmCh[i] = consumed + i
  BY DEF BufferInv
<1>3. /\ Head(confirmCh) = consumed + 1
      /\ Len(confirmCh') = Len(confirmCh) - 1
      /\ \A i \in 1..Len(confirmCh') : confirmCh'[i] = (consumed + 1) + i
  BY <1>1, <1>2, TailRun
<1>4. QED
  BY <1>1, <1>3, BoundsAssumption DEF BufferInv, TypeOK

(* The reader goroutine's send to confirmCh keeps the buffer a run.        *)
LEMMA PutConfirm ==
    ASSUME TypeOK, BufferInv, Deliver
    PROVE  BufferInv'
<1>1. confirmCh \in Seq(Nat) /\ consumed \in Nat /\ Len(confirmCh) \in Nat
  BY BoundsAssumption DEF TypeOK, Tags
<1>2. \A i \in 1..Len(confirmCh) : confirmCh[i] = consumed + i
  BY DEF BufferInv
<1>3. confirmCh' = Append(confirmCh, consumed + Len(confirmCh) + 1)
  BY DEF BufferInv, Deliver
<1>4. /\ Len(confirmCh') = Len(confirmCh) + 1
      /\ \A i \in 1..Len(confirmCh') : confirmCh'[i] = consumed + i
  BY <1>1, <1>2, <1>3, AppendRun
<1>5. /\ delivered' = delivered + 1 /\ UNCHANGED <<consumed, sent>>
      /\ Len(confirmCh) < ConfirmCap /\ delivered < sent
  BY DEF Deliver, ReaderIdle
<1>6. /\ delivered \in Nat /\ sent \in Nat /\ ConfirmCap \in Nat
      /\ delivered = consumed + Len(confirmCh)
  BY BoundsAssumption DEF TypeOK, BufferInv
<1>7. QED
  BY <1>1, <1>4, <1>5, <1>6 DEF BufferInv

(* The inductive invariant holds initially.                                *)
LEMMA InitIInv == Init => IInv
<1> SUFFICES ASSUME Init
             PROVE  IInv
  OBVIOUS
<1>1. TypeOK
  BY InitTypeOK
<1> USE CallersAssumption, BoundsAssumption DEF Init, Tags, Waits, NoConfirm, Monitor
<1>2. LockInv /\ TagInv
  BY DEF LockInv, TagInv
<1>3. BufferInv /\ VerdictInv
  BY DEF BufferInv, VerdictInv
<1>4. CountInv /\ ClosedInv
  BY DEF CountInv, ClosedInv, ReaderIdle, Owed
<1>5. GhostInv /\ OneCallPerConfirm /\ HonestUntilAbandoned
  BY DEF GhostInv, OneCallPerConfirm, HonestUntilAbandoned
<1>6. QED
  BY <1>1, <1>2, <1>3, <1>4, <1>5 DEF IInv

(* Every step preserves the inductive invariant.                           *)
LEMMA NextIInv == IInv /\ [Next]_vars => IInv'
<1> SUFFICES ASSUME IInv, [Next]_vars
             PROVE  IInv'
  OBVIOUS
<1>t. TypeOK'
  BY NextTypeOK DEF IInv
<1> USE CallersAssumption, OptionsAssumption, BoundsAssumption
<1> USE DEF IInv, TypeOK, Tags, Outcomes, callVars, linkVars, reportVars, Waits, NoConfirm, Monitor
<1>1. CASE Setup
  <2>1. LockInv' /\ TagInv'
    BY <1>t, <1>1 DEF Setup, LockInv, TagInv
  <2>2. BufferInv'
    BY <1>t, <1>1 DEF Setup, BufferInv
  <2>3. VerdictInv'
    BY <1>t, <1>1 DEF Setup, VerdictInv, TagInv
  <2>4. CountInv'
    BY <1>t, <1>1 DEF Setup, CountInv, Owed, LockInv, TagInv, ClosedInv
  <2>5. ClosedInv'
    BY <1>t, <1>1 DEF Setup, ClosedInv, ReaderIdle
  <2>6. GhostInv'
    BY <1>t, <1>1 DEF Setup, GhostInv, TagInv
  <2>7. OneCallPerConfirm'
    BY <1>t, <1>1 DEF Setup, OneCallPerConfirm, GhostInv
  <2>8. HonestUntilAbandoned'
    BY <1>t, <1>1 DEF Setup, HonestUntilAbandoned
  <2>9. QED
    BY <1>t, <2>1, <2>2, <2>3, <2>4, <2>5, <2>6, <2>7, <2>8
<1>2. ASSUME NEW f \in Faults, SetupFails(f)
      PROVE  IInv'
  <2>1. LockInv' /\ TagInv'
    BY <1>t, <1>2 DEF SetupFails, EndState, LockInv, TagInv
  <2>2. BufferInv'
    BY <1>t, <1>2 DEF SetupFails, EndState, BufferInv
  <2>3. VerdictInv'
    BY <1>t, <1>2 DEF SetupFails, EndState, VerdictInv, TagInv
  <2>4. CountInv'
    BY <1>t, <1>2 DEF SetupFails, EndState, CountInv, Owed, TagInv, ClosedInv
  <2>5. ClosedInv'
    BY <1>t, <1>2 DEF SetupFails, EndState, ClosedInv, ReaderIdle
  <2>6. GhostInv'
    BY <1>t, <1>2 DEF SetupFails, EndState, GhostInv, TagInv
  <2>7. OneCallPerConfirm'
    BY <1>t, <1>2 DEF SetupFails, EndState, OneCallPerConfirm, GhostInv
  <2>8. HonestUntilAbandoned'
    BY <1>2 DEF SetupFails, ClosedInv, HonestUntilAbandoned
  <2>9. QED
    BY <1>t, <2>1, <2>2, <2>3, <2>4, <2>5, <2>6, <2>7, <2>8
<1>3. ASSUME NEW c \in Callers, CallerNext(c)
      PROVE  IInv'
  <2>1. ASSUME NEW k \in {"publish", "raw"}, Call(c, k)
        PROVE  IInv'
    <3>1. LockInv' /\ TagInv'
      BY <1>t, <2>1 DEF Call, LockInv, TagInv
    <3>2. BufferInv'
      BY <1>t, <2>1 DEF Call, BufferInv
    <3>3. VerdictInv'
      BY <1>t, <2>1 DEF Call, VerdictInv, TagInv
    <3>4. CountInv'
      BY <1>t, <2>1 DEF Call, CountInv, Owed, LockInv, TagInv, ClosedInv
    <3>5. ClosedInv'
      BY <1>t, <2>1 DEF Call, ClosedInv, ReaderIdle
    <3>6. GhostInv'
      BY <1>t, <2>1 DEF Call, GhostInv, TagInv
    <3>7. OneCallPerConfirm'
      BY <1>t, <2>1 DEF Call, OneCallPerConfirm, GhostInv
    <3>8. HonestUntilAbandoned'
      BY <1>t, <2>1 DEF Call, HonestUntilAbandoned
    <3>9. QED
      BY <1>t, <3>1, <3>2, <3>3, <3>4, <3>5, <3>6, <3>7, <3>8
  <2>2. CASE Cancel(c)
    <3>1. LockInv' /\ TagInv'
      BY <1>t, <2>2 DEF Cancel, LockInv, TagInv
    <3>2. BufferInv'
      BY <1>t, <2>2 DEF Cancel, BufferInv
    <3>3. VerdictInv'
      BY <1>t, <2>2 DEF Cancel, VerdictInv, TagInv
    <3>4. CountInv'
      BY <1>t, <2>2 DEF Cancel, CountInv, Owed, LockInv, TagInv, ClosedInv
    <3>5. ClosedInv'
      BY <1>t, <2>2 DEF Cancel, ClosedInv, ReaderIdle
    <3>6. GhostInv'
      BY <1>t, <2>2 DEF Cancel, GhostInv, TagInv
    <3>7. OneCallPerConfirm'
      BY <1>t, <2>2 DEF Cancel, OneCallPerConfirm, GhostInv
    <3>8. HonestUntilAbandoned'
      BY <1>t, <2>2 DEF Cancel, HonestUntilAbandoned
    <3>9. QED
      BY <1>t, <3>1, <3>2, <3>3, <3>4, <3>5, <3>6, <3>7, <3>8
  <2>3. CASE Lock(c)
    <3>1. LockInv' /\ TagInv'
      BY <1>t, <2>3 DEF Lock, LockInv, TagInv
    <3>2. BufferInv'
      BY <1>t, <2>3 DEF Lock, BufferInv
    <3>3. VerdictInv'
      BY <1>t, <2>3 DEF Lock, VerdictInv, TagInv
    <3>4. CountInv'
      BY <1>t, <2>3 DEF Lock, CountInv, Owed, LockInv, TagInv, ClosedInv
    <3>5. ClosedInv'
      BY <1>t, <2>3 DEF Lock, ClosedInv, ReaderIdle
    <3>6. GhostInv'
      BY <1>t, <2>3 DEF Lock, GhostInv, TagInv
    <3>7. OneCallPerConfirm'
      BY <1>t, <2>3 DEF Lock, OneCallPerConfirm, GhostInv
    <3>8. HonestUntilAbandoned'
      BY <1>t, <2>3 DEF Lock, HonestUntilAbandoned
    <3>9. QED
      BY <1>t, <3>1, <3>2, <3>3, <3>4, <3>5, <3>6, <3>7, <3>8
  <2>4. CASE Refuse(c)
    <3>1. LockInv' /\ TagInv'
      BY <1>t, <2>4 DEF Refuse, Return, LockInv, TagInv
    <3>2. BufferInv'
      BY <1>t, <2>4 DEF Refuse, Return, BufferInv
    <3>3. VerdictInv'
      BY <1>t, <2>4 DEF Refuse, Return, VerdictInv, TagInv
    <3>4. CountInv'
      BY <1>t, <2>4 DEF Refuse, Return, CountInv, Owed, LockInv
    <3>5. ClosedInv'
      BY <1>t, <2>4 DEF Refuse, Return, ClosedInv, ReaderIdle
    <3>6. GhostInv'
      BY <1>t, <2>4 DEF Refuse, Return, GhostInv, TagInv
    <3>7. OneCallPerConfirm'
      BY <1>t, <2>4 DEF Refuse, Return, OneCallPerConfirm, GhostInv
    <3>8. HonestUntilAbandoned'
      BY <1>t, <2>4 DEF Refuse, Return, HonestUntilAbandoned
    <3>9. QED
      BY <1>t, <3>1, <3>2, <3>3, <3>4, <3>5, <3>6, <3>7, <3>8
  <2>5. CASE SendFails(c)
    <3>1. LockInv' /\ TagInv'
      BY <1>t, <2>5 DEF SendFails, Return, LockInv, TagInv
    <3>2. BufferInv'
      BY <1>t, <2>5 DEF SendFails, Return, BufferInv
    <3>3. VerdictInv'
      BY <1>t, <2>5 DEF SendFails, Return, VerdictInv, TagInv
    <3>4. CountInv'
      BY <1>t, <2>5 DEF SendFails, Return, CountInv, Owed, LockInv
    <3>5. ClosedInv'
      BY <1>t, <2>5 DEF SendFails, Return, ClosedInv, ReaderIdle
    <3>6. GhostInv'
      BY <1>t, <2>5 DEF SendFails, Return, GhostInv, TagInv
    <3>7. OneCallPerConfirm'
      BY <1>t, <2>5 DEF SendFails, Return, OneCallPerConfirm, GhostInv
    <3>8. HonestUntilAbandoned'
      BY <1>t, <2>5 DEF SendFails, Return, HonestUntilAbandoned
    <3>9. QED
      BY <1>t, <3>1, <3>2, <3>3, <3>4, <3>5, <3>6, <3>7, <3>8
  <2>6. CASE Send(c)
    <3>1. LockInv' /\ TagInv'
      BY <1>t, <2>6 DEF Send, LockInv, TagInv, VerdictInv
    <3>2. BufferInv'
      BY <1>t, <2>6 DEF Send, BufferInv
    <3>3. VerdictInv'
      BY <1>t, <2>6 DEF Send, VerdictInv, TagInv
    <3>4. CountInv'
      BY <1>t, <2>6 DEF Send, CountInv, Owed, LockInv
    <3>5. ClosedInv'
      BY <1>t, <2>6 DEF Send, ClosedInv, ReaderIdle
    <3>6. GhostInv'
      BY <1>t, <2>6 DEF Send, GhostInv, TagInv
    <3>7. OneCallPerConfirm'
      BY <1>t, <2>6 DEF Send, OneCallPerConfirm, GhostInv
    <3>8. HonestUntilAbandoned'
      BY <1>t, <2>6 DEF Send, HonestUntilAbandoned
    <3>9. QED
      BY <1>t, <3>1, <3>2, <3>3, <3>4, <3>5, <3>6, <3>7, <3>8
  <2>7. CASE SendUnconfirmed(c)
    <3>1. LockInv' /\ TagInv'
      BY <1>t, <2>7 DEF SendUnconfirmed, Return, LockInv, TagInv
    <3>2. BufferInv'
      BY <1>t, <2>7 DEF SendUnconfirmed, Return, BufferInv
    <3>3. VerdictInv'
      BY <1>t, <2>7 DEF SendUnconfirmed, Return, VerdictInv, TagInv
    <3>4. CountInv'
      BY <1>t, <2>7 DEF SendUnconfirmed, Return, CountInv, Owed, LockInv
    <3>5. ClosedInv'
      BY <1>t, <2>7 DEF SendUnconfirmed, Return, ClosedInv, ReaderIdle
    <3>6. GhostInv'
      BY <1>t, <2>7 DEF SendUnconfirmed, Return, GhostInv, TagInv
    <3>7. OneCallPerConfirm'
      BY <1>t, <2>7 DEF SendUnconfirmed, Return, OneCallPerConfirm, GhostInv
    <3>8. HonestUntilAbandoned'
      BY <1>t, <2>7 DEF SendUnconfirmed, Return, HonestUntilAbandoned
    <3>9. QED
      BY <1>t, <3>1, <3>2, <3>3, <3>4, <3>5, <3>6, <3>7, <3>8
  <2>8. CASE Receive(c)
    <3>1. /\ Head(confirmCh) = consumed + 1
          /\ consumed + 1 <= delivered
          /\ BufferInv'
      BY <2>8, TakeConfirm DEF Receive
    <3>2. consumed + 1 \in Tags /\ verdict[consumed + 1] # "none"
      BY <3>1 DEF BufferInv, VerdictInv
    <3>3. /\ tag[c] = sent /\ sent \in Tags
          /\ read' = [read EXCEPT ![sent] = consumed + 1]
          /\ reported' = [reported EXCEPT ![sent] =
                            IF verdict[consumed + 1] = "ack" THEN "ok" ELSE "nacked"]
      BY <2>8, <3>1 DEF Receive, TagInv
    <3>4. sent + stolen = consumed + 1 + abandoned
      BY <2>8 DEF Receive, CountInv, Owed, LockInv, TagInv
    <3>5. LockInv' /\ TagInv'
      BY <1>t, <2>8 DEF Receive, Return, LockInv, TagInv
    <3>6. BufferInv'
      BY <3>1
    <3>7. VerdictInv'
      BY <2>8, <3>3 DEF Receive, VerdictInv
    <3>8. CountInv'
      BY <1>t, <2>8, <3>4 DEF Receive, Return, CountInv, Owed
    <3>9. ClosedInv'
      BY <2>8 DEF Receive, ClosedInv, ReaderIdle
    <3>10. GhostInv'
      <4>1. abandoned' > 0 => \E u \in Tags : u <= sent' /\ reported'[u] = "cancelled"
        <5> SUFFICES ASSUME abandoned > 0
                     PROVE  \E u \in Tags : u <= sent /\ reported'[u] = "cancelled"
          BY <2>8 DEF Receive
        <5>1. PICK u \in Tags : u <= sent /\ reported[u] = "cancelled"
          BY DEF GhostInv
        <5>2. u # sent
          BY <2>8, <5>1 DEF Receive, TagInv
        <5>3. QED
          BY <3>3, <5>1, <5>2
      <4>2. \A t \in Tags : read'[t] <= consumed'
        <5> SUFFICES ASSUME NEW t \in Tags
                     PROVE  read'[t] <= consumed + 1
          BY <2>8 DEF Receive
        <5>1. read[t] \in Nat /\ read[t] <= consumed
          BY DEF GhostInv
        <5>2. read'[t] = IF t = sent THEN consumed + 1 ELSE read[t]
          BY <3>3
        <5>3. QED
          BY <5>1, <5>2
      <4>3. QED
        BY <2>8, <4>1, <4>2 DEF Receive, GhostInv
    <3>11. OneCallPerConfirm'
      <4> SUFFICES ASSUME NEW t \in Tags, NEW u \in Tags, t # u, read'[t] = read'[u]
                   PROVE  read'[t] = 0
        BY DEF OneCallPerConfirm
      <4>1. \A x \in Tags : read[x] # consumed + 1
        <5> SUFFICES ASSUME NEW x \in Tags
                     PROVE  read[x] # consumed + 1
          OBVIOUS
        <5>1. read[x] \in Nat /\ consumed \in Nat /\ read[x] <= consumed
          BY DEF GhostInv
        <5> HIDE DEF IInv, TypeOK
        <5>2. QED
          BY <5>1
      <4>2. /\ read'[t] = IF t = sent THEN consumed + 1 ELSE read[t]
            /\ read'[u] = IF u = sent THEN consumed + 1 ELSE read[u]
        BY <3>3
      <4>3. t # sent /\ u # sent
        <5> HIDE DEF IInv, TypeOK
        <5>1. QED
          BY <4>1, <4>2
      <4>4. QED
        BY <4>2, <4>3 DEF OneCallPerConfirm
    <3>12. HonestUntilAbandoned'
      <4> SUFFICES ASSUME ~NoConfirm, ~Monitor, NEW t \in Tags,
                          \A u \in 1..(t - 1) : reported'[u] # "cancelled"
                   PROVE  /\ reported'[t] = "ok" => verdict[t] = "ack"
                          /\ reported'[t] = "nacked" => verdict[t] = "nack" \/ chan = "closed"
        BY <2>8 DEF Receive, HonestUntilAbandoned
      <4>1. CASE t = sent
        <5>1. abandoned = 0
          <6> SUFFICES ASSUME abandoned > 0 PROVE FALSE
            OBVIOUS
          <6>1. PICK u \in Tags : u <= sent /\ reported[u] = "cancelled"
            BY DEF GhostInv
          <6>2. u # sent
            BY <2>8, <6>1 DEF Receive, TagInv
          <6>3. reported'[u] = "cancelled" /\ u \in 1..(t - 1)
            BY <3>3, <4>1, <6>1, <6>2
          <6>4. QED
            BY <6>3
        <5>2. consumed + 1 = t
          BY <3>4, <4>1, <5>1 DEF GhostInv
        <5>3. QED
          BY <3>2, <3>3, <4>1, <5>2
      <4>2. CASE t # sent
        <5>1. reported'[t] = reported[t]
          BY <3>3, <4>2
        <5>2. ASSUME NEW u \in 1..(t - 1) PROVE reported[u] # "cancelled"
          BY <3>3, <5>2, <2>8 DEF TagInv, Receive
        <5>3. QED
          BY <5>1, <5>2 DEF HonestUntilAbandoned
      <4>3. QED
        BY <4>1, <4>2
    <3>13. QED
      BY <1>t, <3>5, <3>6, <3>7, <3>8, <3>9, <3>10, <3>11, <3>12
  <2>9. CASE ReceiveClosed(c)
    <3>1. LockInv' /\ TagInv'
      BY <1>t, <2>9 DEF ReceiveClosed, Return, LockInv, TagInv
    <3>2. BufferInv'
      BY <1>t, <2>9 DEF ReceiveClosed, Return, BufferInv
    <3>3. VerdictInv'
      BY <1>t, <2>9 DEF ReceiveClosed, Return, VerdictInv, TagInv
    <3>4. CountInv'
      BY <1>t, <2>9 DEF ReceiveClosed, Return, CountInv, Owed, LockInv, TagInv, ClosedInv
    <3>5. ClosedInv'
      BY <1>t, <2>9 DEF ReceiveClosed, Return, ClosedInv, ReaderIdle
    <3>6. GhostInv'
      BY <1>t, <2>9 DEF ReceiveClosed, Return, GhostInv, TagInv
    <3>7. OneCallPerConfirm'
      BY <1>t, <2>9 DEF ReceiveClosed, Return, OneCallPerConfirm, GhostInv
    <3>8. HonestUntilAbandoned'
      BY <1>t, <2>9 DEF ReceiveClosed, Return, HonestUntilAbandoned, TagInv
    <3>9. QED
      BY <1>t, <3>1, <3>2, <3>3, <3>4, <3>5, <3>6, <3>7, <3>8
  <2>10. CASE CtxDone(c)
    <3>1. LockInv' /\ TagInv'
      BY <1>t, <2>10 DEF CtxDone, Return, LockInv, TagInv
    <3>2. BufferInv'
      BY <1>t, <2>10 DEF CtxDone, Return, BufferInv
    <3>3. VerdictInv'
      BY <1>t, <2>10 DEF CtxDone, Return, VerdictInv, TagInv
    <3>4. CountInv'
      BY <1>t, <2>10 DEF CtxDone, Return, CountInv, Owed, LockInv
    <3>5. ClosedInv'
      BY <1>t, <2>10 DEF CtxDone, Return, ClosedInv, ReaderIdle
    <3>6. GhostInv'
      BY <1>t, <2>10 DEF CtxDone, Return, GhostInv, TagInv
    <3>7. OneCallPerConfirm'
      BY <1>t, <2>10 DEF CtxDone, Return, OneCallPerConfirm, GhostInv
    <3>8. HonestUntilAbandoned'
      BY <1>t, <2>10 DEF CtxDone, Return, HonestUntilAbandoned
    <3>9. QED
      BY <1>t, <3>1, <3>2, <3>3, <3>4, <3>5, <3>6, <3>7, <3>8
  <2> HIDE DEF TypeOK
  <2>11. QED
    BY <1>3, <2>1, <2>2, <2>3, <2>4, <2>5, <2>6, <2>7, <2>8, <2>9, <2>10
       DEF CallerNext, Holding, Answered
<1>4. ASSUME NEW t \in Tags, NEW v \in {"ack", "nack"}, Verdict(t, v)
      PROVE  IInv'
  <2>1. LockInv' /\ TagInv'
    BY <1>t, <1>4 DEF Verdict, LockInv, TagInv
  <2>2. BufferInv'
    BY <1>t, <1>4 DEF Verdict, BufferInv
  <2>3. VerdictInv'
    BY <1>t, <1>4 DEF Verdict, VerdictInv, TagInv
  <2>4. CountInv'
    BY <1>t, <1>4 DEF Verdict, CountInv, Owed, LockInv
  <2>5. ClosedInv'
    BY <1>t, <1>4 DEF Verdict, ClosedInv, ReaderIdle
  <2>6. GhostInv'
    BY <1>t, <1>4 DEF Verdict, GhostInv, TagInv
  <2>7. OneCallPerConfirm'
    BY <1>t, <1>4 DEF Verdict, OneCallPerConfirm, GhostInv
  <2>8. HonestUntilAbandoned'
    <3>1. /\ UNCHANGED <<mode, chan, reported>>
          /\ \A u \in Tags : verdict[u] # "none" => verdict'[u] = verdict[u]
      BY <1>4 DEF Verdict
    <3> HIDE DEF TypeOK
    <3>2. QED
      BY <3>1 DEF HonestUntilAbandoned
  <2>9. QED
    BY <1>t, <2>1, <2>2, <2>3, <2>4, <2>5, <2>6, <2>7, <2>8
<1>5. CASE Deliver
  <2>1. LockInv' /\ TagInv'
    BY <1>t, <1>5 DEF Deliver, ReaderIdle, LockInv, TagInv
  <2>2. BufferInv'
    BY <1>5, PutConfirm
  <2>3. VerdictInv'
    <3>1. verdict[delivered + 1] # "none" /\ delivered' = delivered + 1
      BY <1>5 DEF Deliver, ReaderIdle
    <3>2. \A t \in Tags : t <= delivered' => t <= delivered \/ t = delivered + 1
      BY <3>1
    <3>3. UNCHANGED <<mode, sent, verdict, reported>>
      BY <1>5 DEF Deliver
    <3>4. QED
      BY <3>1, <3>2, <3>3 DEF VerdictInv
  <2>4. CountInv'
    BY <1>t, <1>5 DEF Deliver, ReaderIdle, CountInv, Owed, LockInv
  <2>5. ClosedInv'
    BY <1>t, <1>5 DEF Deliver, ReaderIdle, ClosedInv, ReaderIdle
  <2>6. GhostInv'
    BY <1>t, <1>5 DEF Deliver, ReaderIdle, GhostInv, TagInv
  <2>7. OneCallPerConfirm'
    BY <1>t, <1>5 DEF Deliver, ReaderIdle, OneCallPerConfirm, GhostInv
  <2>8. HonestUntilAbandoned'
    BY <1>t, <1>5 DEF Deliver, ReaderIdle, HonestUntilAbandoned
  <2>9. QED
    BY <1>t, <2>1, <2>2, <2>3, <2>4, <2>5, <2>6, <2>7, <2>8
<1>6. CASE MonitorReads
  <2>1. LockInv' /\ TagInv'
    BY <1>t, <1>6 DEF MonitorReads, LockInv, TagInv
  <2>2. BufferInv'
    BY <1>6, TakeConfirm DEF MonitorReads
  <2>3. VerdictInv'
    BY <1>t, <1>6 DEF MonitorReads, VerdictInv, TagInv
  <2>4. CountInv'
    BY <1>t, <1>6 DEF MonitorReads, CountInv, Owed, LockInv
  <2>5. ClosedInv'
    BY <1>t, <1>6 DEF MonitorReads, ClosedInv, ReaderIdle
  <2>6. GhostInv'
    BY <1>t, <1>6 DEF MonitorReads, GhostInv, TagInv
  <2>7. OneCallPerConfirm'
    BY <1>t, <1>6 DEF MonitorReads, OneCallPerConfirm, GhostInv
  <2>8. HonestUntilAbandoned'
    BY <1>t, <1>6 DEF MonitorReads, HonestUntilAbandoned
  <2>9. QED
    BY <1>t, <2>1, <2>2, <2>3, <2>4, <2>5, <2>6, <2>7, <2>8
<1>7. CASE Close
  <2>1. LockInv' /\ TagInv'
    BY <1>t, <1>7 DEF Close, LockInv, TagInv
  <2>2. BufferInv'
    BY <1>t, <1>7 DEF Close, BufferInv
  <2>3. VerdictInv'
    BY <1>t, <1>7 DEF Close, VerdictInv, TagInv
  <2>4. CountInv'
    BY <1>t, <1>7 DEF Close, CountInv, Owed, LockInv, TagInv, ClosedInv
  <2>5. ClosedInv'
    BY <1>t, <1>7 DEF Close, ClosedInv, ReaderIdle
  <2>6. GhostInv'
    BY <1>t, <1>7 DEF Close, GhostInv, TagInv
  <2>7. OneCallPerConfirm'
    BY <1>t, <1>7 DEF Close, OneCallPerConfirm, GhostInv
  <2>8. HonestUntilAbandoned'
    BY <1>t, <1>7 DEF Close, HonestUntilAbandoned
  <2>9. QED
    BY <1>t, <2>1, <2>2, <2>3, <2>4, <2>5, <2>6, <2>7, <2>8
<1>8. CASE Lose
  <2>1. LockInv' /\ TagInv'
    BY <1>t, <1>8 DEF Lose, LockInv, TagInv
  <2>2. BufferInv'
    BY <1>t, <1>8 DEF Lose, BufferInv
  <2>3. VerdictInv'
    BY <1>t, <1>8 DEF Lose, VerdictInv, TagInv
  <2>4. CountInv'
    BY <1>t, <1>8 DEF Lose, CountInv, Owed, LockInv, TagInv, ClosedInv
  <2>5. ClosedInv'
    BY <1>t, <1>8 DEF Lose, ClosedInv, ReaderIdle
  <2>6. GhostInv'
    BY <1>t, <1>8 DEF Lose, GhostInv, TagInv
  <2>7. OneCallPerConfirm'
    BY <1>t, <1>8 DEF Lose, OneCallPerConfirm, GhostInv
  <2>8. HonestUntilAbandoned'
    BY <1>t, <1>8 DEF Lose, HonestUntilAbandoned
  <2>9. QED
    BY <1>t, <2>1, <2>2, <2>3, <2>4, <2>5, <2>6, <2>7, <2>8
<1>9. CASE UNCHANGED vars
  <2>1. LockInv' /\ TagInv'
    BY <1>9 DEF vars, LockInv, TagInv
  <2>2. BufferInv' /\ VerdictInv'
    BY <1>9 DEF vars, BufferInv, VerdictInv
  <2>3. CountInv' /\ ClosedInv'
    BY <1>9 DEF vars, CountInv, ClosedInv, Owed, ReaderIdle
  <2>4. GhostInv' /\ OneCallPerConfirm'
    BY <1>9 DEF vars, GhostInv, OneCallPerConfirm
  <2>5. HonestUntilAbandoned'
    BY <1>9 DEF vars, HonestUntilAbandoned
  <2>6. QED
    BY <1>t, <2>1, <2>2, <2>3, <2>4, <2>5
<1>10. QED
  BY <1>1, <1>2, <1>3, <1>4, <1>5, <1>6, <1>7, <1>8, <1>9
     DEF Next, BrokerAnswers

(* The inductive invariant holds in every reachable state.                 *)
THEOREM Invariance == Spec => []IInv
BY InitIInv, NextIInv, PTL DEF Spec

(* Until a call is abandoned, every call answers for its own message.      *)
THEOREM Honesty == Spec => []HonestUntilAbandoned
<1>1. IInv => HonestUntilAbandoned
  BY DEF IInv
<1>2. QED
  BY <1>1, Invariance, PTL

(* No confirmation is ever used for two calls.                             *)
THEOREM OneCall == Spec => []OneCallPerConfirm
<1>1. IInv => OneCallPerConfirm
  BY DEF IInv
<1>2. QED
  BY <1>1, Invariance, PTL

(* A publisher stalls its connection only after ConfirmCap abandoned calls. *)
THEOREM Stall == Spec => []StallNeedsAbandons
<1>1. IInv => StallNeedsAbandons
  <2> SUFFICES ASSUME IInv, ReaderBlocked
               PROVE  /\ abandoned >= ConfirmCap
                      /\ (\A c \in Callers : pc[c] # "waiting") => abandoned > ConfirmCap
    BY DEF StallNeedsAbandons
  <2>1. /\ sent \in Nat /\ consumed \in Nat /\ stolen \in Nat /\ abandoned \in Nat
        /\ delivered \in Nat /\ ConfirmCap \in Nat /\ Len(confirmCh) = ConfirmCap
        /\ delivered < sent /\ delivered = consumed + ConfirmCap
    BY BoundsAssumption DEF IInv, TypeOK, BufferInv, ReaderBlocked, ReaderIdle
  <2>2. chan # "closed" /\ Waits
    BY BoundsAssumption, <2>1
       DEF IInv, TypeOK, ClosedInv, VerdictInv, ReaderBlocked, ReaderIdle, Waits, NoConfirm, Tags
  <2>3. sent + stolen = consumed + abandoned + Owed
    BY <2>2 DEF IInv, CountInv
  <2>4. Owed \in {0, 1} /\ ((\A c \in Callers : pc[c] # "waiting") => Owed = 0)
    BY DEF Owed
  <2>5. QED
    BY <2>1, <2>3, <2>4
<1>2. QED
  BY <1>1, Invariance, PTL

(* Each abandoned call shifts the answers of all later calls by one.       *)
THEOREM Drift == Spec => ReadsLag
<1>1. IInv /\ [Next]_vars =>
        [\A c \in Callers : Receive(c) =>
            Head(confirmCh) = tag[c] - (abandoned - stolen)]_vars
  <2> SUFFICES ASSUME IInv, NEW c \in Callers, Receive(c)
               PROVE  Head(confirmCh) = tag[c] - (abandoned - stolen)
    OBVIOUS
  <2>1. Head(confirmCh) = consumed + 1
    BY TakeConfirm DEF IInv, Receive
  <2>2. Owed = 1 /\ Waits /\ tag[c] = sent
    BY DEF IInv, LockInv, TagInv, Receive, Owed
  <2>3. sent + stolen = consumed + abandoned + 1
    BY <2>2 DEF IInv, CountInv
  <2>4. QED
    BY <2>1, <2>2, <2>3, BoundsAssumption DEF IInv, TypeOK
<1>2. QED
  BY <1>1, Invariance, PTL DEF Spec, ReadsLag

-----------------------------------------------------------------------------
(* What the refinement needs besides IInv: every message but the one a     *)
(* call is waiting for has been reported.                                  *)
ReportedInv ==
    \A t \in Tags : t <= sent /\ (t # sent \/ Owed = 0) => reported[t] # "none"

(* Only the message a call is waiting for is unreported.                   *)
LEMMA Reporting == Spec => []ReportedInv
<1> USE CallersAssumption, BoundsAssumption
<1>1. Init => ReportedInv
  BY DEF Init, ReportedInv, Tags
<1>2. IInv /\ ReportedInv /\ [Next]_vars => ReportedInv'
  <2> SUFFICES ASSUME IInv, ReportedInv, [Next]_vars
               PROVE  ReportedInv'
    OBVIOUS
  <2> USE DEF ReportedInv, Owed, callVars, linkVars, reportVars
  <2>1. ASSUME NEW c \in Callers, CallerNext(c)
        PROVE  ReportedInv'
    <3>1. CASE \/ \E k \in {"publish", "raw"} : Call(c, k)
               \/ Cancel(c) \/ Lock(c) \/ Refuse(c) \/ SendFails(c)
      BY <3>1 DEF Call, Cancel, Lock, Refuse, SendFails, Return, IInv, TypeOK, LockInv
    <3>2. CASE Send(c)
      BY <3>2 DEF Send, IInv, TypeOK, LockInv, Tags
    <3>3. CASE SendUnconfirmed(c)
      BY <3>3 DEF SendUnconfirmed, Return, IInv, TypeOK, LockInv, Tags
    <3>4. CASE Answered(c) \/ CtxDone(c)
      <4>1. tag[c] = sent /\ sent \in Tags /\ sent' = sent
        BY <3>4 DEF Answered, Receive, ReceiveClosed, CtxDone, IInv, TagInv
      <4>2. \E o \in Outcomes : reported' = [reported EXCEPT ![sent] = o]
        BY <3>4, <4>1 DEF Answered, Receive, ReceiveClosed, CtxDone, Outcomes
      <4>3. QED
        BY <4>1, <4>2 DEF IInv, TypeOK, Outcomes, Tags
    <3>5. QED
      BY <2>1, <3>1, <3>2, <3>3, <3>4 DEF CallerNext, Holding
  <2>2. CASE UNCHANGED <<sent, mu, pc, reported>>
    BY <2>2
  <2>3. QED
    BY <2>1, <2>2 DEF Next, BrokerAnswers, Setup, SetupFails, Verdict, Deliver,
         MonitorReads, Close, Lose, vars
<1>3. QED
  BY <1>1, <1>2, Invariance, PTL DEF Spec

(* Publisher implements the contract of PublishContract, whatever its      *)
(* options and its callers: until a caller gives up or a monitor reads,    *)
(* nil means that very message was acked, and messages are answered for    *)
(* one by one.                                                             *)
THEOREM Refinement == Spec => ImplementsContract
<1> USE CallersAssumption, BoundsAssumption
<1> DEFINE V == NoConfirm \/ abandoned > 0 \/ stolen > 0
<1>1. Init => Contract!Init
  BY DEF Init, Contract!Init, Tags
<1>2. IInv /\ IInv' /\ ReportedInv /\ [Next]_vars =>
        [Contract!Next]_(Contract!contractVars)
  <2> SUFFICES ASSUME IInv, ReportedInv, [Next]_vars
               PROVE  [Contract!Next]_(Contract!contractVars)
    OBVIOUS
  <2> USE DEF Contract!contractVars, callVars, linkVars, reportVars
  <2>0. mode' = mode /\ (NoConfirm <=> NoConfirm')
    BY DEF Next, CallerNext, Holding, Answered, BrokerAnswers, Setup, SetupFails, Call,
         Cancel, Lock, Refuse, SendFails, Send, SendUnconfirmed, Receive, ReceiveClosed,
         CtxDone, Verdict, Deliver, MonitorReads, Close, Lose, NoConfirm, vars
  <2>1. CASE Setup \/ Deliver \/ Lose \/ UNCHANGED vars
    BY <2>0, <2>1 DEF Setup, Deliver, Lose, vars
  <2>2. CASE Close \/ \E f \in Faults : SetupFails(f)
    BY <2>0, <2>2 DEF Close, SetupFails, EndState, IInv, ClosedInv,
         Contract!Next, Contract!LoseLink
  <2>3. ASSUME NEW t \in Tags, NEW v \in {"ack", "nack"}, Verdict(t, v)
        PROVE  Contract!Decide(t, v)
    BY <2>0, <2>3 DEF Verdict, Contract!Decide
  <2>4. CASE MonitorReads
    <3>1. Contract!TakeAnswer
      BY <2>4 DEF MonitorReads, Contract!TakeAnswer, IInv, TypeOK
    <3>2. QED
      BY <3>1 DEF Contract!Next
  <2>5. ASSUME NEW c \in Callers, CallerNext(c)
        PROVE  [Contract!Next]_(Contract!contractVars)
    <3>1. CASE \/ \E k \in {"publish", "raw"} : Call(c, k)
               \/ Cancel(c) \/ Lock(c) \/ Refuse(c) \/ SendFails(c)
      BY <2>0, <3>1 DEF Call, Cancel, Lock, Refuse, SendFails
    <3>2. CASE Send(c)
      <4>1. Owed = 0
        BY <3>2 DEF Send, IInv, LockInv, Owed
      <4>2. \A t \in 1..sent : reported[t] # "none"
        BY <4>1 DEF ReportedInv, IInv, TypeOK, Tags
      <4>3. Contract!Accept
        BY <2>0, <3>2, <4>2 DEF Send, Contract!Accept
      <4>4. QED
        BY <4>3 DEF Contract!Next
    <3>3. CASE SendUnconfirmed(c)
      <4>1. V /\ V'
        BY <2>0, <3>3 DEF SendUnconfirmed, Waits, NoConfirm
      <4>2. Contract!Void
        BY <4>1 DEF Contract!Void
      <4>3. QED
        BY <4>2 DEF Contract!Next
    <3>4. CASE Receive(c) /\ V
      <4>1. V'
        BY <2>0, <3>4 DEF Receive
      <4>2. Contract!Void
        BY <3>4, <4>1 DEF Contract!Void
      <4>3. QED
        BY <4>2 DEF Contract!Next
    <3>5. CASE Receive(c) /\ ~V
      <4>1. Head(confirmCh) = consumed + 1 /\ consumed + 1 <= delivered
        BY <3>5, TakeConfirm DEF Receive, IInv
      <4>2. /\ tag[c] = sent /\ sent \in Tags /\ reported[sent] = "none"
            /\ sent + stolen = consumed + abandoned + 1
        BY <3>5 DEF Receive, IInv, TagInv, CountInv, LockInv, Owed
      <4>3. Head(confirmCh) = sent
        BY <3>5, <4>1, <4>2 DEF IInv, TypeOK
      <4>4. verdict[sent] \in {"ack", "nack"}
        BY <4>1, <4>2, <4>3 DEF IInv, TypeOK, VerdictInv
      <4>5. /\ reported' = [reported EXCEPT ![sent] =
                              IF verdict[sent] = "ack" THEN "ok" ELSE "nacked"]
            /\ UNCHANGED <<sent, verdict, chan, abandoned, stolen>>
        BY <3>5, <4>2, <4>3 DEF Receive
      <4>6. CASE verdict[sent] = "ack"
        <5>1. Contract!Report(sent, "ok")
          BY <2>0, <4>2, <4>5, <4>6 DEF Contract!Report, IInv, TypeOK
        <5>2. QED
          BY <4>2, <5>1 DEF Contract!Next, Tags
      <4>7. CASE verdict[sent] = "nack"
        <5>1. Contract!Report(sent, "nacked")
          BY <2>0, <4>2, <4>5, <4>7 DEF Contract!Report, IInv, TypeOK
        <5>2. QED
          BY <4>2, <5>1 DEF Contract!Next, Tags
      <4>8. QED
        BY <4>4, <4>6, <4>7
    <3>6. CASE ReceiveClosed(c)
      <4>1. tag[c] = sent /\ sent \in Tags /\ reported[sent] = "none"
        BY <3>6 DEF ReceiveClosed, IInv, TagInv
      <4>2. Contract!Report(sent, "nacked")
        BY <2>0, <3>6, <4>1 DEF ReceiveClosed, Contract!Report, IInv, TypeOK, Tags
      <4>3. QED
        BY <4>1, <4>2 DEF Contract!Next, Tags
    <3>7. CASE CtxDone(c)
      <4>1. tag[c] = sent /\ sent \in Tags /\ reported[sent] = "none"
        BY <3>7 DEF CtxDone, IInv, TagInv
      <4>2. abandoned' > 0
        BY <3>7 DEF CtxDone, IInv, TypeOK
      <4>3. Contract!GiveUp(sent)
        BY <3>7, <4>1, <4>2 DEF CtxDone, Contract!GiveUp, IInv, TypeOK, Tags
      <4>4. QED
        BY <4>1, <4>3 DEF Contract!Next, Tags
    <3>8. QED
      BY <2>5, <3>1, <3>2, <3>3, <3>4, <3>5, <3>6, <3>7
         DEF CallerNext, Holding, Answered
  <2>6. QED
    BY <2>1, <2>2, <2>3, <2>4, <2>5 DEF Next, BrokerAnswers, Contract!Next, Tags
<1>3. QED
  BY <1>1, <1>2, Invariance, Reporting, PTL
     DEF Spec, ImplementsContract, Contract!Spec
=============================================================================
