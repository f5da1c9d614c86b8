----------------------------- MODULE Publisher -----------------------------
(***************************************************************************)
(* One Publisher (setup_publisher.go), shared by several goroutines, with  *)
(* the outbox adapter on top of it (outbox_adapter.go) and the AMQP        *)
(* library and broker below it.                                            *)
(*                                                                         *)
(* Publish and PublishRaw take the publisher's mutex, hand one message to  *)
(* the AMQP channel and, still holding the mutex, wait in a select for     *)
(* either ONE value from confirmCh or the end of the caller's context.     *)
(* Neither looks at the DeliveryTag of the confirmation it reads, and a    *)
(* call that leaves through ctx.Done() leaves its confirmation behind.     *)
(*                                                                         *)
(* Messages are named by their delivery tag: the library numbers the       *)
(* publishings of a channel 1, 2, 3, ...                                   *)
(***************************************************************************)
EXTENDS Integers, Sequences

CONSTANTS
    Callers,      \* goroutines that call Publish or PublishRaw
    NoCaller,     \* p.mu is free
    Cancellable,  \* callers whose ctx can be cancelled or has a deadline
    Modes,        \* the options the publisher may have been made with
    ConfirmCap,   \* capacity of confirmCh: 1, or that of WithConfirm's channel
    Faults,       \* ways the AMQP channel may end: "graceful", "abnormal"
    MaxMsgs       \* bound: messages handed to the channel

ASSUME CallersAssumption ==
    /\ NoCaller \notin Callers
    /\ Cancellable \subseteq Callers
ASSUME OptionsAssumption ==
    /\ Modes \subseteq {"confirm", "monitored", "none", "both"}
    /\ Faults \subseteq {"graceful", "abnormal"}
ASSUME BoundsAssumption == ConfirmCap \in Nat \ {0} /\ MaxMsgs \in Nat

VARIABLES
    mode,       \* the options of this publisher, one of Modes
    wired,      \* p.channel # nil: setup has run
    chan,       \* the AMQP channel: "open", "dead" or "closed"
    mu,         \* holder of p.mu
    pc,         \* where each caller is
    kind,       \* which of the two entry points it called
    ctxDone,    \* its context has ended
    tag,        \* delivery tag of the message its call published
    sent,       \* number of messages handed to the channel
    verdict,    \* the broker's ack or nack of each message, once read
    delivered,  \* confirmations the library has put into confirmCh
    confirmCh,  \* the buffered confirmations, by delivery tag
    consumed,   \* confirmations received from confirmCh, by anyone
    stolen,     \* ... of which by the monitor
    abandoned,  \* calls that left through ctx.Done() after publishing
    reported,   \* what the call that published a message returned
    read        \* the confirmation that call had read; 0 = none

callVars == <<mu, pc, kind, ctxDone, tag>>
linkVars == <<verdict, delivered, confirmCh, consumed, stolen>>
reportVars == <<abandoned, reported, read>>
vars == <<mode, wired, chan, sent, callVars, linkVars, reportVars>>

Tags == 1..MaxMsgs
Outcomes == {"ok", "nacked", "cancelled"}

(* The options: none given, or WithConfirm(ch) with ch left to Publish;    *)
(* WithConfirm(ch) and an application goroutine that ranges over ch too;   *)
(* WithoutPublisherConfirms(); that and WithConfirm(ch).                   *)
Monitor == mode = "monitored"
NoConfirm == mode \in {"none", "both"}

(* Mutant: the two options mixed up.                                       *)
WaitsUnlessConfirmed == mode = "both"

(* Publish waits for a confirmation whenever p.confirmCh # nil, but only a *)
(* publisher without WithoutPublisherConfirms() puts its channel into      *)
(* confirm mode and registers confirmCh with NotifyPublish.                *)
Waits == mode # "none"

(* The connection's reader goroutine hands confirmations to confirmCh one  *)
(* by one and in order; it is busy while it has one to hand over.          *)
ReaderIdle == delivered < sent => verdict[delivered + 1] = "none"

(* Busy with a full confirmCh, the reader blocks in the channel send, and  *)
(* with it every frame for every channel of the connection.                *)
ReaderBlocked == ~ReaderIdle /\ Len(confirmCh) = ConfirmCap

-----------------------------------------------------------------------------
Init ==
    /\ mode \in Modes
    /\ wired = FALSE
    /\ chan = "open"
    /\ mu = NoCaller
    /\ pc = [c \in Callers |-> "idle"]
    /\ kind = [c \in Callers |-> "none"]
    /\ ctxDone = [c \in Callers |-> FALSE]
    /\ tag = [c \in Callers |-> 0]
    /\ sent = 0
    /\ verdict = [t \in Tags |-> "none"]
    /\ delivered = 0
    /\ confirmCh = <<>>
    /\ consumed = 0
    /\ stolen = 0
    /\ abandoned = 0
    /\ reported = [t \in Tags |-> "none"]
    /\ read = [t \in Tags |-> 0]

(* A Setup function wires the publisher to its own AMQP channel.           *)
Setup ==
    /\ ~wired
    /\ wired' = TRUE
    /\ UNCHANGED <<mode, chan, sent, callVars, linkVars, reportVars>>

EndState(f) == IF f = "graceful" THEN "closed" ELSE "dead"

(* Confirm(false) fails when the channel has ended meanwhile. p.channel    *)
(* and p.confirmCh are already set by then.                                *)
SetupFails(f) ==
    /\ ~wired
    /\ ~NoConfirm
    /\ wired' = TRUE
    /\ chan' = EndState(f)
    /\ UNCHANGED <<mode, sent, callVars, linkVars, reportVars>>

-----------------------------------------------------------------------------
(* A goroutine enters Publish (k = "publish") or PublishRaw (k = "raw").   *)
Call(c, k) ==
    /\ pc[c] = "idle"
    /\ pc' = [pc EXCEPT ![c] = "locking"]
    /\ kind' = [kind EXCEPT ![c] = k]
    /\ UNCHANGED <<mode, wired, chan, sent, mu, ctxDone, tag, linkVars, reportVars>>

(* The caller's context ends: cancelled, or its deadline passes.           *)
Cancel(c) ==
    /\ c \in Cancellable
    /\ pc[c] \in {"locking", "locked", "waiting"}
    /\ ~ctxDone[c]
    /\ ctxDone' = [ctxDone EXCEPT ![c] = TRUE]
    /\ UNCHANGED <<mode, wired, chan, sent, mu, pc, kind, tag, linkVars, reportVars>>

(* Mutant: no mutex.                                                       *)
LockWithoutMutex(c) ==
    /\ pc[c] = "locking"
    /\ mu' = c
    /\ pc' = [pc EXCEPT ![c] = "locked"]
    /\ UNCHANGED <<mode, wired, chan, sent, kind, ctxDone, tag, linkVars, reportVars>>

(* p.mu.Lock(), which does not look at the context.                        *)
Lock(c) ==
    /\ pc[c] = "locking"
    /\ mu = NoCaller
    /\ mu' = c
    /\ pc' = [pc EXCEPT ![c] = "locked"]
    /\ UNCHANGED <<mode, wired, chan, sent, kind, ctxDone, tag, linkVars, reportVars>>

(* The call ends and the deferred p.mu.Unlock() runs.                      *)
Return(c) ==
    /\ mu' = NoCaller
    /\ pc' = [pc EXCEPT ![c] = "idle"]
    /\ kind' = [kind EXCEPT ![c] = "none"]
    /\ ctxDone' = [ctxDone EXCEPT ![c] = FALSE]
    /\ tag' = [tag EXCEPT ![c] = 0]

(* The call ends before anything is sent. Publish refuses a reserved       *)
(* header key or a payload that does not marshal; on an unwired publisher  *)
(* PublishRaw returns an error and Publish panics on its nil channel, and  *)
(* the mutex is released while the panic unwinds.                          *)
Refuse(c) ==
    /\ pc[c] = "locked"
    /\ kind[c] = "publish" \/ ~wired
    /\ Return(c)
    /\ UNCHANGED <<mode, wired, chan, sent, linkVars, reportVars>>

(* Mutant: the failed call is retried, without end.                        *)
SendRetries(c) ==
    /\ pc[c] = "locked"
    /\ wired
    /\ mu' = NoCaller
    /\ pc' = [pc EXCEPT ![c] = "locking"]
    /\ UNCHANGED <<mode, wired, chan, sent, kind, ctxDone, tag, linkVars, reportVars>>

(* Mutant: a delivery tag is given back that was never taken.              *)
SendFailsTwice(c) ==
    /\ pc[c] = "locked"
    /\ wired
    /\ sent' = sent - 1
    /\ Return(c)
    /\ UNCHANGED <<mode, wired, chan, linkVars, reportVars>>

(* PublishWithContext fails (I/O error, or the channel has ended): the     *)
(* library takes the delivery tag back and the call returns the error. On  *)
(* a dead channel it may, but need not: see CodeFairness.                  *)
SendFails(c) ==
    /\ pc[c] = "locked"
    /\ wired
    /\ Return(c)
    /\ UNCHANGED <<mode, wired, chan, sent, linkVars, reportVars>>

(* PublishWithContext succeeds and there is a confirmCh to wait on.        *)
Send(c) ==
    /\ pc[c] = "locked"
    /\ wired
    /\ Waits
    /\ chan = "open"
    /\ sent < MaxMsgs
    /\ sent' = sent + 1
    /\ tag' = [tag EXCEPT ![c] = sent + 1]
    /\ pc' = [pc EXCEPT ![c] = "waiting"]
    /\ UNCHANGED <<mode, wired, chan, mu, kind, ctxDone, linkVars, reportVars>>

(* ... or there is none, and the call returns nil at once.                 *)
SendUnconfirmed(c) ==
    /\ pc[c] = "locked"
    /\ wired
    /\ ~Waits
    /\ chan = "open"
    /\ sent < MaxMsgs
    /\ sent' = sent + 1
    /\ reported' = [reported EXCEPT ![sent + 1] = "ok"]
    /\ Return(c)
    /\ UNCHANGED <<mode, wired, chan, linkVars, abandoned, read>>

(* Mutant: confirm.Ack is not looked at.                                   *)
ReceiveIgnoresAck(c) ==
    /\ pc[c] = "waiting"
    /\ confirmCh # <<>>
    /\ confirmCh' = Tail(confirmCh)
    /\ consumed' = consumed + 1
    /\ read' = [read EXCEPT ![tag[c]] = Head(confirmCh)]
    /\ reported' = [reported EXCEPT ![tag[c]] = "ok"]
    /\ Return(c)
    /\ UNCHANGED <<mode, wired, chan, sent, verdict, delivered, stolen, abandoned>>

(* Mutant: a call looks at the next confirmation and leaves it there.      *)
ReceivePeeks(c) ==
    /\ pc[c] = "waiting"
    /\ confirmCh # <<>>
    /\ read' = [read EXCEPT ![tag[c]] = Head(confirmCh)]
    /\ reported' = [reported EXCEPT ![tag[c]] =
                      IF verdict[Head(confirmCh)] = "ack" THEN "ok" ELSE "nacked"]
    /\ Return(c)
    /\ UNCHANGED <<mode, wired, chan, sent, linkVars, abandoned>>

(* case confirm := <-p.confirmCh, whichever message it is about.           *)
Receive(c) ==
    /\ pc[c] = "waiting"
    /\ confirmCh # <<>>
    /\ confirmCh' = Tail(confirmCh)
    /\ consumed' = consumed + 1
    /\ read' = [read EXCEPT ![tag[c]] = Head(confirmCh)]
    /\ reported' = [reported EXCEPT ![tag[c]] =
                      IF verdict[Head(confirmCh)] = "ack" THEN "ok" ELSE "nacked"]
    /\ Return(c)
    /\ UNCHANGED <<mode, wired, chan, sent, verdict, delivered, stolen, abandoned>>

(* The same case on a closed and drained confirmCh: the zero Confirmation  *)
(* has Ack = false.                                                        *)
ReceiveClosed(c) ==
    /\ pc[c] = "waiting"
    /\ ~NoConfirm
    /\ chan = "closed"
    /\ confirmCh = <<>>
    /\ reported' = [reported EXCEPT ![tag[c]] = "nacked"]
    /\ Return(c)
    /\ UNCHANGED <<mode, wired, chan, sent, linkVars, abandoned, read>>

(* Mutant: the ctx.Done() case returns with the mutex locked.              *)
CtxDoneKeepsMutex(c) ==
    /\ pc[c] = "waiting"
    /\ ctxDone[c]
    /\ abandoned' = abandoned + 1
    /\ reported' = [reported EXCEPT ![tag[c]] = "cancelled"]
    /\ pc' = [pc EXCEPT ![c] = "idle"]
    /\ ctxDone' = [ctxDone EXCEPT ![c] = FALSE]
    /\ UNCHANGED <<mode, wired, chan, sent, mu, kind, tag, linkVars, read>>

(* case <-ctx.Done(). Go's select takes it even if a confirmation is       *)
(* there; either way the confirmation of this message stays to be read.    *)
CtxDone(c) ==
    /\ pc[c] = "waiting"
    /\ ctxDone[c]
    /\ abandoned' = abandoned + 1
    /\ reported' = [reported EXCEPT ![tag[c]] = "cancelled"]
    /\ Return(c)
    /\ UNCHANGED <<mode, wired, chan, sent, linkVars, read>>

-----------------------------------------------------------------------------
(* The library and the broker. The broker answers in any order; the reader *)
(* goroutine takes an answer off the connection only when it is not busy.  *)
Verdict(t, v) ==
    /\ ~NoConfirm
    /\ chan \in {"open", "dead"}
    /\ ReaderIdle
    /\ t <= sent
    /\ verdict[t] = "none"
    /\ verdict' = [verdict EXCEPT ![t] = v]
    /\ UNCHANGED <<mode, wired, chan, sent, callVars, delivered, confirmCh, consumed, stolen, reportVars>>

Deliver ==
    /\ ~ReaderIdle
    /\ Len(confirmCh) < ConfirmCap
    /\ confirmCh' = Append(confirmCh, delivered + 1)
    /\ delivered' = delivered + 1
    /\ UNCHANGED <<mode, wired, chan, sent, callVars, verdict, consumed, stolen, reportVars>>

(* The goroutine docs/publishers.md shows for WithConfirm: it ranges over  *)
(* the channel that Publish receives from.                                 *)
MonitorReads ==
    /\ Monitor
    /\ confirmCh # <<>>
    /\ confirmCh' = Tail(confirmCh)
    /\ consumed' = consumed + 1
    /\ stolen' = stolen + 1
    /\ UNCHANGED <<mode, wired, chan, sent, callVars, verdict, delivered, reportVars>>

(* The application closes the connection: the library closes confirmCh     *)
(* once its reader no longer holds the lock on the listeners.              *)
Close ==
    /\ "graceful" \in Faults
    /\ wired
    /\ chan = "open"
    /\ ReaderIdle
    /\ chan' = "closed"
    /\ UNCHANGED <<mode, wired, sent, callVars, linkVars, reportVars>>

(* The channel or the connection fails. The library first reports the      *)
(* error to every NotifyClose listener: amqpConn.channel registered an     *)
(* unbuffered one that nobody reads, so it never gets to close confirmCh.  *)
Lose ==
    /\ "abnormal" \in Faults
    /\ wired
    /\ chan = "open"
    /\ chan' = "dead"
    /\ UNCHANGED <<mode, wired, sent, callVars, linkVars, reportVars>>

-----------------------------------------------------------------------------
Holding(c) == Refuse(c) \/ SendFails(c) \/ Send(c) \/ SendUnconfirmed(c)

Answered(c) == Receive(c) \/ ReceiveClosed(c)

CallerNext(c) ==
    \/ \E k \in {"publish", "raw"} : Call(c, k)
    \/ Cancel(c)
    \/ Lock(c)
    \/ Holding(c)
    \/ Answered(c)
    \/ CtxDone(c)

BrokerAnswers == \E t \in Tags, v \in {"ack", "nack"} : Verdict(t, v)

Next ==
    \/ Setup
    \/ \E f \in Faults : SetupFails(f)
    \/ \E c \in Callers : CallerNext(c)
    \/ BrokerAnswers
    \/ Deliver
    \/ MonitorReads
    \/ Close
    \/ Lose

Spec == Init /\ [][Next]_vars

(* What the Go runtime and the library guarantee: a goroutine that can run *)
(* runs, sync.Mutex starves nobody, the reader goroutine goes on. Nothing  *)
(* says that PublishWithContext returns on a dead channel: the library is  *)
(* stuck in the shutdown of that channel, before it lets go of what the    *)
(* publish may need, and the call holds p.mu and has no eye on its ctx.    *)
CodeFairness ==
    /\ \A c \in Callers : /\ SF_vars(Lock(c))
                          /\ WF_vars(Holding(c) /\ chan # "dead")
                          /\ WF_vars(Answered(c) \/ CtxDone(c))
    /\ WF_vars(Deliver)
    /\ WF_vars(MonitorReads)

FairSpec == Spec /\ CodeFairness

-----------------------------------------------------------------------------
TypeOK ==
    /\ mode \in Modes
    /\ wired \in BOOLEAN
    /\ chan \in {"open", "dead", "closed"}
    /\ mu \in Callers \cup {NoCaller}
    /\ pc \in [Callers -> {"idle", "locking", "locked", "waiting"}]
    /\ kind \in [Callers -> {"none", "publish", "raw"}]
    /\ ctxDone \in [Callers -> BOOLEAN]
    /\ tag \in [Callers -> 0..MaxMsgs]
    /\ sent \in 0..MaxMsgs
    /\ verdict \in [Tags -> {"none", "ack", "nack"}]
    /\ delivered \in 0..MaxMsgs
    /\ confirmCh \in Seq(Tags)
    /\ consumed \in Nat
    /\ stolen \in Nat
    /\ abandoned \in Nat
    /\ reported \in [Tags -> {"none"} \cup Outcomes]
    /\ read \in [Tags -> 0..MaxMsgs]

-----------------------------------------------------------------------------
(* The law of the drift: with a calls abandoned so far (and s confirmations *)
(* taken by a monitor), the confirmation a call reads is the one of the    *)
(* message published a - s messages before its own.                        *)
ReadsLag ==
    [][\A c \in Callers : Receive(c) =>
          Head(confirmCh) = tag[c] - (abandoned - stolen)]_vars

(* Up to the first abandoned call the answers are right: nil means the     *)
(* broker acked that very message, and "broker nacked" that it nacked it   *)
(* or that the channel was closed with the answer outstanding.             *)
HonestUntilAbandoned ==
    ~NoConfirm /\ ~Monitor =>
        \A t \in Tags :
            (\A u \in 1..(t - 1) : reported[u] # "cancelled") =>
                /\ reported[t] = "ok" => verdict[t] = "ack"
                /\ reported[t] = "nacked" => verdict[t] = "nack" \/ chan = "closed"

(* No confirmation answers two calls, whoever else reads the channel.      *)
OneCallPerConfirm ==
    \A t, u \in Tags : t # u /\ read[t] = read[u] => read[t] = 0

(* The reader goroutine of the connection can only be held up by this      *)
(* publisher after ConfirmCap abandoned calls, one more if no call is      *)
(* waiting to drain confirmCh.                                             *)
StallNeedsAbandons ==
    ReaderBlocked => /\ abandoned >= ConfirmCap
                     /\ (\A c \in Callers : pc[c] # "waiting") => abandoned > ConfirmCap

(* Every call of Publish or PublishRaw returns.                            *)
CallsReturn == \A c \in Callers : pc[c] # "idle" ~> pc[c] = "idle"

(* If every caller has a deadline, every call that waits for its confirm   *)
(* returns, even if the broker never answers and the channel is lost; and  *)
(* so does every other one, those behind the mutex too, unless the channel *)
(* is lost: then a call may be stuck within the library with the mutex     *)
(* locked, and no deadline helps it or the others.                         *)
DeadlinesReturn ==
    (\A c \in Callers : WF_vars(Cancel(c))) /\ Cancellable = Callers =>
        \A c \in Callers : /\ pc[c] = "waiting" ~> pc[c] = "idle"
                           /\ pc[c] # "idle" ~> pc[c] = "idle" \/ chan = "dead"

(* If the broker answers every message in the end, and the channel ends at *)
(* most by being closed, every call returns, though it has no deadline and *)
(* though others give up and leave their confirmations behind.             *)
AnswersReturn ==
    WF_vars(BrokerAnswers) /\ [](chan # "dead") => CallsReturn

(* setup_publisher.go: "Publish waits for broker confirmation and returns  *)
(* an error if the broker nacks": nil means the message was acked.         *)
NilMeansAcked == \A t \in Tags : reported[t] = "ok" => verdict[t] = "ack"

(* docs/publishers.md: "Monitor confirms asynchronously": the goroutine it *)
(* shows next to Publish does no harm, and with a broker that answers and  *)
(* a channel that stays up every call returns.                             *)
MonitorIsHarmless == WF_vars(BrokerAnswers) => CallsReturn

-----------------------------------------------------------------------------
(* Nothing is promised of a publisher without confirms, after a call left  *)
(* its confirmation behind, or after the monitor read one.                 *)
Contract == INSTANCE PublishContract
    WITH lost <- chan = "closed",
         void <- NoConfirm \/ abandoned > 0 \/ stolen > 0

(* With confirms, and until a caller gives up or a monitor takes an        *)
(* answer, Publish implements the contract: each call answers for the very *)
(* message it published, before the next message goes out, and nothing     *)
(* short of these two events ends that.                                    *)
ImplementsContract == Contract!Spec
=============================================================================
