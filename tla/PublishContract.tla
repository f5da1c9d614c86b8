-------------------------- MODULE PublishContract --------------------------
(***************************************************************************)
(* What a publisher with confirms promises its callers, with no mutex, no  *)
(* channel and no buffer: messages go to the broker one at a time, each    *)
(* call answers for its own message, and nil means the broker has it. The  *)
(* promise is void from the moment a caller gives up on its message or     *)
(* somebody else takes an answer.                                          *)
(***************************************************************************)
EXTENDS Integers

CONSTANT MaxMsgs  \* bound: messages accepted

VARIABLES
    sent,      \* messages accepted so far: 1..sent
    verdict,   \* the broker's answer to each message
    lost,      \* the link to the broker is gone
    void,      \* the promise no longer holds
    reported   \* what the caller was told of each message

contractVars == <<sent, verdict, lost, void, reported>>

Init ==
    /\ sent = 0
    /\ verdict = [t \in 1..MaxMsgs |-> "none"]
    /\ lost = FALSE
    /\ void \in BOOLEAN
    /\ reported = [t \in 1..MaxMsgs |-> "none"]

(* The next message is accepted once every earlier one is answered for.    *)
Accept ==
    /\ sent < MaxMsgs
    /\ \A t \in 1..sent : reported[t] # "none"
    /\ sent' = sent + 1
    /\ UNCHANGED <<verdict, lost, void, reported>>

Decide(t, v) ==
    /\ t <= sent
    /\ verdict[t] = "none"
    /\ verdict' = [verdict EXCEPT ![t] = v]
    /\ UNCHANGED <<sent, lost, void, reported>>

LoseLink ==
    /\ ~lost
    /\ lost' = TRUE
    /\ UNCHANGED <<sent, verdict, void, reported>>

(* nil only for an acked message, an error only for a nacked one or for    *)
(* one whose answer was lost; each message is reported once.               *)
Report(t, o) ==
    /\ t <= sent
    /\ reported[t] = "none"
    /\ \/ o = "ok" /\ verdict[t] = "ack"
       \/ o = "nacked" /\ verdict[t] = "nack"
       \/ o = "nacked" /\ lost
    /\ reported' = [reported EXCEPT ![t] = o]
    /\ UNCHANGED <<sent, verdict, lost, void>>

(* A caller leaves without waiting for the answer to its message.          *)
GiveUp(t) ==
    /\ t <= sent
    /\ reported[t] = "none"
    /\ reported' = [reported EXCEPT ![t] = "cancelled"]
    /\ void' = TRUE
    /\ UNCHANGED <<sent, verdict, lost>>

(* An answer is taken by somebody who did not publish.                     *)
TakeAnswer ==
    /\ void' = TRUE
    /\ UNCHANGED <<sent, verdict, lost, reported>>

(* Once void, anything goes.                                               *)
Void == void /\ void'

Next ==
    \/ Accept
    \/ LoseLink
    \/ TakeAnswer
    \/ Void
    \/ \E t \in 1..MaxMsgs :
          \/ \E v \in {"ack", "nack"} : Decide(t, v)
          \/ \E o \in {"ok", "nacked"} : Report(t, o)
          \/ GiveUp(t)

Spec == Init /\ [][Next]_contractVars
=============================================================================
