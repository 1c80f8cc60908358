---------------------------- MODULE ConnSession ----------------------------
(***************************************************************************)
(* What accept_connection relies on in a connection handler, whichever     *)
(* protocol it speaks: messages go to p_on_msg_callback one at a time, the *)
(* callback's answer is written at most once and before the next message,  *)
(* nothing is written once the callback asked to close, and the handler    *)
(* ends once, with an error only where the protocol has one to give.       *)
(* NativeConnection and WsConnection implement it.                         *)
(***************************************************************************)
EXTENDS Naturals

CONSTANTS
    MaxReply,   \* the largest answer, in units of the protocol
    MayFail     \* the handler may return Err

VARIABLES
    phase,      \* "reading", "called", "replying", "closing" or "ended"
    owed,       \* how much of an answer the callback asked to write
    wrote,      \* how much of the latest answer was written
    result      \* what the handler returned: "none" before it has

svars == <<phase, owed, wrote, result>>

Results == {"ok"} \cup (IF MayFail THEN {"err"} ELSE {})

Init ==
    /\ phase = "reading"
    /\ owed = 0
    /\ wrote = 0
    /\ result = "none"

\* A message is handed to the callback.
Call ==
    /\ phase = "reading"
    /\ phase' = "called"
    /\ UNCHANGED <<owed, wrote, result>>

\* The callback returned Ok and left nothing to write.
Quiet ==
    /\ phase = "called"
    /\ phase' = "reading"
    /\ UNCHANGED <<owed, wrote, result>>

\* The callback returned Ok and an answer.
Answer ==
    /\ phase = "called"
    /\ phase' = "replying"
    /\ owed' \in 1..MaxReply
    /\ UNCHANGED <<wrote, result>>

\* The answer, or a part of it, is written.
Reply ==
    /\ phase = "replying"
    /\ phase' = "reading"
    /\ wrote' \in 1..owed
    /\ owed' = 0
    /\ UNCHANGED result

\* The callback asked to close, or reading or writing failed, and the handler
\* has yet to say goodbye to the peer.
Close ==
    /\ phase \in {"reading", "called", "replying"}
    /\ phase' = "closing"
    /\ owed' = 0
    /\ UNCHANGED <<wrote, result>>

End ==
    /\ phase # "ended"
    /\ phase' = "ended"
    /\ result' \in Results
    /\ owed' = 0
    /\ UNCHANGED wrote

Next == Call \/ Quiet \/ Answer \/ Reply \/ Close \/ End

Spec == Init /\ [][Next]_svars
============================================================================
