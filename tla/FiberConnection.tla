-------------------------- MODULE FiberConnection --------------------------
(***************************************************************************)
(* handle_tcp_connection of wolf/src/stream/tcp/tcp_server_fiber.rs, with  *)
(* the socket timeouts accept_connection sets for it.  Unlike the tokio    *)
(* handler it answers before it looks at what the callback wants, writes   *)
(* the whole buffer, and its writes time out too.  FiberServing says when  *)
(* a connection is served.                                                 *)
(***************************************************************************)
EXTENDS Naturals

CONSTANTS
    MaxMsg,         \* MAX_MSG_SIZE
    IoTimeout,      \* io_timeout_in_secs > 0.0; zero is an error of the setters
    DataReplies,    \* msg.size the callback may leave after a read of bytes
    EmptyReplies,   \* the same after a read of 0 bytes
    VetoData,       \* the callback may return Err after a read of bytes
    VetoEmpty,      \* the same after a read of 0 bytes
    MaxReads        \* bound: reads that give bytes

ASSUME FiberAssumption ==
    /\ MaxMsg \in Nat \ {0} /\ MaxReads \in Nat
    /\ IoTimeout \in BOOLEAN /\ VetoData \in BOOLEAN /\ VetoEmpty \in BOOLEAN
    /\ DataReplies \subseteq 0..MaxMsg /\ EmptyReplies \subseteq 0..MaxMsg

VARIABLES
    pc,         \* where accept_connection and its handler are
    size,       \* msg.size
    failed,     \* close_msg is not empty
    peer,       \* "open", "shut" or "reset"
    stalled,    \* the peer does not drain its receive window
    reads,      \* reads that gave bytes
    late        \* answers written after the callback asked to close

connVars == <<pc, size, failed, peer, stalled, reads, late>>

ConnInit ==
    /\ pc = "timeouts"
    /\ size = 0
    /\ failed = FALSE
    /\ peer = "open"
    /\ stalled = FALSE
    /\ reads = 0
    /\ late = 0

PeerShuts ==
    /\ peer = "open" /\ peer' = "shut"
    /\ UNCHANGED <<pc, size, failed, stalled, reads, late>>

PeerResets ==
    /\ peer # "reset" /\ peer' = "reset"
    /\ UNCHANGED <<pc, size, failed, stalled, reads, late>>

PeerStalls ==
    /\ stalled' = ~stalled
    /\ UNCHANGED <<pc, size, failed, peer, reads, late>>

\* set_read_timeout(..)? and set_write_timeout(..)? may fail, and do when the
\* timeout is zero.
SetTimeouts ==
    /\ pc = "timeouts"
    /\ pc' \in (IF IoTimeout THEN {"read", "ended"} ELSE {"ended"})
    /\ UNCHANGED <<size, failed, peer, stalled, reads, late>>

ReadBytes ==
    /\ pc = "read"
    /\ peer = "open" /\ reads < MaxReads
    /\ size' \in 1..MaxMsg
    /\ reads' = reads + 1
    /\ pc' = "callback"
    /\ UNCHANGED <<failed, peer, stalled, late>>

ReadEof ==
    /\ pc = "read"
    /\ peer = "shut"
    /\ size' = 0
    /\ pc' = "callback"
    /\ UNCHANGED <<failed, peer, stalled, reads, late>>

\* The read timed out or the connection was reset: close_msg is set.
ReadFails ==
    /\ pc = "read"
    /\ peer # "shut"
    /\ failed' = TRUE
    /\ pc' = "check"
    /\ UNCHANGED <<size, peer, stalled, reads, late>>

MayVeto   == IF size > 0 THEN VetoData ELSE VetoEmpty
Replies   == IF size > 0 THEN DataReplies ELSE EmptyReplies

\* The callback's Err is noted and its answer is written all the same.
Callback ==
    /\ pc = "callback"
    /\ size' \in Replies
    /\ failed' \in (IF MayVeto THEN BOOLEAN ELSE {FALSE})
    /\ pc' = IF size' > 0 THEN "write" ELSE "check"
    /\ UNCHANGED <<peer, stalled, reads, late>>

Write ==
    /\ pc = "write"
    /\ peer # "reset" /\ ~stalled
    /\ late' = late + (IF failed THEN 1 ELSE 0)
    /\ pc' = "check"
    /\ UNCHANGED <<size, failed, peer, stalled, reads>>

\* Mutant: a write that timed out is tried again.
WriteRetries ==
    /\ pc = "write"
    /\ peer # "open" \/ stalled
    /\ failed' = (failed \/ ~stalled)
    /\ pc' = IF stalled THEN "write" ELSE "check"
    /\ UNCHANGED <<size, peer, stalled, reads, late>>

\* The write timed out or the connection is gone: close_msg is extended.
WriteFails ==
    /\ pc = "write"
    /\ peer # "open" \/ stalled
    /\ failed' = TRUE
    /\ pc' = "check"
    /\ UNCHANGED <<size, peer, stalled, reads, late>>

\* Mutant: the loop goes on after a wish to close.
CheckContinues ==
    /\ pc = "check"
    /\ pc' \in {"read", "ended"}
    /\ UNCHANGED <<size, failed, peer, stalled, reads, late>>

\* !close_msg.is_empty() leaves the loop.
Check ==
    /\ pc = "check"
    /\ pc' = IF failed THEN "ended" ELSE "read"
    /\ UNCHANGED <<size, failed, peer, stalled, reads, late>>

Peer == PeerShuts \/ PeerResets \/ PeerStalls
Loop == ReadBytes \/ ReadEof \/ ReadFails \/ Callback \/ Write
        \/ WriteFails \/ Check
============================================================================
