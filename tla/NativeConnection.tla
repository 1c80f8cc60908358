------------------------- MODULE NativeConnection -------------------------
(***************************************************************************)
(* handle_tcp_connection of wolf/src/stream/tcp/tcp_server.rs: the loop    *)
(* that serves one connection of the native protocol, over plain TCP or    *)
(* over TLS.  Bytes are counted, not valued.  The peer and the callback    *)
(* are the environment.                                                    *)
(***************************************************************************)
EXTENDS Naturals, FiniteSetsExt

CONSTANTS
    MaxMsg,         \* MAX_MSG_SIZE, the length of Buffer.buf
    IoTimeout,      \* io_timeout_in_secs > 0.0
    DataReplies,    \* msg.size the callback may leave after a read of bytes
    EmptyReplies,   \* the same after a read of 0 bytes
    VetoData,       \* the callback may return Err after a read of bytes
    VetoEmpty,      \* the same after a read of 0 bytes
    MaxArrived      \* bound: bytes the peer sends in all

ASSUME NativeAssumption ==
    /\ MaxMsg \in Nat \ {0}
    /\ IoTimeout \in BOOLEAN /\ VetoData \in BOOLEAN /\ VetoEmpty \in BOOLEAN
    /\ DataReplies \subseteq Nat /\ EmptyReplies \subseteq Nat
    /\ MaxArrived \in Nat

VARIABLES
    pc,         \* where the loop is
    size,       \* msg.size
    wrote,      \* bytes of the latest answer that write() took
    closeMsg,   \* why the loop was left
    tls,        \* the stream is a TlsStream
    peer,       \* "open", "shut" (end of stream), "cut" (the same without the
                \* close_notify of TLS) or "reset"
    stalled,    \* the peer has stopped draining its receive window
    rx,         \* bytes that can be read
    arrived     \* bytes that ever could

loopVars == <<pc, size, wrote, closeMsg>>
peerVars == <<tls, peer, stalled, rx, arrived>>
vars     == <<loopVars, peerVars>>

Init ==
    /\ pc = "read"
    /\ size = 0
    /\ wrote = 0
    /\ closeMsg = "none"
    /\ tls \in BOOLEAN
    /\ peer = "open"
    /\ stalled = FALSE
    /\ rx = 0 /\ arrived = 0

----------------------------------------------------------------------------
(* The peer.                                                               *)

PeerSends ==
    /\ peer = "open"
    /\ arrived < MaxArrived
    /\ rx' = rx + 1
    /\ arrived' = arrived + 1
    /\ UNCHANGED <<loopVars, tls, peer, stalled>>

PeerShuts ==
    /\ peer = "open"
    /\ peer' \in IF tls THEN {"shut", "cut"} ELSE {"shut"}
    /\ UNCHANGED <<loopVars, tls, stalled, rx, arrived>>

PeerResets ==
    /\ peer # "reset"
    /\ peer' = "reset"
    /\ rx' = 0
    /\ UNCHANGED <<loopVars, tls, stalled, arrived>>

PeerStalls ==
    /\ stalled' = ~stalled
    /\ UNCHANGED <<loopVars, tls, peer, rx, arrived>>

Peer == PeerSends \/ PeerShuts \/ PeerResets \/ PeerStalls

----------------------------------------------------------------------------
(* The loop.                                                               *)

Leave(why) == pc' = "ended" /\ closeMsg' = why

\* The first poll of select finds nothing to read.
ReadPending ==
    /\ pc = "read"
    /\ rx = 0 /\ peer = "open"
    /\ pc' = "wait"
    /\ UNCHANGED <<size, wrote, closeMsg, peerVars>>

\* Mutant: the length of the buffer does not bound a read.
ReadBytesUnbounded ==
    /\ pc \in {"read", "wait"}
    /\ rx > 0
    /\ \E n \in 1..rx :
          /\ rx' = rx - n
          /\ size' = n
    /\ pc' = "callback"
    /\ UNCHANGED <<wrote, closeMsg, tls, peer, stalled, arrived>>

\* read() returns what is there, at most a buffer of it.  It takes the bytes in the
\* poll that completes it, so that a read the timer cancels has taken none.
ReadBytes ==
    /\ pc \in {"read", "wait"}
    /\ rx > 0
    /\ \E n \in 1..Min({rx, MaxMsg}) :
          /\ rx' = rx - n
          /\ size' = n
    /\ pc' = "callback"
    /\ UNCHANGED <<wrote, closeMsg, tls, peer, stalled, arrived>>

\* At the end of the stream read() returns Ok(0), each time.
ReadEof ==
    /\ pc \in {"read", "wait"}
    /\ rx = 0 /\ peer = "shut"
    /\ size' = 0
    /\ pc' = "callback"
    /\ UNCHANGED <<wrote, closeMsg, peerVars>>

ReadFails ==
    /\ pc \in {"read", "wait"}
    /\ peer = "reset" \/ (peer = "cut" /\ rx = 0)
    /\ Leave("read")
    /\ UNCHANGED <<size, wrote, peerVars>>

\* Mutant: the timeout is not an error.
ReadTimesOutIgnored ==
    /\ pc = "wait"
    /\ IoTimeout
    /\ pc' = "read"
    /\ UNCHANGED <<size, wrote, closeMsg, peerVars>>

\* The timer fires; bytes that came in since the first poll may lose the race.
ReadTimesOut ==
    /\ pc = "wait"
    /\ IoTimeout
    /\ Leave("timeout")
    /\ UNCHANGED <<size, wrote, peerVars>>

\* Mutant: the callback's wish is honoured only when there were bytes.
CallbackVetoesIgnored ==
    /\ pc = "callback"
    /\ IF size > 0 THEN VetoData /\ Leave("callback")
                   ELSE VetoEmpty /\ pc' = "read" /\ UNCHANGED closeMsg
    /\ UNCHANGED <<size, wrote, peerVars>>

CallbackVetoes ==
    /\ pc = "callback"
    /\ IF size > 0 THEN VetoData ELSE VetoEmpty
    /\ Leave("callback")
    /\ UNCHANGED <<size, wrote, peerVars>>

\* The callback returned Ok; whatever size it left decides about the write.
CallbackAnswers ==
    /\ pc = "callback"
    /\ size' \in (IF size > 0 THEN DataReplies ELSE EmptyReplies)
    /\ size' <= MaxMsg
    /\ pc' = IF size' > 0 THEN "write" ELSE "read"
    /\ UNCHANGED <<wrote, closeMsg, peerVars>>

\* It left a size that no buffer has: the slice buf[0..size] panics, and with it
\* the task, before accept_connection gets to the close callback.
CallbackOversteps ==
    /\ pc = "callback"
    /\ size' \in (IF size > 0 THEN DataReplies ELSE EmptyReplies)
    /\ size' > MaxMsg
    /\ pc' = "panicked"
    /\ UNCHANGED <<wrote, closeMsg, peerVars>>

\* Mutant: the whole buffer is written.
WriteBuffer ==
    /\ pc = "write"
    /\ peer # "reset"
    /\ \/ ~tls /\ ~stalled /\ wrote' \in 1..MaxMsg /\ pc' = "read"
       \/ tls /\ wrote' = MaxMsg /\ pc' = "flush"
    /\ UNCHANGED <<size, closeMsg, peerVars>>

\* write() is not write_all(), and no timeout applies to it.  A socket takes some
\* of buf[0..size] once there is room, and has nothing to flush; a TLS session
\* keeps all of it and sends it at the latest in flush().
Write ==
    /\ pc = "write"
    /\ peer # "reset"
    /\ \/ ~tls /\ ~stalled /\ wrote' \in 1..size /\ pc' = "read"
       \/ tls /\ wrote' = size /\ pc' = "flush"
    /\ UNCHANGED <<size, closeMsg, peerVars>>

\* flush() waits, again without a timeout, until all is sent; its error is ignored.
Flush ==
    /\ pc = "flush"
    /\ ~stalled \/ peer = "reset"
    /\ pc' = "read"
    /\ UNCHANGED <<size, wrote, closeMsg, peerVars>>

WriteFails ==
    /\ pc = "write"
    /\ peer # "open"
    /\ Leave("write")
    /\ UNCHANGED <<size, wrote, peerVars>>

Read == ReadPending \/ ReadBytes \/ ReadEof \/ ReadFails \/ ReadTimesOut

Callback == CallbackVetoes \/ CallbackAnswers \/ CallbackOversteps

Loop == Read \/ Callback \/ Write \/ Flush \/ WriteFails

Next == Peer \/ Loop

Spec == Init /\ [][Next]_vars

\* The task is polled when something it waits for is ready, the timer included;
\* nothing is assumed of the peer.
FairSpec == Spec /\ WF_vars(Loop)

----------------------------------------------------------------------------
(* Properties.                                                             *)

\* Types; in particular msg.size is beyond the buffer it indexes only where the
\* slice has panicked: whatever the callback leaves, no write sees it.
TypeOK ==
    /\ pc \in {"read", "wait", "callback", "write", "flush", "ended", "panicked"}
    /\ size \in Nat /\ (size > MaxMsg <=> pc = "panicked")
    /\ pc = "write" => size > 0
    /\ wrote \in 0..MaxMsg
    /\ closeMsg \in {"none", "read", "timeout", "callback", "write"}
    /\ tls \in BOOLEAN
    /\ peer \in {"open", "shut", "cut", "reset"}
    /\ stalled \in BOOLEAN
    /\ rx \in Nat /\ arrived \in Nat

Over == pc \in {"ended", "panicked"}

\* With an io timeout a peer that neither shuts the connection nor stops
\* reading, but at some point has no more to say, does not hold its task forever.
IdleConnectionEnds ==
    <>[](peer # "shut" /\ ~stalled) => <>Over

\* A peer that disconnects ends the handler, so that accept_connection gets to
\* on_close_connection, unless the peer keeps a write or a flush from finishing,
\* which a reset puts an end to.  The end of the stream is a read of zero bytes:
\* it takes a callback that gives up on one.
DisconnectEnds ==
    /\ (peer \in {"shut", "cut"}) ~> (Over \/ stalled)
    /\ (peer = "reset") ~> Over

\* handle_tcp_connection is a session that cannot fail, unless the callback may
\* leave a size that makes it panic.
Session == INSTANCE ConnSession WITH
    MaxReply <- MaxMsg,
    MayFail <- \E n \in DataReplies \cup EmptyReplies : n > MaxMsg,
    phase <- CASE pc \in {"read", "wait", "flush"} -> "reading"
               [] pc = "callback" -> "called"
               [] pc = "write" -> "replying"
               [] OTHER -> "ended",
    owed <- IF pc = "write" THEN size ELSE 0,
    result <- CASE pc = "ended" -> "ok"
                [] pc = "panicked" -> "err"
                [] OTHER -> "none"

\* One message at a time, at most one answer to each of at most the size the
\* callback asked for, none after the callback asked to close.
ImplementsSession == Session!Spec
============================================================================
