----------------------------- MODULE TcpClient -----------------------------
(***************************************************************************)
(* client() of wolf/src/stream/tcp/tcp_client.rs and its loop              *)
(* handle_client_stream(), against the server's handler of the same        *)
(* connection: the loop of NativeConnection, with this client as its peer. *)
(* Two socket queues of finite length join the two ends.  The client       *)
(* writes and then always reads; the server reads and then may write.      *)
(*                                                                         *)
(* Over plain TCP a queue is a number of bytes, which may be read in any   *)
(* pieces.  Over TLS it is a sequence of records: write() puts the whole   *)
(* message in the session as one record (MAX_MSG_SIZE is far below the 16K *)
(* of a record), flush() waits until the record is in the queue, and       *)
(* read() gives nothing of a record before all of it is there.             *)
(***************************************************************************)
EXTENDS Naturals, Sequences, FiniteSetsExt

CONSTANTS
    MaxMsg,         \* MAX_MSG_SIZE on both ends
    Cap,            \* bytes a socket queue holds
    ClientTimeout,  \* the client's io_timeout_in_secs > 0.0
    ServerTimeout,  \* the server's
    OnEmpty,        \* msg.size the client's callback leaves when called with 0
    DataReplies     \* msg.size the server's callback leaves after a read

ASSUME ClientAssumption ==
    /\ MaxMsg \in Nat \ {0} /\ Cap \in Nat \ {0}
    /\ {ClientTimeout, ServerTimeout} \subseteq BOOLEAN
    /\ OnEmpty \subseteq 0..MaxMsg /\ DataReplies \subseteq Nat

VARIABLES
    tls,        \* p_config.tls, on both ends
    cpc,        \* where client() is
    size,       \* msg_buffer.size
    vetoed,     \* the client's callback asked to end the loop
    calls,      \* how often on_accept_connection and on_close_connection ran
    view,       \* the connection as the client's socket sees it
    down,       \* bytes on their way to the client
    downRecs,   \* the TLS records they are in
    spc, ssize, swrote, sclose, \* the server's handler
    idle,       \* what NativeConnection keeps of a peer that is not this client
    speer,      \* the connection as the server's socket sees it
    up,         \* bytes on their way to the server
    upRecs      \* the TLS records they are in

clientVars == <<cpc, size, vetoed, calls>>
serverVars == <<spc, ssize, swrote, sclose, idle>>
downQ      == <<down, downRecs>>
upQ        == <<up, upRecs>>
wire       == <<tls, view, downQ, speer, upQ>>
vars       == <<clientVars, serverVars, wire>>

\* The server's callback gives up on the empty read of an ended stream.  The
\* client's queue takes the place of a peer that stalls.
S == INSTANCE NativeConnection WITH
    IoTimeout <- ServerTimeout, EmptyReplies <- {}, VetoData <- TRUE,
    VetoEmpty <- TRUE, MaxArrived <- 0,
    pc <- spc, size <- ssize, wrote <- swrote, closeMsg <- sclose,
    peer <- speer, rx <- up, stalled <- idle.stalled, arrived <- idle.arrived

Init ==
    /\ tls \in BOOLEAN /\ (tls => MaxMsg <= Cap)  \* a record fits the queue
    /\ cpc = "address" /\ size = 0 /\ vetoed = FALSE
    /\ calls = [accept |-> 0, close |-> 0]
    /\ view = "none" /\ down = 0 /\ downRecs = <<>>
    /\ spc = "read" /\ ssize = 0 /\ swrote = 0 /\ sclose = "none"
    /\ idle = [stalled |-> FALSE, arrived |-> 0]
    /\ speer = "open" /\ up = 0 /\ upRecs = <<>>

----------------------------------------------------------------------------
(* client(): everything before the loop.                                   *)

Return == cpc' = "returned" /\ UNCHANGED <<size, vetoed, calls>>

\* The address does not parse, on_accept_connection refuses it, the root store
\* cannot be read, the connection is refused, the name is not one rustls takes
\* or the handshake fails.  A stream that was open is dropped.
SetupFails ==
    /\ cpc \in {"address", "rootca", "connect", "handshake"}
    /\ Return
    /\ UNCHANGED <<serverVars, wire>>

\* The callback that announces the connection runs before there is one.
OnAcceptConnection ==
    /\ cpc = "address"
    /\ cpc' = IF tls THEN "rootca" ELSE "connect"
    /\ calls' = [calls EXCEPT !.accept = @ + 1]
    /\ UNCHANGED <<size, vetoed, serverVars, wire>>

LoadRootCa ==
    /\ cpc = "rootca"
    /\ cpc' = "connect"
    /\ UNCHANGED <<size, vetoed, calls, serverVars, wire>>

\* unwrap() of a trust anchor that is not one.
LoadRootCaPanics ==
    /\ cpc = "rootca"
    /\ cpc' = "panicked"
    /\ UNCHANGED <<size, vetoed, calls, serverVars, wire>>

Connect ==
    /\ cpc = "connect"
    /\ cpc' = IF tls THEN "handshake" ELSE "callback"
    /\ view' = IF tls THEN "handshake" ELSE "open"
    /\ UNCHANGED <<size, vetoed, calls, serverVars, tls, downQ, speer, upQ>>

Handshake ==
    /\ cpc = "handshake"
    /\ cpc' = "callback"
    /\ view' = "open"
    /\ UNCHANGED <<size, vetoed, calls, serverVars, tls, downQ, speer, upQ>>

\* Only a loop that ended with Ok gets here.
OnCloseConnection ==
    /\ cpc = "closing"
    /\ cpc' = "returned"
    /\ calls' = [calls EXCEPT !.close = @ + 1]
    /\ UNCHANGED <<size, vetoed, serverVars, wire>>

----------------------------------------------------------------------------
(* handle_client_stream().                                                 *)

OnMessageVetoes ==
    /\ cpc = "callback"
    /\ cpc' = "closing"
    /\ vetoed' = TRUE
    /\ UNCHANGED <<size, calls, serverVars, wire>>

\* What the callback leaves; 0 is what it is given at the start and again at the
\* end of the stream.
Replies(n) == IF n = 0 THEN OnEmpty ELSE 0..MaxMsg

OnMessage ==
    /\ cpc = "callback"
    /\ size' \in Replies(size)
    /\ cpc' = IF size' > 0 THEN "write" ELSE "read"
    /\ UNCHANGED <<vetoed, calls, serverVars, wire>>

\* The callback left a size beyond the buffer: the slice buf[0..size] panics.
OnMessageOversteps ==
    /\ cpc = "callback"
    /\ cpc' = "panicked"
    /\ UNCHANGED <<size, vetoed, calls, serverVars, wire>>

\* n more bytes for the server; bytes for a socket that is closed are accepted
\* here and answered with a reset.
Sends(n) ==
    \/ /\ view = "open"
       /\ up' = up + n /\ up' <= Cap
       /\ upRecs' = IF tls THEN Append(upRecs, n) ELSE upRecs
       /\ UNCHANGED view
    \/ /\ view \in {"shut", "refused"}
       /\ view' = "refused"
       /\ UNCHANGED upQ

\* Mutant: a client that could not write all of it does not read.
WriteOnly ==
    /\ cpc = "write"
    /\ view # "reset"
    /\ \/ /\ tls
          /\ cpc' = "flush"
          /\ UNCHANGED <<view, upQ>>
       \/ /\ ~tls
          /\ \E n \in 1..size : Sends(n) /\ cpc' = IF n < size THEN "write" ELSE "read"
    /\ UNCHANGED <<size, vetoed, calls, serverVars, tls, downQ, speer>>

\* write() has no timeout.  A socket takes what there is room for, and waits when
\* there is none; flush() is then nothing.  A TLS session takes it all.
Write ==
    /\ cpc = "write"
    /\ view # "reset"
    /\ \/ /\ tls
          /\ cpc' = "flush"
          /\ UNCHANGED <<view, upQ>>
       \/ /\ ~tls
          /\ cpc' = "read"
          /\ \E n \in 1..size : Sends(n)
    /\ UNCHANGED <<size, vetoed, calls, serverVars, tls, downQ, speer>>

\* flush() of a TLS stream waits, without a timeout either, until the record is
\* out.  A part of it that is out earlier is nothing a read could return.
Flush ==
    /\ cpc = "flush"
    /\ cpc' = "read"
    /\ Sends(size)
    /\ UNCHANGED <<size, vetoed, calls, serverVars, tls, downQ, speer>>

WriteFails ==
    /\ cpc \in {"write", "flush"}
    /\ view = "reset"
    /\ Return
    /\ UNCHANGED <<serverVars, wire>>

\* The first poll of select finds nothing to read.
ReadPending ==
    /\ cpc = "read"
    /\ down = 0 /\ view = "open"
    /\ cpc' = "wait"
    /\ UNCHANGED <<size, vetoed, calls, serverVars, wire>>

\* Over TLS a read returns the first record.  It would take a second one with it,
\* which TurnTaking excludes; a buffer on this end holds any record of the other.
ReadBytes ==
    /\ cpc \in {"read", "wait"}
    /\ view # "reset"
    /\ \E n \in 1..Min({down, MaxMsg}) :
          /\ size' = n /\ down' = down - n
          /\ tls => n = Head(downRecs)
    /\ downRecs' = IF tls THEN Tail(downRecs) ELSE downRecs
    /\ cpc' = "callback"
    /\ UNCHANGED <<vetoed, calls, serverVars, tls, view, speer, upQ>>

\* Mutant: at the end of the stream the client reads on.
ReadEofKeepsReading ==
    /\ cpc \in {"read", "wait"}
    /\ ~tls /\ down = 0 /\ view \in {"shut", "refused"}
    /\ cpc' = "read"
    /\ size' = 0
    /\ UNCHANGED <<vetoed, calls, serverVars, wire>>

\* The end of the stream is Ok(0) and goes to the callback like a message.
ReadEof ==
    /\ cpc \in {"read", "wait"}
    /\ ~tls /\ down = 0 /\ view \in {"shut", "refused"}
    /\ size' = 0
    /\ cpc' = "callback"
    /\ UNCHANGED <<vetoed, calls, serverVars, wire>>

\* A reset; or the end of a TLS stream, which is an error as neither end of this
\* code sends a close_notify.
ReadError ==
    \/ view = "reset"
    \/ tls /\ down = 0 /\ view \in {"shut", "refused"}

\* Mutant: a failed read leaves the loop like a veto.
ReadFailsBreaks ==
    /\ cpc \in {"read", "wait"}
    /\ ReadError
    /\ cpc' = "closing"
    /\ UNCHANGED <<size, vetoed, calls, serverVars, wire>>

ReadFails ==
    /\ cpc \in {"read", "wait"}
    /\ ReadError
    /\ Return
    /\ UNCHANGED <<serverVars, wire>>

\* Mutant: the client waits on after a timeout.
ReadTimesOutRetries ==
    /\ ClientTimeout
    /\ cpc = "wait"
    /\ cpc' = "read"
    /\ UNCHANGED <<size, vetoed, calls, serverVars, wire>>

\* Mutant: a read that timed out counts as one of no bytes.
ReadTimesOutEmpty ==
    /\ ClientTimeout
    /\ cpc = "wait"
    /\ cpc' = "callback" /\ size' = 0
    /\ UNCHANGED <<vetoed, calls, serverVars, wire>>

\* A timeout is an error of the read and skips on_close_connection.
ReadTimesOut ==
    /\ ClientTimeout
    /\ cpc = "wait"
    /\ Return
    /\ UNCHANGED <<serverVars, wire>>

----------------------------------------------------------------------------
(* The connection: what the end of one side is to the other.               *)

\* The server's task is in its handler.
Served == view \notin {"none", "handshake"}

\* client() is over, and so is the server's handler: each has dropped its stream.
ClientOver == cpc \in {"returned", "panicked"}
ServerOver == spc \in {"ended", "panicked"}

\* The server's handler is gone: an end of stream, or a reset when it left bytes
\* unread.
ServerCloses ==
    /\ ServerOver /\ view = "open" /\ ~ClientOver
    /\ \/ up = 0 /\ view' = "shut" /\ UNCHANGED downQ
       \/ up > 0 /\ view' = "reset" /\ down' = 0 /\ downRecs' = <<>>
    /\ UNCHANGED <<clientVars, serverVars, tls, speer, upQ>>

ResetArrives ==
    /\ view = "refused"
    /\ view' = "reset" /\ down' = 0 /\ downRecs' = <<>>
    /\ UNCHANGED <<clientVars, serverVars, tls, speer, upQ>>

\* The client has dropped its stream.
ClientCloses ==
    /\ ClientOver /\ Served /\ speer = "open"
    /\ \/ down = 0 /\ speer' = (IF tls THEN "cut" ELSE "shut") /\ UNCHANGED upQ
       \/ down > 0 /\ speer' = "reset" /\ up' = 0 /\ upRecs' = <<>>
    /\ UNCHANGED <<clientVars, serverVars, tls, view, downQ>>

----------------------------------------------------------------------------
(* The server's handler, a step of NativeConnection.                       *)

\* One record is read at a time, as in ReadBytes.
ServerReads ==
    /\ Served
    /\ up' \in 0..up /\ UNCHANGED idle
    /\ S!ReadBytes
    /\ tls => ssize' = Head(upRecs)
    /\ upRecs' = IF tls THEN Tail(upRecs) ELSE upRecs
    /\ UNCHANGED <<clientVars, view, downQ>>

\* What the server does without the wire.
ServerLoop ==
    /\ Served
    /\ up' = up /\ UNCHANGED idle
    /\ \/ S!ReadPending \/ S!ReadEof \/ S!ReadFails \/ S!ReadTimesOut
       \/ S!Callback \/ S!WriteFails
    /\ UNCHANGED <<clientVars, view, downQ, upRecs>>

\* n more bytes for the client; those for one that is over go nowhere.
ServerSends(n) ==
    IF speer = "open" /\ ~ClientOver
    THEN /\ down' = down + n /\ down' <= Cap
         /\ downRecs' = IF tls THEN Append(downRecs, n) ELSE downRecs
    ELSE UNCHANGED downQ

ServerWrites ==
    /\ Served
    /\ up' = up /\ UNCHANGED idle
    /\ S!Write
    /\ IF tls THEN UNCHANGED downQ ELSE ServerSends(swrote')
    /\ UNCHANGED <<clientVars, view, upRecs>>

ServerFlushes ==
    /\ Served
    /\ up' = up /\ UNCHANGED idle
    /\ S!Flush
    /\ ServerSends(ssize)
    /\ UNCHANGED <<clientVars, view, upRecs>>

----------------------------------------------------------------------------
Setup == OnAcceptConnection \/ LoadRootCa \/ LoadRootCaPanics \/ Connect \/ Handshake

Loop ==
    \/ OnMessageVetoes \/ OnMessage \/ OnMessageOversteps
    \/ Write \/ Flush \/ WriteFails
    \/ ReadPending \/ ReadBytes \/ ReadEof \/ ReadFails \/ ReadTimesOut

Client == SetupFails \/ Setup \/ Loop \/ OnCloseConnection
Server == ServerReads \/ ServerLoop \/ ServerWrites \/ ServerFlushes
Stack  == ServerCloses \/ ResetArrives \/ ClientCloses

Next == Client \/ Server \/ Stack

Spec == Init /\ [][Next]_vars

\* Both tasks are polled and the stacks tell each other of a close.  Connecting
\* and the handshake are left to the other end.
FairSpec ==
    /\ Spec
    /\ WF_vars(Loop) /\ WF_vars(OnCloseConnection) /\ WF_vars(Server)
    /\ WF_vars(ServerCloses) /\ WF_vars(ResetArrives) /\ WF_vars(ClientCloses)

----------------------------------------------------------------------------
(* Properties.                                                             *)

\* Types; the queues never hold more than they can.
TypeOK ==
    /\ tls \in BOOLEAN
    /\ cpc \in {"address", "rootca", "connect", "handshake", "callback", "write",
               "flush", "read", "wait", "closing", "returned", "panicked"}
    /\ size \in 0..MaxMsg /\ ssize \in Nat /\ swrote \in 0..MaxMsg
    /\ vetoed \in BOOLEAN
    /\ calls \in [accept : {0, 1}, close : {0, 1}]
    /\ view \in {"none", "handshake", "open", "shut", "refused", "reset"}
    /\ speer \in {"open", "shut", "cut", "reset"}
    /\ down \in 0..Cap /\ up \in 0..Cap
    /\ downRecs \in Seq(1..MaxMsg) /\ upRecs \in Seq(1..MaxMsg)

\* An end that is held up in write() or flush() because the queue has no room.
ClientHeld ==
    /\ view = "open"
    /\ (cpc = "write" /\ ~tls /\ up = Cap) \/ (cpc = "flush" /\ up + size > Cap)
ServerHeld ==
    /\ speer = "open"
    /\ (spc = "write" /\ ~tls /\ down = Cap) \/ (spc = "flush" /\ down + ssize > Cap)

\* Neither end's write or flush has a timeout, and both may answer with more than
\* they read.  Still the two ends are never both held up by a full queue.  Over
\* plain TCP each takes at least a byte from the other between two of its writes,
\* and a write of what fits is enough; over TLS, where flush() waits for all of
\* the message, they take turns.
NoMutualWriteBlock == ~(ClientHeld /\ ServerHeld)

\* The client has read, and has not yet sent what it answers; the server likewise.
ClientAnswers == cpc \in {"callback", "write", "flush"}
ServerAnswers == spc \in {"callback", "write", "flush"}

\* Over TLS client and server take turns: at most one message is on its way or
\* being answered, whatever the two callbacks say and although no protocol makes
\* them.  Over plain TCP a message read in two pieces is answered twice.
TurnTaking ==
    tls => /\ Len(upRecs) + Len(downRecs) <= 1
           /\ ClientAnswers \/ ServerAnswers => upRecs = <<>> /\ downRecs = <<>>
           /\ ~(ClientAnswers /\ ServerAnswers)

\* on_accept_connection announces the connection before it exists; it is taken
\* back by on_close_connection exactly when the client's own callback ended the
\* loop.  A client that a timeout, a reset or a failed set-up ended is never
\* taken back.
CloseOnlyAfterVeto ==
    /\ calls.close <= calls.accept
    /\ cpc = "returned" => (calls.close = 1 <=> vetoed)

Quiet == cpc \in {"read", "wait"} /\ spc \in {"read", "wait"} /\ up = 0 /\ down = 0

\* Both ends may wait for the other to speak.  A timeout at the client alone frees
\* both: the client returns, and the server's handler sees the end of the stream.
QuietExchangeEnds == Quiet ~> (ClientOver /\ ServerOver)

\* A client whose server has gone returns.  Over plain TCP it reads the end of the
\* stream as a message of size 0 and starts the conversation anew: its next bytes
\* are refused.  It takes a callback that does not fall silent at size 0.
ServerGoneEndsClient == (ServerOver /\ ~ClientOver) ~> ClientOver
============================================================================
