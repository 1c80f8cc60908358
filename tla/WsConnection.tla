--------------------------- MODULE WsConnection ---------------------------
(***************************************************************************)
(* handle_ws_connection and handle_ws_text_msg of                          *)
(* wolf/src/stream/tcp/tcp_server.rs: the loop that serves one websocket   *)
(* connection.  A message is its kind and its length; Buffer.buf is tagged *)
(* with where the bytes up to the length of the message come from.         *)
(***************************************************************************)
EXTENDS Naturals

CONSTANTS
    MaxMsg,     \* MAX_MSG_SIZE
    IoTimeout,  \* io_timeout_in_secs > 0.0
    MayVeto     \* p_on_msg_callback may return Err

ASSUME WsAssumption ==
    /\ MaxMsg \in Nat \ {0}
    /\ IoTimeout \in BOOLEAN
    /\ MayVeto \in BOOLEAN

VARIABLES
    pc,         \* where the loop is
    res,        \* what ws_stream.next() or the timeout gave
    size,       \* msg_buffer.size
    buf,        \* msg_buffer.buf: the origin of its first bytes
    closeCode,  \* close_code
    result,     \* what the handler returned
    peer,       \* "open" or "gone"
    stalled,    \* the peer has stopped draining its receive window
    frame       \* the last data frame sent: its kind, and the origin of its bytes

wsVars == <<pc, res, size, buf, closeCode, result, peer, stalled, frame>>

\* tungstenite's Message; its close frames end the stream of messages.
Messages == [kind : {"text", "binary", "ping", "close"}, len : 0..(MaxMsg + 1)]
None     == [kind |-> "none", len |-> 0]    \* the timeout, or a stream at its end
Error    == [kind |-> "error", len |-> 0]   \* Some(Err(_))

Origins == {"zero", "message", "callback"}
NoFrame == [kind |-> "none", data |-> "zero"]

\* Buffer::reset
Reset == size' = 0 /\ buf' = "zero"

WsInit ==
    /\ pc = "handshake"
    /\ res = None
    /\ size = 0
    /\ buf = "zero"
    /\ closeCode = "Unsupported"
    /\ result = "none"
    /\ peer = "open"
    /\ stalled = FALSE
    /\ frame = NoFrame

\* The connection breaks: its stream ends or fails from here on.
PeerVanishes ==
    /\ peer = "open"
    /\ peer' = "gone"
    /\ UNCHANGED <<pc, res, size, buf, closeCode, result, stalled, frame>>

PeerStalls ==
    /\ stalled' = ~stalled
    /\ UNCHANGED <<pc, res, size, buf, closeCode, result, peer, frame>>

\* tokio_tungstenite::accept_async(p_stream).await?; no timeout applies.
Handshake ==
    /\ pc = "handshake"
    /\ \/ peer = "open" /\ pc' = "read" /\ UNCHANGED result
       \/ pc' = "ended" /\ result' = "err"
    /\ UNCHANGED <<res, size, buf, closeCode, peer, stalled, frame>>

----------------------------------------------------------------------------
(* One pass: next() or the timeout, then what came of it.                  *)

Received(m) ==
    /\ pc = "read"
    /\ res' = m
    /\ pc' = "dispatch"
    /\ UNCHANGED <<size, buf, closeCode, result, peer, stalled, frame>>

NextMessage == peer = "open" /\ \E m \in Messages : Received(m)

\* A protocol violation, or the connection broke; tungstenite may tell of it once
\* and yields None from then on.
NextFails == Received(Error)

NextEnds == peer = "gone" /\ Received(None)

ReadTimesOut == IoTimeout /\ peer = "open" /\ Received(None)

\* Neither None nor Some(Err(_)) leaves the loop.
DispatchNothing ==
    /\ pc = "dispatch"
    /\ res.kind \in {"none", "error"}
    /\ pc' = "read"
    /\ UNCHANGED <<res, size, buf, closeCode, result, peer, stalled, frame>>

CloseWith(code) == pc' = "sendClose" /\ closeCode' = code

\* Mutant: the close frame is left to tungstenite and the loop goes on.
DispatchCloseIgnored ==
    /\ pc = "dispatch"
    /\ res.kind = "close"
    /\ pc' = "read"
    /\ UNCHANGED <<res, size, buf, closeCode, result, peer, stalled, frame>>

\* msg.is_close(): the loop is left with the code it started with.
DispatchClose ==
    /\ pc = "dispatch"
    /\ res.kind = "close"
    /\ pc' = "sendClose"
    /\ UNCHANGED <<res, size, buf, closeCode, result, peer, stalled, frame>>

IsData(m) == m.len > 0 /\ m.kind \in {"text", "binary"}

\* An empty message, and every ping and pong.
DispatchInvalid ==
    /\ pc = "dispatch"
    /\ res.kind \in {"text", "binary", "ping"}
    /\ ~IsData(res)
    /\ CloseWith("Invalid")
    /\ UNCHANGED <<res, size, buf, result, peer, stalled, frame>>

DispatchTooLong ==
    /\ pc = "dispatch"
    /\ IsData(res) /\ res.len > MaxMsg
    /\ size' = res.len
    /\ CloseWith("Size")
    /\ UNCHANGED <<res, buf, result, peer, stalled, frame>>

\* Mutant: the length is checked after the copy.
DispatchTextUnchecked ==
    /\ pc = "dispatch"
    /\ IsData(res) /\ res.kind = "text"
    /\ size' = res.len
    /\ buf' = "message"
    /\ pc' = "text"
    /\ UNCHANGED <<res, closeCode, result, peer, stalled, frame>>

\* handle_ws_text_msg copies the text over the front of the buffer.
DispatchText ==
    /\ pc = "dispatch"
    /\ IsData(res) /\ res.kind = "text" /\ res.len <= MaxMsg
    /\ size' = res.len
    /\ buf' = "message"
    /\ pc' = "text"
    /\ UNCHANGED <<res, closeCode, result, peer, stalled, frame>>

\* Only a binary message of exactly the buffer's length converts to the array.
DispatchBinary ==
    /\ pc = "dispatch"
    /\ IsData(res) /\ res.kind = "binary" /\ res.len <= MaxMsg
    /\ size' = res.len
    /\ \/ /\ res.len = MaxMsg
          /\ buf' = "message"
          /\ pc' = "binary"
          /\ UNCHANGED closeCode
       \/ /\ res.len # MaxMsg
          /\ CloseWith("Unsupported")
          /\ UNCHANGED buf
    /\ UNCHANGED <<res, result, peer, stalled, frame>>

----------------------------------------------------------------------------
(* The callback and the answer.                                            *)

CallbackVetoes ==
    /\ pc \in {"text", "binary"}
    /\ MayVeto
    /\ CloseWith("Normal")
    /\ UNCHANGED <<res, size, buf, result, peer, stalled, frame>>

\* Text: the callback wrote its answer into the buffer, and reset() wipes it.
TextCallback ==
    /\ pc = "text"
    /\ Reset
    /\ pc' = "sendText"
    /\ UNCHANGED <<res, closeCode, result, peer, stalled, frame>>

BinaryCallback ==
    /\ pc = "binary"
    /\ buf' = "callback"
    /\ pc' = "sendBinary"
    /\ UNCHANGED <<res, size, closeCode, result, peer, stalled, frame>>

\* The whole buffer is sent, whatever its size says.  send() waits, without a
\* timeout, while the peer does not read.
Send(at, kind) ==
    /\ pc = at
    /\ \/ /\ peer = "open" /\ ~stalled
          /\ frame' = [kind |-> kind, data |-> buf]
          /\ pc' = "read"
          /\ UNCHANGED closeCode
       \/ /\ peer = "gone"
          /\ CloseWith("Abnormal")
          /\ UNCHANGED frame
    /\ UNCHANGED <<res, size, buf, result, peer, stalled>>

SendText   == Send("sendText", "text")
SendBinary == Send("sendBinary", "binary")

\* Mutant: a close frame that cannot be sent sends the handler back to its loop.
SendCloseRetries ==
    /\ pc = "sendClose"
    /\ peer = "gone" \/ ~stalled
    /\ \/ peer = "open" /\ pc' = "ended" /\ result' = "ok"
       \/ pc' = "read" /\ UNCHANGED result
    /\ UNCHANGED <<res, size, buf, closeCode, peer, stalled, frame>>

\* The close frame, which waits like an answer; when it cannot be sent, or
\* tungstenite has closed already, the handler returns Err.
SendClose ==
    /\ pc = "sendClose"
    /\ peer = "gone" \/ ~stalled
    /\ \/ peer = "open" /\ result' = "ok"
       \/ result' = "err"
    /\ pc' = "ended"
    /\ UNCHANGED <<res, size, buf, closeCode, peer, stalled, frame>>

Dispatch ==
    \/ DispatchNothing \/ DispatchClose \/ DispatchInvalid
    \/ DispatchTooLong \/ DispatchText \/ DispatchBinary

Answer ==
    \/ CallbackVetoes \/ TextCallback \/ BinaryCallback
    \/ SendText \/ SendBinary \/ SendClose

WsNext ==
    \/ PeerVanishes \/ PeerStalls \/ Handshake
    \/ NextMessage \/ NextFails \/ NextEnds \/ ReadTimesOut
    \/ Dispatch \/ Answer

WsSpec == WsInit /\ [][WsNext]_wsVars

\* The task runs when it can: nothing holds it up while it dispatches, a send goes
\* on once the peer reads or is gone, and a stream that is over or a timer that
\* fires wakes it.  Messages, handshakes and reading are up to the peer.
WsFairSpec ==
    /\ WsSpec
    /\ WF_wsVars(Dispatch \/ Answer)
    /\ WF_wsVars(NextEnds)
    /\ WF_wsVars(ReadTimesOut)

----------------------------------------------------------------------------
(* Properties.                                                             *)

\* Types; in particular the handler has a result exactly when it has returned.
WsTypeOK ==
    /\ pc \in {"handshake", "read", "dispatch", "text", "binary", "sendText",
               "sendBinary", "sendClose", "ended"}
    /\ res \in Messages \cup {None, Error}
    /\ size \in 0..(MaxMsg + 1)
    /\ buf \in Origins
    /\ closeCode \in {"Unsupported", "Invalid", "Size", "Normal", "Abnormal"}
    /\ result \in (IF pc = "ended" THEN {"ok", "err"} ELSE {"none"})
    /\ peer \in {"open", "gone"}
    /\ stalled \in BOOLEAN
    /\ frame \in [kind : {"none", "text", "binary"}, data : Origins]

\* The unchecked copy of a text into the buffer, and the callback that is given
\* the buffer, never see a message longer than the buffer.
CopyFits == pc \in {"text", "binary"} => size <= MaxMsg

\* A text answer carries the bytes the callback left in the buffer.
TextReplyIsCallbacks == frame.kind = "text" => frame.data = "callback"

\* Once the peer's close frame is read the handler returns, so that the task ends,
\* although the loop still has a frame of its own to send, without a timeout: it
\* takes a peer that does not leave its end open and unread for ever.
PeerCloseEnds ==
    <>[](peer = "gone" \/ ~stalled) =>
        ((pc = "dispatch" /\ res.kind = "close") ~> (pc = "ended"))

\* handle_ws_connection is a session that may fail; its unit is the frame.
Session == INSTANCE ConnSession WITH
    MaxReply <- 1,
    MayFail <- TRUE,
    phase <- CASE pc \in {"handshake", "read", "dispatch"} -> "reading"
               [] pc \in {"text", "binary"} -> "called"
               [] pc \in {"sendText", "sendBinary"} -> "replying"
               [] pc = "sendClose" -> "closing"
               [] pc = "ended" -> "ended",
    owed <- IF pc \in {"sendText", "sendBinary"} THEN 1 ELSE 0,
    wrote <- IF frame.kind = "none" THEN 0 ELSE 1

\* One message at a time, at most one frame in answer to each, none after the
\* loop was left, and one end.
ImplementsSession == Session!Spec
============================================================================
