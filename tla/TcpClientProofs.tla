-------------------------- MODULE TcpClientProofs --------------------------
(***************************************************************************)
(* Theorems about TcpClient for any size of buffers and socket queues, any *)
(* callbacks and any timeouts, over plain TCP and TLS: what                *)
(* on_close_connection tells of, that the two ends never hold each other   *)
(* up in their writes, and that over TLS they take turns.                  *)
(***************************************************************************)
EXTENDS TcpClient, TLAPS

\* A read or a write moves at least one byte, and no more than either bound.
LEMMA MovedRange ==
  ASSUME NEW a \in Nat, NEW b \in Nat, NEW n \in 1..Min({a, b})
  PROVE  n \in Nat \ {0} /\ n <= a /\ n <= b
<1>1. Min({a, b}) \in {a, b} /\ \A y \in {a, b} : Min({a, b}) <= y
  <2>1. \E x \in {a, b} : \A y \in {a, b} : x <= y
    OBVIOUS
  <2>2. QED
    BY <2>1 DEF Min
<1>2. QED
  BY <1>1

LEMMA Sizes ==
  /\ MaxMsg \in Nat /\ Cap \in Nat \ {0}
  /\ OnEmpty \subseteq 0..MaxMsg /\ DataReplies \subseteq Nat
BY ClientAssumption

----------------------------------------------------------------------------
(* The callbacks that announce the connection and take it back.            *)

\* What CloseOnlyAfterVeto needs: how often each callback ran, by where client()
\* is, and that only a veto leads to on_close_connection.
CallsInv ==
    /\ calls \in [accept : {0, 1}, close : {0, 1}]
    /\ calls.accept = 0 => cpc \in {"address", "returned"}
    /\ cpc = "address" => calls.accept = 0
    /\ calls.close = 1 => calls.accept = 1 /\ cpc = "returned"
    /\ vetoed \in BOOLEAN
    /\ vetoed <=> cpc = "closing" \/ calls.close = 1

\* A step that calls neither callback, is no veto and goes neither to the start
\* nor to the end of client() leaves all of it as it was.
LEMMA CallsKept ==
  ASSUME CallsInv, UNCHANGED <<vetoed, calls>>,
         \/ UNCHANGED cpc
         \/ cpc \notin {"address", "closing", "returned"} /\ cpc' \notin {"address", "closing"}
  PROVE  CallsInv'
<1>1. vetoed' \in BOOLEAN /\ vetoed' = vetoed
  BY Zenon DEF CallsInv
<1>2. QED
  BY <1>1 DEF CallsInv

LEMMA CallsStep == CallsInv /\ [Next]_vars => CallsInv'
<1> SUFFICES ASSUME CallsInv, [Next]_vars PROVE CallsInv'
  OBVIOUS
<1> USE DEF clientVars, serverVars, wire, downQ, upQ, Return
<1>1. CASE UNCHANGED clientVars
  BY <1>1, CallsKept
<1>2. CASE SetupFails
  <2>1. vetoed' = vetoed /\ vetoed' \in BOOLEAN
    BY <1>2, Zenon DEF CallsInv, SetupFails
  <2>2. QED
    BY <1>2, <2>1 DEF CallsInv, SetupFails
<1>3. CASE OnAcceptConnection
  <2>1. vetoed' = vetoed /\ vetoed' \in BOOLEAN
    BY <1>3, Zenon DEF CallsInv, OnAcceptConnection
  <2>2. /\ calls.accept = 0 /\ calls.close = 0
        /\ calls' = [accept |-> 1, close |-> 0]
    BY <1>3 DEF CallsInv, OnAcceptConnection
  <2>3. QED
    BY <1>3, <2>1, <2>2 DEF CallsInv, OnAcceptConnection
<1>4. CASE OnCloseConnection
  <2>1. vetoed' = vetoed /\ vetoed' \in BOOLEAN
    BY <1>4, Zenon DEF CallsInv, OnCloseConnection
  <2>2. /\ calls.accept = 1 /\ calls.close = 0 /\ vetoed
        /\ calls' = [accept |-> 1, close |-> 1]
    BY <1>4 DEF CallsInv, OnCloseConnection
  <2>3. QED
    BY <1>4, <2>1, <2>2 DEF CallsInv, OnCloseConnection
<1>5. CASE OnMessageVetoes
  <2>1. vetoed' = TRUE /\ vetoed' \in BOOLEAN
    BY <1>5, Zenon DEF OnMessageVetoes
  <2>2. QED
    BY <1>5, <2>1 DEF CallsInv, OnMessageVetoes
<1>6. CASE LoadRootCa \/ LoadRootCaPanics \/ Connect \/ Handshake
  BY <1>6, CallsKept DEF LoadRootCa, LoadRootCaPanics, Connect, Handshake
<1>7. CASE OnMessage \/ OnMessageOversteps \/ Write \/ Flush \/ WriteFails
  BY <1>7, CallsKept DEF OnMessage, OnMessageOversteps, Write, Flush, WriteFails
<1>8. CASE ReadPending \/ ReadBytes \/ ReadEof \/ ReadFails \/ ReadTimesOut
  BY <1>8, CallsKept DEF ReadPending, ReadBytes, ReadEof, ReadFails, ReadTimesOut
<1>9. QED
  BY <1>1, <1>2, <1>3, <1>4, <1>5, <1>6, <1>7, <1>8
  DEF Next, Client, Setup, Loop, Server, ServerReads, ServerLoop, ServerWrites,
      ServerFlushes, Stack,
      ServerCloses, ResetArrives, ClientCloses, vars

LEMMA CallsAlways == Spec => []CallsInv
<1>1. Init => CallsInv
  <2> SUFFICES ASSUME Init PROVE CallsInv
    OBVIOUS
  <2>1. vetoed = FALSE /\ vetoed \in BOOLEAN
    BY Zenon DEF Init
  <2>2. QED
    BY <2>1 DEF Init, CallsInv
<1>2. QED
  BY <1>1, CallsStep, PTL DEF Spec

\* on_close_connection follows the client's own veto and nothing else: a client
\* that a timeout, a reset or a failed set-up ended is never taken back.
THEOREM CloseFollowsVeto == Spec => []CloseOnlyAfterVeto
<1>1. CallsInv => CloseOnlyAfterVeto
  BY DEF CallsInv, CloseOnlyAfterVeto
<1>2. QED
  BY <1>1, CallsAlways, PTL

----------------------------------------------------------------------------
(* The two socket queues.                                                  *)

ClientStates ==
    {"address", "rootca", "connect", "handshake", "callback", "write", "flush",
     "read", "wait", "closing", "returned", "panicked"}

\* The part of the types that the queues depend on.
QueueTypes ==
    /\ cpc \in ClientStates
    /\ spc \in {"read", "wait", "callback", "write", "flush", "ended", "panicked"}
    /\ size \in 0..MaxMsg /\ ssize \in Nat /\ swrote \in 0..MaxMsg
    /\ cpc \in {"write", "flush"} => size > 0
    /\ spc \in {"write", "flush"} => ssize \in 1..MaxMsg
    /\ view \in {"none", "handshake", "open", "shut", "refused", "reset"}
    /\ speer \in {"open", "shut", "cut", "reset"}
    /\ down \in 0..Cap /\ up \in 0..Cap

\* Whoever of the two came last to its callback took a byte from the other's queue
\* to get there, and the other writes nothing more before it reads.  Before the
\* connection is there the server has not read.
BlockInv ==
    /\ cpc \in {"address", "rootca", "connect"} => view = "none"
    /\ cpc = "handshake" => view = "handshake"
    /\ view \in {"none", "handshake"} => spc = "read"
    /\ ClientAnswers /\ ServerAnswers /\ view = "open" /\ speer = "open"
          => ~(up = Cap /\ down = Cap)

\* Over TLS: nothing is on its way and at most one end answers, or one record is
\* on its way, one way or the other, and nobody answers.
TurnInv ==
    \/ up = 0 /\ upRecs = <<>> /\ down = 0 /\ downRecs = <<>>
       /\ ~(ClientAnswers /\ ServerAnswers)
    \/ up \in 1..MaxMsg /\ upRecs = <<up>> /\ down = 0 /\ downRecs = <<>>
       /\ ~ClientAnswers /\ ~ServerAnswers
    \/ down \in 1..MaxMsg /\ downRecs = <<down>> /\ up = 0 /\ upRecs = <<>>
       /\ ~ClientAnswers /\ ~ServerAnswers

\* What each of the two kinds of stream excludes.
RecordInv ==
    IF tls THEN MaxMsg <= Cap /\ speer # "shut" /\ TurnInv
           ELSE /\ upRecs = <<>> /\ downRecs = <<>>
                /\ cpc # "flush" /\ spc # "flush"

\* Before the client's first callback nothing was sent and the server only waits.
StartInv ==
    view \in {"none", "handshake"} => up = 0 /\ down = 0

ClientInv == QueueTypes /\ BlockInv /\ StartInv /\ RecordInv

LEMMA ClientStepInv == ClientInv /\ Client => ClientInv'
<1> SUFFICES ASSUME ClientInv, Client PROVE ClientInv'
  OBVIOUS
<1> USE Sizes
    DEF clientVars, serverVars, wire, downQ, upQ, Return, ClientInv, QueueTypes,
        BlockInv, StartInv, RecordInv, TurnInv, ClientAnswers, ServerAnswers,
        ClientStates
<1>1. CASE SetupFails
  BY <1>1 DEF SetupFails
<1>2. CASE OnAcceptConnection \/ LoadRootCa \/ LoadRootCaPanics
  BY <1>2 DEF OnAcceptConnection, LoadRootCa, LoadRootCaPanics
<1>3. CASE Connect \/ Handshake
  BY <1>3 DEF Connect, Handshake
<1>4. CASE OnMessageVetoes \/ OnMessageOversteps \/ OnCloseConnection
  BY <1>4 DEF OnMessageVetoes, OnMessageOversteps, OnCloseConnection
<1>5. CASE OnMessage
  <2>1. size' \in 0..MaxMsg
    BY <1>5 DEF OnMessage, Replies
  <2>2. QED
    BY <1>5, <2>1 DEF OnMessage
<1>6. CASE Write
  <2>1. CASE tls
    BY <1>6, <2>1 DEF Write
  <2>2. CASE ~tls
    <3>1. PICK n \in 1..size : Sends(n)
      BY <1>6, <2>2 DEF Write
    <3>2. up' \in 0..Cap
      BY <3>1 DEF Sends
    <3>3. QED
      BY <1>6, <2>2, <3>1, <3>2 DEF Write, Sends
  <2>3. QED
    BY <2>1, <2>2
<1>7. CASE Flush
  <2>1. up' \in 0..Cap
    BY <1>7 DEF Flush, Sends
  <2>2. CASE ~tls
    BY <1>7, <2>1, <2>2 DEF Flush, Sends
  <2>3. CASE tls
    <3>1. up = 0 /\ upRecs = <<>> /\ down = 0 /\ downRecs = <<>> /\ ~ServerAnswers
      BY <1>7, <2>3 DEF Flush
    <3>2. \/ up' = size /\ upRecs' = <<size>>
          \/ UNCHANGED upQ
      BY <1>7, <2>3, <3>1 DEF Flush, Sends
    <3>3. QED
      BY <1>7, <2>1, <2>3, <3>1, <3>2 DEF Flush, Sends
  <2>4. QED
    BY <2>2, <2>3
<1>8. CASE WriteFails \/ ReadPending \/ ReadFails \/ ReadTimesOut
  BY <1>8 DEF WriteFails, ReadPending, ReadFails, ReadTimesOut
<1>9. CASE ReadBytes
  <2>1. PICK n \in 1..Min({down, MaxMsg}) :
           size' = n /\ down' = down - n /\ (tls => n = Head(downRecs))
    BY <1>9 DEF ReadBytes
  <2>2. n \in Nat \ {0} /\ n <= down /\ n <= MaxMsg
    BY MovedRange
  <2>3. down' \in 0..Cap /\ down' < Cap /\ size' \in 0..MaxMsg
    BY <2>1, <2>2
  <2>4. CASE ~tls
    BY <1>9, <2>3, <2>4 DEF ReadBytes
  <2>5. CASE tls
    <3>1. downRecs = <<down>> /\ up = 0 /\ upRecs = <<>> /\ ~ServerAnswers
      BY <2>2, <2>5
    <3>2. down' = 0 /\ downRecs' = <<>>
      BY <1>9, <2>1, <2>2, <2>5, <3>1 DEF ReadBytes
    <3>3. QED
      BY <1>9, <2>3, <2>5, <3>1, <3>2 DEF ReadBytes
  <2>6. QED
    BY <2>4, <2>5
<1>10. CASE ReadEof
  BY <1>10 DEF ReadEof
<1>11. QED
  BY <1>1, <1>2, <1>3, <1>4, <1>5, <1>6, <1>7, <1>8, <1>9, <1>10
  DEF Client, Setup, Loop

LEMMA ServerStepInv == ClientInv /\ Server => ClientInv'
<1> SUFFICES ASSUME ClientInv, Server PROVE ClientInv'
  OBVIOUS
<1> USE Sizes
    DEF clientVars, serverVars, wire, downQ, upQ, ClientInv, QueueTypes, BlockInv,
        StartInv, RecordInv, TurnInv, ClientAnswers, ServerAnswers, ClientStates,
        S!peerVars, S!Leave
<1>0. view \notin {"none", "handshake"} /\ UNCHANGED <<clientVars, view>>
  BY DEF Server, ServerReads, ServerLoop, ServerWrites, ServerFlushes, Served
<1>1. CASE ServerReads
  <2>1. PICK n \in 1..Min({up, MaxMsg}) : up' = up - n /\ ssize' = n
    BY <1>1 DEF ServerReads, S!ReadBytes, S!Min, Min
  <2>2. n \in Nat \ {0} /\ n <= up /\ n <= MaxMsg
    BY MovedRange
  <2>3. up' \in 0..Cap /\ up' < Cap /\ ssize' \in 0..MaxMsg
    BY <2>1, <2>2
  <2>4. /\ spc' = "callback" /\ UNCHANGED <<tls, swrote, speer, down, downRecs>>
        /\ upRecs' = IF tls THEN Tail(upRecs) ELSE upRecs
    BY <1>1 DEF ServerReads, S!ReadBytes
  <2>5. CASE ~tls
    BY <1>0, <2>3, <2>4, <2>5
  <2>6. CASE tls
    <3>1. upRecs = <<up>> /\ down = 0 /\ downRecs = <<>> /\ ~ClientAnswers
      BY <2>2, <2>6
    <3>2. ssize' = up /\ upRecs' = <<>>
      BY <1>1, <2>4, <2>6, <3>1 DEF ServerReads
    <3>3. up' = 0
      BY <2>1, <3>2
    <3>4. QED
      BY <1>0, <2>3, <2>4, <2>6, <3>1, <3>2, <3>3
  <2>7. QED
    BY <2>5, <2>6
<1>2. CASE ServerLoop /\ (S!ReadPending \/ S!ReadEof)
  <2>1. /\ UNCHANGED <<tls, swrote, speer, up, down, upRecs, downRecs>>
        /\ ssize' \in {0, ssize}
        /\ spc' \in {"wait", "callback"}
        /\ (spc' = "callback" => speer = "shut")
    BY <1>2 DEF ServerLoop, S!ReadPending, S!ReadEof
  <2>2. tls => speer # "shut"
    OBVIOUS
  <2>3. QED
    BY <1>0, <2>1, <2>2
<1>3. CASE ServerLoop /\ (S!ReadFails \/ S!ReadTimesOut)
  BY <1>0, <1>3 DEF ServerLoop, S!ReadFails, S!ReadTimesOut
<1>4. CASE ServerLoop /\ (S!CallbackVetoes \/ S!WriteFails)
  BY <1>0, <1>4 DEF ServerLoop, S!CallbackVetoes, S!WriteFails
<1>5. CASE ServerLoop /\ (S!CallbackAnswers \/ S!CallbackOversteps)
  <2>1. ssize' \in Nat
    BY <1>5 DEF S!CallbackAnswers, S!CallbackOversteps
  <2>2. /\ UNCHANGED <<tls, swrote, speer, up, down, upRecs, downRecs>>
        /\ spc = "callback" /\ spc' \in {"write", "read", "panicked"}
        /\ (spc' = "write" => ssize' \in 1..MaxMsg)
    BY <1>5, <2>1 DEF ServerLoop, S!CallbackAnswers, S!CallbackOversteps
  <2>3. QED
    BY <1>0, <2>1, <2>2
<1>6. CASE ServerWrites
  <2>1. /\ swrote' \in 0..MaxMsg /\ spc = "write" /\ UNCHANGED <<tls, speer, ssize>>
        /\ spc' = (IF tls THEN "flush" ELSE "read") /\ UNCHANGED <<up, upRecs>>
    BY <1>6 DEF ServerWrites, S!Write
  <2>2. down' \in 0..Cap /\ downRecs' = downRecs /\ (tls => down' = down)
    BY <1>6, <2>1 DEF ServerWrites, ServerSends
  <2>3. QED
    BY <1>0, <2>1, <2>2
<1>7. CASE ServerFlushes
  <2>1. /\ spc = "flush" /\ spc' = "read"
        /\ UNCHANGED <<tls, speer, ssize, swrote, up, upRecs>>
    BY <1>7 DEF ServerFlushes, S!Flush
  <2>2. down' \in 0..Cap /\ ServerSends(ssize)
    BY <1>7 DEF ServerFlushes, ServerSends
  <2>3. CASE ~tls
    BY <1>0, <2>1, <2>2, <2>3 DEF ServerSends
  <2>4. CASE tls
    <3>1. up = 0 /\ upRecs = <<>> /\ down = 0 /\ downRecs = <<>> /\ ~ClientAnswers
      BY <2>1, <2>4
    <3>2. \/ down' = ssize /\ downRecs' = <<ssize>>
          \/ UNCHANGED downQ
      BY <2>2, <2>4, <3>1 DEF ServerSends
    <3>3. QED
      BY <1>0, <2>1, <2>2, <2>4, <3>1, <3>2
  <2>5. QED
    BY <2>3, <2>4
<1>8. QED
  BY <1>1, <1>2, <1>3, <1>4, <1>5, <1>6, <1>7 DEF Server, ServerLoop, S!Callback

LEMMA StackStepInv == ClientInv /\ Stack => ClientInv'
<1> SUFFICES ASSUME ClientInv, Stack PROVE ClientInv'
  OBVIOUS
<1> USE Sizes
    DEF clientVars, serverVars, wire, downQ, upQ, ClientInv, QueueTypes, BlockInv,
        StartInv, RecordInv, TurnInv, ClientAnswers, ServerAnswers, ClientStates
<1>1. CASE ServerCloses
  BY <1>1 DEF ServerCloses
<1>2. CASE ResetArrives
  BY <1>2 DEF ResetArrives
<1>3. CASE ClientCloses
  BY <1>3 DEF ClientCloses, Served
<1>4. QED
  BY <1>1, <1>2, <1>3 DEF Stack

LEMMA QueuesAlways == Spec => []ClientInv
<1>1. Init => ClientInv
  BY Sizes DEF Init, ClientInv, QueueTypes, BlockInv, StartInv, RecordInv, TurnInv,
               ClientAnswers, ServerAnswers, ClientStates
<1>2. ClientInv /\ [Next]_vars => ClientInv'
  <2>1. ClientInv /\ UNCHANGED vars => ClientInv'
    BY DEF ClientInv, QueueTypes, BlockInv, StartInv, RecordInv, TurnInv,
           ClientAnswers, ServerAnswers, vars, clientVars, serverVars, wire, downQ, upQ
  <2>2. QED
    BY <2>1, ClientStepInv, ServerStepInv, StackStepInv DEF Next
<1>3. QED
  BY <1>1, <1>2, PTL DEF Spec

\* The two ends are never both held up by a full queue, for any length of the
\* queues and the buffers and whatever the callbacks answer: neither in a write
\* to a socket nor in the flush of a TLS session.
THEOREM WritesNeverBlockEachOther == Spec => []NoMutualWriteBlock
<1>1. ClientInv => NoMutualWriteBlock
  BY Sizes DEF ClientInv, QueueTypes, BlockInv, RecordInv, TurnInv, ClientAnswers,
         ServerAnswers, NoMutualWriteBlock, ClientHeld, ServerHeld
<1>2. QED
  BY <1>1, QueuesAlways, PTL

\* Over TLS the two ends take turns, for any buffers, queues and callbacks.
THEOREM TurnsAreTaken == Spec => []TurnTaking
<1>1. ClientInv => TurnTaking
  BY DEF ClientInv, RecordInv, TurnInv, TurnTaking
<1>2. QED
  BY <1>1, QueuesAlways, PTL

\* Both ends keep their types; no socket queue ever holds more than it can, and
\* each callback of client() runs at most once.
THEOREM TypeCorrect == Spec => []TypeOK
<1> DEFINE TlsType == tls \in BOOLEAN
<1>1. Spec => []TlsType
  <2>1. Init => TlsType
    BY DEF Init
  <2>2. TlsType /\ [Next]_vars => TlsType'
    <3> SUFFICES ASSUME TlsType, [Next]_vars PROVE TlsType'
      OBVIOUS
    <3>1. UNCHANGED tls
      BY DEF Next, Client, SetupFails, Setup, OnAcceptConnection, LoadRootCa,
         LoadRootCaPanics, Connect, Handshake, Loop, OnMessageVetoes, OnMessage,
         OnMessageOversteps, Write, Flush, WriteFails, ReadPending, ReadBytes,
         ReadEof, ReadFails, ReadTimesOut, OnCloseConnection, Server, ServerReads,
         ServerLoop, ServerWrites, ServerFlushes, Stack, ServerCloses, ResetArrives,
         ClientCloses, S!ReadBytes, S!ReadPending, S!ReadEof, S!ReadFails,
         S!ReadTimesOut, S!Callback, S!CallbackVetoes, S!CallbackAnswers,
         S!CallbackOversteps, S!WriteFails, S!Write, S!Flush, S!peerVars, vars, wire
    <3>2. QED
      BY <3>1
  <2>3. QED
    BY <2>1, <2>2, PTL DEF Spec
<1>2. ClientInv => downRecs \in Seq(1..MaxMsg) /\ upRecs \in Seq(1..MaxMsg)
  <2>1. <<>> \in Seq(1..MaxMsg) /\ \A n \in 1..MaxMsg : <<n>> \in Seq(1..MaxMsg)
    OBVIOUS
  <2>2. QED
    BY <2>1 DEF ClientInv, RecordInv, TurnInv
<1>3. CallsInv /\ ClientInv /\ TlsType => TypeOK
  BY <1>2, Zenon DEF CallsInv, ClientInv, QueueTypes, ClientStates, TypeOK
<1>4. QED
  BY <1>1, <1>3, CallsAlways, QueuesAlways, PTL
============================================================================
