-------------------------- MODULE TcpServerProofs --------------------------
(***************************************************************************)
(* Theorems about tcp_server.rs: TcpServer, for any sets of peers and      *)
(* senders and any number of runs and requests, and WsConnection, the      *)
(* websocket handler its tasks run, for any buffer and message.            *)
(***************************************************************************)
EXTENDS TcpServer, WsConnection, TLAPS

\* server() and the threads around it keep the types: every action is one that
\* assigns within the ranges, and try_recv never overtakes what was sent.
THEOREM TypeCorrect == Spec => []TypeOK
<1> USE DEF SrvStates, TaskStates, chan, conns
<1>1. Init => TypeOK
  <2> SUFFICES ASSUME Init PROVE TypeOK
    OBVIOUS
  <2>1. erred \in BOOLEAN
    BY Zenon DEF Init
  <2>2. QED
    BY <2>1 DEF Init, TypeOK
<1>2. TypeOK /\ [Next]_vars => TypeOK'
  <2> SUFFICES ASSUME TypeOK, [Next]_vars PROVE TypeOK'
    OBVIOUS
  <2>1. CASE UNCHANGED vars
    BY <2>1 DEF TypeOK, vars
  <2>2. CASE SetupFails \/ Bind
    BY <2>2 DEF TypeOK, SetupFails, Bind
  <2>3. CASE OnBindSocket \/ AcceptTimesOut \/ AcceptErrors
    BY <2>3 DEF TypeOK, OnBindSocket, AcceptTimesOut, AcceptErrors
  <2>4. CASE OnCloseSocket \/ CallServer
    <3>1. /\ runs' \in Nat \ {0} /\ srv' \in SrvStates
          /\ 1..runs \subseteq 1..runs'
      BY <2>4 DEF TypeOK, OnCloseSocket, CallServer
    <3>2. UNCHANGED <<chan, conns>>
      BY <2>4 DEF OnCloseSocket, CallServer
    <3>3. erred' \in BOOLEAN
      BY <2>4, Zenon DEF TypeOK, OnCloseSocket, CallServer
    <3>4. QED
      BY <3>1, <3>2, <3>3 DEF TypeOK
  <2>5. CASE BindCallbackFails \/ LeaveLoop
    BY <2>5 DEF TypeOK, BindCallbackFails, LeaveLoop, DropListener
  <2>6. CASE CheckShutdown
    <3>1. CASE UNCHANGED chan /\ srv' = "accept"
      BY <2>6, <3>1 DEF TypeOK, CheckShutdown
    <3>2. CASE TryRecv
      <4>1. /\ head \in Nat /\ Len(sent) \in Nat
            /\ head' = head + 1 /\ head' <= Len(sent) /\ UNCHANGED sent
        BY <3>2 DEF TypeOK, TryRecv
      <4>2. runs' = runs /\ stops' \subseteq stops \cup {<<runs, head'>>}
        BY <2>6, <3>2, <4>1 DEF TryRecv, CheckShutdown
      <4>3. /\ head' \in 0..Len(sent')
            /\ stops' \subseteq (1..runs') \X (1..head')
        BY <4>1, <4>2 DEF TypeOK
      <4>4. QED
        BY <2>6, <3>2, <4>1, <4>3 DEF TypeOK, CheckShutdown, TryRecv
    <3>3. QED
      BY <2>6, <3>1, <3>2 DEF CheckShutdown, TryLockFails, ChannelEmpty
  <2>7. ASSUME NEW p \in Peers, Accept(p) PROVE TypeOK'
    BY <2>7 DEF TypeOK, Accept
  <2>8. ASSUME NEW s \in Senders, Lock(s) PROVE TypeOK'
    BY <2>8 DEF TypeOK, Lock
  <2>9. ASSUME NEW s \in Senders, SendUnlock(s) PROVE TypeOK'
    <3>1. PICK b \in BOOLEAN : sent' = Append(sent, b)
      BY <2>9 DEF SendUnlock
    <3>2. sent' \in Seq(BOOLEAN) /\ Len(sent') = Len(sent) + 1
      BY <3>1 DEF TypeOK
    <3>3. QED
      BY <2>9, <3>2 DEF TypeOK, SendUnlock
  <2>10. ASSUME NEW p \in Peers, Connect(p) PROVE TypeOK'
    BY <2>10 DEF TypeOK, Connect
  <2>11. ASSUME NEW p \in Peers, TlsAccept(p) PROVE TypeOK'
    BY <2>11 DEF TypeOK, TlsAccept
  <2>12. ASSUME NEW p \in Peers, OnAcceptConnection(p) PROVE TypeOK'
    BY <2>12 DEF TypeOK, OnAcceptConnection
  <2>13. ASSUME NEW p \in Peers, HandlerReturns(p) PROVE TypeOK'
    BY <2>13 DEF TypeOK, HandlerReturns
  <2>14. ASSUME NEW p \in Peers, HandlerFails(p) PROVE TypeOK'
    BY <2>14 DEF TypeOK, HandlerFails
  <2>15. ASSUME NEW p \in Peers, OnCloseConnection(p) PROVE TypeOK'
    BY <2>15 DEF TypeOK, OnCloseConnection
  <2>16. QED
    BY <2>1, <2>2, <2>3, <2>4, <2>5, <2>6, <2>7, <2>8,
       <2>9, <2>10, <2>11, <2>12, <2>13, <2>14, <2>15
    DEF Next, ServerStep, SenderStep, TaskStep
<1>3. QED
  BY <1>1, <1>2, PTL DEF Spec

----------------------------------------------------------------------------
\* A request, consumed by whichever run polls the channel next, stops that run
\* and no other, and that run consumes no other.
THEOREM RequestStopsOneRun == Spec => []OneRunPerRequest
<1>1. Init => OneRunPerRequest
  BY DEF Init, OneRunPerRequest
<1>2. TypeOK /\ OneRunPerRequest /\ [Next]_vars => OneRunPerRequest'
  <2> SUFFICES ASSUME TypeOK, OneRunPerRequest, [Next]_vars
               PROVE  OneRunPerRequest'
    OBVIOUS
  <2>0. \A s \in stops : s[1] \in 1..runs /\ s[2] \in 1..head
    BY DEF TypeOK
  <2>1. CASE CheckShutdown
    <3>1. InLoop /\ runs' = runs
      BY <2>1 DEF CheckShutdown, InLoop
    <3>2. CASE srv' = "accept" /\ UNCHANGED stops
      BY <3>1, <3>2 DEF OneRunPerRequest, InLoop
    <3>3. CASE srv' = "stopping" /\ stops' = stops \cup {<<runs, head + 1>>}
      <4>1. \A s \in stops : s[1] # runs /\ s[2] # head + 1
        BY <2>0, <3>1 DEF OneRunPerRequest, TypeOK
      <4>2. QED
        BY <3>3, <4>1 DEF OneRunPerRequest, InLoop
    <3>4. QED
      BY <2>1, <3>2, <3>3
      DEF CheckShutdown, TryLockFails, ChannelEmpty, TryRecv, chan
  <2>2. CASE CallServer
    BY <2>0, <2>2 DEF CallServer, OneRunPerRequest, InLoop, TypeOK, chan
  <2>3. ASSUME UNCHANGED <<runs, stops>>,
               srv' \in {"setup", "bound"} \/ InLoop'
                  => srv \in {"setup", "bound"} \/ InLoop
        PROVE  OneRunPerRequest'
    BY <2>3 DEF OneRunPerRequest
  <2>4. CASE ServerStep /\ ~CheckShutdown /\ ~CallServer
    BY <2>4, <2>3 DEF ServerStep, SetupFails, Bind, BindCallbackFails, OnBindSocket,
       Accept, AcceptTimesOut, AcceptErrors, LeaveLoop, OnCloseSocket, InLoop, chan
  <2>5. CASE UNCHANGED vars \/ (\E s \in Senders : SenderStep(s))
               \/ (\E p \in Peers : Connect(p) \/ TaskStep(p))
    BY <2>5, <2>3 DEF SenderStep, Lock, SendUnlock, Connect, TaskStep, TlsAccept,
       OnAcceptConnection, HandlerReturns, HandlerFails, OnCloseConnection, InLoop,
       vars, chan
  <2>6. QED
    BY <2>1, <2>2, <2>4, <2>5 DEF Next
<1>3. QED
  BY <1>1, <1>2, TypeCorrect, PTL DEF Spec

----------------------------------------------------------------------------
\* Steps that leave a connection's task, and what is counted of it, alone.
LEMMA TaskFrame ==
  ASSUME [Next]_vars
  PROVE  \/ BindCallbackFails \/ LeaveLoop
         \/ \E p \in Peers : Accept(p) \/ Connect(p) \/ TaskStep(p)
         \/ UNCHANGED <<task, acceptOk, closeCalls>>
BY DEF Next, vars, ServerStep, SenderStep, SetupFails, Bind, OnBindSocket,
       CheckShutdown, AcceptTimesOut, AcceptErrors, OnCloseSocket, CallServer,
       Lock, SendUnlock, conns

\* CloseCallbackPaired with what makes it inductive: what the answer of
\* on_accept_connection is while the task is before, in or after its handler.
CloseInv ==
    /\ CloseCallbackPaired
    /\ \A p \in Peers :
          /\ task[p] \in {"serving", "closing"} => acceptOk[p]
          /\ task[p] \in {"idle", "backlog", "tls", "accepting"} => ~acceptOk[p]

\* The close callback follows the accept callback, once, on every path of
\* accept_connection and for tasks that outlive the server.
THEOREM CloseFollowsAccept == Spec => []CloseCallbackPaired
<1>1. Init => CloseInv
  BY DEF Init, CloseInv, CloseCallbackPaired
<1>2. TypeOK /\ CloseInv /\ [Next]_vars => CloseInv'
  <2> SUFFICES ASSUME TypeOK, CloseInv, [Next]_vars PROVE CloseInv'
    OBVIOUS
  <2> USE DEF TypeOK, CloseInv, CloseCallbackPaired, TaskStates, conns, chan
  <2>1. CASE BindCallbackFails \/ LeaveLoop
    BY <2>1 DEF BindCallbackFails, LeaveLoop, DropListener
  <2>2. ASSUME NEW p \in Peers, Accept(p) \/ Connect(p) PROVE CloseInv'
    BY <2>2 DEF Accept, Connect
  <2>3. ASSUME NEW p \in Peers, TlsAccept(p) PROVE CloseInv'
    BY <2>3 DEF TlsAccept
  <2>4. ASSUME NEW p \in Peers, OnAcceptConnection(p) PROVE CloseInv'
    BY <2>4 DEF OnAcceptConnection
  <2>5. ASSUME NEW p \in Peers, HandlerReturns(p) \/ HandlerFails(p) PROVE CloseInv'
    BY <2>5 DEF HandlerReturns, HandlerFails
  <2>6. ASSUME NEW p \in Peers, OnCloseConnection(p) PROVE CloseInv'
    BY <2>6 DEF OnCloseConnection
  <2>7. CASE UNCHANGED <<task, acceptOk, closeCalls>>
    BY <2>7
  <2>8. QED
    BY <2>1, <2>2, <2>3, <2>4, <2>5, <2>6, <2>7, TaskFrame DEF TaskStep
<1>3. CloseInv => CloseCallbackPaired
  BY DEF CloseInv
<1>4. QED
  BY <1>1, <1>2, <1>3, TypeCorrect, PTL DEF Spec

----------------------------------------------------------------------------
(* The websocket handler.                                                  *)

\* No text or binary message that is copied into the buffer, or handed to the
\* callback, is longer than the buffer: every path to the callback checks the length.
THEOREM WsCopyFits == WsSpec => []CopyFits
<1>1. WsInit => CopyFits
  BY DEF WsInit, CopyFits
<1>2. CopyFits /\ [WsNext]_wsVars => CopyFits'
  <2> SUFFICES ASSUME CopyFits, [WsNext]_wsVars PROVE CopyFits'
    OBVIOUS
  <2> USE DEF CopyFits
  <2>1. CASE PeerVanishes \/ PeerStalls \/ UNCHANGED wsVars
    BY <2>1 DEF PeerVanishes, PeerStalls, wsVars
  <2>2. CASE Handshake
    BY <2>2 DEF Handshake
  <2>3. CASE NextMessage \/ NextFails \/ NextEnds \/ ReadTimesOut
    BY <2>3 DEF NextMessage, NextFails, NextEnds, ReadTimesOut, Received
  <2>4. CASE DispatchNothing \/ DispatchClose \/ DispatchInvalid \/ DispatchTooLong
    BY <2>4 DEF DispatchNothing, DispatchClose, DispatchInvalid,
                DispatchTooLong, CloseWith
  <2>5. CASE DispatchText \/ DispatchBinary
    BY <2>5 DEF DispatchText, DispatchBinary
  <2>6. CASE Answer
    BY <2>6 DEF Answer, CallbackVetoes, TextCallback, BinaryCallback,
                SendText, SendBinary, Send, SendClose, CloseWith
  <2>7. QED
    BY <2>1, <2>2, <2>3, <2>4, <2>5, <2>6 DEF WsNext, Dispatch
<1>3. QED
  BY <1>1, <1>2, PTL DEF WsSpec

\* handle_ws_connection is a session: a message at a time, at most one frame in
\* answer, none once the loop was left, and one end; frames in the place of bytes.
THEOREM WsRefinesSession == WsSpec => ImplementsSession
<1>1. WsInit => Session!Init
  BY DEF WsInit, NoFrame, Session!Init
<1>2. [WsNext]_wsVars => [Session!Next]_(Session!svars)
  <2> SUFFICES ASSUME [WsNext]_wsVars PROVE [Session!Next]_(Session!svars)
    OBVIOUS
  <2> USE DEF Session!Next, Session!svars
  <2>1. CASE PeerVanishes \/ PeerStalls \/ UNCHANGED wsVars
    BY <2>1 DEF PeerVanishes, PeerStalls, wsVars
  <2>2. CASE NextMessage \/ NextFails \/ NextEnds \/ ReadTimesOut
    BY <2>2 DEF NextMessage, NextFails, NextEnds, ReadTimesOut, Received
  <2>3. CASE Handshake
    <3>1. CASE pc' = "read"
      BY <2>3, <3>1 DEF Handshake
    <3>2. CASE pc' = "ended" /\ result' = "err"
      <4>1. Session!End
        BY <2>3, <3>2 DEF Handshake, Session!End, Session!Results
      <4>2. QED
        BY <4>1
    <3>3. QED
      BY <2>3, <3>1, <3>2 DEF Handshake
  <2>4. CASE DispatchNothing
    BY <2>4 DEF DispatchNothing
  <2>5. CASE \/ DispatchClose \/ DispatchInvalid \/ DispatchTooLong
             \/ CallbackVetoes
    <3>1. Session!Close
      BY <2>5 DEF DispatchClose, DispatchInvalid, DispatchTooLong,
                  CallbackVetoes, CloseWith, Session!Close
    <3>2. QED
      BY <3>1
  <2>6. CASE DispatchText
    <3>1. Session!Call
      BY <2>6 DEF DispatchText, Session!Call
    <3>2. QED
      BY <3>1
  <2>7. CASE DispatchBinary
    <3>1. CASE pc' = "binary"
      <4>1. Session!Call
        BY <2>7, <3>1 DEF DispatchBinary, Session!Call
      <4>2. QED
        BY <4>1
    <3>2. CASE pc' = "sendClose"
      <4>1. Session!Close
        BY <2>7, <3>2 DEF DispatchBinary, Session!Close
      <4>2. QED
        BY <4>1
    <3>3. QED
      BY <2>7, <3>1, <3>2 DEF DispatchBinary, CloseWith
  <2>8. CASE TextCallback \/ BinaryCallback
    <3>1. 1 \in 1..1
      OBVIOUS
    <3>2. Session!Answer
      BY <2>8, <3>1 DEF TextCallback, BinaryCallback, Session!Answer
    <3>3. QED
      BY <3>2
  <2>9. CASE SendText \/ SendBinary
    <3>1. /\ pc \in {"sendText", "sendBinary"} /\ result' = result
          /\ \/ frame'.kind \in {"text", "binary"} /\ pc' = "read"
             \/ frame' = frame /\ pc' = "sendClose"
      BY <2>9 DEF SendText, SendBinary, Send, CloseWith
    <3>2. CASE frame'.kind \in {"text", "binary"} /\ pc' = "read"
      <4>1. 1 \in 1..1
        OBVIOUS
      <4>2. Session!Reply
        BY <3>1, <3>2, <4>1 DEF Session!Reply
      <4>3. QED
        BY <4>2
    <3>3. CASE frame' = frame /\ pc' = "sendClose"
      <4>1. Session!Close
        BY <3>1, <3>3 DEF Session!Close
      <4>2. QED
        BY <4>1
    <3>4. QED
      BY <3>1, <3>2, <3>3
  <2>10. CASE SendClose
    <3>1. Session!End
      BY <2>10 DEF SendClose, Session!End, Session!Results
    <3>2. QED
      BY <3>1
  <2>11. QED
    BY <2>1, <2>2, <2>3, <2>4, <2>5, <2>6, <2>7, <2>8, <2>9, <2>10
    DEF WsNext, Dispatch, Answer
<1>3. QED
  BY <1>1, <1>2, PTL DEF WsSpec, ImplementsSession, Session!Spec
============================================================================
