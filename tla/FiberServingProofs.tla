------------------------- MODULE FiberServingProofs -------------------------
(***************************************************************************)
(* Theorems about FiberServing for any number of workers and requests: the *)
(* composition runs the server of TcpFiberServer, each request that leaves *)
(* the channel stops one worker, and a veto is followed by one answer at   *)
(* most.                                                                   *)
(***************************************************************************)
EXTENDS FiberServing, FiniteSetTheorems, TLAPS

----------------------------------------------------------------------------
(* The workers.                                                            *)

LEMMA WorkersType == NumWorkers \in Nat /\ Nobody \in 0..NumWorkers
BY FiberServerAssumption DEF Nobody

\* Each step of server(), of a worker, a sender or a connection keeps the types.
LEMMA ServerTypes == TypeOK /\ [Next]_vars => TypeOK'
<1> SUFFICES ASSUME TypeOK, [Next]_vars PROVE TypeOK'
  OBVIOUS
<1> USE WorkersType DEF Workers
<1>1. CASE OnBindSocket \/ Return
  BY <1>1 DEF TypeOK, OnBindSocket, Return
<1>2. CASE Lock
  BY <1>2 DEF TypeOK, Lock, Sender
<1>3. CASE SendUnlock
  <2>1. PICK b \in BOOLEAN : sent' = Append(sent, b)
    BY <1>3 DEF SendUnlock
  <2>2. sent' \in Seq(BOOLEAN) /\ Len(sent') = Len(sent) + 1
    BY <2>1 DEF TypeOK
  <2>3. QED
    BY <1>3, <2>2 DEF TypeOK, SendUnlock, Nobody
<1>4. ASSUME NEW w \in Workers, Spawn(w) \/ Bind(w) PROVE TypeOK'
  BY <1>4 DEF TypeOK, Spawn, Bind, At
<1>5. ASSUME NEW w \in Workers, AcceptTimesOut(w) \/ AcceptErrors(w) PROVE TypeOK'
  BY <1>5 DEF TypeOK, AcceptTimesOut, AcceptErrors, At
<1>6. ASSUME NEW w \in Workers, TryLock(w) PROVE TypeOK'
  BY <1>6 DEF TypeOK, TryLock, At
<1>7. ASSUME NEW w \in Workers, TryRecv(w) PROVE TypeOK'
  <2>1. head' \in 0..Len(sent) /\ lockedBy' = Nobody
    BY <1>7 DEF TypeOK, TryRecv
  <2>2. worker' = [worker EXCEPT ![w] = "accept"]
        \/ worker' = [worker EXCEPT ![w] = "stopping"]
    BY <1>7 DEF TryRecv, At
  <2>3. QED
    BY <1>7, <2>1, <2>2 DEF TypeOK, TryRecv, Nobody
<1>8. ASSUME NEW w \in Workers, Stop(w) PROVE TypeOK'
  BY <1>8 DEF TypeOK, Stop, At, DropListener
<1>9. ASSUME NEW w \in Workers, NEW p \in Peers, Accept(w, p) \/ Connect(p, w)
      PROVE  TypeOK'
  <2>1. CASE Accept(w, p)
    BY <2>1 DEF TypeOK, Accept, At
  <2>2. CASE Connect(p, w)
    BY <2>2 DEF TypeOK, Connect
  <2>3. QED
    BY <1>9, <2>1, <2>2
<1>10. ASSUME NEW p \in Peers, TaskStep(p) PROVE TypeOK'
  BY <1>10 DEF TypeOK, TaskStep, OnAcceptFails, OnAcceptConnection, OnCloseConnection
<1>11. CASE UNCHANGED vars
  BY <1>11 DEF TypeOK, vars
<1>12. QED
  BY <1>1, <1>2, <1>3, <1>4, <1>5, <1>6, <1>7, <1>8, <1>9, <1>10, <1>11
  DEF Next, ServerStep, WorkerStep

\* Cardinality can be used of the workers that stop and of the requests taken.
LEMMA FiniteCounts ==
  ASSUME TypeOK
  PROVE  IsFiniteSet(Stopped) /\ IsFiniteSet(Requests(head))
<1>1. IsFiniteSet(Workers) /\ Stopped \subseteq Workers
  BY FiberServerAssumption, FS_Interval DEF Workers, Stopped
<1>2. IsFiniteSet(1..head) /\ Requests(head) \subseteq 1..head
  BY FS_Interval DEF TypeOK, Requests
<1>3. QED
  BY <1>1, <1>2, FS_Subset

\* A step other than try_recv moves no worker into or out of the stopped ones and
\* leaves the messages that were taken alone.
LEMMA CountsUnchanged ==
  ASSUME TypeOK, [Next]_vars, \A w \in Workers : ~TryRecv(w)
  PROVE  Stopped' = Stopped /\ Requests(head)' = Requests(head)
<1> USE WorkersType DEF Workers
<1>1. Stopped' = Stopped
  <2>1. CASE UNCHANGED worker
    BY <2>1 DEF Stopped
  <2>2. ASSUME NEW w \in Workers,
               Spawn(w) \/ Bind(w) \/ TryLock(w) \/ AcceptTimesOut(w)
               \/ AcceptErrors(w) \/ Stop(w) \/ \E p \in Peers : Accept(w, p)
        PROVE  Stopped' = Stopped
    <3>1. PICK to \in {"bind", "check", "failed", "recv", "accept", "stopped"} :
             /\ worker' = [worker EXCEPT ![w] = to]
             /\ worker[w] \in {"stopping", "stopped"} <=> to = "stopped"
      BY <2>2 DEF Spawn, Bind, TryLock, AcceptTimesOut, AcceptErrors, Stop, Accept, At
    <3>2. QED
      BY <3>1 DEF Stopped, TypeOK
  <2>3. QED
    BY <2>1, <2>2
    DEF Next, ServerStep, WorkerStep, TaskStep, OnBindSocket, Return, Lock,
        SendUnlock, Connect, OnAcceptFails, OnAcceptConnection, OnCloseConnection, vars
<1>2. head' = head /\ \A i \in 1..head : sent'[i] = sent[i]
  <2>1. CASE SendUnlock
    BY <2>1 DEF SendUnlock, TypeOK
  <2>2. CASE UNCHANGED <<sent, head>>
    BY <2>2
  <2>3. QED
    BY <2>1, <2>2
    DEF Next, ServerStep, WorkerStep, TaskStep, OnBindSocket, Return, Lock, Connect,
        OnAcceptFails, OnAcceptConnection, OnCloseConnection, Spawn, Bind, TryLock,
        AcceptTimesOut, AcceptErrors, Stop, Accept, vars
<1>3. QED
  BY <1>1, <1>2 DEF Requests

\* try_recv takes the next message, and its worker leaves the loop exactly when
\* that message is a request.
LEMMA TryRecvCounts ==
  ASSUME TypeOK, OneWorkerPerRequest, NEW w \in Workers, TryRecv(w)
  PROVE  OneWorkerPerRequest'
<1> USE DEF Workers
<1>1. w \notin Stopped /\ UNCHANGED sent
  BY DEF TryRecv, At, Stopped
<1>2. CASE worker' = [worker EXCEPT ![w] = "accept"] /\ Requests(head') = Requests(head)
  <2>1. Stopped' = Stopped
    BY <1>1, <1>2 DEF Stopped, TypeOK
  <2>2. Requests(head)' = Requests(head)
    BY <1>1, <1>2 DEF Requests
  <2>3. QED
    BY <2>1, <2>2 DEF OneWorkerPerRequest
<1>3. CASE /\ worker' = [worker EXCEPT ![w] = "stopping"]
           /\ Requests(head') = Requests(head) \cup {head + 1}
  <2>1. Stopped' = Stopped \cup {w}
    BY <1>3 DEF Stopped, TypeOK
  <2>2. Requests(head)' = Requests(head) \cup {head + 1}
    BY <1>1, <1>3 DEF Requests
  <2>3. head + 1 \notin Requests(head)
    BY DEF Requests, TypeOK
  <2>4. /\ Cardinality(Stopped') = Cardinality(Stopped) + 1
        /\ Cardinality(Requests(head)') = Cardinality(Requests(head)) + 1
    BY <1>1, <2>1, <2>2, <2>3, FiniteCounts, FS_AddElement
  <2>5. QED
    BY <2>4 DEF OneWorkerPerRequest
<1>4. CASE UNCHANGED head
  <2>1. worker' = [worker EXCEPT ![w] = "accept"]
    BY <1>4 DEF TryRecv, At, TypeOK
  <2>2. QED
    BY <1>2, <1>4, <2>1
<1>5. CASE head' = head + 1 /\ head < Len(sent)
  <2>1. 1..head' = (1..head) \cup {head + 1}
    BY <1>5 DEF TypeOK
  <2>2. CASE sent[head + 1]
    <3>1. Requests(head') = Requests(head) \cup {head + 1}
      BY <2>1, <2>2 DEF Requests
    <3>2. worker' = [worker EXCEPT ![w] = "stopping"]
      BY <1>5, <2>2 DEF TryRecv, At, TypeOK
    <3>3. QED
      BY <1>3, <3>1, <3>2
  <2>3. CASE ~sent[head + 1]
    <3>1. Requests(head') = Requests(head)
      BY <2>1, <2>3 DEF Requests
    <3>2. worker' = [worker EXCEPT ![w] = "accept"]
      BY <1>5, <2>3 DEF TryRecv, At, TypeOK
    <3>3. QED
      BY <1>2, <3>1, <3>2
  <2>4. QED
    BY <2>2, <2>3
<1>6. QED
  BY <1>4, <1>5 DEF TryRecv

\* Every request that left the channel stops one worker and one only.
LEMMA RequestsStep == TypeOK /\ OneWorkerPerRequest /\ [Next]_vars => OneWorkerPerRequest'
<1> SUFFICES ASSUME TypeOK, OneWorkerPerRequest, [Next]_vars PROVE OneWorkerPerRequest'
  OBVIOUS
<1>1. CASE \E w \in Workers : TryRecv(w)
  BY <1>1, TryRecvCounts
<1>2. CASE \A w \in Workers : ~TryRecv(w)
  BY <1>2, CountsUnchanged DEF OneWorkerPerRequest
<1>3. QED
  BY <1>1, <1>2

----------------------------------------------------------------------------
(* The composition.                                                        *)

\* The server in the composition is the one of TcpFiberServer: what is served
\* adds no step of a worker, of the channel or of a connection's task.
THEOREM ServesAsServer == ServingSpec => Spec
<1>1. ServingInit => Init
  BY DEF ServingInit
<1>2. [ServingNext]_allVars => [Next]_vars
  <2>1. CASE BeginServing \/ EndServing
    BY <2>1, ServedAssumption
    DEF BeginServing, EndServing, Next, TaskStep
  <2>2. CASE Serve \/ PeerStep
    BY <2>2 DEF Serve, PeerStep
  <2>3. CASE ServerStep \/ UNCHANGED allVars
    BY <2>3 DEF Next, allVars
  <2>4. QED
    BY <2>1, <2>2, <2>3 DEF ServingNext, Fiber
<1>3. QED
  BY <1>1, <1>2, PTL DEF ServingSpec, Spec

\* The workers, the channel and the connections keep their types while a
\* connection is served.
THEOREM TypeCorrect == ServingSpec => []TypeOK
<1>1. Init => TypeOK
  BY WorkersType DEF Init, TypeOK, Workers, Nobody
<1>2. QED
  BY <1>1, ServerTypes, ServesAsServer, PTL DEF Spec

\* Every request that left the channel has stopped one worker, and one only,
\* however the workers contend for the mutex with each other and with senders.
THEOREM RequestsStopWorkers == ServingSpec => []OneWorkerPerRequest
<1>1. Init => OneWorkerPerRequest
  <2> SUFFICES ASSUME Init PROVE OneWorkerPerRequest
    OBVIOUS
  <2>1. Stopped = {} /\ Requests(head) = {}
    BY DEF Init, Stopped, Requests
  <2>2. QED
    BY <2>1 DEF OneWorkerPerRequest
<1>2. QED
  BY <1>1, RequestsStep, TypeCorrect, ServesAsServer, PTL DEF Spec

----------------------------------------------------------------------------
(* The connection.                                                         *)

\* What OneAnswerAfterVeto needs of the handler: an answer that was counted as
\* late left a handler that is on its way out of the loop.
VetoInv ==
    /\ late \in {0, 1}
    /\ failed \in BOOLEAN
    /\ failed => pc \in {"write", "check", "ended"}
    /\ late = 1 => failed /\ pc \in {"check", "ended"}

\* After the callback asked to close at most one more answer goes out and no
\* further message is read, although the answer is written before the wish is
\* looked at.
THEOREM VetoEndsConversation == ServingSpec => []OneAnswerAfterVeto
<1>1. ServingInit => VetoInv
  <2> SUFFICES ASSUME ServingInit PROVE VetoInv
    OBVIOUS
  <2>1. failed = FALSE /\ failed \in BOOLEAN
    BY Zenon DEF ServingInit, ConnInit
  <2>2. QED
    BY <2>1 DEF ServingInit, ConnInit, VetoInv
<1>2. VetoInv /\ [ServingNext]_allVars => VetoInv'
  <2> SUFFICES ASSUME VetoInv, [ServingNext]_allVars PROVE VetoInv'
    OBVIOUS
  <2>1. CASE UNCHANGED <<pc, failed, late>>
    BY <2>1, Zenon DEF VetoInv
  <2>2. CASE SetTimeouts
    BY <2>2 DEF VetoInv, SetTimeouts
  <2>3. CASE ReadBytes \/ ReadEof \/ ReadFails
    <3>1. UNCHANGED failed \/ failed' = TRUE
      BY <2>3, Zenon DEF ReadBytes, ReadEof, ReadFails
    <3>2. failed' \in BOOLEAN
      BY <3>1, Zenon DEF VetoInv
    <3>3. ~failed /\ late' = 0 /\ (failed' => pc' = "check")
      BY <2>3 DEF VetoInv, ReadBytes, ReadEof, ReadFails
    <3>4. QED
      BY <3>2, <3>3 DEF VetoInv
  <2>4. CASE Callback
    <3>1. failed' \in BOOLEAN
      BY <2>4 DEF Callback
    <3>2. late = 0 /\ late' = late /\ pc' \in {"write", "check"}
      BY <2>4 DEF VetoInv, Callback
    <3>3. QED
      BY <3>1, <3>2 DEF VetoInv
  <2>5. CASE Write \/ WriteFails
    <3>1. failed' \in BOOLEAN
      BY <2>5, Zenon DEF VetoInv, Write, WriteFails
    <3>2. late = 0 /\ pc' = "check" /\ late' \in {0, 1} /\ (late' = 1 => failed')
      BY <2>5 DEF VetoInv, Write, WriteFails
    <3>3. QED
      BY <3>1, <3>2 DEF VetoInv
  <2>6. CASE Check
    BY <2>6 DEF VetoInv, Check
  <2>7. QED
    BY <2>1, <2>2, <2>3, <2>4, <2>5, <2>6
    DEF ServingNext, Fiber, BeginServing, Serve, EndServing, PeerStep, Loop, Peer,
        PeerShuts, PeerResets, PeerStalls, connVars, allVars
<1>3. VetoInv => OneAnswerAfterVeto
  BY DEF VetoInv, OneAnswerAfterVeto
<1>4. QED
  BY <1>1, <1>2, <1>3, PTL DEF ServingSpec
=============================================================================
