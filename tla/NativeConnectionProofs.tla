----------------------- MODULE NativeConnectionProofs -----------------------
(***************************************************************************)
(* Theorems about NativeConnection for any buffer, callback and peer, over *)
(* plain TCP and TLS: msg.size is inside the buffer wherever it is used,   *)
(* and the handler implements ConnSession.                                 *)
(***************************************************************************)
EXTENDS NativeConnection, TLAPS

\* A read gives at least one byte and at most what is queued and what fits.
LEMMA ReadRange ==
  ASSUME NEW a \in Nat, NEW b \in Nat, NEW n \in 1..Min({a, b})
  PROVE  n \in Nat \ {0} /\ n <= a /\ n <= b
<1>1. Min({a, b}) \in {a, b} /\ \A y \in {a, b} : Min({a, b}) <= y
  <2>1. \E x \in {a, b} : \A y \in {a, b} : x <= y
    OBVIOUS
  <2>2. QED
    BY <2>1 DEF Min
<1>2. QED
  BY <1>1

\* The handler keeps its types, for every callback: a msg.size beyond the buffer
\* is one the slice has panicked on, and no write or read follows.
THEOREM TypeCorrect == Spec => []TypeOK
<1> USE DEF loopVars, peerVars, Leave
<1>1. Init => TypeOK
  <2>1. 0 \in 0..MaxMsg /\ 0 \in Nat /\ ~(0 > MaxMsg)
    BY NativeAssumption
  <2>2. QED
    BY <2>1, Zenon DEF Init, TypeOK
<1>2. TypeOK /\ [Next]_vars => TypeOK'
  <2> SUFFICES ASSUME TypeOK, [Next]_vars PROVE TypeOK'
    OBVIOUS
  <2>0. MaxMsg \in Nat \ {0} /\ DataReplies \subseteq Nat /\ EmptyReplies \subseteq Nat
    BY NativeAssumption
  <2>1. tls' \in BOOLEAN /\ stalled' \in BOOLEAN
    <3>1. UNCHANGED tls /\ (UNCHANGED stalled \/ stalled' = ~stalled)
      BY DEF Next, Peer, PeerSends, PeerShuts, PeerResets, PeerStalls, Loop, Read,
         ReadPending, ReadBytes, ReadEof, ReadFails, ReadTimesOut, Callback,
         CallbackVetoes, CallbackAnswers, CallbackOversteps, Write, Flush,
         WriteFails, vars
    <3>2. QED
      BY <3>1, Zenon DEF TypeOK
  <2>2. CASE Peer
    BY <2>1, <2>2 DEF TypeOK, Peer, PeerSends, PeerShuts, PeerResets, PeerStalls
  <2>3. CASE ReadPending \/ ReadFails \/ ReadTimesOut \/ CallbackVetoes
             \/ Flush \/ WriteFails
    BY <2>1, <2>3
    DEF TypeOK, ReadPending, ReadFails, ReadTimesOut, CallbackVetoes, Flush, WriteFails
  <2>4. CASE ReadBytes
    <3>1. PICK n \in 1..Min({rx, MaxMsg}) : rx' = rx - n /\ size' = n
      BY <2>4 DEF ReadBytes
    <3>2. n \in Nat \ {0} /\ n <= rx /\ n <= MaxMsg
      BY <2>0, ReadRange DEF TypeOK
    <3>3. rx' \in Nat /\ size' \in 0..MaxMsg
      BY <2>0, <3>1, <3>2 DEF TypeOK
    <3>4. QED
      BY <2>0, <2>1, <2>4, <3>3 DEF TypeOK, ReadBytes
  <2>5. CASE ReadEof
    BY <2>0, <2>1, <2>5 DEF TypeOK, ReadEof
  <2>6. CASE CallbackAnswers \/ CallbackOversteps
    <3>1. size' \in Nat
      BY <2>0, <2>6 DEF CallbackAnswers, CallbackOversteps
    <3>2. QED
      BY <2>0, <2>1, <2>6, <3>1 DEF TypeOK, CallbackAnswers, CallbackOversteps
  <2>7. CASE Write
    <3>1. wrote' \in 0..MaxMsg
      BY <2>0, <2>7 DEF TypeOK, Write
    <3>2. QED
      BY <2>0, <2>1, <2>7, <3>1 DEF TypeOK, Write
  <2>8. CASE UNCHANGED vars
    BY <2>1, <2>8 DEF TypeOK, vars
  <2>9. QED
    BY <2>2, <2>3, <2>4, <2>5, <2>6, <2>7, <2>8 DEF Next, Loop, Read, Callback
<1>3. QED
  BY <1>1, <1>2, PTL DEF Spec

----------------------------------------------------------------------------
\* handle_tcp_connection is a session: one message at a time, one answer at most
\* and not longer than asked for, none after the callback's veto, one end and no
\* failure but the panic that a callback's size makes possible.
THEOREM RefinesSession == Spec => ImplementsSession
<1> USE DEF loopVars, peerVars, Leave
<1>1. Init => Session!Init
  BY DEF Init, Session!Init
<1>2. TypeOK /\ [Next]_vars => [Session!Next]_(Session!svars)
  <2> SUFFICES ASSUME TypeOK, [Next]_vars PROVE [Session!Next]_(Session!svars)
    OBVIOUS
  <2> USE DEF Session!Next, Session!svars
  <2>1. CASE Peer \/ ReadPending \/ Flush \/ UNCHANGED vars
    BY <2>1 DEF TypeOK, Peer, PeerSends, PeerShuts, PeerResets, PeerStalls,
                ReadPending, Flush, vars
  <2>2. CASE ReadBytes \/ ReadEof
    <3>1. Session!Call
      BY <2>2 DEF TypeOK, ReadBytes, ReadEof, Session!Call
    <3>2. QED
      BY <3>1
  <2>3. CASE ReadFails \/ ReadTimesOut \/ CallbackVetoes \/ WriteFails
    <3>1. Session!End
      BY <2>3 DEF TypeOK, ReadFails, ReadTimesOut, CallbackVetoes, WriteFails,
                  Session!End, Session!Results
    <3>2. QED
      BY <3>1
  <2>4. CASE CallbackAnswers
    <3>1. size' \in 0..MaxMsg /\ MaxMsg \in Nat
      BY <2>4, NativeAssumption DEF TypeOK, CallbackAnswers
    <3>2. CASE size' > 0
      <4>1. size' \in 1..MaxMsg
        BY <3>1, <3>2
      <4>2. Session!Answer
        BY <2>4, <3>2, <4>1 DEF CallbackAnswers, Session!Answer
      <4>3. QED
        BY <4>2
    <3>3. CASE ~(size' > 0)
      <4>1. Session!Quiet
        BY <2>4, <3>3 DEF CallbackAnswers, Session!Quiet
      <4>2. QED
        BY <4>1
    <3>4. QED
      BY <3>2, <3>3
  <2>5. CASE Write
    <3>1. size \in 1..size /\ pc' \in {"read", "flush"} /\ wrote' \in 1..size
      BY <2>5 DEF TypeOK, Write
    <3>2. Session!Reply
      BY <2>5, <3>1 DEF Write, Session!Reply
    <3>3. QED
      BY <3>2
  <2>6. CASE CallbackOversteps
    <3>1. \E n \in DataReplies \cup EmptyReplies : n > MaxMsg
      BY <2>6 DEF CallbackOversteps
    <3>2. Session!End
      BY <2>6, <3>1 DEF CallbackOversteps, Session!End, Session!Results
    <3>3. QED
      BY <3>2
  <2>7. QED
    BY <2>1, <2>2, <2>3, <2>4, <2>5, <2>6 DEF Next, Loop, Read, Callback
<1>3. QED
  BY <1>1, <1>2, TypeCorrect, PTL DEF Spec, ImplementsSession, Session!Spec
============================================================================
