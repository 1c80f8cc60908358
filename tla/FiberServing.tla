---------------------------- MODULE FiberServing ----------------------------
(***************************************************************************)
(* The fiber server with a connection served in full: the workers of       *)
(* TcpFiberServer and, once accept_connection() of                         *)
(* wolf/src/stream/tcp/tcp_server_fiber.rs runs for the peer Served, the   *)
(* handler of FiberConnection.  The fiber of a connection is spawned by a  *)
(* worker and depends on it for nothing afterwards.                        *)
(***************************************************************************)
EXTENDS TcpFiberServer, FiberConnection

CONSTANT Served     \* the peer; other connections share nothing with its own

ASSUME ServedAssumption == Peers = {Served}

allVars == <<vars, connVars>>

ServingInit == Init /\ ConnInit

----------------------------------------------------------------------------
(* The fiber of the connection.                                            *)

\* The accept callback and the two setters of accept_connection, each of which
\* ends it with its error.
BeginServing ==
    /\ OnAcceptFails(Served) \/ OnAcceptConnection(Served)
    /\ SetTimeouts
    /\ (pc' = "read") = (task'[Served] = "serving")

Serve ==
    /\ task[Served] = "serving"
    /\ Loop
    /\ UNCHANGED vars

\* The handler has returned; the close callback gets its message.
EndServing ==
    /\ pc = "ended"
    /\ OnCloseConnection(Served)
    /\ UNCHANGED connVars

Fiber == BeginServing \/ Serve \/ EndServing

\* The peer acts as soon as it is connected, also before it is accepted.
PeerStep ==
    /\ task[Served] \in {"backlog", "accepting", "serving"}
    /\ Peer
    /\ UNCHANGED vars

----------------------------------------------------------------------------

ServingNext == Fiber \/ PeerStep \/ (ServerStep /\ UNCHANGED connVars)

ServingSpec == ServingInit /\ [][ServingNext]_allVars

\* A fiber that can run is run, and a timer fires: in particular a read and a
\* write end at the latest with their timeout.  A connection in the backlog is
\* ready before a timer of positive length, unless accept() itself keeps failing.
\* Nothing is assumed of senders that have not locked or of peers.
FairSpec ==
    /\ ServingSpec
    /\ WF_allVars(Fiber)
    /\ WF_vars(Return) /\ WF_vars(SendUnlock)
    /\ \A w \in Workers :
          /\ WF_vars(Spawn(w)) /\ WF_vars(Bind(w))
          /\ WF_vars(TryLock(w)) /\ WF_vars(TryRecv(w))
          /\ WF_vars(AcceptTimesOut(w)) /\ WF_vars(Stop(w))
          /\ \A p \in Peers : []<>(w \in erring) \/ SF_vars(Accept(w, p))

----------------------------------------------------------------------------
(* Properties.                                                             *)

\* After the callback asked to close at most one more answer goes out, the one
\* it left in the buffer, and no further message is read.
OneAnswerAfterVeto == late <= 1 /\ (failed => pc \in {"write", "check", "ended"})

\* A connection that was accepted is taken to its close callback, or refused by
\* the accept callback or a setter, although its peer falls silent or stops
\* reading and although workers stop in the meantime: both directions have a
\* timeout.  A peer that shuts its side only is left to the message callback.
SilentPeerEnds ==
    <>[](peer # "shut") =>
        ((task[Served] = "accepting") ~> (task[Served] \in {"closed", "ended"}))
=============================================================================
