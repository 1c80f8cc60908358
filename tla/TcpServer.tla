----------------------------- MODULE TcpServer -----------------------------
(***************************************************************************)
(* The tokio TCP server of wolf/src/stream/tcp/tcp_server.rs: server(),    *)
(* its accept loop server_main_loop() and the task that accept_connection  *)
(* runs for every connection.  The loop polls a shutdown channel that is   *)
(* shared with other threads behind a mutex and outlives one run of the    *)
(* server.  What a connection does between its accept and close callbacks  *)
(* is in NativeConnection and WsConnection; here a handler only ends.      *)
(***************************************************************************)
EXTENDS Naturals, Sequences, FiniteSets

CONSTANTS
    Peers,          \* remote endpoints; each one connects at most once
    Senders,        \* threads that request a shutdown through the mutex
    AcceptTimeout,  \* accept_timeout_in_secs > 0.0
    Tls,            \* p_config.tls is Some
    HandlerMayFail, \* the handler may return Err (Websocket) or panic (Native)
    MaxRuns,        \* bound: how often server() is called
    MaxSends        \* bound: how many messages are put in the channel

ASSUME ConstantsAssumption ==
    /\ AcceptTimeout \in BOOLEAN
    /\ Tls \in BOOLEAN
    /\ HandlerMayFail \in BOOLEAN
    /\ MaxRuns \in Nat
    /\ MaxSends \in Nat

VARIABLES
    srv,        \* where server() is
    runs,       \* calls of server() so far
    sent,       \* every message ever put in the shutdown channel, in order
    head,       \* how many of them try_recv has returned
    stops,      \* pairs: a run that left its loop, and the message it left for
    lockedBy,   \* the sender that holds the mutex, if any
    task,       \* per peer: the connection, from the backlog to its end
    acceptOk,   \* per peer: on_accept_connection returned Ok
    closeCalls, \* per peer: how often on_close_connection was called
    erred       \* the pass that has just ended ended with an error of accept

chan   == <<sent, head, stops, lockedBy>>
conns  == <<task, acceptOk, closeCalls>>
vars   == <<srv, runs, sent, head, stops, lockedBy, task, acceptOk, closeCalls, erred>>

SrvStates  == {"setup", "bound", "check", "accept", "stopping", "closed", "returned"}
TaskStates == {"idle", "backlog", "tls", "accepting", "serving", "closing",
               "ended", "failed", "refused"}

\* The listener exists from TcpListener::bind until server_main_loop drops it.
Listening == srv \in {"bound", "check", "accept", "stopping"}

Init ==
    /\ srv = "setup"
    /\ runs = 1
    /\ sent = <<>>
    /\ head = 0
    /\ stops = {}
    /\ lockedBy = {}
    /\ task = [p \in Peers |-> "idle"]
    /\ acceptOk = [p \in Peers |-> FALSE]
    /\ closeCalls = [p \in Peers |-> 0]
    /\ erred = FALSE

----------------------------------------------------------------------------
(* server(): address, bind, ttl and bind callback come before the loop.    *)

\* Dropping the listener resets the connections still in its backlog.
DropListener ==
    task' = [p \in Peers |-> IF task[p] = "backlog" THEN "refused" ELSE task[p]]

\* SocketAddr::from_str or bind fails: server() returns Err.
SetupFails ==
    /\ srv = "setup"
    /\ srv' = "returned"
    /\ UNCHANGED <<runs, chan, conns, erred>>

Bind ==
    /\ srv = "setup"
    /\ srv' = "bound"
    /\ UNCHANGED <<runs, chan, conns, erred>>

\* set_ttl or on_bind_socket fails: the early return drops the listener.
BindCallbackFails ==
    /\ srv = "bound"
    /\ srv' = "returned"
    /\ DropListener
    /\ UNCHANGED <<runs, chan, acceptOk, closeCalls, erred>>

OnBindSocket ==
    /\ srv = "bound"
    /\ srv' = "check"
    /\ UNCHANGED <<runs, chan, conns, erred>>

----------------------------------------------------------------------------
(* server_main_loop(): one pass checks the channel, then accepts.          *)

TryLockFails ==
    /\ lockedBy # {}
    /\ srv' = "accept"
    /\ UNCHANGED chan

ChannelEmpty ==
    /\ lockedBy = {}
    /\ head = Len(sent)
    /\ srv' = "accept"
    /\ UNCHANGED chan

\* Mutant: the break leaves the match and not the loop.
TryRecvGoesOn ==
    /\ lockedBy = {}
    /\ head < Len(sent)
    /\ head' = head + 1
    /\ srv' = "accept"
    /\ stops' = IF sent[head + 1] THEN stops \cup {<<runs, head + 1>>} ELSE stops
    /\ UNCHANGED <<sent, lockedBy>>

TryRecv ==
    /\ lockedBy = {}
    /\ head < Len(sent)
    /\ head' = head + 1
    /\ \/ /\ sent[head + 1]
          /\ srv' = "stopping"
          /\ stops' = stops \cup {<<runs, head + 1>>}
       \/ /\ ~sent[head + 1]
          /\ srv' = "accept"
          /\ UNCHANGED stops
    /\ UNCHANGED <<sent, lockedBy>>

CheckShutdown ==
    /\ srv = "check"
    /\ TryLockFails \/ ChannelEmpty \/ TryRecv
    /\ erred' = FALSE
    /\ UNCHANGED <<runs, conns>>

\* Mutant: the loop awaits accept_connection instead of spawning a task for it.
AcceptOneAtATime(p) ==
    /\ srv = "accept"
    /\ task[p] = "backlog"
    /\ \A q \in Peers : task[q] \notin {"tls", "accepting", "serving", "closing"}
    /\ task' = [task EXCEPT ![p] = IF Tls THEN "tls" ELSE "accepting"]
    /\ srv' = "check"
    /\ UNCHANGED <<runs, chan, acceptOk, closeCalls, erred>>

\* The accept branch of the select wins: the connection gets a task.
Accept(p) ==
    /\ srv = "accept"
    /\ task[p] = "backlog"
    /\ task' = [task EXCEPT ![p] = IF Tls THEN "tls" ELSE "accepting"]
    /\ srv' = "check"
    /\ UNCHANGED <<runs, chan, acceptOk, closeCalls, erred>>

\* Mutant: a timed out accept is retried without looking at the channel.
AcceptTimesOutRetries ==
    /\ srv = "accept"
    /\ AcceptTimeout
    /\ UNCHANGED vars

\* timeout_for_accept wins: the loop continues.
AcceptTimesOut ==
    /\ srv = "accept"
    /\ AcceptTimeout
    /\ srv' = "check"
    /\ UNCHANGED <<runs, chan, conns, erred>>

\* accept() itself returns an error, such as too many open files: it is ignored
\* and the loop continues as well, with the connection still in the backlog.
AcceptErrors ==
    /\ srv = "accept"
    /\ srv' = "check"
    /\ erred' = TRUE
    /\ UNCHANGED <<runs, chan, conns>>

\* The loop was left: server_main_loop returns and drops its listener.
LeaveLoop ==
    /\ srv = "stopping"
    /\ srv' = "closed"
    /\ DropListener
    /\ UNCHANGED <<runs, chan, acceptOk, closeCalls, erred>>

\* on_close_socket runs and its result is returned.
OnCloseSocket ==
    /\ srv = "closed"
    /\ srv' = "returned"
    /\ UNCHANGED <<runs, chan, conns, erred>>

\* The caller runs the server again with the same static channel.
CallServer ==
    /\ srv = "returned"
    /\ runs < MaxRuns
    /\ srv' = "setup"
    /\ runs' = runs + 1
    /\ UNCHANGED <<chan, conns, erred>>

----------------------------------------------------------------------------
(* The threads that hold the other end: CHANNEL.lock().0.send(b).          *)

Lock(s) ==
    /\ lockedBy = {}
    /\ Len(sent) < MaxSends
    /\ lockedBy' = {s}
    /\ UNCHANGED <<srv, runs, sent, head, stops, conns, erred>>

\* The guard is dropped at the end of the statement that sends.
SendUnlock(s) ==
    /\ lockedBy = {s}
    /\ \E b \in BOOLEAN : sent' = Append(sent, b)
    /\ lockedBy' = {}
    /\ UNCHANGED <<srv, runs, head, stops, conns, erred>>

----------------------------------------------------------------------------
(* A peer, and the task spawned for its connection.                        *)

Connect(p) ==
    /\ Listening
    /\ task[p] = "idle"
    /\ task' = [task EXCEPT ![p] = "backlog"]
    /\ UNCHANGED <<srv, runs, chan, acceptOk, closeCalls, erred>>

\* tls.acceptor.accept: on Err the task ends before any callback.
TlsAccept(p) ==
    /\ task[p] = "tls"
    /\ \E r \in {"accepting", "ended"} : task' = [task EXCEPT ![p] = r]
    /\ UNCHANGED <<srv, runs, chan, acceptOk, closeCalls, erred>>

\* Mutant: accept_connection tells of the close when the peer was rejected, too.
OnAcceptAlwaysServes(p) ==
    /\ task[p] = "accepting"
    /\ \E ok \in BOOLEAN :
          /\ acceptOk' = [acceptOk EXCEPT ![p] = ok]
          /\ task' = [task EXCEPT ![p] = IF ok THEN "serving" ELSE "closing"]
    /\ UNCHANGED <<srv, runs, chan, closeCalls, erred>>

\* p_on_accept_connection.run(..)?: on Err the task ends here.
OnAcceptConnection(p) ==
    /\ task[p] = "accepting"
    /\ \E ok \in BOOLEAN :
          /\ acceptOk' = [acceptOk EXCEPT ![p] = ok]
          /\ task' = [task EXCEPT ![p] = IF ok THEN "serving" ELSE "ended"]
    /\ UNCHANGED <<srv, runs, chan, closeCalls, erred>>

\* The handler returned Ok(close_msg).
HandlerReturns(p) ==
    /\ task[p] = "serving"
    /\ task' = [task EXCEPT ![p] = "closing"]
    /\ UNCHANGED <<srv, runs, chan, acceptOk, closeCalls, erred>>

\* The handler returned Err, which close_msg_res? returns, or it panicked, which
\* ends the task: the close callback is skipped.
HandlerFails(p) ==
    /\ HandlerMayFail
    /\ task[p] = "serving"
    /\ task' = [task EXCEPT ![p] = "failed"]
    /\ UNCHANGED <<srv, runs, chan, acceptOk, closeCalls, erred>>

OnCloseConnection(p) ==
    /\ task[p] = "closing"
    /\ task' = [task EXCEPT ![p] = "ended"]
    /\ closeCalls' = [closeCalls EXCEPT ![p] = @ + 1]
    /\ UNCHANGED <<srv, runs, chan, acceptOk, erred>>

ServerStep ==
    \/ SetupFails \/ Bind \/ BindCallbackFails \/ OnBindSocket
    \/ CheckShutdown \/ (\E p \in Peers : Accept(p))
    \/ AcceptTimesOut \/ AcceptErrors
    \/ LeaveLoop \/ OnCloseSocket \/ CallServer

SenderStep(s) == Lock(s) \/ SendUnlock(s)

TaskStep(p) ==
    \/ TlsAccept(p) \/ OnAcceptConnection(p)
    \/ HandlerReturns(p) \/ HandlerFails(p) \/ OnCloseConnection(p)

Next ==
    \/ ServerStep
    \/ \E s \in Senders : SenderStep(s)
    \/ \E p \in Peers : Connect(p) \/ TaskStep(p)

Spec == Init /\ [][Next]_vars

\* What tokio and the operating system guarantee.  A step of the server or of a
\* task that waits for nobody is taken.  accept is strong: whenever select polls
\* both branches a connection in the backlog is ready at once and the timer, of a
\* positive length, is not.  Only an error of accept() itself can come in its
\* place, and errors that recur for ever (file descriptors that stay exhausted)
\* promise nothing.  Nothing is assumed of the peer (its TLS handshake, its
\* messages), of new requests or of the caller.
Fairness ==
    /\ WF_vars(SetupFails \/ Bind)
    /\ WF_vars(BindCallbackFails \/ OnBindSocket)
    /\ WF_vars(CheckShutdown)
    /\ WF_vars(AcceptTimesOut)
    /\ WF_vars(LeaveLoop)
    /\ WF_vars(OnCloseSocket)
    /\ \A s \in Senders : WF_vars(SendUnlock(s))
    /\ \A p \in Peers : /\ []<>erred \/ SF_vars(Accept(p))
                        /\ WF_vars(OnAcceptConnection(p))
                        /\ WF_vars(OnCloseConnection(p))

FairSpec == Spec /\ Fairness

----------------------------------------------------------------------------
(* Properties.                                                             *)

\* Types; in particular try_recv never returns more messages than were sent.
TypeOK ==
    /\ srv \in SrvStates
    /\ runs \in Nat \ {0}
    /\ sent \in Seq(BOOLEAN)
    /\ head \in 0..Len(sent)
    /\ stops \subseteq (1..runs) \X (1..head)
    /\ lockedBy \in SUBSET Senders
    /\ task \in [Peers -> TaskStates]
    /\ acceptOk \in [Peers -> BOOLEAN]
    /\ closeCalls \in [Peers -> Nat]
    /\ erred \in BOOLEAN

InLoop == srv \in {"check", "accept"}

\* The channel is static, so a request that nobody took waits for the runs to
\* come: still no request stops two runs, no run takes two requests, and a run
\* that is set up or in its loop has taken none.
OneRunPerRequest ==
    /\ \A s, t \in stops : (s[1] = t[1]) <=> (s[2] = t[2])
    /\ srv \in {"setup", "bound"} \/ InLoop => \A s \in stops : s[1] # runs

\* on_close_connection is told of a peer at most once, only after
\* on_accept_connection let that peer in, and for every peer let in whose task has
\* ended, however long after the server closed, unless the handler failed.
CloseCallbackPaired ==
    \A p \in Peers :
        /\ closeCalls[p] <= 1
        /\ closeCalls[p] = 1 => acceptOk[p] /\ task[p] = "ended"
        /\ acceptOk[p] /\ task[p] = "ended" => closeCalls[p] = 1

PendingRequest == \E i \in (head + 1)..Len(sent) : sent[i]

\* With an accept timeout, a request that is in the channel while the loop runs
\* makes server() return, however the sender, the connections and the timer race.
ShutdownHonoured == (InLoop /\ PendingRequest) ~> (srv = "returned")

\* A connection made to a listening server gets its task, or is reset when the
\* server stops: it does not stay in the backlog, whatever the other connections
\* do and whoever wins the select, unless accept errors recur for ever.
BacklogDrained ==
    \/ []<>erred
    \/ \A p \in Peers : (task[p] = "backlog") ~> (task[p] # "backlog")
============================================================================
