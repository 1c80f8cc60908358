--------------------------- MODULE TcpFiberServer ---------------------------
(***************************************************************************)
(* server() and server_main_loop() of                                      *)
(* wolf/src/stream/tcp/tcp_server_fiber.rs: a number of workers, each with *)
(* a listener of its own on one address, that poll one shutdown channel.   *)
(* What a connection does is in FiberConnection; FiberServing composes the *)
(* two.                                                                    *)
(***************************************************************************)
EXTENDS Naturals, Sequences, FiniteSets

CONSTANTS
    NumWorkers,     \* fiber_num_of_workers
    Peers,          \* remote endpoints; each one connects at most once
    AcceptTimeout,  \* accept_timeout_in_secs > 0.0
    MaxSends        \* bound: messages put in the shutdown channel

ASSUME FiberServerAssumption ==
    /\ NumWorkers \in Nat
    /\ AcceptTimeout \in BOOLEAN
    /\ MaxSends \in Nat

Workers == 1..NumWorkers
Nobody  == 0
Sender  == NumWorkers + 1   \* the threads that request a shutdown

VARIABLES
    srv,        \* "start", "spawning", "returned" or "panicked"
    worker,     \* per worker: where its loop is
    sent,       \* every message ever put in the channel, in order
    head,       \* how many of them try_recv has returned
    lockedBy,   \* who holds the mutex around the channel
    task,       \* per peer: its connection
    via,        \* per peer: the worker whose listener it came to
    erring      \* the workers whose pass has just ended with an error of accept

vars == <<srv, worker, sent, head, lockedBy, task, via, erring>>

Init ==
    /\ srv = "start"
    /\ worker = [w \in Workers |-> "none"]
    /\ sent = <<>>
    /\ head = 0
    /\ lockedBy = Nobody
    /\ task = [p \in Peers |-> "idle"]
    /\ via = [p \in Peers |-> Nobody]
    /\ erring = {}

At(w, from, to) == worker[w] = from /\ worker' = [worker EXCEPT ![w] = to]

\* Dropping a listener resets the connections in its backlog.
DropListener(w) ==
    task' = [p \in Peers |->
                IF task[p] = "backlog" /\ via[p] = w THEN "refused" ELSE task[p]]

----------------------------------------------------------------------------
(* server(): the bind callback comes first, then the workers are spawned.  *)

OnBindSocket ==
    /\ srv = "start"
    /\ srv' \in {"spawning", "panicked"}     \* unwrap of the callback's result
    /\ UNCHANGED <<worker, sent, head, lockedBy, task, via, erring>>

\* Workers are detached: server() returns when all of them are spawned.
Spawn(w) ==
    /\ srv = "spawning"
    /\ \A v \in Workers : v < w => worker[v] # "none"
    /\ At(w, "none", "bind")
    /\ UNCHANGED <<srv, sent, head, lockedBy, task, via, erring>>

Return ==
    /\ srv = "spawning"
    /\ \A w \in Workers : worker[w] # "none"
    /\ srv' = "returned"
    /\ UNCHANGED <<worker, sent, head, lockedBy, task, via, erring>>

\* A worker that cannot bind logs the error and is gone.
Bind(w) ==
    /\ At(w, "bind", "check") \/ At(w, "bind", "failed")
    /\ UNCHANGED <<srv, sent, head, lockedBy, task, via, erring>>

----------------------------------------------------------------------------
(* server_main_loop() of one worker.                                       *)

TryLock(w) ==
    /\ \/ lockedBy = Nobody /\ lockedBy' = w /\ At(w, "check", "recv")
       \/ lockedBy # Nobody /\ UNCHANGED lockedBy /\ At(w, "check", "accept")
    /\ erring' = erring \ {w}
    /\ UNCHANGED <<srv, sent, head, task, via>>

\* Mutant: every waiting message is taken and the last one decides.
TryRecvLast(w) ==
    /\ lockedBy = w
    /\ lockedBy' = Nobody
    /\ head' = Len(sent)
    /\ IF head < Len(sent) /\ sent[Len(sent)] THEN At(w, "recv", "stopping")
                                             ELSE At(w, "recv", "accept")
    /\ UNCHANGED <<srv, sent, task, via, erring>>

\* try_recv, and the guard is dropped with the end of the match.
TryRecv(w) ==
    /\ lockedBy = w
    /\ lockedBy' = Nobody
    /\ \/ /\ head = Len(sent)
          /\ At(w, "recv", "accept")
          /\ UNCHANGED head
       \/ /\ head < Len(sent)
          /\ head' = head + 1
          /\ IF sent[head + 1] THEN At(w, "recv", "stopping")
                               ELSE At(w, "recv", "accept")
    /\ UNCHANGED <<srv, sent, task, via, erring>>

Accept(w, p) ==
    /\ At(w, "accept", "check")
    /\ task[p] = "backlog" /\ via[p] = w
    /\ task' = [task EXCEPT ![p] = "accepting"]
    /\ UNCHANGED <<srv, sent, head, lockedBy, via, erring>>

\* Mutant: a worker whose accept timed out accepts again.
AcceptTimesOutRetries(w) ==
    /\ worker[w] = "accept"
    /\ UNCHANGED vars

AcceptTimesOut(w) ==
    /\ AcceptTimeout
    /\ At(w, "accept", "check")
    /\ UNCHANGED <<srv, sent, head, lockedBy, task, via, erring>>

\* accept() returned an error: it is logged and the loop goes on.
AcceptErrors(w) ==
    /\ At(w, "accept", "check")
    /\ erring' = erring \cup {w}
    /\ UNCHANGED <<srv, sent, head, lockedBy, task, via>>

\* Mutant: the listener outlives its worker.
StopKeepsListener(w) ==
    /\ At(w, "stopping", "stopped")
    /\ UNCHANGED <<srv, sent, head, lockedBy, task, via, erring>>

\* The loop was left and the worker's listener goes.
Stop(w) ==
    /\ At(w, "stopping", "stopped")
    /\ DropListener(w)
    /\ UNCHANGED <<srv, sent, head, lockedBy, via, erring>>

----------------------------------------------------------------------------
(* Senders, peers and connections.                                         *)

Lock ==
    /\ lockedBy = Nobody
    /\ Len(sent) < MaxSends
    /\ lockedBy' = Sender
    /\ UNCHANGED <<srv, worker, sent, head, task, via, erring>>

SendUnlock ==
    /\ lockedBy = Sender
    /\ \E b \in BOOLEAN : sent' = Append(sent, b)
    /\ lockedBy' = Nobody
    /\ UNCHANGED <<srv, worker, head, task, via, erring>>

Listening(w) == worker[w] \in {"check", "recv", "accept", "stopping"}

\* The kernel spreads connections over the listeners of the address.
Connect(p, w) ==
    /\ task[p] = "idle"
    /\ Listening(w)
    /\ task' = [task EXCEPT ![p] = "backlog"]
    /\ via' = [via EXCEPT ![p] = w]
    /\ UNCHANGED <<srv, worker, sent, head, lockedBy, erring>>

\* accept_connection: the accept callback or a timeout setter returned Err.
OnAcceptFails(p) ==
    /\ task[p] = "accepting"
    /\ task' = [task EXCEPT ![p] = "ended"]
    /\ UNCHANGED <<srv, worker, sent, head, lockedBy, via, erring>>

OnAcceptConnection(p) ==
    /\ task[p] = "accepting"
    /\ task' = [task EXCEPT ![p] = "serving"]
    /\ UNCHANGED <<srv, worker, sent, head, lockedBy, via, erring>>

\* The handler returned and the close callback was called.
OnCloseConnection(p) ==
    /\ task[p] = "serving"
    /\ task' = [task EXCEPT ![p] = "closed"]
    /\ UNCHANGED <<srv, worker, sent, head, lockedBy, via, erring>>

WorkerStep(w) ==
    \/ Spawn(w) \/ Bind(w) \/ TryLock(w) \/ TryRecv(w) \/ Stop(w)
    \/ AcceptTimesOut(w) \/ AcceptErrors(w) \/ (\E p \in Peers : Accept(w, p))

TaskStep(p) == OnAcceptFails(p) \/ OnAcceptConnection(p) \/ OnCloseConnection(p)

ServerStep ==
    \/ OnBindSocket \/ Return \/ Lock \/ SendUnlock
    \/ \E w \in Workers : WorkerStep(w) \/ \E p \in Peers : Connect(p, w)

Next == ServerStep \/ \E p \in Peers : TaskStep(p)

Spec == Init /\ [][Next]_vars

----------------------------------------------------------------------------
(* Properties.                                                             *)

\* Types; in particular try_recv never overtakes what was sent.
TypeOK ==
    /\ srv \in {"start", "spawning", "returned", "panicked"}
    /\ worker \in [Workers -> {"none", "bind", "failed", "check", "recv", "accept",
                               "stopping", "stopped"}]
    /\ sent \in Seq(BOOLEAN)
    /\ head \in 0..Len(sent)
    /\ lockedBy \in 0..(NumWorkers + 1)
    /\ task \in [Peers -> {"idle", "backlog", "accepting", "serving", "ended",
                           "closed", "refused"}]
    /\ via \in [Peers -> 0..NumWorkers]
    /\ erring \subseteq Workers

Stopped  == {w \in Workers : worker[w] \in {"stopping", "stopped"}}
Requests(n) == {i \in 1..n : sent[i]}

AllDown == \A w \in Workers : worker[w] \in {"stopped", "failed"}

\* Every request that left the channel has stopped one worker, and one only,
\* although the workers contend for the mutex with each other and with senders.
OneWorkerPerRequest == Cardinality(Stopped) = Cardinality(Requests(head))

\* With an accept timeout, as many requests as there are workers stop them all.
EnoughRequestsStopAll ==
    (srv = "returned" /\ Cardinality(Requests(Len(sent))) >= NumWorkers)
        ~> AllDown

\* A connection does not stay in the backlog of a worker, although the worker may
\* stop meanwhile, unless that worker's accept errors recur for ever.
BacklogDrained ==
    \A w \in Workers, p \in Peers :
        \/ []<>(w \in erring)
        \/ (task[p] = "backlog" /\ via[p] = w) ~> (task[p] # "backlog")
=============================================================================
