------------------------------ MODULE RaftRpc ------------------------------
(***************************************************************************)
(* The raft service of wolf/src/system/algorithm/raft: RaftRouter (the     *)
(* RaftNetwork that async_raft calls, raft_imp.rs), the gRPC service Srv   *)
(* on the other end (raft_srv.rs), and the server and channels that join   *)
(* them (stream/http/grpc.rs).  The consensus is async_raft's: a node here *)
(* is as much of it as its answers take, with the log kept by its length.  *)
(* Every RPC has a channel of its own.  A call may fail before or after    *)
(* the node has handled it, or be dropped by its caller and handled later. *)
(***************************************************************************)
EXTENDS Naturals, FiniteSets, RaftConverter

CONSTANTS
    N,              \* number_of_nodes; the nodes are 0..N-1
    Candidates,     \* nodes whose election timer may fire
    Followers,      \* bound: nodes a leader replicates to, and that are restarted
    Chunks,         \* chunks of a snapshot
    MaxTerm,        \* bound: the highest term an election starts
    Persistent,     \* bound: candidates that go beyond the first term
    MaxLog,         \* bound: the length of a log
    MaxCalls,       \* bound: calls that somebody waits for, at a time
    MaxDropped,     \* bound: calls under way that were given up, at a time
    MaxRestarts     \* bound: nodes that are restarted

Nodes == 0..(N - 1)

ASSUME RaftAssumption ==
    /\ N \in Nat \ {0} /\ Candidates \subseteq Nodes /\ Followers \subseteq Nodes
    /\ Persistent \subseteq Candidates /\ Chunks \in Nat \ {0} /\ MaxTerm \in Nat /\ MaxLog \in Nat
    /\ MaxCalls \in Nat /\ MaxDropped \in Nat /\ MaxRestarts \in Nat

VARIABLES
    srv,        \* per node: what run_server serves, or why it does not
    raft,       \* per node: the MemRaft of its Srv
    calls,      \* the RPCs under way
    forgot,     \* nodes that were restarted
    elected,    \* elections won: leader, term, voters
    stored,     \* entries and chunks that nodes ever accepted
    acked       \* the entry or chunk the latest answer told a leader is accepted

ghosts == <<forgot, elected, stored, acked>>
vars   == <<srv, raft, calls, ghosts>>

\* The id of a client of the service that is not a node.
Client == N

Live == {c \in calls : c.live}

Max2(a, b) == IF a > b THEN a ELSE b

----------------------------------------------------------------------------
(* A MemRaft node, by how the service uses it.                             *)

\* raft_imp::new: the store is a MemStore, empty however often it is made.
NewRaft == [term |-> 0, votedFor |-> {}, members |-> {}, log |-> 0,
            role |-> "follower", votes |-> {}, chunk |-> [n \in Nodes |-> 0]]

\* A node that hears of a later term follows in it.
Follow(r, term) ==
    IF term > r.term
    THEN [r EXCEPT !.term = term, !.votedFor = {}, !.role = "follower",
                   !.votes = {}, !.chunk = [n \in Nodes |-> 0]]
    ELSE r

\* What a node becomes and answers; ok is FALSE where it answers Err.
Vote(r, q) ==
    LET s     == Follow(r, q.term)
        grant == /\ q.term = s.term /\ s.votedFor \subseteq {q.candidate_id}
                 /\ q.last_log_index >= s.log
    IN  [raft |-> IF grant THEN [s EXCEPT !.votedFor = {q.candidate_id}] ELSE s,
         ok |-> TRUE, stores |-> {},
         res |-> [term |-> s.term, vote_granted |-> grant]]

AppendEntries(r, q) ==
    LET s  == Follow(r, q.term)
        ok == q.term = s.term /\ q.prev_log_index <= s.log
    IN  [raft |-> IF ok THEN [s EXCEPT !.log = Max2(@, q.prev_log_index + 1)] ELSE s,
         ok |-> TRUE,
         stores |-> IF ok THEN {q.prev_log_index + 1} ELSE {},
         res |-> [term |-> s.term, success |-> ok,
                  conflict_opt |-> IF q.term = s.term /\ ~ok
                                   THEN {[term |-> s.term, index |-> s.log]} ELSE {}]]

InstallSnapshot(r, q) ==
    LET s == Follow(r, q.term)
    IN  [raft |-> s, ok |-> TRUE,
         stores |-> IF q.term = s.term THEN {q.offset} ELSE {},
         res |-> [term |-> s.term]]

\* initialize() is refused by a node that already has a term or a log.
Initialize(r, members) ==
    LET ok == r.term = 0 /\ r.log = 0 /\ r.members = {}
    IN  [raft |-> IF ok THEN [r EXCEPT !.members = members] ELSE r,
         ok |-> ok, stores |-> {}, res |-> "initialized"]

Failing(r) == [raft |-> r, ok |-> FALSE, stores |-> {}, res |-> "error"]

Init ==
    /\ srv = [n \in Nodes |-> "down"]
    /\ raft = [n \in Nodes |-> NewRaft]
    /\ calls = {}
    /\ forgot = {} /\ elected = {} /\ stored = {} /\ acked = {}

----------------------------------------------------------------------------
(* grpc.rs: servers and channels.                                          *)

Up(n) == srv[n] = "up"

RunServer(n) ==
    /\ srv[n] = "down"
    /\ srv' = [srv EXCEPT ![n] = "up"]
    /\ UNCHANGED <<raft, calls, ghosts>>

\* The address, the certificate, the key or the port is not to be had.
RunServerFails(n) ==
    /\ srv[n] = "down" /\ n \notin Candidates
    /\ srv' = [srv EXCEPT ![n] = "failed"]
    /\ UNCHANGED <<raft, calls, ghosts>>

\* The shutdown signal ends serve_with_shutdown, and get_service makes the node
\* anew for the next run.
Restart(n) ==
    /\ Up(n) /\ n \in Followers /\ Cardinality(forgot) < MaxRestarts
    /\ srv' = [srv EXCEPT ![n] = "down"]
    /\ raft' = [raft EXCEPT ![n] = NewRaft]
    /\ forgot' = forgot \cup {n}
    /\ UNCHANGED <<calls, elected, stored, acked>>

\* An error status, or an answer that never comes: the caller gets Err, whether or
\* not the node has handled the request.
CallFails(c) ==
    /\ calls' = calls \ {c}
    /\ UNCHANGED <<srv, raft, ghosts>>

\* async_raft gives up on a call of its own accord; the request is on its way.
CallDropped(c) ==
    /\ c.st = "sent" /\ c.live /\ c.from # Client /\ Cardinality(calls \ Live) < MaxDropped
    /\ calls' = (calls \ {c}) \cup {[c EXCEPT !.live = FALSE]}
    /\ UNCHANGED <<srv, raft, ghosts>>

----------------------------------------------------------------------------
(* raft_imp.rs: RaftRouter, and other clients of the service.              *)

\* create_channel connects to the port of the target, BASE_PORT + its id; where it
\* cannot the caller gets Err and nothing has happened.
CreateChannel(to) == Up(to)

\* The msg_id is a version 5 uuid of a constant: the same for all calls of a kind.
Call(kind, from, to, req, msg) ==
    /\ CreateChannel(to)
    /\ Cardinality(Live) < MaxCalls
    /\ calls' = calls \cup {[kind |-> kind, from |-> from, to |-> to, req |-> req,
                            msg |-> msg, st |-> "sent", live |-> TRUE, res |-> {}]}
    /\ UNCHANGED <<srv, raft, ghosts>>

vote(n, to) ==
    /\ Up(n) /\ raft[n].role = "candidate"
    /\ to \in raft[n].members \ raft[n].votes
    /\ LET req == [term |-> raft[n].term, candidate_id |-> n,
                   last_log_index |-> raft[n].log, last_log_term |-> 0]
       IN  Call("vote", n, to, req,
                raft_vote_req_to_grpc_vote_req("wolf_raft_vote", req))

Leads(n, to) ==
    /\ Up(n) /\ raft[n].role = "leader"
    /\ to \in (raft[n].members \cap Followers) \ {n}

append_entries(n, to) ==
    /\ Leads(n, to)
    /\ \E i \in 1..raft[n].log :
          LET req == [term |-> raft[n].term, leader_id |-> n, prev_log_index |-> i - 1]
          IN  Call("append_entries", n, to, req,
                   raft_append_entries_req_to_grpc_append_entries_req(
                     "wolf_raft_append_entries", req))

install_snapshot(n, to) ==
    /\ Leads(n, to)
    /\ raft[n].chunk[to] < Chunks
    /\ LET k   == raft[n].chunk[to]
           req == [term |-> raft[n].term, leader_id |-> n, last_included_index |-> 0,
                   last_included_term |-> 0, offset |-> k, done |-> k = Chunks - 1,
                   data |-> k]
       IN  Call("install_snapshot", n, to, req,
                raft_install_snapshot_req_to_grpc_install_snapshot_req(
                  "wolf_raft_install_snapshot", req))

\* What others ask of a node: to be initialized,
bootstrap(to) ==
    Call("bootstrap", Client, to, {}, [msg_id |-> "client", number_of_nodes |-> N])

\* its metrics, or to append what is no request.
get_metrics(to) ==
    \/ Call("get_metrics", Client, to, {}, [msg_id |-> "client"])
    \/ Call("append_entries", Client, to, {}, [msg_id |-> "client", req |-> NotJson])

----------------------------------------------------------------------------
(* raft_srv.rs: Srv.                                                       *)

\* The answer of a handler: what its node answered, converted, or an ErrorRes;
\* never an error status.
Respond(h, ok_res) ==
    [raft |-> h.raft, stores |-> h.stores,
     answer |-> IF h.ok THEN [ok |-> TRUE, body |-> {ok_res}]
                        ELSE [ok |-> FALSE, body |-> {}]]

Members(number_of_nodes) == 0..(number_of_nodes - 1)

srv_bootstrap(r, m, works) ==
    LET h == IF works THEN Initialize(r, Members(m.number_of_nodes)) ELSE Failing(r)
    IN  Respond(h, [msg_id |-> m.msg_id])

\* A request that cannot be read does not reach the node.
srv_append_entries(r, m, works) ==
    LET h == IF works /\ IsRequest(m)
             THEN AppendEntries(r, grpc_append_entries_req_to_raft_append_entries_req(m))
             ELSE Failing(r)
    IN  Respond(h, raft_append_entries_response_to_grpc_append_entries_ok_res(m.msg_id, h.res))

srv_install_snapshot(r, m, works) ==
    LET h == IF works
             THEN InstallSnapshot(r, grpc_install_snapshot_req_to_raft_install_snapshot_req(m))
             ELSE Failing(r)
    IN  Respond(h, raft_install_snapshot_res_to_grpc_install_snapshot_ok_res(m.msg_id, h.res))

\* Mutant: a node that answers Err is answered for with its term and a vote.
srv_vote_always(r, m, works) ==
    LET q == grpc_vote_req_to_raft_vote_req(m)
    IN  Respond(IF works THEN Vote(r, q)
                ELSE [raft |-> r, stores |-> {}, ok |-> TRUE],
                IF works THEN raft_vote_res_to_grpc_vote_ok_res(m.msg_id, Vote(r, q).res)
                ELSE [msg_id |-> m.msg_id, term |-> r.term, vote_granted |-> TRUE])

srv_vote(r, m, works) ==
    LET h == IF works THEN Vote(r, grpc_vote_req_to_raft_vote_req(m)) ELSE Failing(r)
    IN  Respond(h, raft_vote_res_to_grpc_vote_ok_res(m.msg_id, h.res))

srv_get_metrics(r, m) ==
    Respond([raft |-> r, ok |-> TRUE, stores |-> {}],
            [msg_id |-> m.msg_id, metrics |-> <<"json", r.term>>])

Handled(c, works) ==
    LET r == raft[c.to] IN
    CASE c.kind = "bootstrap"        -> srv_bootstrap(r, c.msg, works)
      [] c.kind = "append_entries"   -> srv_append_entries(r, c.msg, works)
      [] c.kind = "install_snapshot" -> srv_install_snapshot(r, c.msg, works)
      [] c.kind = "vote"             -> srv_vote(r, c.msg, works)
      [] c.kind = "get_metrics"      -> srv_get_metrics(r, c.msg)

\* The answer to a call that was dropped goes nowhere.
Serve(c) ==
    /\ c.st = "sent" /\ Up(c.to)
    /\ \E works \in BOOLEAN : LET h == Handled(c, works) IN
          /\ raft' = [raft EXCEPT ![c.to] = h.raft]
          /\ stored' = stored \cup {<<c.kind, c.to, h.raft.term, x>> : x \in h.stores}
          /\ calls' = (calls \ {c}) \cup
                {[d EXCEPT !.st = "answered", !.res = {h.answer}] : d \in {c} \cap Live}
    /\ UNCHANGED <<srv, forgot, elected, acked>>

----------------------------------------------------------------------------
(* What the caller's node makes of an answer.                              *)

\* A later term ends the node's candidacy or lead.  What else the answer says
\* counts only for the term it was asked in.
Learn(c, res, effect, acks) ==
    LET r == raft[c.from] IN
    /\ raft' = [raft EXCEPT ![c.from] =
                   IF res.term > r.term THEN Follow(r, res.term) ELSE effect]
    /\ acked' =
          {<<c.kind, c.to, r.term, x>> : x \in IF res.term > r.term THEN {} ELSE acks}

\* Asked in the term and role the node is still in.
Current(c, term, role) == raft[c.from].term = term /\ raft[c.from].role = role

Take(c, body) ==
    LET r == raft[c.from] IN
    CASE c.kind = "vote" ->
           LET v == grpc_vote_ok_res_to_raft_vote_res(body)
           IN  Learn(c, v, IF v.vote_granted /\ Current(c, c.req.term, "candidate")
                           THEN [r EXCEPT !.votes = @ \cup {c.to}] ELSE r, {})
      [] c.kind = "append_entries" ->
           LET a == grpc_append_entries_ok_res_to_raft_append_entries_res(body)
           IN  Learn(c, a, r, IF a.success /\ Current(c, c.req.term, "leader")
                              THEN {c.req.prev_log_index + 1} ELSE {})
      [] c.kind = "install_snapshot" ->
           LET i == grpc_install_snapshot_ok_res_to_raft_install_snapshot_res(body)
           IN  IF Current(c, c.req.term, "leader")
               THEN Learn(c, i, [r EXCEPT !.chunk[c.to] = c.req.offset + 1], {c.req.offset})
               ELSE Learn(c, i, r, {})

\* Only an OkRes is more than an Err.
Return(c) ==
    /\ c.st = "answered"
    /\ calls' = calls \ {c}
    /\ IF c.from # Client /\ Up(c.from) /\ \A res \in c.res : res.ok
       THEN \A res \in c.res : \A body \in res.body : Take(c, body)
       ELSE UNCHANGED <<raft, acked>>
    /\ UNCHANGED <<srv, forgot, elected, stored>>

----------------------------------------------------------------------------
(* The node itself.                                                        *)

ElectionTimeout(n) ==
    /\ Up(n) /\ n \in raft[n].members
    /\ raft[n].role # "leader" /\ raft[n].term < (IF n \in Persistent THEN MaxTerm ELSE 1)
    /\ raft' = [raft EXCEPT ![n].term = @ + 1, ![n].votedFor = {n},
                            ![n].votes = {n}, ![n].role = "candidate"]
    /\ UNCHANGED <<srv, calls, ghosts>>

\* A majority of the members it was initialized with.
Win(n) ==
    /\ Up(n) /\ raft[n].role = "candidate"
    /\ 2 * Cardinality(raft[n].votes) > Cardinality(raft[n].members)
    /\ raft[n].log < MaxLog
    /\ raft' = [raft EXCEPT ![n].role = "leader", ![n].log = @ + 1]
    /\ elected' = elected \cup {[leader |-> n, term |-> raft[n].term, voters |-> raft[n].votes]}
    /\ UNCHANGED <<srv, calls, forgot, stored, acked>>

Next ==
    \/ \E n \in Nodes : RunServer(n) \/ RunServerFails(n) \/ Restart(n)
    \/ \E n \in Candidates : ElectionTimeout(n) \/ Win(n) \/ bootstrap(n)
    \/ \E n \in Followers : get_metrics(n)
    \/ \E n \in Candidates, to \in Nodes :
          vote(n, to) \/ append_entries(n, to) \/ install_snapshot(n, to)
    \/ \E c \in calls :
          CallFails(c) \/ CallDropped(c) \/ Serve(c) \/ Return(c)

Spec == Init /\ [][Next]_vars

----------------------------------------------------------------------------
(* Properties.                                                             *)

Kinds == {"vote", "append_entries", "install_snapshot", "bootstrap", "get_metrics"}

\* Types; an answer is there exactly when the call is answered.
TypeOK ==
    /\ srv \in [Nodes -> {"down", "up", "failed"}]
    /\ \A n \in Nodes :
          /\ raft[n].term \in 0..MaxTerm /\ raft[n].log \in 0..MaxLog
          /\ raft[n].votedFor \in {{}} \cup {{m} : m \in Nodes}
          /\ raft[n].members \subseteq Nodes /\ raft[n].votes \subseteq Nodes
    /\ \A c \in calls :
          /\ c.kind \in Kinds /\ c.to \in Nodes /\ c.from \in Nodes \cup {Client}
          /\ (c.st = "answered") <=> (c.res # {})
    /\ forgot \subseteq Nodes

\* Two nodes win an election in the same term only with the help of a voter that
\* was restarted and, its store being in memory, forgot its vote.  Lost, late and
\* refused answers, errors and dropped calls never add a vote.
ElectionSafety ==
    \A e, f \in elected :
        e.term = f.term /\ e.leader # f.leader => e.voters \cap f.voters \cap forgot # {}

\* What a leader takes for replicated, be it an entry or a chunk of a snapshot,
\* its follower did accept in that term: no error, no answer to another call and
\* no answer of a later term is taken for an acknowledgement.
AckedWasStored == acked \subseteq stored
============================================================================
