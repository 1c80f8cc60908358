--------------------------- MODULE RaftRpcProofs ---------------------------
(***************************************************************************)
(* Theorems about RaftRpc for any number of nodes, terms, calls under way, *)
(* drops and restarts: what a leader takes for replicated was stored, and  *)
(* two leaders of one term need a voter that was restarted.                *)
(***************************************************************************)
EXTENDS RaftRpc, FiniteSetTheorems, TLAPS

----------------------------------------------------------------------------
(* Types of nodes and calls.                                               *)

Rafts == [term : Nat, votedFor : SUBSET Nodes, members : {{}, Nodes}, log : Nat,
          role : {"follower", "candidate", "leader"}, votes : SUBSET Nodes,
          chunk : [Nodes -> Nat]]

\* Whoever counts votes counts them against all nodes.
NodeOK(r) == r \in Rafts /\ (r.role = "candidate" => r.members = Nodes)

\* A call from a node carries the term it was made in, and the message of a call
\* is its request, converted; other clients cannot append.
CallOK(c) ==
    /\ c = [kind |-> c.kind, from |-> c.from, to |-> c.to, req |-> c.req,
            msg |-> c.msg, st |-> c.st, live |-> c.live, res |-> c.res]
    /\ c.kind \in Kinds /\ c.to \in Nodes /\ c.from \in Nodes \cup {Client}
    /\ c.kind \in {"bootstrap", "get_metrics"} => c.from = Client
    /\ c.kind = "bootstrap" => c.msg.number_of_nodes = N
    /\ c.kind = "vote" =>
          /\ c.from \in Nodes /\ c.req.term \in Nat /\ c.req.candidate_id = c.from
          /\ c.req.last_log_index \in Nat
          /\ c.msg = raft_vote_req_to_grpc_vote_req("wolf_raft_vote", c.req)
    /\ c.kind = "append_entries" =>
          \/ c.from = Client /\ c.msg.req = NotJson
          \/ /\ c.from \in Nodes /\ c.req.term \in Nat /\ c.req.prev_log_index \in Nat
             /\ c.msg = raft_append_entries_req_to_grpc_append_entries_req(
                           "wolf_raft_append_entries", c.req)
    /\ c.kind = "install_snapshot" =>
          /\ c.from \in Nodes /\ c.req.term \in Nat /\ c.req.offset \in Nat
          /\ c.msg = raft_install_snapshot_req_to_grpc_install_snapshot_req(
                        "wolf_raft_install_snapshot", c.req)

\* What the body of an answer to a node stands for: an entry that was appended, a
\* chunk that was accepted unless the answer is of a later term.
Says(c, b) ==
    /\ b.term \in Nat
    /\ c.kind = "append_entries" /\ b.success =>
          <<c.kind, c.to, c.req.term, c.req.prev_log_index + 1>> \in stored
    /\ c.kind = "install_snapshot" =>
          /\ b.term >= c.req.term
          /\ b.term = c.req.term => <<c.kind, c.to, c.req.term, c.req.offset>> \in stored

AnswerOK(c) ==
    c.st = "answered" =>
        \E a \in c.res :
            /\ c.res = {a} /\ a.ok \in BOOLEAN
            /\ a.ok /\ c.from # Client => \E b \in a.body : a.body = {b} /\ Says(c, b)

NodesOK == raft \in [Nodes -> Rafts] /\ \A n \in Nodes : NodeOK(raft[n])
CallsOK == \A c \in calls : CallOK(c) /\ AnswerOK(c)

\* The inductive invariant of AckedWasStored.
RpcInv == NodesOK /\ CallsOK /\ acked \subseteq stored

----------------------------------------------------------------------------
(* Votes.                                                                  *)

Granted(c) ==
    /\ c.kind = "vote" /\ c.st = "answered"
    /\ \E a \in c.res : a.ok /\ \E b \in a.body : b.vote_granted

\* v is taken to have voted for m in term t: by a leader that won with it, by the
\* candidate that counts it, or by an answer on its way to the candidate.
Claim(v, m, t) ==
    \/ \E e \in elected : e.leader = m /\ e.term = t /\ v \in e.voters
    \/ raft[m].term = t /\ v \in raft[m].votes
    \/ \E c \in calls : Granted(c) /\ c.to = v /\ c.from = m /\ c.req.term = t

\* Unless v was restarted it keeps to what is claimed of it until its term is over,
\* and it is claimed by one candidate a term.
VotesKept ==
    \A v, m \in Nodes : \A t \in Nat :
        Claim(v, m, t) =>
            \/ v \in forgot \/ raft[v].term > t
            \/ raft[v].term = t /\ raft[v].votedFor = {m}

OneVoteATerm ==
    \A v, m, k \in Nodes : \A t \in Nat :
        Claim(v, m, t) /\ Claim(v, k, t) => v \in forgot \/ m = k

MajoritiesWin ==
    \A e \in elected :
        /\ e.leader \in Nodes /\ e.term \in Nat /\ e.voters \subseteq Nodes
        /\ 2 * Cardinality(e.voters) > Cardinality(Nodes)

\* The inductive invariant of ElectionSafety, with RpcInv.
VoteInv == VotesKept /\ OneVoteATerm /\ MajoritiesWin
----------------------------------------------------------------------------
(* What a node makes of a request.                                         *)

LEMMA ClientIsNoNode == Client \notin Nodes
BY RaftAssumption DEF Client, Nodes

LEMMA NewRaftOK == NodeOK(NewRaft)
BY DEF NodeOK, NewRaft, Rafts

\* A vote is only ever changed with the term, and votes that were counted are only
\* lost with the term.
Keeps(r, s) ==
    \/ s.term > r.term
    \/ s.term = r.term /\ \A m \in Nodes : r.votedFor = {m} => s.votedFor = {m}

Moves(r, s) ==
    /\ Keeps(r, s)
    /\ s.votes = {} \/ (s.term = r.term /\ s.votes = r.votes)

LEMMA StayMoves == ASSUME NEW r PROVE Moves(r, r)
BY DEF Moves, Keeps

LEMMA FollowMoves ==
  ASSUME NEW r, NodeOK(r), NEW t \in Nat
  PROVE  LET s == Follow(r, t)
         IN  /\ NodeOK(s) /\ Moves(r, s) /\ s.term >= t /\ s.term >= r.term
             /\ s.term = t => t >= r.term
             /\ \A m \in Nodes : s.term = r.term /\ r.votedFor = {m} => s.votedFor = {m}
<1>1. CASE t > r.term
  <2>1. Follow(r, t) = [r EXCEPT !.term = t, !.votedFor = {}, !.role = "follower",
                                 !.votes = {}, !.chunk = [n \in Nodes |-> 0]]
    BY <1>1 DEF Follow
  <2>2. [n \in Nodes |-> 0] \in [Nodes -> Nat]
    OBVIOUS
  <2>3. r \in Rafts /\ r.term \in Nat
    BY DEF NodeOK, Rafts
  <2>4. /\ Follow(r, t) \in Rafts /\ Follow(r, t).role = "follower"
        /\ Follow(r, t).term = t /\ Follow(r, t).votes = {}
    BY <2>1, <2>2, <2>3 DEF Rafts
  <2>5. QED
    BY <1>1, <2>3, <2>4 DEF NodeOK, Moves, Keeps
<1>2. CASE ~(t > r.term)
  <2>1. Follow(r, t) = r
    BY <1>2 DEF Follow
  <2>2. QED
    BY <1>2, <2>1, StayMoves DEF NodeOK, Rafts
<1>3. QED
  BY <1>1, <1>2

\* A vote that is granted is the node's vote of that term.
LEMMA VoteMoves ==
  ASSUME NEW r, NodeOK(r), NEW q, q.term \in Nat, q.candidate_id \in Nodes,
         q.last_log_index \in Nat
  PROVE  LET h == Vote(r, q)
         IN  /\ NodeOK(h.raft) /\ Moves(r, h.raft)
             /\ h.ok = TRUE /\ h.stores = {} /\ h.res.term \in Nat
             /\ h.res.vote_granted =>
                   h.raft.term = q.term /\ h.raft.votedFor = {q.candidate_id}
<1> DEFINE s == Follow(r, q.term)
           grant == /\ q.term = s.term /\ s.votedFor \subseteq {q.candidate_id}
                    /\ q.last_log_index >= s.log
           x == [s EXCEPT !.votedFor = {q.candidate_id}]
<1>1. NodeOK(s) /\ Moves(r, s) /\ s.term >= r.term
      /\ \A m \in Nodes : s.term = r.term /\ r.votedFor = {m} => s.votedFor = {m}
  BY FollowMoves
<1>2. Vote(r, q) = [raft |-> IF grant THEN x ELSE s, ok |-> TRUE, stores |-> {},
                    res |-> [term |-> s.term, vote_granted |-> grant]]
  BY DEF Vote
<1> HIDE DEF s
<1>3. CASE grant
  <2>1. NodeOK(x) /\ x.term = s.term /\ x.votes = s.votes /\ x.votedFor = {q.candidate_id}
    BY <1>1 DEF NodeOK, Rafts
  <2>2. \A m \in Nodes : s.votedFor = {m} => x.votedFor = {m}
    BY <1>3, <2>1
  <2>3. Moves(r, x)
    BY <1>1, <2>1, <2>2 DEF Moves, Keeps
  <2>4. s.term \in Nat
    BY <1>1 DEF NodeOK, Rafts
  <2> HIDE DEF x
  <2>5. QED
    BY <1>2, <1>3, <2>1, <2>3, <2>4
<1>4. CASE ~grant
  <2>1. s.term \in Nat
    BY <1>1 DEF NodeOK, Rafts
  <2> HIDE DEF grant
  <2>2. QED
    BY <1>1, <1>2, <1>4, <2>1
<1>5. QED
  BY <1>3, <1>4

\* Success is of the term of the request and stores the entry.
LEMMA AppendMoves ==
  ASSUME NEW r, NodeOK(r), NEW q, q.term \in Nat, q.prev_log_index \in Nat
  PROVE  LET h == AppendEntries(r, q)
         IN  /\ NodeOK(h.raft) /\ Moves(r, h.raft)
             /\ h.ok = TRUE /\ h.res.term \in Nat
             /\ h.res.success =>
                   h.raft.term = q.term /\ q.prev_log_index + 1 \in h.stores
<1> DEFINE s == Follow(r, q.term)
           ok == q.term = s.term /\ q.prev_log_index <= s.log
           x == [s EXCEPT !.log = Max2(@, q.prev_log_index + 1)]
<1>1. NodeOK(s) /\ Moves(r, s)
  BY FollowMoves
<1>2. /\ AppendEntries(r, q).raft = (IF ok THEN x ELSE s)
      /\ AppendEntries(r, q).ok = TRUE
      /\ AppendEntries(r, q).stores = (IF ok THEN {q.prev_log_index + 1} ELSE {})
      /\ AppendEntries(r, q).res.term = s.term
      /\ AppendEntries(r, q).res.success = ok
  BY DEF AppendEntries
<1> HIDE DEF s
<1>3. s.term \in Nat /\ s.log \in Nat
  BY <1>1 DEF NodeOK, Rafts
<1>4. Max2(s.log, q.prev_log_index + 1) \in Nat
  BY <1>3 DEF Max2
<1>5. NodeOK(x) /\ x.term = s.term /\ x.votes = s.votes /\ x.votedFor = s.votedFor
  BY <1>1, <1>4 DEF NodeOK, Rafts
<1>6. Moves(r, x)
  BY <1>1, <1>5 DEF Moves, Keeps
<1> HIDE DEF x
<1>7. QED
  BY <1>1, <1>2, <1>3, <1>5, <1>6

\* The answer is of the term of the request exactly where the chunk was accepted.
LEMMA InstallMoves ==
  ASSUME NEW r, NodeOK(r), NEW q, q.term \in Nat
  PROVE  LET h == InstallSnapshot(r, q)
         IN  /\ NodeOK(h.raft) /\ Moves(r, h.raft)
             /\ h.ok = TRUE /\ h.res.term \in Nat
             /\ h.res.term >= q.term /\ h.raft.term = h.res.term
             /\ h.res.term = q.term => q.offset \in h.stores
<1> DEFINE s == Follow(r, q.term)
<1>1. NodeOK(s) /\ Moves(r, s) /\ s.term >= q.term
  BY FollowMoves
<1>2. InstallSnapshot(r, q) =
        [raft |-> s, ok |-> TRUE, stores |-> IF q.term = s.term THEN {q.offset} ELSE {},
         res |-> [term |-> s.term]]
  BY DEF InstallSnapshot
<1> HIDE DEF s
<1>3. s.term \in Nat
  BY <1>1 DEF NodeOK, Rafts
<1>4. QED
  BY <1>1, <1>2, <1>3

LEMMA InitializeMoves ==
  ASSUME NEW r, NodeOK(r)
  PROVE  LET h == Initialize(r, Nodes)
         IN  NodeOK(h.raft) /\ Moves(r, h.raft) /\ h.ok \in BOOLEAN
<1> DEFINE ok == r.term = 0 /\ r.log = 0 /\ r.members = {}
           x == [r EXCEPT !.members = Nodes]
<1>1. Initialize(r, Nodes) = [raft |-> IF ok THEN x ELSE r, ok |-> ok, stores |-> {},
                              res |-> "initialized"]
  BY DEF Initialize
<1>2. NodeOK(x) /\ x.term = r.term /\ x.votes = r.votes /\ x.votedFor = r.votedFor
  BY DEF NodeOK, Rafts
<1>3. Moves(r, x) /\ Moves(r, r)
  BY <1>2, StayMoves DEF Moves, Keeps
<1> HIDE DEF x
<1>4. QED
  BY <1>1, <1>2, <1>3
----------------------------------------------------------------------------
(* What a handler makes of a call, whatever the call is.                   *)

\* What a handled call leaves in its node and says in its answer.
Handles(c, r, h) ==
    /\ NodeOK(h.raft) /\ Moves(r, h.raft) /\ h.answer.ok \in BOOLEAN
    /\ h.answer.ok /\ c.from # Client =>
          \E b \in h.answer.body :
             /\ h.answer.body = {b} /\ b.term \in Nat
             /\ c.kind = "vote" /\ b.vote_granted =>
                   h.raft.term = c.req.term /\ h.raft.votedFor = {c.from}
             /\ c.kind = "append_entries" /\ b.success =>
                   h.raft.term = c.req.term /\ c.req.prev_log_index + 1 \in h.stores
             /\ c.kind = "install_snapshot" =>
                   /\ b.term >= c.req.term /\ h.raft.term = b.term
                   /\ b.term = c.req.term => c.req.offset \in h.stores

\* A node that answers Err is as it was, and so is the caller.
LEMMA FailingHandles ==
  ASSUME NEW c, NEW r, NodeOK(r), NEW x
  PROVE  Handles(c, r, Respond(Failing(r), x))
<1>1. Respond(Failing(r), x) = [raft |-> r, stores |-> {},
                                answer |-> [ok |-> FALSE, body |-> {}]]
  BY DEF Respond, Failing
<1> DEFINE h == Respond(Failing(r), x)
<1>2. h.raft = r /\ h.answer.ok = FALSE
  BY <1>1
<1> HIDE DEF h
<1>3. h.answer.ok \in BOOLEAN /\ ~h.answer.ok
  BY <1>2, Zenon
<1>4. NodeOK(h.raft) /\ Moves(r, h.raft)
  BY <1>2, StayMoves
<1>5. Handles(c, r, h)
  BY <1>3, <1>4, Zenon DEF Handles
<1>6. QED
  BY <1>5 DEF h

LEMMA RespondOk ==
  ASSUME NEW h, h.ok = TRUE, NEW x
  PROVE  /\ Respond(h, x).raft = h.raft /\ Respond(h, x).stores = h.stores
         /\ Respond(h, x).answer.ok = TRUE /\ Respond(h, x).answer.body = {x}
BY DEF Respond

LEMMA VoteHandles ==
  ASSUME NEW c, CallOK(c), c.kind = "vote", NEW r, NodeOK(r), NEW works \in BOOLEAN
  PROVE  Handles(c, r, srv_vote(r, c.msg, works))
<1>1. CASE works
  <2> DEFINE q == grpc_vote_req_to_raft_vote_req(c.msg)
             h == Vote(r, q)
             x == raft_vote_res_to_grpc_vote_ok_res(c.msg.msg_id, h.res)
  <2>1. /\ q.term = c.req.term /\ q.candidate_id = c.from
        /\ q.last_log_index = c.req.last_log_index
        /\ q.term \in Nat /\ q.candidate_id \in Nodes /\ q.last_log_index \in Nat
    BY DEF CallOK, raft_vote_req_to_grpc_vote_req, grpc_vote_req_to_raft_vote_req
  <2>2. srv_vote(r, c.msg, works) = Respond(h, x)
    BY <1>1 DEF srv_vote
  <2>3. x.term = h.res.term /\ x.vote_granted = h.res.vote_granted
    BY DEF raft_vote_res_to_grpc_vote_ok_res
  <2> HIDE DEF q, x
  <2>4. /\ NodeOK(h.raft) /\ Moves(r, h.raft) /\ h.ok = TRUE /\ h.res.term \in Nat
        /\ h.res.vote_granted => h.raft.term = q.term /\ h.raft.votedFor = {q.candidate_id}
    BY <2>1, VoteMoves
  <2> HIDE DEF h
  <2>5. /\ Respond(h, x).raft = h.raft /\ Respond(h, x).stores = h.stores
        /\ Respond(h, x).answer.ok = TRUE /\ Respond(h, x).answer.body = {x}
    BY <2>4, RespondOk
  <2>6. QED
    BY <2>1, <2>2, <2>3, <2>4, <2>5 DEF Handles
<1>2. CASE ~works
  BY <1>2, FailingHandles DEF srv_vote
<1>3. QED
  BY <1>1, <1>2

LEMMA AppendHandles ==
  ASSUME NEW c, CallOK(c), c.kind = "append_entries", NEW r, NodeOK(r), NEW works \in BOOLEAN
  PROVE  Handles(c, r, srv_append_entries(r, c.msg, works))
<1>1. CASE works /\ IsRequest(c.msg)
  <2> DEFINE q == grpc_append_entries_req_to_raft_append_entries_req(c.msg)
             h == AppendEntries(r, q)
             x == raft_append_entries_response_to_grpc_append_entries_ok_res(
                     c.msg.msg_id, h.res)
  <2>1. c.from \in Nodes /\ q = c.req /\ q.term \in Nat /\ q.prev_log_index \in Nat
    BY <1>1 DEF CallOK, IsRequest, raft_append_entries_req_to_grpc_append_entries_req,
                grpc_append_entries_req_to_raft_append_entries_req
  <2>2. srv_append_entries(r, c.msg, works) = Respond(h, x)
    BY <1>1 DEF srv_append_entries
  <2>3. x.term = h.res.term /\ x.success = h.res.success
    BY DEF raft_append_entries_response_to_grpc_append_entries_ok_res
  <2> HIDE DEF q, x
  <2>4. /\ NodeOK(h.raft) /\ Moves(r, h.raft) /\ h.ok = TRUE /\ h.res.term \in Nat
        /\ h.res.success => h.raft.term = q.term /\ q.prev_log_index + 1 \in h.stores
    BY <2>1, AppendMoves
  <2> HIDE DEF h
  <2>5. /\ Respond(h, x).raft = h.raft /\ Respond(h, x).stores = h.stores
        /\ Respond(h, x).answer.ok = TRUE /\ Respond(h, x).answer.body = {x}
    BY <2>4, RespondOk
  <2>6. QED
    BY <2>1, <2>2, <2>3, <2>4, <2>5 DEF Handles
<1>2. CASE ~(works /\ IsRequest(c.msg))
  BY <1>2, FailingHandles DEF srv_append_entries
<1>3. QED
  BY <1>1, <1>2

LEMMA InstallHandles ==
  ASSUME NEW c, CallOK(c), c.kind = "install_snapshot", NEW r, NodeOK(r),
         NEW works \in BOOLEAN
  PROVE  Handles(c, r, srv_install_snapshot(r, c.msg, works))
<1>1. CASE works
  <2> DEFINE q == grpc_install_snapshot_req_to_raft_install_snapshot_req(c.msg)
             h == InstallSnapshot(r, q)
             x == raft_install_snapshot_res_to_grpc_install_snapshot_ok_res(
                     c.msg.msg_id, h.res)
  <2>1. q.term = c.req.term /\ q.offset = c.req.offset /\ q.term \in Nat
    BY DEF CallOK, raft_install_snapshot_req_to_grpc_install_snapshot_req,
           grpc_install_snapshot_req_to_raft_install_snapshot_req
  <2>2. srv_install_snapshot(r, c.msg, works) = Respond(h, x)
    BY <1>1 DEF srv_install_snapshot
  <2>3. x.term = h.res.term
    BY DEF raft_install_snapshot_res_to_grpc_install_snapshot_ok_res
  <2> HIDE DEF q, x
  <2>4. /\ NodeOK(h.raft) /\ Moves(r, h.raft) /\ h.ok = TRUE /\ h.res.term \in Nat
        /\ h.res.term >= q.term /\ h.raft.term = h.res.term
        /\ h.res.term = q.term => q.offset \in h.stores
    BY <2>1, InstallMoves
  <2> HIDE DEF h
  <2>5. /\ Respond(h, x).raft = h.raft /\ Respond(h, x).stores = h.stores
        /\ Respond(h, x).answer.ok = TRUE /\ Respond(h, x).answer.body = {x}
    BY <2>4, RespondOk
  <2>6. QED
    BY <2>1, <2>2, <2>3, <2>4, <2>5 DEF Handles
<1>2. CASE ~works
  BY <1>2, FailingHandles DEF srv_install_snapshot
<1>3. QED
  BY <1>1, <1>2

LEMMA BootstrapHandles ==
  ASSUME NEW c, CallOK(c), c.kind = "bootstrap", NEW r, NodeOK(r), NEW works \in BOOLEAN
  PROVE  Handles(c, r, srv_bootstrap(r, c.msg, works))
<1>1. CASE works
  <2> DEFINE h == Initialize(r, Nodes)
             x == [msg_id |-> c.msg.msg_id]
  <2>1. c.from = Client /\ Members(c.msg.number_of_nodes) = Nodes
    BY DEF CallOK, Members, Nodes
  <2>2. srv_bootstrap(r, c.msg, works) = Respond(h, x)
    BY <1>1, <2>1 DEF srv_bootstrap
  <2>3. NodeOK(h.raft) /\ Moves(r, h.raft) /\ h.ok \in BOOLEAN
    BY InitializeMoves
  <2> HIDE DEF h, x
  <2>4. Respond(h, x).raft = h.raft /\ Respond(h, x).answer.ok \in BOOLEAN
    BY <2>3 DEF Respond
  <2>5. QED
    BY <2>1, <2>2, <2>3, <2>4 DEF Handles
<1>2. CASE ~works
  BY <1>2, FailingHandles DEF srv_bootstrap
<1>3. QED
  BY <1>1, <1>2

LEMMA MetricsHandles ==
  ASSUME NEW c, CallOK(c), c.kind = "get_metrics", NEW r, NodeOK(r)
  PROVE  Handles(c, r, srv_get_metrics(r, c.msg))
<1>1. c.from = Client
  BY DEF CallOK
<1>2. /\ srv_get_metrics(r, c.msg).raft = r
      /\ srv_get_metrics(r, c.msg).answer.ok = TRUE
  BY DEF srv_get_metrics, Respond
<1>3. QED
  BY <1>1, <1>2, StayMoves DEF Handles

LEMMA CallHandles ==
  ASSUME NodesOK, NEW c, CallOK(c), NEW works \in BOOLEAN
  PROVE  Handles(c, raft[c.to], Handled(c, works))
<1> DEFINE r == raft[c.to]
<1>1. NodeOK(r) /\ c.kind \in Kinds
  BY DEF NodesOK, CallOK
<1>2. CASE c.kind = "vote"
  BY <1>1, <1>2, VoteHandles DEF Handled
<1>3. CASE c.kind = "append_entries"
  BY <1>1, <1>3, AppendHandles DEF Handled
<1>4. CASE c.kind = "install_snapshot"
  BY <1>1, <1>4, InstallHandles DEF Handled
<1>5. CASE c.kind = "bootstrap"
  BY <1>1, <1>5, BootstrapHandles DEF Handled
<1>6. CASE c.kind = "get_metrics"
  BY <1>1, <1>6, MetricsHandles DEF Handled
<1>7. QED
  BY <1>1, <1>2, <1>3, <1>4, <1>5, <1>6 DEF Kinds
----------------------------------------------------------------------------
(* The steps, by what they do to nodes, answers and acknowledgements.      *)

\* Nothing but that calls are added or lost.
Quiet ==
    /\ UNCHANGED <<raft, ghosts>>
    /\ \A k \in calls' : k \in calls \/ (CallOK(k) /\ k.st = "sent")

LEMMA CallIsQuiet ==
  ASSUME NEW kind, NEW from, NEW to, NEW req, NEW msg, Call(kind, from, to, req, msg),
         CallOK([kind |-> kind, from |-> from, to |-> to, req |-> req, msg |-> msg,
                 st |-> "sent", live |-> TRUE, res |-> {}])
  PROVE  Quiet
<1> DEFINE k == [kind |-> kind, from |-> from, to |-> to, req |-> req, msg |-> msg,
                 st |-> "sent", live |-> TRUE, res |-> {}]
<1>1. k.st = "sent" /\ CallOK(k)
  OBVIOUS
<1>2. calls' = calls \cup {k} /\ UNCHANGED <<raft, ghosts>>
  BY DEF Call
<1> HIDE DEF k
<1>3. QED
  BY <1>1, <1>2 DEF Quiet

LEMMA AsksAreQuiet ==
  ASSUME NodesOK, NEW n \in Nodes, NEW to \in Nodes,
         vote(n, to) \/ append_entries(n, to) \/ install_snapshot(n, to)
  PROVE  Quiet
<1>1. raft[n].term \in Nat /\ raft[n].log \in Nat /\ raft[n].chunk[to] \in Nat
  BY DEF NodesOK, NodeOK, Rafts
<1>2. CASE vote(n, to)
  <2> DEFINE req == [term |-> raft[n].term, candidate_id |-> n,
                     last_log_index |-> raft[n].log, last_log_term |-> 0]
             msg == raft_vote_req_to_grpc_vote_req("wolf_raft_vote", req)
  <2>1. Call("vote", n, to, req, msg)
    BY <1>2 DEF vote
  <2>2. CallOK([kind |-> "vote", from |-> n, to |-> to, req |-> req, msg |-> msg,
                st |-> "sent", live |-> TRUE, res |-> {}])
    <3>1. /\ req.term \in Nat /\ req.candidate_id = n /\ req.last_log_index \in Nat
          /\ msg = raft_vote_req_to_grpc_vote_req("wolf_raft_vote", req)
      BY <1>1
    <3> HIDE DEF req, msg
    <3>2. QED
      BY <3>1 DEF CallOK, Kinds
  <2>3. QED
    BY <2>1, <2>2, CallIsQuiet
<1>3. CASE append_entries(n, to)
  <2>1. PICK i \in 1..raft[n].log :
           LET req == [term |-> raft[n].term, leader_id |-> n, prev_log_index |-> i - 1]
           IN  Call("append_entries", n, to, req,
                    raft_append_entries_req_to_grpc_append_entries_req(
                      "wolf_raft_append_entries", req))
    BY <1>3 DEF append_entries
  <2> DEFINE req == [term |-> raft[n].term, leader_id |-> n, prev_log_index |-> i - 1]
             msg == raft_append_entries_req_to_grpc_append_entries_req(
                       "wolf_raft_append_entries", req)
  <2>2. Call("append_entries", n, to, req, msg)
    BY <2>1
  <2>3. CallOK([kind |-> "append_entries", from |-> n, to |-> to, req |-> req, msg |-> msg,
                st |-> "sent", live |-> TRUE, res |-> {}])
    <3>1. /\ req.term \in Nat /\ req.prev_log_index \in Nat
          /\ msg = raft_append_entries_req_to_grpc_append_entries_req(
                      "wolf_raft_append_entries", req)
      BY <1>1
    <3> HIDE DEF req, msg
    <3>2. QED
      BY <3>1 DEF CallOK, Kinds
  <2>4. QED
    BY <2>2, <2>3, CallIsQuiet
<1>4. CASE install_snapshot(n, to)
  <2> DEFINE k == raft[n].chunk[to]
             req == [term |-> raft[n].term, leader_id |-> n, last_included_index |-> 0,
                     last_included_term |-> 0, offset |-> k, done |-> k = Chunks - 1,
                     data |-> k]
             msg == raft_install_snapshot_req_to_grpc_install_snapshot_req(
                       "wolf_raft_install_snapshot", req)
  <2>1. Call("install_snapshot", n, to, req, msg)
    BY <1>4 DEF install_snapshot
  <2>2. CallOK([kind |-> "install_snapshot", from |-> n, to |-> to, req |-> req,
                msg |-> msg, st |-> "sent", live |-> TRUE, res |-> {}])
    <3>1. /\ req.term \in Nat /\ req.offset \in Nat
          /\ msg = raft_install_snapshot_req_to_grpc_install_snapshot_req(
                      "wolf_raft_install_snapshot", req)
      BY <1>1
    <3> HIDE DEF req, msg
    <3>2. QED
      BY <3>1 DEF CallOK, Kinds
  <2>3. QED
    BY <2>1, <2>2, CallIsQuiet
<1>5. QED
  BY <1>2, <1>3, <1>4

LEMMA ClientsAreQuiet ==
  ASSUME NEW to \in Nodes, bootstrap(to) \/ get_metrics(to)
  PROVE  Quiet
<1>1. CallOK([kind |-> "bootstrap", from |-> Client, to |-> to, req |-> {},
              msg |-> [msg_id |-> "client", number_of_nodes |-> N],
              st |-> "sent", live |-> TRUE, res |-> {}])
  BY DEF CallOK, Kinds
<1>2. CallOK([kind |-> "get_metrics", from |-> Client, to |-> to, req |-> {},
              msg |-> [msg_id |-> "client"], st |-> "sent", live |-> TRUE, res |-> {}])
  BY DEF CallOK, Kinds
<1>3. CallOK([kind |-> "append_entries", from |-> Client, to |-> to, req |-> {},
              msg |-> [msg_id |-> "client", req |-> NotJson],
              st |-> "sent", live |-> TRUE, res |-> {}])
  BY DEF CallOK, Kinds
<1>4. QED
  BY <1>1, <1>2, <1>3, CallIsQuiet DEF bootstrap, get_metrics

\* The fields of a call that is dropped or answered.
LEMMA CallFields ==
  ASSUME NEW c, CallOK(c), NEW x
  PROVE  /\ [c EXCEPT !.live = x] =
               [kind |-> c.kind, from |-> c.from, to |-> c.to, req |-> c.req,
                msg |-> c.msg, st |-> c.st, live |-> x, res |-> c.res]
         /\ [c EXCEPT !.st = "answered", !.res = x] =
               [kind |-> c.kind, from |-> c.from, to |-> c.to, req |-> c.req,
                msg |-> c.msg, st |-> "answered", live |-> c.live, res |-> x]
<1>1. PICK kind, from, to, req, msg, st, live, res :
         c = [kind |-> kind, from |-> from, to |-> to, req |-> req, msg |-> msg,
              st |-> st, live |-> live, res |-> res]
  BY DEF CallOK
<1>2. [c EXCEPT !.live = x] =
        [kind |-> c.kind, from |-> c.from, to |-> c.to, req |-> c.req,
         msg |-> c.msg, st |-> c.st, live |-> x, res |-> c.res]
  BY <1>1
<1>3. [c EXCEPT !.st = "answered", !.res = x] =
        [kind |-> c.kind, from |-> c.from, to |-> c.to, req |-> c.req,
         msg |-> c.msg, st |-> "answered", live |-> c.live, res |-> x]
  <2> DEFINE d == [c EXCEPT !.st = "answered"]
  <2>1. d = [kind |-> kind, from |-> from, to |-> to, req |-> req, msg |-> msg,
             st |-> "answered", live |-> live, res |-> res]
    BY <1>1
  <2>2. [c EXCEPT !.st = "answered", !.res = x] = [d EXCEPT !.res = x]
    OBVIOUS
  <2> HIDE DEF d
  <2>3. [d EXCEPT !.res = x] =
          [kind |-> kind, from |-> from, to |-> to, req |-> req, msg |-> msg,
           st |-> "answered", live |-> live, res |-> x]
    BY <2>1
  <2>4. /\ c.kind = kind /\ c.from = from /\ c.to = to /\ c.req = req
        /\ c.msg = msg /\ c.live = live
    BY <1>1
  <2>5. QED
    BY <2>2, <2>3, <2>4
<1>4. QED
  BY <1>2, <1>3

LEMMA DroppedIsQuiet ==
  ASSUME NEW c \in calls, CallOK(c), CallFails(c) \/ CallDropped(c)
  PROVE  Quiet
<1>1. CASE CallFails(c)
  BY <1>1 DEF CallFails, Quiet
<1>2. CASE CallDropped(c)
  <2> DEFINE k == [c EXCEPT !.live = FALSE]
  <2>1. k = [kind |-> c.kind, from |-> c.from, to |-> c.to, req |-> c.req,
             msg |-> c.msg, st |-> c.st, live |-> FALSE, res |-> c.res]
    BY CallFields
  <2>2. c.st = "sent" /\ calls' = (calls \ {c}) \cup {k} /\ UNCHANGED <<raft, ghosts>>
    BY <1>2 DEF CallDropped
  <2>3. CallOK(k) /\ k.st = "sent"
    BY <2>1, <2>2 DEF CallOK
  <2> HIDE DEF k
  <2>4. QED
    BY <2>2, <2>3 DEF Quiet
<1>3. QED
  BY <1>1, <1>2

\* The steps there are.
LEMMA Steps ==
  ASSUME NodesOK, CallsOK, [Next]_vars
  PROVE  \/ Quiet
         \/ \E n \in Nodes : Restart(n) \/ ElectionTimeout(n) \/ Win(n)
         \/ \E c \in calls : Serve(c) \/ Return(c)
<1>1. CASE UNCHANGED vars
  BY <1>1 DEF vars, Quiet
<1>2. ASSUME NEW n \in Nodes, RunServer(n) \/ RunServerFails(n) PROVE Quiet
  BY <1>2 DEF RunServer, RunServerFails, Quiet
<1>3. Candidates \subseteq Nodes /\ Followers \subseteq Nodes
  BY RaftAssumption
<1>4. ASSUME NEW c \in calls, CallFails(c) \/ CallDropped(c) PROVE Quiet
  BY <1>4, DroppedIsQuiet DEF CallsOK
<1>5. QED
  BY <1>1, <1>2, <1>3, <1>4, AsksAreQuiet, ClientsAreQuiet DEF Next

\* A call that is handled: one node moves, one answer is given.
LEMMA ServeStep ==
  ASSUME NodesOK, NEW c \in calls, CallOK(c), Serve(c)
  PROVE  \E h :
            /\ Handles(c, raft[c.to], h)
            /\ raft' = [raft EXCEPT ![c.to] = h.raft]
            /\ stored' = stored \cup {<<c.kind, c.to, h.raft.term, x>> : x \in h.stores}
            /\ \A k \in calls' :
                  k \in calls \/ k = [c EXCEPT !.st = "answered", !.res = {h.answer}]
            /\ UNCHANGED <<forgot, elected, acked>>
<1>1. PICK works \in BOOLEAN :
         /\ raft' = [raft EXCEPT ![c.to] = Handled(c, works).raft]
         /\ stored' = stored \cup {<<c.kind, c.to, Handled(c, works).raft.term, x>> :
                                      x \in Handled(c, works).stores}
         /\ calls' = (calls \ {c}) \cup
               {[d EXCEPT !.st = "answered", !.res = {Handled(c, works).answer}] :
                   d \in {c} \cap Live}
         /\ UNCHANGED <<forgot, elected, acked>>
  BY DEF Serve
<1>2. Handles(c, raft[c.to], Handled(c, works))
  BY CallHandles
<1>3. QED
  BY <1>1, <1>2
\* What an answer makes of its caller: nothing is taken for stored that was not,
\* and a vote is counted only where it was granted in the candidate's term.
Learnt(c, s) ==
    /\ c.from \in Nodes /\ raft' = [raft EXCEPT ![c.from] = s] /\ NodeOK(s)
    /\ acked' \subseteq stored
    /\ \/ Moves(raft[c.from], s)
       \/ /\ Granted(c) /\ s.term = c.req.term /\ raft[c.from].term = c.req.term
          /\ s.votedFor = raft[c.from].votedFor
          /\ s.votes = raft[c.from].votes \cup {c.to}

\* An answer of a later term is only followed.
LEMMA LearnLater ==
  ASSUME NodesOK, NEW c, c.from \in Nodes, NEW a, a.term \in Nat, NEW effect, NEW acks,
         Learn(c, a, effect, acks), a.term > raft[c.from].term
  PROVE  Learnt(c, Follow(raft[c.from], a.term))
<1>1. /\ raft' = [raft EXCEPT ![c.from] = Follow(raft[c.from], a.term)]
      /\ acked' = {<<c.kind, c.to, raft[c.from].term, x>> : x \in {}}
  BY DEF Learn
<1>2. /\ NodeOK(Follow(raft[c.from], a.term))
      /\ Moves(raft[c.from], Follow(raft[c.from], a.term))
  BY FollowMoves DEF NodesOK
<1>3. QED
  BY <1>1, <1>2 DEF Learnt

LEMMA LearnNow ==
  ASSUME NEW c, NEW a, NEW effect, NEW acks,
         Learn(c, a, effect, acks), ~(a.term > raft[c.from].term)
  PROVE  /\ raft' = [raft EXCEPT ![c.from] = effect]
         /\ acked' = {<<c.kind, c.to, raft[c.from].term, x>> : x \in acks}
BY DEF Learn

LEMMA TakeVote ==
  ASSUME NodesOK, NEW c, CallOK(c), c.st = "answered", c.kind = "vote",
         NEW a \in c.res, a.ok, NEW b \in a.body, Says(c, b), Take(c, b)
  PROVE  \E s : Learnt(c, s)
<1> DEFINE r == raft[c.from]
           v == grpc_vote_ok_res_to_raft_vote_res(b)
           counts == v.vote_granted /\ Current(c, c.req.term, "candidate")
           x == [r EXCEPT !.votes = @ \cup {c.to}]
<1>1. c.from \in Nodes /\ c.to \in Nodes /\ c.req.term \in Nat /\ b.term \in Nat
  BY DEF CallOK, Says
<1>2. v.term = b.term /\ v.vote_granted = b.vote_granted
  BY DEF grpc_vote_ok_res_to_raft_vote_res
<1>3. Learn(c, v, IF counts THEN x ELSE r, {})
  BY DEF Take
<1>4. NodeOK(r)
  BY <1>1 DEF NodesOK
<1> HIDE DEF v
<1>5. CASE v.term > r.term
  BY <1>1, <1>2, <1>3, <1>5, LearnLater
<1>6. CASE ~(v.term > r.term) /\ counts
  <2>1. raft' = [raft EXCEPT ![c.from] = x] /\ acked' \subseteq stored
    BY <1>3, <1>6, LearnNow
  <2>2. NodeOK(x) /\ x.term = r.term /\ x.votedFor = r.votedFor
        /\ x.votes = r.votes \cup {c.to}
    BY <1>1, <1>4 DEF NodeOK, Rafts
  <2>3. Granted(c) /\ r.term = c.req.term
    BY <1>2, <1>6 DEF Granted, Current
  <2> HIDE DEF x
  <2>4. Learnt(c, x)
    BY <1>1, <2>1, <2>2, <2>3 DEF Learnt
  <2>5. QED
    BY <2>4
<1>7. CASE ~(v.term > r.term) /\ ~counts
  <2>1. raft' = [raft EXCEPT ![c.from] = r] /\ acked' \subseteq stored
    BY <1>3, <1>7, LearnNow
  <2>2. Learnt(c, r)
    BY <1>1, <1>4, <2>1, StayMoves DEF Learnt
  <2>3. QED
    BY <2>2
<1>8. QED
  BY <1>5, <1>6, <1>7

LEMMA TakeAppend ==
  ASSUME NodesOK, NEW c, CallOK(c), c.from # Client, c.kind = "append_entries",
         NEW b, Says(c, b), Take(c, b)
  PROVE  \E s : Learnt(c, s)
<1> DEFINE r == raft[c.from]
           a == grpc_append_entries_ok_res_to_raft_append_entries_res(b)
           acks == IF a.success /\ Current(c, c.req.term, "leader")
                   THEN {c.req.prev_log_index + 1} ELSE {}
<1>1. c.from \in Nodes /\ c.req.term \in Nat /\ b.term \in Nat
  BY DEF CallOK, Says
<1>2. a.term = b.term /\ a.success = b.success
  BY DEF grpc_append_entries_ok_res_to_raft_append_entries_res
<1>3. Learn(c, a, r, acks)
  BY DEF Take
<1>4. NodeOK(r)
  BY <1>1 DEF NodesOK
<1> HIDE DEF a
<1>5. CASE a.term > r.term
  BY <1>1, <1>2, <1>3, <1>5, LearnLater
<1>6. CASE ~(a.term > r.term)
  <2>1. /\ raft' = [raft EXCEPT ![c.from] = r]
        /\ acked' = {<<c.kind, c.to, r.term, x>> : x \in acks}
    BY <1>3, <1>6, LearnNow
  <2>2. \A x \in acks : <<c.kind, c.to, r.term, x>> \in stored
    BY <1>2 DEF Says, Current
  <2>3. Learnt(c, r)
    BY <1>1, <1>4, <2>1, <2>2, StayMoves DEF Learnt
  <2>4. QED
    BY <2>3
<1>7. QED
  BY <1>5, <1>6

LEMMA TakeInstall ==
  ASSUME NodesOK, NEW c, CallOK(c), c.kind = "install_snapshot",
         NEW b, Says(c, b), Take(c, b)
  PROVE  \E s : Learnt(c, s)
<1> DEFINE r == raft[c.from]
           i == grpc_install_snapshot_ok_res_to_raft_install_snapshot_res(b)
           x == [r EXCEPT !.chunk[c.to] = c.req.offset + 1]
<1>1. /\ c.from \in Nodes /\ c.to \in Nodes
      /\ c.req.term \in Nat /\ c.req.offset \in Nat /\ b.term \in Nat
  BY DEF CallOK, Says
<1>2. i.term = b.term
  BY DEF grpc_install_snapshot_ok_res_to_raft_install_snapshot_res
<1>3. IF Current(c, c.req.term, "leader") THEN Learn(c, i, x, {c.req.offset})
                                          ELSE Learn(c, i, r, {})
  BY DEF Take
<1>4. NodeOK(r)
  BY <1>1 DEF NodesOK
<1> HIDE DEF i
<1>5. CASE i.term > r.term
  BY <1>1, <1>2, <1>3, <1>5, LearnLater
<1>6. CASE ~(i.term > r.term) /\ Current(c, c.req.term, "leader")
  <2>1. /\ raft' = [raft EXCEPT ![c.from] = x]
        /\ acked' = {<<c.kind, c.to, r.term, y>> : y \in {c.req.offset}}
    BY <1>3, <1>6, LearnNow
  <2>2. NodeOK(x) /\ x.term = r.term /\ x.votedFor = r.votedFor /\ x.votes = r.votes
    BY <1>1, <1>4 DEF NodeOK, Rafts
  <2>3. Moves(r, x)
    BY <2>2 DEF Moves, Keeps
  <2>4. r.term = c.req.term /\ b.term = c.req.term
    BY <1>1, <1>2, <1>6 DEF Says, Current
  <2>5. <<c.kind, c.to, r.term, c.req.offset>> \in stored
    BY <2>4 DEF Says
  <2> HIDE DEF x
  <2>6. Learnt(c, x)
    BY <1>1, <2>1, <2>2, <2>3, <2>5 DEF Learnt
  <2>7. QED
    BY <2>6
<1>7. CASE ~(i.term > r.term) /\ ~Current(c, c.req.term, "leader")
  <2>1. raft' = [raft EXCEPT ![c.from] = r] /\ acked' \subseteq stored
    BY <1>3, <1>7, LearnNow
  <2>2. Learnt(c, r)
    BY <1>1, <1>4, <2>1, StayMoves DEF Learnt
  <2>3. QED
    BY <2>2
<1>8. QED
  BY <1>5, <1>6, <1>7

LEMMA ReturnStep ==
  ASSUME NodesOK, NEW c \in calls, CallOK(c), AnswerOK(c), Return(c)
  PROVE  /\ calls' \subseteq calls /\ UNCHANGED <<forgot, elected, stored>>
         /\ UNCHANGED <<raft, acked>> \/ \E s : Learnt(c, s)
<1>1. c.st = "answered" /\ calls' \subseteq calls /\ UNCHANGED <<forgot, elected, stored>>
  BY DEF Return
<1>2. CASE c.from # Client /\ Up(c.from) /\ \A res \in c.res : res.ok
  <2>1. PICK a \in c.res : /\ c.res = {a} /\ a.ok \in BOOLEAN
                           /\ a.ok /\ c.from # Client =>
                                 \E b \in a.body : a.body = {b} /\ Says(c, b)
    BY <1>1 DEF AnswerOK
  <2>2. a.ok
    BY <1>2
  <2>3. PICK b \in a.body : Says(c, b)
    BY <1>2, <2>1, <2>2
  <2>4. Take(c, b)
    BY <1>2 DEF Return
  <2>5. c.kind \in {"vote", "append_entries", "install_snapshot"}
    BY <1>2 DEF CallOK, Kinds
  <2>6. QED
    BY <1>1, <1>2, <2>2, <2>3, <2>4, <2>5, TakeVote, TakeAppend, TakeInstall
<1>3. CASE ~(c.from # Client /\ Up(c.from) /\ \A res \in c.res : res.ok)
  BY <1>1, <1>3 DEF Return
<1>4. QED
  BY <1>1, <1>2, <1>3
----------------------------------------------------------------------------
(* Acknowledgements.                                                       *)

\* What was stored stays so, and so an answer stays true while it is on its way.
LEMMA AnswersLast ==
  ASSUME NEW k, AnswerOK(k), stored \subseteq stored'
  PROVE  AnswerOK(k)'
<1>1. ASSUME NEW b, Says(k, b) PROVE Says(k, b)'
  BY <1>1 DEF Says
<1>2. QED
  BY <1>1 DEF AnswerOK

LEMMA SentIsOK == ASSUME NEW k, k.st = "sent" PROVE AnswerOK(k)'
BY DEF AnswerOK

LEMMA AnsweredOK ==
  ASSUME NEW c, CallOK(c), NEW h, Handles(c, raft[c.to], h), NEW k,
         k = [c EXCEPT !.st = "answered", !.res = {h.answer}],
         \A x \in h.stores : <<c.kind, c.to, h.raft.term, x>> \in stored'
  PROVE  CallOK(k) /\ AnswerOK(k)'
<1>1. k = [kind |-> c.kind, from |-> c.from, to |-> c.to, req |-> c.req,
           msg |-> c.msg, st |-> "answered", live |-> c.live, res |-> {h.answer}]
  BY CallFields
<1>2. /\ k.kind = c.kind /\ k.from = c.from /\ k.to = c.to /\ k.req = c.req
      /\ k.msg = c.msg /\ k.st = "answered" /\ k.live = c.live /\ k.res = {h.answer}
  BY <1>1
<1>3. CallOK(k)
  BY <1>1, <1>2 DEF CallOK
<1>4. AnswerOK(k)'
  <2>1. CASE h.answer.ok /\ c.from # Client
    <3>1. PICK b \in h.answer.body :
             /\ h.answer.body = {b} /\ b.term \in Nat
             /\ c.kind = "append_entries" /\ b.success =>
                   h.raft.term = c.req.term /\ c.req.prev_log_index + 1 \in h.stores
             /\ c.kind = "install_snapshot" =>
                   /\ b.term >= c.req.term /\ h.raft.term = b.term
                   /\ b.term = c.req.term => c.req.offset \in h.stores
      BY <2>1 DEF Handles
    <3>2. Says(k, b)'
      BY <1>2, <3>1 DEF Says
    <3>3. h.answer.ok \in BOOLEAN
      BY DEF Handles
    <3>4. QED
      BY <1>2, <3>1, <3>2, <3>3 DEF AnswerOK
  <2>2. CASE ~(h.answer.ok /\ c.from # Client)
    BY <1>2, <2>2 DEF AnswerOK, Handles
  <2>3. QED
    BY <2>1, <2>2
<1>5. QED
  BY <1>3, <1>4

\* Only one node moves in a step.
LEMMA OneNode ==
  ASSUME NodesOK, NEW n \in Nodes, NEW s, NodeOK(s), raft' = [raft EXCEPT ![n] = s]
  PROVE  /\ NodesOK'
         /\ \A m \in Nodes : raft'[m] = IF m = n THEN s ELSE raft[m]
BY DEF NodesOK, NodeOK

\* A candidate counts itself; its members are the nodes.
LEMMA TimeoutNode ==
  ASSUME NodesOK, NEW n \in Nodes, ElectionTimeout(n)
  PROVE  \E s : /\ raft' = [raft EXCEPT ![n] = s] /\ NodeOK(s)
                /\ s.term = raft[n].term + 1 /\ s.votedFor = {n} /\ s.votes = {n}
<1> DEFINE s == [raft[n] EXCEPT !.term = @ + 1, !.votedFor = {n}, !.votes = {n},
                                !.role = "candidate"]
<1>1. raft[n] \in Rafts /\ n \in raft[n].members
  BY DEF NodesOK, ElectionTimeout
<1>2. raft[n].members = Nodes /\ raft[n].term + 1 \in Nat
  BY <1>1 DEF Rafts
<1>3. /\ s \in Rafts /\ s.members = raft[n].members /\ s.term = raft[n].term + 1
      /\ s.votedFor = {n} /\ s.votes = {n}
  BY <1>1, <1>2 DEF Rafts
<1>4. raft' = [raft EXCEPT ![n] = s]
  BY DEF ElectionTimeout, NodesOK
<1> HIDE DEF s
<1>5. QED
  BY <1>2, <1>3, <1>4 DEF NodeOK

LEMMA WinNode ==
  ASSUME NodesOK, NEW n \in Nodes, Win(n)
  PROVE  \E s : /\ raft' = [raft EXCEPT ![n] = s] /\ NodeOK(s)
                /\ s.term = raft[n].term /\ s.votedFor = raft[n].votedFor
                /\ s.votes = raft[n].votes
<1> DEFINE s == [raft[n] EXCEPT !.role = "leader", !.log = @ + 1]
<1>1. raft[n] \in Rafts
  BY DEF NodesOK
<1>2. raft[n].log + 1 \in Nat
  BY <1>1 DEF Rafts
<1>3. /\ s \in Rafts /\ s.role = "leader" /\ s.term = raft[n].term
      /\ s.votedFor = raft[n].votedFor /\ s.votes = raft[n].votes
  BY <1>1, <1>2 DEF Rafts
<1>4. raft' = [raft EXCEPT ![n] = s]
  BY DEF Win, NodesOK
<1> HIDE DEF s
<1>5. QED
  BY <1>3, <1>4 DEF NodeOK

LEMMA RpcStep == RpcInv /\ [Next]_vars => RpcInv'
<1> SUFFICES ASSUME RpcInv, [Next]_vars PROVE RpcInv'
  OBVIOUS
<1>1. NodesOK /\ CallsOK /\ acked \subseteq stored
  BY DEF RpcInv
<1>2. CASE Quiet
  <2>1. UNCHANGED <<raft, stored, acked>>
    BY <1>2 DEF Quiet, ghosts
  <2>2. ASSUME NEW k \in calls' PROVE CallOK(k) /\ AnswerOK(k)'
    BY <1>1, <1>2, <2>1, AnswersLast, SentIsOK DEF Quiet, CallsOK
  <2>3. QED
    BY <1>1, <2>1, <2>2 DEF RpcInv, NodesOK, CallsOK
<1>3. ASSUME NEW n \in Nodes, NEW s, raft' = [raft EXCEPT ![n] = s], NodeOK(s),
             UNCHANGED <<calls, stored, acked>>
      PROVE  RpcInv'
  <2>1. NodesOK'
    BY <1>1, <1>3, OneNode
  <2>2. ASSUME NEW k \in calls' PROVE CallOK(k) /\ AnswerOK(k)'
    BY <1>1, <1>3, AnswersLast DEF CallsOK
  <2>3. QED
    BY <1>1, <1>3, <2>1, <2>2 DEF RpcInv, CallsOK
<1>4. ASSUME NEW n \in Nodes, Restart(n) \/ ElectionTimeout(n) \/ Win(n)
      PROVE  RpcInv'
  <2>1. UNCHANGED <<calls, stored, acked>>
    BY <1>4 DEF Restart, ElectionTimeout, Win, ghosts
  <2>2. \E s : raft' = [raft EXCEPT ![n] = s] /\ NodeOK(s)
    BY <1>1, <1>4, NewRaftOK, TimeoutNode, WinNode DEF Restart
  <2>3. QED
    BY <1>3, <2>1, <2>2
<1>5. ASSUME NEW c \in calls, Serve(c) PROVE RpcInv'
  <2>1. CallOK(c) /\ c.to \in Nodes
    BY <1>1 DEF CallsOK, CallOK
  <2>2. PICK h :
           /\ Handles(c, raft[c.to], h)
           /\ raft' = [raft EXCEPT ![c.to] = h.raft]
           /\ stored' = stored \cup {<<c.kind, c.to, h.raft.term, x>> : x \in h.stores}
           /\ \A k \in calls' :
                 k \in calls \/ k = [c EXCEPT !.st = "answered", !.res = {h.answer}]
           /\ UNCHANGED <<forgot, elected, acked>>
    BY <1>1, <1>5, <2>1, ServeStep
  <2>3. NodesOK'
    BY <1>1, <2>1, <2>2, OneNode DEF Handles
  <2>4. ASSUME NEW k \in calls' PROVE CallOK(k) /\ AnswerOK(k)'
    <3>1. CASE k \in calls
      BY <1>1, <2>2, <3>1, AnswersLast DEF CallsOK
    <3>2. CASE k = [c EXCEPT !.st = "answered", !.res = {h.answer}]
      <4>1. /\ Handles(c, raft[c.to], h)
            /\ \A x \in h.stores : <<c.kind, c.to, h.raft.term, x>> \in stored'
        BY <2>2
      <4>2. QED
        BY <2>1, <3>2, <4>1, AnsweredOK
    <3>3. QED
      BY <2>2, <3>1, <3>2
  <2>5. QED
    BY <1>1, <2>2, <2>3, <2>4 DEF RpcInv, CallsOK
<1>6. ASSUME NEW c \in calls, Return(c) PROVE RpcInv'
  <2>1. /\ calls' \subseteq calls /\ UNCHANGED <<forgot, elected, stored>>
        /\ UNCHANGED <<raft, acked>> \/ \E s : Learnt(c, s)
    BY <1>1, <1>6, ReturnStep DEF CallsOK
  <2>2. NodesOK' /\ acked' \subseteq stored
    BY <1>1, <2>1, OneNode DEF Learnt, NodesOK
  <2>3. ASSUME NEW k \in calls' PROVE CallOK(k) /\ AnswerOK(k)'
    BY <1>1, <2>1, AnswersLast DEF CallsOK
  <2>4. QED
    BY <2>1, <2>2, <2>3 DEF RpcInv, CallsOK
<1>7. QED
  BY <1>1, <1>2, <1>4, <1>5, <1>6, Steps
LEMMA RpcAlways == Spec => []RpcInv
<1>1. Init => RpcInv
  BY NewRaftOK DEF Init, RpcInv, NodesOK, CallsOK, NodeOK
<1>2. QED
  BY <1>1, RpcStep, PTL DEF Spec

\* Whatever the router takes for an acknowledgement, of an entry or of a chunk, its
\* follower accepted in the leader's term: for any interleaving of calls that fail,
\* are dropped and handled late, or are answered with an error, and any restarts.
THEOREM AcknowledgedIsStored == Spec => []AckedWasStored
<1>1. RpcInv => AckedWasStored
  BY DEF RpcInv, AckedWasStored
<1>2. QED
  BY <1>1, RpcAlways, PTL

----------------------------------------------------------------------------
(* Elections.                                                              *)

\* The step of VotesKept and OneVoteATerm: nobody goes back on a vote, and a new
\* claim is on a vote that the voter has given and still stands by.
LEMMA ClaimsStep ==
  ASSUME NodesOK, NodesOK', VotesKept, OneVoteATerm, forgot \subseteq forgot',
         \A v \in Nodes : v \in forgot' \/ Keeps(raft[v], raft'[v]),
         \A v, m \in Nodes : \A t \in Nat :
            Claim(v, m, t)' => \/ Claim(v, m, t)
                               \/ raft'[v].term = t /\ raft'[v].votedFor = {m}
  PROVE  VotesKept' /\ OneVoteATerm'
<1>1. \A v \in Nodes : raft[v].term \in Nat /\ raft'[v].term \in Nat
  BY DEF NodesOK, Rafts
<1>2. ASSUME NEW v \in Nodes, NEW m \in Nodes, NEW t \in Nat, Claim(v, m, t)'
      PROVE  \/ v \in forgot' \/ raft'[v].term > t
             \/ raft'[v].term = t /\ raft'[v].votedFor = {m}
  <2>1. CASE Claim(v, m, t)
    <3>1. \/ v \in forgot \/ raft[v].term > t
          \/ raft[v].term = t /\ raft[v].votedFor = {m}
      BY <2>1 DEF VotesKept
    <3>2. QED
      BY <1>1, <3>1 DEF Keeps
  <2>2. QED
    BY <1>2, <2>1
<1>3. ASSUME NEW v \in Nodes, NEW m \in Nodes, NEW k \in Nodes, NEW t \in Nat,
             Claim(v, m, t), raft'[v].term = t, raft'[v].votedFor = {k}, v \notin forgot'
      PROVE  m = k
  <2>1. \/ raft[v].term > t
        \/ raft[v].term = t /\ raft[v].votedFor = {m}
    BY <1>3 DEF VotesKept
  <2>2. raft'[v].votedFor = {m}
    BY <1>1, <1>3, <2>1 DEF Keeps
  <2>3. QED
    BY <1>3, <2>2
<1>4. ASSUME NEW v \in Nodes, NEW m \in Nodes, NEW k \in Nodes, NEW t \in Nat,
             Claim(v, m, t)', Claim(v, k, t)', v \notin forgot'
      PROVE  m = k
  <2>1. /\ Claim(v, m, t) \/ (raft'[v].term = t /\ raft'[v].votedFor = {m})
        /\ Claim(v, k, t) \/ (raft'[v].term = t /\ raft'[v].votedFor = {k})
    BY <1>4
  <2>2. CASE Claim(v, m, t) /\ Claim(v, k, t)
    BY <1>4, <2>2 DEF OneVoteATerm
  <2>3. CASE Claim(v, m, t) /\ raft'[v].term = t /\ raft'[v].votedFor = {k}
    BY <1>3, <1>4, <2>3
  <2>4. CASE Claim(v, k, t) /\ raft'[v].term = t /\ raft'[v].votedFor = {m}
    BY <1>3, <1>4, <2>4
  <2>5. CASE raft'[v].votedFor = {m} /\ raft'[v].votedFor = {k}
    BY <2>5
  <2>6. QED
    BY <2>1, <2>2, <2>3, <2>4, <2>5
<1>5. QED
  BY <1>2, <1>4 DEF VotesKept, OneVoteATerm

\* The claims that elections and answers make.
Known(v, m, t) ==
    \/ \E e \in elected : e.leader = m /\ e.term = t /\ v \in e.voters
    \/ \E c \in calls : Granted(c) /\ c.to = v /\ c.from = m /\ c.req.term = t

Counted(v, m, t) == raft[m].term = t /\ v \in raft[m].votes

LEMMA ClaimParts ==
  ASSUME NEW v, NEW m, NEW t
  PROVE  /\ Claim(v, m, t) <=> Known(v, m, t) \/ Counted(v, m, t)
         /\ Claim(v, m, t)' <=> Known(v, m, t)' \/ Counted(v, m, t)'
BY DEF Claim, Known, Counted

\* A node that moves counts no vote it did not count.
LEMMA CountedMoves ==
  ASSUME NEW v, NEW m \in Nodes, NEW t, Moves(raft[m], raft'[m]), Counted(v, m, t)'
  PROVE  Counted(v, m, t)
BY DEF Moves, Counted

\* Steps in which every node moves and no vote becomes known add no claim.
LEMMA MovingStep ==
  ASSUME NodesOK, NodesOK', VotesKept, OneVoteATerm, forgot \subseteq forgot',
         \A v \in Nodes : (v \in forgot' /\ raft'[v].votes = {}) \/ Moves(raft[v], raft'[v]),
         \A v, m \in Nodes : \A t \in Nat : Known(v, m, t)' =>
            \/ Claim(v, m, t)
            \/ raft'[v].term = t /\ raft'[v].votedFor = {m}
  PROVE  VotesKept' /\ OneVoteATerm'
<1>1. \A v \in Nodes : v \in forgot' \/ Keeps(raft[v], raft'[v])
  BY DEF Moves
<1>2. ASSUME NEW v \in Nodes, NEW m \in Nodes, NEW t \in Nat, Claim(v, m, t)'
      PROVE  Claim(v, m, t) \/ (raft'[v].term = t /\ raft'[v].votedFor = {m})
  <2>1. CASE Known(v, m, t)'
    BY <2>1
  <2>2. CASE Counted(v, m, t)'
    <3>1. Moves(raft[m], raft'[m])
      BY <2>2 DEF Counted
    <3>2. QED
      BY <2>2, <3>1, CountedMoves, ClaimParts
  <2>3. QED
    BY <1>2, <2>1, <2>2, ClaimParts
<1>3. QED
  BY <1>1, <1>2, ClaimsStep

LEMMA SentIsNotGranted == ASSUME NEW k, k.st = "sent" PROVE ~Granted(k)
BY DEF Granted

LEMMA VotesStep == RpcInv /\ RpcInv' /\ VoteInv /\ [Next]_vars => VotesKept' /\ OneVoteATerm'
<1> SUFFICES ASSUME RpcInv, RpcInv', VoteInv, [Next]_vars PROVE VotesKept' /\ OneVoteATerm'
  OBVIOUS
<1>1. NodesOK /\ NodesOK' /\ CallsOK /\ VotesKept /\ OneVoteATerm
  BY DEF RpcInv, VoteInv
<1>2. \A n \in Nodes : raft[n].term \in Nat /\ raft[n].votes \subseteq Nodes
  BY <1>1 DEF NodesOK, Rafts
<1>3. CASE Quiet
  <2>1. UNCHANGED <<raft, forgot, elected>>
    BY <1>3 DEF Quiet, ghosts
  <2>2. \A v, m \in Nodes : \A t \in Nat : Known(v, m, t)' => Known(v, m, t)
    BY <1>3, <2>1, SentIsNotGranted DEF Quiet, Known
  <2>3. QED
    BY <1>1, <2>1, <2>2, StayMoves, MovingStep, ClaimParts
<1>4. ASSUME NEW n \in Nodes, Restart(n) PROVE VotesKept' /\ OneVoteATerm'
  <2>1. /\ UNCHANGED <<calls, elected>> /\ forgot' = forgot \cup {n}
        /\ \A v \in Nodes : raft'[v] = IF v = n THEN NewRaft ELSE raft[v]
    BY <1>1, <1>4 DEF Restart, NodesOK
  <2>2. \A v, m \in Nodes : \A t \in Nat : Known(v, m, t)' => Known(v, m, t)
    BY <2>1 DEF Known
  <2>3. NewRaft.votes = {}
    BY DEF NewRaft
  <2>4. QED
    BY <1>1, <2>1, <2>2, <2>3, StayMoves, MovingStep, ClaimParts
<1>5. ASSUME NEW n \in Nodes, Win(n) PROVE VotesKept' /\ OneVoteATerm'
  <2>1. PICK s : /\ raft' = [raft EXCEPT ![n] = s]
                 /\ s.term = raft[n].term /\ s.votedFor = raft[n].votedFor
                 /\ s.votes = raft[n].votes
    BY <1>1, <1>5, WinNode
  <2>2. \A v \in Nodes : raft'[v] = IF v = n THEN s ELSE raft[v]
    BY <1>1, <2>1 DEF NodesOK
  <2>3. /\ UNCHANGED <<calls, forgot>>
        /\ elected' = elected \cup
              {[leader |-> n, term |-> raft[n].term, voters |-> raft[n].votes]}
    BY <1>5 DEF Win
  <2>4. \A v \in Nodes : Moves(raft[v], raft'[v])
    BY <2>1, <2>2, StayMoves DEF Moves, Keeps
  <2>5. \A v, m \in Nodes : \A t \in Nat : Known(v, m, t)' => Claim(v, m, t)
    BY <2>3 DEF Known, Claim
  <2>6. QED
    BY <1>1, <2>3, <2>4, <2>5, MovingStep
<1>6. ASSUME NEW n \in Nodes, ElectionTimeout(n) PROVE VotesKept' /\ OneVoteATerm'
  <2>1. PICK s : /\ raft' = [raft EXCEPT ![n] = s]
                 /\ s.term = raft[n].term + 1 /\ s.votedFor = {n} /\ s.votes = {n}
    BY <1>1, <1>6, TimeoutNode
  <2>2. \A v \in Nodes : raft'[v] = IF v = n THEN s ELSE raft[v]
    BY <1>1, <2>1 DEF NodesOK
  <2>3. UNCHANGED <<calls, forgot, elected>>
    BY <1>6 DEF ElectionTimeout, ghosts
  <2>4. \A v \in Nodes : Keeps(raft[v], raft'[v])
    BY <1>2, <2>1, <2>2 DEF Keeps
  <2>5. ASSUME NEW v \in Nodes, NEW m \in Nodes, NEW t \in Nat, Claim(v, m, t)'
        PROVE  Claim(v, m, t) \/ (raft'[v].term = t /\ raft'[v].votedFor = {m})
    <3>1. CASE Known(v, m, t)'
      BY <2>3, <3>1, ClaimParts DEF Known
    <3>2. CASE Counted(v, m, t)' /\ m = n
      BY <2>1, <2>2, <3>2 DEF Counted
    <3>3. CASE Counted(v, m, t)' /\ m # n
      BY <2>2, <3>3, ClaimParts DEF Counted
    <3>4. QED
      BY <2>5, <3>1, <3>2, <3>3, ClaimParts
  <2>6. QED
    BY <1>1, <2>3, <2>4, <2>5, ClaimsStep
<1>7. ASSUME NEW c \in calls, Serve(c) PROVE VotesKept' /\ OneVoteATerm'
  <2>1. CallOK(c) /\ c.to \in Nodes
    BY <1>1 DEF CallsOK, CallOK
  <2>2. PICK h :
           /\ Handles(c, raft[c.to], h)
           /\ raft' = [raft EXCEPT ![c.to] = h.raft]
           /\ stored' = stored \cup {<<c.kind, c.to, h.raft.term, x>> : x \in h.stores}
           /\ \A k \in calls' :
                 k \in calls \/ k = [c EXCEPT !.st = "answered", !.res = {h.answer}]
           /\ UNCHANGED <<forgot, elected, acked>>
    BY <1>1, <1>7, <2>1, ServeStep
  <2>3. \A v \in Nodes : raft'[v] = IF v = c.to THEN h.raft ELSE raft[v]
    BY <1>1, <2>2 DEF NodesOK
  <2>4. \A v \in Nodes : Moves(raft[v], raft'[v])
    BY <2>1, <2>2, <2>3, StayMoves DEF Handles
  <2>5. ASSUME NEW k \in calls', Granted(k), k.to \in Nodes, k.from \in Nodes
        PROVE  \/ k \in calls
               \/ raft'[k.to].term = k.req.term /\ raft'[k.to].votedFor = {k.from}
    <3>1. CASE k = [c EXCEPT !.st = "answered", !.res = {h.answer}]
      <4>1. k = [kind |-> c.kind, from |-> c.from, to |-> c.to, req |-> c.req,
                 msg |-> c.msg, st |-> "answered", live |-> c.live, res |-> {h.answer}]
        BY <2>1, <3>1, CallFields
      <4>2. /\ k.kind = c.kind /\ k.from = c.from /\ k.to = c.to /\ k.req = c.req
            /\ k.res = {h.answer}
        BY <4>1
      <4>3. c.kind = "vote" /\ h.answer.ok /\ \E b \in h.answer.body : b.vote_granted
        BY <2>5, <4>2 DEF Granted
      <4>4. c.from # Client
        BY <2>5, <4>2, ClientIsNoNode
      <4>5. h.raft.term = c.req.term /\ h.raft.votedFor = {c.from}
        BY <2>2, <4>3, <4>4 DEF Handles
      <4>6. QED
        BY <2>1, <2>3, <4>2, <4>5
    <3>2. QED
      BY <2>2, <3>1
  <2>6. \A v, m \in Nodes : \A t \in Nat : Known(v, m, t)' =>
           Claim(v, m, t) \/ (raft'[v].term = t /\ raft'[v].votedFor = {m})
    BY <2>2, <2>5, ClaimParts DEF Known
  <2>7. QED
    BY <1>1, <2>2, <2>4, <2>6, MovingStep
<1>8. ASSUME NEW c \in calls, Return(c) PROVE VotesKept' /\ OneVoteATerm'
  <2>1. /\ calls' \subseteq calls /\ UNCHANGED <<forgot, elected>>
        /\ UNCHANGED raft \/ \E s : Learnt(c, s)
    BY <1>1, <1>8, ReturnStep DEF CallsOK
  <2>2. \A v, m \in Nodes : \A t \in Nat : Known(v, m, t)' => Claim(v, m, t)
    BY <2>1, ClaimParts DEF Known
  <2>3. CASE UNCHANGED raft
    BY <1>1, <2>1, <2>2, <2>3, StayMoves, MovingStep
  <2>4. ASSUME NEW s, Learnt(c, s) PROVE VotesKept' /\ OneVoteATerm'
    <3>1. c.from \in Nodes /\ raft' = [raft EXCEPT ![c.from] = s]
      BY <2>4 DEF Learnt
    <3>2. \A v \in Nodes : raft'[v] = IF v = c.from THEN s ELSE raft[v]
      BY <1>1, <3>1 DEF NodesOK
    <3>3. CASE Moves(raft[c.from], s)
      <4>1. \A v \in Nodes : Moves(raft[v], raft'[v])
        BY <3>2, <3>3, StayMoves
      <4>2. QED
        BY <1>1, <2>1, <2>2, <4>1, MovingStep
    <3>4. CASE /\ Granted(c) /\ s.term = c.req.term /\ raft[c.from].term = c.req.term
               /\ s.votedFor = raft[c.from].votedFor
               /\ s.votes = raft[c.from].votes \cup {c.to}
      <4>1. \A v \in Nodes : Keeps(raft[v], raft'[v])
        BY <3>1, <3>2, <3>4 DEF Keeps
      <4>2. ASSUME NEW v \in Nodes, NEW m \in Nodes, NEW t \in Nat, Claim(v, m, t)'
            PROVE  Claim(v, m, t)
        <5>1. CASE Known(v, m, t)'
          BY <2>2, <5>1
        <5>2. CASE Counted(v, m, t)' /\ m # c.from
          BY <3>2, <5>2, ClaimParts DEF Counted
        <5>3. CASE Counted(v, m, t)' /\ m = c.from
          BY <3>1, <3>2, <3>4, <5>3 DEF Counted, Claim
        <5>4. QED
          BY <4>2, <5>1, <5>2, <5>3, ClaimParts
      <4>3. QED
        BY <1>1, <2>1, <4>1, <4>2, ClaimsStep
    <3>5. QED
      BY <2>4, <3>3, <3>4 DEF Learnt
  <2>5. QED
    BY <2>1, <2>3, <2>4
<1>9. QED
  BY <1>1, <1>3, <1>4, <1>5, <1>6, <1>7, <1>8, Steps

\* Whoever wins has the votes of more than half of the nodes.
LEMMA MajorityStep == RpcInv /\ MajoritiesWin /\ [Next]_vars => MajoritiesWin'
<1> SUFFICES ASSUME RpcInv, MajoritiesWin, [Next]_vars PROVE MajoritiesWin'
  OBVIOUS
<1>1. NodesOK /\ CallsOK
  BY DEF RpcInv
<1>2. ASSUME NEW n \in Nodes, Win(n) PROVE MajoritiesWin'
  <2>1. /\ raft[n].members = Nodes /\ raft[n].votes \subseteq Nodes /\ raft[n].term \in Nat
    BY <1>1, <1>2 DEF Win, NodesOK, NodeOK, Rafts
  <2>2. 2 * Cardinality(raft[n].votes) > Cardinality(Nodes)
    BY <1>2, <2>1 DEF Win
  <2>3. elected' = elected \cup
           {[leader |-> n, term |-> raft[n].term, voters |-> raft[n].votes]}
    BY <1>2 DEF Win
  <2>4. QED
    BY <2>1, <2>2, <2>3 DEF MajoritiesWin
<1>3. CASE UNCHANGED elected
  BY <1>3 DEF MajoritiesWin
<1>4. ASSUME NEW n \in Nodes, Restart(n) \/ ElectionTimeout(n) PROVE UNCHANGED elected
  BY <1>4 DEF Restart, ElectionTimeout, ghosts
<1>5. ASSUME NEW c \in calls, Serve(c) \/ Return(c) PROVE UNCHANGED elected
  BY <1>5 DEF Serve, Return
<1>6. CASE Quiet
  BY <1>3, <1>6 DEF Quiet, ghosts
<1>7. QED
  BY <1>1, <1>2, <1>3, <1>4, <1>5, <1>6, Steps

LEMMA VotesAlways == Spec => []VoteInv
<1>1. Init => VoteInv
  BY DEF Init, VoteInv, VotesKept, OneVoteATerm, MajoritiesWin, Claim, NewRaft
<1>2. RpcInv /\ RpcInv' /\ VoteInv /\ [Next]_vars => VoteInv'
  BY VotesStep, MajorityStep DEF VoteInv
<1>3. QED
  BY <1>1, <1>2, RpcAlways, PTL DEF Spec

\* Any two majorities of the nodes share a voter.
LEMMA SharedVoter ==
  ASSUME NEW S, NEW T, S \subseteq Nodes, T \subseteq Nodes,
         2 * Cardinality(S) > Cardinality(Nodes), 2 * Cardinality(T) > Cardinality(Nodes)
  PROVE  \E v \in Nodes : v \in S /\ v \in T
<1>1. IsFiniteSet(Nodes)
  BY RaftAssumption, FS_Interval DEF Nodes
<1>2. Cardinality(S) \in Nat /\ Cardinality(T) \in Nat /\ Cardinality(Nodes) \in Nat
  BY <1>1, FS_Subset, FS_CardinalityType
<1>3. Cardinality(S) + Cardinality(T) > Cardinality(Nodes)
  BY <1>2
<1>4. S \cap T # {}
  BY <1>1, <1>3, FS_MajoritiesIntersect
<1>5. QED
  BY <1>4

\* Two nodes win an election of one term only where a voter of both was restarted,
\* and with its MemStore forgot its vote: for any number of nodes, and whatever is
\* lost, late, refused or handled after its caller gave up.
THEOREM OneLeaderATerm == Spec => []ElectionSafety
<1>1. VoteInv => ElectionSafety
  <2> SUFFICES ASSUME VoteInv, NEW e \in elected, NEW f \in elected,
                      e.term = f.term, e.leader # f.leader
               PROVE  e.voters \cap f.voters \cap forgot # {}
    BY DEF ElectionSafety
  <2>1. /\ e.leader \in Nodes /\ f.leader \in Nodes /\ e.term \in Nat
        /\ e.voters \subseteq Nodes /\ f.voters \subseteq Nodes
        /\ 2 * Cardinality(e.voters) > Cardinality(Nodes)
        /\ 2 * Cardinality(f.voters) > Cardinality(Nodes)
    BY DEF VoteInv, MajoritiesWin
  <2>2. PICK v \in Nodes : v \in e.voters /\ v \in f.voters
    BY <2>1, SharedVoter
  <2>3. Claim(v, e.leader, e.term) /\ Claim(v, f.leader, e.term)
    BY <2>2 DEF Claim
  <2>4. v \in forgot
    BY <2>1, <2>3 DEF VoteInv, OneVoteATerm
  <2>5. QED
    BY <2>2, <2>4
<1>2. QED
  BY <1>1, VotesAlways, PTL
============================================================================
