--------------------------- MODULE RaftConverter ---------------------------
(***************************************************************************)
(* wolf/src/system/algorithm/raft/raft_converter.rs: the messages of       *)
(* async_raft to and from those of raft.proto, field by field, and the     *)
(* requests to append entries to and from JSON.  A JSON text is the value  *)
(* it spells, tagged; a text that spells no request is NotJson.            *)
(***************************************************************************)
NotJson == <<"text">>

raft_append_entries_req_to_grpc_append_entries_req(p_msg_id, p_req) ==
    [msg_id |-> p_msg_id, req |-> <<"json", p_req>>]

\* Whether the JSON of a request can be read, and what it spells.
IsRequest(p_req) == p_req.req # NotJson
grpc_append_entries_req_to_raft_append_entries_req(p_req) == p_req.req[2]

\* An Option is the set of its value.
ConflictOpt(opt) == {[term |-> o.term, index |-> o.index] : o \in opt}

raft_append_entries_response_to_grpc_append_entries_ok_res(p_msg_id, p_res) ==
    [msg_id |-> p_msg_id, term |-> p_res.term, success |-> p_res.success,
     conflict_opt |-> ConflictOpt(p_res.conflict_opt)]

grpc_append_entries_ok_res_to_raft_append_entries_res(p_res) ==
    [term |-> p_res.term, success |-> p_res.success,
     conflict_opt |-> ConflictOpt(p_res.conflict_opt)]

raft_install_snapshot_req_to_grpc_install_snapshot_req(p_msg_id, p_req) ==
    [msg_id |-> p_msg_id, term |-> p_req.term, leader_id |-> p_req.leader_id,
     last_included_index |-> p_req.last_included_index,
     last_included_term |-> p_req.last_included_term,
     offset |-> p_req.offset, done |-> p_req.done, data |-> p_req.data]

\* Mutant: the term of the snapshot is taken for the term of the leader.
SnapshotTerm(p_req) ==
    [term |-> p_req.last_included_term, leader_id |-> p_req.leader_id,
     last_included_index |-> p_req.last_included_index,
     last_included_term |-> p_req.term,
     offset |-> p_req.offset, done |-> p_req.done, data |-> p_req.data]

grpc_install_snapshot_req_to_raft_install_snapshot_req(p_req) ==
    [term |-> p_req.term, leader_id |-> p_req.leader_id,
     last_included_index |-> p_req.last_included_index,
     last_included_term |-> p_req.last_included_term,
     offset |-> p_req.offset, done |-> p_req.done, data |-> p_req.data]

raft_install_snapshot_res_to_grpc_install_snapshot_ok_res(p_msg_id, p_req) ==
    [msg_id |-> p_msg_id, term |-> p_req.term]

grpc_install_snapshot_ok_res_to_raft_install_snapshot_res(p_req) ==
    [term |-> p_req.term]

raft_vote_req_to_grpc_vote_req(p_msg_id, p_req) ==
    [msg_id |-> p_msg_id, term |-> p_req.term,
     candidate_id |-> p_req.candidate_id,
     last_log_index |-> p_req.last_log_index,
     last_log_term |-> p_req.last_log_term]

grpc_vote_req_to_raft_vote_req(p_req) ==
    [term |-> p_req.term, candidate_id |-> p_req.candidate_id,
     last_log_index |-> p_req.last_log_index,
     last_log_term |-> p_req.last_log_term]

raft_vote_res_to_grpc_vote_ok_res(p_msg_id, p_req) ==
    [msg_id |-> p_msg_id, term |-> p_req.term,
     vote_granted |-> p_req.vote_granted]

grpc_vote_ok_res_to_raft_vote_res(p_req) ==
    [term |-> p_req.term, vote_granted |-> p_req.vote_granted]
============================================================================
