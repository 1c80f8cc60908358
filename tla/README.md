# WolfEngine: TLA+ models, checks and proofs

WolfEngine is a Rust crate (`wolf/`), with C and C++ parts behind FFI
(`wolf/sys/`, `wolf/src/system/_cxx/`), for games and streaming: network
endpoints, a game clock, media encoding, compression and wrappers around
operating-system services. This directory holds TLA+ models of the parts that
have behaviour of their own, the TLC configurations that check them, and
machine-checked proofs of every safety invariant those runs check. Paths below are
relative to the repository.

`PROJECT.json` is the index: components, runs, mutants, the map from definitions
to source lines, findings, hazards and theorems.

## 1. Inventory

| Component | State | Operations | What must be right |
|---|---|---|---|
| tokio TCP server, `stream/tcp/tcp_server.rs` | listener; shutdown channel behind a mutex, shared by all runs; one task per connection | `server`, `server_main_loop`, `accept_connection` | each shutdown request stops one run; accept and close callbacks paired; nobody left in the backlog unless accept keeps failing; shutdown always takes effect |
| native connection handler, same file | `Buffer` (bytes and `size`), close message | `handle_tcp_connection` | one answer per message, within the buffer; an idle or closed connection ends |
| websocket handler, same file | `Buffer`, close code | `handle_ws_connection`, `handle_ws_text_msg` | copies fit; answers are the callback's; a close frame ends the handler |
| fiber TCP server, `stream/tcp/tcp_server_fiber.rs` | a listener per worker, one shared channel | `server`, `server_main_loop`, `accept_connection`, `handle_tcp_connection` | a request stops exactly one worker; shutdown of all; timeouts end a silent peer |
| game clock, `system/chrono/gametime.rs` | accumulators and `u32` counters | `tick`, `tick_fn`, `reset`, setters | time is conserved; frame rate is what was shown; `tick` returns |
| ffmpeg session, `sys/media/ffmpeg.cpp`, `conversion.cpp` | pointers of `w_ffmpeg_ctx`, the output buffer | `w_ffmpeg_init`, `_encode`, `_decode`, `_fini` | no double free, no dangling output, complete release |
| TCP client, `stream/tcp/tcp_client.rs` | stream, buffer | `client`, `load_root_ca`, `handle_client_stream` | with the server's handler: no mutual wait, over plain TCP and TLS; a client whose server is silent or gone returns; callbacks |
| UDP endpoint, `stream/udp.rs` | socket, one buffer for all peers | `connect` in both roles | answers to the right peer, and echo to the right request, under loss, duplication and reordering; an endpoint that starves ends |
| TLS configuration, `stream/common/tls.rs` | certificates, keys, acceptor | `Tls::new` | valid files give an acceptor |
| RIST stream, `stream/rist.rs`, `sys/stream/rist*.cpp` | librist contexts, data blocks, Rust values that point to them | `new`, `connect`, the setters, `send`, `read`, `from`, `Clone`, `Drop` | nothing released twice or used afterwards, the slices left in a block included; what leaks |
| LZ4, `system/compression/lz4.rs`, `sys/system/lz4.cpp` | lengths of the two vectors, the guess of the original's length | `compress`, `de_compress` | round trip up to the limits of `i32`; `set_len` within what was written |
| LZMA, `system/compression/lzma.rs`, `_cxx/lzma/lzma.cpp` | none | compress, decompress | round trip; buffer arithmetic |
| raft service, `system/algorithm/raft/*`, with `stream/http/grpc.rs` | a `MemRaft` per node, its gRPC server, the calls under way | `RaftRouter` (three RPCs out), `Srv` (five RPCs in), conversions, `run_server`, `create_channel` | errors stay errors; an acknowledgement means something was stored; one leader per term |
| virtual gamepad, `system/os/vigem_client.rs`, `os/cxx/vigem_client/vigem_client.cpp` | bus handle, targets | add, update, remove, drop | every target released once |
| callbacks, timeout helper, system information, runtime, signals, screen, scripts, rendering, FFI bindings, demo, build script | none of their own | wrappers | not modelled, see section 8 |

**Interactions.** The server's caller owns the configuration and a
`Mutex<(Sender<bool>, Receiver<bool>)>`; other threads lock it to send, the
accept loop uses `try_lock` and `try_recv` between two accepts. Accepted
connections run in tasks (`tokio::spawn`) or fibers that outlive the loop. A task
runs the accept callback, one of the handlers, and the close callback. The
handlers talk to the caller only through `p_on_msg_callback`, which reads and
overwrites the shared buffer and whose `Err` means "close". The ffmpeg session is
driven through FFI by a Rust caller that holds the context and the output
buffer. The game clock is driven by a frame loop and calls back once per frame.
The TCP client is the other end of the native handler. async_raft calls
`RaftRouter`, which opens a channel for every RPC, converts the request and the
answer, and calls `Srv` of another node, which converts again and calls async_raft
there. librist runs a thread of its own that queues data blocks for `rist::read`
or runs the data callback.

**What is hard.** Polling with `try_lock`, where contention makes a check skip;
a static channel that carries requests over to the next run; a `select!` of a
read and a timer where bytes may come in between; detached tasks; several
workers that compete for one message; a cleanup of C pointers where a failing
step releases in an order given by a list of lists; draining a codec through a
pointer that also owns its object; counters that wrap and accumulators mixed
across modes; a length guessed by doubling in 32 bits; datagrams that are lost, repeated and late against a client that
counts on one answer per request; writes without a timeout on both ends of a
connection, and over TLS flushes that wait for the whole message; a raft node that restarts with an empty store while calls to its
former self are under way; `Clone` on values that own C memory,
and a borrowed slice whose address outlives the borrow. `PROJECT.json`
lists every such hazard at its line; the ones no property covers carry a note.

## 2. Modules

| Module | Models | Uses |
|---|---|---|
| `TcpServer` | `server`, `server_main_loop`, `accept_connection` up to the handler; requesters; peers | |
| `MCTcpServer` | the instance for TLC: peers and senders | `TcpServer` |
| `TcpServerProofs` | theorems about the server of `tcp_server.rs` and its websocket handler | `TcpServer`, `WsConnection` |
| `ConnSession` | abstract specification of a connection handler: what `accept_connection` and the callback rely on | |
| `NativeConnection` | `handle_tcp_connection` (tokio) and its peer | `ConnSession` (refines) |
| `NativeConnectionProofs` | theorems about `NativeConnection`, its refinement included | `NativeConnection` |
| `WsConnection` | `handle_ws_connection`, `handle_ws_text_msg` and their peer | `ConnSession` (refines) |
| `TcpFiberServer` | the fiber `server`, its workers, their listeners, the channel | |
| `FiberConnection` | the fiber `handle_tcp_connection` with the timeouts set for it | |
| `FiberServing` | the fiber server with a connection served in full | `TcpFiberServer`, `FiberConnection` (composes) |
| `FiberServingProofs` | theorems about the workers and the served connection | `FiberServing` |
| `GameTime` | `GameTime` of `gametime.rs` | |
| `GameTimeProofs` | theorems about `GameTime` | `GameTime` |
| `FfmpegSession` | the four functions of `ffmpeg.cpp` on one `w_ffmpeg_opt` | |
| `Udp` | `connect` of `udp.rs` in both roles, the peers and the network | |
| `TcpClient` | `client` and `handle_client_stream`, two socket queues, and the server's handler on the other end | `NativeConnection` (composes) |
| `TcpClientProofs` | theorems about both ends of the connection | `TcpClient` |
| `RaftConverter` | the twelve conversions of `raft_converter.rs`, as operators on records | |
| `RaftRpc` | `RaftRouter`, `Srv`, `run_server` and `create_channel`; nodes that vote, append and restart | `RaftConverter` |
| `RaftRpcProofs` | theorems about acknowledgements and votes | `RaftRpc` |
| `Rist` | `rist` and `rist_data_block` over their C allocations, against librist's thread | |
| `MCRist` | the instance for TLC: variables with their symmetry | `Rist` |
| `Lz4` | `compress` and `de_compress` of `lz4.rs` around the codec | |
| `CodecProofs` | theorems about the wrappers around codecs: `FfmpegSession` and `Lz4` | `FfmpegSession`, `Lz4` |
| `DatagramProofs` | theorems about the endpoints of datagrams: `Rist` and `Udp` | `Rist`, `Udp` |

`WsConnection`, `Udp` and `Lz4` name their `Init`, `Next`, `Spec`, `TypeOK` and
`vars` with a prefix, so that a proof module can extend them beside another
component.

`TcpServer` treats a handler as something that ends, with or without an error;
`NativeConnection` and `WsConnection` say how, and `ConnSession` is what
connects them: `MayFail` of the session is `HandlerMayFail` of the server.

### How state and actions correspond

*TcpServer.* `srv` is the place in `server()` and its loop. `sent` and `head` are
the channel with its whole past: `sent[head+1]` is what `try_recv` returns next.
`lockedBy` is the mutex; a requester holds it from `lock()` to the end of the
statement that sends. `CheckShutdown` is the `match p_shutdown_receiver.try_lock()`
with its three outcomes. `Accept`, `AcceptTimesOut` and `AcceptErrors` are the
outcomes of the `select!`; `erred` remembers that the latest accept was an error, for
the fairness below. `HandlerFails` is also a task that panics. `TlsAccept`, `OnAcceptConnection`, `HandlerReturns`,
`HandlerFails` and `OnCloseConnection` are the task. `LeaveLoop` drops the
listener, which resets its backlog. `Tls::acceptor` is a public field, so TLS is
modelled for an acceptor the caller built (`Tls::new` itself never gives one, see
section 4).

*NativeConnection.* `pc = "read"` is the first poll of the `select!`, `"wait"` the
time until something is ready. Bytes are counted, not valued. A read takes its bytes
in the poll that completes it, which is tokio's contract for a read that `select!`
cancels; the model relies on it and states nothing about it. `tls` is the kind of the
stream. On a plain one `write()` may take part of the answer and waits while the peer
stalls; on a TLS stream it puts the whole answer into the session and it is `Flush`
that waits, and whose error the server ignores. A peer ends its stream with
(`"shut"`) or without (`"cut"`) the `close_notify` of TLS; the latter is a read error.
A callback that leaves a size beyond the buffer (`CallbackOversteps`) ends the task in
the panic of the slice, before anything is written.

*WsConnection.* A message is a kind and a length; `buf` is tagged with where its
bytes come from (zeros, the message, the callback). Sends have no timeout: an answer
and the closing frame wait while the peer stalls. The outcomes of a pass are
the `Dispatch...` actions, in the order of the code's conditions.

*TcpFiberServer, FiberConnection, FiberServing.* `FiberServing` joins the workers with
the one connection whose accept callback, handler loop and close callback it follows.
Workers are spawned in order, each binds its own listener on the same address and
polls the shared channel. `try_lock` and `try_recv` are two steps because two
workers can interleave there. The handler writes before it looks at the callback's result, as the code does. The websocket
handler of this file is a stub that returns at once.

*GameTime.* One call of `tick_fn` is `TickFixed` or `TickVariable`, a `Frame` for
each round of the `while`, `FramesDone` and `Track`. Time is in whole units,
`Sec` of them to a second, where the code uses `f64`: rounding is not modelled.
The `u32` counters wrap at `FrameMod` as in a release build; a debug build would
panic. `fed`, `skew`, `dropped`, `shown`, `reported`, `rounds` and `steady` are
history variables that no guard reads.

*FfmpegSession.* `h` is the heap: what every pointer holds, which objects are
live, which lost their last pointer, and which a free has missed. `Release` is one
list of `cleanup()`; `to_cleanup`, `CoderCleanup` and `InitCleanup` are its arrays of
lists, written out in their order. `Opened(n)` is the heap after `n` allocations, and
`InitFails` fails after any number of them. Two things the code does are kept as they
are: a failed `w_ffmpeg_init` releases `ctx` first, and the lists that need `ctx`
then release nothing, so packet and frame leak; and a second decode on a session
whose packet was dropped dereferences null (`crashed`).

*Udp.* `pc` is the place in `connect()`; `buf` has, per cell, who wrote it. `net`
is a set from which `Arrive` takes a datagram, or copies it, into the socket's
queue in any order and `Lose` removes one. A client sends to its own
`local_addr()`, as the code does, so what it reads is its echo or a stranger's
datagram; an own datagram goes to the end of its queue or is dropped there. `send`
takes the whole buffer whatever `msg.size` says.

*TcpClient.* `cpc` is the place in `client()`; the server's half is an instance of
`NativeConnection` whose variables are renamed and whose peer is this client. `up`
and `down` count the bytes in the two socket queues of `Cap` bytes; `view` and
`speer` are how each end sees the connection, so that a close or a reset arrives
later than it happens. The client writes, then always reads. `tls` is chosen at the
start. Over TLS `upRecs` and `downRecs` are the records in the queues: a `write()` is
one record (a message is 1024 bytes at most, a record takes 16K), `Flush` waits until
there is room for all of it, and a read returns a record or nothing. Neither end sends
a `close_notify` (neither calls `shutdown()`), so the end of a TLS stream is a read
error on the other side. A queue is taken to hold at least one message over TLS; with
less room a record would pass in parts.

*RaftRpc.* A call is a record that goes through `Call`, `Serve`, `Respond` and
`Return`; `CallFails` may end it before or after it was handled, and `CallDropped`
leaves it under way with nobody waiting, to be handled at any later time, also by
the node's next incarnation. Requests and answers pass through the operators of
`RaftConverter` on both sides, with every error the code maps. async_raft is
external: a node keeps a term, a vote, a log by its length and what of a snapshot
it has, as much as its answers depend on. `Restart` is `Srv::new`: `MemStore` is
empty again.

*Rist.* `mem` and `ctx` are the C allocations, `val` and `ses` the Rust variables
that point to them, `load` where a block's payload is: nowhere, with the block as
librist made it, or in a slice of the application, whose address is all that `set()`
stores. `SliceEnds` is the end of such a slice, which no borrow prevents. Addresses are
not reused, so that a stale pointer is seen when it is used: it goes into `faults` and
the behaviour ends, since nothing is known of a program after that. `Pointers` are the
block pointers at hand; as `block` is a pub field each of them can be stored in another
value (`clone`, `SetField`) or given to `from()`. `copied` records every address that a
second pointer was made to. `Deliver` is librist's thread; it puts a block in the queue
or hands it to the data callback, whose pointer (`raw`) it keeps until it returns. An
assignment to `rist.ctx`, pub as well, is left out (a literal is `CloneSession`), and so
are the callbacks' arguments, librist's recovery of lost packets, and whether librist's
own release of a block touches a payload that `set()` put there.

*Lz4.* One source goes through `compress` and, as a block that may be damaged on its
way, through `de_compress`, whose rounds are steps (`Try`). A vector is its length and
how many of its bytes were ever written; bytes are not modelled. `checks` tells a debug
build, which panics on overflow, from a release build, which wraps. The codec is known
by its contract: a block byte stands for at most `Ratio` bytes, and decompression
succeeds exactly when there is room.

## 3. Runs that pass

| Run | Instance | Shows |
|---|---|---|
| `tcp_server` | 2 peers over TLS, 2 requesters, 3 runs, 3 messages, handler may fail | `OneRunPerRequest`, `CloseCallbackPaired`, `ShutdownHonoured`, `BacklogDrained` |
| `native_session` | plain or TLS, buffer of 2 bytes, 4 bytes sent, answers of 0 to 3 | `IdleConnectionEnds`, `DisconnectEnds`, refinement of `ConnSession` |
| `ws_session` | buffer of 2, messages of 0 to 3, a peer that may stall | `CopyFits`, `PeerCloseEnds`, refinement of `ConnSession` |
| `fiber_server` | 2 workers, 2 messages, 1 peer whose connection is served, one read of bytes | `OneWorkerPerRequest`, `EnoughRequestsStopAll`, `BacklogDrained`, `OneAnswerAfterVeto`, `SilentPeerEnds` |
| `game_time` | 4 ticks of 0, 2, 4 or 14 units at 6 to the second, 2 targets, counters modulo 4 | `TimeConserved`, `FramesAccounted`, `FpsBound`, `TickReturns` |
| `ffmpeg_session` | every sequence of 5 calls | `FreedOnce`, `OutputNeverDangles`, `FiniReleasesRest` |
| `udp_endpoint` | both roles, 2 peers, 2 datagrams of 0 to 3 bytes and one duplicate, a buffer of 2 | `AnswerStartsWithOwn`, `ClientLag`, `StarvedEnds` |
| `tcp_client` | plain TCP and TLS, a timeout at the client only, buffers of 2 and queues of 4 bytes | `NoMutualWriteBlock`, `TurnTaking`, `CloseOnlyAfterVeto`, `QuietExchangeEnds`, `ServerGoneEndsClient` |
| `raft_rpc` | 3 nodes, 2 candidates, 2 terms, a log of 1 and a snapshot of 2 chunks, one call at a time and one given up, one restart | `ElectionSafety`, `AckedWasStored` |
| `lz4_round_trip` | 13 source lengths, every block length, both builds | `RestoresOriginal`, `SetLenSound` |
| `rist_ownership` | one context and its clone, 2 blocks, 2 block variables, one slice, one peer, one callback | `OnlyCopiesFault`, `OnlyDisplacedLeak` |

`native_session` also checks `TypeOK`. That of `TcpServer`, `NativeConnection`,
`TcpFiberServer`, `GameTime`, `TcpClient` and `Lz4` is proved (section 5). In the other
modules the proofs carry the types that their invariants need. Every
property of a passing run has a mutant in `PROJECT.json`: a plausible mistake in the
code under which TLC finds the property violated.

### Bounds, and why they are enough

- *Two peers, two requesters* give every order of two connections against each
  other and of two threads at the mutex; no action relates three of them.
  With TLS a connection also has the steps of one without.
- *Three runs and three messages* let a request stay in the channel for the next
  run, a `false` precede a `true`, and a run stop on a message sent before it began.
- *A buffer of two units and four bytes* give an exact fit, a partial read, a
  partial write, and messages and answers of one more than the buffer.
- *Two workers and two messages* give a worker that loses the race for the mutex, one
  that takes a `false`, and a request for each worker while the connection is served;
  after one read of bytes the handler has answered, has not, or was told to close, and
  a second would only repeat this.
- *An `i32` of twelve bits* with LZ4's own ratio, slack and number of tries keeps the
  relations between the limits: `LZ4_compressBound` of the longest source just fits, a
  guess can pass the source's length, miss it or wrap, and ten doublings outdo the ratio.
- *Deltas* are zero, within `Eps` of a target, just outside, and more than two
  seconds; a modulus of 4 makes `frame_count` wrap within a call.
- *Five calls* open, use, fail, close and reopen a session, also with a wrong
  function for the session's type.
- *Two datagrams of up to one byte more than the buffer, one delivered twice* give
  two peers that share the buffer, a truncated read, an answer that is overtaken
  and one that repeats.
- *Queues of four and buffers of two bytes* let either end fill a queue in two
  writes, with the other end's answer still in the other queue; over TLS a queue holds
  two records of full length.
- *Two candidates, a third voter and one restart* are the smallest cluster in which
  one forgotten vote elects two leaders of one term, and in which without it none
  can. A second term lets an answer of the first come late. `Candidates`,
  `Followers` and `Persistent` only say which nodes take which part.
- *Two blocks and two variables* hold a block of the application and one that was
  delivered or that `from()` made, in values that share or do not, and a queue of two;
  one slice and one context suffice, since neither share anything with another. The
  theorems are for any number of each.

`CHECK_DEADLOCK FALSE` is set because every one of these systems really stops:
a server that returned, a handler that ended, a bound that is used up.

### Fairness

Weak fairness is assumed for steps that wait for nobody: the scheduler runs a
task that is ready, a timer of positive length fires, the holder of a mutex
finishes its statement. Strong fairness is assumed for `Accept` only: whenever
the `select!` is entered with a connection in the backlog that branch is ready
at once and the timer is not, so the timer cannot win for ever. An error of accept
leaves the connection where it is, and the loops only go on, so an error that recurs
for ever (no descriptors left) starves the backlog: strong fairness is assumed, and
`BacklogDrained` claimed, only of behaviours in which errors do not recur for ever
(`[]<>erred`, and per fiber worker `erring`). `ShutdownHonoured` and
`EnoughRequestsStopAll` need no such exemption. Nothing is assumed of peers, TLS and
websocket handshakes, of requesters before they lock, of callers of `server()` or of
callbacks. Without an accept timeout the shutdown properties are not claimed: the loop
would wait for a connection.

Sends of the websocket handler are fair only in that one that can finish does; one to
a peer that has stopped reading cannot. `PeerCloseEnds` is therefore claimed of a peer
that in the end reads again or is gone, as `IdleConnectionEnds` and `DisconnectEnds` of
the native handler exclude a write that stays stalled.

`udp_endpoint` assumes that the task is polled and that its timer fires, and nothing
of the network or of socket errors. `tcp_client` assumes that both tasks are polled
and that the stacks tell each other of a close; connecting and the handshake are
left to the other end, and its server's callback gives up on an empty read.
`raft_rpc`, `rist_ownership` and `lz4_round_trip` check safety only.

Liveness of the native handlers also depends on the callback. At the end of a
stream `read` returns `Ok(0)` and only the callback, called with size zero, can end
the handler. `native_session` therefore uses a callback that returns `Err` on an
empty read. One that returns `Ok` there, as the callbacks in the commented tests
of `tcp_server.rs` and `tcp_server_fiber.rs` do, keeps the task of a closed
connection spinning (hazard `tcp_server.rs:65`); `fiber_server` allows both and
claims nothing about a peer that shut its side.

## 4. Where code and comments disagree

| Run | Property | Code |
|---|---|---|
| `ws_text_reply` | `TextReplyIsCallbacks` | `handle_ws_text_msg` resets the buffer between the callback and the send: the text answer is zeros |

The line of the repository that says otherwise is quoted under `findings`. These
behaviours, which a reader of the code would not expect, are in the models of the
passing runs or next to them:

- the websocket loop ignores `None` and `Some(Err)`: after a connection broke
  without a close frame it polls again at once, for ever (`WsConnection`,
  `NextFails` and `NextEnds`), and the close callback is not called;
- `Tls::new` (not modelled) requires that no certificate was loaded
  (`stream/common/tls.rs:41`, with the message "missing certificate"), so that it fails
  for every usable file;
- one `true` stops one of the fiber server's workers only; it takes as many requests
  as workers (`EnoughRequestsStopAll`);
- the game clock clamps a delta to the target when they differ by less than 0.0004 s
  (`gametime.rs:237`), 0.4 of a millisecond, where the comment at line 229 says
  "within 1/4 of a millisecond". `Eps` is the code's value, and `FpsBound` and its
  theorem hold for that: with the comment's quarter in the bound, deltas between the
  two would break it;
- the game clock compares seconds with `MAX_DELTA_IN_MILLIS`, so that `MaxDelta`
  stands for more than sixteen hours and a pause of minutes passes whole;
- `lz4::de_compress` refuses some blocks that `lz4::compress` made of more than about a
  gigabyte, because no doubled guess is both long enough and an `i32`
  (`RestoresOriginal`);
- a restarted raft node can vote twice in a term (`ElectionSafety` says that this is
  the only way to two leaders);
- `rist_data_block::from` returns an empty block and leaves the one it was given behind
  (`OnlyDisplacedLeak`), or, when memory is short, releases it under its caller;
- `rist_data_block::set` leaves the address of the slice in the block beyond the borrow:
  safe code without a clone can read and send memory that was released
  (`OnlyCopiesFault` counts it among the ways to a dead address);
- a UDP client sends to itself and falls behind by one answer with every foreign
  datagram (`ClientLag`);
- a TCP client announces its connection before it exists and takes it back only
  when its own callback ended the loop (`CloseOnlyAfterVeto`).

## 5. Proofs

Checked by TLAPS for every value of the constants that satisfies the named
assumptions of the modules: any number of peers, requesters, workers, nodes, values
and calls, any buffer, queue and counter.

`TcpServerProofs`

| Theorem | Says | Argument |
|---|---|---|
| `TypeCorrect` | types; `head` never passes the end of the channel | inductive as it stands |
| `RequestStopsOneRun` | `OneRunPerRequest` | inductive with `TypeOK`: a fresh message index and a run that has taken none |
| `CloseFollowsAccept` | `CloseCallbackPaired` | needs `CloseInv`: how many close calls and which accept result belong to each place of a task |
| `WsCopyFits` | `CopyFits` | inductive: each branch that copies compares with the buffer first |
| `WsRefinesSession` | `WsSpec => ImplementsSession` | every action is one of `ConnSession`'s, with frames for bytes, or leaves its variables alone |

`NativeConnectionProofs`

| Theorem | Says | Argument |
|---|---|---|
| `TypeCorrect` | `size` is within the buffer whenever the handler writes, for callbacks that leave any number there | inductive: a size beyond the buffer leads to the panic of the slice and to nothing else |
| `RefinesSession` | `Spec => ImplementsSession` | every action is one of `ConnSession`'s or leaves its variables alone, under `TypeOK` |

`FiberServingProofs`

| Theorem | Says | Argument |
|---|---|---|
| `ServesAsServer` | `ServingSpec => Spec` of `TcpFiberServer` | a step of the composition is a step of the server or leaves the server's variables alone; so what holds of the workers alone holds while they serve |
| `TypeCorrect` | types of workers, channel and mutex | inductive; carried over by `ServesAsServer` |
| `RequestsStopWorkers` | `OneWorkerPerRequest` | inductive with `TypeOK`: `TryRecv` moves one message, and one worker exactly if it was a `true`; the rest is cardinality of finite sets |
| `VetoEndsConversation` | `OneAnswerAfterVeto` | needs `VetoInv`: after a late answer the handler is on its way out of the loop |

`TcpClientProofs`

| Theorem | Says | Argument |
|---|---|---|
| `TypeCorrect` | types of both ends; no queue beyond its capacity; each callback at most once | from the two invariants below |
| `CloseFollowsVeto` | `CloseOnlyAfterVeto` | needs `CallsInv`: how often each callback ran at each place of `client()`, and that a veto is what leads to `closing` |
| `WritesNeverBlockEachOther` | `NoMutualWriteBlock` | needs `ClientInv`: while both ends have an answer to write, the two queues are not both full. Whoever came to its callback last took a byte from the other's queue to get there, and the other writes nothing more before it reads. Over TLS from `TurnTaking` |
| `TurnsAreTaken` | `TurnTaking` | inductive over TLS with the types of the queues: an end sends one record and then reads, a read takes a whole record, and a read that times out or fails is the last |

`DatagramProofs`

| Theorem | Says | Argument |
|---|---|---|
| `OnlyCopiesReachDeadMemory` | `OnlyCopiesFault` | needs `Own`: a block has one owner, which is a value, a queue or the running callback, unless a pointer to it was copied; what a value or the callback holds is live or was copied, and what is in a queue is live and nowhere else. The same of contexts and sessions. And `SliceInv`: only `set()` puts a slice's address into a block |
| `OnlyDisplacedBlocksLeak` | `OnlyDisplacedLeak` | with `Own`: a step that takes a live block from its last owner releases it or is one of the three that are recorded |
| `AnswersStartWithOwn` | `AnswerStartsWithOwn` | needs `AnswerInv` with `UdpTypes`: from the read to the answer the cells that were read are the sender's or the callback's, although the rest of the shared buffer is anybody's |
| `ClientFallsBehindSlowly` | `ClientLag` | inductive with `UdpTypes`; the datagrams still unread are counted by their places in the queue, and lemmas say what a head, a tail and an append do to that count |

`RaftRpcProofs`

| Theorem | Says | Argument |
|---|---|---|
| `AcknowledgedIsStored` | `AckedWasStored` | needs `RpcInv`: what an answer under way says, in the form it has after the conversions, was stored by the node it comes from |
| `OneLeaderATerm` | `ElectionSafety` | needs `VoteInv` with `RpcInv`: whoever is taken to have voted, by a leader, a candidate or an answer under way, has that vote in its state, has moved to a later term, or forgot in a restart; so two claims of one vote in a term are one. Two majorities share a voter |

`CodecProofs`

| Theorem | Says | Argument |
|---|---|---|
| `NothingFreedTwice` | `FreedOnce` | needs `SessionInv`: between two calls every pointer of the session holds its own live object (`Sound`), and the objects that are live are of earlier calls, so that a new session shares nothing with an old one. Each list of `cleanup()` has a lemma; the arrays of lists follow in their order |
| `OutputStaysLive` | `OutputNeverDangles` | from `SessionInv` |
| `FiniLeavesOnlyDropped` | `FiniReleasesRest` | from `SessionInv`: what of a session is live is pointed to, was dropped, or is the pixels |
| `Lz4TypeCorrect` | types; the guess stays an `i32` | inductive: only a positive guess is doubled |
| `SetLenIsSound` | `SetLenSound` | needs `SetLenInv`: in the loop and after it `ret` is within the vector as it was resized last |
| `IntactBlockIsRestored` | `RestoresOriginal` | needs `RoundInv`: in the loop the guess is the block's length doubled as often as there were tries, unless that is no `i32`, and every earlier guess was too short |

`GameTimeProofs`

| Theorem | Says | Argument |
|---|---|---|
| `TypeCorrect` | types; less than a second on the counter between calls | inductive |
| `ClockConservesTime` | `TimeConserved` | inductive with `TypeOK` |
| `FramesArePaidFor` | `FpsBound` | needs `FpsInv`: the bound also says what is left over between the rounds of the loop |
| `EveryFrameCounts` | `FramesAccounted` | needs `FramesInv`: what `frame_count` says of the second while `tick_fn` runs; the lemmas on remainders say what counting on and taking a difference do to a counter that wraps |

Assumptions: booleans are booleans and bounds natural numbers; buffers and queues are
not empty; a callback of the TCP handlers may leave any `size` (a plain field: beyond the
buffer the slice panics), those of the UDP client leave one within it; targets, `Eps` and `Sec`
are positive; a UDP peer is not the endpoint's own address; the null pointer is no
object, no block and no slice; a cluster has a node and a snapshot a chunk; `LZ4_compressBound`
of the longest source is an `i32`.
`PowersAssumption` states three facts about `2^k` for the exponents that `Lz4` uses,
since the provers have no theory of powers; TLC evaluates it on the instance.

Only model-checked: the liveness properties, `ShutdownHonoured`, `BacklogDrained` (of
both servers), `IdleConnectionEnds`, `DisconnectEnds`, `PeerCloseEnds`,
`EnoughRequestsStopAll`, `SilentPeerEnds`, `TickReturns`, `StarvedEnds`,
`QuietExchangeEnds` and `ServerGoneEndsClient`. They rest on fairness, and the prover
decides neither `ENABLED` nor the temporal rules that fairness needs.

## 6. Plan

In this order; each item is a module with its run, mutants and, where named, its
proofs.

1. `FfmpegSession`: the result of a failed frame that the flush overwrites, and
   the planes of a picture that is converted again.
2. `Lzma`: headers, buffer bounds and the decoder's loop around an external codec,
   as in `Lz4`.
3. `TlsConfig`: the decisions of `Tls::new` on which inputs give an acceptor.
4. `Vigem`: ownership of the bus handle and the targets, as in `Rist`.
5. The window loop of the demo: the surface that is lost, outdated by a resize that
   nobody handles, or out of memory.

Further proofs: every safety invariant of the runs and both refinements are proved.
Left are the type invariants of `WsConnection`, `Udp`, `Rist`, `RaftRpc` and
`FfmpegSession` in full.

## 7. Running

    tlc -workers 2 -config TcpServer.cfg MCTcpServer
    tlapm TcpServerProofs.tla

`PROJECT.json` names the module and configuration of every run.

## 8. Not modelled

- External libraries (tokio, tungstenite, rustls, may, ffmpeg, librist, lz4, lzma,
  async_raft, tonic, V8, rhai, wgpu): only what the code relies on, as
  nondeterministic outcomes.
- The values of payloads, pixels and floating-point rounding.
- What the callbacks of rist are given as argument: `rist.cpp:175` stores the address of
  a parameter, which dangles after the return.
- Wrappers without state or decisions: callbacks, `timeout()`, system
  information, runtime, signals, screen capture, scripts, rendering, bindings
  generated by bindgen, the demo and the build script.
- The components of section 6 until their module is written.
