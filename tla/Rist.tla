-------------------------------- MODULE Rist --------------------------------
(***************************************************************************)
(* The RIST stream of wolf/src/stream/rist.rs over wolf/sys/stream: Rust   *)
(* values that hold raw pointers to C allocations, can be copied, and      *)
(* release what they point to when they are dropped, blocks that point to  *)
(* the caller's slices, and a thread of librist that delivers blocks to a  *)
(* queue or to the data callback.  librist itself is external.  An address *)
(* is never used again, so a stale pointer shows.  A call that             *)
(* dereferences one ends the run: see faults.                              *)
(***************************************************************************)
EXTENDS Naturals, Sequences, FiniteSets

CONSTANTS
    Blocks,     \* addresses of C data blocks
    Ctxs,       \* addresses of w_rist_ctx_t
    Values,     \* variables of type rist_data_block
    Sessions,   \* variables of type rist
    Slices,     \* addresses of byte slices of the application
    Null, Gone, \* the null pointer; a variable out of scope
    MaxPeers,   \* bound: peers a context is given
    MaxCbs      \* bound: callbacks registered with a context

\* The payload of a block that librist made: bytes it allocated with the block.
Received == "received"

ASSUME RistAssumption ==
    /\ Null \notin Blocks \cup Slices /\ Received \notin Slices
    /\ Gone \notin Blocks /\ Gone \notin Ctxs
    /\ Null # Gone /\ MaxPeers \in Nat \ {0} /\ MaxCbs \in Nat

VARIABLES
    mem,        \* per block: unused, live or released
    load,       \* per block: payload, where its bytes are
    val,        \* per rist_data_block: block
    ctx,        \* per context: what w_rist_ctx_t and librist keep
    ses,        \* per rist: ctx
    ended,      \* slices whose memory the application has given up
    copied,     \* history: addresses of which a second pointer was made
    displaced,  \* history: blocks whose last pointer was overwritten or forgotten
    faults      \* the address that was dereferenced or released while not live

heap == <<mem, load, val>>
past == <<copied, displaced>>
vars == <<heap, ctx, ses, ended, past, faults>>

Modes     == {"sender", "receiver"}
Profiles  == {"simple", "main"}
Callbacks == {"auth", "conn_status", "out_of_band", "stats", "data"}

NoCtx == [st |-> "unused", mode |-> "sender", profile |-> "main", peers |-> 0,
          started |-> FALSE, cb |-> {}, queue |-> <<>>, raw |-> Null]

Init ==
    /\ mem = [b \in Blocks |-> "unused"]
    /\ load = [b \in Blocks |-> Null]
    /\ val = [v \in Values |-> Gone]
    /\ ctx = [c \in Ctxs |-> NoCtx]
    /\ ses = [s \in Sessions |-> Gone]
    /\ ended = {} /\ copied = {} /\ displaced = {} /\ faults = {}

\* calloc returns a new address; its failure changes nothing but in from().
CanAlloc == \E b \in Blocks : mem[b] = "unused"
Fresh    == CHOOSE b \in Blocks : mem[b] = "unused"
Live(b)  == b \in Blocks /\ mem[b] = "live"

BlocksIn(q) == {q[i] : i \in 1..Len(q)}

\* free: the blocks of B are gone, with what was in them.
Release(B) ==
    /\ mem' = [b \in Blocks |-> IF b \in B THEN "released" ELSE mem[b]]
    /\ load' = [b \in Blocks |-> IF b \in B THEN Null ELSE load[b]]

\* w_rist_free_data_block of a pointer: once, here or in the library.
Free(p) ==
    /\ Release({p} \ {Null})
    /\ faults' = {p} \ ({Null} \cup {b \in Blocks : Live(b)})

\* What a use of the block's payload faults on: the block, or the slice it points to.
Dangling(p) == IF Live(p) THEN {load[p]} \cap ended ELSE {p}

\* The block pointers at hand: block is a pub field, and the callback has its own.
Pointers == ({val[v] : v \in Values} \cup {ctx[c].raw : c \in Ctxs}) \ {Gone}

\* The same of the contexts.
CanAllocCtx == \E c \in Ctxs : ctx[c].st = "unused"
FreshCtx    == CHOOSE c \in Ctxs : ctx[c].st = "unused"
LiveCtx(c)  == ctx[c].st = "live"

----------------------------------------------------------------------------
(* rist_data_block                                                         *)

new(v) ==
    /\ val[v] = Gone /\ CanAlloc
    /\ val' = [val EXCEPT ![v] = Fresh]
    /\ mem' = [mem EXCEPT ![Fresh] = "live"]
    /\ UNCHANGED <<load, ctx, ses, ended, past, faults>>

default(v) ==
    /\ val[v] = Gone
    /\ val' = [val EXCEPT ![v] = Null]
    /\ UNCHANGED <<mem, load, ctx, ses, ended, past, faults>>

\* v.block becomes p, which stays where it is as well.
Store(p, v) ==
    /\ val' = [val EXCEPT ![v] = p]
    /\ copied' = copied \cup ({p} \ {Null})
    /\ displaced' = displaced \cup ({val[v]} \ {Null, Gone})
    /\ UNCHANGED <<mem, load, ctx, ses, ended, faults>>

\* The derived Clone copies the pointer.
clone(v, w) ==
    /\ val[v] # Gone /\ val[w] = Gone
    /\ Store(val[v], w)

\* So does a struct literal rist_data_block { block: p }, and an assignment to
\* the field, of any pointer at hand.
SetField(p, v) ==
    /\ p # val[v]
    /\ Store(p, v)

\* Mutant: the block is left to the library, which does not know of it.
dropForgets(v) ==
    /\ val[v] # Gone
    /\ val' = [val EXCEPT ![v] = Gone]
    /\ UNCHANGED <<mem, load, ctx, ses, ended, past, faults>>

drop(v) ==
    /\ val[v] # Gone
    /\ val' = [val EXCEPT ![v] = Gone]
    /\ Free(val[v])
    /\ UNCHANGED <<ctx, ses, ended, past>>

\* The pointer of the slice is stored, whatever the block's is, and nothing ties
\* it to the slice.  An empty slice (here Null) has no bytes to read.
set(v, x) ==
    /\ val[v] # Gone /\ x \notin ended
    /\ \/ /\ Live(val[v])
          /\ load' = [load EXCEPT ![val[v]] = x]
          /\ copied' = copied \cup ({x} \ {Null})
          /\ UNCHANGED faults
       \/ /\ ~Live(val[v])
          /\ faults' = {val[v]}
          /\ UNCHANGED <<load, copied>>
    /\ UNCHANGED <<mem, val, ctx, ses, ended, displaced>>

\* The application's slice goes out of scope, or its buffer is reallocated.
SliceEnds(x) ==
    /\ x \notin ended
    /\ ended' = ended \cup {x}
    /\ UNCHANGED <<heap, ctx, ses, past, faults>>

\* The caller gets the bytes payload points to; a length of 0 is an error.
read(v) ==
    /\ val[v] # Gone
    /\ faults' = Dangling(val[v])
    /\ UNCHANGED <<heap, ctx, ses, ended, past>>

----------------------------------------------------------------------------
(* rist                                                                    *)

\* w_rist_init fails after its calloc: nothing is stored in the caller's
\* pointer and what was allocated stays behind; the Rust value is dropped null.
NewSession(s, m, f) ==
    /\ ses[s] = Gone /\ CanAllocCtx
    /\ \/ /\ ses' = [ses EXCEPT ![s] = FreshCtx]
          /\ ctx' = [ctx EXCEPT ![FreshCtx] = [NoCtx EXCEPT
                        !.st = "live", !.mode = m, !.profile = f]]
       \/ /\ ctx' = [ctx EXCEPT ![FreshCtx].st = "orphan"]
          /\ UNCHANGED ses
    /\ UNCHANGED <<heap, ended, past, faults>>

\* The derived Clone of rist, or a struct literal with another's ctx.
CloneSession(s, t) ==
    /\ ses[s] # Gone /\ ses[t] = Gone
    /\ ses' = [ses EXCEPT ![t] = ses[s]]
    /\ copied' = copied \cup {ses[s]}
    /\ UNCHANGED <<heap, ctx, ended, displaced, faults>>

\* A call into C with a context that was released.
StaleSession(s) ==
    /\ ses[s] # Gone /\ ~LiveCtx(ses[s])
    /\ faults' = {ses[s]}
    /\ UNCHANGED <<heap, ctx, ses, ended, past>>

\* w_rist_fini: rist_destroy joins librist's thread, so it waits for a callback,
\* and frees the queue; then the log and the context itself are freed.
DropSession(s) ==
    /\ ses[s] # Gone /\ LiveCtx(ses[s]) /\ ctx[ses[s]].raw = Null
    /\ Release(BlocksIn(ctx[ses[s]].queue))
    /\ ctx' = [ctx EXCEPT ![ses[s]] = [NoCtx EXCEPT !.st = "released"]]
    /\ ses' = [ses EXCEPT ![s] = Gone]
    /\ UNCHANGED <<val, ended, past, faults>>

\* Once the address is parsed the peer is made, then librist is started, which
\* may fail: a retry makes another peer.  A failure before that only leaks the
\* parsed configuration.
connect(s) ==
    /\ ses[s] # Gone /\ LiveCtx(ses[s])
    /\ ctx[ses[s]].peers < MaxPeers
    /\ \E ok \in BOOLEAN :
          ctx' = [ctx EXCEPT ![ses[s]].peers = @ + 1,
                             ![ses[s]].started = @ \/ ok]
    /\ UNCHANGED <<heap, ses, ended, past, faults>>

Register(s, k) ==
    /\ ses[s] # Gone /\ LiveCtx(ses[s])
    /\ Cardinality(ctx[ses[s]].cb \cup {k}) <= MaxCbs
    /\ ctx' = [ctx EXCEPT ![ses[s]].cb = @ \cup {k}]
    /\ UNCHANGED <<heap, ses, ended, past, faults>>

set_auth_handler(s)         == Register(s, "auth")
set_conn_status_callback(s) == Register(s, "conn_status")
set_stats_callback(s)       == Register(s, "stats")

\* The simple profile has no out of band data.
set_out_of_band_callback(s) ==
    /\ ses[s] # Gone /\ ctx[ses[s]].profile # "simple"
    /\ Register(s, "out_of_band")

\* librist refuses it for a sender.
set_receiver_data_callback(s) ==
    /\ ses[s] # Gone /\ ctx[ses[s]].mode = "receiver"
    /\ Register(s, "data")

\* The payload is copied by librist during the call, once the sender is started.
send(s, v) ==
    /\ ses[s] # Gone /\ LiveCtx(ses[s]) /\ ctx[ses[s]].mode = "sender"
    /\ val[v] # Gone
    /\ faults' = Dangling(val[v]) \ (IF ctx[ses[s]].started THEN {} ELSE Slices)
    /\ UNCHANGED <<heap, ctx, ses, ended, past>>

\* Mutant: the old block is released first, and a timeout leaves its pointer.
ReadIntoFreesFirst(s, v) ==
    /\ ses[s] # Gone /\ LiveCtx(ses[s]) /\ ctx[ses[s]].mode = "receiver"
    /\ Live(val[v]) /\ ctx[ses[s]].queue = <<>>
    /\ mem' = [mem EXCEPT ![val[v]] = "released"]
    /\ UNCHANGED <<load, val, ctx, ses, ended, past, faults>>

\* rist::read: the out pointer is overwritten with the next block of the queue,
\* which is the caller's now, or with null after the timeout.
ReadInto(s, v) ==
    /\ ses[s] # Gone /\ LiveCtx(ses[s]) /\ ctx[ses[s]].mode = "receiver"
    /\ val[v] # Gone
    /\ LET q == ctx[ses[s]].queue IN
          /\ val' = [val EXCEPT ![v] = IF q = <<>> THEN Null ELSE Head(q)]
          /\ ctx' = [ctx EXCEPT ![ses[s]].queue = IF q = <<>> THEN q ELSE Tail(q)]
    /\ displaced' = displaced \cup ({val[v]} \ {Null})
    /\ UNCHANGED <<mem, load, ses, ended, copied, faults>>

----------------------------------------------------------------------------
(* librist's thread, and the data callback it runs.                        *)

\* Something of the remote peer arrives: to the callback if there is one.
Deliver(c) ==
    /\ LiveCtx(c) /\ ctx[c].mode = "receiver" /\ ctx[c].started
    /\ ctx[c].raw = Null /\ CanAlloc
    /\ mem' = [mem EXCEPT ![Fresh] = "live"]
    /\ load' = [load EXCEPT ![Fresh] = Received]
    /\ \/ /\ "data" \in ctx[c].cb
          /\ ctx' = [ctx EXCEPT ![c].raw = Fresh]
       \/ /\ "data" \notin ctx[c].cb
          /\ ctx' = [ctx EXCEPT ![c].queue = Append(@, Fresh)]
    /\ UNCHANGED <<val, ses, ended, past, faults>>

\* from() wraps a pointer, the callback's or any other, and calls the same init
\* as new(): that overwrites the pointer with a new block or, if calloc fails,
\* the early return drops, and so releases, the block that was given.
from(p, v) ==
    /\ val[v] = Gone
    /\ \/ /\ CanAlloc
          /\ val' = [val EXCEPT ![v] = Fresh]
          /\ mem' = [mem EXCEPT ![Fresh] = "live"]
          /\ UNCHANGED <<load, copied, faults>>
       \/ /\ Free(p)
          /\ copied' = copied \cup ({p} \ {Null})
          /\ UNCHANGED val
    /\ UNCHANGED <<ctx, ses, ended, displaced>>

\* The callback returns, and its pointer is forgotten.
CallbackReturns(c) ==
    /\ ctx[c].raw # Null
    /\ displaced' = displaced \cup {ctx[c].raw}
    /\ ctx' = [ctx EXCEPT ![c].raw = Null]
    /\ UNCHANGED <<heap, ses, ended, copied, faults>>

BlockStep(v) ==
    \/ new(v) \/ default(v) \/ drop(v) \/ read(v)
    \/ \E x \in Slices \cup {Null} : set(v, x)
    \/ \E w \in Values : clone(v, w)
    \/ \E p \in Pointers : SetField(p, v) \/ from(p, v)

SessionStep(s) ==
    \/ \E m \in Modes, f \in Profiles : NewSession(s, m, f)
    \/ \E t \in Sessions : CloneSession(s, t)
    \/ StaleSession(s) \/ DropSession(s) \/ connect(s)
    \/ set_auth_handler(s) \/ set_conn_status_callback(s) \/ set_stats_callback(s)
    \/ set_out_of_band_callback(s) \/ set_receiver_data_callback(s)
    \/ \E v \in Values : send(s, v) \/ ReadInto(s, v)

ReceiveStep(c) ==
    \/ Deliver(c)
    \/ CallbackReturns(c)

\* Nothing is said of the program once it has used a dead address.
Next ==
    /\ faults = {}
    /\ \/ \E v \in Values : BlockStep(v)
       \/ \E s \in Sessions : SessionStep(s)
       \/ \E c \in Ctxs : ReceiveStep(c)
       \/ \E x \in Slices : SliceEnds(x)

Spec == Init /\ [][Next]_vars

----------------------------------------------------------------------------
(* Properties.                                                             *)

\* Memory that was released, a block, a context or the application's slice, is
\* used or released again only through a second pointer to it: one that Clone or
\* the pub field made, that from() was given, or that set() left in a block.  With
\* none of these every address is released at most once and used only before
\* that, whatever the order of calls, drops, timeouts and deliveries.
OnlyCopiesFault == faults \subseteq copied \cup {Null}

Held(b) ==
    \/ \E v \in Values : val[v] = b
    \/ \E c \in Ctxs : ctx[c].raw = b \/ b \in BlocksIn(ctx[c].queue)

\* A live block has an owner (a value, a queue or the running callback) unless
\* rist::read or an assignment overwrote the pointer to it or a callback forgot
\* its own, from() or not: every other path, the drop of a context with a full
\* queue included, gives it back.
OnlyDisplacedLeak ==
    /\ \A b \in Blocks : Live(b) => Held(b) \/ b \in displaced
    /\ \A c \in Ctxs : LiveCtx(c) => \E s \in Sessions : ses[s] = c
============================================================================
