--------------------------- MODULE DatagramProofs ---------------------------
(***************************************************************************)
(* Theorems about the two streams over datagrams.  Rist, for any number of *)
(* values, sessions, slices, blocks and contexts: who owns a C address,    *)
(* who may use a dead one, and which blocks are left behind.  Udp, for any *)
(* peers and any network: what an answer starts with, and how far a client *)
(* falls behind.                                                           *)
(***************************************************************************)
EXTENDS Rist, Udp, FiniteSetTheorems, TLAPS

----------------------------------------------------------------------------
(* Queues of blocks.                                                       *)

\* No block is in the queue twice.
Once(q) == \A i, j \in 1..Len(q) : q[i] = q[j] => i = j

\* What librist appends to a queue, and what rist::read takes from its front.
LEMMA AppendOnce ==
  ASSUME NEW q \in Seq(Blocks), NEW b \in Blocks, Once(q), b \notin BlocksIn(q)
  PROVE  /\ Append(q, b) \in Seq(Blocks) /\ Once(Append(q, b))
         /\ BlocksIn(Append(q, b)) = BlocksIn(q) \cup {b}
<1>1. /\ Append(q, b) \in Seq(Blocks) /\ Len(Append(q, b)) = Len(q) + 1
      /\ Append(q, b)[Len(q) + 1] = b
      /\ \A i \in 1..Len(q) : Append(q, b)[i] = q[i]
  OBVIOUS
<1>2. 1..(Len(q) + 1) = (1..Len(q)) \cup {Len(q) + 1}
  OBVIOUS
<1>3. QED
  BY <1>1, <1>2 DEF Once, BlocksIn

LEMMA TailOnce ==
  ASSUME NEW q \in Seq(Blocks), Once(q), q # <<>>
  PROVE  /\ Head(q) \in BlocksIn(q) /\ Tail(q) \in Seq(Blocks) /\ Once(Tail(q))
         /\ BlocksIn(q) = BlocksIn(Tail(q)) \cup {Head(q)} /\ Head(q) \notin BlocksIn(Tail(q))
<1>1. /\ Tail(q) \in Seq(Blocks) /\ Len(Tail(q)) = Len(q) - 1 /\ Len(q) \in Nat \ {0}
      /\ Head(q) = q[1] /\ \A i \in 1..(Len(q) - 1) : Tail(q)[i] = q[i + 1]
  OBVIOUS
<1>2. \A i \in 1..Len(q) : i = 1 \/ i - 1 \in 1..(Len(q) - 1)
  BY <1>1
<1>3. \A i \in 1..(Len(q) - 1) : i + 1 \in 1..Len(q) /\ i + 1 # 1
  BY <1>1
<1>4. Once(Tail(q)) /\ Head(q) \notin BlocksIn(Tail(q))
  BY <1>1, <1>3 DEF Once, BlocksIn
<1>5. BlocksIn(q) = BlocksIn(Tail(q)) \cup {Head(q)}
  <2>1. \A i \in 1..Len(q) : q[i] \in BlocksIn(Tail(q)) \cup {Head(q)}
    BY <1>1, <1>2 DEF BlocksIn
  <2>2. BlocksIn(Tail(q)) \subseteq BlocksIn(q) /\ Head(q) \in BlocksIn(q)
    BY <1>1, <1>3 DEF BlocksIn
  <2>3. QED
    BY <2>1, <2>2 DEF BlocksIn
<1>6. QED
  BY <1>1, <1>4, <1>5

LEMMA EmptyQueue == <<>> \in Seq(Blocks) /\ Once(<<>>) /\ BlocksIn(<<>>) = {}
BY DEF Once, BlocksIn

----------------------------------------------------------------------------
(* Types, and who owns what.                                               *)

Contexts ==
    [st : {"unused", "live", "orphan", "released"}, mode : Modes, profile : Profiles,
     peers : Nat, started : BOOLEAN, cb : SUBSET Callbacks,
     queue : Seq(Blocks), raw : Blocks \cup {Null}]

\* A block's payload is empty, came with the block, or is a slice of the application.
Payloads == Slices \cup {Null, Received}

Types ==
    /\ mem \in [Blocks -> {"unused", "live", "released"}]
    /\ load \in [Blocks -> Payloads]
    /\ val \in [Values -> Blocks \cup {Null, Gone}]
    /\ ses \in [Sessions -> Ctxs \cup {Gone}]
    /\ ctx \in [Ctxs -> Contexts]

Queued(c) == BlocksIn(ctx[c].queue)

\* A block in use has one owner: a value, a queue or the running callback.  Only
\* pointers that were copied are shared.  A context is owned by sessions
\* in the same way.
ValueInv ==
    /\ \A v \in Values : val[v] \in Blocks =>
          /\ mem[val[v]] # "unused"
          /\ Live(val[v]) \/ val[v] \in copied
    /\ \A v, w \in Values :
          v # w /\ val[v] = val[w] /\ val[v] \in Blocks => val[v] \in copied

RawInv ==
    \A c \in Ctxs : ctx[c].raw # Null =>
        /\ mem[ctx[c].raw] # "unused"
        /\ Live(ctx[c].raw) \/ ctx[c].raw \in copied
        /\ \A v \in Values : val[v] = ctx[c].raw => ctx[c].raw \in copied
        /\ \A d \in Ctxs : ctx[c].raw \notin Queued(d)

QueueInv ==
    /\ \A c \in Ctxs : Once(ctx[c].queue)
    /\ \A c \in Ctxs : \A b \in Queued(c) :
          /\ Live(b)
          /\ \A v \in Values : val[v] # b
          /\ \A d \in Ctxs : d # c => b \notin Queued(d)

BlockInv == ValueInv /\ RawInv /\ QueueInv

CtxInv ==
    /\ \A c \in Ctxs : ~LiveCtx(c) => ctx[c].queue = <<>> /\ ctx[c].raw = Null
    /\ \A s \in Sessions : ses[s] # Gone =>
          /\ ctx[ses[s]].st # "unused"
          /\ LiveCtx(ses[s]) \/ ses[s] \in copied
    /\ \A s, t \in Sessions : s # t /\ ses[s] = ses[t] /\ ses[s] # Gone => ses[s] \in copied

\* A slice that a block points to was copied there.
SliceInv ==
    /\ ended \subseteq Slices
    /\ \A b \in Blocks : load[b] \in Slices => load[b] \in copied

Own == Types /\ BlockInv /\ CtxInv

LEMMA FreshBlock == CanAlloc => Fresh \in Blocks /\ mem[Fresh] = "unused"
BY DEF CanAlloc, Fresh

LEMMA FreshContext == CanAllocCtx => FreshCtx \in Ctxs /\ ctx[FreshCtx].st = "unused"
BY DEF CanAllocCtx, FreshCtx

LEMMA StoredBlocks ==
  ASSUME Types
  PROVE  \A c \in Ctxs : Queued(c) \subseteq Blocks /\ ctx[c].raw \in Blocks \cup {Null}
<1> SUFFICES ASSUME NEW c \in Ctxs
             PROVE  Queued(c) \subseteq Blocks /\ ctx[c].raw \in Blocks \cup {Null}
  OBVIOUS
<1>1. ctx[c].queue \in Seq(Blocks) /\ ctx[c].raw \in Blocks \cup {Null}
  BY DEF Types, Contexts
<1>2. QED
  BY <1>1 DEF Queued, BlocksIn

LEMMA NoCtxType == NoCtx \in Contexts
<1>1. FALSE \in BOOLEAN
  OBVIOUS
<1>2. QED
  BY <1>1, EmptyQueue DEF NoCtx, Contexts, Modes, Profiles, Callbacks

\* What a step does to the store of a context: its state, its queue and the block
\* its callback was given.
SameStore(c) == /\ ctx'[c].st = ctx[c].st /\ ctx'[c].queue = ctx[c].queue
                /\ ctx'[c].raw = ctx[c].raw

\* A step that moves no block and no context leaves the ownership as it is.
LEMMA OwnFrame ==
  ASSUME Own, UNCHANGED <<mem, val, ses>>, copied \subseteq copied',
         ctx' \in [Ctxs -> Contexts],
         \A c \in Ctxs : SameStore(c),
         load' \in [Blocks -> Payloads]
  PROVE  Own'
<1>1. Types'
  BY DEF Own, Types
<1>2. \A c \in Ctxs : Queued(c)' = Queued(c) /\ LiveCtx(c)' = LiveCtx(c)
  BY DEF SameStore, Queued, LiveCtx, BlocksIn
<1>3. \A b : Live(b)' <=> Live(b)
  BY DEF Live
<1>4. BlockInv'
  BY <1>2, <1>3 DEF Own, BlockInv, ValueInv, RawInv, QueueInv, SameStore
<1>5. CtxInv'
  BY <1>2 DEF Own, Types, CtxInv, SameStore
<1>6. QED
  BY <1>1, <1>4, <1>5 DEF Own

\* connect() and the setters of callbacks leave the store alone.
LEMMA RegisterFrame ==
  ASSUME Types, NEW s \in Sessions, connect(s) \/ \E k \in Callbacks : Register(s, k)
  PROVE  ctx' \in [Ctxs -> Contexts] /\ \A c \in Ctxs : SameStore(c)
<1>1. ses[s] \in Ctxs /\ ctx[ses[s]] \in Contexts
  BY DEF Types, connect, Register
<1>2. ASSUME NEW x \in Contexts, ctx' = [ctx EXCEPT ![ses[s]] = x],
             x.st = ctx[ses[s]].st, x.queue = ctx[ses[s]].queue, x.raw = ctx[ses[s]].raw
      PROVE  ctx' \in [Ctxs -> Contexts] /\ \A c \in Ctxs : SameStore(c)
  BY <1>1, <1>2 DEF Types, SameStore
<1>3. CASE connect(s)
  <2>1. PICK ok \in BOOLEAN :
           ctx' = [ctx EXCEPT ![ses[s]].peers = @ + 1, ![ses[s]].started = @ \/ ok]
    BY <1>3 DEF connect
  <2>2. PICK b \in BOOLEAN : b = (ctx[ses[s]].started \/ ok)
    OBVIOUS
  <2>3. PICK n \in Nat : n = ctx[ses[s]].peers + 1
    BY <1>1 DEF Contexts
  <2> DEFINE x == [ctx[ses[s]] EXCEPT !.peers = n, !.started = b]
  <2>4. x \in Contexts
    BY <1>1 DEF Contexts
  <2>5. x.st = ctx[ses[s]].st /\ x.queue = ctx[ses[s]].queue /\ x.raw = ctx[ses[s]].raw
    BY <1>1 DEF Contexts
  <2>6. ctx' = [ctx EXCEPT ![ses[s]] = x]
    BY <1>1, <2>1, <2>2, <2>3 DEF Types, Contexts
  <2>7. QED
    BY <1>2, <2>4, <2>5, <2>6
<1>4. CASE \E k \in Callbacks : Register(s, k)
  <2>1. PICK k \in Callbacks : ctx' = [ctx EXCEPT ![ses[s]].cb = @ \cup {k}]
    BY <1>4 DEF Register
  <2> DEFINE x == [ctx[ses[s]] EXCEPT !.cb = @ \cup {k}]
  <2>2. /\ x \in Contexts /\ x.st = ctx[ses[s]].st /\ x.queue = ctx[ses[s]].queue
        /\ x.raw = ctx[ses[s]].raw
    BY <1>1 DEF Contexts
  <2>3. ctx' = [ctx EXCEPT ![ses[s]] = x]
    BY <1>1, <2>1 DEF Types, Contexts
  <2>4. QED
    BY <1>2, <2>2, <2>3
<1>5. QED
  BY <1>3, <1>4

LEMMA SetFrame ==
  ASSUME Types, NEW v \in Values, NEW x \in Slices \cup {Null}, set(v, x)
  PROVE  load' \in [Blocks -> Payloads]
<1>1. CASE UNCHANGED load
  BY <1>1 DEF Types
<1>2. CASE Live(val[v]) /\ load' = [load EXCEPT ![val[v]] = x]
  BY <1>2 DEF Types, Live, Payloads
<1>3. QED
  BY <1>1, <1>2 DEF set

\* A pointer at hand is null or a block that is live or shared, and in no queue.
LEMMA PointerFacts ==
  ASSUME Own, NEW p \in Pointers
  PROVE  /\ p \in Blocks \cup {Null}
         /\ p # Null => mem[p] # "unused" /\ (Live(p) \/ p \in copied)
         /\ \A c \in Ctxs : p \notin Queued(c)
<1> USE RistAssumption
<1>1. \A c \in Ctxs : Queued(c) \subseteq Blocks /\ ctx[c].raw \in Blocks \cup {Null}
  BY StoredBlocks DEF Own
<1>2. CASE \E v \in Values : p = val[v] /\ p # Gone
  BY <1>1, <1>2 DEF Own, Types, BlockInv, ValueInv, QueueInv
<1>3. CASE \E c \in Ctxs : p = ctx[c].raw
  BY <1>1, <1>3 DEF Own, BlockInv, RawInv
<1>4. QED
  BY <1>2, <1>3 DEF Pointers

\* new() and default(): the value was out of scope, and its block is a new one.
LEMMA NewOwn == ASSUME Own, NEW v \in Values, new(v) \/ default(v) PROVE Own'
<1> USE RistAssumption
<1>1. CASE default(v)
  <2>1. Types'
    BY <1>1 DEF Own, Types, default
  <2>2. /\ UNCHANGED <<mem, ctx, ses, copied>>
        /\ \A w \in Values : val'[w] \in Blocks => w # v /\ val'[w] = val[w]
        /\ \A w \in Values : val'[w] = val[w] \/ val'[w] = Null
    BY <1>1 DEF Own, Types, default, past
  <2>3. BlockInv'
    BY <2>2 DEF Own, Types, BlockInv, ValueInv, RawInv, QueueInv, Queued, BlocksIn, Live, Contexts
  <2>4. CtxInv'
    BY <2>2 DEF Own, CtxInv, LiveCtx
  <2>5. QED
    BY <2>1, <2>3, <2>4 DEF Own
<1>2. CASE new(v)
  <2>1. Fresh \in Blocks /\ mem[Fresh] = "unused"
    BY <1>2, FreshBlock DEF new
  <2>2. /\ UNCHANGED <<load, ctx, ses, copied>>
        /\ val' = [val EXCEPT ![v] = Fresh] /\ mem' = [mem EXCEPT ![Fresh] = "live"]
    BY <1>2 DEF new, past
  <2>3. Types'
    BY <2>1, <2>2 DEF Own, Types
  <2>4. BlockInv'
    BY <2>1, <2>2 DEF Own, Types, BlockInv, ValueInv, RawInv, QueueInv, Queued, BlocksIn, Live, Contexts
  <2>5. CtxInv'
    BY <2>2 DEF Own, CtxInv, LiveCtx
  <2>6. QED
    BY <2>3, <2>4, <2>5 DEF Own
<1>3. QED
  BY <1>1, <1>2

\* clone(), a literal and CloneSession share what they say they share.
LEMMA StoreOwn ==
  ASSUME Own, NEW p \in Pointers, NEW v \in Values, Store(p, v) PROVE Own'
<1> USE RistAssumption
<1>1. /\ UNCHANGED <<mem, load, ctx, ses>>
      /\ val' = [val EXCEPT ![v] = p] /\ copied' = copied \cup ({p} \ {Null})
  BY DEF Store
<1>2. /\ p \in Blocks \cup {Null}
      /\ p # Null => mem[p] # "unused" /\ (Live(p) \/ p \in copied)
      /\ \A c \in Ctxs : p \notin Queued(c)
  BY PointerFacts
<1>3. Types'
  BY <1>1, <1>2 DEF Own, Types
<1>4. \A x \in Values : val'[x] = IF x = v THEN p ELSE val[x]
  BY <1>1 DEF Own, Types
<1>5. \A c \in Ctxs : Queued(c)' = Queued(c)
  BY <1>1 DEF Queued
<1>6. \A b : Live(b)' <=> Live(b)
  BY <1>1 DEF Live
<1>7. ValueInv'
  BY <1>1, <1>2, <1>4, <1>6 DEF Own, BlockInv, ValueInv
<1>8. RawInv'
  BY <1>1, <1>2, <1>4, <1>5, <1>6 DEF Own, BlockInv, RawInv
<1>9. QueueInv'
  BY <1>1, <1>2, <1>4, <1>5, <1>6 DEF Own, BlockInv, QueueInv
<1>10. CtxInv'
  BY <1>1 DEF Own, CtxInv, LiveCtx
<1>11. QED
  BY <1>3, <1>7, <1>8, <1>9, <1>10 DEF Own, BlockInv

LEMMA CloneStores ==
  ASSUME NEW v \in Values, NEW w \in Values, clone(v, w)
  PROVE  val[v] \in Pointers /\ Store(val[v], w)
BY DEF clone, Pointers

LEMMA CloneSessionOwn ==
  ASSUME Own, NEW s \in Sessions, NEW t \in Sessions, CloneSession(s, t) PROVE Own'
<1>1. /\ UNCHANGED <<mem, load, val, ctx>> /\ ses[s] # Gone /\ ses[t] = Gone
      /\ ses' = [ses EXCEPT ![t] = ses[s]] /\ copied' = copied \cup {ses[s]}
  BY DEF CloneSession, heap
<1>2. Types'
  BY <1>1 DEF Own, Types
<1>3. \A x \in Sessions : ses'[x] = IF x = t THEN ses[s] ELSE ses[x]
  BY <1>1 DEF Own, Types
<1>4. BlockInv'
  BY <1>1 DEF Own, BlockInv, ValueInv, RawInv, QueueInv, Queued, BlocksIn, Live
<1>5. CtxInv'
  BY <1>1, <1>3 DEF Own, CtxInv, LiveCtx
<1>6. QED
  BY <1>2, <1>4, <1>5 DEF Own

\* Releasing blocks that no queue holds, and no value except those that
\* share one, leaves the others their blocks.
LEMMA ReleaseTypes ==
  ASSUME Types, NEW B, Release(B)
  PROVE  /\ mem' \in [Blocks -> {"unused", "live", "released"}]
         /\ load' \in [Blocks -> Payloads]
         /\ \A b \in Blocks : mem'[b] = IF b \in B THEN "released" ELSE mem[b]
BY DEF Types, Release, Payloads

\* drop() of a value: whoever else has its block has it from a copy.
LEMMA DropOwn == ASSUME Own, NEW v \in Values, drop(v) PROVE Own'
<1> USE RistAssumption
<1>1. /\ UNCHANGED <<ctx, ses, copied>> /\ val[v] # Gone
      /\ val' = [val EXCEPT ![v] = Gone] /\ Release({val[v]} \ {Null})
  BY DEF drop, Free, past
<1>2. /\ mem' \in [Blocks -> {"unused", "live", "released"}]
      /\ \A b \in Blocks : mem'[b] = IF b = val[v] THEN "released" ELSE mem[b]
  BY <1>1, ReleaseTypes DEF Own
<1>3. \A x \in Values : val'[x] = IF x = v THEN Gone ELSE val[x]
  BY <1>1 DEF Own, Types
<1>4. Types'
  BY <1>1, ReleaseTypes DEF Own, Types
<1>5. \A c \in Ctxs : /\ Queued(c)' = Queued(c) /\ Queued(c) \subseteq Blocks
                      /\ ctx[c].raw \in Blocks \cup {Null}
  BY <1>1, StoredBlocks DEF Own, Queued
<1>6. ValueInv'
  BY <1>1, <1>2, <1>3 DEF Own, BlockInv, ValueInv, Live
<1>7. RawInv'
  BY <1>1, <1>2, <1>3, <1>5 DEF Own, BlockInv, RawInv, Live
<1>8. QueueInv'
  BY <1>1, <1>2, <1>3, <1>5 DEF Own, BlockInv, QueueInv, Live
<1>9. CtxInv'
  BY <1>1 DEF Own, CtxInv, LiveCtx
<1>10. QED
  BY <1>4, <1>6, <1>7, <1>8, <1>9 DEF Own, BlockInv

----------------------------------------------------------------------------
(* Ownership: the steps that change the store of one context.              *)

LEMMA StoreChange ==
  ASSUME Types, NEW c \in Ctxs, NEW x \in Contexts, ctx' = [ctx EXCEPT ![c] = x]
  PROVE  /\ ctx' \in [Ctxs -> Contexts] /\ ctx'[c] = x
         /\ \A d \in Ctxs : d # c => ctx'[d] = ctx[d] /\ Queued(d)' = Queued(d)
BY DEF Types, Queued

LEMMA QueueChange ==
  ASSUME NEW x \in Contexts, NEW q \in Seq(Blocks)
  PROVE  /\ [x EXCEPT !.queue = q] \in Contexts /\ [x EXCEPT !.queue = q].queue = q
         /\ [x EXCEPT !.queue = q].st = x.st /\ [x EXCEPT !.queue = q].raw = x.raw
BY DEF Contexts

LEMMA RawChange ==
  ASSUME NEW x \in Contexts, NEW b \in Blocks \cup {Null}
  PROVE  /\ [x EXCEPT !.raw = b] \in Contexts /\ [x EXCEPT !.raw = b].raw = b
         /\ [x EXCEPT !.raw = b].st = x.st /\ [x EXCEPT !.raw = b].queue = x.queue
BY DEF Contexts

LEMMA FreshCtxRecord ==
  ASSUME NEW m \in Modes, NEW f \in Profiles
  PROVE  LET x == [NoCtx EXCEPT !.st = "live", !.mode = m, !.profile = f]
         IN  x \in Contexts /\ x.st = "live" /\ x.queue = <<>> /\ x.raw = Null
<1>1. ASSUME NEW y \in Contexts
      PROVE  LET x == [y EXCEPT !.st = "live", !.mode = m, !.profile = f]
             IN  x \in Contexts /\ x.st = "live" /\ x.queue = y.queue /\ x.raw = y.raw
  BY DEF Contexts
<1>2. NoCtx \in Contexts /\ NoCtx.queue = <<>> /\ NoCtx.raw = Null
  BY NoCtxType DEF NoCtx
<1>3. QED
  BY <1>1, <1>2

\* w_rist_init: the context is a new one, or it is left behind unowned.
LEMMA NewSessionOwn ==
  ASSUME Own, NEW s \in Sessions, NEW m \in Modes, NEW f \in Profiles, NewSession(s, m, f)
  PROVE  Own'
<1>1. FreshCtx \in Ctxs /\ ctx[FreshCtx].st = "unused"
  BY FreshContext DEF NewSession
<1>2. /\ UNCHANGED <<mem, load, val, copied>>
      /\ ctx[FreshCtx] \in Contexts /\ ctx[FreshCtx].queue = <<>>
      /\ ctx[FreshCtx].raw = Null
  BY <1>1 DEF Own, Types, CtxInv, LiveCtx, NewSession, heap, past
<1>3. PICK x \in Contexts :
         /\ x.st \in {"live", "orphan"} /\ x.queue = <<>> /\ x.raw = Null
         /\ ctx' = [ctx EXCEPT ![FreshCtx] = x]
         /\ \/ UNCHANGED ses
            \/ ses' = [ses EXCEPT ![s] = FreshCtx] /\ ses[s] = Gone /\ x.st = "live"
  <2>1. CASE /\ ses' = [ses EXCEPT ![s] = FreshCtx]
             /\ ctx' = [ctx EXCEPT ![FreshCtx] = [NoCtx EXCEPT
                           !.st = "live", !.mode = m, !.profile = f]]
    BY <2>1, FreshCtxRecord DEF NewSession
  <2>2. CASE UNCHANGED ses /\ ctx' = [ctx EXCEPT ![FreshCtx].st = "orphan"]
    <3> DEFINE x == [ctx[FreshCtx] EXCEPT !.st = "orphan"]
    <3>1. x \in Contexts /\ x.st = "orphan" /\ x.queue = <<>> /\ x.raw = Null
      BY <1>2 DEF Contexts
    <3>2. ctx' = [ctx EXCEPT ![FreshCtx] = x]
      BY <1>1, <2>2 DEF Own, Types
    <3>3. QED
      BY <2>2, <3>1, <3>2
  <2>3. QED
    BY <2>1, <2>2 DEF NewSession
<1>4. /\ ctx' \in [Ctxs -> Contexts] /\ ctx'[FreshCtx] = x
      /\ \A d \in Ctxs : d # FreshCtx => ctx'[d] = ctx[d]
  BY <1>1, <1>3, StoreChange DEF Own
<1>5. Types'
  BY <1>1, <1>2, <1>3, <1>4 DEF Own, Types
<1>6. \A c \in Ctxs : /\ ctx'[c].queue = ctx[c].queue /\ ctx'[c].raw = ctx[c].raw
                      /\ Queued(c)' = Queued(c)
  BY <1>2, <1>3, <1>4 DEF Queued
<1>7. BlockInv'
  BY <1>2, <1>6 DEF Own, BlockInv, ValueInv, RawInv, QueueInv, Live
<1>8. CtxInv'
  BY <1>1, <1>2, <1>3, <1>4 DEF Own, Types, CtxInv, LiveCtx
<1>9. QED
  BY <1>5, <1>7, <1>8 DEF Own

\* w_rist_fini releases the queue, which no value and no other queue shares.
LEMMA DropSessionOwn == ASSUME Own, NEW s \in Sessions, DropSession(s) PROVE Own'
<1> USE RistAssumption
<1>0. PICK c \in Ctxs : c = ses[s]
  BY DEF Own, Types, DropSession
<1> DEFINE x == [NoCtx EXCEPT !.st = "released"]
<1>1. /\ LiveCtx(c) /\ ctx[c].raw = Null /\ Release(Queued(c))
      /\ UNCHANGED <<val, copied>> /\ ses' = [ses EXCEPT ![s] = Gone]
      /\ ctx' = [ctx EXCEPT ![c] = x]
  BY <1>0 DEF DropSession, Queued, past
<1>2. x \in Contexts /\ x.st = "released" /\ x.queue = <<>> /\ x.raw = Null
  BY NoCtxType DEF NoCtx, Contexts
<1>3. /\ ctx' \in [Ctxs -> Contexts] /\ ctx'[c] = x
      /\ \A d \in Ctxs : d # c => ctx'[d] = ctx[d] /\ Queued(d)' = Queued(d)
  BY <1>1, <1>2, StoreChange DEF Own
<1>4. \A b \in Blocks : mem'[b] = IF b \in Queued(c) THEN "released" ELSE mem[b]
  BY <1>1, ReleaseTypes DEF Own
<1>5. Types'
  BY <1>1, <1>3, ReleaseTypes DEF Own, Types
<1>6. /\ Queued(c)' = {} /\ ctx'[c].queue = <<>> /\ ctx'[c].raw = Null
      /\ \A d \in Ctxs : /\ Queued(d) \subseteq Blocks
                         /\ ctx[d].raw \in Blocks \cup {Null}
  <2>1. ctx'[c].queue = <<>> /\ ctx'[c].raw = Null
    BY <1>2, <1>3
  <2>2. Queued(c)' = {}
    BY <2>1, EmptyQueue DEF Queued
  <2>3. QED
    BY <2>1, <2>2, StoredBlocks DEF Own
<1>7. ValueInv'
  BY <1>1, <1>4 DEF Own, BlockInv, ValueInv, QueueInv, Live
<1>8. RawInv'
  BY <1>1, <1>3, <1>4, <1>6 DEF Own, BlockInv, RawInv, Live
<1>9. QueueInv'
  BY <1>1, <1>3, <1>4, <1>6, EmptyQueue DEF Own, BlockInv, QueueInv, Live
<1>10. CtxInv'
  BY <1>0, <1>1, <1>2, <1>3 DEF Own, Types, CtxInv, LiveCtx
<1>11. QED
  BY <1>5, <1>7, <1>8, <1>9, <1>10 DEF Own, BlockInv

\* rist::read: the front of the queue goes to the value, and to it alone.
LEMMA ReadIntoStore ==
  ASSUME Own, NEW s \in Sessions, NEW v \in Values, ReadInto(s, v)
  PROVE  /\ UNCHANGED <<mem, load, ses, copied>> /\ ctx' \in [Ctxs -> Contexts]
         /\ \E c \in Ctxs, b \in Blocks \cup {Null} :
               /\ val' = [val EXCEPT ![v] = b]
               /\ LiveCtx(c) /\ ctx'[c].st = "live" /\ ctx'[c].raw = ctx[c].raw
               /\ Once(ctx'[c].queue)
               /\ Queued(c) = Queued(c)' \cup ({b} \ {Null}) /\ b \notin Queued(c)'
               /\ \A d \in Ctxs : d # c => ctx'[d] = ctx[d] /\ Queued(d)' = Queued(d)
<1> USE RistAssumption
<1>1. PICK c \in Ctxs : c = ses[s]
  BY DEF Own, Types, ReadInto
<1>2. ctx[c] \in Contexts /\ ctx[c].queue \in Seq(Blocks) /\ Once(ctx[c].queue)
  BY DEF Own, Types, Contexts, BlockInv, QueueInv
<1>3. PICK q \in Seq(Blocks), b \in Blocks \cup {Null} :
         /\ val' = [val EXCEPT ![v] = b]
         /\ ctx' = [ctx EXCEPT ![c].queue = q]
         /\ Once(q) /\ BlocksIn(ctx[c].queue) = BlocksIn(q) \cup ({b} \ {Null})
         /\ b \notin BlocksIn(q)
  <2>1. CASE ctx[c].queue = <<>>
    <3>1. val' = [val EXCEPT ![v] = Null] /\ ctx' = [ctx EXCEPT ![c].queue = <<>>]
      BY <1>1, <2>1 DEF ReadInto
    <3>2. QED
      BY <2>1, <3>1, EmptyQueue
  <2>2. CASE ctx[c].queue # <<>>
    <3>1. /\ val' = [val EXCEPT ![v] = Head(ctx[c].queue)]
          /\ ctx' = [ctx EXCEPT ![c].queue = Tail(ctx[c].queue)]
      BY <1>1, <2>2 DEF ReadInto
    <3>2. Head(ctx[c].queue) \in Blocks /\ Head(ctx[c].queue) # Null
      BY <1>2, <2>2
    <3>3. /\ Tail(ctx[c].queue) \in Seq(Blocks) /\ Once(Tail(ctx[c].queue))
          /\ BlocksIn(ctx[c].queue) = BlocksIn(Tail(ctx[c].queue)) \cup {Head(ctx[c].queue)}
          /\ Head(ctx[c].queue) \notin BlocksIn(Tail(ctx[c].queue))
      BY <1>2, <2>2, TailOnce
    <3>4. QED
      BY <3>1, <3>2, <3>3
  <2>3. QED
    BY <2>1, <2>2
<1> DEFINE x == [ctx[c] EXCEPT !.queue = q]
<1>4. x \in Contexts /\ x.queue = q /\ x.st = ctx[c].st /\ x.raw = ctx[c].raw
  BY <1>2, QueueChange
<1>5. ctx' = [ctx EXCEPT ![c] = x]
  BY <1>3 DEF Own, Types
<1>6. /\ ctx' \in [Ctxs -> Contexts] /\ ctx'[c] = x
      /\ \A d \in Ctxs : d # c => ctx'[d] = ctx[d] /\ Queued(d)' = Queued(d)
  BY <1>4, <1>5, StoreChange DEF Own
<1>7. Queued(c) = BlocksIn(ctx[c].queue) /\ Queued(c)' = BlocksIn(q)
  BY <1>4, <1>6 DEF Queued
<1>8. LiveCtx(c) /\ ctx[c].st = "live"
  BY <1>1 DEF ReadInto, LiveCtx
<1>9. /\ ctx'[c].st = "live" /\ ctx'[c].raw = ctx[c].raw /\ Once(ctx'[c].queue)
      /\ Queued(c) = Queued(c)' \cup ({b} \ {Null}) /\ b \notin Queued(c)'
  BY <1>3, <1>4, <1>6, <1>7, <1>8
<1>10. UNCHANGED <<mem, load, ses, copied>>
  BY DEF ReadInto
<1>11. QED
  BY <1>3, <1>6, <1>8, <1>9, <1>10, Zenon

LEMMA ReadIntoOwn ==
  ASSUME Own, NEW s \in Sessions, NEW v \in Values, ReadInto(s, v) PROVE Own'
<1> USE RistAssumption
<1>1. UNCHANGED <<mem, load, ses, copied>> /\ ctx' \in [Ctxs -> Contexts]
  BY ReadIntoStore
<1>2. PICK c \in Ctxs, b \in Blocks \cup {Null} :
         /\ val' = [val EXCEPT ![v] = b]
         /\ LiveCtx(c) /\ ctx'[c].st = "live" /\ ctx'[c].raw = ctx[c].raw
         /\ Once(ctx'[c].queue)
         /\ Queued(c) = Queued(c)' \cup ({b} \ {Null}) /\ b \notin Queued(c)'
         /\ \A d \in Ctxs : d # c => ctx'[d] = ctx[d] /\ Queued(d)' = Queued(d)
  BY ReadIntoStore
<1>3. Types'
  BY <1>1, <1>2 DEF Own, Types
<1>4. \A w \in Values : val'[w] = IF w = v THEN b ELSE val[w]
  BY <1>2 DEF Own, Types
<1>5. ValueInv'
  BY <1>1, <1>2, <1>4 DEF Own, BlockInv, ValueInv, QueueInv, Live
<1>6. RawInv'
  BY <1>1, <1>2, <1>4 DEF Own, BlockInv, RawInv, Live
<1>7. QueueInv'
  <2>1. \A d \in Ctxs : Once(ctx'[d].queue)
    BY <1>2 DEF Own, BlockInv, QueueInv
  <2>2. ASSUME NEW d \in Ctxs, NEW a \in Queued(d)'
        PROVE  /\ Live(a)' /\ \A w \in Values : val'[w] # a
               /\ \A e \in Ctxs : e # d => a \notin Queued(e)'
    <3>1. a \in Queued(d) /\ a # b
      <4>1. CASE d = c
        BY <1>2, <2>2, <4>1
      <4>2. CASE d # c
        BY <1>2, <2>2, <4>2 DEF Own, BlockInv, QueueInv, Live
      <4>3. QED
        BY <4>1, <4>2
    <3>2. QED
      BY <1>1, <1>2, <1>4, <3>1 DEF Own, BlockInv, QueueInv, Live
  <2>3. QED
    BY <2>1, <2>2 DEF QueueInv
<1>8. CtxInv'
  BY <1>1, <1>2 DEF Own, Types, CtxInv, LiveCtx
<1>9. QED
  BY <1>3, <1>5, <1>6, <1>7, <1>8 DEF Own, BlockInv

\* The callback returns and its pointer is forgotten: what is left is
\* the store without it.
LEMMA RawGone ==
  ASSUME Own, NEW c \in Ctxs, ctx' = [ctx EXCEPT ![c].raw = Null]
  PROVE  /\ ctx' \in [Ctxs -> Contexts] /\ ctx'[c].raw = Null
         /\ \A d \in Ctxs : /\ ctx'[d].st = ctx[d].st /\ ctx'[d].queue = ctx[d].queue
                            /\ Queued(d)' = Queued(d)
                            /\ d # c => ctx'[d].raw = ctx[d].raw
<1> DEFINE x == [ctx[c] EXCEPT !.raw = Null]
<1>1. ctx[c] \in Contexts
  BY DEF Own, Types
<1>2. x \in Contexts /\ x.raw = Null /\ x.st = ctx[c].st /\ x.queue = ctx[c].queue
  BY <1>1, RawChange
<1>3. ctx' = [ctx EXCEPT ![c] = x]
  BY DEF Own, Types
<1>4. /\ ctx' \in [Ctxs -> Contexts] /\ ctx'[c] = x
      /\ \A d \in Ctxs : d # c => ctx'[d] = ctx[d] /\ Queued(d)' = Queued(d)
  BY <1>2, <1>3, StoreChange DEF Own
<1>5. Queued(c)' = Queued(c)
  BY <1>2, <1>4 DEF Queued
<1>6. QED
  BY <1>2, <1>4, <1>5

LEMMA CallbackReturnsOwn == ASSUME Own, NEW c \in Ctxs, CallbackReturns(c) PROVE Own'
<1>1. /\ UNCHANGED <<mem, load, val, ses, copied>>
      /\ ctx' = [ctx EXCEPT ![c].raw = Null]
  BY DEF CallbackReturns, heap
<1>2. /\ ctx' \in [Ctxs -> Contexts] /\ ctx'[c].raw = Null
      /\ \A d \in Ctxs : /\ ctx'[d].st = ctx[d].st /\ ctx'[d].queue = ctx[d].queue
                         /\ Queued(d)' = Queued(d)
                         /\ d # c => ctx'[d].raw = ctx[d].raw
  BY <1>1, RawGone
<1>3. Types'
  BY <1>1, <1>2 DEF Own, Types
<1>4. BlockInv'
  BY <1>1, <1>2 DEF Own, BlockInv, ValueInv, RawInv, QueueInv, Live
<1>5. CtxInv'
  BY <1>1, <1>2 DEF Own, Types, CtxInv, LiveCtx
<1>6. QED
  BY <1>3, <1>4, <1>5 DEF Own

LEMMA FromOwn ==
  ASSUME Own, NEW p \in Pointers, NEW v \in Values, from(p, v) PROVE Own'
<1> USE RistAssumption
<1>1. UNCHANGED <<ses, ctx>> /\ val[v] = Gone
  BY DEF from
<1>2. /\ p \in Blocks \cup {Null} /\ p # Null => mem[p] # "unused"
      /\ \A c \in Ctxs : p \notin Queued(c)
  BY PointerFacts
<1>3. \A d \in Ctxs : /\ Queued(d) \subseteq Blocks /\ Queued(d)' = Queued(d)
                      /\ ctx[d].raw \in Blocks \cup {Null}
  BY <1>1, StoredBlocks DEF Own, Queued
<1>4. copied \subseteq copied'
  BY DEF from
<1>5. CtxInv'
  BY <1>1, <1>4 DEF Own, CtxInv, LiveCtx
<1>6. CASE /\ CanAlloc /\ val' = [val EXCEPT ![v] = Fresh]
           /\ mem' = [mem EXCEPT ![Fresh] = "live"] /\ UNCHANGED <<load, copied>>
  <2>1. Fresh \in Blocks /\ mem[Fresh] = "unused"
    BY <1>6, FreshBlock
  <2>2. /\ \A w \in Values : val'[w] = IF w = v THEN Fresh ELSE val[w]
        /\ \A b \in Blocks : mem'[b] = IF b = Fresh THEN "live" ELSE mem[b]
    BY <1>6, <2>1 DEF Own, Types
  <2>3. Types'
    BY <1>1, <1>6, <2>1 DEF Own, Types
  <2>4. ValueInv'
    BY <1>1, <1>6, <2>1, <2>2 DEF Own, BlockInv, ValueInv, Live
  <2>5. RawInv'
    BY <1>1, <1>3, <1>6, <2>1, <2>2 DEF Own, BlockInv, RawInv, QueueInv, Live
  <2>6. QueueInv'
    BY <1>1, <1>3, <2>1, <2>2 DEF Own, BlockInv, QueueInv, Live
  <2>7. QED
    BY <1>5, <2>3, <2>4, <2>5, <2>6 DEF Own, BlockInv
<1>7. CASE /\ Free(p) /\ copied' = copied \cup ({p} \ {Null}) /\ UNCHANGED val
  <2>1. Release({p} \ {Null})
    BY <1>7 DEF Free
  <2>2. \A b \in Blocks : mem'[b] = IF b = p THEN "released" ELSE mem[b]
    BY <1>2, <2>1, ReleaseTypes DEF Own
  <2>3. Types'
    BY <1>1, <1>7, <2>1, ReleaseTypes DEF Own, Types
  <2>4. ValueInv'
    BY <1>7, <2>2 DEF Own, BlockInv, ValueInv, Live
  <2>5. RawInv'
    BY <1>1, <1>3, <1>7, <2>2 DEF Own, BlockInv, RawInv, Live
  <2>6. QueueInv'
    BY <1>1, <1>2, <1>3, <1>7, <2>2 DEF Own, BlockInv, QueueInv, Live
  <2>7. QED
    BY <1>5, <2>3, <2>4, <2>5, <2>6 DEF Own, BlockInv
<1>8. QED
  BY <1>6, <1>7 DEF from

\* librist puts a new block in the queue or in the hands of the callback.
LEMMA DeliverOwn == ASSUME Own, NEW c \in Ctxs, Deliver(c) PROVE Own'
<1> USE RistAssumption
<1>1. Fresh \in Blocks /\ mem[Fresh] = "unused"
  BY FreshBlock DEF Deliver
<1>2. PICK b \in Blocks : b = Fresh
  BY <1>1
<1>3. /\ UNCHANGED <<val, ses, copied>> /\ mem' = [mem EXCEPT ![b] = "live"]
      /\ LiveCtx(c) /\ ctx[c].raw = Null /\ mem[b] = "unused"
      /\ load' = [load EXCEPT ![b] = Received]
  BY <1>1, <1>2 DEF Deliver, past
<1>4. ctx[c] \in Contexts /\ ctx[c].queue \in Seq(Blocks) /\ Once(ctx[c].queue)
  BY DEF Own, Types, Contexts, BlockInv, QueueInv
<1>5. \A e \in Ctxs : /\ Queued(e) \subseteq Blocks /\ b \notin Queued(e)
                      /\ ctx[e].raw \in Blocks \cup {Null} /\ ctx[e].raw # b
  BY <1>3, StoredBlocks DEF Own, BlockInv, RawInv, QueueInv, Live
<1>6. PICK x \in Contexts :
         /\ ctx' = [ctx EXCEPT ![c] = x] /\ x.st = ctx[c].st /\ Once(x.queue)
         /\ \/ x.raw = b /\ x.queue = ctx[c].queue
            \/ x.raw = Null /\ BlocksIn(x.queue) = Queued(c) \cup {b}
  <2>1. CASE ctx' = [ctx EXCEPT ![c].raw = b]
    <3>1. ctx' = [ctx EXCEPT ![c] = [ctx[c] EXCEPT !.raw = b]]
      BY <2>1 DEF Own, Types
    <3>2. QED
      BY <1>4, <3>1, RawChange
  <2>2. CASE ctx' = [ctx EXCEPT ![c].queue = Append(ctx[c].queue, b)]
    <3>1. ctx' = [ctx EXCEPT ![c] = [ctx[c] EXCEPT !.queue = Append(ctx[c].queue, b)]]
      BY <2>2 DEF Own, Types
    <3>2. /\ Append(ctx[c].queue, b) \in Seq(Blocks) /\ Once(Append(ctx[c].queue, b))
          /\ BlocksIn(Append(ctx[c].queue, b)) = Queued(c) \cup {b}
      BY <1>4, <1>5, AppendOnce DEF Queued
    <3> DEFINE x == [ctx[c] EXCEPT !.queue = Append(ctx[c].queue, b)]
    <3>3. /\ x \in Contexts /\ x.queue = Append(ctx[c].queue, b)
          /\ x.st = ctx[c].st /\ x.raw = ctx[c].raw
      BY <1>4, <3>2, QueueChange
    <3>4. QED
      BY <1>3, <3>1, <3>2, <3>3
  <2>3. QED
    BY <1>2, <2>1, <2>2 DEF Deliver
<1>7. /\ ctx' \in [Ctxs -> Contexts] /\ ctx'[c] = x
      /\ \A e \in Ctxs : e # c => ctx'[e] = ctx[e] /\ Queued(e)' = Queued(e)
  BY <1>6, StoreChange DEF Own
<1>8. Queued(c)' = BlocksIn(x.queue)
  BY <1>7 DEF Queued
<1>9. \A a \in Blocks : mem'[a] = IF a = b THEN "live" ELSE mem[a]
  BY <1>3 DEF Own, Types
<1>10. Types'
  BY <1>3, <1>7 DEF Own, Types, Payloads
<1>11. ValueInv'
  BY <1>3, <1>9 DEF Own, BlockInv, ValueInv, Live
<1>12. \A v \in Values : val[v] # b
  BY <1>3 DEF Own, BlockInv, ValueInv
<1>13. CASE x.raw = b /\ x.queue = ctx[c].queue
  <2>1. Queued(c)' = Queued(c)
    BY <1>8, <1>13 DEF Queued
  <2>2. RawInv'
    BY <1>3, <1>5, <1>7, <1>9, <1>12, <1>13, <2>1 DEF Own, BlockInv, RawInv, Live
  <2>3. QueueInv'
    BY <1>3, <1>5, <1>6, <1>7, <1>9, <2>1 DEF Own, BlockInv, QueueInv, Live
  <2>4. QED
    BY <2>2, <2>3, <1>3, <1>6, <1>7, <1>10, <1>11 DEF Own, Types, BlockInv, CtxInv, LiveCtx
<1>14. CASE x.raw = Null /\ BlocksIn(x.queue) = Queued(c) \cup {b}
  <2>1. Queued(c)' = Queued(c) \cup {b}
    BY <1>8, <1>14
  <2>2. RawInv'
    BY <1>3, <1>5, <1>7, <1>9, <1>14, <2>1 DEF Own, BlockInv, RawInv, Live
  <2>3. QueueInv'
    BY <1>3, <1>5, <1>6, <1>7, <1>9, <1>12, <2>1 DEF Own, BlockInv, QueueInv, Live
  <2>4. QED
    BY <2>2, <2>3, <1>3, <1>6, <1>7, <1>10, <1>11 DEF Own, Types, BlockInv, CtxInv, LiveCtx
<1>15. QED
  BY <1>6, <1>13, <1>14

\* The calls that move no pointer.
Still ==
    \/ UNCHANGED vars
    \/ \E v \in Values : read(v)
    \/ \E x \in Slices : SliceEnds(x)
    \/ \E s \in Sessions : StaleSession(s) \/ \E v \in Values : send(s, v)

\* The setters of callbacks are registrations of one of the five callbacks.
LEMMA Setters ==
  ASSUME NEW s \in Sessions,
         \/ set_auth_handler(s) \/ set_conn_status_callback(s) \/ set_stats_callback(s)
         \/ set_out_of_band_callback(s) \/ set_receiver_data_callback(s)
  PROVE  \E k \in Callbacks : Register(s, k)
BY DEF set_auth_handler, set_conn_status_callback, set_stats_callback,
       set_out_of_band_callback, set_receiver_data_callback, Callbacks

\* The steps of the program, as the proofs below go through them.
LEMMA Steps ==
  ASSUME [Next]_vars
  PROVE  \/ Still
         \/ \E v \in Values, x \in Slices \cup {Null} : set(v, x)
         \/ \E s \in Sessions : connect(s) \/ \E k \in Callbacks : Register(s, k)
         \/ \E v \in Values : new(v) \/ default(v)
         \/ \E v \in Values : drop(v)
         \/ \E p \in Pointers, v \in Values : Store(p, v) \/ from(p, v)
         \/ \E s, t \in Sessions : CloneSession(s, t)
         \/ \E s \in Sessions, m \in Modes, f \in Profiles : NewSession(s, m, f)
         \/ \E s \in Sessions : DropSession(s)
         \/ \E s \in Sessions, v \in Values : ReadInto(s, v)
         \/ \E c \in Ctxs : Deliver(c)
         \/ \E c \in Ctxs : CallbackReturns(c)
<1>1. ASSUME NEW v \in Values, BlockStep(v)
      PROVE  \/ Still \/ new(v) \/ default(v) \/ drop(v)
             \/ \E x \in Slices \cup {Null} : set(v, x)
             \/ \E p \in Pointers, w \in Values : Store(p, w) \/ from(p, w)
  BY <1>1, CloneStores DEF BlockStep, Still, SetField
<1>2. QED
  BY <1>1, Setters DEF Next, SessionStep, ReceiveStep, Still

LEMMA StillFrame ==
  ASSUME Still
  PROVE  UNCHANGED <<mem, load, val, ctx, ses, copied, displaced>>
BY DEF Still, vars, heap, past, read, SliceEnds, StaleSession, send

LEMMA OwnStep == Own /\ [Next]_vars => Own'
<1> SUFFICES ASSUME Own, [Next]_vars PROVE Own'
  OBVIOUS
<1>1. CASE Still
  BY <1>1, StillFrame, OwnFrame DEF Own, Types, SameStore
<1>2. ASSUME NEW v \in Values, NEW x \in Slices \cup {Null}, set(v, x) PROVE Own'
  <2>1. UNCHANGED <<mem, val, ctx, ses>> /\ copied \subseteq copied'
    BY <1>2 DEF set
  <2>2. load' \in [Blocks -> Payloads]
    BY <1>2, SetFrame DEF Own
  <2>3. QED
    BY <2>1, <2>2, OwnFrame DEF Own, Types, SameStore
<1>3. ASSUME NEW s \in Sessions, connect(s) \/ \E k \in Callbacks : Register(s, k)
      PROVE  Own'
  <2>1. UNCHANGED <<mem, load, val, ses, copied>>
    BY <1>3 DEF connect, Register, heap, past
  <2>2. ctx' \in [Ctxs -> Contexts] /\ \A c \in Ctxs : SameStore(c)
    BY <1>3, RegisterFrame DEF Own
  <2>3. QED
    BY <2>1, <2>2, OwnFrame DEF Own, Types
<1>4. QED
  BY <1>1, <1>2, <1>3, Steps, NewOwn, DropOwn, StoreOwn, CloneSessionOwn,
     NewSessionOwn, DropSessionOwn, ReadIntoOwn, DeliverOwn, FromOwn,
     CallbackReturnsOwn

LEMMA OwnInit == Init => Own
<1> SUFFICES ASSUME Init PROVE Own
  OBVIOUS
<1> USE RistAssumption
<1>1. Types
  <2>1. ctx \in [Ctxs -> Contexts]
    BY NoCtxType DEF Init
  <2>2. QED
    BY <2>1 DEF Init, Types, Payloads
<1>2. \A c \in Ctxs : /\ ctx[c].queue = <<>> /\ ctx[c].raw = Null
                      /\ ctx[c].st = "unused" /\ Queued(c) = {}
  BY EmptyQueue DEF Init, NoCtx, Queued
<1>3. BlockInv
  BY <1>2, EmptyQueue DEF Init, BlockInv, ValueInv, RawInv, QueueInv
<1>4. CtxInv
  BY <1>2 DEF Init, CtxInv
<1>5. QED
  BY <1>1, <1>3, <1>4 DEF Own

LEMMA OwnAlways == Spec => []Own
BY OwnInit, OwnStep, PTL DEF Spec

----------------------------------------------------------------------------
(* Dead addresses.                                                         *)

LEMMA CopiedGrows == ASSUME [Next]_vars PROVE copied \subseteq copied'
BY Steps, StillFrame
DEF set, connect, Register, new, default, drop, Store, CloneSession, NewSession,
    DropSession, ReadInto, Deliver, from, CallbackReturns, past

\* Only set() puts the address of a slice into a block.
LEMMA SliceStep == Own /\ SliceInv /\ [Next]_vars => SliceInv'
<1> SUFFICES ASSUME Own, SliceInv, [Next]_vars PROVE SliceInv'
  OBVIOUS
<1> USE RistAssumption
<1>1. copied \subseteq copied'
  BY CopiedGrows
<1>2. ASSUME \A b \in Blocks : load'[b] = load[b] \/ load'[b] \notin Slices,
             ended' \subseteq Slices
      PROVE  SliceInv'
  BY <1>1, <1>2 DEF SliceInv
<1>3. CASE Still
  <2>1. UNCHANGED load
    BY <1>3, StillFrame
  <2>2. ended' \subseteq Slices
    BY <1>3 DEF Still, SliceInv, vars, read, SliceEnds, StaleSession, send
  <2>3. QED
    BY <1>2, <2>1, <2>2
<1>4. ASSUME NEW v \in Values, NEW x \in Slices \cup {Null}, set(v, x) PROVE SliceInv'
  <2>1. UNCHANGED ended
    BY <1>4 DEF set
  <2>2. CASE UNCHANGED load
    BY <1>2, <2>1, <2>2 DEF SliceInv
  <2>3. CASE /\ Live(val[v]) /\ load' = [load EXCEPT ![val[v]] = x]
             /\ copied' = copied \cup ({x} \ {Null})
    <3>1. \A b \in Blocks : load'[b] = IF b = val[v] THEN x ELSE load[b]
      BY <2>3 DEF Own, Types
    <3>2. QED
      BY <2>1, <2>3, <3>1 DEF SliceInv
  <2>4. QED
    BY <1>4, <2>2, <2>3 DEF set
<1>5. ASSUME NEW B, Release(B), UNCHANGED ended PROVE SliceInv'
  BY <1>2, <1>5 DEF Release, SliceInv
<1>6. ASSUME NEW c \in Ctxs, Deliver(c) PROVE SliceInv'
  <2>1. UNCHANGED ended /\ load' = [load EXCEPT ![Fresh] = Received]
    BY <1>6 DEF Deliver
  <2>2. QED
    BY <1>2, <2>1 DEF SliceInv, Own, Types
<1>7. ASSUME UNCHANGED <<load, ended>> PROVE SliceInv'
  BY <1>2, <1>7 DEF SliceInv
<1>8. ASSUME NEW v \in Values, drop(v) PROVE SliceInv'
  BY <1>5, <1>8 DEF drop, Free
<1>9. ASSUME NEW p \in Pointers, NEW v \in Values, from(p, v) PROVE SliceInv'
  BY <1>5, <1>7, <1>9 DEF from, Free
<1>10. ASSUME NEW s \in Sessions, DropSession(s) PROVE SliceInv'
  BY <1>5, <1>10 DEF DropSession
<1>11. QED
  BY <1>3, <1>4, <1>6, <1>7, <1>8, <1>9, <1>10, Steps
  DEF connect, Register, new, default, Store, CloneSession, NewSession, ReadInto,
      CallbackReturns, heap

\* A pointer that was never copied leads to what is live, so the call that uses a
\* dead address got it from a copy, or had the null pointer.
LEMMA FaultStep == Own /\ SliceInv /\ OnlyCopiesFault /\ [Next]_vars => OnlyCopiesFault'
<1> SUFFICES ASSUME Own, SliceInv, OnlyCopiesFault, [Next]_vars PROVE OnlyCopiesFault'
  OBVIOUS
<1> USE RistAssumption
<1>1. copied \subseteq copied'
  BY CopiedGrows
<1>2. CASE UNCHANGED faults
  BY <1>1, <1>2 DEF OnlyCopiesFault
<1>3. ASSUME NEW p \in Pointers,
             \/ faults' \subseteq Dangling(p)
             \/ faults' \subseteq {p} \ {b \in Blocks : Live(b)}
      PROVE  OnlyCopiesFault'
  <2>1. p = Null \/ Live(p) \/ p \in copied
    BY PointerFacts
  <2>2. Live(p) => {load[p]} \cap ended \subseteq copied
    BY DEF Live, SliceInv
  <2>3. QED
    BY <1>1, <1>3, <2>1, <2>2 DEF OnlyCopiesFault, Dangling, Live
<1>4. ASSUME NEW v \in Values, drop(v) \/ read(v) \/ \E s \in Sessions : send(s, v)
      PROVE  OnlyCopiesFault'
  <2>1. val[v] \in Pointers
    BY <1>4 DEF Pointers, drop, read, send
  <2>2. \/ faults' \subseteq Dangling(val[v])
        \/ faults' \subseteq {val[v]} \ {b \in Blocks : Live(b)}
    BY <1>4 DEF drop, Free, read, send
  <2>3. QED
    BY <1>3, <2>1, <2>2
<1>5. ASSUME NEW v \in Values, NEW x \in Slices \cup {Null}, set(v, x)
      PROVE  OnlyCopiesFault'
  <2>1. val[v] \in Pointers
    BY <1>5 DEF Pointers, set
  <2>2. UNCHANGED faults \/ faults' \subseteq {val[v]} \ {b \in Blocks : Live(b)}
    BY <1>5 DEF set
  <2>3. QED
    BY <1>2, <1>3, <2>1, <2>2
<1>6. ASSUME NEW p \in Pointers, NEW v \in Values, from(p, v) PROVE OnlyCopiesFault'
  <2>1. UNCHANGED faults \/ faults' \subseteq {p} \ {b \in Blocks : Live(b)}
    BY <1>6 DEF from, Free
  <2>2. QED
    BY <1>2, <1>3, <2>1
<1>7. ASSUME NEW s \in Sessions, StaleSession(s) PROVE OnlyCopiesFault'
  BY <1>1, <1>7 DEF Own, CtxInv, StaleSession, OnlyCopiesFault
<1>8. QED
  BY <1>2, <1>4, <1>5, <1>6, <1>7, Steps
  DEF Still, SliceEnds, connect, Register, new, default, Store, CloneSession,
      NewSession, DropSession, ReadInto, Deliver, CallbackReturns, vars

\* Memory that was released is used or released again only through a second
\* pointer to it: of Clone, of the pub field, of from(), or of set() in a block.
THEOREM OnlyCopiesReachDeadMemory == Spec => []OnlyCopiesFault
<1>1. Init => OnlyCopiesFault /\ SliceInv
  BY RistAssumption DEF Init, OnlyCopiesFault, SliceInv
<1>2. QED
  BY <1>1, FaultStep, SliceStep, OwnAlways, PTL DEF Spec

----------------------------------------------------------------------------
(* Blocks that are left behind.                                            *)

BlocksHeld == \A b \in Blocks : Live(b) => Held(b) \/ b \in displaced
CtxsHeld   == \A c \in Ctxs : LiveCtx(c) => \E s \in Sessions : ses[s] = c

\* A live block keeps its owner when no pointer to it is taken away.
LEMMA HeldFrame ==
  ASSUME BlocksHeld, displaced \subseteq displaced',
         \A b \in Blocks : mem'[b] = "live" => mem[b] = "live",
         \A v \in Values : val[v] \in Blocks => val'[v] = val[v],
         \A c \in Ctxs : /\ ctx'[c].raw = ctx[c].raw
                         /\ Queued(c)' = Queued(c)
  PROVE  BlocksHeld'
<1> SUFFICES ASSUME NEW b \in Blocks, Live(b)' PROVE Held(b)' \/ b \in displaced'
  BY DEF BlocksHeld
<1>1. Held(b) \/ b \in displaced
  BY DEF BlocksHeld, Live
<1>2. Held(b) => Held(b)'
  BY DEF Held, Queued
<1>3. QED
  BY <1>1, <1>2

LEMMA BlocksHeldStep == Own /\ BlocksHeld /\ [Next]_vars => BlocksHeld'
<1> SUFFICES ASSUME Own, BlocksHeld, [Next]_vars PROVE BlocksHeld'
  OBVIOUS
<1> USE RistAssumption
<1>1. CASE Still
  BY <1>1, StillFrame, HeldFrame DEF Queued
<1>2. ASSUME NEW v \in Values, NEW x \in Slices \cup {Null}, set(v, x)
      PROVE  BlocksHeld'
  BY <1>2, HeldFrame DEF set, Queued
<1>3. ASSUME NEW s \in Sessions, connect(s) \/ \E k \in Callbacks : Register(s, k)
      PROVE  BlocksHeld'
  <2>1. UNCHANGED <<mem, val, displaced>>
    BY <1>3 DEF connect, Register, heap, past
  <2>2. \A c \in Ctxs : ctx'[c].raw = ctx[c].raw /\ Queued(c)' = Queued(c)
    BY <1>3, RegisterFrame DEF Own, SameStore, Queued
  <2>3. QED
    BY <2>1, <2>2, HeldFrame
<1>4. ASSUME NEW v \in Values, new(v) PROVE BlocksHeld'
  <2>1. Fresh \in Blocks
    BY <1>4, FreshBlock DEF new
  <2>2. /\ UNCHANGED <<ctx, displaced>> /\ val'[v] = Fresh
        /\ \A w \in Values : val[w] \in Blocks => val'[w] = val[w]
        /\ \A b \in Blocks : mem'[b] = "live" => mem[b] = "live" \/ b = Fresh
    BY <1>4, <2>1 DEF new, past, Own, Types
  <2>3. QED
    BY <2>2 DEF BlocksHeld, Held, Live
<1>5. ASSUME NEW v \in Values, default(v) PROVE BlocksHeld'
  <2>1. /\ UNCHANGED <<mem, ctx, displaced>>
        /\ \A w \in Values : val[w] \in Blocks => val'[w] = val[w]
    BY <1>5 DEF default, past, Own, Types
  <2>2. QED
    BY <2>1, HeldFrame DEF Queued
<1>6. ASSUME NEW p \in Pointers, NEW v \in Values, Store(p, v) PROVE BlocksHeld'
  <2>1. UNCHANGED <<mem, ctx>> /\ displaced' = displaced \cup ({val[v]} \ {Null, Gone})
    BY <1>6 DEF Store
  <2>2. \A x \in Values : x # v => val'[x] = val[x]
    BY <1>6 DEF Store, Own, Types
  <2>3. QED
    BY <2>1, <2>2 DEF BlocksHeld, Held, Live, Queued
<1>7. ASSUME NEW v \in Values, drop(v) PROVE BlocksHeld'
  <2>1. UNCHANGED <<ctx, displaced>> /\ \A w \in Values : w # v => val'[w] = val[w]
    BY <1>7 DEF drop, past, Own, Types
  <2>2. \A b \in Blocks : mem'[b] = IF b = val[v] THEN "released" ELSE mem[b]
    BY <1>7, ReleaseTypes DEF drop, Free, Own
  <2>3. QED
    BY <2>1, <2>2 DEF BlocksHeld, Held, Live
<1>8. ASSUME NEW s \in Sessions, NEW t \in Sessions, CloneSession(s, t) PROVE BlocksHeld'
  BY <1>8, HeldFrame DEF CloneSession, heap, Queued
<1>9. ASSUME NEW s \in Sessions, NEW m \in Modes, NEW f \in Profiles, NewSession(s, m, f)
      PROVE  BlocksHeld'
  <2>1. /\ UNCHANGED <<mem, val, displaced>>
        /\ FreshCtx \in Ctxs /\ ctx[FreshCtx].queue = <<>> /\ ctx[FreshCtx].raw = Null
    BY <1>9, FreshContext DEF NewSession, heap, past, Own, CtxInv, LiveCtx
  <2>2. \A b \in Blocks : \A c \in Ctxs :
           ctx[c].raw = b \/ b \in Queued(c) => c # FreshCtx /\ ctx'[c] = ctx[c]
    BY <1>9, <2>1, EmptyQueue DEF NewSession, Own, Types, Queued
  <2>3. QED
    BY <2>1, <2>2 DEF BlocksHeld, Held, Live, Queued
<1>10. ASSUME NEW s \in Sessions, DropSession(s) PROVE BlocksHeld'
  <2>1. PICK c \in Ctxs : c = ses[s] /\ Release(Queued(c)) /\ ctx[c].raw = Null
    BY <1>10 DEF DropSession, Own, Types, Queued
  <2>2. /\ UNCHANGED <<val, displaced>>
        /\ \A d \in Ctxs : d # c => ctx'[d] = ctx[d]
    BY <1>10, <2>1 DEF DropSession, past, Own, Types
  <2>3. \A b \in Blocks : mem'[b] = IF b \in Queued(c) THEN "released" ELSE mem[b]
    BY <2>1, ReleaseTypes DEF Own
  <2>4. QED
    BY <2>1, <2>2, <2>3 DEF BlocksHeld, Held, Live, Queued
<1>11. ASSUME NEW s \in Sessions, NEW v \in Values, ReadInto(s, v) PROVE BlocksHeld'
  <2>1. UNCHANGED mem /\ displaced' = displaced \cup ({val[v]} \ {Null})
    BY <1>11 DEF ReadInto
  <2>2. PICK c \in Ctxs, b \in Blocks \cup {Null} :
           /\ val' = [val EXCEPT ![v] = b] /\ ctx'[c].raw = ctx[c].raw
           /\ Queued(c) = Queued(c)' \cup ({b} \ {Null})
           /\ \A d \in Ctxs : d # c => ctx'[d] = ctx[d] /\ Queued(d)' = Queued(d)
    BY <1>11, ReadIntoStore
  <2>3. \A w \in Values : val'[w] = IF w = v THEN b ELSE val[w]
    BY <2>2 DEF Own, Types
  <2>4. QED
    BY <2>1, <2>2, <2>3 DEF BlocksHeld, Held, Live, Queued
<1>12. ASSUME NEW c \in Ctxs, Deliver(c) PROVE BlocksHeld'
  <2>1. Fresh \in Blocks /\ UNCHANGED <<val, displaced>> /\ ctx[c].raw = Null
    BY <1>12, FreshBlock DEF Deliver, past
  <2>2. \A b \in Blocks : mem'[b] = "live" => mem[b] = "live" \/ b = Fresh
    BY <1>12, <2>1 DEF Deliver, Own, Types
  <2>3. ctx[c].queue \in Seq(Blocks) /\ ctx[c] \in Contexts
    BY DEF Own, Types, Contexts
  <2>4. /\ \A e \in Ctxs : e # c => ctx'[e] = ctx[e]
        /\ \/ ctx'[c].raw = Fresh /\ ctx'[c].queue = ctx[c].queue
           \/ ctx'[c].queue = Append(ctx[c].queue, Fresh)
    BY <1>12, <2>3 DEF Deliver, Own, Types, Contexts
  <2>5. BlocksIn(Append(ctx[c].queue, Fresh)) = Queued(c) \cup {Fresh}
    <3>1. Once(ctx[c].queue) /\ Fresh \notin Queued(c)
      BY <1>12, FreshBlock DEF Deliver, Own, BlockInv, QueueInv, Live
    <3>2. QED
      BY <2>1, <2>3, <3>1, AppendOnce DEF Queued
  <2>6. QED
    BY <2>1, <2>2, <2>4, <2>5 DEF BlocksHeld, Held, Live, Queued
<1>13. ASSUME NEW p \in Pointers, NEW v \in Values, from(p, v) PROVE BlocksHeld'
  <2>1. UNCHANGED <<ctx, displaced>> /\ val[v] = Gone
    BY <1>13 DEF from
  <2>2. CASE /\ CanAlloc /\ val' = [val EXCEPT ![v] = Fresh]
             /\ mem' = [mem EXCEPT ![Fresh] = "live"]
    <3>1. /\ Fresh \in Blocks /\ val'[v] = Fresh
          /\ \A w \in Values : val[w] \in Blocks => val'[w] = val[w]
          /\ \A b \in Blocks : mem'[b] = "live" => mem[b] = "live" \/ b = Fresh
      BY <2>1, <2>2, FreshBlock DEF Own, Types
    <3>2. QED
      BY <2>1, <2>2, <3>1 DEF BlocksHeld, Held, Live, Queued
  <2>3. CASE Free(p) /\ UNCHANGED val
    <3>1. \A b \in Blocks : mem'[b] = "live" => mem[b] = "live"
      BY <2>3 DEF Free, Release
    <3>2. QED
      BY <2>1, <2>3, <3>1, HeldFrame DEF Queued
  <2>4. QED
    BY <1>13, <2>2, <2>3 DEF from
<1>14. ASSUME NEW c \in Ctxs, CallbackReturns(c) PROVE BlocksHeld'
  <2>1. UNCHANGED <<mem, val>> /\ displaced' = displaced \cup {ctx[c].raw}
    BY <1>14 DEF CallbackReturns, heap
  <2>2. \A d \in Ctxs : Queued(d)' = Queued(d) /\ (d # c => ctx'[d].raw = ctx[d].raw)
    BY <1>14, RawGone DEF CallbackReturns
  <2>3. QED
    BY <2>1, <2>2 DEF BlocksHeld, Held, Live, Queued
<1>15. QED
  BY <1>1, <1>2, <1>3, <1>4, <1>5, <1>6, <1>7, <1>8, <1>9, <1>10, <1>11, <1>12,
     <1>13, <1>14, Steps

\* A live context has a session: w_rist_fini of the last one, or of any, ends it.
LEMMA CtxsHeldStep == Own /\ CtxsHeld /\ [Next]_vars => CtxsHeld'
<1> SUFFICES ASSUME Own, CtxsHeld, [Next]_vars PROVE CtxsHeld'
  OBVIOUS
<1>1. ASSUME UNCHANGED ses, \A c \in Ctxs : ctx'[c].st = "live" => ctx[c].st = "live"
      PROVE  CtxsHeld'
  BY <1>1 DEF CtxsHeld, LiveCtx
<1>2. CASE Still
  BY <1>1, <1>2, StillFrame
<1>3. ASSUME NEW s \in Sessions, connect(s) \/ \E k \in Callbacks : Register(s, k)
      PROVE  CtxsHeld'
  <2>1. \A c \in Ctxs : ctx'[c].st = ctx[c].st
    BY <1>3, RegisterFrame DEF Own, SameStore
  <2>2. QED
    BY <1>1, <1>3, <2>1 DEF connect, Register
<1>4. ASSUME NEW v \in Values,
             \/ new(v) \/ default(v) \/ drop(v)
             \/ \E x \in Slices \cup {Null} : set(v, x)
             \/ \E p \in Pointers : Store(p, v) \/ from(p, v)
      PROVE  CtxsHeld'
  BY <1>1, <1>4 DEF new, default, drop, set, Store, from
<1>5. ASSUME NEW s \in Sessions, NEW t \in Sessions, CloneSession(s, t) PROVE CtxsHeld'
  <2>1. /\ UNCHANGED ctx /\ ses[t] = Gone
        /\ \A x \in Sessions : ses'[x] = IF x = t THEN ses[s] ELSE ses[x]
    BY <1>5 DEF CloneSession, Own, Types
  <2>2. QED
    BY <2>1, RistAssumption DEF CtxsHeld, LiveCtx
<1>6. ASSUME NEW s \in Sessions, NEW m \in Modes, NEW f \in Profiles, NewSession(s, m, f)
      PROVE  CtxsHeld'
  <2>1. FreshCtx \in Ctxs /\ ses[s] = Gone
    BY <1>6, FreshContext DEF NewSession
  <2>2. CASE ses' = [ses EXCEPT ![s] = FreshCtx]
    <3>1. \A c \in Ctxs : c # FreshCtx => ctx'[c] = ctx[c]
      BY <1>6 DEF NewSession, Own, Types
    <3>2. \A t \in Sessions : ses'[t] = IF t = s THEN FreshCtx ELSE ses[t]
      BY <2>2 DEF Own, Types
    <3>3. QED
      BY <2>1, <3>1, <3>2, RistAssumption DEF CtxsHeld, LiveCtx
  <2>3. CASE UNCHANGED ses /\ ctx' = [ctx EXCEPT ![FreshCtx].st = "orphan"]
    <3>1. \A c \in Ctxs : ctx'[c].st = "live" => ctx[c].st = "live"
      BY <2>1, <2>3 DEF Own, Types, Contexts
    <3>2. QED
      BY <1>1, <2>3, <3>1
  <2>4. QED
    BY <1>6, <2>2, <2>3 DEF NewSession
<1>7. ASSUME NEW s \in Sessions, DropSession(s) PROVE CtxsHeld'
  <2>1. PICK c \in Ctxs : c = ses[s]
    BY <1>7 DEF DropSession, Own, Types
  <2>2. ctx'[c].st = "released" /\ \A d \in Ctxs : d # c => ctx'[d] = ctx[d]
    BY <1>7, <2>1 DEF DropSession, NoCtx, Own, Types
  <2>3. \A t \in Sessions : t # s => ses'[t] = ses[t]
    BY <1>7 DEF DropSession, Own, Types
  <2>4. QED
    BY <2>1, <2>2, <2>3 DEF CtxsHeld, LiveCtx
<1>8. ASSUME NEW s \in Sessions, NEW v \in Values, ReadInto(s, v) PROVE CtxsHeld'
  <2>1. UNCHANGED ses
    BY <1>8 DEF ReadInto
  <2>2. \A c \in Ctxs : ctx'[c].st = "live" => ctx[c].st = "live"
    BY <1>8, ReadIntoStore DEF LiveCtx
  <2>3. QED
    BY <1>1, <2>1, <2>2
<1>9. ASSUME NEW c \in Ctxs, Deliver(c) PROVE CtxsHeld'
  <2>1. UNCHANGED ses /\ LiveCtx(c) /\ \A e \in Ctxs : e # c => ctx'[e] = ctx[e]
    BY <1>9 DEF Deliver, Own, Types
  <2>2. QED
    BY <1>1, <2>1 DEF LiveCtx
<1>10. ASSUME NEW c \in Ctxs, CallbackReturns(c) PROVE CtxsHeld'
  <2>1. UNCHANGED ses /\ ctx' = [ctx EXCEPT ![c].raw = Null]
    BY <1>10 DEF CallbackReturns
  <2>2. \A e \in Ctxs : ctx'[e].st = ctx[e].st
    BY <2>1, RawGone
  <2>3. QED
    BY <1>1, <2>1, <2>2
<1>11. QED
  BY <1>2, <1>3, <1>4, <1>5, <1>6, <1>7, <1>8, <1>9, <1>10, Steps

\* A live block or context has an owner, unless rist::read or an assignment
\* overwrote the pointer to the block or a callback forgot its own.
THEOREM OnlyDisplacedBlocksLeak == Spec => []OnlyDisplacedLeak
<1>1. Init => BlocksHeld /\ CtxsHeld
  BY DEF Init, BlocksHeld, CtxsHeld, Live, LiveCtx, NoCtx
<1>2. BlocksHeld /\ CtxsHeld => OnlyDisplacedLeak
  BY DEF BlocksHeld, CtxsHeld, OnlyDisplacedLeak
<1>3. QED
  BY <1>1, <1>2, BlocksHeldStep, CtxsHeldStep, OwnAlways, PTL DEF Spec

----------------------------------------------------------------------------
(* The UDP endpoint: datagrams in its queue.                               *)

\* The places of a queue that hold the client's own datagrams.
OwnPlaces(q) == {i \in DOMAIN q : q[i].from = Self}

\* What a queue of either role may hold.
Packets == Datagrams \cup [from : {Self}, cells : [Cells -> Origins]]

LEMMA PlacesFinite ==
  ASSUME NEW q \in Seq(Packets)
  PROVE  IsFiniteSet(OwnPlaces(q)) /\ Cardinality(OwnPlaces(q)) \in Nat
<1>1. OwnPlaces(q) \subseteq 1..Len(q) /\ Len(q) \in Nat
  BY DEF OwnPlaces
<1>2. IsFiniteSet(1..Len(q))
  BY <1>1, FS_Interval
<1>3. QED
  BY <1>1, <1>2, FS_Subset, FS_CardinalityType

\* A datagram that joins the queue takes one place, the client's own one more of them.
LEMMA PlacesOfAppend ==
  ASSUME NEW q \in Seq(Packets), NEW d \in Packets
  PROVE  Cardinality(OwnPlaces(Append(q, d))) =
           Cardinality(OwnPlaces(q)) + (IF d.from = Self THEN 1 ELSE 0)
<1> DEFINE n == Len(q) + 1
<1>1. /\ DOMAIN Append(q, d) = 1..n /\ DOMAIN q = 1..Len(q) /\ Len(q) \in Nat
      /\ Append(q, d)[n] = d /\ \A i \in 1..Len(q) : Append(q, d)[i] = q[i]
  OBVIOUS
<1>2. 1..n = (1..Len(q)) \cup {n} /\ n \notin 1..Len(q)
  BY <1>1
<1>3. CASE d.from = Self
  <2>1. OwnPlaces(Append(q, d)) = OwnPlaces(q) \cup {n} /\ n \notin OwnPlaces(q)
    BY <1>1, <1>2, <1>3 DEF OwnPlaces
  <2>2. QED
    BY <1>3, <2>1, PlacesFinite, FS_AddElement
<1>4. CASE d.from # Self
  <2>1. OwnPlaces(Append(q, d)) = OwnPlaces(q)
    BY <1>1, <1>2, <1>4 DEF OwnPlaces
  <2>2. QED
    BY <1>4, <2>1, PlacesFinite
<1>5. QED
  BY <1>3, <1>4

\* A read shifts the places by one: the map i -> i + 1 takes what is left of them into
\* what there was behind the first.
LEMMA PlacesOfTail ==
  ASSUME NEW q \in Seq(Packets), q # <<>>
  PROVE  Cardinality(OwnPlaces(Tail(q))) <=
           Cardinality(OwnPlaces(q)) - (IF Head(q).from = Self THEN 1 ELSE 0)
<1> DEFINE Rest == OwnPlaces(Tail(q))
           Behind == OwnPlaces(q) \ {1}
           f == [i \in Rest |-> i + 1]
<1>1. /\ Len(q) \in Nat \ {0} /\ DOMAIN q = 1..Len(q) /\ Head(q) = q[1]
      /\ DOMAIN Tail(q) = 1..(Len(q) - 1)
      /\ \A i \in 1..(Len(q) - 1) : Tail(q)[i] = q[i + 1]
  OBVIOUS
<1>2. \A i \in Rest : i \in 1..(Len(q) - 1) /\ i + 1 \in Behind
  BY <1>1 DEF OwnPlaces
<1>3. f \in Injection(Rest, Behind)
  <2>1. f \in [Rest -> Behind]
    BY <1>2
  <2>2. \A i, j \in Rest : f[i] = f[j] => i = j
    BY <1>2
  <2> HIDE DEF f, Rest, Behind
  <2>3. QED
    BY <2>1, <2>2 DEF Injection, IsInjective
<1>4. IsFiniteSet(OwnPlaces(q)) /\ Cardinality(OwnPlaces(q)) \in Nat
  BY PlacesFinite
<1>5. /\ IsFiniteSet(Behind)
      /\ Cardinality(Behind) = IF 1 \in OwnPlaces(q) THEN Cardinality(OwnPlaces(q)) - 1
                                                ELSE Cardinality(OwnPlaces(q))
  BY <1>4, FS_RemoveElement
<1>6. Cardinality(Rest) <= Cardinality(Behind) /\ Cardinality(Rest) \in Nat
  BY <1>3, <1>5, FS_Injection, FS_CardinalityType
<1>7. 1 \in OwnPlaces(q) <=> Head(q).from = Self
  BY <1>1 DEF OwnPlaces
<1>8. QED
  BY <1>4, <1>5, <1>6, <1>7

\* A peer's datagram has a sender other than this socket and only its sender's bytes.
LEMMA DatagramShape ==
  ASSUME NEW d \in Datagrams
  PROVE  /\ d.from \in Peers /\ d.from # Self /\ Len(d.cells) \in Nat
         /\ \A i \in 1..Len(d.cells) : d.cells[i] = d.from
<1>1. PICK p \in Peers, n \in 0..MaxLen :
         d = [from |-> p, cells |-> [i \in 1..n |-> p]]
  BY DEF Datagrams, PeerDatagram
<1>2. n \in Nat
  BY <1>1, UdpAssumption
<1>3. [i \in 1..n |-> p] \in Seq(Peers) /\ Len([i \in 1..n |-> p]) = n
  BY <1>2
<1>4. QED
  BY <1>1, <1>2, <1>3, UdpAssumption DEF Self

\* What both invariants need of the types.  A server never queues a datagram of its
\* own, so all of the bytes it reads are the sender's.
UdpTypes ==
    /\ role \in {"UDPServer", "UDPClient"}
    /\ queue \in Seq(Packets) /\ net \subseteq Datagrams
    /\ buf \in [Cells -> Origins] /\ foreign \in Nat
    /\ Server => queue \in Seq(Datagrams)

\* What AnswerStartsWithOwn needs: from the read to the answer, the cells a server has
\* read are the sender's or were overwritten by the callback, and an answer is only
\* sent when there is at least one.
AnswerInv ==
    /\ received.len \in 0..MaxMsg
    /\ Server => \A i \in 1..received.len : buf[i] \in {received.from, "callback"}
    /\ Server /\ pc = "send" => received.len > 0
    /\ AnswerStartsWithOwn

LEMMA UdpTypesStep ==
  ASSUME UdpTypes, [UdpNext]_udpVars
  PROVE  UdpTypes'
<1> USE DEF msgVars, netVars
<1>1. CASE UNCHANGED <<role, buf, foreign, net, queue>>
  BY <1>1 DEF UdpTypes, Server
<1>2. CASE PeerSends
  BY <1>2 DEF UdpTypes, Server, PeerSends
<1>3. ASSUME NEW d \in net, Arrive(d) \/ Lose(d) PROVE UdpTypes'
  <2>1. d \in Datagrams /\ d \in Packets
    BY DEF UdpTypes, Packets
  <2>2. /\ UNCHANGED <<role, buf, foreign>> /\ net' \subseteq net
        /\ queue' = queue \/ queue' = Append(queue, d)
    BY <1>3 DEF Arrive, Lose
  <2>3. QED
    BY <2>1, <2>2 DEF UdpTypes, Server
<1>4. CASE RecvFrom
  <2>1. /\ queue # <<>> /\ queue' = Tail(queue)
        /\ UNCHANGED <<role, net>> /\ Read(Head(queue))
    BY <1>4 DEF RecvFrom
  <2>2. Tail(queue) \in Seq(Packets) /\ (Server => Tail(queue) \in Seq(Datagrams))
    BY <2>1 DEF UdpTypes
  <2>3. Head(queue) \in Packets
    BY <2>1 DEF UdpTypes
  <2>4. foreign' \in Nat
    BY <2>1 DEF Read, UdpTypes
  <2>5. buf' \in [Cells -> Origins]
    <3> DEFINE d == Head(queue)
               n == IF Len(d.cells) > MaxMsg THEN MaxMsg ELSE Len(d.cells)
    <3>1. buf' = [i \in Cells |-> IF i <= n THEN d.cells[i] ELSE buf[i]]
      BY <2>1 DEF Read
    <3>2. Len(d.cells) \in Nat /\ \A i \in 1..Len(d.cells) : d.cells[i] \in Origins
      <4>1. CASE d \in Datagrams
        BY <4>1, DatagramShape DEF Origins
      <4>2. CASE d \in [from : {Self}, cells : [Cells -> Origins]]
        <5>1. d.cells \in [1..MaxMsg -> Origins] /\ MaxMsg \in Nat
          BY <4>2, UdpAssumption DEF Cells
        <5>2. d.cells \in Seq(Origins) /\ Len(d.cells) = MaxMsg
          BY <5>1
        <5>3. QED
          BY <5>1, <5>2
      <4>3. QED
        BY <2>3, <4>1, <4>2 DEF Packets
    <3> HIDE DEF d
    <3>3. \A i \in Cells : i <= n => i \in 1..Len(d.cells)
      BY <3>2, UdpAssumption DEF Cells
    <3> HIDE DEF n
    <3>4. QED
      BY <3>1, <3>2, <3>3 DEF UdpTypes
  <2>6. QED
    BY <2>1, <2>2, <2>4, <2>5 DEF UdpTypes, Server
<1>5. CASE SendTo
  <2>1. OwnDatagram \in Packets
    BY DEF OwnDatagram, Packets, UdpTypes
  <2>2. /\ UNCHANGED <<role, buf, foreign, net>>
        /\ \/ queue' = queue
           \/ ~Server /\ queue' = Append(queue, OwnDatagram)
    BY <1>5 DEF SendTo
  <2>3. QED
    BY <2>1, <2>2 DEF UdpTypes, Server
<1>6. ASSUME NEW n, CallbackWrites(n), UNCHANGED <<role, foreign, net, queue>>
      PROVE  UdpTypes'
  BY <1>6 DEF CallbackWrites, UdpTypes, Server, Origins
<1>7. QED
  BY <1>1, <1>2, <1>3, <1>4, <1>5, <1>6
  DEF UdpNext, Network, Connect, IoFails, BindFails, OnBindSocketFails,
      OnBindSocket, OnCloseSocket, ReadTimesOut, OnMessageVetoes, OnMessageServer,
      OnMessageClient, udpVars

LEMMA UdpTypesInit == ASSUME UdpInit PROVE UdpTypes
<1>1. <<>> \in Seq(Packets) /\ <<>> \in Seq(Datagrams)
  OBVIOUS
<1>2. QED
  BY <1>1 DEF UdpInit, UdpTypes, Origins

LEMMA AnswerStep ==
  ASSUME UdpTypes, AnswerInv, [UdpNext]_udpVars
  PROVE  AnswerInv'
<1> USE DEF msgVars, netVars
<1>1. ASSUME UNCHANGED <<role, buf, received, reply>>, pc' = "send" => pc = "send"
      PROVE  AnswerInv'
  BY <1>1 DEF AnswerInv, AnswerStartsWithOwn, Server
<1>2. CASE RecvFrom
  <2> DEFINE d == Head(queue)
             n == IF Len(d.cells) > MaxMsg THEN MaxMsg ELSE Len(d.cells)
  <2>1. /\ queue # <<>> /\ UNCHANGED <<role, reply>>
        /\ Read(d) /\ pc' = "callback"
    BY <1>2 DEF RecvFrom
  <2>2. CASE Server
    <3>1. d \in Datagrams
      BY <2>1, <2>2 DEF UdpTypes
    <3>2. Len(d.cells) \in Nat /\ \A i \in 1..Len(d.cells) : d.cells[i] = d.from
      BY <3>1, DatagramShape
    <3>3. /\ buf' = [i \in Cells |-> IF i <= n THEN d.cells[i] ELSE buf[i]]
          /\ received' = [len |-> n, from |-> d.from]
      BY <2>1, <2>2 DEF Read
    <3> HIDE DEF d
    <3>4. n \in 0..MaxMsg /\ \A i \in 1..n : i \in Cells /\ i \in 1..Len(d.cells) /\ i <= n
      BY <3>2, UdpAssumption DEF Cells
    <3> HIDE DEF n
    <3>5. received'.len = n /\ received'.from = d.from /\ \A i \in 1..n : buf'[i] = d.from
      BY <3>2, <3>3, <3>4
    <3>6. QED
      BY <2>1, <2>2, <3>4, <3>5 DEF AnswerInv, AnswerStartsWithOwn
  <2>3. CASE ~Server
    <3>1. UNCHANGED <<received, reply, role>>
      BY <2>1, <2>3 DEF Read
    <3>2. QED
      BY <2>3, <3>1 DEF AnswerInv, AnswerStartsWithOwn, Server
  <2>4. QED
    BY <2>2, <2>3
<1>3. ASSUME NEW n, CallbackWrites(n), UNCHANGED <<role, received, reply>>,
             Server /\ pc' = "send" => received.len > 0
      PROVE  AnswerInv'
  <2>1. buf' = [i \in Cells |-> IF i <= n THEN "callback" ELSE buf[i]]
    BY <1>3 DEF CallbackWrites
  <2>2. \A i \in 1..received.len : i \in Cells
    BY UdpAssumption DEF AnswerInv, Cells
  <2>3. Server => \A i \in 1..received.len : buf'[i] \in {received.from, "callback"}
    BY <2>1, <2>2 DEF AnswerInv
  <2>4. QED
    BY <1>3, <2>3 DEF AnswerInv, AnswerStartsWithOwn, Server
<1>4. CASE SendTo
  <2>1. CASE Server
    <3>1. /\ reply' = [to |-> received.from, own |-> received.len, cells |-> buf]
          /\ received.len > 0 /\ pc' = "read" /\ UNCHANGED <<role, buf, received>>
      BY <1>4, <2>1 DEF SendTo, AnswerInv
    <3>2. reply'.to = received.from /\ reply'.own = received.len /\ reply'.cells = buf
      BY <3>1
    <3>3. QED
      BY <2>1, <3>1, <3>2 DEF AnswerInv, AnswerStartsWithOwn, Server
  <2>2. CASE ~Server
    BY <1>1, <1>4, <2>2 DEF SendTo
  <2>3. QED
    BY <2>1, <2>2
<1>5. CASE OnMessageServer
  BY <1>3, <1>5 DEF OnMessageServer
<1>6. CASE OnMessageClient
  BY <1>3, <1>6 DEF OnMessageClient, Client, Server
<1>7. CASE Network
  BY <1>1, <1>7 DEF Network, PeerSends, Arrive, Lose
<1>8. CASE \/ BindFails \/ OnBindSocketFails \/ OnBindSocket \/ OnCloseSocket
           \/ ReadTimesOut \/ OnMessageVetoes \/ IoFails \/ UNCHANGED udpVars
  BY <1>1, <1>8
  DEF IoFails, BindFails, OnBindSocketFails, OnBindSocket, OnCloseSocket,
      ReadTimesOut, OnMessageVetoes, udpVars
<1>9. QED
  BY <1>2, <1>4, <1>5, <1>6, <1>7, <1>8 DEF UdpNext, Connect

\* For any peers, any lengths and any loss, duplication and overtaking of datagrams:
\* every answer of a UDP server starts with bytes of the datagram it answers or of the
\* callback, at least one.
THEOREM AnswersStartWithOwn ==
  UdpSpec => []AnswerStartsWithOwn
<1>1. UdpInit => UdpTypes /\ AnswerInv
  <2> SUFFICES ASSUME UdpInit PROVE AnswerInv
    BY UdpTypesInit
  <2>1. received.len = 0 /\ reply = NoReply /\ pc = "setup"
    BY DEF UdpInit, NoRead
  <2>2. QED
    BY <2>1, UdpAssumption DEF AnswerInv, AnswerStartsWithOwn
<1>2. UdpTypes /\ AnswerInv /\ [UdpNext]_udpVars => UdpTypes' /\ AnswerInv'
  BY UdpTypesStep, AnswerStep
<1>3. AnswerInv => AnswerStartsWithOwn
  BY DEF AnswerInv
<1>4. QED
  BY <1>1, <1>2, <1>3, PTL DEF UdpSpec

\* ClientLag is inductive on its types: only SendTo adds a datagram of the client's own,
\* and it moves pc to "read", where one more is allowed; the read after it takes one away
\* or counts a stranger's.
LEMMA LagStep ==
  ASSUME UdpTypes, UdpTypes', ClientLag, [UdpNext]_udpVars
  PROVE  ClientLag'
<1> USE DEF msgVars, netVars
<1>0. /\ OwnUnread = Cardinality(OwnPlaces(queue)) /\ OwnUnread \in Nat
      /\ OwnUnread' = Cardinality(OwnPlaces(queue')) /\ OwnUnread' \in Nat
      /\ foreign \in Nat /\ foreign' \in Nat
  BY PlacesFinite DEF OwnUnread, OwnPlaces, UdpTypes
<1> SUFFICES ASSUME Client', pc' # "returned"
             PROVE  OwnUnread' <= foreign' + (IF pc' \in {"read", "closing"} THEN 1 ELSE 0)
  BY DEF ClientLag
<1>1. ASSUME UNCHANGED <<role, foreign, queue>>, pc # "returned",
             pc \in {"read", "closing"} => pc' \in {"read", "closing"}
      PROVE  OwnUnread' <= foreign' + (IF pc' \in {"read", "closing"} THEN 1 ELSE 0)
  BY <1>0, <1>1 DEF ClientLag, Client, OwnUnread
<1>2. CASE PeerSends \/ \E d \in net : Lose(d)
  BY <1>1, <1>2 DEF PeerSends, Lose
<1>3. ASSUME NEW d \in net, Arrive(d)
      PROVE  OwnUnread' <= foreign' + (IF pc' \in {"read", "closing"} THEN 1 ELSE 0)
  <2>1. d \in Packets /\ d.from # Self
    BY DatagramShape DEF UdpTypes, Packets
  <2>2. queue' = Append(queue, d) /\ UNCHANGED <<role, pc, foreign>>
    BY <1>3 DEF Arrive
  <2>3. OwnUnread' = OwnUnread
    BY <1>0, <2>1, <2>2, PlacesOfAppend DEF UdpTypes
  <2>4. QED
    BY <1>0, <2>2, <2>3 DEF ClientLag, Client
<1>4. CASE RecvFrom
  <2> DEFINE d == Head(queue)
  <2>1. /\ queue # <<>> /\ queue' = Tail(queue) /\ pc = "read" /\ pc' = "callback"
        /\ UNCHANGED role /\ Read(d)
    BY <1>4 DEF RecvFrom
  <2>2. ~Server
    BY <2>1 DEF Client, Server
  <2>3. foreign' = foreign + (IF d.from = Self THEN 0 ELSE 1)
    BY <2>1, <2>2 DEF Read
  <2>4. OwnUnread' <= OwnUnread - (IF d.from = Self THEN 1 ELSE 0)
    BY <1>0, <2>1, PlacesOfTail DEF UdpTypes
  <2>5. OwnUnread <= foreign + 1
    BY <2>1 DEF ClientLag, Client
  <2> HIDE DEF d
  <2>6. QED
    BY <1>0, <2>1, <2>3, <2>4, <2>5
<1>5. CASE SendTo
  <2>1. /\ pc = "send" /\ pc' = "read" /\ UNCHANGED <<role, foreign>>
        /\ queue' = queue \/ queue' = Append(queue, OwnDatagram)
    BY <1>5 DEF SendTo
  <2>2. OwnDatagram \in Packets /\ OwnDatagram.from = Self
    BY DEF OwnDatagram, Packets, UdpTypes
  <2>3. OwnUnread' <= OwnUnread + 1
    <3>1. CASE queue' = queue
      BY <1>0, <3>1
    <3>2. CASE queue' = Append(queue, OwnDatagram)
      <4>1. queue \in Seq(Packets)
        BY DEF UdpTypes
      <4>2. Cardinality(OwnPlaces(queue')) = Cardinality(OwnPlaces(queue)) + 1
        BY <2>2, <3>2, <4>1, PlacesOfAppend
      <4>3. QED
        BY <1>0, <4>2
    <3>3. QED
      BY <2>1, <3>1, <3>2
  <2>4. OwnUnread <= foreign
    BY <1>0, <2>1 DEF ClientLag, Client
  <2>5. QED
    BY <1>0, <2>1, <2>3, <2>4
<1>6. CASE OnMessageServer \/ OnMessageClient
  BY <1>1, <1>6 DEF OnMessageServer, OnMessageClient
<1>7. CASE \/ BindFails \/ OnBindSocketFails \/ OnBindSocket \/ OnCloseSocket
           \/ ReadTimesOut \/ OnMessageVetoes \/ IoFails \/ UNCHANGED udpVars
  BY <1>1, <1>7
  DEF IoFails, BindFails, OnBindSocketFails, OnBindSocket, OnCloseSocket,
      ReadTimesOut, OnMessageVetoes, udpVars
<1>8. QED
  BY <1>2, <1>3, <1>4, <1>5, <1>6, <1>7 DEF UdpNext, Network, Connect

\* However many datagrams strangers send to a UDP client's port: the client's own
\* datagrams it has still to read are at most as many as the strangers' it took for
\* answers, and one more while it reads.
THEOREM ClientFallsBehindSlowly ==
  UdpSpec => []ClientLag
<1>1. UdpInit => UdpTypes /\ ClientLag
  <2> SUFFICES ASSUME UdpInit PROVE ClientLag
    BY UdpTypesInit
  <2>1. {i \in DOMAIN queue : queue[i].from = Self} = {}
    BY DEF UdpInit
  <2>2. OwnUnread = 0 /\ foreign = 0
    BY <2>1, FS_EmptySet DEF UdpInit, OwnUnread
  <2>3. QED
    BY <2>2 DEF ClientLag
<1>2. UdpTypes /\ ClientLag /\ [UdpNext]_udpVars => UdpTypes' /\ ClientLag'
  BY UdpTypesStep, LagStep
<1>3. QED
  BY <1>1, <1>2, PTL DEF UdpSpec
=============================================================================
