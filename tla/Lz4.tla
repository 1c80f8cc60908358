-------------------------------- MODULE Lz4 --------------------------------
(***************************************************************************)
(* compress() and de_compress() of wolf/src/system/compression/lz4.rs: a   *)
(* source is compressed into one vector and the block decompressed into    *)
(* another.  The caller keeps no length of the original, so de_compress    *)
(* guesses one and doubles it.  Lengths are i32 on the C side; bytes are   *)
(* not modelled, only how many there are and whether the block is still    *)
(* the one compress() made.                                                *)
(***************************************************************************)
EXTENDS Integers

CONSTANTS
    MaxInt,     \* i32::MAX
    MaxInput,   \* LZ4_MAX_INPUT_SIZE
    Ratio,      \* bytes that a byte of a block stands for at most, 255
    Slack,      \* what LZ4_compressBound adds, 16
    Tries,      \* how often de_compress doubles its guess, 10
    Lengths,    \* lengths of the source
    OldLengths  \* lengths of the vectors the caller passes in

ASSUME Lz4Assumption ==
    /\ {MaxInt, MaxInput, Slack, Tries} \subseteq Nat
    /\ Ratio \in Nat \ {0}
    /\ MaxInput + (MaxInput \div Ratio) + Slack <= MaxInt
    /\ Lengths \subseteq Nat /\ OldLengths \subseteq Nat

\* What the proofs, which have no theory of powers, need of 2^k.
ASSUME PowersAssumption ==
    /\ 2^1 = 2
    /\ \A k \in 1..(Tries + 1) : 2^k \in Nat /\ 2^(k + 1) = 2 * 2^k
    /\ \A k \in 1..(Tries + 1) : \A j \in 1..k : 2^j <= 2^k

VARIABLES
    pc,         \* where the calls are
    src,        \* p_src.len() of compress
    block,      \* the vector compress fills and de_compress reads
    intact,     \* the block is what compress made of the source
    out,        \* p_dst of de_compress
    max,        \* max_dst_size
    tries,      \* rounds of the loop
    ret,        \* ret_size
    outcome,    \* of the latest call: "none", "ok", "err" or "panic"
    checks      \* the build panics on overflow (debug) or wraps (release)

lz4Vars == <<pc, src, block, intact, out, max, tries, ret, outcome, checks>>
loop == <<max, tries, ret>>

----------------------------------------------------------------------------
(* Lengths and vectors.                                                    *)

\* usize and i32 into each other, try_from(..).unwrap_or(0).
AsI32(n)   == IF n <= MaxInt THEN n ELSE 0
AsUsize(i) == IF i >= 0 THEN i ELSE 0

\* Twice a positive i32.
Twice(i)     == IF 2 * i <= MaxInt THEN 2 * i ELSE 2 * i - 2 * (MaxInt + 1)
Overflows(i) == 2 * i > MaxInt

\* A vector: its length and how many bytes from its start were ever written.
Resized(n)   == [len |-> n, init |-> n]
SetLen(v, n) == [len |-> n, init |-> v.init]

\* LZ4_compressBound.
Bound(n) == IF n > MaxInput THEN 0 ELSE n + (n \div Ratio) + Slack

\* LZ4_compress_default and _fast: zero, or the length of a block that fits.
Compressed(n, cap) == {0} \cup {c \in 1..cap : n <= Ratio * c}

\* LZ4_decompress_safe: a block that is intact gives its source if there is room
\* for it; anything else is an error or some bytes.
Decompressed(cap) ==
    IF intact THEN {IF src <= cap THEN src ELSE -1}
              ELSE {-1} \cup {m \in {1, cap} : m <= cap}

Lz4Init ==
    /\ pc = "compress" /\ src = 0 /\ intact = TRUE
    /\ block \in {Resized(n) : n \in OldLengths}
    /\ out \in {Resized(n) : n \in OldLengths}
    /\ max = 0 /\ tries = 0 /\ ret = 0
    /\ outcome = "none" /\ checks \in BOOLEAN

----------------------------------------------------------------------------
(* compress().                                                             *)

\* No length for the C side: the vector is left alone.
CompressRefuses(n) ==
    /\ pc = "compress"
    /\ AsI32(n) = 0 \/ Bound(AsI32(n)) = 0
    /\ src' = n
    /\ pc' = "done" /\ outcome' = "err"
    /\ intact' = FALSE
    /\ UNCHANGED <<block, out, loop, checks>>

\* The codec returned zero: the vector keeps the zeros it was resized with.
CompressFails(n) ==
    /\ pc = "compress"
    /\ AsI32(n) > 0 /\ Bound(n) > 0 /\ 0 \in Compressed(n, Bound(n))
    /\ src' = n
    /\ block' = Resized(Bound(n))
    /\ pc' = "done" /\ outcome' = "err"
    /\ intact' = FALSE
    /\ UNCHANGED <<out, loop, checks>>

Compress(n) ==
    /\ pc = "compress"
    /\ AsI32(n) > 0 /\ Bound(n) > 0
    /\ src' = n
    /\ \E c \in Compressed(n, Bound(n)) \ {0} :
          block' = SetLen(Resized(Bound(n)), c)
    /\ pc' = "de_compress" /\ outcome' = "ok"
    /\ UNCHANGED <<intact, out, loop, checks>>

\* The block is cut off or changed on its way to the reader.
Damage ==
    /\ pc = "de_compress" /\ intact
    /\ intact' = FALSE
    /\ \E n \in {0, block.len} : block' = SetLen(block, n)
    /\ UNCHANGED <<pc, src, out, loop, outcome, checks>>

----------------------------------------------------------------------------
(* de_compress().                                                          *)

DecompressRefuses ==
    /\ pc = "de_compress"
    /\ AsI32(block.len) = 0
    /\ pc' = "done" /\ outcome' = "err"
    /\ UNCHANGED <<src, block, intact, out, loop, checks>>

Panics == pc' = "done" /\ outcome' = "panic" /\ UNCHANGED <<max, tries>>

\* The first guess, then clear().
DecompressBegins ==
    /\ pc = "de_compress"
    /\ AsI32(block.len) > 0
    /\ IF checks /\ Overflows(block.len)
       THEN Panics /\ UNCHANGED out
       ELSE /\ pc' = "try" /\ outcome' = "none"
            /\ max' = Twice(block.len) /\ tries' = 0
            /\ out' = Resized(0)
    /\ ret' = 0
    /\ UNCHANGED <<src, block, intact, checks>>

Again(next) ==
    IF checks /\ Overflows(max)
    THEN Panics
    ELSE pc' = "try" /\ max' = next /\ tries' = tries + 1 /\ UNCHANGED outcome

\* Mutant: the guess grows by itself instead of doubling.
TryAdds ==
    /\ pc = "try"
    /\ tries < Tries /\ AsUsize(max) > 0
    /\ out' = Resized(max)
    /\ ret' \in Decompressed(max)
    /\ IF ret' > 0 THEN pc' = "end" /\ UNCHANGED <<max, tries, outcome>>
                   ELSE Again(IF max + block.len <= MaxInt THEN max + block.len ELSE -1)
    /\ UNCHANGED <<src, block, intact, checks>>

\* Mutant: the vector is resized for the first guess only.
TryResizesOnce ==
    /\ pc = "try"
    /\ tries < Tries /\ AsUsize(max) > 0
    /\ out' = IF tries = 0 THEN Resized(max) ELSE out
    /\ ret' \in Decompressed(max)
    /\ IF ret' > 0 THEN pc' = "end" /\ UNCHANGED <<max, tries, outcome>>
                   ELSE Again(Twice(max))
    /\ UNCHANGED <<src, block, intact, checks>>

\* One round: the vector is resized, and what did not fit is tried with twice
\* the room.
Try ==
    /\ pc = "try"
    /\ tries < Tries /\ AsUsize(max) > 0
    /\ out' = Resized(max)
    /\ ret' \in Decompressed(max)
    /\ IF ret' > 0 THEN pc' = "end" /\ UNCHANGED <<max, tries, outcome>>
                   ELSE Again(Twice(max))
    /\ UNCHANGED <<src, block, intact, checks>>

\* Ten rounds are over or the guess wrapped.
TriesEnd ==
    /\ pc = "try"
    /\ tries = Tries \/ AsUsize(max) = 0
    /\ pc' = "end"
    /\ UNCHANGED <<src, block, intact, out, loop, outcome, checks>>

\* shrink_to and set_len, or an error that leaves the vector as it is.
DecompressEnds ==
    /\ pc = "end"
    /\ pc' = "done"
    /\ IF AsUsize(ret) > 0 THEN out' = SetLen(out, ret) /\ outcome' = "ok"
                           ELSE outcome' = "err" /\ UNCHANGED out
    /\ UNCHANGED <<src, block, intact, loop, checks>>

de_compress ==
    DecompressRefuses \/ DecompressBegins \/ Try \/ TriesEnd \/ DecompressEnds

Lz4Next ==
    \/ \E n \in Lengths : CompressRefuses(n) \/ CompressFails(n) \/ Compress(n)
    \/ Damage \/ de_compress

Lz4Spec == Lz4Init /\ [][Lz4Next]_lz4Vars

----------------------------------------------------------------------------
(* Properties.                                                             *)

\* Types; a guess is an i32, and the loop holds a failed try only.
Lz4TypeOK ==
    /\ pc \in {"compress", "de_compress", "try", "end", "done"}
    /\ src \in Nat
    /\ block \in [len : Nat, init : Nat] /\ out \in [len : Nat, init : Nat]
    /\ intact \in BOOLEAN /\ checks \in BOOLEAN
    /\ max \in (-MaxInt - 1)..MaxInt
    /\ tries \in 0..Tries
    /\ ret \in -1..MaxInt
    /\ outcome \in {"none", "ok", "err", "panic"}

\* Some guess has room for n bytes and is an i32.
Fits(c, n) == \E k \in 1..Tries : n <= c * 2^k /\ c * 2^k <= MaxInt

\* An intact block is decompressed to the length of its source, and refused only
\* if every guess is too short or no i32: the loop neither misses a guess that
\* would do nor goes on with one that wrapped.
RestoresOriginal ==
    pc = "done" /\ intact =>
        IF Fits(block.len, src) THEN outcome = "ok" /\ out.len = src
                                ELSE outcome \in {"err", "panic"}

\* The unsafe set_len of both functions never makes bytes part of a vector that
\* nobody wrote, be the block intact or not: the codec was given exactly the
\* room the vector was resized to.
SetLenSound == block.len <= block.init /\ out.len <= out.init
============================================================================
