--------------------------- MODULE FfmpegSession ---------------------------
(***************************************************************************)
(* The ffmpeg session of wolf/sys/media/ffmpeg.cpp behind media/ffmpeg.rs: *)
(* w_ffmpeg_init, _encode, _decode and _fini on one w_ffmpeg_opt, called   *)
(* in any order, with every library call that may fail.  The model keeps   *)
(* the heap: which object every pointer holds, which objects are live, and *)
(* what the cleanup lists release in which order.  Pictures are left out.  *)
(***************************************************************************)
EXTENDS Naturals, Sequences

CONSTANTS
    Null,      \* nullptr
    MaxCalls   \* bound: calls of the four functions

Actions == {"W_ENCODE", "W_DECODE"}

\* The pointers of w_ffmpeg_ctx_t, and the pixels that rgb_frame->data points to.
Fields == {"packet", "context", "yuv_frame", "rgb_frame", "parser", "pixels"}

\* What is on the heap: one object of a kind for every session or call.
Kinds   == Fields \cup {"ctx", "planes", "out"}
Objects == Kinds \X (0..MaxCalls)

ASSUME HeapAssumption == MaxCalls \in Nat /\ Null \notin Objects

VARIABLES
    h,         \* the pointers, the live objects, those whose pointer was cleared
               \* without a release, and what was freed when not live
    type,      \* p_ffmpeg_opt->type
    session,   \* the call that opened the last session
    calls,     \* calls so far
    result,    \* what the last call returned
    finished,  \* the sessions that w_ffmpeg_fini ended
    crashed    \* a null pointer was dereferenced: the process is gone

vars == <<h, type, session, calls, result, finished, crashed>>

NoFields == [f \in Fields |-> Null]

Init ==
    /\ h = [ctx |-> Null, ptr |-> NoFields, out |-> Null,
            live |-> {}, dropped |-> {}, missed |-> {}]
    /\ type \in Actions
    /\ session = 0
    /\ calls = 0
    /\ result = "none"
    /\ finished = {}
    /\ crashed = FALSE

----------------------------------------------------------------------------
(* The heap.                                                               *)

\* The codec is drained through a pointer set to nullptr: its object is dropped.
Drop(g, f) == [g EXCEPT !.ptr[f] = Null, !.dropped = @ \cup {g.ptr[f]}]

Free(g, o) == [g EXCEPT !.live = @ \ {o}, !.missed = @ \cup ({o} \ g.live)]

\* Mutant: the pointers of the output buffer and of ctx are not cleared.
ReleaseKeeps(g, e) ==
    CASE e = "ctx" /\ g.ctx # Null -> Free(g, g.ctx)
      [] e = "out" /\ g.out # Null -> Free(g, g.out)
      [] e \in Fields /\ g.ctx # Null /\ g.ptr[e] # Null ->
            [Free(g, g.ptr[e]) EXCEPT !.ptr[e] = Null]
      [] OTHER -> g

\* One list of cleanup(): its last pointer is released and cleared when every
\* pointer of the list is set.  The lists of a field begin with ctx; the lists of
\* the pixels and of the output buffer do not.
Release(g, e) ==
    CASE e = "ctx" /\ g.ctx # Null ->
            [Free(g, g.ctx) EXCEPT !.ctx = Null, !.ptr = NoFields]
      [] e = "out" /\ g.out # Null ->
            [Free(g, g.out) EXCEPT !.out = Null]
      [] e = "pixels" /\ g.ptr["pixels"] # Null ->
            [Free(g, g.ptr["pixels"]) EXCEPT !.ptr["pixels"] = Null]
      [] e \in Fields \ {"pixels"} /\ g.ctx # Null /\ g.ptr[e] # Null ->
            [Free(g, g.ptr[e]) EXCEPT !.ptr[e] = Null]
      [] OTHER -> g

\* cleanup() goes through the lists in the order of its array.  to_cleanup() fills
\* the first four.
to_cleanup(g) ==
    Release(Release(Release(Release(g, "packet"), "context"), "yuv_frame"), "rgb_frame")

\* *p_data_out = calloc(..): whatever the caller's pointer held is forgotten.
Calloc(g) ==
    LET o == <<"out", calls + 1>> IN
    [g EXCEPT !.out = o, !.live = @ \cup {o}]

Call ==
    /\ ~crashed
    /\ calls < MaxCalls
    /\ calls' = calls + 1

----------------------------------------------------------------------------
(* w_ffmpeg_init.                                                          *)

\* What w_ffmpeg_init and w_ffmpeg_init_encoder or _decoder allocate, in order.
Allocations ==
    IF type = "W_ENCODE"
    THEN <<"ctx", "packet", "yuv_frame", "context">>
    ELSE <<"ctx", "packet", "yuv_frame", "context", "rgb_frame", "pixels", "parser">>

\* The session that the call opens, with the first n of them in their pointers.
Opened(n) ==
    LET done == {Allocations[i] : i \in 1..n} IN
    [h EXCEPT !.ctx  = IF "ctx" \in done THEN <<"ctx", calls + 1>> ELSE Null,
              !.ptr  = [f \in Fields |-> IF f \in done THEN <<f, calls + 1>> ELSE Null],
              !.live = @ \cup (done \X {calls + 1})]

\* The lists of init_encoder or init_decoder.  That of the pixels points to a local
\* variable of init_decoder whose scope ends with the same return; it is taken to be
\* still readable, as it is unless the compiler gives its place to another.
CoderCleanup(g) ==
    Release(Release(Release(Release(g, "context"), "rgb_frame"), "pixels"), "parser")

\* They run first, then those of w_ffmpeg_init, the list of ctx before the ones that
\* need ctx.
InitCleanup(g) ==
    Release(Release(Release(CoderCleanup(g), "ctx"), "packet"), "yuv_frame")

\* An allocation, the search for the codec, an option, av_image_fill_arrays or
\* avcodec_open2 fails after the first n allocations.
InitFails ==
    /\ Call
    /\ \E n \in 0..Len(Allocations) : h' = InitCleanup(Opened(n))
    /\ result' = "err"
    /\ session' = calls + 1
    /\ UNCHANGED <<type, finished, crashed>>

InitSucceeds ==
    /\ Call
    /\ h' = Opened(Len(Allocations))
    /\ result' = "ok"
    /\ session' = calls + 1
    /\ UNCHANGED <<type, finished, crashed>>

\* The caller asks for the other action before it opens the next session.
SetType ==
    /\ ~crashed
    /\ h.ctx = Null
    /\ type' \in Actions \ {type}
    /\ UNCHANGED <<h, session, calls, result, finished, crashed>>

----------------------------------------------------------------------------
(* w_ffmpeg_encode and w_ffmpeg_decode.                                    *)

Fail(g) ==
    /\ h' = Release(Release(to_cleanup(g), "out"), "ctx")
    /\ result' = "err"
    /\ UNCHANGED <<type, session, finished, crashed>>

\* p_ffmpeg_opt->ctx is null: -1 before anything is touched.
NoSession ==
    /\ Call
    /\ h.ctx = Null
    /\ result' = "err"
    /\ UNCHANGED <<h, type, session, finished, crashed>>

\* rgb2yuv refuses a null frame, and may fail to convert; the output buffer is
\* still the one the caller passed in.
ConvertFails ==
    /\ Call
    /\ h.ctx # Null
    /\ Fail(h)

\* rgb2yuv succeeded; the planes it allocated are yuv_frame's and stay.
Converted ==
    [h EXCEPT !.live = @ \cup {<<"planes", calls + 1>>}]

EncodeNoMemory ==
    /\ Call
    /\ h.ctx # Null /\ h.ptr["yuv_frame"] # Null
    /\ Fail([Converted EXCEPT !.out = Null])

\* avcodec_send_frame or avcodec_receive_packet fails for the picture; a context
\* that was opened for decoding always fails.
EncodeFrameFails ==
    /\ Call
    /\ h.ctx # Null /\ h.ptr["yuv_frame"] # Null /\ h.ptr["packet"] # Null
    /\ Fail(Calloc(Converted))

\* w_ffmpeg_encode_frame clears packet->data first: a null packet is dereferenced.
EncodeCrashes ==
    /\ Call
    /\ h.ctx # Null /\ h.ptr["yuv_frame"] # Null /\ h.ptr["packet"] = Null
    /\ crashed' = TRUE
    /\ UNCHANGED <<h, type, session, result, finished>>

\* The encoder is drained with a null frame: the session's own frame is dropped.
Drained == Drop(Calloc(Converted), "yuv_frame")

CanEncode ==
    /\ h.ctx # Null
    /\ type = "W_ENCODE"
    /\ h.ptr["yuv_frame"] # Null

DrainFails ==
    /\ Call
    /\ CanEncode
    /\ Fail(Drained)

Encode ==
    /\ Call
    /\ CanEncode
    /\ h' = Drained
    /\ result' = "ok"
    /\ UNCHANGED <<type, session, finished, crashed>>

DecodeNoMemory ==
    /\ Call
    /\ h.ctx # Null
    /\ Fail([h EXCEPT !.out = Null])

\* av_parser_parse2 gets the address of a field of a null packet, or a null parser.
DecodeCrashes ==
    /\ Call
    /\ h.ctx # Null
    /\ h.ptr["packet"] = Null \/ h.ptr["parser"] = Null
    /\ crashed' = TRUE
    /\ UNCHANGED <<h, type, session, result, finished>>

CanDecode == h.ctx # Null /\ h.ptr["packet"] # Null /\ h.ptr["parser"] # Null

\* After some frames the output is rgb_frame->data and the calloc is forgotten.
Shown(g) == {g, [g EXCEPT !.out = g.ptr["pixels"]]}

ParseFails ==
    /\ Call
    /\ CanDecode
    /\ \E g \in Shown(Calloc(h)) : Fail(g)

\* The decoder is flushed with a null packet: the session's own packet is dropped.
Flushed(g) == Drop(g, "packet")

FlushFails ==
    /\ Call
    /\ CanDecode
    /\ \E g \in Shown(Calloc(h)) : Fail(Flushed(g))

\* The result is the flush's, also when a frame before it failed.
Decode ==
    /\ Call
    /\ CanDecode
    /\ \E g \in Shown(Calloc(h)) : h' = Flushed(g)
    /\ result' = "ok"
    /\ UNCHANGED <<type, session, finished, crashed>>

----------------------------------------------------------------------------
(* w_ffmpeg_fini, and the caller.                                          *)

FiniWith(g) ==
    /\ Call
    /\ h' = g
    /\ finished' = IF h.ctx # Null THEN finished \cup {session} ELSE finished
    /\ UNCHANGED <<type, session, result, crashed>>

\* Mutant: ctx is released before the parser, whose list then finds it null.
FiniCtxFirst == FiniWith(Release(Release(to_cleanup(h), "ctx"), "parser"))

\* Mutant: the pixels of the decoded picture go with the session.
FiniFreesPixels ==
    FiniWith(Release(Release(to_cleanup(Release(h, "pixels")), "parser"), "ctx"))

Fini == FiniWith(Release(Release(to_cleanup(h), "parser"), "ctx"))

\* The caller passes a fresh CBuffer to the next call.
NewBuffer ==
    /\ ~crashed
    /\ h.out # Null
    /\ h' = [h EXCEPT !.out = Null]
    /\ UNCHANGED <<type, session, calls, result, finished, crashed>>

EncodeStep ==
    \/ NoSession \/ ConvertFails \/ EncodeNoMemory \/ EncodeFrameFails
    \/ EncodeCrashes \/ DrainFails \/ Encode

DecodeStep ==
    \/ DecodeNoMemory \/ DecodeCrashes \/ ParseFails \/ FlushFails \/ Decode

Next ==
    \/ InitFails \/ InitSucceeds \/ SetType
    \/ EncodeStep \/ DecodeStep
    \/ Fini \/ NewBuffer

Spec == Init /\ [][Next]_vars

----------------------------------------------------------------------------
(* Properties.                                                             *)

\* Types; a pointer of the session holds an object of its own kind.
TypeOK ==
    /\ h.ctx \in ({"ctx"} \X (1..MaxCalls)) \cup {Null}
    /\ \A f \in Fields : h.ptr[f] \in ({f} \X (1..MaxCalls)) \cup {Null}
    /\ h.out \in ({"out", "pixels"} \X (1..MaxCalls)) \cup {Null}
    /\ h.live \subseteq Objects
    /\ h.dropped \subseteq Objects
    /\ h.missed \subseteq Objects
    /\ type \in Actions
    /\ session \in 0..MaxCalls /\ calls \in 0..MaxCalls
    /\ result \in {"none", "ok", "err"}
    /\ finished \subseteq 1..MaxCalls
    /\ crashed \in BOOLEAN

\* Whatever the order of the calls and wherever one fails, the cleanup lists free
\* no object twice: also when the caller passes in the buffer of an earlier call
\* and the failing call frees it, and when that buffer is the decoder's picture.
FreedOnce == h.missed = {}

\* The pointer in the caller's CBuffer never dangles: a failing call that frees it
\* clears it, and w_ffmpeg_fini leaves it alone although a decoded picture lies in
\* the pixels of the session's own frame.
OutputNeverDangles == h.out # Null => h.out \in h.live

\* w_ffmpeg_fini releases everything the session still points to: of its objects
\* only the frame or packet that draining dropped, and the pixels of the picture,
\* which the caller may hold, outlive it.
FiniReleasesRest ==
    \A s \in finished : \A k \in Fields \cup {"ctx"} :
        <<k, s>> \in h.live => k = "pixels" \/ <<k, s>> \in h.dropped
============================================================================
