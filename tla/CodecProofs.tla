---------------------------- MODULE CodecProofs ----------------------------
(***************************************************************************)
(* Theorems about the two codecs behind FFI.  FfmpegSession, for any       *)
(* number of calls: nothing is freed twice, the caller's buffer never      *)
(* dangles, and w_ffmpeg_fini releases what is still pointed to.  Lz4, for *)
(* every width of the integers, every bound of the codec and every source: *)
(* the two unsafe set_len calls are sound, and an intact block is restored *)
(* whenever a guess of its length would do.                                *)
(***************************************************************************)
EXTENDS FfmpegSession, Lz4, TLAPS

----------------------------------------------------------------------------
(* ffmpeg.cpp: the heap of a session.                                      *)

\* Heaps of pointers and objects.
Heaps == [ctx : Objects \cup {Null}, ptr : [Fields -> Objects \cup {Null}],
          out : Objects \cup {Null}, live : SUBSET Objects,
          dropped : SUBSET Objects, missed : SUBSET Objects]

\* What the list of ctx needs of the heap of session s: a free that missed nothing so
\* far, pointers only below a ctx, and a ctx and an output buffer that are live.
Closable(g, s) ==
    /\ g \in Heaps /\ g.missed = {}
    /\ g.ctx \in {Null, <<"ctx", s>>}
    /\ g.ctx # Null => g.ctx \in g.live
    /\ \A f \in Fields : g.ptr[f] # Null => g.ctx # Null
    /\ g.out # Null => g.out \in g.live /\ g.out[1] \in {"out", "pixels"}

\* The heap between two calls: every pointer of the session holds its own live object,
\* and what of the session is live is pointed to, was dropped or is the pixels.
Sound(g, s) ==
    /\ Closable(g, s)
    /\ \A f \in Fields : g.ptr[f] # Null => g.ptr[f] = <<f, s>> /\ g.ptr[f] \in g.live
    /\ g.ctx # Null =>
          \A f \in Fields \ {"pixels"} :
              <<f, s>> \in g.live => g.ptr[f] # Null \/ <<f, s>> \in g.dropped

\* The kinds of objects are told apart by their names.
LEMMA FieldNames ==
  /\ \A f \in Fields : f \in Kinds /\ f # "ctx" /\ f # "out" /\ f # "planes"
  /\ {"packet", "context", "yuv_frame", "rgb_frame", "parser", "pixels"} \subseteq Fields
  /\ {"ctx", "out", "planes"} \subseteq Kinds /\ "ctx" # "out" /\ "pixels" # "ctx"
BY DEF Fields, Kinds

LEMMA NullIsNone == Null \notin Objects
BY HeapAssumption

\* Releasing a live object misses nothing.
LEMMA FreeLive ==
  ASSUME NEW g \in Heaps, NEW o \in g.live, g.missed = {}
  PROVE  LET r == Free(g, o) IN
         /\ r \in Heaps /\ r.live = g.live \ {o} /\ r.missed = {}
         /\ r.ctx = g.ctx /\ r.ptr = g.ptr /\ r.out = g.out /\ r.dropped = g.dropped
<1>1. Free(g, o) = [g EXCEPT !.live = g.live \ {o}, !.missed = g.missed \cup ({o} \ g.live)]
  BY DEF Free
<1>2. o \in Objects /\ g.missed \cup ({o} \ g.live) = {}
  BY DEF Heaps
<1>3. QED
  BY <1>1, <1>2 DEF Heaps

\* The list of a field releases what its pointer holds, and nothing else.
LEMMA ReleaseField ==
  ASSUME NEW s \in 0..MaxCalls, NEW g, Sound(g, s), NEW e \in Fields,
         e = "pixels" => g.out # g.ptr[e] \/ g.out = Null
  PROVE  LET r == Release(g, e) IN
         /\ Sound(r, s)
         /\ r.ctx = g.ctx /\ r.out = g.out /\ r.dropped = g.dropped
         /\ r.live \subseteq g.live
         /\ \A f \in Fields : r.ptr[f] = IF f = e THEN Null ELSE g.ptr[f]
<1> DEFINE r == Release(g, e)
           o == g.ptr[e]
<1>1. CASE o = Null
  <2>1. r = g
    BY <1>1, FieldNames DEF Release
  <2>2. QED
    BY <1>1, <2>1
<1>2. CASE o # Null
  <2>1. g \in Heaps /\ g.ctx # Null /\ o = <<e, s>> /\ o \in g.live /\ o \in Objects /\ g.missed = {}
    BY <1>2 DEF Sound, Closable, Heaps
  <2>2. r = [Free(g, o) EXCEPT !.ptr[e] = Null]
    <3>1. CASE e = "pixels"
      BY <1>2, <3>1, FieldNames DEF Release
    <3>2. CASE e # "pixels"
      BY <1>2, <2>1, <3>2, FieldNames DEF Release
    <3>3. QED
      BY <3>1, <3>2
  <2>3. /\ r.ctx = g.ctx /\ r.out = g.out /\ r.dropped = g.dropped
        /\ r.live = g.live \ {o} /\ r.missed = {}
        /\ r.ptr = [g.ptr EXCEPT ![e] = Null] /\ r \in Heaps
    BY <2>1, <2>2, FreeLive DEF Heaps
  <2>4. \A f \in Fields : r.ptr[f] = IF f = e THEN Null ELSE g.ptr[f]
    BY <2>1, <2>3 DEF Heaps
  <2> HIDE DEF r, o
  <2>5. Closable(r, s)
    <3>1. r.ctx # Null => r.ctx \in r.live
      BY <2>1, <2>3, FieldNames DEF Sound, Closable
    <3>2. r.out # Null => r.out \in r.live /\ r.out[1] \in {"out", "pixels"}
      <4>1. SUFFICES ASSUME g.out # Null PROVE g.out # o
        BY <2>3, <4>1 DEF Sound, Closable
      <4>2. CASE e = "pixels"
        BY <4>1, <4>2 DEF o
      <4>3. CASE e # "pixels"
        <5>1. o[1] = e /\ e # "out"
          BY <2>1, FieldNames
        <5>2. g.out[1] \in {"out", "pixels"}
          BY <4>1 DEF Sound, Closable
        <5>3. QED
          BY <4>3, <5>1, <5>2
      <4>4. QED
        BY <4>2, <4>3
    <3>3. QED
      BY <2>3, <2>4, <3>1, <3>2 DEF Sound, Closable
  <2>6. ASSUME NEW f \in Fields, r.ptr[f] # Null
        PROVE  r.ptr[f] = <<f, s>> /\ r.ptr[f] \in r.live
    BY <2>1, <2>3, <2>4, <2>6 DEF Sound
  <2>7. ASSUME NEW f \in Fields \ {"pixels"}, <<f, s>> \in r.live
        PROVE  r.ptr[f] # Null \/ <<f, s>> \in r.dropped
    BY <2>1, <2>3, <2>4, <2>7 DEF Sound
  <2>8. QED
    BY <2>3, <2>4, <2>5, <2>6, <2>7 DEF Sound, r
<1>3. QED
  BY <1>1, <1>2

\* The list of ctx ends the session, whatever its other pointers hold by then.
LEMMA ReleaseCtx ==
  ASSUME NEW s \in 0..MaxCalls, NEW g, Closable(g, s)
  PROVE  LET r == Release(g, "ctx") IN
         /\ Sound(r, s)
         /\ r.ctx = Null /\ r.out = g.out /\ r.dropped = g.dropped
         /\ r.live \subseteq g.live
         /\ g.ctx # Null => <<"ctx", s>> \notin r.live
<1> DEFINE r == Release(g, "ctx")
<1>1. CASE g.ctx = Null
  <2>1. r = g
    BY <1>1, FieldNames DEF Release
  <2>2. QED
    BY <1>1, <2>1 DEF Sound, Closable
<1>2. CASE g.ctx # Null
  <2>1. g \in Heaps /\ g.ctx = <<"ctx", s>> /\ g.ctx \in g.live /\ g.missed = {}
    BY <1>2 DEF Closable
  <2>2. r = [Free(g, g.ctx) EXCEPT !.ctx = Null, !.ptr = NoFields]
    BY <1>2, FieldNames DEF Release
  <2>3. NoFields \in [Fields -> Objects \cup {Null}] /\ \A f \in Fields : NoFields[f] = Null
    BY DEF NoFields
  <2>4. /\ r.ctx = Null /\ r.out = g.out /\ r.dropped = g.dropped
        /\ r.live = g.live \ {g.ctx} /\ r.missed = {}
        /\ r.ptr = NoFields /\ r \in Heaps
    <3> DEFINE k == Free(g, g.ctx)
    <3>1. /\ k \in Heaps /\ k.live = g.live \ {g.ctx} /\ k.missed = {}
          /\ k.out = g.out /\ k.dropped = g.dropped
      BY <2>1, FreeLive
    <3>2. r = [k EXCEPT !.ctx = Null, !.ptr = NoFields]
      BY <2>2
    <3> HIDE DEF k, r
    <3>3. QED
      BY <2>3, <3>1, <3>2 DEF Heaps
  <2> HIDE DEF r
  <2>5. r.out # Null => r.out \in r.live /\ r.out[1] \in {"out", "pixels"}
    BY <2>1, <2>4, FieldNames DEF Closable
  <2>6. QED
    BY <2>1, <2>3, <2>4, <2>5 DEF Sound, Closable, r
<1>3. QED
  BY <1>1, <1>2

\* The list of the output buffer, after which only the list of ctx may run: the pixels
\* of the session may be gone with it.
LEMMA ReleaseOut ==
  ASSUME NEW s \in 0..MaxCalls, NEW g, Sound(g, s)
  PROVE  LET r == Release(g, "out") IN
         /\ Closable(r, s)
         /\ r.ctx = g.ctx /\ r.out = Null /\ r.dropped = g.dropped
         /\ r.live \subseteq g.live
<1> DEFINE r == Release(g, "out")
<1>1. CASE g.out = Null
  <2>1. r = g
    BY <1>1, FieldNames DEF Release
  <2>2. QED
    BY <1>1, <2>1 DEF Sound
<1>2. CASE g.out # Null
  <2>1. g \in Heaps /\ g.out \in g.live /\ g.out[1] \in {"out", "pixels"} /\ g.missed = {}
    BY <1>2 DEF Sound, Closable
  <2>2. r = [Free(g, g.out) EXCEPT !.out = Null]
    BY <1>2, FieldNames DEF Release
  <2>3. /\ r.ctx = g.ctx /\ r.out = Null /\ r.dropped = g.dropped
        /\ r.live = g.live \ {g.out} /\ r.missed = {}
        /\ r.ptr = g.ptr /\ r \in Heaps
    BY <2>1, <2>2, FreeLive DEF Heaps
  <2> HIDE DEF r
  <2>4. r.ctx # Null => r.ctx \in r.live
    BY <2>1, <2>3, FieldNames DEF Sound, Closable
  <2>5. QED
    BY <2>3, <2>4 DEF Sound, Closable, r
<1>3. QED
  BY <1>1, <1>2

\* The four lists of to_cleanup().
LEMMA ReleaseFour ==
  ASSUME NEW s \in 0..MaxCalls, NEW g, Sound(g, s)
  PROVE  LET r == to_cleanup(g) IN
         /\ Sound(r, s)
         /\ r.ctx = g.ctx /\ r.out = g.out /\ r.dropped = g.dropped
         /\ r.live \subseteq g.live
         /\ \A f \in {"packet", "context", "yuv_frame", "rgb_frame"} : r.ptr[f] = Null
<1> DEFINE a == Release(g, "packet")
           b == Release(a, "context")
           c == Release(b, "yuv_frame")
           d == Release(c, "rgb_frame")
<1>1. /\ Sound(a, s) /\ a.ctx = g.ctx /\ a.out = g.out /\ a.dropped = g.dropped
      /\ a.live \subseteq g.live /\ a.ptr["packet"] = Null
  BY ReleaseField, FieldNames
<1> HIDE DEF a
<1>2. /\ Sound(b, s) /\ b.ctx = a.ctx /\ b.out = a.out /\ b.dropped = a.dropped
      /\ b.live \subseteq a.live
      /\ b.ptr["context"] = Null /\ b.ptr["packet"] = a.ptr["packet"]
  BY <1>1, ReleaseField, FieldNames
<1> HIDE DEF b
<1>3. /\ Sound(c, s) /\ c.ctx = b.ctx /\ c.out = b.out /\ c.dropped = b.dropped
      /\ c.live \subseteq b.live
      /\ c.ptr["yuv_frame"] = Null /\ c.ptr["packet"] = b.ptr["packet"]
      /\ c.ptr["context"] = b.ptr["context"]
  BY <1>2, ReleaseField, FieldNames
<1> HIDE DEF c
<1>4. /\ Sound(d, s) /\ d.ctx = c.ctx /\ d.out = c.out /\ d.dropped = c.dropped
      /\ d.live \subseteq c.live
      /\ d.ptr["rgb_frame"] = Null /\ d.ptr["packet"] = c.ptr["packet"]
      /\ d.ptr["context"] = c.ptr["context"] /\ d.ptr["yuv_frame"] = c.ptr["yuv_frame"]
  BY <1>3, ReleaseField, FieldNames
<1>5. to_cleanup(g) = d
  BY DEF to_cleanup, a, b, c
<1> HIDE DEF d
<1>6. QED
  BY <1>1, <1>2, <1>3, <1>4, <1>5

\* A failing call of w_ffmpeg_encode or w_ffmpeg_decode: the session is over.
LEMMA ReleaseAll ==
  ASSUME NEW s \in 0..MaxCalls, NEW g, Sound(g, s)
  PROVE  LET r == Release(Release(to_cleanup(g), "out"), "ctx") IN
         /\ Sound(r, s) /\ r.ctx = Null /\ r.dropped = g.dropped /\ r.live \subseteq g.live
<1> DEFINE a == to_cleanup(g)
           b == Release(a, "out")
           c == Release(b, "ctx")
<1>1. Sound(a, s) /\ a.dropped = g.dropped /\ a.live \subseteq g.live
  BY ReleaseFour
<1> HIDE DEF a
<1>2. Closable(b, s) /\ b.dropped = a.dropped /\ b.live \subseteq a.live
  BY <1>1, ReleaseOut
<1> HIDE DEF b
<1>3. Sound(c, s) /\ c.ctx = Null /\ c.dropped = b.dropped /\ c.live \subseteq b.live
  BY <1>2, ReleaseCtx
<1>4. QED
  BY <1>1, <1>2, <1>3 DEF a, b

\* w_ffmpeg_fini: of the session, what was dropped and the pixels are left.
LEMMA ReleaseSession ==
  ASSUME NEW s \in 0..MaxCalls, NEW g, Sound(g, s)
  PROVE  LET r == Release(Release(to_cleanup(g), "parser"), "ctx") IN
         /\ Sound(r, s) /\ r.ctx = Null /\ r.dropped = g.dropped /\ r.live \subseteq g.live
         /\ g.ctx # Null =>
               \A k \in Fields \cup {"ctx"} :
                   <<k, s>> \in r.live => k = "pixels" \/ <<k, s>> \in r.dropped
<1> DEFINE a == to_cleanup(g)
           b == Release(a, "parser")
           c == Release(b, "ctx")
<1>1. /\ Sound(a, s) /\ a.ctx = g.ctx /\ a.dropped = g.dropped /\ a.live \subseteq g.live
      /\ \A f \in {"packet", "context", "yuv_frame", "rgb_frame"} : a.ptr[f] = Null
  BY ReleaseFour
<1> HIDE DEF a
<1>2. /\ Sound(b, s) /\ b.ctx = a.ctx /\ b.dropped = a.dropped /\ b.live \subseteq a.live
      /\ \A f \in Fields : b.ptr[f] = IF f = "parser" THEN Null ELSE a.ptr[f]
  BY <1>1, ReleaseField, FieldNames
<1> HIDE DEF b
<1>3. /\ Sound(c, s) /\ c.ctx = Null /\ c.dropped = b.dropped /\ c.live \subseteq b.live
      /\ b.ctx # Null => <<"ctx", s>> \notin c.live
  <2>1. Closable(b, s)
    BY <1>2 DEF Sound
  <2>2. QED
    BY <2>1, ReleaseCtx
<1> HIDE DEF c
<1>4. ASSUME g.ctx # Null, NEW k \in Fields \cup {"ctx"}, <<k, s>> \in c.live
      PROVE  k = "pixels" \/ <<k, s>> \in c.dropped
  <2>1. SUFFICES ASSUME k \in Fields, k # "pixels" PROVE <<k, s>> \in b.dropped
    BY <1>1, <1>2, <1>3, <1>4
  <2>2. b.ptr[k] = Null
    BY <1>1, <1>2, <2>1 DEF Fields
  <2>3. QED
    BY <1>1, <1>2, <1>3, <1>4, <2>1, <2>2 DEF Sound
<1>5. QED
  BY <1>1, <1>2, <1>3, <1>4 DEF a, b, c

----------------------------------------------------------------------------
(* ffmpeg.cpp: the calls.                                                  *)

\* The inductive invariant: a sound heap of the current session, in which the objects
\* of earlier calls only are live, and a session that is over once it is finished.
SessionInv ==
    /\ calls \in 0..MaxCalls /\ session \in 0..calls
    /\ Sound(h, session)
    /\ \A o \in h.live : o[2] <= calls
    /\ finished \subseteq 0..session
    /\ h.ctx # Null => session \notin finished
    /\ FiniReleasesRest

LEMMA Numbers ==
  ASSUME SessionInv
  PROVE  /\ MaxCalls \in Nat /\ calls \in Nat /\ session \in Nat /\ session <= calls
         /\ calls <= MaxCalls /\ session \in 0..MaxCalls
BY HeapAssumption DEF SessionInv

\* A call that keeps to the session: what it adds to the heap are planes and output
\* buffers.
LEMMA SameSession ==
  ASSUME SessionInv, calls' \in {calls, calls + 1}, calls' <= MaxCalls,
         session' = session, finished' = finished, Sound(h', session),
         h'.ctx # Null => h.ctx # Null, h.dropped \subseteq h'.dropped,
         \A o \in h'.live : o \in h.live \/ o \in {"planes", "out"} \X {calls'}
  PROVE  SessionInv'
<1>1. calls' \in 0..MaxCalls /\ session' \in 0..calls' /\ calls <= calls'
  BY Numbers
<1>2. \A o \in h'.live : o[2] <= calls'
  <2>1. SUFFICES ASSUME NEW o \in h'.live PROVE o[2] <= calls'
    OBVIOUS
  <2>2. CASE o \in h.live
    <3>1. o[2] <= calls /\ o[2] \in Nat
      BY <2>2 DEF SessionInv, Sound, Closable, Heaps, Objects
    <3>2. QED
      BY <1>1, <3>1, Numbers
  <2>3. CASE o \in {"planes", "out"} \X {calls'}
    BY <1>1, <2>3
  <2>4. QED
    BY <2>2, <2>3
<1>3. FiniReleasesRest'
  BY FieldNames DEF SessionInv, FiniReleasesRest
<1>4. QED
  BY <1>1, <1>2, <1>3 DEF SessionInv

\* A failing call is one.
LEMMA FailStep ==
  ASSUME SessionInv, Call, NEW g, Fail(g), Sound(g, session), h.dropped \subseteq g.dropped,
         \A o \in g.live : o \in h.live \/ o \in {"planes", "out"} \X {calls + 1}
  PROVE  SessionInv'
<1>1. session \in 0..MaxCalls /\ calls' = calls + 1 /\ calls' <= MaxCalls
  BY Numbers DEF Call
<1>2. Sound(h', session) /\ h'.ctx = Null /\ h'.dropped = g.dropped /\ h'.live \subseteq g.live
  BY <1>1, ReleaseAll DEF Fail
<1>3. QED
  BY <1>1, <1>2, SameSession DEF Fail

\* Another output buffer, or none.
LEMMA OutSound ==
  ASSUME NEW s \in 0..MaxCalls, NEW g, Sound(g, s), NEW o,
         \/ o = Null
         \/ o \in g.live /\ o[1] \in {"out", "pixels"}
  PROVE  LET r == [g EXCEPT !.out = o] IN
         Sound(r, s) /\ r.live = g.live /\ r.dropped = g.dropped /\ r.ctx = g.ctx /\ r.ptr = g.ptr
<1> DEFINE r == [g EXCEPT !.out = o]
<1>1. g \in Heaps
  BY DEF Sound, Closable
<1>2. /\ r \in Heaps /\ r.live = g.live /\ r.dropped = g.dropped /\ r.ctx = g.ctx
      /\ r.ptr = g.ptr /\ r.missed = g.missed /\ r.out = o
  BY <1>1 DEF Heaps
<1> HIDE DEF r
<1>3. QED
  BY <1>2 DEF Sound, Closable, r

\* A further object of no pointer of the session.
LEMMA LiveSound ==
  ASSUME NEW s \in 0..MaxCalls, NEW g, Sound(g, s), NEW o \in Objects, o[1] \in {"planes", "out"}
  PROVE  LET r == [g EXCEPT !.live = g.live \cup {o}] IN
         /\ Sound(r, s) /\ r.live = g.live \cup {o} /\ r.dropped = g.dropped
         /\ r.ctx = g.ctx /\ r.ptr = g.ptr /\ r.out = g.out
<1> DEFINE r == [g EXCEPT !.live = g.live \cup {o}]
<1>1. g \in Heaps
  BY DEF Sound, Closable
<1>2. /\ r \in Heaps /\ r.live = g.live \cup {o} /\ r.dropped = g.dropped /\ r.ctx = g.ctx
      /\ r.ptr = g.ptr /\ r.missed = g.missed /\ r.out = g.out
  BY <1>1 DEF Heaps
<1> HIDE DEF r
<1>3. \A f \in Fields : <<f, s>> # o
  BY FieldNames
<1>4. QED
  BY <1>2, <1>3 DEF Sound, Closable, r

\* Draining the codec through a pointer set to nullptr.
LEMMA DropSound ==
  ASSUME NEW s \in 0..MaxCalls, NEW g, Sound(g, s), NEW f \in Fields, g.ptr[f] # Null
  PROVE  /\ Sound(Drop(g, f), s) /\ Drop(g, f).live = g.live
         /\ g.dropped \subseteq Drop(g, f).dropped /\ Drop(g, f).ctx = g.ctx
<1> DEFINE r == Drop(g, f)
<1>1. g \in Heaps /\ g.ptr[f] = <<f, s>> /\ g.ptr[f] \in Objects
  BY DEF Sound, Closable, Heaps
<1>2. r = [g EXCEPT !.ptr = [g.ptr EXCEPT ![f] = Null], !.dropped = g.dropped \cup {g.ptr[f]}]
  BY <1>1 DEF Drop
<1>3. /\ r \in Heaps /\ r.live = g.live /\ r.dropped = g.dropped \cup {<<f, s>>} /\ r.ctx = g.ctx
      /\ r.missed = g.missed /\ r.out = g.out
      /\ \A e \in Fields : r.ptr[e] = IF e = f THEN Null ELSE g.ptr[e]
  <2> DEFINE p == [g.ptr EXCEPT ![f] = Null]
             d == g.dropped \cup {g.ptr[f]}
  <2>1. /\ p \in [Fields -> Objects \cup {Null}] /\ d \in SUBSET Objects
        /\ \A e \in Fields : p[e] = IF e = f THEN Null ELSE g.ptr[e]
    BY <1>1 DEF Heaps
  <2>2. r = [g EXCEPT !.ptr = p, !.dropped = d] /\ d = g.dropped \cup {<<f, s>>}
    BY <1>1, <1>2
  <2> HIDE DEF p, d, r
  <2>3. QED
    BY <1>1, <2>1, <2>2 DEF Heaps
<1> HIDE DEF r
<1>4. Closable(r, s)
  BY <1>3 DEF Sound, Closable
<1>5. QED
  BY <1>3, <1>4 DEF Sound, r

\* The heaps of a call in which rgb2yuv, or calloc for the output, has succeeded.
LEMMA CallHeaps ==
  ASSUME SessionInv, calls < MaxCalls
  PROVE  /\ Sound(h, session) /\ Sound(Converted, session) /\ Sound(Calloc(h), session)
         /\ Sound(Calloc(Converted), session)
         /\ \A g \in {h, Converted, Calloc(h), Calloc(Converted)} :
               /\ g.ctx = h.ctx /\ g.ptr = h.ptr /\ g.dropped = h.dropped
               /\ \A o \in g.live : o \in h.live \/ o \in {"planes", "out"} \X {calls + 1}
<1> DEFINE p == <<"planes", calls + 1>>
           o == <<"out", calls + 1>>
<1>1. /\ session \in 0..MaxCalls /\ Sound(h, session)
      /\ p \in Objects /\ p[1] = "planes" /\ o \in Objects /\ o[1] = "out"
      /\ {p, o} \subseteq {"planes", "out"} \X {calls + 1}
  BY Numbers, FieldNames DEF SessionInv, Objects
<1> HIDE DEF p, o
<1>2. Converted = [h EXCEPT !.live = h.live \cup {p}]
  BY DEF Converted, p
<1>3. /\ Sound(Converted, session) /\ Converted.live = h.live \cup {p}
      /\ Converted.dropped = h.dropped /\ Converted.ctx = h.ctx /\ Converted.ptr = h.ptr
  BY <1>1, <1>2, LiveSound
<1>4. ASSUME NEW g, Sound(g, session)
      PROVE  /\ Sound(Calloc(g), session) /\ Calloc(g).live = g.live \cup {o}
             /\ Calloc(g).dropped = g.dropped /\ Calloc(g).ctx = g.ctx /\ Calloc(g).ptr = g.ptr
  <2> DEFINE k == [g EXCEPT !.live = g.live \cup {o}]
  <2>1. /\ Sound(k, session) /\ k.live = g.live \cup {o} /\ k.dropped = g.dropped
        /\ k.ctx = g.ctx /\ k.ptr = g.ptr
    BY <1>1, <1>4, LiveSound
  <2>2. Calloc(g) = [k EXCEPT !.out = o]
    BY <1>4 DEF Calloc, o, Sound, Closable, Heaps
  <2> HIDE DEF k
  <2>3. QED
    BY <1>1, <2>1, <2>2, OutSound
<1>5. QED
  BY <1>1, <1>3, <1>4

\* After some frames the output is the session's picture.
LEMMA ShownSound ==
  ASSUME NEW s \in 0..MaxCalls, NEW g, Sound(g, s), NEW r \in Shown(g)
  PROVE  Sound(r, s) /\ r.live = g.live /\ r.dropped = g.dropped /\ r.ctx = g.ctx /\ r.ptr = g.ptr
<1>1. CASE r = g
  BY <1>1
<1>2. CASE r = [g EXCEPT !.out = g.ptr["pixels"]]
  <2>1. \/ g.ptr["pixels"] = Null
        \/ g.ptr["pixels"] \in g.live /\ g.ptr["pixels"][1] \in {"out", "pixels"}
    BY FieldNames DEF Sound
  <2>2. QED
    BY <1>2, <2>1, OutSound
<1>3. QED
  BY <1>1, <1>2 DEF Shown

\* w_ffmpeg_encode, wherever it fails.
LEMMA EncodeInv == ASSUME SessionInv, EncodeStep PROVE SessionInv'
<1>1. Call /\ calls < MaxCalls /\ calls' = calls + 1 /\ calls' <= MaxCalls
  BY Numbers DEF EncodeStep, NoSession, ConvertFails, EncodeNoMemory, EncodeFrameFails,
                 EncodeCrashes, DrainFails, Encode, Call
<1>2. session \in 0..MaxCalls
  BY Numbers
<1>3. CASE NoSession \/ EncodeCrashes
  BY <1>1, <1>3, SameSession, CallHeaps DEF NoSession, EncodeCrashes
<1>4. CASE ConvertFails
  BY <1>1, <1>4, CallHeaps, FailStep DEF ConvertFails
<1>5. CASE EncodeNoMemory
  <2> DEFINE g == [Converted EXCEPT !.out = Null]
  <2>1. Sound(g, session) /\ g.live = Converted.live /\ g.dropped = Converted.dropped
    BY <1>1, <1>2, CallHeaps, OutSound
  <2>2. Fail(g)
    BY <1>5 DEF EncodeNoMemory
  <2> HIDE DEF g
  <2>3. QED
    BY <1>1, <2>1, <2>2, CallHeaps, FailStep
<1>6. CASE EncodeFrameFails
  BY <1>1, <1>6, CallHeaps, FailStep DEF EncodeFrameFails
<1>7. CASE DrainFails \/ Encode
  <2> DEFINE c == Calloc(Converted)
  <2>1. /\ Sound(c, session) /\ c.ptr = h.ptr /\ c.dropped = h.dropped /\ c.ctx = h.ctx
        /\ \A o \in c.live : o \in h.live \/ o \in {"planes", "out"} \X {calls + 1}
    BY <1>1, CallHeaps
  <2>2. "yuv_frame" \in Fields /\ h.ptr["yuv_frame"] # Null /\ Drained = Drop(c, "yuv_frame")
    BY <1>7, FieldNames DEF DrainFails, Encode, CanEncode, Drained
  <2> HIDE DEF c
  <2>3. /\ Sound(Drained, session) /\ Drained.live = c.live
        /\ c.dropped \subseteq Drained.dropped /\ Drained.ctx = c.ctx
    BY <1>2, <2>1, <2>2, DropSound
  <2>4. CASE DrainFails
    BY <1>1, <2>1, <2>3, <2>4, FailStep DEF DrainFails
  <2>5. CASE Encode
    BY <1>1, <2>1, <2>3, <2>5, SameSession DEF Encode
  <2>6. QED
    BY <1>7, <2>4, <2>5
<1>8. QED
  BY <1>3, <1>4, <1>5, <1>6, <1>7 DEF EncodeStep

\* w_ffmpeg_decode, wherever it fails.
LEMMA DecodeInv == ASSUME SessionInv, DecodeStep PROVE SessionInv'
<1>1. Call /\ calls < MaxCalls /\ calls' = calls + 1 /\ calls' <= MaxCalls
  BY Numbers DEF DecodeStep, DecodeNoMemory, DecodeCrashes, ParseFails, FlushFails, Decode, Call
<1>2. session \in 0..MaxCalls
  BY Numbers
<1>3. CASE DecodeCrashes
  BY <1>1, <1>3, SameSession, CallHeaps DEF DecodeCrashes
<1>4. CASE DecodeNoMemory
  <2> DEFINE g == [h EXCEPT !.out = Null]
  <2>1. Sound(g, session) /\ g.live = h.live /\ g.dropped = h.dropped
    BY <1>1, <1>2, CallHeaps, OutSound
  <2>2. Fail(g)
    BY <1>4 DEF DecodeNoMemory
  <2> HIDE DEF g
  <2>3. QED
    BY <1>1, <2>1, <2>2, FailStep
<1>5. CASE ParseFails \/ FlushFails \/ Decode
  <2>1. PICK g \in Shown(Calloc(h)) :
           \/ Fail(g)
           \/ CanDecode /\ Fail(Flushed(g))
           \/ CanDecode /\ h' = Flushed(g) /\ UNCHANGED <<session, finished>>
    BY <1>5 DEF ParseFails, FlushFails, Decode
  <2>2. /\ Sound(g, session) /\ g.ptr = h.ptr /\ g.dropped = h.dropped /\ g.ctx = h.ctx
        /\ \A o \in g.live : o \in h.live \/ o \in {"planes", "out"} \X {calls + 1}
    BY <1>1, <1>2, CallHeaps, ShownSound
  <2>3. CASE Fail(g)
    BY <1>1, <2>2, <2>3, FailStep
  <2>4. ASSUME CanDecode
        PROVE  /\ Sound(Flushed(g), session) /\ Flushed(g).live = g.live
               /\ g.dropped \subseteq Flushed(g).dropped /\ Flushed(g).ctx = g.ctx
    BY <1>2, <2>2, <2>4, FieldNames, DropSound DEF CanDecode, Flushed
  <2>5. CASE CanDecode /\ Fail(Flushed(g))
    BY <1>1, <2>2, <2>4, <2>5, FailStep
  <2>6. CASE CanDecode /\ h' = Flushed(g) /\ UNCHANGED <<session, finished>>
    BY <1>1, <2>2, <2>4, <2>6, SameSession
  <2>7. QED
    BY <2>1, <2>3, <2>5, <2>6
<1>6. QED
  BY <1>3, <1>4, <1>5 DEF DecodeStep

\* The objects of a call are allocated after ctx, and only of this call.
LEMMA AllocationOrder ==
  ASSUME NEW n \in 0..Len(Allocations)
  PROVE  LET done == {Allocations[i] : i \in 1..n} IN
         done \subseteq Fields \cup {"ctx"} /\ (done # {} => "ctx" \in done)
<1> DEFINE done == {Allocations[i] : i \in 1..n}
<1>1. /\ Len(Allocations) \in Nat /\ Allocations[1] = "ctx"
      /\ \A i \in 1..Len(Allocations) : Allocations[i] \in Fields \cup {"ctx"}
  <2>1. CASE type = "W_ENCODE"
    <3>1. Allocations = <<"ctx", "packet", "yuv_frame", "context">>
      BY <2>1 DEF Allocations
    <3>2. QED
      BY <3>1 DEF Fields
  <2>2. CASE type # "W_ENCODE"
    <3>1. Allocations =
             <<"ctx", "packet", "yuv_frame", "context", "rgb_frame", "pixels", "parser">>
      BY <2>2 DEF Allocations
    <3>2. QED
      BY <3>1 DEF Fields
  <2>3. QED
    BY <2>1, <2>2
<1> HIDE DEF Allocations
<1>2. ASSUME NEW i \in 1..n PROVE i \in 1..Len(Allocations) /\ 1 \in 1..n
  BY <1>1
<1>3. QED
  BY <1>1, <1>2

\* A session that was opened so far is sound, and shares nothing with what was there.
LEMMA OpenedSound ==
  ASSUME SessionInv, calls < MaxCalls, NEW n \in 0..Len(Allocations)
  PROVE  LET g == Opened(n) IN
         /\ Sound(g, calls + 1) /\ g.dropped = h.dropped
         /\ \A o \in g.live : o \in h.live \/ o[2] = calls + 1
         /\ g.out # Null => g.out # g.ptr["pixels"]
<1> DEFINE s == calls + 1
           done == {Allocations[i] : i \in 1..n}
           g == Opened(n)
           c == IF "ctx" \in done THEN <<"ctx", s>> ELSE Null
           p == [f \in Fields |-> IF f \in done THEN <<f, s>> ELSE Null]
           l == h.live \cup (done \X {s})
<1>1. /\ h \in Heaps /\ s \in 0..MaxCalls
      /\ \A o \in h.live : o[2] # s
    <2>1. h \in Heaps /\ s \in 0..MaxCalls
      BY Numbers DEF SessionInv, Sound, Closable
    <2>2. ASSUME NEW o \in h.live PROVE o[2] # s
      <3>1. o[2] <= calls /\ o[2] \in Nat
        BY <2>1 DEF SessionInv, Heaps, Objects
      <3>2. QED
        BY <3>1, Numbers
    <2>3. QED
      BY <2>1, <2>2
<1>2. done \subseteq Fields \cup {"ctx"} /\ (done # {} => "ctx" \in done)
  BY AllocationOrder
<1>3. g = [h EXCEPT !.ctx = c, !.ptr = p, !.live = l]
  BY DEF Opened
<1> HIDE DEF done, s
<1>4. /\ l \in SUBSET Objects /\ c \in Objects \cup {Null}
      /\ p \in [Fields -> Objects \cup {Null}]
      /\ \A f \in Fields : p[f] = IF f \in done THEN <<f, s>> ELSE Null
  <2>1. \A k \in Fields \cup {"ctx"} : <<k, s>> \in Objects
    BY <1>1, FieldNames DEF Objects
  <2>2. QED
    BY <1>1, <1>2, <2>1 DEF Heaps
<1>5. \A k : <<k, s>> \in l <=> k \in done
  <2>1. \A k : <<k, s>> \notin h.live
    BY <1>1
  <2>2. QED
    BY <2>1
<1>6. (h.out # Null => h.out \in l /\ h.out \in h.live /\ h.out[1] \in {"out", "pixels"})
      /\ h.missed = {} /\ \A o \in l : o \in h.live \/ o[2] = s
  BY DEF SessionInv, Sound, Closable
<1> HIDE DEF c, p, l, g
<1>7. /\ g \in Heaps /\ g.ctx = c /\ g.ptr = p /\ g.live = l
      /\ g.out = h.out /\ g.dropped = h.dropped /\ g.missed = h.missed
  BY <1>1, <1>3, <1>4 DEF Heaps
<1>8. /\ c \in {Null, <<"ctx", s>>} /\ (c # Null <=> "ctx" \in done)
  BY <1>1, FieldNames, NullIsNone DEF c, Objects
<1>9. \A f \in Fields : p[f] # Null => p[f] = <<f, s>> /\ f \in done
  BY <1>4
<1>10. Closable(g, s)
  BY <1>2, <1>5, <1>6, <1>7, <1>8, <1>9 DEF Closable
<1>11. \A f \in Fields : f \in done => p[f] # Null
  BY <1>1, <1>4, FieldNames, NullIsNone DEF Objects
<1>12. Sound(g, s)
  BY <1>5, <1>7, <1>9, <1>10, <1>11 DEF Sound
<1>13. g.out # Null => g.out # g.ptr["pixels"]
  BY <1>1, <1>6, <1>7, <1>9, FieldNames
<1>14. QED
  BY <1>6, <1>7, <1>12, <1>13 DEF g, s

\* A failed w_ffmpeg_init.
LEMMA InitCleanupSound ==
  ASSUME NEW s \in 0..MaxCalls, NEW g, Sound(g, s), g.out # Null => g.out # g.ptr["pixels"]
  PROVE  LET r == InitCleanup(g) IN
         Sound(r, s) /\ r.dropped = g.dropped /\ r.live \subseteq g.live
<1> DEFINE a == Release(g, "context")
           b == Release(a, "rgb_frame")
           c == Release(b, "pixels")
           d == Release(c, "parser")
           e == Release(d, "ctx")
           k == Release(e, "packet")
           m == Release(k, "yuv_frame")
<1>1. /\ Sound(a, s) /\ a.dropped = g.dropped /\ a.live \subseteq g.live
      /\ a.out = g.out /\ a.ptr["pixels"] = g.ptr["pixels"]
  BY ReleaseField, FieldNames
<1> HIDE DEF a
<1>2. /\ Sound(b, s) /\ b.dropped = a.dropped /\ b.live \subseteq a.live
      /\ b.out = a.out /\ b.ptr["pixels"] = a.ptr["pixels"]
  BY <1>1, ReleaseField, FieldNames
<1> HIDE DEF b
<1>3. Sound(c, s) /\ c.dropped = b.dropped /\ c.live \subseteq b.live
  BY <1>1, <1>2, ReleaseField, FieldNames
<1> HIDE DEF c
<1>4. Sound(d, s) /\ d.dropped = c.dropped /\ d.live \subseteq c.live
  BY <1>3, ReleaseField, FieldNames
<1> HIDE DEF d
<1>5. Sound(e, s) /\ e.dropped = d.dropped /\ e.live \subseteq d.live
  <2>1. Closable(d, s)
    BY <1>4 DEF Sound
  <2>2. QED
    BY <2>1, ReleaseCtx
<1> HIDE DEF e
<1>6. Sound(k, s) /\ k.dropped = e.dropped /\ k.live \subseteq e.live
  BY <1>5, ReleaseField, FieldNames
<1> HIDE DEF k
<1>7. Sound(m, s) /\ m.dropped = k.dropped /\ m.live \subseteq k.live
  BY <1>6, ReleaseField, FieldNames
<1>8. InitCleanup(g) = m
  BY DEF InitCleanup, CoderCleanup, a, b, c, d, e, k
<1> HIDE DEF m
<1>9. QED
  BY <1>1, <1>2, <1>3, <1>4, <1>5, <1>6, <1>7, <1>8

\* w_ffmpeg_init, on top of whatever session was there.
LEMMA InitInv == ASSUME SessionInv, InitFails \/ InitSucceeds PROVE SessionInv'
<1>1. calls < MaxCalls /\ calls' = calls + 1 /\ session' = calls + 1 /\ finished' = finished
  BY DEF InitFails, InitSucceeds, Call
<1>2. PICK n \in 0..Len(Allocations) : h' = Opened(n) \/ h' = InitCleanup(Opened(n))
  <2>1. Len(Allocations) \in 0..Len(Allocations)
    BY DEF Allocations
  <2>2. QED
    BY <2>1 DEF InitFails, InitSucceeds
<1>3. /\ calls' \in 0..MaxCalls /\ session' \in 0..calls' /\ calls + 1 \in 0..MaxCalls
      /\ session' \in Nat /\ finished \subseteq 0..session' /\ session' \notin finished
  BY <1>1, Numbers DEF SessionInv
<1>4. /\ Sound(h', calls + 1) /\ h'.dropped = h.dropped
      /\ \A o \in h'.live : o \in h.live \/ o[2] = calls + 1
  BY <1>1, <1>2, <1>3, OpenedSound, InitCleanupSound
<1>5. \A o \in h'.live : o[2] <= calls'
  <2>1. SUFFICES ASSUME NEW o \in h'.live PROVE o[2] <= calls'
    OBVIOUS
  <2>2. CASE o \in h.live
    <3>1. o[2] <= calls /\ o[2] \in Nat
      BY <2>2 DEF SessionInv, Sound, Closable, Heaps, Objects
    <3>2. QED
      BY <1>1, <3>1, Numbers
  <2>3. CASE o[2] = calls + 1
    BY <1>1, <1>3, <2>3
  <2>4. QED
    BY <1>4, <2>2, <2>3
<1>6. FiniReleasesRest'
  <2>1. SUFFICES ASSUME NEW s \in finished, NEW k \in Fields \cup {"ctx"}, <<k, s>> \in h'.live
                 PROVE  k = "pixels" \/ <<k, s>> \in h'.dropped
    BY <1>1 DEF FiniReleasesRest
  <2>2. s # calls + 1
    BY <1>1, <1>3
  <2>3. <<k, s>> \in h.live
    BY <1>4, <2>1, <2>2
  <2>4. QED
    BY <1>4, <2>3 DEF SessionInv, FiniReleasesRest
<1>7. QED
  BY <1>1, <1>3, <1>4, <1>5, <1>6 DEF SessionInv

\* w_ffmpeg_fini.
LEMMA FiniInv == ASSUME SessionInv, Fini PROVE SessionInv'
<1>1. /\ calls < MaxCalls /\ calls' = calls + 1 /\ calls' \in 0..MaxCalls
      /\ session' = session /\ session \in 0..calls' /\ session \in 0..MaxCalls
  BY Numbers DEF Fini, FiniWith, Call
<1>2. /\ Sound(h', session) /\ h'.ctx = Null /\ h'.dropped = h.dropped /\ h'.live \subseteq h.live
      /\ h.ctx # Null =>
            \A k \in Fields \cup {"ctx"} :
                <<k, session>> \in h'.live => k = "pixels" \/ <<k, session>> \in h'.dropped
  BY <1>1, ReleaseSession DEF Fini, FiniWith, SessionInv
<1>3. finished' = IF h.ctx # Null THEN finished \cup {session} ELSE finished
  BY DEF Fini, FiniWith
<1>4. \A o \in h'.live : o[2] <= calls'
  <2>1. SUFFICES ASSUME NEW o \in h.live PROVE o[2] <= calls'
    BY <1>2
  <2>2. o[2] <= calls /\ o[2] \in Nat
    BY DEF SessionInv, Sound, Closable, Heaps, Objects
  <2>3. QED
    BY <1>1, <2>2, Numbers
<1>5. FiniReleasesRest'
  BY <1>2, <1>3 DEF SessionInv, FiniReleasesRest
<1>6. finished' \subseteq 0..session
  BY <1>3, Numbers DEF SessionInv
<1>7. QED
  BY <1>1, <1>2, <1>4, <1>5, <1>6 DEF SessionInv

\* The caller's own steps.
LEMMA CallerInv == ASSUME SessionInv, NewBuffer \/ SetType \/ UNCHANGED vars PROVE SessionInv'
<1>1. calls' = calls /\ calls <= MaxCalls /\ session' = session /\ finished' = finished
  BY Numbers DEF NewBuffer, SetType, vars
<1>2. /\ Sound(h', session) /\ h'.ctx = h.ctx /\ h'.dropped = h.dropped /\ h'.live = h.live
  <2>1. CASE h' = [h EXCEPT !.out = Null]
    BY <2>1, Numbers, OutSound DEF SessionInv
  <2>2. CASE h' = h
    BY <2>2 DEF SessionInv
  <2>3. QED
    BY <2>1, <2>2 DEF NewBuffer, SetType, vars
<1>3. QED
  BY <1>1, <1>2, SameSession

LEMMA SessionAlways == Spec => []SessionInv
<1>1. Init => SessionInv
  <2> SUFFICES ASSUME Init PROVE SessionInv
    OBVIOUS
  <2>1. /\ h.ctx = Null /\ h.ptr = NoFields /\ h.out = Null /\ h.live = {} /\ h.missed = {}
        /\ h \in Heaps /\ \A f \in Fields : h.ptr[f] = Null
    BY DEF Init, NoFields, Heaps
  <2>2. calls \in 0..MaxCalls /\ session \in 0..calls /\ finished = {}
    BY HeapAssumption DEF Init
  <2>3. QED
    BY <2>1, <2>2 DEF SessionInv, Sound, Closable, FiniReleasesRest
<1>2. SessionInv /\ [Next]_vars => SessionInv'
  BY InitInv, EncodeInv, DecodeInv, FiniInv, CallerInv DEF Next
<1>3. QED
  BY <1>1, <1>2, PTL DEF Spec

\* For any number of calls in any order, each failing anywhere: the cleanup lists of
\* ffmpeg.cpp free nothing twice.
THEOREM NothingFreedTwice == Spec => []FreedOnce
<1>1. SessionInv => FreedOnce
  BY DEF SessionInv, Sound, Closable, FreedOnce
<1>2. QED
  BY <1>1, SessionAlways, PTL

\* The pointer in the caller's CBuffer is null or live after every call, also when it
\* is the picture of a session that has ended since.
THEOREM OutputStaysLive == Spec => []OutputNeverDangles
<1>1. SessionInv => OutputNeverDangles
  BY DEF SessionInv, Sound, Closable, OutputNeverDangles
<1>2. QED
  BY <1>1, SessionAlways, PTL

\* Of a session that w_ffmpeg_fini ended only the pixels, and the frame or packet that
\* draining dropped, are left on the heap.
THEOREM FiniLeavesOnlyDropped == Spec => []FiniReleasesRest
<1>1. SessionInv => FiniReleasesRest
  BY DEF SessionInv
<1>2. QED
  BY <1>1, SessionAlways, PTL

----------------------------------------------------------------------------
(* lz4.rs: lengths that set_len is given.                                  *)

\* What LZ4_compressBound returns is a length that fits an i32.
LEMMA BoundIsLength ==
  ASSUME NEW n \in Nat
  PROVE  Bound(n) \in Nat
<1>1. n \div Ratio \in Nat
  BY Lz4Assumption
<1> QED
  BY <1>1, Lz4Assumption DEF Bound

\* Doubling a positive i32 gives an i32, wrapped or not.
LEMMA TwiceIsI32 ==
  ASSUME NEW i \in 1..MaxInt
  PROVE  Twice(i) \in (-MaxInt - 1)..MaxInt
  BY Lz4Assumption DEF Twice

\* The variables of compress() and de_compress() keep their types; in particular
\* the guess stays within an i32 although it is doubled up to ten times.
THEOREM Lz4TypeCorrect == Lz4Spec => []Lz4TypeOK
<1>1. Lz4Init => Lz4TypeOK
  BY Lz4Assumption DEF Lz4Init, Lz4TypeOK, Resized
<1>2. Lz4TypeOK /\ [Lz4Next]_lz4Vars => Lz4TypeOK'
  <2> SUFFICES ASSUME Lz4TypeOK, [Lz4Next]_lz4Vars PROVE Lz4TypeOK'
    OBVIOUS
  <2>0. MaxInt \in Nat /\ Tries \in Nat /\ Lengths \subseteq Nat
    BY Lz4Assumption
  <2>1. ASSUME NEW n \in Lengths, CompressRefuses(n) PROVE Lz4TypeOK'
    BY <2>0, <2>1 DEF Lz4TypeOK, CompressRefuses, loop
  <2>2. ASSUME NEW n \in Lengths, CompressFails(n) PROVE Lz4TypeOK'
    <3>1. Bound(n) \in Nat
      BY <2>0, BoundIsLength
    <3> QED
      BY <2>0, <2>2, <3>1 DEF Lz4TypeOK, CompressFails, Resized, loop
  <2>3. ASSUME NEW n \in Lengths, Compress(n) PROVE Lz4TypeOK'
    <3>1. Bound(n) \in Nat
      BY <2>0, BoundIsLength
    <3> QED
      BY <2>0, <2>3, <3>1 DEF Lz4TypeOK, Compress, Compressed, Resized, SetLen, loop
  <2>4. CASE Damage
    <3>1. PICK n \in {0, block.len} : block' = SetLen(block, n)
      BY <2>4 DEF Damage
    <3>2. block' \in [len : Nat, init : Nat]
      BY <3>1 DEF Lz4TypeOK, SetLen
    <3>3. intact' \in BOOLEAN
      BY <2>4, Zenon DEF Damage
    <3>4. UNCHANGED <<pc, src, out, max, tries, ret, outcome, checks>>
      BY <2>4 DEF Damage, loop
    <3> QED
      BY <3>2, <3>3, <3>4 DEF Lz4TypeOK
  <2>5. CASE DecompressRefuses
    BY <2>5 DEF Lz4TypeOK, DecompressRefuses, loop
  <2>6. CASE DecompressBegins
    <3>1. block.len \in 1..MaxInt
      BY <2>0, <2>6 DEF Lz4TypeOK, DecompressBegins, AsI32
    <3>2. Twice(block.len) \in (-MaxInt - 1)..MaxInt
      BY <3>1, TwiceIsI32
    <3> QED
      BY <2>0, <2>6, <3>2 DEF Lz4TypeOK, DecompressBegins, Panics, Resized
  <2>7. CASE Try
    <3>1. max \in 1..MaxInt
      BY <2>0, <2>7 DEF Lz4TypeOK, Try, AsUsize
    <3>2. Twice(max) \in (-MaxInt - 1)..MaxInt
      BY <3>1, TwiceIsI32
    <3>3. ret' \in -1..MaxInt
      BY <2>0, <2>7, <3>1 DEF Lz4TypeOK, Try, Decompressed
    <3> QED
      BY <2>0, <2>7, <3>1, <3>2, <3>3 DEF Lz4TypeOK, Try, Again, Panics, Resized
  <2>8. CASE TriesEnd
    BY <2>8 DEF Lz4TypeOK, TriesEnd, loop
  <2>9. CASE DecompressEnds
    BY <2>0, <2>9 DEF Lz4TypeOK, DecompressEnds, AsUsize, SetLen, loop
  <2>10. CASE UNCHANGED lz4Vars
    BY <2>10 DEF Lz4TypeOK, lz4Vars
  <2> QED
    BY <2>1, <2>2, <2>3, <2>4, <2>5, <2>6, <2>7, <2>8, <2>9, <2>10
    DEF Lz4Next, de_compress
<1> QED
  BY <1>1, <1>2, PTL DEF Lz4Spec

\* SetLenSound, and what makes it inductive: when the loop of de_compress is left
\* the codec's result is within the vector as it was resized last.
SetLenInv ==
    /\ SetLenSound
    /\ pc \in {"try", "end"} => ret <= out.init

\* Neither set_len makes unwritten bytes part of a vector, whatever the block.
THEOREM SetLenIsSound == Lz4Spec => []SetLenSound
<1>1. Lz4Init => SetLenInv
  <2> SUFFICES ASSUME Lz4Init PROVE SetLenInv
    OBVIOUS
  <2>1. PICK m \in OldLengths : block = Resized(m)
    BY DEF Lz4Init
  <2>2. PICK n \in OldLengths : out = Resized(n)
    BY DEF Lz4Init
  <2>3. m \in Nat /\ n \in Nat
    BY Lz4Assumption
  <2>4. SetLenSound
    BY <2>1, <2>2, <2>3 DEF SetLenSound, Resized
  <2> QED
    BY <2>4 DEF Lz4Init, SetLenInv
<1>2. Lz4TypeOK /\ SetLenInv /\ [Lz4Next]_lz4Vars => SetLenInv'
  <2> SUFFICES ASSUME Lz4TypeOK, SetLenInv, [Lz4Next]_lz4Vars PROVE SetLenInv'
    OBVIOUS
  <2> USE DEF SetLenInv, SetLenSound
  <2>0. MaxInt \in Nat /\ Lengths \subseteq Nat
    BY Lz4Assumption
  <2>1. ASSUME NEW n \in Lengths, CompressRefuses(n) PROVE SetLenInv'
    BY <2>1 DEF CompressRefuses, loop
  <2>2. ASSUME NEW n \in Lengths, CompressFails(n) PROVE SetLenInv'
    <3>1. Bound(n) \in Nat
      BY <2>0, BoundIsLength
    <3> QED
      BY <2>2, <3>1 DEF CompressFails, Resized, loop
  <2>3. ASSUME NEW n \in Lengths, Compress(n) PROVE SetLenInv'
    <3>1. Bound(n) \in Nat
      BY <2>0, BoundIsLength
    <3> QED
      BY <2>3, <3>1 DEF Compress, Compressed, Resized, SetLen, loop
  <2>4. CASE Damage
    BY <2>4 DEF Lz4TypeOK, Damage, SetLen, loop
  <2>5. CASE DecompressRefuses
    BY <2>5 DEF DecompressRefuses, loop
  <2>6. CASE DecompressBegins
    BY <2>6 DEF Lz4TypeOK, DecompressBegins, Panics, Resized
  <2>7. CASE Try
    <3>1. max \in 1..MaxInt
      BY <2>0, <2>7 DEF Lz4TypeOK, Try, AsUsize
    <3>2. ret' <= max
      BY <2>0, <2>7, <3>1 DEF Lz4TypeOK, Try, Decompressed
    <3> QED
      BY <2>0, <2>7, <3>1, <3>2 DEF Try, Resized
  <2>8. CASE TriesEnd
    BY <2>8 DEF TriesEnd, loop
  <2>9. CASE DecompressEnds
    BY <2>0, <2>9 DEF Lz4TypeOK, DecompressEnds, AsUsize, SetLen, loop
  <2>10. CASE UNCHANGED lz4Vars
    BY <2>10 DEF lz4Vars
  <2> QED
    BY <2>1, <2>2, <2>3, <2>4, <2>5, <2>6, <2>7, <2>8, <2>9, <2>10
    DEF Lz4Next, de_compress
<1>3. SetLenInv => SetLenSound
  BY DEF SetLenInv
<1> QED
  BY <1>1, <1>2, <1>3, Lz4TypeCorrect, PTL DEF Lz4Spec

----------------------------------------------------------------------------
(* lz4.rs: the guesses.                                                    *)

\* The room that the k-th try gives the original.
Guess(k) == block.len * 2^k

\* Every try doubles the room.
LEMMA GuessDoubles ==
  ASSUME block.len \in Nat
  PROVE  /\ Guess(1) = 2 * block.len
         /\ \A k \in 1..(Tries + 1) : Guess(k) \in Nat /\ Guess(k + 1) = 2 * Guess(k)
         /\ \A k \in 1..(Tries + 1) : \A j \in 1..k : Guess(j) <= Guess(k)
<1> DEFINE p(k) == 2^k
<1>0. Tries \in Nat
  BY Lz4Assumption
<1>1. /\ p(1) = 2 /\ \A k \in 1..(Tries + 1) : p(k) \in Nat /\ p(k + 1) = 2 * p(k)
      /\ \A k \in 1..(Tries + 1) : \A j \in 1..k : p(j) <= p(k)
  BY PowersAssumption
<1>2. \A k : Guess(k) = block.len * p(k)
  BY DEF Guess
<1> HIDE DEF p
<1>3. \A a, b \in Nat : a <= b => block.len * a <= block.len * b
  OBVIOUS
<1>4. \A a \in Nat : block.len * a \in Nat /\ block.len * (2 * a) = 2 * (block.len * a)
  OBVIOUS
<1>5. \A k \in 1..(Tries + 1) : \A j \in 1..k : j \in 1..(Tries + 1)
  BY <1>0
<1>6. QED
  BY <1>1, <1>2, <1>3, <1>4, <1>5

\* The quotient and the remainder.
LEMMA Division ==
  ASSUME NEW a \in Nat, NEW d \in Nat \ {0}
  PROVE  a \div d \in Nat /\ a % d \in 0..(d - 1) /\ a = d * (a \div d) + (a % d)
OBVIOUS

\* LZ4_compressBound of a source that it accepts is an i32.
LEMMA BoundIsI32 ==
  ASSUME NEW n \in Nat, Bound(n) > 0
  PROVE  Bound(n) <= MaxInt
<1>1. n <= MaxInput /\ Bound(n) = n + (n \div Ratio) + Slack
  BY Lz4Assumption DEF Bound
<1>2. n \div Ratio <= MaxInput \div Ratio
  <2>1. /\ n \div Ratio \in Nat /\ MaxInput \div Ratio \in Nat
        /\ n = Ratio * (n \div Ratio) + (n % Ratio) /\ n % Ratio \in 0..(Ratio - 1)
        /\ MaxInput = Ratio * (MaxInput \div Ratio) + (MaxInput % Ratio)
        /\ MaxInput % Ratio \in 0..(Ratio - 1)
    BY Lz4Assumption, Division
  <2>2. ASSUME NEW q \in Nat, NEW m \in Nat, NEW r \in 0..(Ratio - 1), NEW t \in 0..(Ratio - 1),
               Ratio * q + r <= Ratio * m + t
        PROVE  q <= m
    <3>1. SUFFICES ASSUME q >= m + 1 PROVE FALSE
      OBVIOUS
    <3>2. Ratio * q >= Ratio * (m + 1)
      BY <3>1, Lz4Assumption
    <3>3. Ratio * (m + 1) = Ratio * m + Ratio
      BY Lz4Assumption
    <3>4. Ratio * q \in Nat /\ Ratio * m \in Nat
      BY Lz4Assumption
    <3>5. QED
      BY <2>2, <3>2, <3>3, <3>4, Lz4Assumption
  <2>3. QED
    BY <1>1, <2>1, <2>2, Lz4Assumption
<1>3. n \div Ratio \in Nat /\ MaxInput \div Ratio \in Nat
  BY Lz4Assumption, Division
<1> DEFINE a == n \div Ratio
           b == MaxInput \div Ratio
<1>4. a \in Nat /\ b \in Nat /\ a <= b /\ Bound(n) = n + a + Slack /\ MaxInput + b + Slack <= MaxInt
  BY <1>1, <1>2, <1>3, Lz4Assumption
<1> HIDE DEF a, b
<1>5. QED
  BY <1>1, <1>4, Lz4Assumption

\* What RestoresOriginal needs while an intact block is under way: the block is an
\* i32's worth of bytes and the source is not empty; in the loop the guess is
\* Guess(tries + 1) unless that was too large, and every earlier guess was too short;
\* and the loop is left with the source or without a guess that would do.
RoundInv ==
    /\ intact /\ pc # "compress" => block.len \in 1..MaxInt /\ src \in Nat \ {0}
    /\ intact /\ pc = "try" =>
          /\ ret <= 0
          /\ \A k \in 1..tries : Guess(k) < src
          /\ IF Guess(tries + 1) <= MaxInt THEN max = Guess(tries + 1) ELSE max <= 0
    /\ intact /\ pc = "end" =>
          IF Fits(block.len, src) THEN ret = src ELSE ret <= 0
    /\ RestoresOriginal

\* No guess would do when all before j were too short and j is no i32.
LEMMA NoGuessFits ==
  ASSUME Lz4TypeOK, NEW j \in 1..(Tries + 1), \A k \in 1..(j - 1) : Guess(k) < src,
         j <= Tries => Guess(j) > MaxInt
  PROVE  ~Fits(block.len, src)
<1>1. block.len \in Nat /\ src \in Nat /\ MaxInt \in Nat /\ Tries \in Nat
  BY Lz4Assumption DEF Lz4TypeOK
<1>2. ASSUME NEW k \in 1..Tries, src <= Guess(k), Guess(k) <= MaxInt PROVE FALSE
  <2>1. k \in 1..(Tries + 1) /\ Guess(k) \in Nat
    BY <1>1, GuessDoubles
  <2>2. CASE k < j
    <3>1. k \in 1..(j - 1)
      BY <1>1, <2>2
    <3>2. QED
      BY <1>1, <1>2, <2>1, <3>1
  <2>3. CASE j <= k
    <3>1. j \in 1..k /\ j \in 1..(Tries + 1)
      BY <1>1, <2>3
    <3>2. Guess(j) <= Guess(k) /\ Guess(j) \in Nat
      BY <1>1, <2>1, <3>1, GuessDoubles
    <3>3. j <= Tries
      BY <1>1, <2>3
    <3>4. QED
      BY <1>1, <1>2, <2>1, <3>2, <3>3
  <2>4. QED
    BY <1>1, <2>2, <2>3
<1>3. QED
  BY <1>2 DEF Fits, Guess

\* One step of compress() or de_compress().
LEMMA RoundStep ==
  ASSUME Lz4TypeOK, Lz4TypeOK', RoundInv, [Lz4Next]_lz4Vars
  PROVE  RoundInv'
<1>0. /\ MaxInt \in Nat /\ Tries \in Nat /\ block.len \in Nat /\ src \in Nat
      /\ max \in (-MaxInt - 1)..MaxInt /\ tries \in 0..Tries /\ ret \in -1..MaxInt
  BY Lz4Assumption DEF Lz4TypeOK
<1>1. ASSUME ~intact' PROVE RoundInv'
  BY <1>1 DEF RoundInv, RestoresOriginal
<1>2. ASSUME NEW n \in Lengths, CompressRefuses(n) \/ CompressFails(n) PROVE RoundInv'
  BY <1>1, <1>2 DEF CompressRefuses, CompressFails
<1>3. ASSUME NEW n \in Lengths, Compress(n), intact' PROVE RoundInv'
  <2>1. n \in Nat \ {0} /\ Bound(n) > 0 /\ src' = n /\ pc' = "de_compress"
    BY <1>3, Lz4Assumption DEF Compress, AsI32
  <2>2. PICK c \in Compressed(n, Bound(n)) \ {0} : block' = SetLen(Resized(Bound(n)), c)
    BY <1>3 DEF Compress
  <2>3. Bound(n) \in Nat /\ Bound(n) <= MaxInt
    BY <2>1, BoundIsI32, BoundIsLength
  <2>4. c \in 1..MaxInt /\ block'.len = c
    BY <1>0, <2>2, <2>3 DEF Compressed, SetLen
  <2>5. QED
    BY <2>1, <2>4 DEF RoundInv, RestoresOriginal
<1>4. CASE Damage
  BY <1>1, <1>4 DEF Damage
<1>5. ASSUME DecompressRefuses, intact' PROVE RoundInv'
  BY <1>0, <1>5 DEF RoundInv, DecompressRefuses, AsI32
<1>6. ASSUME DecompressBegins, intact' PROVE RoundInv'
  <2>1. /\ intact /\ UNCHANGED <<src, block, intact>> /\ ret' = 0
        /\ block.len \in 1..MaxInt /\ src \in Nat \ {0}
    BY <1>6 DEF RoundInv, DecompressBegins
  <2>2. Guess(1) = 2 * block.len /\ 1 \in 1..(Tries + 1)
    BY <1>0, GuessDoubles
  <2>3. CASE checks /\ Overflows(block.len)
    <3>1. pc' = "done" /\ outcome' = "panic"
      BY <1>6, <2>3 DEF DecompressBegins, Panics
    <3>2. ~Fits(block.len, src)
      <4>1. Guess(1) > MaxInt /\ \A k \in 1..(1 - 1) : Guess(k) < src
        BY <1>0, <2>2, <2>3 DEF Overflows
      <4>2. QED
        BY <2>2, <4>1, NoGuessFits
    <3>3. QED
      BY <2>1, <3>1, <3>2 DEF RoundInv, RestoresOriginal
  <2>4. CASE ~(checks /\ Overflows(block.len))
    <3>1. pc' = "try" /\ max' = Twice(block.len) /\ tries' = 0
      BY <1>6, <2>4 DEF DecompressBegins
    <3>2. IF Guess(1) <= MaxInt THEN max' = Guess(1) ELSE max' <= 0
      BY <1>0, <2>1, <2>2, <3>1 DEF Twice
    <3>3. Guess(tries + 1)' = Guess(1) /\ 1..tries' = {}
      BY <2>1, <3>1 DEF Guess
    <3>4. QED
      BY <2>1, <3>1, <3>2, <3>3 DEF RoundInv, RestoresOriginal
  <2>5. QED
    BY <2>3, <2>4
<1>7. ASSUME Try, intact' PROVE RoundInv'
  <2> DEFINE j == tries + 1
  <2>1. /\ pc = "try" /\ tries < Tries /\ max > 0 /\ intact /\ UNCHANGED <<src, block, intact>>
    <3>1. pc = "try" /\ tries < Tries /\ AsUsize(max) > 0 /\ UNCHANGED <<src, block, intact>>
      BY <1>7 DEF Try
    <3>2. intact
      BY <1>7, <3>1, Zenon
    <3>3. QED
      BY <1>0, <3>1, <3>2 DEF AsUsize
  <2>2. /\ block.len \in 1..MaxInt /\ src \in Nat \ {0}
        /\ \A k \in 1..tries : Guess(k) < src
        /\ max = Guess(j) /\ Guess(j) <= MaxInt
    BY <1>0, <2>1 DEF RoundInv
  <2>3. ret' = IF src <= max THEN src ELSE -1
    BY <1>7, <2>1 DEF Try, Decompressed
  <2>4. j \in 1..Tries /\ j \in 1..(Tries + 1) /\ j + 1 \in 1..(Tries + 1)
    BY <1>0, <2>1
  <2>5. Guess(j + 1) = 2 * Guess(j) /\ Guess(j) \in Nat
    BY <1>0, <2>4, GuessDoubles
  <2>6. CASE src <= max
    <3>1. pc' = "end" /\ ret' = src
      BY <1>7, <2>2, <2>3, <2>6 DEF Try
    <3>2. Fits(block.len, src)
      BY <2>2, <2>4, <2>6 DEF Fits, Guess
    <3>3. QED
      BY <2>1, <2>2, <3>1, <3>2 DEF RoundInv, RestoresOriginal
  <2>7. CASE ~(src <= max)
    <3>1. ret' = -1 /\ Again(Twice(max))
      BY <1>7, <2>3, <2>7 DEF Try
    <3>2. \A k \in 1..j : Guess(k) < src
      <4>1. \A k \in 1..j : k \in 1..tries \/ k = j
        BY <1>0
      <4>2. QED
        BY <1>0, <2>2, <2>5, <2>7, <4>1
    <3>3. CASE checks /\ Overflows(max)
      <4>1. pc' = "done" /\ outcome' = "panic"
        BY <3>1, <3>3 DEF Again, Panics
      <4>2. Guess(j + 1) > MaxInt
        BY <1>0, <2>2, <2>5, <3>3 DEF Overflows
      <4>3. (j + 1) - 1 = j
        BY <2>4
      <4>4. ~Fits(block.len, src)
        BY <2>4, <3>2, <4>2, <4>3, NoGuessFits
      <4>5. QED
        BY <2>1, <2>2, <4>1, <4>4 DEF RoundInv, RestoresOriginal
    <3>4. CASE ~(checks /\ Overflows(max))
      <4>1. pc' = "try" /\ max' = Twice(max) /\ tries' = j
        BY <3>1, <3>4 DEF Again
      <4>2. IF Guess(j + 1) <= MaxInt THEN max' = Guess(j + 1) ELSE max' <= 0
        BY <1>0, <2>2, <2>5, <4>1 DEF Twice
      <4>3. Guess(tries + 1)' = Guess(j + 1) /\ \A k : Guess(k)' = Guess(k)
        BY <2>1, <4>1 DEF Guess
      <4> HIDE DEF j
      <4>4. QED
        BY <2>1, <2>2, <3>1, <3>2, <4>1, <4>2, <4>3 DEF RoundInv, RestoresOriginal
    <3>5. QED
      BY <3>3, <3>4
  <2>8. QED
    BY <2>6, <2>7
<1>8. ASSUME TriesEnd, intact' PROVE RoundInv'
  <2> DEFINE j == tries + 1
  <2>1. /\ pc = "try" /\ pc' = "end" /\ intact /\ UNCHANGED <<src, block, ret>>
        /\ tries = Tries \/ max <= 0
    BY <1>0, <1>8 DEF TriesEnd, AsUsize, loop
  <2>2. /\ block.len \in 1..MaxInt /\ src \in Nat \ {0} /\ ret <= 0
        /\ \A k \in 1..tries : Guess(k) < src
        /\ Guess(j) <= MaxInt => max = Guess(j)
    BY <2>1 DEF RoundInv
  <2>3. j \in 1..(Tries + 1) /\ j - 1 = tries
    BY <1>0
  <2>4. j <= Tries => Guess(j) > MaxInt
    <3>1. SUFFICES ASSUME j <= Tries, Guess(j) <= MaxInt PROVE FALSE
      BY <1>0, <2>3, GuessDoubles
    <3>2. max <= 0 /\ max = Guess(j)
      BY <1>0, <2>1, <2>2, <3>1
    <3>3. Guess(1) = 2 * block.len /\ Guess(1) <= Guess(j) /\ Guess(j) \in Nat
      BY <1>0, <2>3, GuessDoubles
    <3>4. QED
      BY <2>2, <3>2, <3>3
  <2>5. ~Fits(block.len, src)
    BY <2>2, <2>3, <2>4, NoGuessFits
  <2>6. QED
    BY <2>1, <2>2, <2>5 DEF RoundInv, RestoresOriginal
<1>9. ASSUME DecompressEnds, intact' PROVE RoundInv'
  <2>1. /\ pc = "end" /\ pc' = "done" /\ intact /\ UNCHANGED <<src, block>>
    BY <1>9 DEF DecompressEnds
  <2>2. /\ block.len \in 1..MaxInt /\ src \in Nat \ {0}
        /\ IF Fits(block.len, src) THEN ret = src ELSE ret <= 0
    BY <2>1 DEF RoundInv
  <2>3. CASE Fits(block.len, src)
    <3>1. outcome' = "ok" /\ out'.len = src
      BY <1>9, <2>2, <2>3 DEF DecompressEnds, AsUsize, SetLen
    <3>2. QED
      BY <2>1, <2>2, <2>3, <3>1 DEF RoundInv, RestoresOriginal
  <2>4. CASE ~Fits(block.len, src)
    <3>1. outcome' = "err"
      BY <1>0, <1>9, <2>2, <2>4 DEF DecompressEnds, AsUsize
    <3>2. QED
      BY <2>1, <2>2, <2>4, <3>1 DEF RoundInv, RestoresOriginal
  <2>5. QED
    BY <2>3, <2>4
<1>10. CASE UNCHANGED lz4Vars
  BY <1>10 DEF lz4Vars, RoundInv, RestoresOriginal, Guess, Fits
<1>11. QED
  BY <1>1, <1>2, <1>3, <1>4, <1>5, <1>6, <1>7, <1>8, <1>9, <1>10 DEF Lz4Next, de_compress

\* For every source, limit of the integers and number of tries: de_compress restores
\* the length of the source if some doubled guess is long enough and an i32, and fails
\* otherwise.
THEOREM IntactBlockIsRestored == Lz4Spec => []RestoresOriginal
<1>1. Lz4Init => RoundInv
  BY DEF Lz4Init, RoundInv, RestoresOriginal
<1>2. Lz4TypeOK /\ Lz4TypeOK' /\ RoundInv /\ [Lz4Next]_lz4Vars => RoundInv'
  BY RoundStep
<1>3. RoundInv => RestoresOriginal
  BY DEF RoundInv
<1>4. QED
  BY <1>1, <1>2, <1>3, Lz4TypeCorrect, PTL DEF Lz4Spec
============================================================================
