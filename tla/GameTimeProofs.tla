--------------------------- MODULE GameTimeProofs ---------------------------
(***************************************************************************)
(* Theorems about GameTime for any units, deltas, targets and counter      *)
(* width, and any number of calls.                                         *)
(***************************************************************************)
EXTENDS GameTime, TLAPS

\* A remainder by a positive number is a natural number below it.
LEMMA ModRange ==
  ASSUME NEW n \in Int, NEW m \in Nat \ {0}
  PROVE  n % m \in 0..(m - 1)
OBVIOUS

\* The clamp and the snap of tick_fn add less than Eps to a measured delta.
LEMMA UsedBound ==
  ASSUME TypeOK, NEW d \in Deltas
  PROVE  /\ Clamped(d) \in Nat /\ Clamped(d) <= d
         /\ Snapped(Clamped(d)) \in Nat
         /\ Snapped(Clamped(d)) <= d + (Eps - 1)
<1>1. d \in Nat /\ MaxDelta \in Nat /\ Eps \in Nat \ {0} /\ target \in Nat
  BY GameTimeAssumption DEF TypeOK
<1>2. Clamped(d) \in Nat /\ Clamped(d) <= d
  BY <1>1 DEF Clamped
<1>3. ASSUME NEW c \in Nat PROVE Snapped(c) \in Nat /\ Snapped(c) <= c + (Eps - 1)
  BY <1>1, <1>3 DEF Snapped, Abs
<1>4. QED
  BY <1>1, <1>2, <1>3

\* The clock's fields keep their types, and less than a second stays on the
\* counter of the frame rate between two calls, however long a delta was.
THEOREM TypeCorrect == Spec => []TypeOK
<1> USE DEF clock, rate, mode, history, window
<1>1. Init => TypeOK
  <2> SUFFICES ASSUME Init PROVE TypeOK
    OBVIOUS
  <2>1. 0 \in 0..(FrameMod - 1) /\ 0 < Sec /\ DefaultTarget \in Targets
    BY GameTimeAssumption
  <2>2. fixed \in BOOLEAN /\ steady \in BOOLEAN /\ pc = "rest"
    BY DEF Init
  <2>3. 0 \in Nat /\ 0 \in Int
    OBVIOUS
  <2>4. QED
    BY <2>1, <2>2, <2>3, Zenon DEF Init, TypeOK
<1>2. TypeOK /\ [Next]_vars => TypeOK'
  <2> SUFFICES ASSUME TypeOK, [Next]_vars PROVE TypeOK'
    OBVIOUS
  <2>0. /\ Sec \in Nat \ {0} /\ FrameMod \in Nat \ {0} /\ target \in Nat \ {0}
        /\ Deltas \subseteq Nat /\ frameCount \in Int
    BY GameTimeAssumption DEF TypeOK
  <2>1. ASSUME NEW d \in Deltas, TickFixed(d) PROVE TypeOK'
    BY <2>0, <2>1, UsedBound DEF TypeOK, TickFixed, Measure, Credit
  <2>2. ASSUME NEW d \in Deltas, TickVariable(d) PROVE TypeOK'
    <3>1. (frameCount + 1) % FrameMod \in 0..(FrameMod - 1)
      BY <2>0, ModRange
    <3>2. /\ elapsed' \in Nat /\ total' \in Nat /\ leftOver' = 0
          /\ fed' \in Nat /\ skew' \in Int /\ dropped' \in Nat /\ ticks' \in Nat
          /\ secondsCounter' \in Nat /\ rounds' \in Nat /\ shown' \in Nat
      BY <2>0, <2>2, UsedBound DEF TypeOK, TickVariable, Measure, Credit
    <3>3. /\ frameCount' \in 0..(FrameMod - 1) /\ lastFrameCount' \in 0..(FrameMod - 1)
          /\ pc' = "track" /\ steady' = FALSE
          /\ UNCHANGED <<fps, framesThisSec, fixed, target, reported>>
      BY <2>2, <3>1 DEF TypeOK, TickVariable, Measure
    <3>4. QED
      BY <3>2, <3>3 DEF TypeOK
  <2>3. CASE Frame
    <3>1. (frameCount + 1) % FrameMod \in 0..(FrameMod - 1)
      BY <2>0, ModRange
    <3>2. QED
      BY <2>0, <2>3, <3>1 DEF TypeOK, Frame
  <2>4. CASE FramesDone
    BY <2>4 DEF TypeOK, FramesDone
  <2>5. CASE Track
    <3>1. secondsCounter % Sec \in 0..(Sec - 1)
      BY <2>0, ModRange DEF TypeOK
    <3>2. NewFrames \in 0..(FrameMod - 1)
      <4>1. (frameCount - lastFrameCount) % FrameMod \in 0..(FrameMod - 1)
        BY <2>0, ModRange DEF TypeOK
      <4>2. framesThisSec + ((frameCount - lastFrameCount) % FrameMod) \in Int
        BY <2>0, <4>1 DEF TypeOK
      <4>3. QED
        BY <2>0, <4>2, ModRange DEF NewFrames
    <3>3. CASE secondsCounter >= Sec
      <4>1. /\ fps' = NewFrames /\ framesThisSec' = 0
            /\ secondsCounter' = secondsCounter % Sec
            /\ reported' = shown /\ shown' = 0 /\ rounds' = 0 /\ steady' = TRUE
            /\ pc' = "rest" /\ UNCHANGED <<clock, mode, history>>
        BY <2>0, <2>5, <3>3 DEF TypeOK, Track, TrackWith
      <4>2. 0 \in 0..(FrameMod - 1)
        BY <2>0
      <4>3. secondsCounter' \in Nat /\ secondsCounter' < Sec
        BY <2>0, <3>1, <4>1
      <4>4. QED
        BY <3>2, <4>1, <4>2, <4>3 DEF TypeOK
    <3>4. CASE secondsCounter < Sec
      BY <2>0, <2>5, <3>2, <3>4 DEF TypeOK, Track, TrackWith
    <3>5. QED
      BY <2>0, <3>3, <3>4 DEF TypeOK
  <2>6. CASE reset
    BY <2>0, <2>6 DEF TypeOK, reset
  <2>7. ASSUME NEW b \in BOOLEAN, set_fixed_time_step(b) PROVE TypeOK'
    BY <2>7 DEF TypeOK, set_fixed_time_step
  <2>8. ASSUME NEW t \in Targets, set_target_elapsed_seconds(t) PROVE TypeOK'
    BY <2>8 DEF TypeOK, set_target_elapsed_seconds
  <2>9. CASE UNCHANGED vars
    BY <2>9 DEF TypeOK, vars
  <2>10. QED
    BY <2>1, <2>2, <2>3, <2>4, <2>5, <2>6, <2>7, <2>8, <2>9 DEF Next, InTick
<1>3. QED
  BY <1>1, <1>2, PTL DEF Spec

\* No sequence of ticks, resets and changes of mode or target makes or loses time.
THEOREM ClockConservesTime == Spec => []TimeConserved
<1> USE DEF clock, rate, mode, history, window
<1>1. Init => TimeConserved
  BY DEF Init, TimeConserved
<1>2. TypeOK /\ TimeConserved /\ [Next]_vars => TimeConserved'
  <2> SUFFICES ASSUME TypeOK, TimeConserved, [Next]_vars PROVE TimeConserved'
    OBVIOUS
  <2>0. Deltas \subseteq Nat /\ target \in Nat
    BY GameTimeAssumption DEF TypeOK
  <2>1. ASSUME NEW d \in Deltas, TickFixed(d) PROVE TimeConserved'
    BY <2>0, <2>1, UsedBound DEF TypeOK, TimeConserved, TickFixed, Credit
  <2>2. ASSUME NEW d \in Deltas, TickVariable(d) PROVE TimeConserved'
    BY <2>0, <2>2, UsedBound DEF TypeOK, TimeConserved, TickVariable, Credit
  <2>3. CASE Frame
    BY <2>0, <2>3 DEF TypeOK, TimeConserved, Frame
  <2>4. CASE reset
    BY <2>4 DEF TypeOK, TimeConserved, reset
  <2>5. ASSUME UNCHANGED <<total, leftOver, dropped, fed, skew>>
        PROVE  TimeConserved'
    BY <2>5 DEF TimeConserved
  <2>6. QED
    BY <2>1, <2>2, <2>3, <2>4, <2>5
    DEF Next, InTick, FramesDone, Track, TrackWith, set_fixed_time_step,
        set_target_elapsed_seconds, vars
<1>3. QED
  BY <1>1, <1>2, TypeCorrect, PTL DEF Spec

----------------------------------------------------------------------------
\* FpsBound with what makes it inductive: when tick_fn gets to the frame rate
\* less than a step is left over.
FpsInv == FpsBound /\ (pc = "track" => leftOver < target)

\* A second of fixed steps shows no more frames than its time pays for.
THEOREM FramesArePaidFor == Spec => []FpsBound
<1> USE DEF clock, rate, mode, history, window
<1>1. Init => FpsInv
  BY GameTimeAssumption DEF Init, FpsInv, FpsBound
<1>2. TypeOK /\ FpsInv /\ [Next]_vars => FpsInv'
  <2> SUFFICES ASSUME TypeOK, FpsInv, [Next]_vars PROVE FpsInv'
    OBVIOUS
  <2>0. /\ Sec \in Nat \ {0} /\ target \in Nat \ {0} /\ Eps \in Nat \ {0}
        /\ Deltas \subseteq Nat /\ Targets \subseteq Nat \ {0}
    BY GameTimeAssumption DEF TypeOK
  <2> DEFINE paid == rounds * (Eps - 1)
             used == shown * target
  <2>a. paid \in Nat /\ used \in Nat
    BY <2>0 DEF TypeOK
  <2>1. ASSUME NEW d \in Deltas, TickFixed(d) PROVE FpsInv'
    <3>1. rounds' * (Eps - 1) = paid + (Eps - 1)
      BY <2>0, <2>1 DEF TypeOK, TickFixed, Measure
    <3>2. /\ leftOver' <= leftOver + (d + (Eps - 1)) /\ leftOver' \in Nat
          /\ secondsCounter' = secondsCounter + d
      BY <2>0, <2>1, UsedBound DEF TypeOK, TickFixed, Measure
    <3>3. shown' * target' = used /\ target' = target /\ steady' = steady /\ pc' = "loop"
      BY <2>1 DEF TickFixed, Measure
    <3>4. QED
      BY <2>0, <2>a, <3>1, <3>2, <3>3 DEF TypeOK, FpsInv, FpsBound
  <2>2. ASSUME NEW d \in Deltas, TickVariable(d) PROVE FpsInv'
    BY <2>0, <2>2 DEF TypeOK, FpsInv, FpsBound, TickVariable, Measure
  <2>3. CASE Frame
    <3>1. shown' * target' = used + target /\ rounds' * (Eps - 1) = paid
      BY <2>0, <2>3 DEF TypeOK, Frame
    <3>2. QED
      BY <2>0, <2>a, <2>3, <3>1 DEF TypeOK, FpsInv, FpsBound, Frame
  <2>4. CASE FramesDone
    BY <2>4 DEF FpsInv, FpsBound, FramesDone
  <2>5. CASE Track
    <3>1. CASE secondsCounter >= Sec
      <4>1. shown' = 0 /\ rounds' = 0 /\ secondsCounter' = secondsCounter % Sec
        BY <2>0, <2>5, <3>1 DEF TypeOK, Track, TrackWith
      <4>2. secondsCounter' \in 0..(Sec - 1)
        BY <2>0, <4>1, ModRange DEF TypeOK
      <4>3. pc' = "rest" /\ leftOver' = leftOver /\ target' = target /\ leftOver < target
        BY <2>5 DEF FpsInv, Track, TrackWith
      <4>4. QED
        BY <2>0, <4>1, <4>2, <4>3 DEF TypeOK, FpsInv, FpsBound
    <3>2. CASE secondsCounter < Sec
      BY <2>0, <2>5, <3>2 DEF TypeOK, FpsInv, FpsBound, Track, TrackWith
    <3>3. QED
      BY <2>0, <3>1, <3>2 DEF TypeOK
  <2>6. CASE reset
    BY <2>0, <2>6 DEF TypeOK, FpsInv, FpsBound, reset
  <2>7. ASSUME NEW b \in BOOLEAN, set_fixed_time_step(b) PROVE FpsInv'
    BY <2>7 DEF FpsInv, FpsBound, set_fixed_time_step
  <2>8. ASSUME NEW t \in Targets, set_target_elapsed_seconds(t) PROVE FpsInv'
    BY <2>0, <2>8 DEF TypeOK, FpsInv, FpsBound, set_target_elapsed_seconds
  <2>9. CASE UNCHANGED vars
    BY <2>9 DEF FpsInv, FpsBound, vars
  <2>10. QED
    BY <2>1, <2>2, <2>3, <2>4, <2>5, <2>6, <2>7, <2>8, <2>9 DEF Next, InTick
<1>3. FpsInv => FpsBound
  BY DEF FpsInv
<1>4. QED
  BY <1>1, <1>2, <1>3, TypeCorrect, PTL DEF Spec
----------------------------------------------------------------------------
(* Counters that wrap.                                                     *)

\* A number is a multiple of m and a remainder below m in one way only.
LEMMA ModIs ==
  ASSUME NEW m \in Nat \ {0}, NEW n \in Int, NEW q \in Int, NEW r \in 0..(m - 1),
         n = m * q + r
  PROVE  n % m = r
<1> DEFINE p == n \div m
           s == n % m
<1>1. p \in Int /\ s \in 0..(m - 1)
  BY ModRange
<1>2. n = m * p + s
  OBVIOUS
<1> HIDE DEF p, s
<1>3. CASE q = p
  BY <1>1, <1>2, <1>3 DEF s
<1>4. CASE q > p
  <2>1. m * q >= m * (p + 1)
    BY <1>1, <1>4
  <2>2. m * (p + 1) = m * p + m
    BY <1>1
  <2>3. QED
    BY <1>1, <1>2, <2>1, <2>2
<1>5. CASE p > q
  <2>1. m * p >= m * (q + 1)
    BY <1>1, <1>5
  <2>2. m * (q + 1) = m * q + m
    OBVIOUS
  <2>3. QED
    BY <1>1, <1>2, <2>1, <2>2
<1>6. QED
  BY <1>1, <1>3, <1>4, <1>5

\* Counting on wraps the remainder or counts it on.
LEMMA ModSucc ==
  ASSUME NEW m \in Nat \ {0}, NEW n \in Int
  PROVE  (n + 1) % m = IF n % m = m - 1 THEN 0 ELSE (n % m) + 1
<1> DEFINE p == n \div m
           s == n % m
<1>1. p \in Int /\ s \in 0..(m - 1)
  BY ModRange
<1>2. n = m * p + s
  OBVIOUS
<1> HIDE DEF p, s
<1>3. CASE s = m - 1
  <2>1. n + 1 = m * (p + 1) + 0 /\ 0 \in 0..(m - 1) /\ p + 1 \in Int
    BY <1>1, <1>2, <1>3
  <2>2. (n + 1) % m = 0
    BY <2>1, ModIs
  <2>3. QED
    BY <1>3, <2>2 DEF s
<1>4. CASE s # m - 1
  <2>1. n + 1 = m * p + (s + 1) /\ s + 1 \in 0..(m - 1)
    BY <1>1, <1>2, <1>4
  <2> DEFINE k == n + 1
             t == s + 1
  <2>2. k = m * p + t /\ k \in Int /\ t \in 0..(m - 1)
    BY <2>1
  <2> HIDE DEF k, t
  <2>3. k % m = t
    BY <1>1, <2>2, ModIs
  <2>4. QED
    BY <1>4, <2>3 DEF s, k, t
<1>5. QED
  BY <1>3, <1>4

\* The remainder of a sum or a difference of two remainders.
LEMMA ModWrap ==
  ASSUME NEW m \in Nat \ {0}, NEW a \in 0..(m - 1), NEW b \in 0..(m - 1)
  PROVE  /\ a % m = a
         /\ (a + b) % m = IF a + b < m THEN a + b ELSE a + b - m
         /\ (a - b) % m = IF a >= b THEN a - b ELSE a - b + m
<1>1. a = m * 0 + a /\ a % m = a
  BY ModIs
<1>2. CASE a + b < m
  BY <1>2, a + b = m * 0 + (a + b), a + b \in 0..(m - 1), ModIs
<1>3. CASE ~(a + b < m)
  BY <1>3, a + b = m * 1 + (a + b - m), a + b - m \in 0..(m - 1), ModIs
<1>4. CASE a >= b
  BY <1>4, a - b = m * 0 + (a - b), a - b \in 0..(m - 1), ModIs
<1>5. CASE ~(a >= b)
  BY <1>5, a - b = m * (-1) + (a - b + m), a - b + m \in 0..(m - 1), ModIs
<1>6. QED
  BY <1>1, <1>2, <1>3, <1>4, <1>5

\* FramesAccounted, and what frame_count says of the second while tick_fn runs.
FramesInv ==
    /\ FramesAccounted
    /\ pc \in {"loop", "track"} => NewFrames = shown % FrameMod

\* The frames that a call of tick_fn has run are counted on with frame_count, be it
\* that frame_count wraps, that the sum does, or both.
LEMMA NewFramesSucc ==
  ASSUME TypeOK, frameCount' = (frameCount + 1) % FrameMod, shown' = shown + 1,
         framesThisSec' = framesThisSec, lastFrameCount' = lastFrameCount,
         NewFrames = shown % FrameMod
  PROVE  NewFrames' = shown' % FrameMod
<1> DEFINE m == FrameMod
           d == (frameCount - lastFrameCount) % m
           e == (frameCount' - lastFrameCount) % m
           r == shown % m
<1>1. /\ m \in Nat \ {0} /\ frameCount \in 0..(m - 1) /\ lastFrameCount \in 0..(m - 1)
      /\ framesThisSec \in 0..(m - 1) /\ shown \in Int
  BY GameTimeAssumption DEF TypeOK
<1>2. r \in 0..(m - 1) /\ shown' % m = IF r = m - 1 THEN 0 ELSE r + 1
  BY <1>1, ModRange, ModSucc
<1>3. frameCount' = IF frameCount = m - 1 THEN 0 ELSE frameCount + 1
  <2>1. frameCount \in Int /\ frameCount % m = frameCount
    BY <1>1, ModWrap
  <2>2. QED
    BY <1>1, <2>1, ModSucc
<1>4. frameCount' \in 0..(m - 1)
  BY <1>1, <1>3
<1>5. /\ d = IF frameCount >= lastFrameCount THEN frameCount - lastFrameCount
             ELSE frameCount - lastFrameCount + m
      /\ e = IF frameCount' >= lastFrameCount THEN frameCount' - lastFrameCount
             ELSE frameCount' - lastFrameCount + m
  BY <1>1, <1>4, ModWrap
<1>6. d \in 0..(m - 1) /\ e \in 0..(m - 1) /\ e = IF d = m - 1 THEN 0 ELSE d + 1
  BY <1>1, <1>3, <1>4, <1>5
<1>7. NewFrames = (framesThisSec + d) % m /\ NewFrames' = (framesThisSec + e) % m
  BY DEF NewFrames
<1> HIDE DEF d, e, r, m
<1>8. /\ (framesThisSec + d) % m =
            IF framesThisSec + d < m THEN framesThisSec + d ELSE framesThisSec + d - m
      /\ (framesThisSec + e) % m =
            IF framesThisSec + e < m THEN framesThisSec + e ELSE framesThisSec + e - m
  BY <1>1, <1>6, ModWrap
<1>9. r = (framesThisSec + d) % m
  BY <1>7 DEF r, m
<1>10. (framesThisSec + e) % m = IF r = m - 1 THEN 0 ELSE r + 1
  BY <1>1, <1>6, <1>8, <1>9
<1>11. QED
  BY <1>2, <1>7, <1>10 DEF m

\* With the variable time step a call has one frame.
LEMMA OneFrame ==
  ASSUME TypeOK, lastFrameCount' = frameCount, shown' = shown + 1,
         frameCount' = (frameCount + 1) % FrameMod, framesThisSec' = framesThisSec,
         framesThisSec = shown % FrameMod
  PROVE  NewFrames' = shown' % FrameMod
<1>1. /\ FrameMod \in Nat \ {0} /\ frameCount \in 0..(FrameMod - 1)
      /\ framesThisSec \in 0..(FrameMod - 1) /\ shown \in Int /\ frameCount \in Int
  BY GameTimeAssumption DEF TypeOK
<1>2. frameCount % FrameMod = frameCount
  BY <1>1, ModWrap
<1>3. frameCount' = IF frameCount = FrameMod - 1 THEN 0 ELSE frameCount + 1
  BY <1>1, <1>2, ModSucc
<1>4. frameCount' \in 0..(FrameMod - 1)
  BY <1>1, <1>3
<1> DEFINE e == (frameCount' - frameCount) % FrameMod
<1>5. e = IF frameCount' >= frameCount THEN frameCount' - frameCount
          ELSE frameCount' - frameCount + FrameMod
  BY <1>1, <1>4, ModWrap
<1>6. e \in 0..(FrameMod - 1) /\ e = IF FrameMod = 1 THEN 0 ELSE 1
  BY <1>1, <1>3, <1>5
<1>7. NewFrames' = (framesThisSec + e) % FrameMod
  BY DEF NewFrames
<1> HIDE DEF e
<1>8. (framesThisSec + e) % FrameMod =
        IF framesThisSec + e < FrameMod THEN framesThisSec + e
        ELSE framesThisSec + e - FrameMod
  BY <1>1, <1>6, ModWrap
<1>9. (shown + 1) % FrameMod = IF framesThisSec = FrameMod - 1 THEN 0 ELSE framesThisSec + 1
  BY <1>1, ModSucc
<1>10. QED
  BY <1>1, <1>6, <1>7, <1>8, <1>9

\* Where the frames of a call begin there are none of it yet.
LEMMA NoNewFrames ==
  ASSUME TypeOK
  PROVE  (framesThisSec + ((frameCount - frameCount) % FrameMod)) % FrameMod = framesThisSec
<1>1. /\ FrameMod \in Nat \ {0} /\ framesThisSec \in 0..(FrameMod - 1)
      /\ frameCount \in 0..(FrameMod - 1)
  BY GameTimeAssumption DEF TypeOK
<1>2. (frameCount - frameCount) % FrameMod = 0
  BY <1>1, ModWrap
<1>3. framesThisSec + 0 = framesThisSec
  BY <1>1
<1>4. QED
  BY <1>1, <1>2, <1>3, ModWrap

\* fps and frames_this_sec are the calls of the tick callback, for every width of the
\* counters and any number of frames in a call, wraps of frame_count included.
THEOREM EveryFrameCounts == Spec => []FramesAccounted
<1> USE DEF clock, rate, mode, history, window
<1>0. FrameMod \in Nat \ {0} /\ 0 % FrameMod = 0
  BY GameTimeAssumption, ModWrap
<1>1. Init => FramesInv
  BY <1>0 DEF Init, FramesInv, FramesAccounted
<1>2. TypeOK /\ FramesInv /\ [Next]_vars => FramesInv'
  <2> SUFFICES ASSUME TypeOK, FramesInv, [Next]_vars PROVE FramesInv'
    OBVIOUS
  <2>1. ASSUME NEW d \in Deltas, TickFixed(d) PROVE FramesInv'
    <3>1. /\ pc = "rest" /\ pc' = "loop" /\ lastFrameCount' = frameCount
          /\ UNCHANGED <<frameCount, framesThisSec, fps, shown, reported>>
      BY <2>1 DEF TickFixed, Measure
    <3>2. NewFrames' = framesThisSec
      BY <3>1, NoNewFrames DEF NewFrames
    <3>3. QED
      BY <3>1, <3>2 DEF FramesInv, FramesAccounted
  <2>2. ASSUME NEW d \in Deltas, TickVariable(d) PROVE FramesInv'
    <3>1. /\ pc = "rest" /\ pc' = "track" /\ lastFrameCount' = frameCount
          /\ frameCount' = (frameCount + 1) % FrameMod /\ shown' = shown + 1
          /\ UNCHANGED <<framesThisSec, fps, reported>>
      BY <2>2 DEF TickVariable, Measure
    <3>2. NewFrames' = shown' % FrameMod
      BY <3>1, OneFrame DEF FramesInv, FramesAccounted
    <3>3. QED
      BY <3>1, <3>2 DEF FramesInv, FramesAccounted
  <2>3. CASE Frame
    <3>1. /\ pc = "loop" /\ frameCount' = (frameCount + 1) % FrameMod /\ shown' = shown + 1
          /\ UNCHANGED <<pc, lastFrameCount, framesThisSec, fps, reported>>
      BY <2>3 DEF Frame
    <3>2. NewFrames' = shown' % FrameMod
      BY <3>1, NewFramesSucc DEF FramesInv
    <3>3. QED
      BY <3>1, <3>2 DEF FramesInv, FramesAccounted
  <2>4. CASE FramesDone
    BY <2>4 DEF FramesInv, FramesAccounted, NewFrames, FramesDone
  <2>5. CASE Track
    <3>1. pc = "track" /\ pc' = "rest" /\ NewFrames = shown % FrameMod
      BY <2>5 DEF Track, TrackWith, FramesInv
    <3>2. CASE /\ fps' = NewFrames /\ framesThisSec' = 0
               /\ reported' = shown /\ shown' = 0
      BY <1>0, <3>1, <3>2 DEF FramesInv, FramesAccounted
    <3>3. CASE framesThisSec' = NewFrames /\ UNCHANGED <<fps, reported, shown>>
      BY <3>1, <3>3 DEF FramesInv, FramesAccounted
    <3>4. QED
      BY <2>5, <3>2, <3>3 DEF Track, TrackWith
  <2>6. CASE reset
    BY <1>0, <2>6 DEF FramesInv, FramesAccounted, reset
  <2>7. ASSUME UNCHANGED <<pc, clock, rate, shown, reported>> PROVE FramesInv'
    BY <2>7 DEF FramesInv, FramesAccounted, NewFrames
  <2>8. QED
    BY <2>1, <2>2, <2>3, <2>4, <2>5, <2>6, <2>7
    DEF Next, InTick, set_fixed_time_step, set_target_elapsed_seconds, vars
<1>3. FramesInv => FramesAccounted
  BY DEF FramesInv
<1>4. QED
  BY <1>1, <1>2, <1>3, TypeCorrect, PTL DEF Spec
=============================================================================
