------------------------------ MODULE GameTime ------------------------------
(***************************************************************************)
(* The game clock of wolf/src/system/chrono/gametime.rs.  Time is counted  *)
(* in whole units, Sec of them to a second; a call of tick_fn is a         *)
(* measured delta, a step for every round of the fixed time step's loop    *)
(* and the bookkeeping of the frame rate.                                  *)
(***************************************************************************)
EXTENDS Integers

CONSTANTS
    Sec,            \* units per second
    MaxDelta,       \* MAX_DELTA_IN_MILLIS, compared with seconds
    Eps,            \* 0.0004 seconds, as in the code (the comment above it says 1/4 ms)
    DefaultTarget,  \* 1/60 of a second
    Targets,        \* values of set_target_elapsed_seconds
    Deltas,         \* time between two calls of Instant::now()
    FrameMod,       \* 2^32: the counters are u32 and wrap in a release build
    MaxTicks        \* bound: calls of tick_fn

ASSUME GameTimeAssumption ==
    /\ Sec \in Nat \ {0} /\ MaxDelta \in Nat /\ Eps \in Nat \ {0}
    /\ Targets \subseteq Nat \ {0} /\ DefaultTarget \in Targets
    /\ Deltas \subseteq Nat
    /\ FrameMod \in Nat \ {0} /\ MaxTicks \in Nat

VARIABLES
    pc,             \* "rest" between calls, "loop" or "track" in tick_fn
    elapsed,        \* elapsed_secs
    total,          \* total_secs
    leftOver,       \* left_over_ticks
    frameCount,     \* frame_count
    lastFrameCount, \* last_frame_count, local to tick_fn
    fps,            \* fps
    framesThisSec,  \* frames_this_sec
    secondsCounter, \* seconds_counter
    fixed,          \* fixed_time_step
    target,         \* target_elapsed_secs
    ticks, fed, skew, dropped,          \* history of the clock, see Credit
    shown, reported, rounds, steady     \* history of the current second

clock   == <<elapsed, total, leftOver, frameCount, lastFrameCount>>
rate    == <<fps, framesThisSec, secondsCounter>>
mode    == <<fixed, target>>
history == <<ticks, fed, skew, dropped>>
window  == <<shown, reported, rounds, steady>>
vars    == <<pc, clock, rate, mode, history, window>>

Init ==
    /\ pc = "rest"
    /\ elapsed = 0 /\ total = 0 /\ leftOver = 0
    /\ frameCount = 0 /\ lastFrameCount = 0
    /\ fps = 0 /\ framesThisSec = 0 /\ secondsCounter = 0
    /\ fixed = FALSE /\ target = DefaultTarget
    /\ ticks = 0 /\ fed = 0 /\ skew = 0 /\ dropped = 0
    /\ shown = 0 /\ reported = 0 /\ rounds = 0 /\ steady = TRUE

Abs(n) == IF n < 0 THEN -n ELSE n

----------------------------------------------------------------------------
(* tick_fn                                                                 *)

\* Excessively large deltas are clamped.
Clamped(d) == IF d > MaxDelta THEN MaxDelta ELSE d

\* Mutant: a delta within twice that of the target is close.
SnappedLoose(d) == IF Abs(d - target) < 2 * Eps THEN target ELSE d

\* A delta close to the target counts as the target.
Snapped(d) == IF Abs(d - target) < Eps THEN target ELSE d

\* History: d was measured, used of it was put into the clock and left thrown out.
Credit(d, used, left) ==
    /\ ticks' = ticks + 1
    /\ fed' = fed + d
    /\ skew' = skew + (used - d)
    /\ dropped' = dropped + left

Measure(d) ==
    /\ pc = "rest"
    /\ ticks < MaxTicks
    /\ secondsCounter' = secondsCounter + d
    /\ rounds' = rounds + 1
    /\ UNCHANGED <<fps, framesThisSec, mode, reported>>

\* fixed_time_step: the delta joins what was left over.
TickFixed(d) ==
    /\ Measure(d)
    /\ fixed
    /\ LET used == Snapped(Clamped(d)) IN
          /\ leftOver' = leftOver + used
          /\ Credit(d, used, 0)
    /\ pc' = "loop"
    /\ lastFrameCount' = frameCount
    /\ UNCHANGED <<elapsed, total, frameCount, shown, steady>>

\* Variable time step: one frame of the whole delta.
TickVariable(d) ==
    /\ Measure(d)
    /\ ~fixed
    /\ LET used == Clamped(d) IN
          /\ elapsed' = used
          /\ total' = total + used
          /\ Credit(d, used, leftOver)
    /\ leftOver' = 0
    /\ lastFrameCount' = frameCount
    /\ frameCount' = (frameCount + 1) % FrameMod
    /\ shown' = shown + 1
    /\ steady' = FALSE
    /\ pc' = "track"

\* Mutant: what is left over is forgotten with the first frame.
FrameForgetsRest ==
    /\ pc = "loop"
    /\ leftOver >= target
    /\ elapsed' = target
    /\ total' = total + target
    /\ leftOver' = 0
    /\ frameCount' = (frameCount + 1) % FrameMod
    /\ shown' = shown + 1
    /\ UNCHANGED <<pc, lastFrameCount, rate, mode, history, reported, rounds, steady>>

\* One round of the while loop.
Frame ==
    /\ pc = "loop"
    /\ leftOver >= target
    /\ elapsed' = target
    /\ total' = total + target
    /\ leftOver' = leftOver - target
    /\ frameCount' = (frameCount + 1) % FrameMod
    /\ shown' = shown + 1
    /\ UNCHANGED <<pc, lastFrameCount, rate, mode, history, reported, rounds, steady>>

\* Mutant: the loop goes on until nothing at all is left over.
FramesDoneExact ==
    /\ pc = "loop"
    /\ leftOver = 0
    /\ pc' = "track"
    /\ UNCHANGED <<clock, rate, mode, history, window>>

FramesDone ==
    /\ pc = "loop"
    /\ leftOver < target
    /\ pc' = "track"
    /\ UNCHANGED <<clock, rate, mode, history, window>>

NewFrames == (framesThisSec + ((frameCount - lastFrameCount) % FrameMod)) % FrameMod

\* The frame rate; when a second is over rateNow is reported and secondsLeft
\* stays on the counter of the next one.
TrackWith(rateNow, secondsLeft) ==
    /\ pc = "track"
    /\ pc' = "rest"
    /\ \/ /\ secondsCounter >= Sec
          /\ fps' = rateNow
          /\ framesThisSec' = 0
          /\ secondsCounter' = secondsLeft
          /\ reported' = shown /\ shown' = 0 /\ rounds' = 0 /\ steady' = TRUE
       \/ /\ secondsCounter < Sec
          /\ framesThisSec' = NewFrames
          /\ UNCHANGED <<fps, secondsCounter, window>>
    /\ UNCHANGED <<clock, mode, history>>

\* Mutant: the frames of this call are added after the rate is reported.
TrackLate == TrackWith(framesThisSec, secondsCounter % Sec)

Track == TrackWith(NewFrames, secondsCounter % Sec)

----------------------------------------------------------------------------
(* The other operations, between two calls of tick_fn.                     *)

reset ==
    /\ pc = "rest"
    /\ leftOver' = 0
    /\ dropped' = dropped + leftOver
    /\ fps' = 0 /\ framesThisSec' = 0 /\ secondsCounter' = 0
    /\ shown' = 0 /\ reported' = 0 /\ rounds' = 0 /\ steady' = TRUE
    /\ UNCHANGED <<pc, elapsed, total, frameCount, lastFrameCount, mode, ticks,
                   fed, skew>>

set_fixed_time_step(b) ==
    /\ pc = "rest"
    /\ fixed' = b
    /\ UNCHANGED <<pc, clock, rate, target, history, window>>

set_target_elapsed_seconds(t) ==
    /\ pc = "rest"
    /\ target' = t
    /\ steady' = (steady /\ t = target)
    /\ UNCHANGED <<pc, clock, rate, fixed, history, shown, reported, rounds>>

InTick == Frame \/ FramesDone \/ Track

Next ==
    \/ \E d \in Deltas : TickFixed(d) \/ TickVariable(d)
    \/ InTick
    \/ reset
    \/ \E b \in BOOLEAN : set_fixed_time_step(b)
    \/ \E t \in Targets : set_target_elapsed_seconds(t)

Spec == Init /\ [][Next]_vars

\* A call of tick_fn runs on; nobody has to make one.
FairSpec == Spec /\ WF_vars(InTick)

----------------------------------------------------------------------------
(* Properties.                                                             *)

\* Types; between calls less than a second is on the frame rate's counter.
TypeOK ==
    /\ pc \in {"rest", "loop", "track"}
    /\ elapsed \in Nat /\ total \in Nat /\ leftOver \in Nat
    /\ frameCount \in 0..(FrameMod - 1) /\ lastFrameCount \in 0..(FrameMod - 1)
    /\ fps \in 0..(FrameMod - 1) /\ framesThisSec \in 0..(FrameMod - 1)
    /\ secondsCounter \in Nat
    /\ pc = "rest" => secondsCounter < Sec
    /\ fixed \in BOOLEAN /\ target \in Targets
    /\ ticks \in Nat /\ fed \in Nat /\ skew \in Int /\ dropped \in Nat
    /\ shown \in Nat /\ reported \in Nat /\ rounds \in Nat /\ steady \in BOOLEAN

\* The clock neither makes nor loses time: what was measured is in total_secs or
\* left over, but for what the clamp and the snap changed and what reset() and a
\* change to the variable time step threw away.
TimeConserved == total + leftOver + dropped = fed + skew

\* fps and frames_this_sec are the calls of the tick callback, also when
\* frame_count wraps and when a call runs many frames.
FramesAccounted ==
    /\ fps = reported % FrameMod
    /\ pc = "rest" => framesThisSec = shown % FrameMod

\* In a second of fixed time steps the callback is called no more often than the
\* time measured pays for: a step left over from before, and less than Eps (the
\* code's 0.0004 s) for each call whose delta was snapped to the target.
FpsBound ==
    steady => shown * target + leftOver
                <= secondsCounter + (target - 1) + rounds * (Eps - 1)

\* A call of tick_fn returns, whatever the delta.
TickReturns == (pc # "rest") ~> (pc = "rest")
============================================================================
