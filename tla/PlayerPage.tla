----------------------------- MODULE PlayerPage -----------------------------
(***************************************************************************)
(* The playback page routes/player/+page.svelte: the playFrames loop that  *)
(* drives the replay engine one step at a time, paced by the timing index, *)
(* and the user handlers that start, stop, single-step and reset it.       *)
(*                                                                         *)
(* The page runs on the browser's single-threaded event loop.  Every       *)
(* `await` is a step boundary: the code between two awaits is one atomic   *)
(* action, and any click or timer callback may run in between.  Several    *)
(* invocations of playFrames and stepFrame can be suspended at the same    *)
(* time, so each invocation is a task with its own program counter.        *)
(*                                                                         *)
(* The replay engine (WASM) is a black box: step() advances its frame      *)
(* counter by one up to N and reports whether frames remain, or throws.    *)
(* After decoding frame f it reports the desktop size DesktopAt[f] and the *)
(* pointer PointerAt[f] of the recording, raising a one-shot flag for each *)
(* that differs from what it reported before; a flag stays raised until   *)
(* the page clears it.                                                     *)
(***************************************************************************)
EXTENDS Naturals, Sequences, FiniteSets

CONSTANTS
    N,              \* frames in the store; onMount leaves the page when 0
    TimingChoices,  \* timing arrays sessionStorage may hold (offsets, ms)
    Fallback,       \* fixed delay when a frame has no timing entry (16 ms)
    Loops,          \* ids of playFrames invocations (bounds Play clicks)
    Steppers,       \* ids of stepFrame invocations (bounds Step clicks)
    MaxResets,      \* bound on Reset clicks
    DesktopAt,      \* DesktopAt[f]: desktop size after decoding frame f
    PointerAt,      \* PointerAt[f]: pointer bitmap after decoding frame f
    EmptyBitmap,    \* a pointer bitmap that is null or of length 0
    ZeroSize,       \* a pointer bitmap of width or height 0
    NoCursor,       \* cursorCanvas = null
    Unpainted,      \* a created cursor canvas whose bitmap was never drawn
    Blank           \* the canvas as created or as resetReplay blanks it

ASSUME N \in Nat \ {0}
ASSUME Fallback \in Nat \ {0}
ASSUME DOMAIN DesktopAt = 0..N /\ DOMAIN PointerAt = 0..N

VARIABLES
    timing,         \* TimingEntry[] loaded in onMount, fixed afterwards
    mountPc,        \* where onMount is suspended: "init", "create", "done"
    isInitialized,  \* WASM module initialised
    replay,         \* TRUE once Replay.create resolved (handle is non-null)
    isPlaying,
    error,          \* TRUE when an error message is shown
    currentFrame,
    currentTimeMs,
    engineFrame,    \* replay.currentFrame inside the engine
    loop,           \* per playFrames invocation: its suspension point and locals
    stepper,        \* per stepFrame invocation: its suspension point
    resets,         \* Reset clicks so far
    sinceStop,      \* frames each loop rendered while isPlaying was FALSE
    decoded,        \* the frame whose desktop and pointer the engine reports
    resFlag,        \* replay.resolutionChanged
    ptrFlag,        \* replay.pointerBitmapChanged
    canvasSize,     \* canvasWidth x canvasHeight, the canvas element's size
    cursorCanvas,   \* the cached cursor surface, or NoCursor
    shown           \* what the last renderFrame drew, or Blank

vars == <<timing, mountPc, isInitialized, replay, isPlaying, error,
          currentFrame, currentTimeMs, engineFrame, loop, stepper, resets,
          sinceStop, decoded, resFlag, ptrFlag, canvasSize, cursorCanvas, shown>>

rvars == <<decoded, resFlag, ptrFlag, canvasSize, cursorCanvas, shown>>

\* JS arrays are 0-based: timing[i] is Offset(i) when HasEntry(i).
HasEntry(i) == i < Len(timing)
Offset(i)   == timing[i + 1]

\* timing[0]?.timeOffset ?? 0
FirstOffset == IF HasEntry(0) THEN Offset(0) ELSE 0

\* replay.step(): the engine decodes one more frame, up to N.
Advance(f) == IF f < N THEN f + 1 ELSE f

LoopPc == {"unstarted", "stepping", "delay", "done"}
Active(l) == loop[l].pc \in {"stepping", "delay"}

Surfaces == {PointerAt[f] : f \in 0..N} \cup {NoCursor, Unpainted}

Offsets == UNION {{t[i] : i \in DOMAIN t} : t \in TimingChoices}

TypeOK ==
    /\ timing \in TimingChoices
    /\ mountPc \in {"init", "create", "done"}
    /\ isInitialized \in BOOLEAN
    /\ replay \in BOOLEAN
    /\ isPlaying \in BOOLEAN
    /\ error \in BOOLEAN
    /\ currentFrame \in 0..N
    /\ currentTimeMs \in Offsets \cup {0}
    /\ engineFrame \in 0..N
    /\ loop \in [Loops -> [pc : LoopPc, last : Offsets \cup {0},
                           wait : Nat, after : 0..N]]
    /\ stepper \in [Steppers -> {"idle", "stepping", "done"}]
    /\ resets \in 0..MaxResets
    /\ sinceStop \in [Loops -> 0..N]
    /\ decoded \in 0..N
    /\ resFlag \in BOOLEAN /\ ptrFlag \in BOOLEAN
    /\ canvasSize \in {DesktopAt[f] : f \in 0..N}
    /\ cursorCanvas \in Surfaces
    /\ shown \in {Blank} \cup [frame : 0..N, size : {DesktopAt[f] : f \in 0..N},
                               cursor : Surfaces]

Init ==
    /\ timing \in TimingChoices
    /\ mountPc = "init"
    /\ isInitialized = FALSE
    /\ replay = FALSE
    /\ isPlaying = FALSE
    /\ error = FALSE
    /\ currentFrame = 0
    /\ currentTimeMs = 0
    /\ engineFrame = 0
    /\ loop = [l \in Loops |-> [pc |-> "unstarted", last |-> 0,
                                wait |-> 0, after |-> 0]]
    /\ stepper = [s \in Steppers |-> "idle"]
    /\ resets = 0
    /\ sinceStop = [l \in Loops |-> 0]
    /\ decoded = 0
    /\ resFlag = FALSE /\ ptrFlag = FALSE
    /\ canvasSize = DesktopAt[0]
    /\ cursorCanvas = NoCursor
    /\ shown = Blank

-----------------------------------------------------------------------------
(* The renderer, run synchronously after every successful replay.step(),  *)
(* inside the same try block: new ImageData in updateCursorCanvas or in    *)
(* renderFrame may throw, after the engine has already advanced.           *)

\* How the renderer ends: the frame is drawn, updateCursorCanvas throws
\* after creating the cursor canvas, or renderFrame throws before drawing.
RenderOutcomes(cur) ==
    {"drawn", "renderThrows"} \cup
      (IF (ptrFlag \/ PointerAt[cur] # PointerAt[decoded])
          /\ PointerAt[cur] \notin {EmptyBitmap, ZeroSize}
       THEN {"cursorThrows"} ELSE {})

\* updateCursorCanvas: a null, empty or zero-sized bitmap leaves no cursor;
\* otherwise the bitmap becomes the new cached surface.
UpdateCursorCanvas(p) == IF p \in {EmptyBitmap, ZeroSize} THEN NoCursor ELSE p

\* Mutant of PointerFlagCleared: clearPointerBitmapChanged() runs before
\* updateCursorCanvas(), so the flag is gone even when the rebuild throws.
PointerFlagClearedFirst(o) == TRUE

\* handleUpdates clears the pointer flag only after updateCursorCanvas
\* returned.
PointerFlagCleared(o) == o # "cursorThrows"

\* The engine decodes frame cur, raising resolutionChanged and
\* pointerBitmapChanged where its reports change; handleUpdates resizes
\* the canvas and clears the first flag, then rebuilds the cursor surface
\* and clears the second; renderFrame blits the frame and renderCursor
\* draws the cached cursor over it.  Outcome o says where a throw cut this
\* short.
DecodeAndRender(cur, o) ==
    LET rf   == resFlag \/ DesktopAt[cur] # DesktopAt[decoded]
        pf   == ptrFlag \/ PointerAt[cur] # PointerAt[decoded]
        size == IF rf THEN DesktopAt[cur] ELSE canvasSize
        curs == CASE ~pf                  -> cursorCanvas
                  [] o = "cursorThrows"   -> Unpainted
                  [] OTHER                -> UpdateCursorCanvas(PointerAt[cur])
    IN /\ decoded' = cur
       /\ resFlag' = FALSE
       /\ canvasSize' = size
       /\ ptrFlag' = (pf /\ ~PointerFlagCleared(o))
       /\ cursorCanvas' = curs
       /\ shown' = IF o = "drawn" THEN [frame |-> cur, size |-> size, cursor |-> curs]
                  ELSE shown

-----------------------------------------------------------------------------
(* onMount: the frame count check has passed (N > 0); the WASM import and  *)
(* initWasm resolve or throw, then Replay.create resolves or throws.       *)

OnMountInit ==
    /\ mountPc = "init"
    /\ \/ /\ isInitialized' = TRUE
          /\ mountPc' = "create"
          /\ UNCHANGED error
       \/ /\ error' = TRUE
          /\ mountPc' = "done"
          /\ UNCHANGED isInitialized
    /\ UNCHANGED <<timing, replay, isPlaying, currentFrame, currentTimeMs,
                   engineFrame, loop, stepper, resets, sinceStop>>
    /\ UNCHANGED rvars

OnMountCreate ==
    /\ mountPc = "create"
    /\ mountPc' = "done"
    /\ \/ /\ replay' = TRUE
          /\ UNCHANGED error
       \/ /\ error' = TRUE
          /\ UNCHANGED replay
    /\ UNCHANGED <<timing, isInitialized, isPlaying, currentFrame,
                   currentTimeMs, engineFrame, loop, stepper, resets, sinceStop>>
    /\ UNCHANGED rvars

-----------------------------------------------------------------------------
(* startReplay, reached from togglePlayPause, the big play button and the  *)
(* Space key.  When ready it sets isPlaying and runs playFrames up to its  *)
(* first await: lastTimeOffset := timing[0], then replay.step().           *)

StartReplay ==
    /\ ~isPlaying
    /\ \/ /\ ~(isInitialized /\ replay)
          /\ error' = TRUE
          /\ UNCHANGED <<isPlaying, currentTimeMs, loop, sinceStop>>
       \/ /\ isInitialized /\ replay
          /\ \E l \in Loops :
                /\ loop[l].pc = "unstarted"
                /\ \A m \in Loops : loop[m].pc = "unstarted" => l <= m
                /\ loop' = [loop EXCEPT ![l] = [pc |-> "stepping",
                              last |-> FirstOffset, wait |-> 0, after |-> 0]]
          /\ isPlaying' = TRUE
          /\ error' = FALSE
          /\ currentTimeMs' = FirstOffset
          /\ sinceStop' = [l \in Loops |-> 0]
    /\ UNCHANGED <<timing, mountPc, isInitialized, replay, currentFrame,
                   engineFrame, stepper, resets>>
    /\ UNCHANGED rvars

\* stopReplay: only clears the flag; running loops notice it at their
\* next `while (isPlaying)` check.
StopReplay ==
    /\ isPlaying
    /\ isPlaying' = FALSE
    /\ UNCHANGED <<timing, mountPc, isInitialized, replay, error, currentFrame,
                   currentTimeMs, engineFrame, loop, stepper, resets, sinceStop>>
    /\ UNCHANGED rvars

\* Mutant of LoopEnds: the `if (!hasMore)` exit is lost.
LoopEndsNever(cur) == FALSE

\* `if (!hasMore)`: the engine reports no frames left once it is at N.
LoopEnds(cur) == cur = N

\* Mutant of Complete: breaks out without clearing isPlaying.
CompleteKeepsPlaying(l, cur) ==
    /\ UNCHANGED isPlaying
    /\ loop' = [loop EXCEPT ![l].pc = "done", ![l].after = cur]
    /\ UNCHANGED currentTimeMs

\* The exit on !hasMore: isPlaying cleared, `break`.
Complete(l, cur) ==
    /\ isPlaying' = FALSE
    /\ loop' = [loop EXCEPT ![l].pc = "done", ![l].after = cur]
    /\ UNCHANGED currentTimeMs

(* The loop body after `await replay.step()` resolved with frame cur:      *)
(* leave on !hasMore, else compute the pacing delay from timing[cur] and   *)
(* lastTimeOffset; a delay <= 0 does not await and goes straight back to   *)
(* the `while (isPlaying)` check and the next replay.step().               *)
AfterStep(l, cur) ==
    IF LoopEnds(cur)
    THEN Complete(l, cur)
    ELSE IF HasEntry(cur)
    THEN LET delay == Offset(cur) - loop[l].last
         IN /\ currentTimeMs' = Offset(cur)
            /\ loop' = [loop EXCEPT ![l] =
                 [pc    |-> IF delay > 0 THEN "delay"
                            ELSE IF isPlaying THEN "stepping" ELSE "done",
                  last  |-> Offset(cur),
                  wait  |-> IF delay > 0 THEN delay ELSE 0,
                  after |-> cur]]
            /\ UNCHANGED isPlaying
    ELSE /\ loop' = [loop EXCEPT ![l].pc = "delay", ![l].wait = Fallback,
                                 ![l].after = cur]
         /\ UNCHANGED <<isPlaying, currentTimeMs>>

\* The catch block of playFrames: error shown, isPlaying cleared, loop left.
LoopCatch(l) ==
    /\ error' = TRUE
    /\ isPlaying' = FALSE
    /\ loop' = [loop EXCEPT ![l].pc = "done"]

\* playFrames resumes after `await replay.step()`: on success it reads
\* replay.currentFrame, handles updates, renders, then runs AfterStep.  A
\* throw of step() itself, or of the renderer after the engine advanced,
\* is caught.
LoopStepReturns(l) ==
    /\ loop[l].pc = "stepping"
    /\ \/ LET cur == Advance(engineFrame)
          IN /\ engineFrame' = cur
             /\ currentFrame' = cur
             /\ \/ /\ DecodeAndRender(cur, "drawn")
                   /\ sinceStop' = [sinceStop EXCEPT ![l] =
                                       @ + (IF isPlaying THEN 0 ELSE 1)]
                   /\ AfterStep(l, cur)
                   /\ UNCHANGED error
                \/ \E o \in RenderOutcomes(cur) \ {"drawn"} :
                   /\ DecodeAndRender(cur, o)
                   /\ LoopCatch(l)
                   /\ UNCHANGED <<currentTimeMs, sinceStop>>
       \/ /\ LoopCatch(l)
          /\ UNCHANGED <<engineFrame, currentFrame, currentTimeMs, sinceStop>>
          /\ UNCHANGED rvars
    /\ UNCHANGED <<timing, mountPc, isInitialized, replay, stepper, resets>>

\* Mutant of LoopWakes: the loop goes on stepping without re-checking.
LoopWakesNoCheck(l) ==
    /\ loop[l].pc = "delay"
    /\ loop' = [loop EXCEPT ![l].pc = "stepping"]
    /\ UNCHANGED <<timing, mountPc, isInitialized, replay, isPlaying, error,
                   currentFrame, currentTimeMs, engineFrame, stepper, resets,
                   sinceStop>>
    /\ UNCHANGED rvars

\* The pacing setTimeout fires; the loop re-checks `while (isPlaying)`.
LoopWakes(l) ==
    /\ loop[l].pc = "delay"
    /\ loop' = [loop EXCEPT ![l].pc = IF isPlaying THEN "stepping" ELSE "done"]
    /\ UNCHANGED <<timing, mountPc, isInitialized, replay, isPlaying, error,
                   currentFrame, currentTimeMs, engineFrame, stepper, resets,
                   sinceStop>>
    /\ UNCHANGED rvars

\* stepFrame: the Step button and ArrowRight are live only while not
\* playing; `if (!replay) return` makes it a no-op before Replay.create.
StepFrame(s) ==
    /\ stepper[s] = "idle"
    /\ ~isPlaying
    /\ replay
    /\ stepper' = [stepper EXCEPT ![s] = "stepping"]
    /\ UNCHANGED <<timing, mountPc, isInitialized, replay, isPlaying, error,
                   currentFrame, currentTimeMs, engineFrame, loop, resets,
                   sinceStop>>
    /\ UNCHANGED rvars

\* Mutant of StepReturns: counts frames itself (currentFrame + 1) instead
\* of reading replay.currentFrame.
StepReturnsCounts(s) ==
    /\ stepper[s] = "stepping"
    /\ stepper' = [stepper EXCEPT ![s] = "done"]
    /\ \/ LET cur == Advance(engineFrame)
          IN /\ engineFrame' = cur
             /\ currentFrame' = currentFrame + 1
             /\ currentTimeMs' = IF HasEntry(cur) THEN Offset(cur)
                                                  ELSE currentTimeMs
             /\ \E o \in RenderOutcomes(cur) :
                   /\ DecodeAndRender(cur, o)
                   /\ error' = (o # "drawn")
       \/ /\ error' = TRUE
          /\ UNCHANGED <<engineFrame, currentFrame, currentTimeMs>>
          /\ UNCHANGED rvars
    /\ UNCHANGED <<timing, mountPc, isInitialized, replay, isPlaying, loop,
                   resets, sinceStop>>

\* stepFrame resumes after `await replay.step()`: updates the counter and,
\* when timing[currentFrame] exists, the clock; handles updates and renders.
\* A throw of step() or of the renderer only shows the error.
StepReturns(s) ==
    /\ stepper[s] = "stepping"
    /\ stepper' = [stepper EXCEPT ![s] = "done"]
    /\ \/ LET cur == Advance(engineFrame)
          IN /\ engineFrame' = cur
             /\ currentFrame' = cur
             /\ currentTimeMs' = IF HasEntry(cur) THEN Offset(cur)
                                                  ELSE currentTimeMs
             /\ \E o \in RenderOutcomes(cur) :
                   /\ DecodeAndRender(cur, o)
                   /\ error' = (o # "drawn")
       \/ /\ error' = TRUE
          /\ UNCHANGED <<engineFrame, currentFrame, currentTimeMs>>
          /\ UNCHANGED rvars
    /\ UNCHANGED <<timing, mountPc, isInitialized, replay, isPlaying, loop,
                   resets, sinceStop>>

\* resetReplay (Reset button, ArrowLeft, R): rewinds the engine and the
\* counters and blanks the canvas; it does not touch isPlaying.  The
\* engine keeps reporting the desktop and pointer it last decoded until
\* its next step.
ResetReplay ==
    /\ replay
    /\ resets < MaxResets
    /\ resets' = resets + 1
    /\ engineFrame' = 0
    /\ currentFrame' = 0
    /\ currentTimeMs' = 0
    /\ UNCHANGED <<timing, mountPc, isInitialized, replay, isPlaying, error,
                   loop, stepper, sinceStop>>
    /\ shown' = Blank
    /\ UNCHANGED <<decoded, resFlag, ptrFlag, canvasSize, cursorCanvas>>

\* The Dismiss button of the error overlay.
DismissError ==
    /\ error
    /\ error' = FALSE
    /\ UNCHANGED <<timing, mountPc, isInitialized, replay, isPlaying,
                   currentFrame, currentTimeMs, engineFrame, loop, stepper,
                   resets, sinceStop>>
    /\ UNCHANGED rvars

-----------------------------------------------------------------------------
Next ==
    \/ OnMountInit
    \/ OnMountCreate
    \/ StartReplay
    \/ StopReplay
    \/ \E l \in Loops : LoopStepReturns(l) \/ LoopWakes(l)
    \/ \E s \in Steppers : StepFrame(s) \/ StepReturns(s)
    \/ ResetReplay
    \/ DismissError

(* The event loop runs every resolved continuation and every due timer,   *)
(* so the page's own steps are weakly fair; clicks are not.               *)
Fairness ==
    /\ WF_vars(OnMountInit)
    /\ WF_vars(OnMountCreate)
    /\ \A l \in Loops : WF_vars(LoopStepReturns(l)) /\ WF_vars(LoopWakes(l))
    /\ \A s \in Steppers : WF_vars(StepReturns(s))

Spec == Init /\ [][Next]_vars /\ Fairness

-----------------------------------------------------------------------------
(* Properties *)

\* The Pause button is shown (isPlaying) only while some playFrames loop is
\* still running to clear it: every exit of the loop (end of frames, thrown
\* step) must clear isPlaying unless another loop is left to do so.
NoGhostPlaying == isPlaying => \E l \in Loops : Active(l)

\* Stop takes effect within one iteration: after stopReplay, a loop renders
\* at most the frame whose replay.step() was already in flight, and never
\* issues another step (the `while (isPlaying)` check after each await).
StopLatency == \A l \in Loops : sinceStop[l] <= 1

\* Playback that was started ends: every run of playFrames eventually clears
\* isPlaying, by reaching the last frame, by a thrown step or by Stop.
PlaybackTerminates == isPlaying ~> ~isPlaying

\* Spec section 5: no two playback loops run at the same time against the
\* same replay handle.
SingleLoop == \A l, m \in Loops : Active(l) /\ Active(m) => l = m

\* At most one replay.step() call is in flight on the engine at any time
\* (playFrames and stepFrame never overlap on the handle).
OneEngineCall ==
    Cardinality({l \in Loops : loop[l].pc = "stepping"})
      + Cardinality({s \in Steppers : stepper[s] = "stepping"}) <= 1

\* Pacing (spec 4.3 (e)): after rendering frame index k-1 the loop waits the
\* recorded gap timing[k] - timing[k-1] (none if <= 0), or the fallback delay
\* when frame k has no timing entry.
Gap(k) == IF HasEntry(k)
          THEN IF Offset(k) > Offset(k - 1) THEN Offset(k) - Offset(k - 1) ELSE 0
          ELSE Fallback

PacingFollowsTimeline ==
    \A l \in Loops :
        Active(l) /\ loop[l].after > 0 => loop[l].wait = Gap(loop[l].after)

\* Spec 4.4: the cursor a pointer bitmap shows; an empty or zero-sized
\* bitmap means no visible cursor.
CursorShown(p) == IF p \in {EmptyBitmap, ZeroSize} THEN NoCursor ELSE p

\* Spec 4.3 (c)-(d), 4.4: every frame renderFrame draws is drawn on a canvas
\* of that frame's desktop size, with that frame's cursor, although
\* handleUpdates only resizes and rebuilds the cursor when the engine's
\* one-shot flags fire: a cursor rebuild that throws must leave its flag
\* raised for the next step, through resets, thrown renders and
\* overlapping stepFrame and playFrames calls.
RenderShowsFrame ==
    shown # Blank =>
        /\ shown.size = DesktopAt[shown.frame]
        /\ shown.cursor = CursorShown(PointerAt[shown.frame])

=============================================================================
