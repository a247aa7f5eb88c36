---------------------------- MODULE ReplayPlayer ----------------------------
(***************************************************************************)
(* The library player component lib/ReplayPlayer.svelte.  It differs from  *)
(* the player page in one respect that matters: startReplay creates a      *)
(* fresh engine handle (`replay = await Replay.create(...)`) on every      *)
(* start, and every later use of `replay` -- the next step() of a loop,    *)
(* the read of replay.currentFrame after a step -- reads the variable      *)
(* again, so a loop or a step suspended across a start goes on with the    *)
(* new handle.                                                             *)
(*                                                                         *)
(* Handles are named by the start that created them: start s creates       *)
(* handle s.  The engine is the black box of PlayerPage, one frame         *)
(* counter per handle.  Canvas drawing is left out (it reads the engine    *)
(* and writes only pixels); `status` keeps the kind of message shown.      *)
(***************************************************************************)
EXTENDS Naturals, Sequences

CONSTANTS
    N,              \* frames in the store
    TimingChoices,  \* values the `timing` prop can have (offsets, ms)
    Starts,         \* ids of startReplay invocations = handles they create
    Steppers,       \* ids of stepFrame invocations
    MaxResets       \* bound on Reset clicks

ASSUME N \in Nat \ {0}
ASSUME Starts \subseteq Nat \ {0}

NoHandle == 0

VARIABLES
    timing,         \* the `timing` prop
    mountPc,        \* where onMount is suspended: "import", "init", "done"
    isInitialized,
    replay,         \* the current handle, NoHandle while null
    isPlaying,
    error,          \* TRUE when the error box is shown
    currentFrame,
    status,         \* kind of the status message
    frame,          \* frame[h]: the engine's currentFrame of handle h
    start,          \* per startReplay/playFrames invocation: pc, handle, lastTimeOffset
    stepper,        \* per stepFrame invocation: pc and the handle it stepped
    resets

vars == <<timing, mountPc, isInitialized, replay, isPlaying, error,
          currentFrame, status, frame, start, stepper, resets>>

Status == {"idle", "ready", "loadFailed", "creating", "created", "createFailed",
           "complete", "playbackFailed", "stopped", "reset", "stepped"}
StartPc == {"unstarted", "creating", "stepping", "delay", "done"}
Active(s) == start[s].pc \in {"stepping", "delay"}

HasEntry(i) == i < Len(timing)
Offset(i)   == timing[i + 1]
FirstOffset == IF HasEntry(0) THEN Offset(0) ELSE 0
Offsets == UNION {{t[i] : i \in DOMAIN t} : t \in TimingChoices} \cup {0}

\* replay.step() on a handle at frame f: the engine decodes one more frame.
Advance(f) == IF f < N THEN f + 1 ELSE f

TypeOK ==
    /\ timing \in TimingChoices
    /\ mountPc \in {"import", "init", "done"}
    /\ isInitialized \in BOOLEAN
    /\ replay \in Starts \cup {NoHandle}
    /\ isPlaying \in BOOLEAN
    /\ error \in BOOLEAN
    /\ currentFrame \in 0..N
    /\ status \in Status
    /\ frame \in [Starts -> 0..N]
    /\ start \in [Starts -> [pc : StartPc, on : Starts, last : Offsets]]
    /\ stepper \in [Steppers -> [pc : {"idle", "stepping", "done"},
                                 on : Starts \cup {NoHandle}]]
    /\ resets \in 0..MaxResets

Init ==
    /\ timing \in TimingChoices
    /\ mountPc = "import"
    /\ isInitialized = FALSE
    /\ replay = NoHandle
    /\ isPlaying = FALSE
    /\ error = FALSE
    /\ currentFrame = 0
    /\ status = "idle"
    /\ frame = [h \in Starts |-> 0]
    /\ start = [s \in Starts |-> [pc |-> "unstarted", on |-> s, last |-> 0]]
    /\ stepper = [t \in Steppers |-> [pc |-> "idle", on |-> NoHandle]]
    /\ resets = 0

-----------------------------------------------------------------------------
(* onMount: getContext, `await import(...)`, `await initWasm()`; a throw   *)
(* at any point shows the load error.                                      *)
MountImport ==
    /\ mountPc = "import"
    /\ \/ mountPc' = "init" /\ UNCHANGED <<error, status>>
       \/ mountPc' = "done" /\ error' = TRUE /\ status' = "loadFailed"
    /\ UNCHANGED <<timing, isInitialized, replay, isPlaying, currentFrame,
                   frame, start, stepper, resets>>

MountInit ==
    /\ mountPc = "init"
    /\ mountPc' = "done"
    /\ \/ isInitialized' = TRUE /\ status' = "ready" /\ UNCHANGED error
       \/ error' = TRUE /\ status' = "loadFailed" /\ UNCHANGED isInitialized
    /\ UNCHANGED <<timing, replay, isPlaying, currentFrame, frame, start,
                   stepper, resets>>

(* startReplay up to `await Replay.create(...)`.  The Play button is shown *)
(* while !isPlaying and enabled once initialised, so a second click while  *)
(* a create is pending starts a second invocation.  (The `!isInitialized`  *)
(* error branch is unreachable through the disabled button.)               *)
StartReplay(s) ==
    /\ ~isPlaying
    /\ isInitialized
    /\ start[s].pc = "unstarted"
    /\ \A r \in Starts : start[r].pc = "unstarted" => s <= r
    /\ start' = [start EXCEPT ![s].pc = "creating"]
    /\ status' = "creating"
    /\ UNCHANGED <<timing, mountPc, isInitialized, replay, isPlaying, error,
                   currentFrame, frame, stepper, resets>>

(* Replay.create resolves: the new handle replaces `replay`, isPlaying and *)
(* playFrames runs to its first `await replay.step()`; or create throws    *)
(* and the catch clears isPlaying, whoever set it.                         *)
CreateReturns(s) ==
    /\ start[s].pc = "creating"
    /\ \/ /\ replay' = s
          /\ isPlaying' = TRUE
          /\ error' = FALSE
          /\ status' = "created"
          /\ start' = [start EXCEPT ![s] = [pc |-> "stepping", on |-> s,
                                            last |-> FirstOffset]]
       \/ /\ error' = TRUE
          /\ status' = "createFailed"
          /\ isPlaying' = FALSE
          /\ start' = [start EXCEPT ![s].pc = "done"]
          /\ UNCHANGED replay
    /\ UNCHANGED <<timing, mountPc, isInitialized, currentFrame, frame,
                   stepper, resets>>

\* stopReplay: clears the flag only.
StopReplay ==
    /\ isPlaying
    /\ isPlaying' = FALSE
    /\ status' = "stopped"
    /\ UNCHANGED <<timing, mountPc, isInitialized, replay, error, currentFrame,
                   frame, start, stepper, resets>>

\* Mutant of LoopEnds: the `if (!hasMore)` exit is lost.
LoopEndsNever(cur) == FALSE

\* hasMore is false once the stepped handle has decoded its last frame.
LoopEnds(cur) == cur = N

\* Mutant of Complete: breaks out without clearing isPlaying.
CompleteKeepsPlaying(s) ==
    /\ start' = [start EXCEPT ![s].pc = "done"]
    /\ status' = "complete"
    /\ UNCHANGED isPlaying

\* `if (!hasMore)`: status "Replay complete", isPlaying cleared, break.
Complete(s) ==
    /\ start' = [start EXCEPT ![s].pc = "done"]
    /\ status' = "complete"
    /\ isPlaying' = FALSE

(* The pacing part of the loop body, with c the new currentFrame: delay =  *)
(* timing[c] - lastTimeOffset, awaited only when > 0; with no entry the   *)
(* fixed 16 ms timer.  Without an await the loop re-checks isPlaying and  *)
(* calls step() on whatever handle `replay` now holds.                    *)
Pace(s, c) ==
    IF HasEntry(c)
    THEN start' = [start EXCEPT ![s] =
           [pc   |-> IF Offset(c) - start[s].last > 0 THEN "delay"
                     ELSE IF isPlaying THEN "stepping" ELSE "done",
            on   |-> replay,
            last |-> Offset(c)]]
    ELSE start' = [start EXCEPT ![s].pc = "delay"]

(* playFrames resumes after `await replay.step()` on handle h: hasMore is  *)
(* h's, but `currentFrame = replay.currentFrame` reads the current handle. *)
(* A throw is caught: error, status, isPlaying cleared.                    *)
LoopStepReturns(s) ==
    /\ start[s].pc = "stepping"
    /\ LET h == start[s].on
           cur == Advance(frame[h])
           frame2 == [frame EXCEPT ![h] = cur]
       IN \/ /\ frame' = frame2
             /\ currentFrame' = frame2[replay]
             /\ IF LoopEnds(cur)
                THEN Complete(s)
                ELSE Pace(s, frame2[replay]) /\ UNCHANGED <<status, isPlaying>>
             /\ UNCHANGED error
          \/ /\ error' = TRUE
             /\ status' = "playbackFailed"
             /\ isPlaying' = FALSE
             /\ start' = [start EXCEPT ![s].pc = "done"]
             /\ UNCHANGED <<frame, currentFrame>>
    /\ UNCHANGED <<timing, mountPc, isInitialized, replay, stepper, resets>>

\* The pacing timer fires: `while (isPlaying)` and the next replay.step().
LoopWakes(s) ==
    /\ start[s].pc = "delay"
    /\ start' = [start EXCEPT ![s].pc = IF isPlaying THEN "stepping" ELSE "done",
                              ![s].on = replay]
    /\ UNCHANGED <<timing, mountPc, isInitialized, replay, isPlaying, error,
                   currentFrame, status, frame, stepper, resets>>

(* stepFrame, Step button enabled when initialised and not playing: with  *)
(* no handle yet it shows "No replay loaded", else awaits replay.step().  *)
StepFrame(t) ==
    /\ stepper[t].pc = "idle"
    /\ isInitialized /\ ~isPlaying
    /\ IF replay = NoHandle
       THEN /\ stepper' = [stepper EXCEPT ![t].pc = "done"]
            /\ error' = TRUE
       ELSE /\ stepper' = [stepper EXCEPT ![t] = [pc |-> "stepping", on |-> replay]]
            /\ UNCHANGED error
    /\ UNCHANGED <<timing, mountPc, isInitialized, replay, isPlaying,
                   currentFrame, status, frame, start, resets>>

\* Mutant of StepReturns: counts frames itself instead of reading the engine.
StepReturnsCounts(t) ==
    /\ stepper[t].pc = "stepping"
    /\ stepper' = [stepper EXCEPT ![t].pc = "done"]
    /\ LET h == stepper[t].on
           cur == Advance(frame[h])
       IN \/ /\ frame' = [frame EXCEPT ![h] = cur]
             /\ currentFrame' = currentFrame + 1
             /\ status' = IF LoopEnds(cur) THEN "complete" ELSE "stepped"
             /\ UNCHANGED error
          \/ /\ error' = TRUE
             /\ UNCHANGED <<frame, currentFrame, status>>
    /\ UNCHANGED <<timing, mountPc, isInitialized, replay, isPlaying, start,
                   resets>>

(* stepFrame resumes: currentFrame from the current handle, status from   *)
(* hasMore of the stepped one; a throw shows "Step error".                *)
StepReturns(t) ==
    /\ stepper[t].pc = "stepping"
    /\ stepper' = [stepper EXCEPT ![t].pc = "done"]
    /\ LET h == stepper[t].on
           cur == Advance(frame[h])
           frame2 == [frame EXCEPT ![h] = cur]
       IN \/ /\ frame' = frame2
             /\ currentFrame' = frame2[replay]
             /\ status' = IF LoopEnds(cur) THEN "complete" ELSE "stepped"
             /\ UNCHANGED error
          \/ /\ error' = TRUE
             /\ UNCHANGED <<frame, currentFrame, status>>
    /\ UNCHANGED <<timing, mountPc, isInitialized, replay, isPlaying, start,
                   resets>>

\* resetReplay (Reset button, enabled once a handle exists): replay.reset().
ResetReplay ==
    /\ replay # NoHandle
    /\ resets < MaxResets
    /\ resets' = resets + 1
    /\ frame' = [frame EXCEPT ![replay] = 0]
    /\ currentFrame' = 0
    /\ status' = "reset"
    /\ UNCHANGED <<timing, mountPc, isInitialized, replay, isPlaying, error,
                   start, stepper>>

-----------------------------------------------------------------------------
Next ==
    \/ MountImport \/ MountInit
    \/ StopReplay \/ ResetReplay
    \/ \E s \in Starts : StartReplay(s) \/ CreateReturns(s)
                         \/ LoopStepReturns(s) \/ LoopWakes(s)
    \/ \E t \in Steppers : StepFrame(t) \/ StepReturns(t)

\* Promise resolutions and timers are run by the event loop; clicks are not.
Fairness ==
    /\ WF_vars(MountImport) /\ WF_vars(MountInit)
    /\ \A s \in Starts : /\ WF_vars(CreateReturns(s))
                         /\ WF_vars(LoopStepReturns(s))
                         /\ WF_vars(LoopWakes(s))
    /\ \A t \in Steppers : WF_vars(StepReturns(t))

Spec == Init /\ [][Next]_vars /\ Fairness

-----------------------------------------------------------------------------
(* Properties *)

\* The Stop button (isPlaying) is shown only while a playFrames loop is
\* running to clear it again: create failures, the end of frames and step
\* errors all clear it unless another loop remains.
NoGhostPlaying == isPlaying => \E s \in Starts : Active(s)

\* Every playback ends: with fresh handles and loops that outlive a start,
\* isPlaying is still eventually cleared.
PlaybackTerminates == isPlaying ~> ~isPlaying

\* "Replay complete" is shown only when the handle the player now holds has
\* decoded its last frame (spec 4.3: Playing -> Complete when the session
\* handle has no more frames; the handle is owned by one playback attempt).
CompleteOnlyAtEnd == status = "complete" => frame[replay] = N
=============================================================================
