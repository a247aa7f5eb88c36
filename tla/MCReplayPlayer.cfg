CONSTANTS
    N = 3
    TimingChoices <- MCTimingChoices
    Starts = {1, 2}
    Steppers = {1}
    MaxResets = 1

SPECIFICATION Spec

\* Every click is bounded, so a run can end with nothing left to do.
CHECK_DEADLOCK FALSE

INVARIANT TypeOK
INVARIANT NoGhostPlaying
PROPERTY PlaybackTerminates
