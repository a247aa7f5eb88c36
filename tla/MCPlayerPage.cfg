CONSTANTS
    N = 3
    TimingChoices <- MCTimingChoices
    Fallback = 16
    Loops = {1, 2, 3}
    Steppers = {1}
    MaxResets = 1
    DesktopAt <- MCDesktopAt
    PointerAt <- MCPointerAt
    EmptyBitmap = EmptyBitmap
    ZeroSize = ZeroSize
    NoCursor = NoCursor
    Unpainted = Unpainted
    Blank = Blank

SPECIFICATION Spec

\* Every click is bounded, so a run can end with nothing left to do.
CHECK_DEADLOCK FALSE

INVARIANT TypeOK
INVARIANT NoGhostPlaying
INVARIANT StopLatency
INVARIANT RenderShowsFrame
PROPERTY PlaybackTerminates
