CONSTANTS
    N = 3
    TimingChoices <- MCTimingChoices
    Fallback = 16
    Loops = {1, 2}
    Steppers = {1}
    MaxResets = 1
    DesktopAt <- MCDesktopAt
    PointerAt <- MCPointerAt
    EmptyBitmap = EmptyBitmap
    ZeroSize = ZeroSize
    NoCursor = NoCursor
    Unpainted = Unpainted
    Blank = Blank

SPECIFICATION Spec
CHECK_DEADLOCK FALSE

INVARIANT OneEngineCall
