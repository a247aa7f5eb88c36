CONSTANTS
    Keys = {0, 1}
    Calls = {1, 2}
    BatchLen = 2
    NoFrame = NoFrame
    NoConn = NoConn
    None = None

SPECIFICATION Spec

\* Calls are bounded, so a run ends once every call has finished.
CHECK_DEADLOCK FALSE

INVARIANT TypeOK
PROPERTY RequestCallsSettle
PROPERTY StoreRefinement
