CONSTANTS
    Keys = {0, 1, 2}
    Folders = {"A", "B", "C"}
    FolderFiles <- MCFiles
    FolderTiming <- MCTiming
    Uploads = {1, 2}
    Refreshes = {1, 2}
    NoFrame = NoFrame
    NoTiming = NoTiming

SPECIFICATION Spec

\* Selections and Refresh clicks are bounded, so a run can end idle.
CHECK_DEADLOCK FALSE

INVARIANT TypeOK
INVARIANT StoreReplacedOnSuccess
INVARIANT CountMatchesStore
PROPERTY SelectButtonReturns
