CONSTANTS
    Keys = {0, 1, 2}
    Folders = {"A", "B", "C"}
    FolderFiles <- MCFolderFiles
    FolderTiming <- MCFolderTiming
    Ingestions = {1, 2}
    NoFrame = NoFrame
    NoTiming = NoTiming
    Mount = Mount

SPECIFICATION Spec

\* Drops are bounded, so a run ends with every invocation finished.
CHECK_DEADLOCK FALSE

INVARIANT TypeOK
INVARIANT StoreReplacedOnSuccess
PROPERTY IngestionEnds
