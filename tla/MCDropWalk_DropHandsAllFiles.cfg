CONSTANTS
    f1 = f1
    f2 = f2
    f3 = f3
    FileNames = {f1, f2, f3}
    \* Stands for Chrome's 100 entries per readEntries() call.
    BatchMax = 2
    Drops <- MCDrops

SPECIFICATION Spec

\* One drop per page visit in this model: the walk stops once it is done.
CHECK_DEADLOCK FALSE

INVARIANT DropHandsAllFiles
