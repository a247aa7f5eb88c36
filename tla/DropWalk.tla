------------------------------ MODULE DropWalk ------------------------------
(***************************************************************************)
(* handleDrop, readDirectory and getFile of routes/+page.svelte: the walk  *)
(* that turns a drop into the File[] handed to processFiles.               *)
(*                                                                         *)
(* Two browser behaviours shape the walk:                                  *)
(*  - the DataTransferItemList is readable only while the drop event is    *)
(*    being dispatched; once the handler first awaits, the dispatch is     *)
(*    over and the list reports length 0 (`live`);                         *)
(*  - one readEntries() call returns one batch of at most BatchMax         *)
(*    entries of a directory; the rest needs further calls.                *)
(* Every await (file(), readEntries()) is a step; each may reject, which   *)
(* rejects handleDrop itself.                                              *)
(***************************************************************************)
EXTENDS Naturals, Sequences, SequencesExt

CONSTANTS
    FileNames,  \* the files of the drop, as model values
    BatchMax,   \* entries returned by one readEntries() call
    Drops       \* the item sequences a drop may carry

\* An item is a dropped file or a dropped directory with its file entries.
Item == [kind : {"file", "dir"}, files : Seq(FileNames)]

ASSUME Drops \subseteq Seq(Item) /\ BatchMax \in Nat \ {0}

VARIABLES
    items,      \* event.dataTransfer.items, as the drop carried them
    live,       \* the drop event is still being dispatched
    pc,         \* handleDrop's suspension point
    idx,        \* the for-of index into items
    batch,      \* `entries` of the readDirectory in progress
    bidx,       \* its for-of index
    files,      \* the `files` array being collected
    handed,     \* the array processFiles was called with
    isDragging

vars == <<items, live, pc, idx, batch, bidx, files, handed, isDragging>>

DroppedFiles == UNION {ToSet(items[i].files) : i \in DOMAIN items}

\* items.length as the for-of loop sees it.
ItemCount(l) == IF l THEN Len(items) ELSE 0

\* One readEntries() call: the first BatchMax entries.
ReadEntries(dir) == SubSeq(dir, 1, IF Len(dir) < BatchMax THEN Len(dir) ELSE BatchMax)

TypeOK ==
    /\ items \in Drops
    /\ live \in BOOLEAN
    /\ pc \in {"idle", "getFile", "readEntries", "dirFile", "done", "rejected"}
    /\ idx \in 0..Len(items)
    /\ batch \in Seq(FileNames) /\ Len(batch) <= BatchMax
    /\ bidx \in 0..BatchMax
    /\ files \in Seq(FileNames) /\ handed \in Seq(FileNames)
    /\ isDragging \in BOOLEAN

Init ==
    /\ items \in Drops
    /\ live = FALSE
    /\ pc = "idle"
    /\ idx = 0 /\ batch = <<>> /\ bidx = 0
    /\ files = <<>> /\ handed = <<>>
    /\ isDragging = FALSE

\* The head of `for (const item of items)` at index i, run synchronously
\* with list liveness l and collected files fs: await on item i, which ends
\* the event dispatch, or leave the loop and call processFiles(files) when
\* files were found.
Iterate(i, l, fs) ==
    \/ /\ i <= ItemCount(l)
       /\ idx' = i /\ live' = FALSE
       /\ pc' = IF items[i].kind = "dir" THEN "readEntries" ELSE "getFile"
       /\ UNCHANGED handed
    \/ /\ i > ItemCount(l)
       /\ pc' = "done" /\ live' = l /\ UNCHANGED idx
       /\ handed' = IF fs # <<>> THEN fs ELSE handed

\* A rejected file() or readEntries() rejects handleDrop: nothing is handed.
Reject == pc' = "rejected" /\ UNCHANGED <<items, live, idx, batch, bidx, files, handed, isDragging>>

DragOver == isDragging' = TRUE /\ UNCHANGED <<items, live, pc, idx, batch, bidx, files, handed>>

DragLeave == isDragging' = FALSE /\ UNCHANGED <<items, live, pc, idx, batch, bidx, files, handed>>

Drop ==
    /\ pc = "idle"
    /\ isDragging' = FALSE
    /\ files' = <<>>
    /\ Iterate(1, TRUE, <<>>)
    /\ UNCHANGED <<items, batch, bidx>>

\* getFile(entry) of a dropped file settles.
GetFileDone ==
    /\ pc = "getFile"
    /\ \/ LET fs == Append(files, items[idx].files[1])
          IN files' = fs /\ Iterate(idx + 1, live, fs)
             /\ UNCHANGED <<items, batch, bidx, isDragging>>
       \/ Reject

\* readDirectory's single readEntries() call settles.
ReadEntriesDone ==
    /\ pc = "readEntries"
    /\ \/ LET b == ReadEntries(items[idx].files)
          IN /\ batch' = b
             /\ \/ b # <<>> /\ bidx' = 1 /\ pc' = "dirFile"
                   /\ UNCHANGED <<live, idx, handed>>
                \/ b = <<>> /\ bidx' = 0 /\ Iterate(idx + 1, live, files)
             /\ UNCHANGED <<items, files, isDragging>>
       \/ Reject

\* getFile of the bidx-th entry settles; after the last, readDirectory
\* returns and handleDrop's loop goes on.
DirFileDone ==
    /\ pc = "dirFile"
    /\ \/ LET fs == Append(files, batch[bidx])
          IN /\ files' = fs
             /\ \/ bidx < Len(batch) /\ bidx' = bidx + 1
                   /\ UNCHANGED <<live, pc, idx, handed>>
                \/ bidx = Len(batch) /\ Iterate(idx + 1, live, fs)
                   /\ UNCHANGED bidx
             /\ UNCHANGED <<items, batch, isDragging>>
       \/ Reject

Next == DragOver \/ DragLeave \/ Drop \/ GetFileDone \/ ReadEntriesDone \/ DirFileDone

\* The file and directory callbacks are always called.
Spec == Init /\ [][Next]_vars /\ WF_vars(GetFileDone \/ ReadEntriesDone \/ DirFileDone)

\* A drop that completes hands processFiles every file of every dropped
\* item (handleDrop's for-of over items and readDirectory's readEntries).
DropHandsAllFiles == pc = "done" => ToSet(handed) = DroppedFiles
=============================================================================
