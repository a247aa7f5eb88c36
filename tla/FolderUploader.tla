--------------------------- MODULE FolderUploader ---------------------------
(***************************************************************************)
(* The library uploader lib/FolderUploader.svelte: handleFolderSelect      *)
(* ingests a selected folder into the frame store (clearFrames,            *)
(* storeFrame, getFrameCount of lib/pdu-store.ts) and sets the bindable    *)
(* `timing` prop; refreshCount re-reads the count (on mount and from the   *)
(* Refresh button).                                                        *)
(*                                                                         *)
(* The Select button is disabled while uploadState is "loading", but the   *)
(* handler awaits timing.json before it sets "loading", so a second folder *)
(* can be selected in that window.  Requests of all invocations go to one  *)
(* object store and complete in creation order (the FIFO `txq`).           *)
(*                                                                         *)
(* A file name is a sequence of decimal digits (names that fail /^\d+$/    *)
(* other than timing.json are filtered out and play no part).  The store   *)
(* maps a key to the <<folder, name>> of the file whose bytes it holds.    *)
(***************************************************************************)
EXTENDS Naturals, Sequences, FiniteSets, SequencesExt

CONSTANTS
    Keys,           \* frame keys parseInt can produce from the names below
    Folders,        \* folders the user can select
    FolderFiles,    \* FolderFiles[f]: the set of PDU file names in f
    FolderTiming,   \* FolderTiming[f]: "valid", "malformed" or "none"
    Uploads,        \* ids of handleFolderSelect invocations
    Refreshes,      \* ids of refreshCount invocations; the least is the mount's
    NoFrame,        \* model value: key absent from the store
    NoTiming        \* model value: timing = []

VARIABLES
    store,          \* committed contents of the 'frames' object store
    timing,         \* the folder whose timing.json the prop holds, or NoTiming
    up,             \* per handleFolderSelect invocation: pc, folder, file order, loop index
    refresh,        \* per refreshCount invocation: pc
    txq,            \* pending IndexedDB requests, in creation order
    uploadStatus,
    frameCount,
    owner,          \* the invocation whose outcome uploadStatus shows
    overlapped,     \* invocations that ran while another one was running
    lastCount       \* whether the last settled count request succeeded

vars == <<store, timing, up, refresh, txq, uploadStatus, frameCount, owner,
          overlapped, lastCount>>

-----------------------------------------------------------------------------
(* parseInt(name, 10) of a digit string, and the order naturalSort leaves  *)
(* the PDU files in: ascending by parseInt of the leading digit run (the   *)
(* whole name here); Array.prototype.sort is stable, so names with equal   *)
(* values ("1", "01") keep the FileList order, which the browser chooses.  *)
ParseInt(name) == FoldLeft(LAMBDA acc, d : 10 * acc + d, 0, name)

SortedOrders(f) ==
    {o \in SetToSeqs(FolderFiles[f]) :
        \A j \in 1..Len(o) - 1 : ParseInt(o[j]) <= ParseInt(o[j + 1])}

\* The store after clear and the puts of order o alone: each key holds the
\* last file of o that parses to it.
Written(f, o) ==
    [k \in Keys |-> IF \E j \in DOMAIN o : ParseInt(o[j]) = k
                    THEN <<f, o[Max({j \in DOMAIN o : ParseInt(o[j]) = k})]>>
                    ELSE NoFrame]

UpPc == {"idle", "timing", "clear", "read", "put", "count", "done"}
Running(i) == up[i].pc \in UpPc \ {"idle", "done"}
Names == UNION {FolderFiles[f] : f \in Folders}
Request == [kind : {"up"}, id : Uploads, op : {"clear", "put", "count"}, key : Keys]
           \cup [kind : {"refresh"}, id : Refreshes, op : {"count"}, key : Keys]
AnyKey == CHOOSE k \in Keys : TRUE
MountRefresh == CHOOSE r \in Refreshes : \A q \in Refreshes : r <= q

TypeOK ==
    /\ store \in [Keys -> (Folders \X Names) \cup {NoFrame}]
    /\ timing \in Folders \cup {NoTiming}
    /\ up \in [Uploads -> [pc : UpPc, folder : Folders,
                           order : UNION {SortedOrders(f) : f \in Folders},
                           next : Nat]]
    /\ refresh \in [Refreshes -> {"idle", "counting", "done"}]
    /\ txq \in Seq(Request)
    /\ uploadStatus \in {"idle", "loading", "success", "error"}
    /\ frameCount \in 0..Cardinality(Keys)
    /\ owner \in Uploads \cup {0}
    /\ overlapped \in SUBSET Uploads
    /\ lastCount \in {"none", "ok", "failed"}

\* An earlier session may have left any folder's frames.  The component
\* mounts: the $effect has called refreshCount, whose count is pending.
Init ==
    /\ store \in UNION {{Written(f, o) : o \in SortedOrders(f)} : f \in Folders}
                 \cup {[k \in Keys |-> NoFrame]}
    /\ timing = NoTiming
    /\ up = [i \in Uploads |-> LET f0 == CHOOSE g \in Folders : TRUE
                               IN [pc |-> "idle", folder |-> f0,
                                   order |-> CHOOSE o \in SortedOrders(f0) : TRUE,
                                   next |-> 0]]
    /\ refresh = [r \in Refreshes |-> IF r = MountRefresh THEN "counting" ELSE "idle"]
    /\ txq = <<[kind |-> "refresh", id |-> MountRefresh, op |-> "count", key |-> AnyKey]>>
    /\ uploadStatus = "idle"
    /\ frameCount = 0
    /\ owner = 0
    /\ overlapped = {}
    /\ lastCount = "none"

-----------------------------------------------------------------------------
UpReq(i, op, k) == [kind |-> "up", id |-> i, op |-> op, key |-> k]

\* Mutant of FrameCount: off by one.
FrameCountPlusOne(s) == Cardinality({k \in Keys : s[k] # NoFrame}) + 1

\* getFrameCount: store.count().
FrameCount(s) == Cardinality({k \in Keys : s[k] # NoFrame})

\* Mutant of UploadCount: reports the number of PDU files read, not the count.
UploadCountFiles(i) == Len(up[i].order)

\* `frameCount = await getFrameCount()` after the loop of invocation i.
UploadCount(i) == FrameCount(store)

\* uploadState = loading; `await clearFrames()`.
BeginLoad(i) ==
    /\ up' = [up EXCEPT ![i].pc = "clear"]
    /\ txq' = Append(txq, UpReq(i, "clear", AnyKey))
    /\ uploadStatus' = "loading"
    /\ owner' = i

\* Mutant of Fail: the catch block forgets to leave the loading state.
FailKeepsStatus(i) ==
    /\ up' = [up EXCEPT ![i].pc = "done"]
    /\ uploadStatus' = uploadStatus
    /\ owner' = i

\* The catch block: uploadState becomes an error.
Fail(i) ==
    /\ up' = [up EXCEPT ![i].pc = "done"]
    /\ uploadStatus' = "error"
    /\ owner' = i

\* Head of the for loop at index n: read pduFiles[n], or getFrameCount().
NextFile(i, n, q) ==
    IF n < Len(up[i].order)
    THEN /\ up' = [up EXCEPT ![i].pc = "read", ![i].next = n]
         /\ txq' = q
    ELSE /\ up' = [up EXCEPT ![i].pc = "count", ![i].next = n]
         /\ txq' = Append(q, UpReq(i, "count", AnyKey))

-----------------------------------------------------------------------------
(* The input's change event runs handleFolderSelect: naturalSort, then     *)
(* `await timingFile.text()` if there is a timing.json, else timing = []   *)
(* and on to "loading" and `await clearFrames()`.  The button opening the  *)
(* picker is disabled while "loading".                                     *)
SelectFolder(i, f, o) ==
    /\ uploadStatus # "loading"
    /\ up[i].pc = "idle"
    /\ \A j \in Uploads : up[j].pc = "idle" => i <= j
    /\ overlapped' = IF \E j \in Uploads : Running(j)
                     THEN overlapped \cup {i} \cup {j \in Uploads : Running(j)}
                     ELSE overlapped
    /\ IF FolderTiming[f] = "none"
       THEN /\ timing' = NoTiming
            /\ up' = [up EXCEPT ![i] = [pc |-> "clear", folder |-> f, order |-> o,
                                        next |-> 0]]
            /\ txq' = Append(txq, UpReq(i, "clear", AnyKey))
            /\ uploadStatus' = "loading"
            /\ owner' = i
       ELSE /\ up' = [up EXCEPT ![i] = [pc |-> "timing", folder |-> f, order |-> o,
                                        next |-> 0]]
            /\ UNCHANGED <<timing, txq, uploadStatus, owner>>
    /\ UNCHANGED <<store, refresh, frameCount, lastCount>>

\* `timing = JSON.parse(await timingFile.text())`; a parse (or read) error
\* is only logged, and `timing` keeps whatever it held before.
TimingRead(i) ==
    /\ up[i].pc = "timing"
    /\ timing' = IF FolderTiming[up[i].folder] = "valid" THEN up[i].folder
                 ELSE timing
    /\ BeginLoad(i)
    /\ UNCHANGED <<store, refresh, frameCount, overlapped, lastCount>>

\* Mutant of FileRead: keys a file by its position in the sorted list.
FileReadByPosition(i) ==
    /\ up[i].pc = "read"
    /\ \/ /\ up' = [up EXCEPT ![i].pc = "put"]
          /\ txq' = Append(txq, UpReq(i, "put", up[i].next))
          /\ UNCHANGED <<uploadStatus, owner>>
       \/ Fail(i) /\ UNCHANGED txq
    /\ UNCHANGED <<store, timing, refresh, frameCount, overlapped, lastCount>>

\* `await file.arrayBuffer()` resolves and storeFrame(parseInt(file.name))
\* is called, or the read rejects into the catch block.
FileRead(i) ==
    /\ up[i].pc = "read"
    /\ \/ /\ up' = [up EXCEPT ![i].pc = "put"]
          /\ txq' = Append(txq, UpReq(i, "put", ParseInt(up[i].order[up[i].next + 1])))
          /\ UNCHANGED <<uploadStatus, owner>>
       \/ Fail(i) /\ UNCHANGED txq
    /\ UNCHANGED <<store, timing, refresh, frameCount, overlapped, lastCount>>

\* The Refresh Count button: refreshCount awaits getFrameCount().
RefreshCount(r) ==
    /\ refresh[r] = "idle"
    /\ refresh' = [refresh EXCEPT ![r] = "counting"]
    /\ txq' = Append(txq, [kind |-> "refresh", id |-> r, op |-> "count", key |-> AnyKey])
    /\ UNCHANGED <<store, timing, up, uploadStatus, frameCount, owner,
                   overlapped, lastCount>>

(* The oldest request completes and its awaiting invocation resumes; on   *)
(* an error an upload enters its catch block and a refresh shows 0.       *)
ProcessRequest ==
    /\ txq # <<>>
    /\ LET r == Head(txq)
           i == r.id
       IN \/ /\ r.kind = "refresh"
             /\ refresh' = [refresh EXCEPT ![i] = "done"]
             /\ \/ frameCount' = FrameCount(store) /\ lastCount' = "ok"
                \/ frameCount' = 0 /\ lastCount' = "failed"
             /\ txq' = Tail(txq)
             /\ UNCHANGED <<store, up, uploadStatus, owner>>
          \/ /\ r.kind = "up" /\ r.op = "clear"
             /\ store' = [k \in Keys |-> NoFrame]
             /\ NextFile(i, 0, Tail(txq))
             /\ UNCHANGED <<refresh, uploadStatus, frameCount, owner, lastCount>>
          \/ /\ r.kind = "up" /\ r.op = "put"
             /\ store' = [store EXCEPT ![r.key] =
                            <<up[i].folder, up[i].order[up[i].next + 1]>>]
             /\ NextFile(i, up[i].next + 1, Tail(txq))
             /\ UNCHANGED <<refresh, uploadStatus, frameCount, owner, lastCount>>
          \/ /\ r.kind = "up" /\ r.op = "count"
             /\ frameCount' = UploadCount(i)
             /\ lastCount' = "ok"
             /\ up' = [up EXCEPT ![i].pc = "done"]
             /\ uploadStatus' = "success"
             /\ owner' = i
             /\ txq' = Tail(txq)
             /\ UNCHANGED <<store, refresh>>
          \/ /\ r.kind = "up"
             /\ Fail(i)
             /\ lastCount' = IF r.op = "count" THEN "failed" ELSE lastCount
             /\ txq' = Tail(txq)
             /\ UNCHANGED <<store, refresh, frameCount>>
    /\ UNCHANGED <<timing, overlapped>>

Next ==
    \/ \E i \in Uploads, f \in Folders : \E o \in SortedOrders(f) : SelectFolder(i, f, o)
    \/ \E i \in Uploads : TimingRead(i) \/ FileRead(i)
    \/ \E r \in Refreshes : RefreshCount(r)
    \/ ProcessRequest

Fairness ==
    /\ \A i \in Uploads : WF_vars(TimingRead(i)) /\ WF_vars(FileRead(i))
    /\ WF_vars(ProcessRequest)

Spec == Init /\ [][Next]_vars /\ Fairness

-----------------------------------------------------------------------------
(* Properties *)

Quiescent == txq = <<>> /\ \A i \in Uploads : ~Running(i)

\* Spec 4.2 step 4: when an upload that ran alone reports success, the store
\* holds exactly its folder's frames, each under the value of its own name,
\* nothing of the session before.
StoreReplacedOnSuccess ==
    uploadStatus = "success" /\ owner \notin overlapped
        => store = Written(up[owner].folder, up[owner].order)

\* "Frames in database" after a success is the store's count once all
\* requests have settled: no count read earlier (the mount's refresh, a
\* Refresh click during the upload) overwrites the upload's own count.
CountMatchesStore ==
    uploadStatus = "success" /\ Quiescent /\ lastCount = "ok"
        => frameCount = FrameCount(store)

\* The Select Folder button, disabled while uploadState is "loading", comes
\* back: whatever reads and requests fail and however selections overlap,
\* handleFolderSelect's try/catch always ends the loading state.
SelectButtonReturns == uploadStatus = "loading" ~> uploadStatus # "loading"

=============================================================================
