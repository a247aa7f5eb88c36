------------------------------- MODULE Ingest -------------------------------
(***************************************************************************)
(* Ingestion on the upload page routes/+page.svelte (processFiles) over    *)
(* the frame store of lib/pdu-store.ts (clearFrames, storeFrame,           *)
(* getFrameCount) and the timing kept in sessionStorage for the player.    *)
(*                                                                         *)
(* processFiles is async and the drop zone accepts a new folder while one  *)
(* is loading, so several invocations can be suspended at once.  Each one  *)
(* is a task with its own program counter.  The store's read-write and     *)
(* read-only transactions on the one object store run in the order they   *)
(* were created (IndexedDB orders transactions with overlapping scope), so *)
(* pending requests form a FIFO queue `txq`; a request's effect and the    *)
(* continuation of the awaiting task happen when it reaches the head.      *)
(*                                                                         *)
(* Frame bytes are abstracted to the folder they came from: store[k] = f   *)
(* means key k holds the bytes of file k of folder f.                      *)
(***************************************************************************)
EXTENDS Naturals, Sequences, FiniteSets

CONSTANTS
    Keys,           \* frame keys parseInt(file.name) can produce
    Folders,        \* folders the user can drop or select
    FolderFiles,    \* FolderFiles[f]: keys of f's PDU files, in naturalSort order
    FolderTiming,   \* FolderTiming[f]: "valid", "malformed" or "none"
    Ingestions,     \* ids of processFiles invocations (bounds drops)
    NoFrame,        \* model value: key absent from the store
    NoTiming,       \* model value: no 'rdp-timing' in sessionStorage
    Mount           \* model value: the refreshCount the page's $effect runs at mount

ASSUME \A f \in Folders : FolderTiming[f] \in {"valid", "malformed", "none"}

VARIABLES
    store,          \* committed contents of the 'frames' object store
    session,        \* sessionStorage 'rdp-timing': the folder whose timing.json it holds
    ing,            \* per processFiles invocation: pc, folder, loop index
    txq,            \* pending IndexedDB requests, in transaction creation order
    uploadStatus,   \* uploadState.status, shared by all invocations
    frameCount,
    navPending,     \* setTimeout(() => goto('/player'), 800) scheduled
    page,           \* "upload" until goto('/player') runs
    owner,          \* the invocation whose status uploadStatus shows
    overlapped      \* invocations that ran while another one was running

vars == <<store, session, ing, txq, uploadStatus, frameCount, navPending, page,
          owner, overlapped>>

IngPc == {"idle", "timing", "clear", "read", "put", "count", "success", "error"}
Running(i) == ing[i].pc \in {"timing", "clear", "read", "put", "count"}

Files(f) == FolderFiles[f]
\* The store as a completed, undisturbed ingestion of f leaves it.
FramesOf(f) == [k \in Keys |-> IF \E j \in DOMAIN Files(f) : Files(f)[j] = k
                               THEN f ELSE NoFrame]

Request == [ing : Ingestions \cup {Mount}, op : {"clear", "put", "count"}, key : Keys]

TypeOK ==
    /\ store \in [Keys -> Folders \cup {NoFrame}]
    /\ session \in Folders \cup {NoTiming}
    /\ ing \in [Ingestions -> [pc : IngPc, folder : Folders, next : Nat]]
    /\ txq \in Seq(Request)
    /\ uploadStatus \in {"idle", "loading", "success", "error"}
    /\ frameCount \in 0..Cardinality(Keys)
    /\ navPending \in BOOLEAN
    /\ page \in {"upload", "player"}
    /\ owner \in Ingestions \cup {0}
    /\ overlapped \in SUBSET Ingestions

\* The page opens on whatever an earlier visit left in the store and in
\* sessionStorage; its mount-time refreshCount has queued its count request
\* before any drop can.
Init ==
    /\ store \in {FramesOf(f) : f \in Folders} \cup {[k \in Keys |-> NoFrame]}
    /\ session \in Folders \cup {NoTiming}
    /\ ing = [i \in Ingestions |-> [pc |-> "idle", folder |-> CHOOSE f \in Folders : TRUE,
                                    next |-> 0]]
    /\ txq = <<[ing |-> Mount, op |-> "count", key |-> CHOOSE k \in Keys : TRUE]>>
    /\ uploadStatus = "idle"
    /\ frameCount = 0
    /\ navPending = FALSE
    /\ page = "upload"
    /\ owner = 0
    /\ overlapped = {}

-----------------------------------------------------------------------------
\* clearFrames: store.clear() empties the object store.
ClearFrames == [k \in Keys |-> NoFrame]

\* storeFrame(frameIndex, bytes): store.put(bytes, frameIndex).
StoreFrame(k, f) == [store EXCEPT ![k] = f]

\* Mutant of FrameCount: off by one.
FrameCountPlusOne(s) == Cardinality({k \in Keys : s[k] # NoFrame}) + 1

\* getFrameCount: store.count().
FrameCount(s) == Cardinality({k \in Keys : s[k] # NoFrame})

\* refreshCount, run once by the page's $effect at mount: the count
\* resolves into frameCount; a rejection is caught as 0.
RefreshCount ==
    \/ frameCount' = FrameCount(store)
    \/ frameCount' = 0

\* A request created by invocation i, queued behind the earlier ones.
Req(i, op, k) == [ing |-> i, op |-> op, key |-> k]
AnyKey == CHOOSE k \in Keys : TRUE

\* Mutant of Fail: the rejection is lost and the invocation never resumes.
FailNoSettle(i) ==
    /\ UNCHANGED <<ing, uploadStatus, owner>>

\* The catch block of processFiles: uploadState becomes an error.
Fail(i) ==
    /\ ing' = [ing EXCEPT ![i].pc = "error"]
    /\ uploadStatus' = "error"
    /\ owner' = i

\* From `uploadState = loading` to `await clearFrames()`.
BeginLoad(i, f) ==
    /\ ing' = [ing EXCEPT ![i] = [pc |-> "clear", folder |-> f, next |-> 0]]
    /\ txq' = Append(txq, Req(i, "clear", AnyKey))
    /\ uploadStatus' = "loading"
    /\ owner' = i

\* The head of the `for` loop with loop index n: read file n, or leave the
\* loop and `await getFrameCount()`.  q is the queue without i's request.
NextFile(i, n, q) ==
    IF n < Len(Files(ing[i].folder))
    THEN /\ ing' = [ing EXCEPT ![i].pc = "read", ![i].next = n]
         /\ txq' = q
    ELSE /\ ing' = [ing EXCEPT ![i].pc = "count", ![i].next = n]
         /\ txq' = Append(q, Req(i, "count", AnyKey))

-----------------------------------------------------------------------------
(* handleDrop / handleFolderSelect call processFiles, which runs up to its *)
(* first await: `await timingFile.text()` when the folder has timing.json, *)
(* else sessionStorage.removeItem and on to `await clearFrames()`.         *)
StartIngest(i, f) ==
    /\ page = "upload"
    /\ ing[i].pc = "idle"
    /\ \A j \in Ingestions : ing[j].pc = "idle" => i <= j
    /\ overlapped' = IF \E j \in Ingestions : Running(j)
                     THEN overlapped \cup {i} \cup {j \in Ingestions : Running(j)}
                     ELSE overlapped
    /\ IF FolderTiming[f] = "none"
       THEN /\ session' = NoTiming
            /\ BeginLoad(i, f)
       ELSE /\ ing' = [ing EXCEPT ![i] = [pc |-> "timing", folder |-> f, next |-> 0]]
            /\ UNCHANGED <<session, txq, uploadStatus, owner>>
    /\ UNCHANGED <<store, frameCount, navPending, page>>

\* timingFile.text() resolves: JSON.parse succeeds only on a valid file, and
\* only then is the text put in sessionStorage; a parse error (or a failed
\* read) is logged and ingestion goes on.
TimingRead(i) ==
    /\ ing[i].pc = "timing"
    /\ session' = IF FolderTiming[ing[i].folder] = "valid" THEN ing[i].folder
                  ELSE session
    /\ BeginLoad(i, ing[i].folder)
    /\ UNCHANGED <<store, frameCount, navPending, page, overlapped>>

\* Mutant of FileRead: stores under the file's position in the sorted list
\* instead of the index parsed from its name.
FileReadByPosition(i) ==
    /\ ing[i].pc = "read"
    /\ \/ /\ ing' = [ing EXCEPT ![i].pc = "put"]
          /\ txq' = Append(txq, Req(i, "put", ing[i].next))
          /\ UNCHANGED <<uploadStatus, owner>>
       \/ /\ Fail(i)
          /\ UNCHANGED txq
    /\ UNCHANGED <<store, session, frameCount, navPending, page, overlapped>>

\* `await file.arrayBuffer()` for file ing[i].next resolves and storeFrame is
\* called under the key parsed from its name, or the read rejects.
FileRead(i) ==
    /\ ing[i].pc = "read"
    /\ \/ /\ ing' = [ing EXCEPT ![i].pc = "put"]
          /\ txq' = Append(txq, Req(i, "put", Files(ing[i].folder)[ing[i].next + 1]))
          /\ UNCHANGED <<uploadStatus, owner>>
       \/ /\ Fail(i)
          /\ UNCHANGED txq
    /\ UNCHANGED <<store, session, frameCount, navPending, page, overlapped>>

(* The oldest pending request completes: onsuccess applies its effect and  *)
(* resumes the awaiting invocation; onerror rejects into its catch block.  *)
ProcessRequest ==
    /\ txq # <<>>
    /\ LET r == Head(txq)
           i == r.ing
       IN \/ /\ i = Mount
             /\ RefreshCount
             /\ txq' = Tail(txq)
             /\ UNCHANGED <<store, ing, uploadStatus, owner, navPending>>
          \/ /\ i # Mount
             /\ r.op = "clear"
             /\ store' = ClearFrames
             /\ NextFile(i, 0, Tail(txq))
             /\ UNCHANGED <<uploadStatus, owner, frameCount, navPending>>
          \/ /\ i # Mount
             /\ r.op = "put"
             /\ store' = StoreFrame(r.key, ing[i].folder)
             /\ NextFile(i, ing[i].next + 1, Tail(txq))
             /\ UNCHANGED <<uploadStatus, owner, frameCount, navPending>>
          \/ /\ i # Mount
             /\ r.op = "count"
             /\ frameCount' = FrameCount(store)
             /\ ing' = [ing EXCEPT ![i].pc = "success"]
             /\ uploadStatus' = "success"
             /\ owner' = i
             /\ navPending' = TRUE
             /\ txq' = Tail(txq)
             /\ UNCHANGED store
          \/ /\ i # Mount
             /\ Fail(i)
             /\ txq' = Tail(txq)
             /\ UNCHANGED <<store, frameCount, navPending>>
    /\ UNCHANGED <<session, page, overlapped>>

\* The 800 ms timer fires: goto('/player') leaves the upload page.
Navigate ==
    /\ navPending
    /\ page = "upload"
    /\ page' = "player"
    /\ UNCHANGED <<store, session, ing, txq, uploadStatus, frameCount,
                   navPending, owner, overlapped>>

Next ==
    \/ \E i \in Ingestions, f \in Folders : StartIngest(i, f)
    \/ \E i \in Ingestions : TimingRead(i) \/ FileRead(i)
    \/ ProcessRequest
    \/ Navigate

Fairness ==
    /\ \A i \in Ingestions : WF_vars(TimingRead(i)) /\ WF_vars(FileRead(i))
    /\ WF_vars(ProcessRequest)
    /\ WF_vars(Navigate)

Spec == Init /\ [][Next]_vars /\ Fairness

-----------------------------------------------------------------------------
(* Properties *)

\* Ingestion replaces the previous session (spec 3, 4.2 step 4): when an
\* ingestion that ran alone reports success, the store holds exactly the
\* frames of its folder, none left over from the session before.
StoreReplacedOnSuccess ==
    uploadStatus = "success" /\ owner \notin overlapped
        => store = FramesOf(ing[owner].folder)

\* Every processFiles invocation ends, in success or in error: each
\* awaited read and store request settles and each is handled.
IngestionEnds ==
    \A i \in Ingestions : Running(i) ~> ing[i].pc \in {"success", "error"}

\* The same without the proviso: a success report always describes the
\* store, whatever other drop was being processed meanwhile.
SessionIsolation ==
    uploadStatus = "success" => store = FramesOf(ing[owner].folder)

=============================================================================
