----------------------------- MODULE FrameStore -----------------------------
(***************************************************************************)
(* The frame store lib/pdu-store.ts, as the library exports it: any number *)
(* of callers invoke clearFrames, storeFrame, storeFrames, getFrame,       *)
(* getFrameCount, getAllFrames and closeDatabase in any order.             *)
(*                                                                         *)
(* Every call first awaits openDatabase(), which returns the cached        *)
(* `dbInstance` or issues indexedDB.open(); then it creates a transaction  *)
(* on the connection it got.  IndexedDB runs the transactions on the one   *)
(* object store in creation order (the FIFO `txq`); each runs its request  *)
(* (onsuccess / onerror) and then commits or aborts.  Only `committed`    *)
(* is ever visible to a later transaction.                                 *)
(*                                                                         *)
(* Open requests are served in the order they were issued (`openq`).  A    *)
(* connection is named by the call whose open created it.  Frame bytes    *)
(* are abstracted to the id of the call that wrote them.                   *)
(***************************************************************************)
EXTENDS Naturals, Sequences, FiniteSets

CONSTANTS
    Keys,           \* frame indices callers use
    Calls,          \* ids of library calls (bounds the calls)
    BatchLen,       \* length of the frames array passed to storeFrames
    NoFrame,        \* model value: no frame under a key
    NoConn,         \* model value: dbInstance = null
    None            \* model value: the result of a call that resolves with none

ASSUME 0..BatchLen - 1 \subseteq Keys

VARIABLES
    dbInstance,     \* the cached connection, or NoConn
    conns,          \* conns[x]: state of the connection opened by call x
    openq,          \* pending indexedDB.open requests, in issue order
    call,           \* per call: pc, op, key and the connection it awaited
    result,         \* per call: the value its promise resolved with
    txq,            \* transactions created and not finished, in order
    committed,      \* the object store's committed contents
    acked           \* per key, what the writes resolved so far promised

vars == <<dbInstance, conns, openq, call, result, txq, committed, acked>>

Ops == {"clear", "put", "putAll", "get", "count", "getAll", "close"}
Writes == {"clear", "put", "putAll"}
CallPc == {"idle", "opening", "opened", "queued", "requested", "done", "failed"}
Val == Calls \cup {NoFrame}
Store == [Keys -> Val]
Empty == [k \in Keys |-> NoFrame]
Settled(c) == call[c].pc \in {"done", "failed"}
InFlight(c) == call[c].pc \notin {"idle", "done", "failed"}

TypeOK ==
    /\ dbInstance \in Calls \cup {NoConn}
    /\ conns \in [Calls -> {"none", "open", "closed"}]
    /\ openq \in Seq(Calls)
    /\ call \in [Calls -> [pc : CallPc, op : Ops, key : Keys, conn : Calls \cup {NoConn}]]
    /\ \A c \in Calls :
          result[c] \in CASE call[c].op = "get"    -> Val \cup {None}
                         [] call[c].op = "count"  -> (0..Cardinality(Keys)) \cup {None}
                         [] call[c].op = "getAll" -> Store \cup {None}
                         [] OTHER                 -> {None}
    /\ txq \in Seq([id : Calls, phase : {"pending", "requested"}])
    /\ committed \in Store
    /\ acked \in Store

Init ==
    /\ dbInstance = NoConn
    /\ conns = [x \in Calls |-> "none"]
    /\ openq = <<>>
    /\ call = [c \in Calls |-> [pc |-> "idle", op |-> "close",
                                key |-> CHOOSE k \in Keys : TRUE, conn |-> NoConn]]
    /\ result = [c \in Calls |-> None]
    /\ txq = <<>>
    /\ committed \in {Empty} \cup {[k \in Keys |-> c] : c \in Calls}
    /\ acked = committed

-----------------------------------------------------------------------------
(* The effect of a write call's transaction on the store.                 *)

\* clearFrames: store.clear().
ClearEffect(s) == Empty

\* storeFrame(index, data): store.put(data, index).
PutEffect(s, c) == [s EXCEPT ![call[c].key] = c]

\* Mutant of PutAllEffect: the loop stops one frame short.
PutAllEffectShort(s, c) == [k \in Keys |-> IF k < BatchLen - 1 THEN c ELSE s[k]]

\* storeFrames(frames): store.put(frames[i], i) for each i, one transaction.
PutAllEffect(s, c) == [k \in Keys |-> IF k < BatchLen THEN c ELSE s[k]]

Effect(s, c) ==
    CASE call[c].op = "clear"  -> ClearEffect(s)
      [] call[c].op = "put"    -> PutEffect(s, c)
      [] call[c].op = "putAll" -> PutAllEffect(s, c)
      [] OTHER                 -> s

(* What a read call's request yields on the store.                        *)

\* getFrame(index): request.result, undefined when absent.
GetFrame(s, k) == s[k]

\* Mutant of GetFrameCount: off by one.
GetFrameCountPlusOne(s) == Cardinality({k \in Keys : s[k] # NoFrame}) + 1

\* getFrameCount: store.count().
GetFrameCount(s) == Cardinality({k \in Keys : s[k] # NoFrame})

\* getAllFrames: the cursor walks the keys in order and sets
\* frames[cursor.key] = cursor.value, leaving holes at missing keys.
GetAllFrames(s) == [k \in Keys |-> s[k]]

ReadResult(s, c) ==
    CASE call[c].op = "get"   -> GetFrame(s, call[c].key)
      [] call[c].op = "count" -> GetFrameCount(s)
      [] OTHER                -> GetAllFrames(s)

-----------------------------------------------------------------------------
(* A caller invokes an operation.  closeDatabase is synchronous.  Every   *)
(* other one runs `await openDatabase()`: with a cached dbInstance it      *)
(* resumes with it; otherwise it issues indexedDB.open and awaits it.     *)
CloseDatabase(c) ==
    /\ call[c].pc = "idle"
    /\ call' = [call EXCEPT ![c].pc = "done", ![c].op = "close"]
    /\ IF dbInstance # NoConn
       THEN /\ conns' = [conns EXCEPT ![dbInstance] = "closed"]
            /\ dbInstance' = NoConn
       ELSE UNCHANGED <<conns, dbInstance>>
    /\ UNCHANGED <<openq, result, txq, committed, acked>>

OpenDatabase(c, op, k) ==
    /\ call[c].pc = "idle"
    /\ op # "close"
    /\ IF dbInstance # NoConn
       THEN /\ call' = [call EXCEPT ![c] = [pc |-> "opened", op |-> op, key |-> k,
                                            conn |-> dbInstance]]
            /\ UNCHANGED openq
       ELSE /\ call' = [call EXCEPT ![c] = [pc |-> "opening", op |-> op, key |-> k,
                                            conn |-> NoConn]]
            /\ openq' = Append(openq, c)
    /\ UNCHANGED <<dbInstance, conns, result, txq, committed, acked>>

\* Mutant of OpenDone: without request.onerror, a failed open never settles.
OpenDoneNoError ==
    /\ openq # <<>>
    /\ LET c == Head(openq) IN
       \/ /\ conns' = [conns EXCEPT ![c] = "open"]
          /\ dbInstance' = c
          /\ call' = [call EXCEPT ![c].pc = "opened", ![c].conn = c]
       \/ UNCHANGED <<conns, dbInstance, call>>
    /\ openq' = Tail(openq)
    /\ UNCHANGED <<result, txq, committed, acked>>

\* The oldest open request completes: onsuccess caches the new connection
\* in dbInstance (replacing any cached one) and resolves; onerror rejects.
OpenDone ==
    /\ openq # <<>>
    /\ LET c == Head(openq) IN
       \/ /\ conns' = [conns EXCEPT ![c] = "open"]
          /\ dbInstance' = c
          /\ call' = [call EXCEPT ![c].pc = "opened", ![c].conn = c]
       \/ /\ call' = [call EXCEPT ![c].pc = "failed"]
          /\ UNCHANGED <<conns, dbInstance>>
    /\ openq' = Tail(openq)
    /\ UNCHANGED <<result, txq, committed, acked>>

\* The caller resumes with its connection and runs `db.transaction(...)`
\* and the request inside the Promise executor; on a closed connection
\* db.transaction throws and the executor's promise rejects.
Transact(c) ==
    /\ call[c].pc = "opened"
    /\ IF conns[call[c].conn] = "open"
       THEN /\ call' = [call EXCEPT ![c].pc = "queued"]
            /\ txq' = Append(txq, [id |-> c, phase |-> "pending"])
       ELSE /\ call' = [call EXCEPT ![c].pc = "failed"]
            /\ UNCHANGED txq
    /\ UNCHANGED <<dbInstance, conns, openq, result, committed, acked>>

(* The oldest transaction's request completes.  onsuccess resolves every  *)
(* call except storeFrames, which waits for oncomplete; a request error    *)
(* rejects the call (for storeFrames via the bubbling transaction.onerror) *)
(* and aborts the transaction.                                             *)
RequestDone ==
    /\ txq # <<>>
    /\ Head(txq).phase = "pending"
    /\ LET c == Head(txq).id IN
       \/ /\ call[c].op # "putAll"
          /\ call' = [call EXCEPT ![c].pc = "done"]
          /\ result' = [result EXCEPT ![c] =
                          IF call[c].op \in Writes THEN None ELSE ReadResult(committed, c)]
          /\ acked' = IF call[c].op \in Writes THEN Effect(acked, c) ELSE acked
          /\ txq' = IF call[c].op \in Writes
                    THEN [txq EXCEPT ![1].phase = "requested"] ELSE Tail(txq)
       \/ /\ call[c].op = "putAll"
          /\ call' = [call EXCEPT ![c].pc = "requested"]
          /\ txq' = [txq EXCEPT ![1].phase = "requested"]
          /\ UNCHANGED <<result, acked>>
       \/ /\ call' = [call EXCEPT ![c].pc = "failed"]
          /\ txq' = Tail(txq)
          /\ UNCHANGED <<result, acked>>
    /\ UNCHANGED <<dbInstance, conns, openq, committed>>

(* The oldest readwrite transaction, its requests done, commits (and      *)
(* oncomplete resolves storeFrames) or aborts at commit, e.g. on a quota  *)
(* error: the writes are rolled back and only an `abort` event fires,     *)
(* which no function of pdu-store.ts listens to.                          *)
Finish ==
    /\ txq # <<>>
    /\ Head(txq).phase = "requested"
    /\ LET c == Head(txq).id IN
       \/ /\ committed' = Effect(committed, c)
          /\ IF call[c].op = "putAll"
             THEN /\ call' = [call EXCEPT ![c].pc = "done"]
                  /\ acked' = Effect(acked, c)
             ELSE UNCHANGED <<call, acked>>
       \/ UNCHANGED <<committed, call, acked>>
    /\ txq' = Tail(txq)
    /\ UNCHANGED <<dbInstance, conns, openq, result>>

Next ==
    \/ \E c \in Calls : \/ CloseDatabase(c)
                        \/ \E op \in Ops, k \in Keys : OpenDatabase(c, op, k)
                        \/ Transact(c)
    \/ OpenDone \/ RequestDone \/ Finish

\* Callers are not obliged to call; the browser completes every request.
Fairness ==
    /\ WF_vars(OpenDone) /\ WF_vars(RequestDone) /\ WF_vars(Finish)
    /\ \A c \in Calls : WF_vars(Transact(c))

Spec == Init /\ [][Next]_vars /\ Fairness

-----------------------------------------------------------------------------
(* Properties *)

\* Every call other than storeFrames settles: a failed open, a request
\* error, a connection closed under the caller or an aborted commit never
\* leaves its promise pending.
RequestCallsSettle ==
    \A c \in Calls : call[c].op # "putAll" /\ InFlight(c) ~> Settled(c)

-----------------------------------------------------------------------------
(* Refinement of FrameDB.  A call is outstanding while it is in flight or *)
(* its transaction has not finished (storeFrame and clearFrames resolve   *)
(* before their commit); close calls are not store operations.            *)

OutstandingCalls == {c \in Calls : InFlight(c)} \cup {txq[i].id : i \in DOMAIN txq}

Invoked(c) ==
    IF call[c].pc = "idle" \/ call[c].op = "close" THEN None
    ELSE [op |-> call[c].op, key |-> call[c].key]

Abstract == INSTANCE FrameDB WITH
    db <- committed,
    req <- [c \in Calls |-> Invoked(c)],
    busy <- OutstandingCalls,
    ans <- [c \in Calls |-> IF call[c].op \in {"get", "count", "getAll"} /\ call[c].pc = "done"
                            THEN result[c] ELSE None]

\* The store is linearizable: every change of the committed store is the
\* whole effect of one outstanding call (storeFrames' puts commit
\* together, in their single transaction), a read answers from the store
\* as it is when its request succeeds, and a failed or aborted call has no
\* effect.
StoreRefinement == Abstract!Spec

=============================================================================
