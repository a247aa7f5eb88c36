------------------------------- MODULE FrameDB -------------------------------
(***************************************************************************)
(* What the frame store promises its callers (spec 4.1), with no           *)
(* connections, transactions or events: a map from frame index to frame.   *)
(* A caller invokes an operation; later the operation takes effect on the  *)
(* whole map in one step (a write), is answered from the map as it is at   *)
(* that instant (a read), or is lost with no effect (a failure).           *)
(***************************************************************************)
EXTENDS Naturals, FiniteSets

CONSTANTS Keys, Calls, BatchLen, NoFrame, None

VARIABLES
    db,     \* the frames stored, by index
    req,    \* per call: the operation invoked, or None
    busy,   \* the calls invoked and not yet taken effect or lost
    ans     \* per call: the answer of a read, or None

dbvars == <<db, req, busy, ans>>

Store == [Keys -> Calls \cup {NoFrame}]
Reads == {"get", "count", "getAll"}

\* The new map after write r of call c: clear, put one index, or put the
\* indices 0..BatchLen-1 together.
Written(s, r, c) ==
    CASE r.op = "clear" -> [k \in Keys |-> NoFrame]
      [] r.op = "put"   -> [s EXCEPT ![r.key] = c]
      [] OTHER          -> [k \in Keys |-> IF k < BatchLen THEN c ELSE s[k]]

\* The answer of read r on map s.
Answer(s, r) ==
    CASE r.op = "get"   -> s[r.key]
      [] r.op = "count" -> Cardinality({k \in Keys : s[k] # NoFrame})
      [] OTHER          -> s

Init ==
    /\ db \in Store
    /\ req = [c \in Calls |-> None]
    /\ busy = {}
    /\ ans = [c \in Calls |-> None]

Invoke(c, r) ==
    /\ req[c] = None
    /\ req' = [req EXCEPT ![c] = r]
    /\ busy' = busy \cup {c}
    /\ UNCHANGED <<db, ans>>

Apply(c) ==
    /\ c \in busy /\ req[c].op \notin Reads
    /\ db' = Written(db, req[c], c)
    /\ busy' = busy \ {c}
    /\ UNCHANGED <<req, ans>>

Respond(c) ==
    /\ c \in busy /\ req[c].op \in Reads
    /\ ans' = [ans EXCEPT ![c] = Answer(db, req[c])]
    /\ busy' = busy \ {c}
    /\ UNCHANGED <<db, req>>

Lose(c) == c \in busy /\ busy' = busy \ {c} /\ UNCHANGED <<db, req, ans>>

Next ==
    \E c \in Calls :
        \/ \E r \in [op : Reads \cup {"clear", "put", "putAll"}, key : Keys] : Invoke(c, r)
        \/ Apply(c) \/ Respond(c) \/ Lose(c)

\* Safety only: a call may stay outstanding forever.
Spec == Init /\ [][Next]_dbvars
=============================================================================
