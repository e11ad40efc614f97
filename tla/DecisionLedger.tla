--------------------------- MODULE DecisionLedger ---------------------------
(***************************************************************************)
(* write_verdicts of decision_ledger.py, by several processes with a       *)
(* connection each on one ledger file.  SQLite is external: one writer at  *)
(* a time holds the write lock from its first INSERT to its COMMIT, the    *)
(* others get "database is locked" after the busy timeout, and what was    *)
(* not committed is gone when its process dies.                            *)
(***************************************************************************)
EXTENDS Naturals, Sequences, FiniteSets

CONSTANTS
    Writers,    \* processes with an open connection
    Batches,    \* what a caller may pass as `verdicts`: sequences of rows
    MaxCalls,   \* bound: calls each writer makes
    NoWriter

\* A row is its primary key (run_id, scope, gate), its verdict, and what SQLite
\* or the validation says of it: "good", "null" (a NOT NULL column is None),
\* "invalid" (not one of _VALID_VERDICTS) or "unbindable".
ASSUME BatchAssumption ==
    \A b \in Batches :
        /\ Len(b) \in Nat
        /\ \A n \in 1..Len(b) : b[n].kind \in {"good", "null", "invalid", "unbindable"}

ASSUME NoWriterAssumption == NoWriter \notin Writers

VARIABLES
    db,        \* committed rows
    lock,      \* the connection that holds the write lock
    dirty,     \* rows inserted in each connection's open transaction
    changes,   \* conn.total_changes of each connection
    pc,        \* "idle", "inserting", "committing"
    batch,     \* the rows of each writer's current or last call
    next,      \* index of the row executemany inserts next
    before,    \* total_changes at the start of the call
    carried,   \* history: rows an earlier call left in the open transaction
    calls,     \* calls begun
    result,    \* "none", "returned" or "raised"
    count,     \* the number the last call returned
    gain       \* history: rows the last commit of each writer made visible

vars == <<db, lock, dirty, changes, pc, batch, next, before, carried, calls,
          result, count, gain>>

Init ==
    /\ db = {}
    /\ lock = NoWriter
    /\ dirty = [w \in Writers |-> {}]
    /\ changes = [w \in Writers |-> 0]
    /\ pc = [w \in Writers |-> "idle"]
    /\ batch = [w \in Writers |-> <<>>]
    /\ next = [w \in Writers |-> 1]
    /\ before = [w \in Writers |-> 0]
    /\ carried = [w \in Writers |-> 0]
    /\ calls = [w \in Writers |-> 0]
    /\ result = [w \in Writers |-> "none"]
    /\ count = [w \in Writers |-> 0]
    /\ gain = [w \in Writers |-> 0]

-----------------------------------------------------------------------------

Has(b, kind) == \E n \in 1..Len(b) : b[n].kind = kind

\* The whole batch is validated before the first SQL statement.
Call(w, b) ==
    /\ pc[w] = "idle" /\ calls[w] < MaxCalls
    /\ calls' = [calls EXCEPT ![w] = @ + 1]
    /\ batch' = [batch EXCEPT ![w] = b]
    /\ next' = [next EXCEPT ![w] = 1]
    /\ before' = [before EXCEPT ![w] = changes[w]]
    /\ carried' = [carried EXCEPT ![w] = Cardinality(dirty[w])]
    /\ IF Has(b, "invalid")
       THEN result' = [result EXCEPT ![w] = "raised"] /\ UNCHANGED pc
       ELSE pc' = [pc EXCEPT ![w] = "inserting"] /\ UNCHANGED result
    /\ UNCHANGED <<db, lock, dirty, changes, count, gain>>

Row(w) == batch[w][next[w]]
Inserting(w) == pc[w] = "inserting" /\ next[w] <= Len(batch[w])

\* INSERT OR IGNORE drops a row whose primary key exists, and, as silently, one
\* that violates a NOT NULL constraint.
Ignored(w) ==
    \/ Row(w).kind = "null"
    \/ \E r \in db \cup dirty[w] : r.key = Row(w).key

InsertRow(w) ==
    /\ Inserting(w)
    /\ Row(w).kind # "unbindable"
    /\ lock \in {w, NoWriter}
    /\ lock' = w
    /\ next' = [next EXCEPT ![w] = @ + 1]
    /\ IF Ignored(w)
       THEN UNCHANGED <<dirty, changes>>
       ELSE /\ dirty' = [dirty EXCEPT ![w] = @ \cup {Row(w)}]
            /\ changes' = [changes EXCEPT ![w] = @ + 1]
    /\ UNCHANGED <<db, pc, batch, before, carried, calls, result, count, gain>>

\* A parameter has a type sqlite3 cannot bind: executemany raises, the rows
\* before it stay in the open transaction, and nobody rolls it back.
InsertRaises(w) ==
    /\ Inserting(w)
    /\ Row(w).kind = "unbindable"
    /\ result' = [result EXCEPT ![w] = "raised"]
    /\ pc' = [pc EXCEPT ![w] = "idle"]
    /\ UNCHANGED <<db, lock, dirty, changes, batch, next, before, carried, calls, count, gain>>

\* "database is locked": busy_timeout is over.
Busy(w) ==
    /\ Inserting(w)
    /\ Row(w).kind # "unbindable"
    /\ lock \notin {w, NoWriter}
    /\ result' = [result EXCEPT ![w] = "raised"]
    /\ pc' = [pc EXCEPT ![w] = "idle"]
    /\ UNCHANGED <<db, lock, dirty, changes, batch, next, before, carried, calls, count, gain>>

\* Deviation: every row is committed by itself.
InsertedPerRow(w) ==
    /\ pc[w] = "inserting" /\ next[w] > 1
    /\ pc' = [pc EXCEPT ![w] = IF next[w] > Len(batch[w]) THEN "committing" ELSE @]
    /\ db' = db \cup dirty[w]
    /\ dirty' = [dirty EXCEPT ![w] = {}]
    /\ lock' = IF lock = w THEN NoWriter ELSE lock
    /\ UNCHANGED <<changes, batch, next, before, carried, calls, result, count, gain>>

Inserted(w) ==
    /\ pc[w] = "inserting" /\ next[w] = Len(batch[w]) + 1
    /\ pc' = [pc EXCEPT ![w] = "committing"]
    /\ UNCHANGED <<db, lock, dirty, changes, batch, next, before, carried, calls, result, count, gain>>

\* Deviation: the commit is forgotten.
CommitForgotten(w) ==
    /\ pc[w] = "committing"
    /\ count' = [count EXCEPT ![w] = changes[w] - before[w]]
    /\ result' = [result EXCEPT ![w] = "returned"]
    /\ pc' = [pc EXCEPT ![w] = "idle"]
    /\ UNCHANGED <<db, lock, dirty, changes, batch, next, before, carried, calls, gain>>

\* Deviation: the length of the batch is returned.
CommitCountsBatch(w) ==
    /\ pc[w] = "committing"
    /\ db' = db \cup dirty[w]
    /\ gain' = [gain EXCEPT ![w] = Cardinality(dirty[w])]
    /\ dirty' = [dirty EXCEPT ![w] = {}]
    /\ lock' = IF lock = w THEN NoWriter ELSE lock
    /\ count' = [count EXCEPT ![w] = Len(batch[w])]
    /\ result' = [result EXCEPT ![w] = "returned"]
    /\ pc' = [pc EXCEPT ![w] = "idle"]
    /\ UNCHANGED <<changes, batch, next, before, carried, calls>>

\* conn.commit(), whatever the transaction holds, and the return.
Commit(w) ==
    /\ pc[w] = "committing"
    /\ db' = db \cup dirty[w]
    /\ gain' = [gain EXCEPT ![w] = Cardinality(db' \ db)]
    /\ dirty' = [dirty EXCEPT ![w] = {}]
    /\ lock' = IF lock = w THEN NoWriter ELSE lock
    /\ count' = [count EXCEPT ![w] = changes[w] - before[w]]
    /\ result' = [result EXCEPT ![w] = "returned"]
    /\ pc' = [pc EXCEPT ![w] = "idle"]
    /\ UNCHANGED <<changes, batch, next, before, carried, calls>>

\* The process dies; it comes back with a fresh connection.
Crash(w) ==
    /\ pc[w] # "idle" \/ lock = w
    /\ dirty' = [dirty EXCEPT ![w] = {}]
    /\ lock' = IF lock = w THEN NoWriter ELSE lock
    /\ changes' = [changes EXCEPT ![w] = 0]
    /\ before' = [before EXCEPT ![w] = 0]
    /\ result' = [result EXCEPT ![w] = "raised"]
    /\ pc' = [pc EXCEPT ![w] = "idle"]
    /\ UNCHANGED <<db, batch, next, carried, calls, count, gain>>

Next ==
    \E w \in Writers :
        \/ \E b \in Batches : Call(w, b)
        \/ InsertRow(w) \/ InsertRaises(w) \/ Busy(w) \/ Inserted(w)
        \/ Commit(w) \/ Crash(w)

Spec == Init /\ [][Next]_vars

-----------------------------------------------------------------------------

\* When a call has returned, each of its good rows is on record, under its own
\* or an earlier verdict for the key, whoever crashes afterwards.
ReturnedIsOnRecord ==
    \A w \in Writers : pc[w] = "idle" /\ result[w] = "returned" =>
        \A n \in 1..Len(batch[w]) : batch[w][n].kind = "good" =>
            \E r \in db : r.key = batch[w][n].key

\* No row that is committed is changed or removed, and the rows of a call become
\* visible together: the ledger changes only by growing, by the transaction of one
\* connection, and every good row of the call that commits is then on record.
BatchIsAtomic ==
    [][ db' # db =>
          /\ db \subseteq db'
          /\ \E w \in Writers :
                /\ db' \ db \subseteq dirty[w]
                /\ \A n \in 1..Len(batch[w]) : batch[w][n].kind = "good" =>
                      \E r \in db' : r.key = batch[w][n].key ]_vars

\* Between calls no process keeps the others from writing, unless a row it could
\* not bind left its transaction open and no batch has gone through since.
IdleHoldsNoLock ==
    \A w \in Writers : pc[w] = "idle" /\ lock = w =>
        result[w] = "raised" /\ (Has(batch[w], "unbindable") \/ Has(batch[w], "invalid"))

\* The number returned is that of the rows the call itself added: duplicates, rows
\* SQLite ignored, and rows an earlier call left in the transaction do not count.
CountsOwnRows ==
    \A w \in Writers : pc[w] = "idle" /\ result[w] = "returned" =>
        count[w] = gain[w] - carried[w]
=============================================================================
