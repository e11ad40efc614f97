---------------------------- MODULE TrainingRuns ----------------------------
(***************************************************************************)
(* record_training_run of training_runs.py: trainers append one row to the *)
(* training_runs table and one line to the day's JSONL audit log, in that  *)
(* order.  A trainer may die in between, and a caller that gets an         *)
(* exception records its run again.  What was committed to a database file *)
(* outlives the trainer, as the log does; an in-memory database does not.  *)
(***************************************************************************)
EXTENDS Naturals, Sequences

CONSTANTS
    Trainers,
    MaxRuns       \* bound: calls of record_training_run

ASSUME RunsAssumption == MaxRuns \in Nat

\* The connection handed in: a database file, an in-memory one, or None.
Conns == {"file", "memory", "none"}

VARIABLES
    runs,      \* run ids given so far (uuid4 suffix: never the same twice)
    at,        \* "idle", "insert", "commit", "locate", "append", "returned", "raised"
    id,        \* the run each trainer records
    conn,      \* its conn
    dir,       \* whether it passes jsonl_dir
    log,       \* also_log_jsonl
    open,      \* its row, inserted and not committed: 0 for none
    table,     \* committed rows of training_runs in the database file
    memory,    \* the same of the in-memory database of each trainer's process
    lines,     \* lines of the JSONL file
    withFile,  \* history: the runs recorded with a connection to the file
    withMemory \* history: the runs each living process recorded in its memory

runsVars == <<runs, at, id, conn, dir, log, open, table, memory, lines, withFile, withMemory>>

RunsInit ==
    /\ runs = 0
    /\ at = [t \in Trainers |-> "idle"]
    /\ id = [t \in Trainers |-> 0]
    /\ conn = [t \in Trainers |-> "none"]
    /\ dir = [t \in Trainers |-> FALSE]
    /\ log = [t \in Trainers |-> FALSE]
    /\ open = [t \in Trainers |-> 0]
    /\ table = {}
    /\ memory = [t \in Trainers |-> {}]
    /\ lines = <<>>
    /\ withFile = {}
    /\ withMemory = [t \in Trainers |-> {}]

MoveTo(t, to) == at' = [at EXCEPT ![t] = to]

\* The first statement with an effect, given the arguments of the call.
FirstStep(t) ==
    IF conn'[t] # "none" THEN "insert"
    ELSE IF log'[t] THEN "locate" ELSE "returned"

Record(t) ==
    /\ at[t] \in {"idle", "returned", "raised"}
    /\ runs < MaxRuns
    /\ runs' = runs + 1
    /\ id' = [id EXCEPT ![t] = runs + 1]
    /\ \E c \in Conns, d, l \in BOOLEAN :
          /\ conn' = [conn EXCEPT ![t] = c]
          /\ dir' = [dir EXCEPT ![t] = d]
          /\ log' = [log EXCEPT ![t] = l]
          /\ withFile' = IF c = "file" THEN withFile \cup {runs + 1} ELSE withFile
          /\ withMemory' = IF c = "memory" THEN [withMemory EXCEPT ![t] = @ \cup {runs + 1}]
                           ELSE withMemory
    /\ MoveTo(t, FirstStep(t))
    /\ UNCHANGED <<open, table, memory, lines>>

\* INSERT INTO training_runs ...
Insert(t) ==
    /\ at[t] = "insert"
    /\ open' = [open EXCEPT ![t] = id[t]]
    /\ MoveTo(t, "commit")
    /\ UNCHANGED <<runs, id, conn, dir, log, table, memory, lines, withFile, withMemory>>

\* A missing table or column, a locked database: not tolerated.
InsertFails(t) ==
    /\ at[t] = "insert"
    /\ MoveTo(t, "raised")
    /\ UNCHANGED <<runs, id, conn, dir, log, open, table, memory, lines, withFile, withMemory>>

\* conn.commit(), wherever the connection leads.
CommitRow(t) ==
    /\ open' = [open EXCEPT ![t] = 0]
    /\ \/ /\ conn[t] = "file"
          /\ table' = table \cup {open[t]}
          /\ UNCHANGED memory
       \/ /\ conn[t] = "memory"
          /\ memory' = [memory EXCEPT ![t] = @ \cup {open[t]}]
          /\ UNCHANGED table
    /\ UNCHANGED <<runs, id, conn, dir, log, lines, withFile, withMemory>>

\* Deviation: the commit comes after the audit line.
CommitDeferred(t) ==
    \/ /\ at[t] = "commit"
       /\ MoveTo(t, IF log[t] THEN "locate" ELSE "returned")
       /\ UNCHANGED <<runs, id, conn, dir, log, open, table, memory, lines, withFile, withMemory>>
    \/ /\ at[t] = "returned" /\ open[t] # 0
       /\ UNCHANGED at
       /\ CommitRow(t)

Commit(t) ==
    /\ at[t] = "commit"
    /\ MoveTo(t, IF log[t] THEN "locate" ELSE "returned")
    /\ CommitRow(t)

\* _default_training_jsonl_dir: a connection without a file needs a jsonl_dir.
HasDirectory(t) == dir[t] \/ conn[t] # "memory"

Locate(t) ==
    /\ at[t] = "locate"
    /\ MoveTo(t, IF HasDirectory(t) THEN "append" ELSE "raised")
    /\ UNCHANGED <<runs, id, conn, dir, log, open, table, memory, lines, withFile, withMemory>>

\* One line, written at the end of the file in one go.
AppendLine(t) ==
    /\ at[t] = "append"
    /\ lines' = Append(lines, id[t])
    /\ MoveTo(t, "returned")
    /\ UNCHANGED <<runs, id, conn, dir, log, open, table, memory, withFile, withMemory>>

\* mkdir, open or write fails.
AppendFails(t) ==
    /\ at[t] = "append"
    /\ MoveTo(t, "raised")
    /\ UNCHANGED <<runs, id, conn, dir, log, open, table, memory, lines, withFile, withMemory>>

\* The trainer's process dies, in a call or between two, and another takes its place:
\* an open transaction is rolled back, an in-memory database is gone, the file and
\* the log stay.
Crash(t) ==
    /\ at[t] # "idle"
    /\ MoveTo(t, "idle")
    /\ open' = [open EXCEPT ![t] = 0]
    /\ memory' = [memory EXCEPT ![t] = {}]
    /\ withMemory' = [withMemory EXCEPT ![t] = {}]
    /\ UNCHANGED <<runs, id, conn, dir, log, table, lines, withFile>>

RunsNext ==
    \E t \in Trainers :
        \/ Record(t) \/ Insert(t) \/ InsertFails(t) \/ Commit(t) \/ Locate(t)
        \/ AppendLine(t) \/ AppendFails(t) \/ Crash(t)

RunsSpec == RunsInit /\ [][RunsNext]_runsVars

-----------------------------------------------------------------------------

Lines == {lines[n] : n \in 1..Len(lines)}

\* The audit log never runs ahead of the table.  The line of a run recorded on the
\* database file has its committed row, after any number of deaths; the line of one
\* recorded in memory has it for as long as the process lives that holds the memory.
LineHasRow ==
    /\ Lines \cap withFile \subseteq table
    /\ \A t \in Trainers : Lines \cap withMemory[t] \subseteq memory[t]
=============================================================================
