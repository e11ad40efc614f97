---------------------------- MODULE LedgerAccess ----------------------------
(***************************************************************************)
(* connect of decision_ledger.py and its guard against the live ledger, in *)
(* one Python process that collects and runs tests.  A test may patch the  *)
(* HOME of the process and the module attribute DEFAULT_DB; the default    *)
(* was computed from HOME when the module was imported, the guard computes *)
(* the live path from HOME when it is called.                              *)
(***************************************************************************)

CONSTANT NoPath     \* connect(None), an attribute not yet set, no connection yet

VARIABLES
    home,       \* the home directory the process sees: "real" or "patched"
    testing,    \* PYTEST_CURRENT_TEST is in os.environ
    defaultDb,  \* DEFAULT_DB; NoPath before the module is imported
    imported,   \* history: DEFAULT_DB as the import computed it
    connected   \* the last call of connect: its argument, outcome, circumstances

accessVars == <<home, testing, defaultDb, imported, connected>>

\* "live" is the ledger under the user's own home directory, "standIn" the file of
\* the same name under a patched one, "elsewhere" any other file.
Files == {"live", "standIn", "elsewhere"}

ASSUME NoPathAssumption == NoPath \notin Files \cup {"none", "refused"}

\* A file by its path or by a link to it, "~/renquant-data/decision_ledger.db", and
\* SQLite's ":memory:".
ByPath(f) == [file |-> f, by |-> "path"]
Tilde == [file |-> "none", by |-> "tilde"]
Memory == [file |-> "none", by |-> "memory"]
Paths == [file : Files, by : {"path", "link"}] \cup {Tilde, Memory}

\* Path.home() / "renquant-data/decision_ledger.db"
HomeLedger == IF home = "real" THEN "live" ELSE "standIn"

\* _canonical_path: the file a path stands for once "~" and links are resolved.
Canonical(p) ==
    CASE p = Memory -> NoPath
      [] p = Tilde  -> HomeLedger
      [] OTHER      -> p.file

\* The file sqlite3.connect(str(path)) opens: it does not know "~".
Opens(p) ==
    CASE p = Memory -> NoPath
      [] p = Tilde  -> "elsewhere"
      [] OTHER      -> p.file

\* Deviation: the guard compares with the patchable default.
RefusedByDefault(p) == testing /\ Canonical(p) # NoPath /\ p = defaultDb

\* _guard_against_live_ledger_in_tests
Refused(p) == testing /\ Canonical(p) = HomeLedger

AccessInit ==
    /\ home = "real"
    /\ testing = FALSE
    /\ defaultDb = NoPath
    /\ imported = NoPath
    /\ connected = NoPath

\* DEFAULT_DB = Path.home() / ...: once, at collection or inside a test.
Import ==
    /\ defaultDb = NoPath
    /\ defaultDb' = ByPath(HomeLedger)
    /\ imported' = defaultDb'
    /\ UNCHANGED <<home, testing, connected>>

\* pytest enters or leaves a test.
ToggleTest ==
    /\ testing' = ~testing
    /\ UNCHANGED <<home, defaultDb, imported, connected>>

PatchHome ==
    /\ home' \in {"real", "patched"} \ {home}
    /\ UNCHANGED <<testing, defaultDb, imported, connected>>

PatchDefault ==
    /\ defaultDb # NoPath
    /\ defaultDb' \in Paths
    /\ UNCHANGED <<home, testing, imported, connected>>

\* connect(arg)
Connect(arg) ==
    /\ defaultDb # NoPath
    /\ LET p == IF arg = NoPath THEN defaultDb ELSE arg
       IN  connected' = [ path      |-> p,
                          byDefault |-> arg = NoPath,
                          home      |-> home,
                          testing   |-> testing,
                          file      |-> IF Refused(p) THEN "refused" ELSE Opens(p) ]
    /\ UNCHANGED <<home, testing, defaultDb, imported>>

AccessNext ==
    \/ Import \/ ToggleTest \/ PatchHome \/ PatchDefault
    \/ \E arg \in Paths \cup {NoPath} : Connect(arg)

AccessSpec == AccessInit /\ [][AccessNext]_accessVars

-----------------------------------------------------------------------------

\* While the process sees its user's home directory, no test opens the live ledger,
\* by whatever spelling or default it reaches it; and nobody is refused anything
\* but the live ledger, by a test and only by a test.
GuardIsExact ==
    connected # NoPath /\ connected.home = "real" =>
        /\ connected.testing => connected.file # "live"
        /\ connected.file = "refused" =>
             connected.testing /\ (connected.path = Tilde \/ connected.path.file = "live")

\* "There is no escape hatch: a pytest process must never open the production
\* ledger", and connect "refuses to open the real production DB (``DEFAULT_DB``)":
\* stated only for the time a test executes, and for a connect() that uses the
\* default as the import computed it.
NoTestOpensLive ==
    /\ connected # NoPath
    /\ connected.testing /\ connected.byDefault /\ connected.path = imported
    => connected.file # "live"
=============================================================================
