--------------------------- MODULE Registry_proofs ---------------------------
(***************************************************************************)
(* The two records a training leaves behind.  First the MLflow registry:   *)
(* that registrations are honest and that a client's own upload is logged  *)
(* whole, for every number of clients and of log calls.  Then the training *)
(* runs: that the audit log never runs ahead of the table, for every       *)
(* number of trainers and of recorded runs.                                *)
(***************************************************************************)
EXTENDS MlflowRegistry, TrainingRuns, TLAPS

PCs == {"idle", "artifact", "meta", "logged", "name", "version", "stage", "registered", "raised"}

Versions == [by : Clients, stage : Stages]

Shape ==
    /\ uploads \in Nat
    /\ pc \in [Clients -> PCs]
    /\ upload \in [Clients -> Nat] /\ meta \in [Clients -> BOOLEAN]
    /\ mine \in [Clients -> Nat] /\ stage \in [Clients -> Stages]
    /\ versions \in Seq(Versions)

\* A version number a client holds is that of a version it created itself.
VersionIsOwn ==
    \A c \in Clients : pc[c] \in {"stage", "registered"} =>
        mine[c] \in 1..Len(versions) /\ versions[mine[c]].by = c

StageIsAsAsked ==
    \A c \in Clients : pc[c] = "registered" => versions[mine[c]].stage = stage[c]

BusyHasUpload == \A c \in Clients : upload[c] = 0 => pc[c] = "idle"

Alone(c) == \A d \in Clients \ {c} : upload[d] = 0

\* Between its two uploads a client that is alone finds its artifact in place.
ArtifactStays == \A c \in Clients : pc[c] = "meta" /\ Alone(c) => artifact = upload[c]

IInv ==
    /\ Shape /\ VersionIsOwn /\ StageIsAsAsked
    /\ BusyHasUpload /\ ArtifactStays /\ LoggedBundleIsOwn

-----------------------------------------------------------------------------

\* The empty registry satisfies the invariant.
LEMMA InitIInv == Init => IInv
<1> SUFFICES ASSUME Init PROVE IInv
  OBVIOUS
<1>1. Shape
  BY DEF Init, Shape, PCs, Stages
<1>2. VersionIsOwn /\ StageIsAsAsked /\ BusyHasUpload /\ ArtifactStays /\ LoggedBundleIsOwn
  BY DEF Init, VersionIsOwn, StageIsAsAsked, BusyHasUpload, ArtifactStays, LoggedBundleIsOwn
<1> QED
  BY <1>1, <1>2 DEF IInv

\* What the steps of log_artifact_with_meta, and a failure, do to the registration.
LEMMA StepRegistration ==
  IInv /\ [Next]_vars => VersionIsOwn' /\ StageIsAsAsked' /\ (versions \in Seq(Versions))'
<1> SUFFICES ASSUME IInv, [Next]_vars
             PROVE  /\ VersionIsOwn' /\ StageIsAsAsked'
                    /\ versions' \in Seq(Versions)
  OBVIOUS
<1> USE DEF IInv, Shape, VersionIsOwn, StageIsAsAsked, Goto
<1>1. ASSUME NEW c \in Clients,
             \/ BeginLog(c) \/ LogArtifact(c) \/ LogMeta(c) \/ CreateName(c) \/ RequestFails(c)
      PROVE  /\ VersionIsOwn' /\ StageIsAsAsked'
             /\ versions' \in Seq(Versions)
  <2>1. UNCHANGED <<versions, mine, stage>>
    BY <1>1 DEF BeginLog, LogArtifact, LogMeta, CreateName, RequestFails, modelVars
  <2>2. \A d \in Clients : pc'[d] \in {"stage", "registered"} => pc'[d] = pc[d]
    BY <1>1 DEF BeginLog, LogArtifact, LogMeta, CreateName, RequestFails
  <2> QED
    BY <2>1, <2>2
<1>2. ASSUME NEW c \in Clients, BeginRegister(c)
      PROVE  /\ VersionIsOwn' /\ StageIsAsAsked'
             /\ versions' \in Seq(Versions)
  <2>1. UNCHANGED <<versions, mine>> /\ \A d \in Clients \ {c} : stage'[d] = stage[d]
    BY <1>2 DEF BeginRegister
  <2>2. \A d \in Clients : pc'[d] \in {"stage", "registered"} => pc'[d] = pc[d] /\ d # c
    BY <1>2 DEF BeginRegister
  <2> QED
    BY <2>1, <2>2
<1>3. ASSUME NEW c \in Clients, CreateVersion(c)
      PROVE  /\ VersionIsOwn' /\ StageIsAsAsked'
             /\ versions' \in Seq(Versions)
  <2> DEFINE new == [by |-> c, stage |-> NoStage]
  <2>1. new \in Versions /\ new.by = c /\ new.stage = NoStage
    BY DEF Stages, Versions
  <2>2. versions' = Append(versions, new)
    BY <1>3 DEF CreateVersion
  <2> HIDE DEF new
  <2>3. /\ versions' \in Seq(Versions)
        /\ Len(versions) \in Nat /\ Len(versions') = Len(versions) + 1
        /\ versions'[Len(versions) + 1] = new
        /\ \A n \in 1..Len(versions) : versions'[n] = versions[n]
    BY <2>1, <2>2
  <2>4. mine' = [mine EXCEPT ![c] = Len(versions) + 1] /\ stage' = stage
    BY <1>3 DEF CreateVersion
  <2>5. pc' = [pc EXCEPT ![c] = IF stage[c] = NoStage THEN "registered" ELSE "stage"]
    BY <1>3 DEF CreateVersion
  <2>6. /\ mine'[c] = Len(versions) + 1 /\ \A d \in Clients \ {c} : mine'[d] = mine[d]
        /\ \A d \in Clients \ {c} : pc'[d] = pc[d]
    BY <2>4, <2>5
  <2>7. ASSUME NEW d \in Clients, pc'[d] \in {"stage", "registered"}
        PROVE  /\ mine'[d] \in 1..Len(versions') /\ versions'[mine'[d]].by = d
               /\ pc'[d] = "registered" => versions'[mine'[d]].stage = stage'[d]
    <3>1. CASE d = c
      BY <2>1, <2>3, <2>4, <2>5, <2>6, <3>1
    <3>2. CASE d # c
      <4>1. mine[d] \in 1..Len(versions) /\ versions[mine[d]].by = d /\ mine'[d] = mine[d]
        BY <2>6, <2>7, <3>2
      <4>2. pc'[d] = "registered" => versions[mine[d]].stage = stage[d]
        BY <2>6, <3>2
      <4> QED
        BY <2>3, <2>4, <4>1, <4>2
    <3> QED
      BY <3>1, <3>2
  <2> QED
    BY <2>3, <2>7
<1>4. ASSUME NEW c \in Clients, TransitionStage(c)
      PROVE  /\ VersionIsOwn' /\ StageIsAsAsked'
             /\ versions' \in Seq(Versions)
  <2> DEFINE k == mine[c]
             moved == [versions[k] EXCEPT !.stage = stage[c]]
  <2>1. k \in 1..Len(versions) /\ versions[k].by = c
    BY <1>4 DEF TransitionStage
  <2>2. versions[k] \in Versions
    BY <2>1
  <2>3. moved \in Versions /\ moved.by = c /\ moved.stage = stage[c]
    BY <2>1, <2>2 DEF Versions
  <2>4. versions' = [versions EXCEPT ![k] = moved] /\ UNCHANGED <<mine, stage>>
    BY <1>4 DEF TransitionStage
  <2>5. pc' = [pc EXCEPT ![c] = "registered"]
    BY <1>4 DEF TransitionStage
  <2> HIDE DEF moved
  <2>6. /\ versions' \in Seq(Versions)
        /\ Len(versions') = Len(versions) /\ versions'[k] = moved
        /\ \A n \in 1..Len(versions) \ {k} : versions'[n] = versions[n]
    BY <2>1, <2>3, <2>4
  <2>7. VersionIsOwn'
    BY <2>1, <2>3, <2>4, <2>5, <2>6
  <2>8. \A d \in Clients \ {c} : pc[d] = "registered" => mine[d] # k
    BY <2>1
  <2>9. StageIsAsAsked'
    BY <2>3, <2>4, <2>5, <2>6, <2>8
  <2> QED
    BY <2>6, <2>7, <2>9
<1>5. CASE UNCHANGED vars
  BY <1>5 DEF vars
<1> QED
  BY <1>1, <1>2, <1>3, <1>4, <1>5 DEF Next

\* Every step keeps the types.
LEMMA StepShape ==
  IInv /\ [Next]_vars => Shape'
<1> SUFFICES ASSUME IInv, [Next]_vars PROVE Shape'
  OBVIOUS
<1>0. versions' \in Seq(Versions)
  BY StepRegistration
<1> USE DEF IInv, Shape, Goto, PCs
<1> HIDE DEF Versions
<1>1. uploads' \in Nat /\ upload' \in [Clients -> Nat] /\ mine' \in [Clients -> Nat]
  <2>1. ASSUME NEW c \in Clients, BeginLog(c)
        PROVE  uploads' \in Nat /\ upload' \in [Clients -> Nat] /\ mine' \in [Clients -> Nat]
    BY <2>1 DEF BeginLog, modelVars
  <2>2. ASSUME NEW c \in Clients, CreateVersion(c)
        PROVE  uploads' \in Nat /\ upload' \in [Clients -> Nat] /\ mine' \in [Clients -> Nat]
    <3>1. Len(versions) \in Nat
      OBVIOUS
    <3> QED
      BY <2>2, <3>1 DEF CreateVersion, runVars
  <2>3. ASSUME NEW c \in Clients,
               \/ LogArtifact(c) \/ LogMeta(c) \/ BeginRegister(c) \/ CreateName(c)
               \/ TransitionStage(c) \/ RequestFails(c)
        PROVE  UNCHANGED <<uploads, upload, mine>>
    BY <2>3 DEF LogArtifact, LogMeta, BeginRegister, CreateName, TransitionStage, RequestFails,
                runVars, modelVars
  <2>4. CASE UNCHANGED vars
    BY <2>4 DEF vars
  <2> QED
    BY <2>1, <2>2, <2>3, <2>4 DEF Next
<1>2. pc' \in [Clients -> PCs]
  <2>1. ASSUME NEW c \in Clients, NEW to \in PCs, pc' = [pc EXCEPT ![c] = to]
        PROVE  pc' \in [Clients -> PCs]
    BY <2>1
  <2>2. ASSUME NEW c \in Clients, BeginLog(c) \/ LogArtifact(c) \/ LogMeta(c)
        PROVE  \E to \in PCs : pc' = [pc EXCEPT ![c] = to]
    BY <2>2 DEF BeginLog, LogArtifact, LogMeta
  <2>3. ASSUME NEW c \in Clients, BeginRegister(c) \/ CreateName(c) \/ RequestFails(c)
        PROVE  \E to \in PCs : pc' = [pc EXCEPT ![c] = to]
    BY <2>3 DEF BeginRegister, CreateName, RequestFails
  <2>4. ASSUME NEW c \in Clients, CreateVersion(c) \/ TransitionStage(c)
        PROVE  \E to \in PCs : pc' = [pc EXCEPT ![c] = to]
    BY <2>4 DEF CreateVersion, TransitionStage
  <2>5. CASE UNCHANGED vars
    BY <2>5 DEF vars
  <2> QED
    BY <2>1, <2>2, <2>3, <2>4, <2>5 DEF Next
<1>3. meta' \in [Clients -> BOOLEAN]
  <2>1. ASSUME NEW c \in Clients, BeginLog(c) PROVE meta' \in [Clients -> BOOLEAN]
    <3>1. PICK m \in BOOLEAN : meta' = [meta EXCEPT ![c] = m]
      BY <2>1 DEF BeginLog
    <3> QED
      BY <3>1
  <2>2. ASSUME NEW c \in Clients,
               \/ LogArtifact(c) \/ LogMeta(c) \/ BeginRegister(c) \/ CreateName(c)
               \/ CreateVersion(c) \/ TransitionStage(c) \/ RequestFails(c)
        PROVE  UNCHANGED meta
    BY <2>2 DEF LogArtifact, LogMeta, BeginRegister, CreateName, CreateVersion, TransitionStage,
                RequestFails, runVars
  <2>3. CASE UNCHANGED vars
    BY <2>3 DEF vars
  <2> QED
    BY <2>1, <2>2, <2>3 DEF Next
<1>4. stage' \in [Clients -> Stages]
  <2>1. ASSUME NEW c \in Clients, BeginRegister(c) PROVE stage' \in [Clients -> Stages]
    <3>1. PICK s \in Stages : stage' = [stage EXCEPT ![c] = s]
      BY <2>1 DEF BeginRegister
    <3> QED
      BY <3>1
  <2>2. ASSUME NEW c \in Clients,
               \/ BeginLog(c) \/ LogArtifact(c) \/ LogMeta(c) \/ CreateName(c)
               \/ CreateVersion(c) \/ TransitionStage(c) \/ RequestFails(c)
        PROVE  UNCHANGED stage
    BY <2>2 DEF BeginLog, LogArtifact, LogMeta, CreateName, CreateVersion, TransitionStage,
                RequestFails, modelVars
  <2>3. CASE UNCHANGED vars
    BY <2>3 DEF vars
  <2> QED
    BY <2>1, <2>2, <2>3 DEF Next
<1> QED
  BY <1>0, <1>1, <1>2, <1>3, <1>4

\* A step keeps the pair of a client that is alone in its run.
LEMMA StepBundle ==
  IInv /\ [Next]_vars => BusyHasUpload' /\ ArtifactStays' /\ LoggedBundleIsOwn'
<1> SUFFICES ASSUME IInv, [Next]_vars
             PROVE  BusyHasUpload' /\ ArtifactStays' /\ LoggedBundleIsOwn'
  OBVIOUS
<1> USE DEF IInv, Shape, Goto, PCs, BusyHasUpload, ArtifactStays, LoggedBundleIsOwn, Alone
<1>1. ASSUME NEW c \in Clients, BeginLog(c)
      PROVE  BusyHasUpload' /\ ArtifactStays' /\ LoggedBundleIsOwn'
  BY <1>1 DEF BeginLog
<1>2. ASSUME NEW c \in Clients, LogArtifact(c)
      PROVE  BusyHasUpload' /\ ArtifactStays' /\ LoggedBundleIsOwn'
  BY <1>2 DEF LogArtifact
<1>3. ASSUME NEW c \in Clients, LogMeta(c)
      PROVE  BusyHasUpload' /\ ArtifactStays' /\ LoggedBundleIsOwn'
  BY <1>3 DEF LogMeta
<1>4. ASSUME NEW c \in Clients,
             \/ BeginRegister(c) \/ CreateName(c) \/ CreateVersion(c)
             \/ TransitionStage(c) \/ RequestFails(c)
      PROVE  BusyHasUpload' /\ ArtifactStays' /\ LoggedBundleIsOwn'
  <2>1. UNCHANGED <<artifact, sidecar, upload, meta>>
    BY <1>4 DEF BeginRegister, CreateName, CreateVersion, TransitionStage, RequestFails, runVars
  <2>2. /\ \A d \in Clients : pc'[d] \in {"meta", "logged"} => pc'[d] = pc[d]
        /\ \A d \in Clients : pc[d] = "idle" => pc'[d] = "idle"
    BY <1>4 DEF BeginRegister, CreateName, CreateVersion, TransitionStage, RequestFails
  <2> QED
    BY <2>1, <2>2
<1>5. CASE UNCHANGED vars
  BY <1>5 DEF vars
<1> QED
  BY <1>1, <1>2, <1>3, <1>4, <1>5 DEF Next

\* Versions stay with their creator, and a lone client's artifact in place
\* (mlflow_registry.py:140-151, :210-229).
THEOREM Inductive == Spec => []IInv
<1>1. IInv /\ [Next]_vars => IInv'
  BY StepRegistration, StepShape, StepBundle DEF IInv
<1> QED
  BY InitIInv, <1>1, PTL DEF Spec

\* What register_model returns is a version of the client's own, in the stage it
\* asked for, however many others register (mlflow_registry.py:210-229).
THEOREM RegisteredIsTrue == Spec => []RegistrationIsHonest
<1>1. IInv => RegistrationIsHonest
  <2> SUFFICES ASSUME IInv, NEW c \in Clients, pc[c] = "registered"
               PROVE  /\ mine[c] \in 1..Len(versions)
                      /\ versions[mine[c]] = [by |-> c, stage |-> stage[c]]
    BY DEF RegistrationIsHonest
  <2>1. mine[c] \in 1..Len(versions) /\ versions[mine[c]].by = c /\ versions[mine[c]].stage = stage[c]
    BY DEF IInv, VersionIsOwn, StageIsAsAsked
  <2>2. versions \in Seq(Versions)
    BY DEF IInv, Shape
  <2>3. versions[mine[c]] \in Versions
    BY <2>1, <2>2
  <2>4. versions[mine[c]] = [by |-> versions[mine[c]].by, stage |-> versions[mine[c]].stage]
    BY <2>3 DEF Versions
  <2> QED
    BY <2>1, <2>4
<1> QED
  BY Inductive, <1>1, PTL

\* A log call of a run's only client returns with its own pair in place
\* (mlflow_registry.py:140-151).
THEOREM LoggedPairIsOwn == Spec => []LoggedBundleIsOwn
<1>1. IInv => LoggedBundleIsOwn
  BY DEF IInv
<1> QED
  BY Inductive, <1>1, PTL

-----------------------------------------------------------------------------
(* The training runs.                                                      *)

RunSteps == {"idle", "insert", "commit", "locate", "append", "returned", "raised"}

RunsShape ==
    /\ runs \in Nat
    /\ id \in [Trainers -> 0..runs]
    /\ open \in [Trainers -> Nat]
    /\ at \in [Trainers -> RunSteps]
    /\ conn \in [Trainers -> Conns] /\ log \in [Trainers -> BOOLEAN]
    /\ memory \in [Trainers -> SUBSET Nat] /\ withMemory \in [Trainers -> SUBSET Nat]
    /\ lines \in Seq(Nat) /\ Lines \subseteq 0..runs

\* The next id is nowhere yet.
IdsAreFresh ==
    /\ withFile \subseteq 1..runs
    /\ \A t \in Trainers : withMemory[t] \subseteq 1..runs

\* The run at hand is in the history of its own connection and of no other.
IdsKnowTheirConn ==
    \A t \in Trainers :
        /\ id[t] \in withFile => conn[t] = "file"
        /\ \A u \in Trainers : id[t] \in withMemory[u] => u = t /\ conn[t] = "memory"

\* The row of a run with a connection is committed before its line is considered.
RowBeforeLine ==
    /\ \A t \in Trainers : at[t] = "commit" => open[t] = id[t]
    /\ \A t \in Trainers : at[t] \in {"locate", "append"} =>
          /\ id[t] \in withFile => id[t] \in table
          /\ id[t] \in withMemory[t] => id[t] \in memory[t]

RunsIInv == RunsShape /\ IdsAreFresh /\ IdsKnowTheirConn /\ RowBeforeLine /\ LineHasRow

\* Appending to a sequence adds the element to its range.
LEMMA AppendAddsElement ==
  ASSUME NEW S, NEW s \in Seq(S), NEW e \in S
  PROVE  /\ Append(s, e) \in Seq(S)
         /\ {Append(s, e)[n] : n \in 1..Len(Append(s, e))} = {s[n] : n \in 1..Len(s)} \cup {e}
<1> DEFINE a == Append(s, e)
           m == Len(s)
<1>1. m \in Nat /\ Len(a) = m + 1 /\ a[m + 1] = e /\ \A n \in 1..m : a[n] = s[n]
  OBVIOUS
<1>2. a \in Seq(S)
  OBVIOUS
<1> HIDE DEF a
<1>3. 1..(m + 1) = 1..m \cup {m + 1}
  BY <1>1
<1>4. {a[n] : n \in 1..(m + 1)} = {s[n] : n \in 1..m} \cup {e}
  BY <1>1, <1>3
<1> QED
  BY <1>1, <1>2, <1>4 DEF a

\* The empty table and the empty log agree.
LEMMA RunsInitIInv == RunsInit => RunsIInv
<1> SUFFICES ASSUME RunsInit PROVE RunsIInv
  OBVIOUS
<1>1. Lines = {}
  BY DEF RunsInit, Lines
<1>2. RunsShape
  BY <1>1 DEF RunsInit, RunsShape, RunSteps, Conns
<1>3. IdsAreFresh /\ IdsKnowTheirConn /\ RowBeforeLine /\ LineHasRow
  BY <1>1 DEF RunsInit, IdsAreFresh, IdsKnowTheirConn, RowBeforeLine, LineHasRow
<1> QED
  BY <1>2, <1>3 DEF RunsIInv

\* A new run comes with an id that neither the log nor a history knows.
LEMMA RecordKeepsIInv == ASSUME RunsIInv, NEW t \in Trainers, Record(t) PROVE RunsIInv'
<1> USE DEF RunsIInv, RunsShape, RunSteps, MoveTo
<1>1. PICK c \in Conns, l \in BOOLEAN :
         /\ conn' = [conn EXCEPT ![t] = c] /\ log' = [log EXCEPT ![t] = l]
         /\ withFile' = IF c = "file" THEN withFile \cup {runs + 1} ELSE withFile
         /\ withMemory' = IF c = "memory" THEN [withMemory EXCEPT ![t] = @ \cup {runs + 1}]
                          ELSE withMemory
  BY DEF Record
<1>2. UNCHANGED <<open, table, memory, lines>> /\ Lines' = Lines /\ runs' = runs + 1
  BY DEF Record, Lines
<1>3. id' = [id EXCEPT ![t] = runs + 1] /\ at' = [at EXCEPT ![t] = FirstStep(t)]
  BY DEF Record
<1>4. FirstStep(t) = IF c # "none" THEN "insert" ELSE IF l THEN "locate" ELSE "returned"
  BY <1>1 DEF FirstStep
<1>5. RunsShape'
  <2>1. Lines' \subseteq 0..runs' /\ lines' \in Seq(Nat)
    BY <1>2
  <2>2. id' \in [Trainers -> 0..runs']
    BY <1>2, <1>3
  <2>3. at' \in [Trainers -> RunSteps]
    BY <1>3, <1>4
  <2>4. conn' \in [Trainers -> Conns] /\ log' \in [Trainers -> BOOLEAN]
    BY <1>1
  <2>5. withMemory' \in [Trainers -> SUBSET Nat]
    BY <1>1
  <2> QED
    BY <1>2, <2>1, <2>2, <2>3, <2>4, <2>5
<1>6. \A u \in Trainers :
         /\ withMemory'[u] \subseteq withMemory[u] \cup {runs + 1}
         /\ u # t => withMemory'[u] = withMemory[u]
  BY <1>1
<1>7. IdsAreFresh'
  BY <1>1, <1>2, <1>6 DEF IdsAreFresh
<1>8. /\ id'[t] = runs + 1 /\ id'[t] \notin withFile
      /\ \A u \in Trainers : id'[t] \notin withMemory[u]
      /\ id'[t] \notin Lines
  BY <1>3 DEF IdsAreFresh
<1>9. \A u \in Trainers \ {t} :
         /\ id'[u] = id[u] /\ at'[u] = at[u] /\ conn'[u] = conn[u] /\ id[u] # runs + 1
  BY <1>1, <1>3
<1>10. IdsKnowTheirConn'
  <2>1. /\ id'[t] \in withFile' => conn'[t] = "file"
        /\ \A u \in Trainers : id'[t] \in withMemory'[u] => u = t /\ conn'[t] = "memory"
    BY <1>1, <1>8
  <2>2. ASSUME NEW v \in Trainers \ {t}
        PROVE  /\ id'[v] \in withFile' => conn'[v] = "file"
               /\ \A u \in Trainers : id'[v] \in withMemory'[u] => u = v /\ conn'[v] = "memory"
    BY <1>1, <1>6, <1>9 DEF IdsKnowTheirConn
  <2> QED
    BY <2>1, <2>2 DEF IdsKnowTheirConn
<1>11. RowBeforeLine'
  <2>1. at'[t] # "commit" /\ (at'[t] \in {"locate", "append"} => c = "none")
    BY <1>3, <1>4
  <2>2. at'[t] \in {"locate", "append"} => id'[t] \notin withFile' /\ id'[t] \notin withMemory'[t]
    BY <1>1, <1>8, <2>1
  <2> QED
    BY <1>1, <1>2, <1>6, <1>9, <2>1, <2>2 DEF RowBeforeLine
<1>12. LineHasRow'
  BY <1>1, <1>2, <1>6, <1>8 DEF LineHasRow
<1> QED
  BY <1>5, <1>7, <1>10, <1>11, <1>12

\* A row goes where the connection leads.
LEMMA CommitKeepsIInv == ASSUME RunsIInv, NEW t \in Trainers, Commit(t) PROVE RunsIInv'
<1> USE DEF RunsIInv, RunsShape, RunSteps, MoveTo
<1>1. /\ at[t] = "commit" /\ open[t] = id[t] /\ open' = [open EXCEPT ![t] = 0]
      /\ at' = [at EXCEPT ![t] = IF log[t] THEN "locate" ELSE "returned"]
      /\ UNCHANGED <<runs, id, conn, log, lines, withFile, withMemory>> /\ Lines' = Lines
  BY DEF Commit, CommitRow, RowBeforeLine, Lines
<1>2. /\ table \subseteq table' /\ memory' \in [Trainers -> SUBSET Nat]
      /\ \A u \in Trainers : memory[u] \subseteq memory'[u]
      /\ conn[t] = "file" => id[t] \in table'
      /\ conn[t] = "memory" => id[t] \in memory'[t]
  <2>1. id[t] \in Nat
    BY <1>1
  <2>2. CASE conn[t] = "file" /\ table' = table \cup {open[t]} /\ UNCHANGED memory
    BY <1>1, <2>2
  <2>3. CASE conn[t] = "memory" /\ memory' = [memory EXCEPT ![t] = @ \cup {open[t]}] /\ UNCHANGED table
    BY <1>1, <2>1, <2>3
  <2> QED
    BY <2>2, <2>3 DEF Commit, CommitRow
<1>3. RunsShape' /\ IdsAreFresh' /\ IdsKnowTheirConn'
  BY <1>1, <1>2 DEF IdsAreFresh, IdsKnowTheirConn
<1>4. RowBeforeLine'
  BY <1>1, <1>2 DEF RowBeforeLine, IdsKnowTheirConn
<1>5. LineHasRow'
  BY <1>1, <1>2 DEF LineHasRow
<1> QED
  BY <1>3, <1>4, <1>5

\* A line is written for a run whose row is where it should be.
LEMMA AppendKeepsIInv == ASSUME RunsIInv, NEW t \in Trainers, AppendLine(t) PROVE RunsIInv'
<1>1. lines' \in Seq(Nat) /\ Lines' = Lines \cup {id[t]}
  <2>1. lines \in Seq(Nat) /\ id[t] \in Nat
    BY DEF RunsIInv, RunsShape
  <2>2. lines' = Append(lines, id[t])
    BY DEF AppendLine
  <2> QED
    BY <2>1, <2>2, AppendAddsElement DEF Lines
<1> USE DEF RunsIInv, RunsShape, RunSteps, MoveTo
<1>2. /\ at[t] = "append" /\ at' = [at EXCEPT ![t] = "returned"]
      /\ UNCHANGED <<runs, id, conn, log, open, table, memory, withFile, withMemory>>
  BY DEF AppendLine
<1>3. RunsShape' /\ IdsAreFresh' /\ IdsKnowTheirConn'
  BY <1>1, <1>2 DEF IdsAreFresh, IdsKnowTheirConn
<1>4. RowBeforeLine'
  BY <1>2 DEF RowBeforeLine
<1>5. /\ id[t] \in withFile => id[t] \in table
      /\ \A u \in Trainers : id[t] \in withMemory[u] => id[t] \in memory[u]
  BY <1>2 DEF RowBeforeLine, IdsKnowTheirConn
<1>6. LineHasRow'
  BY <1>1, <1>2, <1>5 DEF LineHasRow
<1> QED
  BY <1>3, <1>4, <1>6

\* With a process its memory goes, and what it has recorded there.
LEMMA CrashKeepsIInv == ASSUME RunsIInv, NEW t \in Trainers, Crash(t) PROVE RunsIInv'
<1> USE DEF RunsIInv, RunsShape, RunSteps, MoveTo
<1>1. /\ at' = [at EXCEPT ![t] = "idle"] /\ open' = [open EXCEPT ![t] = 0]
      /\ memory' = [memory EXCEPT ![t] = {}] /\ withMemory' = [withMemory EXCEPT ![t] = {}]
      /\ UNCHANGED <<runs, id, conn, log, table, lines, withFile>> /\ Lines' = Lines
  BY DEF Crash, Lines
<1>2. RunsShape'
  BY <1>1
<1>3. IdsAreFresh' /\ IdsKnowTheirConn'
  BY <1>1 DEF IdsAreFresh, IdsKnowTheirConn
<1>4. RowBeforeLine'
  BY <1>1 DEF RowBeforeLine
<1>5. LineHasRow'
  BY <1>1 DEF LineHasRow
<1> QED
  BY <1>2, <1>3, <1>4, <1>5

\* Every step, crashes included, keeps the log behind the table.
LEMMA RunsStepIInv == RunsIInv /\ [RunsNext]_runsVars => RunsIInv'
<1> SUFFICES ASSUME RunsIInv, [RunsNext]_runsVars PROVE RunsIInv'
  OBVIOUS
<1> USE DEF RunsIInv, RunsShape, RunSteps, MoveTo
<1>1. ASSUME NEW t \in Trainers,
             \/ Insert(t) \/ InsertFails(t) \/ Locate(t) \/ AppendFails(t)
      PROVE  RunsIInv'
  <2>1. /\ UNCHANGED <<runs, id, conn, log, table, memory, lines, withFile, withMemory>>
        /\ Lines' = Lines
    BY <1>1 DEF Insert, InsertFails, Locate, AppendFails, Lines
  <2>2. at' \in [Trainers -> RunSteps]
    BY <1>1 DEF Insert, InsertFails, Locate, AppendFails
  <2>3. open' \in [Trainers -> Nat]
    <3>1. open' \in {open, [open EXCEPT ![t] = id[t]]}
      BY <1>1 DEF Insert, InsertFails, Locate, AppendFails
    <3>2. id[t] \in Nat
      OBVIOUS
    <3> QED
      BY <3>1, <3>2
  <2>4. RowBeforeLine'
    BY <1>1, <2>1 DEF Insert, InsertFails, Locate, AppendFails, RowBeforeLine
  <2>5. IdsAreFresh' /\ IdsKnowTheirConn'
    BY <2>1 DEF IdsAreFresh, IdsKnowTheirConn
  <2> QED
    BY <2>1, <2>2, <2>3, <2>4, <2>5 DEF LineHasRow
<1>2. CASE UNCHANGED runsVars
  BY <1>2 DEF runsVars, LineHasRow, Lines, IdsAreFresh, IdsKnowTheirConn, RowBeforeLine
<1> QED
  BY <1>1, <1>2, RecordKeepsIInv, CommitKeepsIInv, AppendKeepsIInv, CrashKeepsIInv DEF RunsNext

\* Whatever fails and whoever dies, the line of a run recorded on the database file has
\* its committed row, and that of a run recorded in memory has it while its process
\* lives (training_runs.py:75-116).
THEOREM LogNeverAhead == RunsSpec => []LineHasRow
<1>1. RunsIInv => LineHasRow
  BY DEF RunsIInv
<1> QED
  BY RunsInitIInv, RunsStepIInv, <1>1, PTL DEF RunsSpec
=============================================================================
