--------------------------- MODULE MlflowRegistry ---------------------------
(***************************************************************************)
(* registry/mlflow_registry.py: training processes log an artifact with    *)
(* its JSON sidecar to an MLflow run, and register what they logged as a   *)
(* version of a model, while others read.  The MLflow server is external:  *)
(* each client call is one atomic request that may fail, and a client may  *)
(* die between two requests.                                               *)
(***************************************************************************)
EXTENDS Naturals, Sequences

CONSTANTS
    Clients,       \* processes that log to the same run
    MaxUploads     \* bound: log calls of all clients together

ASSUME UploadAssumption == MaxUploads \in Nat

VARIABLES
    artifact,    \* which upload the artifact of the run comes from, 0 for none
    sidecar,     \* the same of its .meta.json
    uploads,     \* log calls begun; also numbers them
    pc,          \* where each client is
    upload,      \* the upload each client is about
    meta,        \* whether it comes with a meta dict
    named,       \* whether the registered model exists
    versions,    \* the model's versions: who created them, and their stage
    mine,        \* the version number create_model_version gave each client
    stage        \* the stage each client wants for its version

vars == <<artifact, sidecar, uploads, pc, upload, meta, named, versions, mine, stage>>

NoStage == "None"
Stages == {NoStage, "Production"}

Init ==
    /\ artifact = 0
    /\ sidecar = 0
    /\ uploads = 0
    /\ pc = [c \in Clients |-> "idle"]
    /\ upload = [c \in Clients |-> 0]
    /\ meta = [c \in Clients |-> FALSE]
    /\ named = FALSE
    /\ versions = <<>>
    /\ mine = [c \in Clients |-> 0]
    /\ stage = [c \in Clients |-> NoStage]

Goto(c, from, to) == pc[c] = from /\ pc' = [pc EXCEPT ![c] = to]

runVars == <<artifact, sidecar, uploads, upload, meta>>
modelVars == <<named, versions, mine, stage>>

-----------------------------------------------------------------------------
(* log_artifact_with_meta, always for the same file name.                  *)

BeginLog(c) ==
    /\ pc[c] \in {"idle", "logged", "registered", "raised"}
    /\ pc' = [pc EXCEPT ![c] = "artifact"]
    /\ uploads < MaxUploads
    /\ uploads' = uploads + 1
    /\ upload' = [upload EXCEPT ![c] = uploads + 1]
    /\ meta' \in {[meta EXCEPT ![c] = m] : m \in BOOLEAN}
    /\ UNCHANGED <<artifact, sidecar, modelVars>>

LogArtifact(c) ==
    /\ Goto(c, "artifact", IF meta[c] THEN "meta" ELSE "logged")
    /\ artifact' = upload[c]
    /\ UNCHANGED <<sidecar, uploads, upload, meta, modelVars>>

\* Deviation: a failed sidecar is tolerated.
LogMetaOptional(c) ==
    /\ Goto(c, "meta", "logged")
    /\ sidecar' \in {sidecar, upload[c]}
    /\ UNCHANGED <<artifact, uploads, upload, meta, modelVars>>

\* The sidecar is written to a temporary directory and uploaded.
LogMeta(c) ==
    /\ Goto(c, "meta", "logged")
    /\ sidecar' = upload[c]
    /\ UNCHANGED <<artifact, uploads, upload, meta, modelVars>>

-----------------------------------------------------------------------------
(* register_model, called for what was logged.                             *)

BeginRegister(c) ==
    /\ Goto(c, "logged", "name")
    /\ stage' \in {[stage EXCEPT ![c] = s] : s \in Stages}
    /\ UNCHANGED <<runVars, named, versions, mine>>

\* create_registered_model; "already exists" is swallowed.
CreateName(c) ==
    /\ Goto(c, "name", "version")
    /\ named' = TRUE
    /\ UNCHANGED <<runVars, versions, mine, stage>>

CreateVersion(c) ==
    /\ Goto(c, "version", IF stage[c] = NoStage THEN "registered" ELSE "stage")
    /\ versions' = Append(versions, [by |-> c, stage |-> NoStage])
    /\ mine' = [mine EXCEPT ![c] = Len(versions) + 1]
    /\ UNCHANGED <<runVars, named, stage>>

\* Deviation: a failed transition is logged and forgotten.
TransitionOptional(c) ==
    /\ Goto(c, "stage", "registered")
    /\ versions' \in {versions, [versions EXCEPT ![mine[c]].stage = stage[c]]}
    /\ UNCHANGED <<runVars, named, mine, stage>>

TransitionStage(c) ==
    /\ Goto(c, "stage", "registered")
    /\ versions' = [versions EXCEPT ![mine[c]].stage = stage[c]]
    /\ UNCHANGED <<runVars, named, mine, stage>>

-----------------------------------------------------------------------------

\* A request fails (or meta cannot be written as JSON) and the exception
\* propagates, or the client dies.
RequestFails(c) ==
    /\ pc[c] \in {"artifact", "meta", "name", "version", "stage"}
    /\ pc' = [pc EXCEPT ![c] = "raised"]
    /\ UNCHANGED <<runVars, modelVars>>

Next ==
    \E c \in Clients :
        \/ BeginLog(c) \/ LogArtifact(c) \/ LogMeta(c)
        \/ BeginRegister(c) \/ CreateName(c) \/ CreateVersion(c)
        \/ TransitionStage(c) \/ RequestFails(c)

Spec == Init /\ [][Next]_vars

-----------------------------------------------------------------------------

\* A log call of the only client of a run returns with the artifact in place and,
\* when it has a meta dict, with its sidecar, also after earlier calls failed half
\* way.
LoggedBundleIsOwn ==
    \A c \in Clients :
        pc[c] = "logged" /\ (\A d \in Clients \ {c} : upload[d] = 0) =>
            artifact = upload[c] /\ (meta[c] => sidecar = upload[c])

\* What register_model returns is true of the registry, although other clients
\* register under the same name: the version exists, is the client's own, and
\* has the stage asked for.
RegistrationIsHonest ==
    \A c \in Clients : pc[c] = "registered" =>
        /\ mine[c] \in 1..Len(versions)
        /\ versions[mine[c]] = [by |-> c, stage |-> stage[c]]
=============================================================================
