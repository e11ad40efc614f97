-------------------------- MODULE ModelFingerprint --------------------------
(***************************************************************************)
(* model_fingerprint.py: the life of a model artifact whose payload is     *)
(* stamped with a fingerprint of its predictive content, bound to by a     *)
(* calibrator, edited by acceptance tools, re-stamped and verified.        *)
(*                                                                         *)
(* A payload gives each of a few representative keys a value or None (the  *)
(* key is absent).  SHA-256 over canonical JSON is modelled as injective:  *)
(* the digest of a content is that content.                                *)
(***************************************************************************)
EXTENDS Naturals

CONSTANTS
    Values,        \* finite JSON values a key may have
    None,          \* the key is absent
    NaN,           \* a value with a non-finite float in it
    Opaque,        \* a value no JSON encoder represents
    EditValues(_), \* bound: the values tools write under a key, None to drop it
    MaxSchema      \* bound: the highest FINGERPRINT_SCHEMA_VERSION

ASSUME SchemaAssumption == MaxSchema \in Nat \ {0}
ASSUME ValuesAssumption == {None, NaN, Opaque} \cap Values = {}

\* One key for each way in which the two tables of schema v1 and the two of the
\* 0.8.1 shims classify keys.
PredictiveKeys == {"booster_raw_json", "params", "label_col"}
OperationalKeys == {"wf_gate_metadata", "best_iter", "fingerprint_schema_version"}
NewKey == "key_of_tomorrow"          \* in no table
Keys == PredictiveKeys \cup OperationalKeys \cup {NewKey}

MutableArtifactKeys == {"label_col", "wf_gate_metadata"}
PredictiveContentHints == {"booster_raw_json"}

\* The top-level field a v1 stamp adds, as far as it is not in the denylist.
MigrationKeys == {"fingerprint_schema_version"}

VARIABLES
    payload,    \* the artifact's payload
    schema,     \* FINGERPRINT_SCHEMA_VERSION of the code in use
    stamped,    \* the stamp persisted with the artifact, or NoStamp
    bound,      \* the stamp the calibrator carries, or NoStamp
    boundTo,    \* history: the payload the calibrator was fitted with
    legacy      \* history: 0.8.1 fingerprint at that time

vars == <<payload, schema, stamped, bound, boundTo, legacy>>

NoStamp == [fingerprint |-> <<>>, version |-> 0]

-----------------------------------------------------------------------------

Present(p) == {k \in DOMAIN p : p[k] # None}

\* Deviation: allowlist; a key in no table is ignored.
IgnoreUnclassified(p) == FALSE

Unclassified(p) == Present(p) \ (PredictiveKeys \cup OperationalKeys) # {}

\* Deviation: the denylist of 0.8.1 says what is hashed.
DenylistContent(p) == [k \in Present(p) \ MutableArtifactKeys |-> p[k]]

\* {k: payload[k] for k in payload if k in PREDICTIVE_KEYS}
PredictiveContent(p) == [k \in Present(p) \cap PredictiveKeys |-> p[k]]

\* How model_content_sha256 ends: with a digest or with one of its errors.
HashOutcome(p) ==
    LET content == PredictiveContent(p)
        has(v) == \E k \in DOMAIN content : content[k] = v
    IN  CASE Unclassified(p)          -> "UnclassifiedKeyError"
          [] DOMAIN content = {}      -> "NoPredictiveContentError"
          [] has(NaN)                 -> "NonFiniteValueError"
          [] has(Opaque)              -> "FingerprintError"
          [] OTHER                    -> "ok"

\* model_content_sha256 of a payload it accepts.
ModelContentSha256(p) == PredictiveContent(p)

Stamp(p) == [fingerprint |-> ModelContentSha256(p), version |-> schema]

\* verify(payload, expected, expected_version); version 0 stands for a stamp
\* whose version is missing or malformed.
Verify(p, s) ==
    IF s.version # schema THEN "VersionGapError"
    ELSE IF HashOutcome(p) # "ok" THEN HashOutcome(p)
    ELSE IF ModelContentSha256(p) = s.fingerprint THEN "ok"
    ELSE "MismatchError"

\* _legacy_model_content_sha256 with its fallback to the hash of the file.
LegacyContent(p) == [k \in Present(p) \ MutableArtifactKeys |-> p[k]]

\* Deviation: the shim is routed through the v1 tables.
LegacySha256ByV1(p) == PredictiveContent(p)

LegacySha256(p) ==
    IF Present(p) \cap PredictiveContentHints # {} THEN LegacyContent(p) ELSE p

\* What the audit path of the migration hashes: the payload without what it added.
WithoutMigration(p) == [k \in Keys |-> IF k \in MigrationKeys THEN None ELSE p[k]]

-----------------------------------------------------------------------------

\* A trained artifact starts with a booster, its label and some bookkeeping.
Init ==
    /\ payload \in {[k \in Keys |-> IF k = "booster_raw_json" THEN b
                                    ELSE IF k = "label_col" THEN l ELSE None] :
                        b \in Values, l \in Values}
    /\ schema = 1
    /\ stamped = NoStamp
    /\ bound = NoStamp
    /\ boundTo = payload
    /\ legacy = LegacySha256(WithoutMigration(payload))

\* The producer persists stamp(payload) with the payload; the number written
\* under fingerprint_schema_version is a value like any other.
StampArtifact ==
    /\ HashOutcome(payload) = "ok"
    /\ stamped' = Stamp(payload)
    /\ payload' = [payload EXCEPT !["fingerprint_schema_version"] =
                      CHOOSE v \in Values : TRUE]
    /\ UNCHANGED <<schema, bound, boundTo, legacy>>

\* The calibrator is fitted with the artifact as it is now, if that verifies.
FitCalibrator ==
    /\ stamped # NoStamp
    /\ Verify(payload, stamped) = "ok"
    /\ bound' = stamped
    /\ boundTo' = payload
    /\ legacy' = LegacySha256(WithoutMigration(payload))
    /\ UNCHANGED <<payload, schema, stamped>>

\* Some tool writes, adds or drops one key of the payload.
Edit(k) ==
    /\ \E v \in EditValues(k) : payload' = [payload EXCEPT ![k] = v]
    /\ UNCHANGED <<schema, stamped, bound, boundTo, legacy>>

\* A release changes the tables.
BumpSchema ==
    /\ schema < MaxSchema
    /\ schema' = schema + 1
    /\ UNCHANGED <<payload, stamped, bound, boundTo, legacy>>

Next ==
    \/ StampArtifact \/ FitCalibrator \/ BumpSchema
    \/ \E k \in Keys : Edit(k)

Spec == Init /\ [][Next]_vars

-----------------------------------------------------------------------------

Agree(p, q, ks) == \A k \in ks : p[k] = q[k]

\* No false MATCH: a calibrator's binding that verifies was made with the very
\* content of the artifact, in the keys of the predictive table and in those no
\* table knows yet.
NoFalseMatch ==
    Verify(payload, bound) = "ok" =>
        Agree(payload, boundTo, PredictiveKeys \cup {NewKey})

\* No false MISMATCH: a MismatchError is evidence that predictive content
\* changed; no edit of operational or of unknown keys brings it about.
NoFalseMismatch ==
    bound # NoStamp /\ Verify(payload, bound) = "MismatchError" =>
        ~Agree(payload, boundTo, PredictiveKeys)

\* Acceptance tools, which edit denylisted keys, do not change the 0.8.1 identity of a
\* scorer: an artifact the calibrator was fitted with keeps it until another key
\* changes.  A re-stamp does not either, for the audit path, which leaves out the field
\* the stamp adds; the denylist does not name it, so that the shim's hash of the
\* stamped payload itself is another one.
LegacyIdentitySurvives ==
    /\ bound # NoStamp
    /\ boundTo["booster_raw_json"] # None
    /\ Agree(payload, boundTo, Keys \ (MutableArtifactKeys \cup MigrationKeys))
    => LegacySha256(WithoutMigration(payload)) = legacy
=============================================================================
