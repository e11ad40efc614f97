-------------------------- MODULE Identity_proofs --------------------------
(***************************************************************************)
(* Proofs about the identity of a model and that of the configuration it   *)
(* was trained on, for every set of values, tools, schema versions,        *)
(* tickers, sectors and watchlists, and any number of edits.               *)
(***************************************************************************)
EXTENDS ModelFingerprint, ConfigConsistency, FiniteSetTheorems, SequenceTheorems, TLAPS

(* model_fingerprint.py.                                                   *)

\* Every payload says of every key what is under it.
PayloadShape ==
    /\ DOMAIN payload = Keys /\ DOMAIN boundTo = Keys
    /\ schema \in Nat \ {0}

\* The calibrator carries the digest of what it was fitted with, which was a
\* payload without unknown keys.
BindingIsOwn ==
    bound # NoStamp =>
        /\ bound.fingerprint = PredictiveContent(boundTo)
        /\ boundTo[NewKey] = None

LegacyIsOwn == legacy = LegacySha256(WithoutMigration(boundTo))

FingerprintInv == PayloadShape /\ BindingIsOwn /\ LegacyIsOwn

\* Two payloads have the same predictive content exactly when they agree on the
\* predictive keys, absence included.
LEMMA ContentIsAgreement ==
  ASSUME NEW p, NEW q, DOMAIN p = Keys, DOMAIN q = Keys
  PROVE  PredictiveContent(p) = PredictiveContent(q) <=> Agree(p, q, PredictiveKeys)
<1>1. PredictiveKeys \subseteq Keys
  BY DEF Keys
<1>2. ASSUME PredictiveContent(p) = PredictiveContent(q), NEW k \in PredictiveKeys
      PROVE  p[k] = q[k]
  <2>1. k \in Present(p) <=> k \in Present(q)
    BY <1>2 DEF PredictiveContent
  <2>2. k \in Present(p) => PredictiveContent(p)[k] = p[k]
    BY <1>2 DEF PredictiveContent
  <2>3. k \in Present(q) => PredictiveContent(q)[k] = q[k]
    BY <1>2 DEF PredictiveContent
  <2> QED
    BY <1>1, <1>2, <2>1, <2>2, <2>3 DEF Present
<1>3. ASSUME Agree(p, q, PredictiveKeys) PROVE PredictiveContent(p) = PredictiveContent(q)
  BY <1>1, <1>3 DEF PredictiveContent, Present, Agree
<1> QED
  BY <1>2, <1>3 DEF Agree

\* A payload that is hashed has no unknown key.
LEMMA HashedIsClassified ==
  ASSUME NEW p, DOMAIN p = Keys, HashOutcome(p) = "ok"
  PROVE  p[NewKey] = None
<1>1. ~Unclassified(p)
  BY DEF HashOutcome
<1>2. NewKey \in Keys /\ NewKey \notin PredictiveKeys \cup OperationalKeys
  BY DEF Keys, NewKey, PredictiveKeys, OperationalKeys
<1> QED
  BY <1>1, <1>2 DEF Unclassified, Present

\* What verifies is classified and has the content of the stamp.
LEMMA VerifiedContent ==
  ASSUME NEW p, NEW s, Verify(p, s) = "ok"
  PROVE  HashOutcome(p) = "ok" /\ PredictiveContent(p) = s.fingerprint
  BY DEF Verify, ModelContentSha256

\* A new artifact has no binding.
LEMMA InitFingerprintInv == Init => FingerprintInv
<1> SUFFICES ASSUME Init PROVE FingerprintInv
  OBVIOUS
<1> QED
  BY DEF Init, FingerprintInv, PayloadShape, BindingIsOwn, LegacyIsOwn

\* Every step keeps the binding and what it was made with together.
LEMMA StepFingerprintInv == FingerprintInv /\ [Next]_vars => FingerprintInv'
<1> SUFFICES ASSUME FingerprintInv, [Next]_vars PROVE FingerprintInv'
  OBVIOUS
<1> USE DEF FingerprintInv, PayloadShape
<1>1. ASSUME UNCHANGED <<bound, boundTo, legacy>>, DOMAIN payload' = Keys, schema' \in Nat \ {0}
      PROVE  FingerprintInv'
  BY <1>1 DEF BindingIsOwn, LegacyIsOwn
<1>2. CASE StampArtifact
  BY <1>1, <1>2 DEF StampArtifact
<1>3. CASE FitCalibrator
  <2>1. /\ bound' = stamped /\ boundTo' = payload
        /\ legacy' = LegacySha256(WithoutMigration(payload)) /\ UNCHANGED <<payload, schema>>
    BY <1>3 DEF FitCalibrator
  <2>2. HashOutcome(payload) = "ok" /\ PredictiveContent(payload) = stamped.fingerprint
    BY <1>3, VerifiedContent DEF FitCalibrator
  <2>3. payload[NewKey] = None
    BY <2>2, HashedIsClassified
  <2> QED
    BY <2>1, <2>2, <2>3 DEF BindingIsOwn, LegacyIsOwn
<1>4. ASSUME NEW k \in Keys, Edit(k) PROVE FingerprintInv'
  BY <1>1, <1>4 DEF Edit
<1>5. CASE BumpSchema
  BY <1>1, <1>5 DEF BumpSchema
<1>6. CASE UNCHANGED vars
  BY <1>1, <1>6 DEF vars
<1> QED
  BY <1>2, <1>3, <1>4, <1>5, <1>6 DEF Next

\* The calibrator's binding always is the digest of what it was fitted with
\* (model_fingerprint.py).
LEMMA BindingInductive == Spec => []FingerprintInv
  BY InitFingerprintInv, StepFingerprintInv, PTL DEF Spec

\* A binding that verifies was made with the very content of the artifact, in the
\* predictive keys and in those no table knows (model_fingerprint.py, verify).
THEOREM MatchIsTrue == Spec => []NoFalseMatch
<1>1. FingerprintInv => NoFalseMatch
  <2> SUFFICES ASSUME FingerprintInv, Verify(payload, bound) = "ok"
               PROVE  Agree(payload, boundTo, PredictiveKeys \cup {NewKey})
    BY DEF NoFalseMatch
  <2> USE DEF FingerprintInv, PayloadShape
  <2>1. bound # NoStamp
    BY DEF Verify, NoStamp
  <2>2. HashOutcome(payload) = "ok" /\ PredictiveContent(payload) = PredictiveContent(boundTo)
    BY <2>1, VerifiedContent DEF BindingIsOwn
  <2>3. Agree(payload, boundTo, PredictiveKeys)
    BY <2>2, ContentIsAgreement
  <2>4. payload[NewKey] = boundTo[NewKey]
    BY <2>1, <2>2, HashedIsClassified DEF BindingIsOwn
  <2> QED
    BY <2>3, <2>4 DEF Agree
<1> QED
  BY BindingInductive, <1>1, PTL

\* A MismatchError is evidence that predictive content changed: no edit of other
\* keys brings it about (model_fingerprint.py, verify).
THEOREM MismatchIsTrue == Spec => []NoFalseMismatch
<1>1. FingerprintInv => NoFalseMismatch
  <2> SUFFICES ASSUME FingerprintInv, bound # NoStamp, Verify(payload, bound) = "MismatchError",
                      Agree(payload, boundTo, PredictiveKeys)
               PROVE  FALSE
    BY DEF NoFalseMismatch
  <2> USE DEF FingerprintInv, PayloadShape
  <2>1. PredictiveContent(payload) = bound.fingerprint
    BY ContentIsAgreement DEF BindingIsOwn
  <2>2. HashOutcome(payload) # "MismatchError"
    BY DEF HashOutcome
  <2> QED
    BY <2>1, <2>2 DEF Verify, ModelContentSha256
<1> QED
  BY BindingInductive, <1>1, PTL

\* Neither denylisted edits nor new stamps change the 0.8.1 identity of a scorer, hashed
\* as the audit path does, without the field a stamp adds (model_fingerprint.py, _legacy_model_content_sha256).
THEOREM LegacyIsStable == Spec => []LegacyIdentitySurvives
<1>1. FingerprintInv => LegacyIdentitySurvives
  <2> SUFFICES ASSUME FingerprintInv, boundTo["booster_raw_json"] # None,
                      Agree(payload, boundTo, Keys \ (MutableArtifactKeys \cup MigrationKeys))
               PROVE  LegacySha256(WithoutMigration(payload)) = legacy
    BY DEF LegacyIdentitySurvives
  <2> DEFINE p == WithoutMigration(payload)
             q == WithoutMigration(boundTo)
  <2>1. DOMAIN p = Keys /\ DOMAIN q = Keys
    BY DEF WithoutMigration
  <2>2. \A k \in Keys \ MutableArtifactKeys : p[k] = q[k]
    BY DEF WithoutMigration, Agree
  <2>3. /\ "booster_raw_json" \in Keys \ (MutableArtifactKeys \cup MigrationKeys)
        /\ q["booster_raw_json"] = boundTo["booster_raw_json"]
    BY DEF Keys, PredictiveKeys, MutableArtifactKeys, MigrationKeys, WithoutMigration
  <2> HIDE DEF p, q
  <2>4. "booster_raw_json" \in Present(p) /\ "booster_raw_json" \in Present(q)
    BY <2>1, <2>2, <2>3 DEF Present
  <2>5. Present(p) \ MutableArtifactKeys = Present(q) \ MutableArtifactKeys
    BY <2>1, <2>2 DEF Present
  <2>6. LegacyContent(p) = LegacyContent(q)
    BY <2>1, <2>2, <2>5 DEF LegacyContent, Present
  <2>7. LegacySha256(p) = LegacyContent(p) /\ LegacySha256(q) = LegacyContent(q)
    BY <2>4 DEF LegacySha256, PredictiveContentHints
  <2> QED
    BY <2>6, <2>7 DEF p, q, FingerprintInv, LegacyIsOwn
<1> QED
  BY BindingInductive, <1>1, PTL

-----------------------------------------------------------------------------
(* config_consistency.py.                                                  *)

\* What is listed is a ticker.
LEMMA ListedIsTicker == ASSUME NEW c \in Configs PROVE Listed(c) \subseteq Tickers
<1>1. c.watchlist \in Seq(Tickers)
  BY ConfigAssumption DEF Configs
<1> QED
  BY <1>1, ElementOfSeq, LenProperties DEF Listed, Range

\* The fingerprint tells the panel a model is trained on, and how often each ticker is
\* listed.
LEMMA FingerprintIsPanel ==
  ASSUME NEW c \in Configs, NEW d \in Configs
  PROVE  FingerprintConfig(c) = FingerprintConfig(d) <=> SamePanel(c, d) /\ Copies(c) = Copies(d)
<1> DEFINE Normal(e) == IF e.settings = Missing THEN Default ELSE e.settings
           SameSectors == \A t \in Traded(c) : c.sector[t] = d.sector[t]
           SameEtfs == \A t \in Traded(c) : c.sector[t] # Missing => c.etf[c.sector[t]] = d.etf[c.sector[t]]
<1>1. FingerprintConfig(c) = FingerprintConfig(d) <=>
        /\ Copies(c) = Copies(d) /\ Normal(c) = Normal(d)
        /\ SectorMap(c) = SectorMap(d) /\ SectorEtfMap(c) = SectorEtfMap(d)
  BY DEF FingerprintConfig, ModelRelevantFields
<1>2. (c.settings = d.settings \/ {c.settings, d.settings} \subseteq {Default, Missing})
        <=> Normal(c) = Normal(d)
  BY ConfigAssumption DEF Configs
<1>3. Copies(c) = Copies(d) => Listed(c) = Listed(d)
  <2>1. DOMAIN Copies(c) = Listed(c) /\ DOMAIN Copies(d) = Listed(d)
    BY DEF Copies
  <2> QED
    BY <2>1
<1>4. /\ DOMAIN SectorMap(c) = Traded(c) /\ DOMAIN SectorMap(d) = Traded(d)
      /\ \A t \in Traded(c) : SectorMap(c)[t] = c.sector[t]
      /\ \A t \in Traded(d) : SectorMap(d)[t] = d.sector[t]
  BY DEF SectorMap
<1>5. SectorMap(c) = SectorMap(d) => Traded(c) = Traded(d) /\ SameSectors
  BY <1>4
<1>6. Traded(c) = Traded(d) /\ SameSectors => SectorMap(c) = SectorMap(d)
  BY DEF SectorMap
<1>7. ASSUME SectorMap(c) = SectorMap(d)
      PROVE  SectorEtfMap(c) = SectorEtfMap(d) <=> SameEtfs
  <2>1. UsedSectors(c) = UsedSectors(d)
    BY <1>7 DEF UsedSectors
  <2>2. UsedSectors(c) = {c.sector[t] : t \in Traded(c)} \ {Missing}
    BY <1>4 DEF UsedSectors
  <2>3. SameEtfs <=> \A s \in UsedSectors(c) : c.etf[s] = d.etf[s]
    BY <2>2
  <2>4. SectorEtfMap(c) = SectorEtfMap(d) <=> \A s \in UsedSectors(c) : c.etf[s] = d.etf[s]
    <3>1. SectorEtfMap(c) = [s \in UsedSectors(c) |-> c.etf[s]]
      BY DEF SectorEtfMap
    <3>2. SectorEtfMap(d) = [s \in UsedSectors(c) |-> d.etf[s]]
      BY <2>1 DEF SectorEtfMap
    <3> QED
      BY <3>1, <3>2
  <2> QED
    BY <2>3, <2>4
<1>8. SamePanel(c, d) <=>
        /\ Listed(c) = Listed(d) /\ Traded(c) = Traded(d)
        /\ SameSectors /\ SameEtfs /\ Normal(c) = Normal(d)
  BY <1>2 DEF SamePanel
<1> HIDE DEF Normal, SameSectors, SameEtfs
<1> QED
  BY <1>1, <1>3, <1>5, <1>6, <1>7, <1>8

Artifacts == [stamp : {FingerprintConfig(c) : c \in Configs} \cup {Missing}, on : Configs]

\* Every artifact is stamped with the fingerprint of what it was trained on, or not.
ConfigShape ==
    /\ config \in Configs
    /\ trained \in Seq(Artifacts)
    /\ \A n \in DOMAIN trained : trained[n].stamp \in {FingerprintConfig(trained[n].on), Missing}
    /\ artifact \in DOMAIN trained \cup {Missing}

ConfigInv == ConfigShape /\ StrictStartIsExact

\* Nothing is trained at first.
LEMMA InitConfigInv == ConfigInit => ConfigInv
<1> SUFFICES ASSUME ConfigInit PROVE ConfigInv
  OBVIOUS
<1>1. trained \in Seq(Artifacts) /\ DOMAIN trained = {}
  BY DEF ConfigInit
<1> QED
  BY <1>1, ConfigAssumption DEF ConfigInit, ConfigInv, ConfigShape, StrictStartIsExact

\* An edit leaves a configuration.
LEMMA EditKeepsShape == ConfigInv /\ EditConfig => ConfigInv'
<1> SUFFICES ASSUME ConfigInv, EditConfig PROVE ConfigInv'
  OBVIOUS
<1> USE DEF ConfigInv, ConfigShape
<1>1. config' \in Configs
  <2>1. ASSUME NEW w \in Watchlists, config' = [config EXCEPT !.watchlist = w]
        PROVE  config' \in Configs
    BY <2>1 DEF Configs
  <2>2. ASSUME NEW v \in Settings \cup {Missing}, config' = [config EXCEPT !.settings = v]
        PROVE  config' \in Configs
    BY <2>2 DEF Configs
  <2>3. ASSUME NEW t \in Tickers, NEW s \in Sectors \cup {Missing},
               config' = [config EXCEPT !.sector[t] = s]
        PROVE  config' \in Configs
    BY <2>3 DEF Configs
  <2>4. ASSUME NEW s \in Sectors, NEW e \in Etfs \cup {Missing},
               config' = [config EXCEPT !.etf[s] = e]
        PROVE  config' \in Configs
    BY <2>4 DEF Configs
  <2>5. ASSUME NEW b \in Benchmarks \cup {Missing}, config' = [config EXCEPT !.benchmark = b]
        PROVE  config' \in Configs
    BY <2>5 DEF Configs
  <2> QED
    BY <2>1, <2>2, <2>3, <2>4, <2>5 DEF EditConfig
<1>2. start' = Missing /\ UNCHANGED <<trained, artifact>>
  BY DEF EditConfig
<1> QED
  BY <1>1, <1>2 DEF StrictStartIsExact

\* A training adds an artifact with its own stamp, or none.
LEMMA TrainKeepsShape == ConfigInv /\ TrainArtifact => ConfigInv'
<1> SUFFICES ASSUME ConfigInv, TrainArtifact PROVE ConfigInv'
  OBVIOUS
<1> USE DEF ConfigInv, ConfigShape
<1>1. PICK stamp \in {FingerprintConfig(config), Missing} :
         trained' = Append(trained, [stamp |-> stamp, on |-> config])
  BY DEF TrainArtifact
<1>2. trained \in Seq(Artifacts) /\ [stamp |-> stamp, on |-> config] \in Artifacts
  BY <1>1 DEF Artifacts
<1>3. /\ trained' \in Seq(Artifacts) /\ DOMAIN trained' = 1..Len(trained) + 1
      /\ DOMAIN trained = 1..Len(trained) /\ Len(trained) \in Nat
      /\ \A n \in DOMAIN trained : trained'[n] = trained[n]
      /\ trained'[Len(trained) + 1] = [stamp |-> stamp, on |-> config]
  BY <1>1, <1>2, AppendProperties, LenProperties
<1>4. \A n \in DOMAIN trained' : trained'[n].stamp \in {FingerprintConfig(trained'[n].on), Missing}
  <2> SUFFICES ASSUME NEW n \in DOMAIN trained'
               PROVE  trained'[n].stamp \in {FingerprintConfig(trained'[n].on), Missing}
    OBVIOUS
  <2>1. CASE n \in DOMAIN trained
    BY <1>3, <2>1
  <2>2. CASE n = Len(trained) + 1
    BY <1>1, <1>3, <2>2
  <2> QED
    BY <1>3, <2>1, <2>2
<1>5. /\ artifact' = Len(trained) + 1 /\ start' = Missing /\ config' = config
      /\ FingerprintConfig(config)' = FingerprintConfig(config)
  BY DEF TrainArtifact
<1> QED
  BY <1>3, <1>4, <1>5 DEF StrictStartIsExact, Artifacts

\* Records with the same fields that differ, differ in a field.
LEMMA DifferenceHasName ==
  ASSUME NEW c, NEW d, ModelRelevantFields(c) # ModelRelevantFields(d)
  PROVE  {f \in DOMAIN ModelRelevantFields(c) :
             ModelRelevantFields(c)[f] # ModelRelevantFields(d)[f]} # {}
  BY DEF ModelRelevantFields

\* A start tells whether the artifact was trained on the panel of the configuration.
LEMMA StartIsExact == ConfigInv /\ StartRunner => ConfigInv'
<1> SUFFICES ASSUME ConfigInv, StartRunner PROVE ConfigInv'
  OBVIOUS
<1> USE DEF ConfigInv, ConfigShape
<1> DEFINE live == ModelRelevantFields(config)
           used == trained[artifact]
           ok == used.stamp # Missing /\ used.stamp = FingerprintConfig(config)
           passes == TrainedOnLive /\ Copies(config) = Copies(used.on)
<1>1. UNCHANGED <<config, trained, artifact>> /\ artifact \in DOMAIN trained
  BY DEF StartRunner
<1>2. PICK strict \in BOOLEAN :
         start' = [ strict  |-> strict,
                    outcome |-> IF ok THEN "ok" ELSE IF strict THEN "refused" ELSE "logged",
                    named   |-> IF ok \/ used.stamp = Missing THEN {}
                                ELSE {f \in DOMAIN live : live[f] # used.stamp[f]} ]
  BY DEF StartRunner
<1>3. used.on \in Configs /\ used.stamp \in {FingerprintConfig(used.on), Missing}
  <2>1. used \in Artifacts
    BY <1>1, ElementOfSeq, LenProperties DEF Artifacts
  <2> QED
    BY <1>1, <2>1 DEF Artifacts
<1>4. ok <=> passes
  BY <1>3, FingerprintIsPanel DEF TrainedOnLive
<1>5. ~ok /\ used.stamp # Missing => {f \in DOMAIN live : live[f] # used.stamp[f]} # {}
  <2> SUFFICES ASSUME ~ok, used.stamp # Missing
               PROVE  {f \in DOMAIN live : live[f] # used.stamp[f]} # {}
    OBVIOUS
  <2>1. used.stamp = ModelRelevantFields(used.on) /\ live # ModelRelevantFields(used.on)
    BY <1>3 DEF FingerprintConfig
  <2> QED
    BY <2>1, DifferenceHasName
<1>6. /\ start'.strict = strict
      /\ start'.outcome = IF ok THEN "ok" ELSE IF strict THEN "refused" ELSE "logged"
      /\ start'.named = IF ok \/ used.stamp = Missing THEN {}
                        ELSE {f \in DOMAIN live : live[f] # used.stamp[f]}
  BY <1>2
<1>7. /\ start'.outcome = "ok" <=> passes
      /\ start'.strict => start'.outcome \in {"ok", "refused"}
      /\ ~passes /\ used.stamp # Missing => start'.named # {}
  <2> HIDE DEF ok, passes, live
  <2> QED
    BY <1>4, <1>5, <1>6
<1>8. TrainedOnLive' <=> TrainedOnLive
  BY <1>1 DEF TrainedOnLive
<1>9. StrictStartIsExact'
  BY <1>1, <1>7, <1>8 DEF StrictStartIsExact
<1> QED
  BY <1>1, <1>9

\* Through every history of edits, trainings and restores, a start passes exactly for
\* an artifact trained on the panel of the live configuration with each ticker listed
\* as often, and a refusal names a field (config_consistency.py, assert_consistent).
THEOREM StartTellsTheTruth == ConfigSpec => []StrictStartIsExact
<1>1. ConfigInv /\ [ConfigNext]_configVars => ConfigInv'
  <2> SUFFICES ASSUME ConfigInv, [ConfigNext]_configVars PROVE ConfigInv'
    OBVIOUS
  <2>1. CASE RestoreArtifact
    BY <2>1 DEF RestoreArtifact, ConfigInv, ConfigShape, StrictStartIsExact
  <2>2. CASE UNCHANGED configVars
    <3>1. UNCHANGED <<config, trained, artifact, start>>
      BY <2>2 DEF configVars
    <3>2. ConfigShape'
      BY <3>1 DEF ConfigInv, ConfigShape
    <3>3. StrictStartIsExact'
      BY <3>1 DEF ConfigInv, StrictStartIsExact, TrainedOnLive
    <3> QED
      BY <3>2, <3>3 DEF ConfigInv
  <2> QED
    BY <2>1, <2>2, EditKeepsShape, TrainKeepsShape, StartIsExact DEF ConfigNext
<1>2. ConfigInv => StrictStartIsExact
  BY DEF ConfigInv
<1> QED
  BY InitConfigInv, <1>1, <1>2, PTL DEF ConfigSpec
=============================================================================
