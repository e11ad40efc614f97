-------------------------- MODULE ConfigConsistency --------------------------
(***************************************************************************)
(* config_consistency.py: the fingerprint of the model-relevant fields of  *)
(* the strategy configuration, stamped on the artifact at training, and    *)
(* the check at the start of the runner.  In between the configuration is  *)
(* edited, models are trained, and an earlier artifact is put back without *)
(* its configuration.                                                      *)
(***************************************************************************)
EXTENDS Naturals, Sequences, FiniteSets, Functions

CONSTANTS
    Tickers,
    Benchmarks,           \* what config["benchmark"] may be; one may be on a watchlist
    Spy,                  \* the benchmark of a configuration that names none
    Watchlists,           \* what config["watchlist"] may be: sequences of tickers
    Sectors, Etfs,
    Settings,             \* values of the scalar fields, taken together
    Default,              \* the one they have where the configuration is silent
    Missing,              \* a missing entry or stamp; no artifact, no start
    FirstConfig,          \* the configuration at the beginning
    MaxEdits, MaxTrained  \* bounds: edits of the configuration, artifacts trained

Configs == [ watchlist : Watchlists,
             benchmark : Benchmarks \cup {Missing},
             settings  : Settings \cup {Missing},
             sector    : [Tickers -> Sectors \cup {Missing}],
             etf       : [Sectors -> Etfs \cup {Missing}] ]

ASSUME ConfigAssumption ==
    /\ Watchlists \subseteq Seq(Tickers)
    /\ FirstConfig \in Configs
    /\ Default \in Settings /\ Spy \in Benchmarks
    /\ Missing \notin Settings \cup Sectors \cup Etfs \cup Benchmarks
    /\ {MaxEdits, MaxTrained} \subseteq Nat

VARIABLES
    config,      \* the live strategy configuration
    edits,       \* edits so far
    trained,     \* the artifacts trained: stamp, and (history) the configuration used
    artifact,    \* the one the runner would load: its number, or Missing
    start        \* the outcome of a start of the runner that just happened

configVars == <<config, edits, trained, artifact, start>>

-----------------------------------------------------------------------------
(* _model_relevant_fields                                                  *)

Listed(c) == Range(c.watchlist)

\* sorted(watchlist): the order is lost, the number of copies is not.
Copies(c) == [t \in Listed(c) |-> Cardinality({n \in DOMAIN c.watchlist : c.watchlist[n] = t})]

BenchmarkOf(c) == IF c.benchmark = Missing THEN Spy ELSE c.benchmark

Traded(c) == Listed(c) \ {BenchmarkOf(c)}

SectorMap(c) == [t \in Traded(c) |-> c.sector[t]]

UsedSectors(c) == {SectorMap(c)[t] : t \in DOMAIN SectorMap(c)} \ {Missing}

\* Deviation: every ETF counts, also of a sector no listed ticker is in.
WholeEtfMap(c) == c.etf

SectorEtfMap(c) == [s \in UsedSectors(c) |-> c.etf[s]]

ModelRelevantFields(c) ==
    [ watchlist    |-> Copies(c),
      settings     |-> IF c.settings = Missing THEN Default ELSE c.settings,
      sectorMap    |-> SectorMap(c),
      sectorEtfMap |-> SectorEtfMap(c) ]

\* fingerprint_config: SHA-256, cut to 64 bits, finds no collision.
FingerprintConfig(c) == ModelRelevantFields(c)

-----------------------------------------------------------------------------

ConfigInit ==
    /\ config = FirstConfig
    /\ edits = 0
    /\ trained = <<>>
    /\ artifact = Missing
    /\ start = Missing

\* One entry of the configuration is edited, added or removed; a watchlist is
\* replaced as a whole.
EditConfig ==
    /\ edits < MaxEdits
    /\ edits' = edits + 1
    /\ \/ \E w \in Watchlists : config' = [config EXCEPT !.watchlist = w]
       \/ \E b \in Benchmarks \cup {Missing} : config' = [config EXCEPT !.benchmark = b]
       \/ \E v \in Settings \cup {Missing} : config' = [config EXCEPT !.settings = v]
       \/ \E t \in Tickers, s \in Sectors \cup {Missing} : config' = [config EXCEPT !.sector[t] = s]
       \/ \E s \in Sectors, e \in Etfs \cup {Missing} : config' = [config EXCEPT !.etf[s] = e]
    /\ start' = Missing
    /\ UNCHANGED <<trained, artifact>>

\* A model is trained on the live configuration; training scripts that pre-date the
\* guard leave no stamp.
TrainArtifact ==
    /\ Len(trained) < MaxTrained
    /\ \E stamp \in {FingerprintConfig(config), Missing} :
          trained' = Append(trained, [stamp |-> stamp, on |-> config])
    /\ artifact' = Len(trained) + 1
    /\ start' = Missing
    /\ UNCHANGED <<config, edits>>

\* An earlier artifact is restored; the configuration stays as it is.
RestoreArtifact ==
    /\ artifact' \in DOMAIN trained \ {artifact}
    /\ start' = Missing
    /\ UNCHANGED <<config, edits, trained>>

\* assert_consistent: what comes of a start, and the fields its message names, for
\* an artifact that carries the fields it was stamped with.
StartRunner ==
    /\ artifact # Missing
    /\ \E strict \in BOOLEAN :
          LET live == ModelRelevantFields(config)
              stored == trained[artifact].stamp
              ok == stored # Missing /\ stored = FingerprintConfig(config)
          IN  start' = [ strict  |-> strict,
                         outcome |-> IF ok THEN "ok" ELSE IF strict THEN "refused" ELSE "logged",
                         named   |-> IF ok \/ stored = Missing THEN {}
                                     ELSE {f \in DOMAIN live : live[f] # stored[f]} ]
    /\ UNCHANGED <<config, edits, trained, artifact>>

ConfigNext == EditConfig \/ TrainArtifact \/ RestoreArtifact \/ StartRunner

ConfigSpec == ConfigInit /\ [][ConfigNext]_configVars

-----------------------------------------------------------------------------

\* What a model is trained on: the set of tickers, the benchmark if it is one of them,
\* the sectors of the others and the ETFs of these sectors, and the scalar settings.
SamePanel(c, d) ==
    /\ Listed(c) = Listed(d) /\ Traded(c) = Traded(d)
    /\ \A t \in Traded(c) :
          /\ c.sector[t] = d.sector[t]
          /\ c.sector[t] # Missing => c.etf[c.sector[t]] = d.etf[c.sector[t]]
    /\ c.settings = d.settings \/ {c.settings, d.settings} \subseteq {Default, Missing}

TrainedOnLive == trained[artifact].stamp # Missing /\ SamePanel(config, trained[artifact].on)

\* Through every order of edits, trainings and reverts: an artifact passes only if it
\* is stamped and was trained on the panel the live configuration describes, and then
\* it does pass, unless a ticker is on the two watchlists a different number of times.
\* So a reordering, a spelled-out default, the sector of a ticker that is not listed,
\* or a benchmark that is not listed, before and after, never refuses a start.  A strict
\* start is refused otherwise, and the message names what differs.
StrictStartIsExact ==
    start # Missing =>
        LET passes == TrainedOnLive /\ Copies(config) = Copies(trained[artifact].on)
        IN  /\ start.outcome = "ok" <=> passes
            /\ start.strict => start.outcome \in {"ok", "refused"}
            /\ ~passes /\ trained[artifact].stamp # Missing => start.named # {}

\* "watchlist - set of tickers the panel was built over" and "Sorted set of tickers":
\* a strict start of an artifact trained on the same set, with all else equal, passes.
WatchlistIsSet ==
    start # Missing /\ start.strict /\ TrainedOnLive => start.outcome = "ok"
=============================================================================
