----------------------------- MODULE MCIdentity -----------------------------
(* The identity of a model and that of the configuration it was trained    *)
(* on, checked side by side: their steps are not combined, as neither      *)
(* reads the state of the other.                                           *)
EXTENDS ModelFingerprint, ConfigConsistency, TLC
CONSTANTS a, b

TwoValues == {a, b}

\* Two models and two labels; one nested dict that may hold a NaN or a value
\* that cannot be encoded; keys that are only present or absent.
ToolValues(k) ==
    CASE k = "booster_raw_json"  -> {None, a, b}
      [] k = "label_col"         -> {a, b}
      [] k = "params"            -> {None, NaN, Opaque}
      [] OTHER                   -> {None, a}

\* Another order, a ticker less, a benchmark on the list, a ticker listed twice.
SomeWatchlists ==
    {<<"A", "B">>, <<"B", "A">>, <<"B">>, <<"A", "SPY">>, <<"A", "B", "A">>}

TwoSectors ==
    [ watchlist |-> <<"A", "B">>, benchmark |-> Missing, settings |-> Missing,
      sector |-> ("A" :> "tech") @@ ("B" :> "energy") @@ ("SPY" :> Missing),
      etf |-> [s \in Sectors |-> "fund"] ]

IdentityInit == Init /\ ConfigInit
IdentityNext ==
    \/ Next /\ ConfigInit /\ UNCHANGED configVars
    \/ ConfigNext /\ Init /\ UNCHANGED vars
=============================================================================
