---------------------------- MODULE RegimeLabels ----------------------------
(***************************************************************************)
(* The two regime labellers and what an optimiser learns from them:        *)
(* compute_hmm_regime_labels of hmm_regime_labels.py, and the 9-grid of    *)
(* regime_labels.py with per_regime_cs_ic and min_across_regimes.          *)
(*                                                                         *)
(* Returns are whole percents, and every comparison of the code is made    *)
(* exact: both sides are multiplied by the denominators and, where a       *)
(* standard deviation occurs, squared.  The length of each window is a     *)
(* constant, a few days long where the code has weeks or a year.           *)
(***************************************************************************)
EXTENDS Integers, Sequences, FiniteSets, Functions

CONSTANTS
    DailyReturns,                 \* what `ret` of a day may be, in percent
    MaxDays,                      \* bound: days of history
    ShortWindow, MidWindow, LongWindow,      \* 5, 20 and 60 in the code
    HurstWindow, HurstThreshold,             \* 63 and 65 (percent)
    MinHistory,                   \* days labelled BULL_CALM unseen: 30
    TrendWindow, VolWindow, HistWindow,      \* 60, 20 and 252
    MinHistRows,                  \* 30
    DayIC,                        \* the cross-sectional IC of each day
    NoIC

ASSUME RegimeAssumption ==
    /\ DailyReturns \subseteq -99..99 /\ MaxDays \in Nat
    /\ {LongWindow, MinHistory, TrendWindow, VolWindow, HistWindow} \subseteq Nat
    /\ {ShortWindow, MidWindow, HurstWindow} \subseteq Nat \ {0, 1}
    /\ MidWindow <= MinHistory
    /\ {TrendWindow \div 2, VolWindow \div 2, MinHistRows} \subseteq Nat \ {0, 1}
    /\ DayIC \in [1..MaxDays -> Int \cup {NoIC}]

VARIABLES
    rets,        \* the returns so far
    published    \* the labels each day was given when it was the last

regimeVars == <<rets, published>>

Total(s) == SumFunction(s)
Squares(s) == FoldFunction(LAMBDA x, y : x * x + y, 0, s)

\* n * (n - 1) times the sample variance of a window of n returns.
Spread(s) == Len(s) * Squares(s) - Total(s) * Total(s)
Pairs(s) == Len(s) * (Len(s) - 1)

\* std(ddof=1) * sqrt(252) against a percentage.
VolAbove(s, pct) == 252 * Spread(s) > pct * pct * Pairs(s)
VolBelow(s, pct) == 252 * Spread(s) < pct * pct * Pairs(s)

\* prod(1 + s) - 1 against a percentage; `ret` holds log returns, compounded here
\* like simple ones.
Growth(s) == FoldFunction(LAMBDA x, y : (100 + x) * y, 1, s)
ReturnBelow(s, pct) == 100 * Growth(s) < (100 + pct) * 100^Len(s)
ReturnAbove(s, pct) == 100 * Growth(s) > (100 + pct) * 100^Len(s)

\* rets[max(0, i - n):i]: the n returns before day d, which is not among them.
Before(r, d, n) == SubSeq(r, IF d > n THEN d - n ELSE 1, d - 1)

\* The last n returns up to day d: a rolling window, or [-n:] of rets[:i + 1].
UpTo(r, d, n) == SubSeq(r, IF d > n THEN d - n + 1 ELSE 1, d)

\* _compute_hurst > HurstThreshold, for the last HurstWindow returns of rets[:i + 1];
\* 50 when it cannot be computed.  Devs are Len(w) times the cumulated deviations
\* from the mean.
HurstAbove(w) ==
    LET Devs == { Len(w) * Total(SubSeq(w, 1, k)) - k * Total(w) : k \in 1..Len(w) }
        rescaled == CHOOSE x \in {a - b : a, b \in Devs} : \A a, b \in Devs : a - b <= x
    IN  IF Len(w) < HurstWindow \/ Spread(w) = 0
        THEN 50 > HurstThreshold
        ELSE 900 * rescaled * rescaled * (Len(w) - 1)
               > (HurstThreshold - 20) * (HurstThreshold - 20) * Len(w) * Len(w) * Spread(w)

\* compute_hmm_regime_labels, detector_version "v2026-05-31".
HmmLabel(r, d) ==
    LET short == Before(r, d, ShortWindow)
        mid   == Before(r, d, MidWindow)
        long  == Before(r, d, LongWindow)
        bear == \/ VolAbove(mid, 35) \/ ReturnBelow(mid, -8)
                \/ VolAbove(short, 25) \/ ReturnBelow(short, -4)
        choppy == /\ Spread(long) > 0
                  /\ 4 * Spread(short) * Pairs(long) > 9 * Spread(long) * Pairs(short)
                  /\ ReturnAbove(mid, -2) /\ ReturnBelow(mid, 2)
        calm == \/ VolBelow(mid, 18) /\ ReturnAbove(mid, 0)
                \/ HurstAbove(UpTo(r, d, HurstWindow))
    IN  CASE d <= MinHistory                          -> "BULL_CALM"
          [] d > MinHistory /\ bear                   -> "BEAR"
          [] d > MinHistory /\ ~bear /\ choppy        -> "CHOPPY"
          [] d > MinHistory /\ ~bear /\ ~choppy /\ calm -> "BULL_CALM"
          [] OTHER                                    -> "BULL_VOLATILE"

-----------------------------------------------------------------------------
(* The grid.  Row 0 of the table has a close but no return.                *)

\* pd.cut of the rolling Sharpe; mean / 0 is infinite, and the lowest bin is open.
TrendLabel(r, d) ==
    LET w == UpTo(r, d, TrendWindow)
        sharpe == 4 * 252 * Total(w) * Total(w) * (Len(w) - 1)
    IN  CASE Len(w) < TrendWindow \div 2          -> "nan"
          [] Len(w) >= TrendWindow \div 2 /\ Spread(w) = 0 ->
                 IF Total(w) > 0 THEN "HIGH" ELSE "nan"
          [] OTHER ->
                 IF Total(w) <= 0 \/ sharpe <= Len(w) * Spread(w) THEN "LOW"
                 ELSE IF sharpe <= 9 * Len(w) * Spread(w) THEN "MED" ELSE "HIGH"

VolKnown(r, row) == Len(UpTo(r, row, VolWindow)) >= VolWindow \div 2

LowerVol(r, row, other) ==
    LET a == UpTo(r, row, VolWindow)
        b == UpTo(r, other, VolWindow)
    IN  Spread(a) * Pairs(b) < Spread(b) * Pairs(a)

\* Deviation: the percentile is taken over the whole table.
AllRows(r, d) == 0..Len(r)

\* The rows of the volatility history of day d.
HistRows(r, d) == (IF d >= HistWindow THEN d - HistWindow + 1 ELSE 0)..d

\* pd.cut of _pct_rank: rows without a volatility count in its denominator.
VolLabel(r, d) ==
    LET rows == HistRows(r, d)
        known == {row \in rows : VolKnown(r, row)}
        lower == Cardinality({row \in known : LowerVol(r, row, d)})
    IN  IF Cardinality(known) < MinHistRows \/ ~VolKnown(r, d) THEN "nan"
        ELSE IF 100 * lower <= 33 * (Cardinality(rows) - 1) THEN "CALM"
        ELSE IF 100 * lower <= 66 * (Cardinality(rows) - 1) THEN "NORMAL"
        ELSE "SPIKED"

GridLabel(r, d) == <<TrendLabel(r, d), VolLabel(r, d)>>

\* Deviation: only a label without any component is a warm-up artifact.
IsWarmupWhole(label) == label = <<"nan", "nan">>

\* _is_warmup_regime
IsWarmup(label) == \E part \in 1..2 : label[part] = "nan"

\* per_regime_cs_ic, of every regime and with min_days_per_regime = 1: the days of
\* each regime; ic[d] is NoIC when the day has too few or constant predictions.
PerRegimeDays(labels, ic) ==
    LET days == {d \in DOMAIN labels : ic[d] # NoIC /\ ~IsWarmup(labels[d].grid)}
    IN  { {d \in days : labels[d].grid = labels[e].grid} : e \in days }

\* min_across_regimes: the lowest mean IC, as <<sum, days>>; none without a regime.
MinAcrossRegimes(labels, ic) ==
    LET means == { <<SumFunctionOnSet(ic, days), Cardinality(days)>> : days \in PerRegimeDays(labels, ic) }
    IN  { m \in means : \A o \in means : m[1] * o[2] <= o[1] * m[2] }

-----------------------------------------------------------------------------

RegimeInit == rets = <<>> /\ published = <<>>

\* A session closes, and both labellers run over the table up to it.
Close ==
    /\ Len(rets) < MaxDays
    /\ \E x \in DailyReturns : rets' = Append(rets, x)
    /\ published' = Append(published, [ hmm  |-> HmmLabel(rets', Len(rets')),
                                        grid |-> GridLabel(rets', Len(rets')) ])

RegimeSpec == RegimeInit /\ [][Close]_regimeVars

\* The label of a day never changes when later days are added: no window, and no
\* percentile, sees the future of the day it labels.
LabelsIgnoreTheFuture ==
    \A d \in 1..Len(rets) :
        published[d] = [hmm |-> HmmLabel(rets, d), grid |-> GridLabel(rets, d)]

\* A day on which one of the grid's windows has not filled up.
WindowsOpen(d) ==
    \/ d < TrendWindow \div 2
    \/ Cardinality({row \in HistRows(rets, d) : VolKnown(rets, row)}) < MinHistRows

\* The objective of the optimiser does not depend on what a model predicts on warm-up
\* days: "Optuna would happily optimize against the warm-up window otherwise".
WarmupIsNoEvidence ==
    \A x \in {-1, 0, 1} :
        LET other == [d \in DOMAIN DayIC |-> IF WindowsOpen(d) THEN x ELSE DayIC[d]]
        IN  MinAcrossRegimes(published, other) = MinAcrossRegimes(published, DayIC)
=============================================================================
