----------------------------- MODULE Overfitting -----------------------------
(***************************************************************************)
(* The two estimators of the probability of backtest overfitting: pbo_cscv *)
(* of stats.py and probability_of_backtest_overfitting of metrics/pbo.py.  *)
(* Both cut the observations into slices, take every half of the slices as *)
(* in-sample, and ask where the candidate that is best in sample ranks out *)
(* of sample.                                                              *)
(*                                                                         *)
(* Returns are small integers, and Sharpe ratios are compared exactly.     *)
(* argsort is stable, as NumPy's is for the few candidates of a study.     *)
(***************************************************************************)
EXTENDS Integers, Sequences, FiniteSets, Functions

CONSTANTS
    NumCandidates,   \* rows of the matrix
    NumSlices,       \* n_partitions of the one, n_slices of the other
    Series           \* the return series a candidate may have, all of one length

ASSUME OverfittingAssumption ==
    /\ NumCandidates \in Nat \ {0, 1}
    /\ NumSlices \in Nat /\ NumSlices >= 4 /\ NumSlices % 2 = 0
    /\ Series \subseteq Seq(Int)
    /\ \A s, t \in Series : Len(s) = Len(t) /\ Len(s) >= NumSlices

VARIABLE matrix      \* the series of each candidate; <<>> before one is given

Candidates == 1..NumCandidates
Slices == 1..NumSlices
NumObs == Len(matrix[1])

\* stats.py: equal chunks; what is left over at the end is dropped.
Chunk(k) == LET size == NumObs \div NumSlices IN (k - 1) * size + 1 .. k * size

\* metrics/pbo.py, _split_indices: the first slices take one observation more.
SliceOf(k) ==
    LET base == NumObs \div NumSlices
        extra == NumObs % NumSlices
        EndOf(j) == j * base + (IF j < extra THEN j ELSE extra)
    IN  EndOf(k - 1) + 1 .. EndOf(k)

\* itertools.combinations: which slices are in sample.
Halves == {half \in SUBSET Slices : 2 * Cardinality(half) = NumSlices}

-----------------------------------------------------------------------------
(* The Sharpe ratio of a candidate over a set of observations.             *)

SumOver(c, obs) == SumFunctionOnSet(matrix[c], obs)
Dispersion(c, obs) ==
    Cardinality(obs) * SumFunction([n \in obs |-> matrix[c][n] * matrix[c][n]])
        - SumOver(c, obs) * SumOver(c, obs)

\* NaN when the standard deviation is zero.
HasSharpe(c, obs) == Dispersion(c, obs) > 0

Signed2(x) == IF x < 0 THEN -(x * x) ELSE x * x

SharpeBelow(c, d, obs) ==
    Signed2(SumOver(c, obs)) * Dispersion(d, obs) < Signed2(SumOver(d, obs)) * Dispersion(c, obs)

\* nanargmax: the first of the highest.
BestOf(obs) ==
    LET top == {c \in Candidates : HasSharpe(c, obs)
                  /\ \A d \in Candidates : HasSharpe(d, obs) => ~SharpeBelow(c, d, obs)}
    IN  CHOOSE c \in top : \A d \in top : c <= d

\* argsort: ascending, NaN at the end, equal values by their index.
Precedes(c, d, obs) ==
    IF HasSharpe(c, obs) /\ HasSharpe(d, obs) /\ (SharpeBelow(c, d, obs) \/ SharpeBelow(d, c, obs))
    THEN SharpeBelow(c, d, obs)
    ELSE IF HasSharpe(c, obs) = HasSharpe(d, obs) THEN c < d ELSE HasSharpe(c, obs)

RankOf(c, obs) == Cardinality({d \in Candidates : Precedes(d, c, obs)}) + 1

\* Deviation: argsort is applied once.
RankByArgsort(c, obs) == CHOOSE d \in Candidates : RankOf(d, obs) = c

\* stats.py: argsort(argsort(oos_sr)) + 1.
CscvRank(c, obs) == RankOf(c, obs)

\* metrics/pbo.py: a NaN is replaced by -inf before the ranking.
SliceRank(c, obs) ==
    Cardinality({d \in Candidates :
        IF HasSharpe(c, obs) = HasSharpe(d, obs) THEN Precedes(d, c, obs)
        ELSE HasSharpe(c, obs)}) + 1

-----------------------------------------------------------------------------
(* One split: whether it counts, and whether it counts as overfit, which   *)
(* is when the logit of the relative rank is not positive.                 *)

ChunksOf(half) == UNION {Chunk(k) : k \in half}
SlicesOf(half) == UNION {SliceOf(k) : k \in half}

Evaluable(is, oos) ==
    (\E c \in Candidates : HasSharpe(c, is)) /\ (\E c \in Candidates : HasSharpe(c, oos))

CscvCounts(half) == Evaluable(ChunksOf(half), ChunksOf(Slices \ half))

\* omega = rank / N
CscvOverfit(half) ==
    2 * CscvRank(BestOf(ChunksOf(half)), ChunksOf(Slices \ half)) <= NumCandidates

SlicesCount(half) ==
    /\ Evaluable(SlicesOf(half), SlicesOf(Slices \ half))
    /\ HasSharpe(BestOf(SlicesOf(half)), SlicesOf(Slices \ half))

\* omega = rank / (N + 1)
SlicesOverfit(half) ==
    2 * SliceRank(BestOf(SlicesOf(half)), SlicesOf(Slices \ half)) <= NumCandidates + 1

-----------------------------------------------------------------------------

OverfittingInit == matrix = <<>>

\* A study hands its matrix to the estimators.
Estimate == matrix = <<>> /\ matrix' \in [Candidates -> Series]

OverfittingSpec == OverfittingInit /\ [][Estimate]_matrix

\* No two candidates have the same Sharpe ratio.
NoTies(obs) ==
    \A c, d \in Candidates : HasSharpe(c, obs) /\ HasSharpe(d, obs) /\ c # d =>
        SharpeBelow(c, d, obs) \/ SharpeBelow(d, c, obs)

Clean(obs) == NoTies(obs) /\ \A c \in Candidates : HasSharpe(c, obs)

\* The slices are equal, so that neither estimator drops an observation.
SlicesAreEqual == NumObs % NumSlices = 0

\* Where every ratio is defined and no two are equal, both estimators count a split, and
\* only the candidates that beat the best in sample out of sample decide: it is overfit
\* to the one when they are at least half of all, to the other when they are at least
\* half of the others.  With an even number of candidates that is the same.
EstimatorsAgree ==
    matrix # <<>> /\ SlicesAreEqual =>
        \A half \in Halves :
            LET best == BestOf(ChunksOf(half))
                oos == ChunksOf(Slices \ half)
                beating == {c \in Candidates : SharpeBelow(best, c, oos)}
            IN  Clean(ChunksOf(half)) /\ Clean(oos) =>
                  /\ CscvCounts(half) /\ SlicesCount(half)
                  /\ CscvOverfit(half) <=> 2 * Cardinality(beating) >= NumCandidates
                  /\ SlicesOverfit(half) <=> 2 * Cardinality(beating) >= NumCandidates - 1
                  /\ NumCandidates % 2 = 0 => (CscvOverfit(half) <=> SlicesOverfit(half))

\* "Relative rank in (0, 1]: fraction of OOS SRs <= best-IS's OOS SR.", where no two
\* ratios are equal and only the winner's own may be undefined.
RankIsFraction ==
    matrix # <<>> =>
        \A half \in Halves :
            LET best == BestOf(ChunksOf(half))
                oos == ChunksOf(Slices \ half)
                atMost == {c \in Candidates : /\ HasSharpe(c, oos) /\ HasSharpe(best, oos)
                                              /\ ~SharpeBelow(best, c, oos)}
            IN  /\ CscvCounts(half) /\ NoTies(oos)
                /\ \A c \in Candidates \ {best} : HasSharpe(c, oos)
                => CscvRank(best, oos) = Cardinality(atMost)
=============================================================================
