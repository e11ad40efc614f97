---------------------------- MODULE WalkForward ----------------------------
(***************************************************************************)
(* A walk-forward campaign over the exchange's calendar: every evening the *)
(* data build adds the completed session to the training panel, or loses   *)
(* it, or brings in too few tickers; a trainer gates the panel once        *)
(* (training_freshness.py) and trains its folds on it; the scoring path    *)
(* asks each day for the fold it may use (walk_forward_fold_selection.py). *)
(* The splitters (walk_forward_splits.py, purged_cv.py) cut the same panel.*)
(*                                                                         *)
(* The data build and the trainers live in other repositories; they are    *)
(* modelled from what the modules here say of their callers.               *)
(***************************************************************************)
EXTENDS MarketCalendar, PurgedCV, Sequences

CONSTANTS
    Lookahead,      \* lookahead_days of every label, in trading days
    EmbargoDays,    \* business days a trainer keeps before a fold's cutoff
    MaxGapDays,     \* max_gap_days of the gate
    MaxStaleness,   \* max_staleness_days of the gate; NoLimit stands for None
    MinRows,        \* min_rows of the gate, in panel dates
    Cutoffs,        \* the cutoff dates a campaign may ask for
    MaxBadDays      \* bound: sessions the data build loses or thins out

ASSUME HorizonAssumption == Lookahead \in Nat \ {0} /\ EmbargoDays \in Nat \ {0}
ASSUME GateAssumption == MaxGapDays \in Nat /\ MinRows \in Nat /\ MaxBadDays \in Nat
ASSUME CutoffAssumption == Cutoffs \subseteq Days

NoLimit == -1
NoDate == -1

ASSUME StalenessAssumption == MaxStaleness \in Nat \cup {NoLimit}

VARIABLES
    panel,     \* date -> whether the day's tickers reach min_tickers_per_day
    ingested,  \* the last session the data build has handled
    folds      \* the campaign's manifest, in the order of its list

vars == <<calendar, now, panel, ingested, folds>>

-----------------------------------------------------------------------------
(* Business days: weekdays, whatever the exchange's calendar says.         *)

\* d + BDay(n), for n > 0
AddBDay(d, n) ==
    CHOOSE x \in d + 1 .. d + 2 * n + 5 :
        Weekday(x) /\ Cardinality({y \in d + 1 .. x : Weekday(y)}) = n

\* Deviation: the days are counted on the calendar.
SubCalendarDays(d, n) == d - n

\* d - BDay(n), for n > 0
SubBDay(d, n) ==
    CHOOSE x \in d - 2 * n - 5 .. d - 1 :
        Weekday(x) /\ Cardinality({y \in x .. d - 1 : Weekday(y)}) = n

-----------------------------------------------------------------------------
(* assess_training_panel_freshness.                                        *)

Dates == DOMAIN panel

\* Deviation: only the gaps between dates of the window are measured.
GapDatesInside(required) == {d \in Dates : d < required}

\* The window's dates and the first date behind it.
GapDates(required) ==
    LET after == {d \in Dates : d >= required}
    IN  (Dates \ after) \cup (IF after = {} THEN {} ELSE {Min(after)})

NoGapAbove(dates, days) ==
    \A d \in dates :
        LET earlier == {e \in dates : e < d}
        IN  earlier # {} => d - Max(earlier) <= days

\* The verdict's ok: no check has a reason to object.
FreshEnough(required, today) ==
    /\ Dates # {}
    /\ Max(Dates) >= required                                  \* COVERAGE
    /\ \E d \in Dates : d < required
    /\ MaxStaleness # NoLimit => Max(Dates) >= today - MaxStaleness  \* RECENCY
    /\ Cardinality(Dates) >= MinRows                           \* FLOORS
    /\ \A d \in Dates : d < required => panel[d] = "full"
    /\ NoGapAbove(GapDates(required), MaxGapDays)

-----------------------------------------------------------------------------
(* The choice of a fold.                                                   *)

FeatureCutoff(fold) ==
    IF fold.effective # NoDate THEN fold.effective ELSE fold.cutoff

SafeLastLabelDate(fold) ==
    IF fold.lookahead > 0 THEN AddBDay(FeatureCutoff(fold), fold.lookahead)
    ELSE FeatureCutoff(fold)

\* Deviation: the day the last label is realised on counts already.
EligibleOnTheDay(fold, today) == SafeLastLabelDate(fold) <= today

IsEligible(fold, today) == SafeLastLabelDate(fold) < today

EligiblePositions(today) == {i \in DOMAIN folds : IsEligible(folds[i], today)}

\* Deviation: the manifest is taken to be sorted.
SelectLastListed(today) == Max(EligiblePositions(today))

\* The latest cutoff; the first in list order of those that share it.
SelectLatest(today) ==
    LET eligible == EligiblePositions(today)
        latest   == Max({folds[i].cutoff : i \in eligible})
    IN  Min({i \in eligible : folds[i].cutoff = latest})

-----------------------------------------------------------------------------
(* assign_split_column.                                                    *)

SplitOf(d, valStart, valEnd, embargo) ==
    LET trainEnd == SubBDay(valStart, embargo)
    IN  IF d < trainEnd THEN "train"
        ELSE IF d < valStart THEN "embargo"
        ELSE IF d < valEnd THEN "val" ELSE "test"

-----------------------------------------------------------------------------

Today == DateIn(0, now)

Init ==
    /\ CalendarInit
    /\ panel = <<>>
    /\ ingested = NoSession
    /\ folds = <<>>

BadDays == {d \in 0..ingested : IsSession(d) /\ (d \notin Dates \/ panel[d] = "thin")}

\* The data build looks up the last completed session. It is not followed beyond
\* the campaign's training: a fold keeps the slice it was trained on.
Ingest ==
    LET d == LastCompletedSession(0, now)
    IN  /\ folds = <<>>
        /\ d > ingested
        /\ ingested' = d
        /\ \/ UNCHANGED panel
           \/ \E rows \in {"thin", "full"} :
                panel' = [x \in Dates \cup {d} |-> IF x = d THEN rows ELSE panel[x]]
        /\ UNCHANGED <<calendar, now, folds>>
        /\ Cardinality(BadDays') <= MaxBadDays

\* A fold as its manifest records it, with the dates of its training slice. One
\* that keeps an embargo says so; one that does not trains up to its cutoff.
FoldOf(cutoff, embargoed) ==
    LET dataEnd == IF embargoed THEN SubBDay(cutoff, EmbargoDays) ELSE cutoff
    IN  [cutoff    |-> cutoff,
         lookahead |-> Lookahead,
         effective |-> IF embargoed THEN dataEnd ELSE NoDate,
         dataEnd   |-> dataEnd,
         rows      |-> {d \in Dates : d < dataEnd}]

\* One campaign of two folds: gated once, before any fold is dispatched, for the
\* latest data_end of them all.
Train ==
    /\ folds = <<>>
    /\ \E c1, c2 \in Cutoffs, e1, e2 \in BOOLEAN :
        LET f1 == FoldOf(c1, e1)
            f2 == FoldOf(c2, e2)
        IN  /\ c1 # c2
            /\ FreshEnough(Max({f1.dataEnd, f2.dataEnd}), Today)
            /\ folds' = <<f1, f2>>
    /\ UNCHANGED <<calendar, now, panel, ingested>>

Next == (Tick /\ UNCHANGED <<panel, ingested, folds>>) \/ Ingest \/ Train

Spec == Init /\ [][Next]_vars

-----------------------------------------------------------------------------
(* What the pieces promise together.                                       *)

\* The n-th session after d: the day on which a label of horizon n is known.
LabelEnd(d, n) ==
    LET ends == {x \in d + 1 .. LastDay : IsSession(x) /\ Cardinality(SessionsBetween(d + 1, x)) = n}
    IN  IF ends = {} THEN LastDay + 1 ELSE Min(ends)

HolidaysBetween(first, last) == {d \in first..last : Weekday(d) /\ ~IsSession(d)}

\* BDay counts holidays; the day of the cutoff itself, if it is a weekday, makes up
\* for one of them, because a row lies before it and safe_last_label_date after it.
Slack(fold) == IF Weekday(FeatureCutoff(fold)) THEN 1 ELSE 0

\* A fold that may score today has seen no label that is realised today or later,
\* as long as not more exchange holidays than its slack lie between the row and today.
SelectedFoldIsBlind ==
    EligiblePositions(Today) # {} =>
        LET fold == folds[SelectLatest(Today)]
        IN  \A r \in fold.rows :
                Cardinality(HolidaysBetween(r, Today)) <= Slack(fold) =>
                    LabelEnd(r, fold.lookahead) < Today

\* As the days pass the scoring path never goes back to an older fold, however
\* the manifest is ordered and whichever folds keep an embargo.
SelectionNeverGoesBack ==
    [][ EligiblePositions(Today) # {} =>
          /\ EligiblePositions(Today)' # {}
          /\ folds'[SelectLatest(Today)'].cutoff >= folds[SelectLatest(Today)].cutoff ]_vars

\* The gate is called once, for the latest data_end, and yet no fold of the
\* campaign trains on a thin day, has a hole, or stops short of its own data_end
\* by more than the allowed gap.
SlicesAreWhole ==
    \A i \in DOMAIN folds :
        LET fold == folds[i]
        IN  /\ \A d \in fold.rows : panel[d] = "full"
            /\ fold.rows # {} =>
                 \A d \in Min(fold.rows) .. fold.dataEnd - MaxGapDays :
                     \E r \in fold.rows : d <= r /\ r < d + MaxGapDays

\* The label window of a training row and of a test row of a purged split never
\* overlap, measured on the exchange's calendar although the splitter counts
\* the panel's dates, of which some are missing.
PurgedSplitsDoNotLeak ==
    LET n  == Cardinality(Dates)
        at == [i \in 0 .. n - 1 |-> CHOOSE d \in Dates : Cardinality({e \in Dates : e < d}) = i]
        labelEnd == [d \in Dates |-> LabelEnd(d, Lookahead)]
    IN  \A splits \in {k \in 2..4 : n >= k} :
          \A groups \in KFoldGroups(splits) \cup CombinatorialGroups(splits, 2) :
            \A i \in TrainPositions(n, splits, groups, Lookahead, Lookahead),
               j \in TestPositions(n, splits, groups) :
                /\ i # j
                /\ i < j => labelEnd[at[i]] < at[j]
                /\ j < i => labelEnd[at[j]] < at[i]

\* A training row of a walk-forward cut has a label that reaches into the
\* validation period only across an exchange holiday.
SplitLeaksOnlyOverHolidays ==
    \A valStart \in Days, d \in Dates :
        /\ SplitOf(d, valStart, LastDay, EmbargoDays) = "train"
        /\ HolidaysBetween(d, valStart - 1) = {}
        => LabelEnd(d, EmbargoDays) < valStart

\* assign_split_column: "train rows whose LABEL window reaches into val period are
\* EXCLUDED via the embargo", with an embargo as long as the label's horizon.
TrainLabelsEndBeforeVal ==
    \A valStart \in Days, d \in Dates :
        SplitOf(d, valStart, LastDay, EmbargoDays) = "train" =>
            LabelEnd(d, EmbargoDays) < valStart
=============================================================================
