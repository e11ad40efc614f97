------------------------------ MODULE CostModel ------------------------------
(***************************************************************************)
(* cost_model.py: what rebalances cost, and the identity of the parameters *)
(* they are charged with.  A strategy moves its book from target to target *)
(* and orders may fill in part or not at all; an evaluator turns the gross *)
(* returns of the periods into net ones.  Between runs somebody edits the  *)
(* stamped parameters, and the next run verifies them.                     *)
(*                                                                         *)
(* Amounts are exact: weights in units of the book, rates in units of half *)
(* a basis point, and fills in halves of an order.                         *)
(***************************************************************************)
EXTENDS Integers, Sequences, FiniteSets, Functions

CONSTANTS
    Symbols,
    Weights,        \* weights a target gives a symbol
    MaxPeriods,     \* bound: periods of a run
    Components,     \* keys a payload may have; what is not in SpecFields is unknown
    Bps,            \* values of a component
    StampedPayload  \* the parameters the evidence was produced with

\* _SPEC_FIELDS: fee_bps, spread_bps, slippage_bps, increment_rounding_bps
SpecFields == {"fee", "spread", "slippage", "rounding"}

Payloads == UNION {[keys -> Bps] : keys \in SUBSET Components}

ASSUME CostAssumption ==
    /\ IsFiniteSet(Symbols) /\ Weights \subseteq Int /\ Bps \subseteq Int
    /\ StampedPayload \in Payloads

VARIABLES
    payload,   \* the parameters as they are found now
    book,      \* the weights held, of the symbols held
    traded,    \* the realized traded fraction of each period, in halves
    moved      \* history: how far the book was moved altogether, in halves

costVars == <<payload, book, traded, moved>>

-----------------------------------------------------------------------------
(* CostModelSpec and its identity.                                         *)

Component(p, field) == IF field \in DOMAIN p THEN p[field] ELSE 0

\* Deviation: what is unknown is ignored.
RejectedByValue(p) == \E key \in DOMAIN p \cap SpecFields : p[key] < 0

\* cost_model_spec_from_dict raises: an unknown key, or a value that is not allowed.
Rejected(p) == \E key \in DOMAIN p : key \notin SpecFields \/ p[key] < 0

\* The evidence was produced: its parameters were accepted.
ASSUME StampAssumption == ~Rejected(StampedPayload)

\* cost_model_spec_from_dict: missing keys are zero.
SpecOf(p) == [field \in SpecFields |-> Component(p, field)]

\* cost_model_content_sha256: SHA-256 finds no collision.
ContentSha256(spec) == spec

\* per_side_cost_bps, in halves of a basis point: half the spread is paid per side.
PerSideCost(spec) ==
    2 * spec["fee"] + spec["spread"] + 2 * spec["slippage"] + 2 * spec["rounding"]

-----------------------------------------------------------------------------
(* Turnover.                                                               *)

Weight(b, s) == IF s \in DOMAIN b THEN b[s] ELSE 0

Delta(prev, next, s) == Weight(next, s) - Weight(prev, s)

Abs(x) == IF x < 0 THEN -x ELSE x

\* Deviation: only the symbols of the target are looked at.
TargetSymbols(prev, next) == DOMAIN next

TurnoverSymbols(prev, next) == DOMAIN prev \cup DOMAIN next

\* turnover_breakdown(prev, next): buy_fraction and sell_fraction.
BuyFraction(prev, next) ==
    LET bought == {s \in TurnoverSymbols(prev, next) : Delta(prev, next, s) > 0}
    IN  SumFunction([s \in bought |-> Delta(prev, next, s)])
SellFraction(prev, next) ==
    LET sold == {s \in TurnoverSymbols(prev, next) : Delta(prev, next, s) <= 0}
    IN  SumFunction([s \in sold |-> -Delta(prev, next, s)])
TradedFraction(prev, next) == BuyFraction(prev, next) + SellFraction(prev, next)

\* rebalance_cost_fraction, and the rate of apply_costs_to_period_returns.
RebalanceCost(prev, next, spec) == PerSideCost(spec) * TradedFraction(prev, next)

\* realized_traded_fraction, in halves.
RealizedTraded(intended, halves) == intended * halves

\* apply_costs_to_period_returns, for gross returns of zero: the net return of each
\* of the periods; <<>> instead of an exception when the lengths differ.
NetReturns(numPeriods, fractions, spec) ==
    IF numPeriods # Len(fractions) THEN <<>>
    ELSE [t \in 1..numPeriods |-> -PerSideCost(spec) * fractions[t]]

-----------------------------------------------------------------------------

CostInit ==
    /\ payload = StampedPayload
    /\ book = <<>>
    /\ traded = <<>>
    /\ moved = 0

\* Somebody edits the parameters, between runs.
EditPayload ==
    /\ traded = <<>>
    /\ payload' \in Payloads
    /\ UNCHANGED <<book, traded, moved>>

\* The verifier of a stamped payload: its content has the stamped identity.
Verified ==
    ~Rejected(payload) /\ ContentSha256(SpecOf(payload)) = ContentSha256(SpecOf(StampedPayload))

\* A period without a rebalance.
HoldPeriod ==
    /\ Verified /\ Len(traded) < MaxPeriods
    /\ traded' = Append(traded, 0)
    /\ UNCHANGED <<payload, book, moved>>

\* Orders towards a target, which all fill to the same number of halves; half an order
\* only where it is a whole number of units.
RebalancePeriod ==
    /\ Verified /\ Len(traded) < MaxPeriods
    /\ \E held \in SUBSET Symbols, halves \in 0..2 :
         \E target \in [held -> Weights] :
            /\ halves = 1 => \A s \in Symbols : Delta(book, target, s) % 2 = 0
            /\ traded' = Append(traded, RealizedTraded(TradedFraction(book, target), halves))
            /\ book' = [s \in DOMAIN book \cup held |->
                           Weight(book, s) + (halves * Delta(book, target, s)) \div 2]
    /\ moved' = moved + 2 * SumFunction([s \in Symbols |-> Abs(Delta(book, book', s))])
    /\ UNCHANGED payload

CostNext == EditPayload \/ HoldPeriod \/ RebalancePeriod

CostSpec == CostInit /\ [][CostNext]_costVars

-----------------------------------------------------------------------------

\* Whatever detours the book takes and however its orders fill, the net returns of a
\* run carry the per-side cost of every unit that was bought or sold, once, and of
\* no unit that was not; a series that lacks a period gives no net returns at all.
\* It is never cheaper than going straight from cash to where the book ended.
EveryFillIsPaidOnce ==
    LET spec == SpecOf(payload)
        Charged(n) == -SumFunction(NetReturns(n, traded, spec))
    IN  /\ \A n \in 1..MaxPeriods : NetReturns(n, traded, spec) # <<>> =>
              Charged(n) = PerSideCost(spec) * moved
        /\ 2 * RebalanceCost(<<>>, book, spec) <= PerSideCost(spec) * moved

\* What a payload says, unknown components included.
Meaning(p) == [key \in Components |-> Component(p, key)]

\* Parameters verify against the evidence exactly when they are those the evidence
\* was produced with: no edit is lost on the way into the identity, and leaving out
\* what is zero is no edit.
VerifiedIsSame ==
    Verified <=> (Meaning(payload) = Meaning(StampedPayload) /\ ~Rejected(payload))
=============================================================================
