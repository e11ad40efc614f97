-------------------------- MODULE Evaluation_proofs --------------------------
(***************************************************************************)
(* Proofs about the three evaluators, for tables, studies and runs of any  *)
(* length: that every fill is paid for once and that parameters verify for *)
(* what they mean, that a label knows nothing of its future, and when the  *)
(* two estimators of overfitting count the same splits.                    *)
(***************************************************************************)
EXTENDS RegimeLabels, Overfitting, CostModel, FiniteSetLemmas

-----------------------------------------------------------------------------
(* The cost model.                                                         *)

\* What is found, held and recorded has its type.
CostTyped ==
    /\ payload \in Payloads
    /\ DOMAIN book \subseteq Symbols
    /\ \A s \in DOMAIN book : book[s] \in Int
    /\ traded \in Seq(Int)
    /\ moved \in Int

\* Nothing was traded with parameters that do not verify.
NothingTradedUnverified == traded = <<>> \/ Verified

\* The size of a book, and of a move between two.
Size(b) == SumFunction([s \in Symbols |-> Abs(Weight(b, s))])
Move(b, c) == SumFunction([s \in Symbols |-> Abs(Delta(b, c, s))])

\* What the periods recorded is how far the book was moved, which is at least as far
\* as from cash to where it is.
MovedIsTraded == moved = SumFunction(traded)
MovedReachesBook == 2 * Size(book) <= moved

CostIInv == CostTyped /\ NothingTradedUnverified /\ MovedIsTraded /\ MovedReachesBook

\* A book with integer weights, of known symbols.
IsBook(b) == DOMAIN b \subseteq Symbols /\ \A s \in DOMAIN b : b[s] \in Int

LEMMA BookWeights ==
  ASSUME NEW b, IsBook(b), NEW c, IsBook(c)
  PROVE  \A s : Weight(b, s) \in Int /\ Delta(b, c, s) \in Int
  BY DEF IsBook, Weight, Delta

\* Buying and selling together are the size of the move.
LEMMA TradedIsMove ==
  ASSUME NEW b, IsBook(b), NEW c, IsBook(c)
  PROVE  TradedFraction(b, c) = Move(b, c) /\ Move(b, c) \in Int
<1> DEFINE f == [s \in Symbols |-> Abs(Delta(b, c, s))]
           All == TurnoverSymbols(b, c)
           Bought == {s \in All : Delta(b, c, s) > 0}
           Sold == {s \in All : Delta(b, c, s) <= 0}
           buys == [s \in Bought |-> Delta(b, c, s)]
           sells == [s \in Sold |-> -Delta(b, c, s)]
<1>1. \A s : Delta(b, c, s) \in Int
  BY BookWeights
<1>2. \A s \in Symbols : f[s] \in Int
  BY <1>1 DEF Abs
<1>3. IsFiniteSet(Symbols) /\ All \subseteq Symbols
  BY CostAssumption DEF IsBook, TurnoverSymbols
<1>4. IsFiniteSet(All) /\ IsFiniteSet(Bought) /\ IsFiniteSet(Sold)
  BY <1>3, FS_Subset
<1>5. \A s \in Symbols \ All : f[s] = 0
  BY DEF TurnoverSymbols, Delta, Weight, Abs
<1>6. SumFunctionOnSet(f, Symbols) = SumFunctionOnSet(f, All)
  <2> HIDE DEF f, All
  <2> QED
    BY <1>2, <1>3, <1>5, SumWithoutZeros
<1>7. Bought \in SUBSET All /\ Sold = All \ Bought
  BY <1>1
<1>8. SumFunctionOnSet(f, All) = SumFunctionOnSet(f, Bought) + SumFunctionOnSet(f, Sold)
  <2> HIDE DEF f, All, Bought, Sold
  <2> QED
    BY <1>2, <1>3, <1>4, <1>7, SumSplit
<1>9. SumFunctionOnSet(f, Bought) = SumFunctionOnSet(buys, Bought)
  <2>1. \A s \in Bought : f[s] = buys[s]
    BY <1>1, <1>3 DEF Abs
  <2> HIDE DEF f, buys, Bought
  <2> QED
    BY <1>4, <2>1, SumSame
<1>10. SumFunctionOnSet(f, Sold) = SumFunctionOnSet(sells, Sold)
  <2>1. \A s \in Sold : f[s] = sells[s]
    BY <1>1, <1>3 DEF Abs
  <2> HIDE DEF f, sells, Sold
  <2> QED
    BY <1>4, <2>1, SumSame
<1>11. TradedFraction(b, c) = SumFunctionOnSet(buys, Bought) + SumFunctionOnSet(sells, Sold)
  BY DEF TradedFraction, BuyFraction, SellFraction, SumFunction
<1>12. Move(b, c) = SumFunctionOnSet(f, Symbols)
  BY DEF Move, SumFunction
<1>13. SumFunctionOnSet(f, Symbols) \in Int
  <2> HIDE DEF f
  <2> QED
    BY <1>2, <1>3, SumInteger
<1> HIDE DEF f, buys, sells, Bought, Sold, All
<1> QED
  BY <1>6, <1>8, <1>9, <1>10, <1>11, <1>12, <1>13

\* Moving a book makes it larger by no more than the move.
LEMMA MoveBoundsSize ==
  ASSUME NEW b, IsBook(b), NEW c, IsBook(c)
  PROVE  /\ Size(b) \in Int /\ Size(c) \in Int
         /\ Size(c) <= Size(b) + Move(b, c)
<1> DEFINE f == [s \in Symbols |-> Abs(Weight(b, s))]
           e == [s \in Symbols |-> Abs(Weight(c, s))]
           d == [s \in Symbols |-> Abs(Delta(b, c, s))]
           one == 1
           g == [s \in Symbols |-> f[s] + one * d[s]]
<1>1. \A s \in Symbols : Weight(b, s) \in Int /\ Weight(c, s) \in Int
  BY BookWeights
<1>2. \A s \in Symbols : /\ f[s] \in Int /\ e[s] \in Int /\ d[s] \in Int /\ g[s] \in Int
                         /\ g[s] = f[s] + one * d[s] /\ e[s] <= g[s]
  BY <1>1 DEF Abs, Delta
<1>3. IsFiniteSet(Symbols) /\ one \in Int
  BY CostAssumption
<1>4. Size(b) = SumFunctionOnSet(f, Symbols) /\ Size(c) = SumFunctionOnSet(e, Symbols)
  BY DEF Size, SumFunction
<1>5. Move(b, c) = SumFunctionOnSet(d, Symbols)
  BY DEF Move, SumFunction
<1> HIDE DEF f, e, d, g, one
<1>6. SumFunctionOnSet(e, Symbols) <= SumFunctionOnSet(g, Symbols)
  BY <1>2, <1>3, SumMonotone
<1>7. SumFunctionOnSet(g, Symbols) =
        SumFunctionOnSet(f, Symbols) + one * SumFunctionOnSet(d, Symbols)
  BY <1>2, <1>3, SumLinear
<1>8. /\ SumFunctionOnSet(f, Symbols) \in Int /\ SumFunctionOnSet(e, Symbols) \in Int
      /\ SumFunctionOnSet(d, Symbols) \in Int
  BY <1>2, <1>3, SumInteger
<1>9. one * SumFunctionOnSet(d, Symbols) = SumFunctionOnSet(d, Symbols)
  BY <1>8 DEF one
<1> QED
  BY <1>4, <1>5, <1>6, <1>7, <1>8, <1>9

\* A book after its orders towards a target filled to so many halves.
Filled(b, target, halves) ==
    [s \in DOMAIN b \cup DOMAIN target |->
        Weight(b, s) + (halves * Delta(b, target, s)) \div 2]

\* The fills move the book the recorded share of the way.
LEMMA FillsMoveTheShare ==
  ASSUME NEW b, IsBook(b), NEW target, IsBook(target), NEW halves \in 0..2,
         halves = 1 => \A s \in Symbols : Delta(b, target, s) % 2 = 0
  PROVE  /\ IsBook(Filled(b, target, halves))
         /\ 2 * Move(b, Filled(b, target, halves)) = halves * Move(b, target)
<1> DEFINE c == Filled(b, target, halves)
           d == [s \in Symbols |-> Abs(Delta(b, c, s))]
           t == [s \in Symbols |-> Abs(Delta(b, target, s))]
           z == [s \in Symbols |-> halves * t[s]]
           two == 2
<1>1. \A s : Weight(b, s) \in Int /\ Delta(b, target, s) \in Int
  BY BookWeights
<1>2. \A s \in DOMAIN b \cup DOMAIN target :
          c[s] = Weight(b, s) + (halves * Delta(b, target, s)) \div 2 /\ c[s] \in Int
  <2> SUFFICES ASSUME NEW s \in DOMAIN b \cup DOMAIN target
               PROVE  /\ c[s] = Weight(b, s) + (halves * Delta(b, target, s)) \div 2
                      /\ c[s] \in Int
    OBVIOUS
  <2>1. c[s] = Weight(b, s) + (halves * Delta(b, target, s)) \div 2
    BY DEF Filled
  <2>2. halves * Delta(b, target, s) \in Int
    <3>1. halves \in Int /\ Delta(b, target, s) \in Int
      BY <1>1
    <3> QED
      BY <3>1
  <2>3. (halves * Delta(b, target, s)) \div 2 \in Int
    BY <2>2
  <2> QED
    BY <1>1, <2>1, <2>3
<1>3. IsBook(c)
  <2>1. DOMAIN c = DOMAIN b \cup DOMAIN target
    BY DEF Filled
  <2>2. DOMAIN c \subseteq Symbols
    BY <2>1 DEF IsBook
  <2> HIDE DEF c
  <2> QED
    BY <1>2, <2>1, <2>2 DEF IsBook
<1>4. \A s \in Symbols : 2 * Delta(b, c, s) = halves * Delta(b, target, s)
  <2> SUFFICES ASSUME NEW s \in Symbols
               PROVE  2 * Delta(b, c, s) = halves * Delta(b, target, s)
    OBVIOUS
  <2>1. DOMAIN c = DOMAIN b \cup DOMAIN target
    BY DEF Filled
  <2>2. CASE s \in DOMAIN c
    <3>1. Delta(b, c, s) = (halves * Delta(b, target, s)) \div 2
      <4>1. Weight(c, s) = c[s]
        BY <2>2 DEF Weight
      <4>2. c[s] = Weight(b, s) + (halves * Delta(b, target, s)) \div 2
        BY <1>2, <2>1, <2>2
      <4>3. c[s] \in Int
        BY <1>2, <2>1, <2>2
      <4>4. (halves * Delta(b, target, s)) \div 2 \in Int
        BY <1>1
      <4> HIDE DEF c
      <4> QED
        BY <1>1, <4>1, <4>2, <4>3, <4>4 DEF Delta
    <3> DEFINE x == Delta(b, target, s)
    <3>2. x \in Int /\ (halves = 1 => x % 2 = 0)
      BY <1>1
    <3> HIDE DEF x
    <3>3. 2 * ((halves * x) \div 2) = halves * x
      <4>1. CASE halves = 0
        BY <3>2, <4>1
      <4>2. CASE halves = 1
        BY <3>2, <4>2
      <4>3. CASE halves = 2
        BY <3>2, <4>3
      <4> QED
        BY <4>1, <4>2, <4>3
    <3> QED
      BY <3>1, <3>3 DEF x
  <2>3. CASE s \notin DOMAIN c
    <3>1. Delta(b, c, s) = 0 /\ Delta(b, target, s) = 0
      BY <2>1, <2>3 DEF Delta, Weight
    <3> QED
      BY <3>1
  <2> QED
    BY <2>2, <2>3
<1>5. \A s \in Symbols : /\ d[s] \in Int /\ t[s] \in Int
                         /\ z[s] = two * d[s] /\ z[s] = halves * t[s]
  <2> SUFFICES ASSUME NEW s \in Symbols
               PROVE  /\ d[s] \in Int /\ t[s] \in Int
                      /\ 2 * d[s] = halves * t[s]
    OBVIOUS
  <2> DEFINE x == Delta(b, c, s)
             y == Delta(b, target, s)
  <2>1. d[s] = Abs(x) /\ t[s] = Abs(y) /\ x \in Int /\ y \in Int /\ 2 * x = halves * y
    BY <1>1, <1>3, <1>4, BookWeights
  <2> HIDE DEF x, y, c, d, t
  <2>2. 2 * Abs(x) = halves * Abs(y) /\ Abs(x) \in Int /\ Abs(y) \in Int
    <3>1. CASE halves = 0
      BY <2>1, <3>1 DEF Abs
    <3>2. CASE halves = 1
      BY <2>1, <3>2 DEF Abs
    <3>3. CASE halves = 2
      BY <2>1, <3>3 DEF Abs
    <3> QED
      BY <3>1, <3>2, <3>3
  <2> QED
    BY <2>1, <2>2
<1>6. IsFiniteSet(Symbols) /\ two \in Int /\ halves \in Int
  BY CostAssumption
<1>7. Move(b, c) = SumFunctionOnSet(d, Symbols) /\ Move(b, target) = SumFunctionOnSet(t, Symbols)
  BY DEF Move, SumFunction
<1>8. two * Move(b, c) = halves * Move(b, target)
  <2> HIDE DEF d, t, z, two, c
  <2>1. SumFunctionOnSet(z, Symbols) = two * SumFunctionOnSet(d, Symbols)
    BY <1>5, <1>6, SumScaled
  <2>2. SumFunctionOnSet(z, Symbols) = halves * SumFunctionOnSet(t, Symbols)
    BY <1>5, <1>6, SumScaled
  <2> QED
    BY <1>7, <2>1, <2>2
<1> QED
  BY <1>3, <1>8

LEMMA CostInitIInv == CostInit => CostIInv
<1> SUFFICES ASSUME CostInit PROVE CostIInv
  OBVIOUS
<1>1. DOMAIN book = {} /\ traded = <<>> /\ moved = 0
  BY DEF CostInit
<1>2. CostTyped
  BY <1>1, CostAssumption DEF CostInit, CostTyped
<1>3. SumFunction(traded) = 0
  <2>1. DOMAIN traded = {}
    BY <1>1
  <2> QED
    BY <2>1, SumEmpty DEF SumFunction
<1>4. Size(book) = 0
  <2> DEFINE f == [s \in Symbols |-> Abs(Weight(book, s))]
  <2>1. \A s \in Symbols \ {} : f[s] = 0
    BY <1>1 DEF Weight, Abs
  <2>2. Size(book) = SumFunctionOnSet(f, Symbols)
    BY DEF Size, SumFunction
  <2>3. {} \in SUBSET Symbols /\ IsFiniteSet(Symbols)
    BY CostAssumption
  <2> HIDE DEF f
  <2> QED
    BY <2>1, <2>2, <2>3, SumWithoutZeros, SumEmpty
<1>5. MovedIsTraded /\ MovedReachesBook /\ NothingTradedUnverified
  BY <1>1, <1>3, <1>4 DEF MovedIsTraded, MovedReachesBook, NothingTradedUnverified
<1> QED
  BY <1>2, <1>5 DEF CostIInv

LEMMA CostEditKeeps == CostIInv /\ EditPayload => CostIInv'
<1> SUFFICES ASSUME CostIInv, EditPayload PROVE CostIInv'
  OBVIOUS
<1>1. payload' \in Payloads /\ book' = book /\ traded' = traded /\ moved' = moved /\ traded = <<>>
  BY DEF EditPayload
<1>2. CostTyped'
  BY <1>1 DEF CostIInv, CostTyped
<1>3. NothingTradedUnverified' /\ MovedIsTraded' /\ MovedReachesBook'
  BY <1>1 DEF CostIInv, NothingTradedUnverified, MovedIsTraded, MovedReachesBook, Size, Weight
<1> QED
  BY <1>2, <1>3 DEF CostIInv

LEMMA CostHoldKeeps == CostIInv /\ HoldPeriod => CostIInv'
<1> SUFFICES ASSUME CostIInv, HoldPeriod PROVE CostIInv'
  OBVIOUS
<1>1. /\ payload' = payload /\ book' = book /\ moved' = moved /\ Verified
      /\ traded' = Append(traded, 0)
  BY DEF HoldPeriod
<1>2. traded \in Seq(Int) /\ moved \in Int /\ moved = SumFunction(traded)
  BY DEF CostIInv, CostTyped, MovedIsTraded
<1>3. CostTyped'
  <2>1. traded' \in Seq(Int)
    BY <1>1, <1>2
  <2> QED
    BY <1>1, <2>1 DEF CostIInv, CostTyped
<1>4. MovedIsTraded'
  <2>1. SumFunction(traded') = SumFunction(traded) + 0
    BY <1>1, <1>2, SumAppend
  <2> QED
    BY <1>1, <1>2, <2>1 DEF MovedIsTraded
<1>5. NothingTradedUnverified' /\ MovedReachesBook'
  BY <1>1 DEF CostIInv, NothingTradedUnverified, MovedReachesBook, Size, Weight, Verified
<1> QED
  BY <1>3, <1>4, <1>5 DEF CostIInv

LEMMA CostRebalanceKeeps == CostIInv /\ RebalancePeriod => CostIInv'
<1> SUFFICES ASSUME CostIInv, RebalancePeriod PROVE CostIInv'
  OBVIOUS
<1>1. PICK held \in SUBSET Symbols, halves \in 0..2 :
        \E target \in [held -> Weights] :
            /\ halves = 1 => \A s \in Symbols : Delta(book, target, s) % 2 = 0
            /\ traded' = Append(traded, RealizedTraded(TradedFraction(book, target), halves))
            /\ book' = [s \in DOMAIN book \cup held |->
                           Weight(book, s) + (halves * Delta(book, target, s)) \div 2]
  BY DEF RebalancePeriod
<1>2. PICK target \in [held -> Weights] :
            /\ halves = 1 => \A s \in Symbols : Delta(book, target, s) % 2 = 0
            /\ traded' = Append(traded, RealizedTraded(TradedFraction(book, target), halves))
            /\ book' = [s \in DOMAIN book \cup held |->
                           Weight(book, s) + (halves * Delta(book, target, s)) \div 2]
  BY <1>1
<1>3. /\ payload' = payload /\ Verified
      /\ moved' = moved + 2 * Move(book, book')
  BY DEF RebalancePeriod, Move
<1>4. traded \in Seq(Int) /\ moved \in Int /\ moved = SumFunction(traded) /\ 2 * Size(book) <= moved
  BY DEF CostIInv, CostTyped, MovedIsTraded, MovedReachesBook
<1>5. IsBook(book)
  BY DEF CostIInv, CostTyped, IsBook
<1>6. IsBook(target)
  BY CostAssumption DEF IsBook
<1>7. book' = Filled(book, target, halves)
  BY <1>2 DEF Filled
<1>8. IsBook(book') /\ 2 * Move(book, book') = halves * Move(book, target)
  BY <1>2, <1>5, <1>6, <1>7, FillsMoveTheShare
<1> DEFINE x == halves * Move(book, target)
<1>9. TradedFraction(book, target) = Move(book, target) /\ Move(book, target) \in Int
  BY <1>5, <1>6, TradedIsMove
<1>10. x \in Int /\ Move(book, book') \in Int
  <2>1. halves \in Int
    OBVIOUS
  <2>2. x \in Int
    BY <1>9, <2>1
  <2>3. Move(book, book') \in Int
    BY <1>5, <1>8, TradedIsMove
  <2> QED
    BY <2>2, <2>3
<1>11. traded' = Append(traded, x)
  <2>1. RealizedTraded(TradedFraction(book, target), halves) = x
    BY <1>9 DEF RealizedTraded
  <2> QED
    BY <1>2, <2>1
<1> HIDE DEF x
<1>12. traded' \in Seq(Int) /\ SumFunction(traded') = SumFunction(traded) + x
  BY <1>4, <1>10, <1>11, SumAppend
<1>13. moved' = moved + x /\ moved' \in Int
  BY <1>3, <1>4, <1>8, <1>10 DEF x
<1>14. CostTyped'
  BY <1>3, <1>8, <1>12, <1>13 DEF CostIInv, CostTyped, IsBook
<1>15. MovedIsTraded'
  BY <1>4, <1>12, <1>13 DEF MovedIsTraded
<1>16. MovedReachesBook'
  <2>1. Size(book) \in Int /\ Size(book') \in Int /\ Size(book') <= Size(book) + Move(book, book')
    BY <1>5, <1>8, MoveBoundsSize
  <2>2. 2 * Size(book') <= moved'
    BY <1>3, <1>4, <1>10, <2>1
  <2>3. Size(book)' = Size(book')
    BY DEF Size, Weight
  <2> QED
    BY <2>2, <2>3 DEF MovedReachesBook
<1>17. NothingTradedUnverified'
  BY <1>3 DEF NothingTradedUnverified, Verified
<1> QED
  BY <1>14, <1>15, <1>16, <1>17 DEF CostIInv

LEMMA CostStepIInv == CostIInv /\ [CostNext]_costVars => CostIInv'
<1> SUFFICES ASSUME CostIInv, [CostNext]_costVars PROVE CostIInv'
  OBVIOUS
<1>1. CASE UNCHANGED costVars
  BY <1>1 DEF costVars, CostIInv, CostTyped, NothingTradedUnverified, Verified, MovedIsTraded,
              MovedReachesBook, Size, Weight
<1> QED
  BY <1>1, CostEditKeeps, CostHoldKeeps, CostRebalanceKeeps DEF CostNext

\* What is traded, held and recorded agrees in every state of a run.
THEOREM CostInductive == CostSpec => []CostIInv
<1> QED
  BY CostInitIInv, CostStepIInv, PTL DEF CostSpec

\* The side cost of accepted parameters is not negative.
LEMMA VerifiedCostIsPositive ==
  ASSUME payload \in Payloads
  PROVE  /\ PerSideCost(SpecOf(payload)) \in Int
         /\ Verified => PerSideCost(SpecOf(payload)) >= 0
<1>1. \A key \in DOMAIN payload : payload[key] \in Int
  <2>1. PICK keys \in SUBSET Components : payload \in [keys -> Bps]
    BY DEF Payloads
  <2>2. DOMAIN payload = keys /\ \A key \in keys : payload[key] \in Bps
    BY <2>1
  <2> QED
    BY <2>2, CostAssumption
<1>2. \A field \in SpecFields : /\ SpecOf(payload)[field] \in Int
                                /\ Verified => SpecOf(payload)[field] >= 0
  BY <1>1 DEF SpecOf, Component, Verified, Rejected
<1>3. {"fee", "spread", "slippage", "rounding"} \subseteq SpecFields
  BY DEF SpecFields
<1> QED
  BY <1>2, <1>3 DEF PerSideCost

\* The parameters verify exactly when they mean what the evidence was produced with,
\* unknown keys included: verify_cost_model_payload.
THEOREM IdentityIsMeaning == CostSpec => []VerifiedIsSame
<1>1. CostIInv => VerifiedIsSame
  <2> SUFFICES ASSUME CostIInv PROVE VerifiedIsSame
    OBVIOUS
  <2>1. /\ payload \in Payloads /\ DOMAIN payload \subseteq Components
        /\ StampedPayload \in Payloads /\ DOMAIN StampedPayload \subseteq Components
    BY CostAssumption DEF CostIInv, CostTyped, Payloads
  <2>2. DOMAIN StampedPayload \subseteq SpecFields
    BY StampAssumption DEF Rejected
  <2>3. ASSUME ~Rejected(payload), SpecOf(payload) = SpecOf(StampedPayload)
        PROVE  Meaning(payload) = Meaning(StampedPayload)
    <3>1. DOMAIN payload \subseteq SpecFields
      BY <2>3 DEF Rejected
    <3>2. \A field \in SpecFields : Component(payload, field) = Component(StampedPayload, field)
      <4>1. \A field \in SpecFields : SpecOf(payload)[field] = SpecOf(StampedPayload)[field]
        BY <2>3
      <4> QED
        BY <4>1 DEF SpecOf
    <3>3. \A key \in Components : Component(payload, key) = Component(StampedPayload, key)
      BY <2>2, <3>1, <3>2 DEF Component
    <3> QED
      BY <3>3 DEF Meaning
  <2>4. ASSUME Meaning(payload) = Meaning(StampedPayload)
        PROVE  SpecOf(payload) = SpecOf(StampedPayload)
    <3>1. \A key \in Components : Component(payload, key) = Component(StampedPayload, key)
      <4>1. \A key \in Components : Meaning(payload)[key] = Meaning(StampedPayload)[key]
        BY <2>4
      <4> QED
        BY <4>1 DEF Meaning
    <3>2. \A key \in SpecFields : Component(payload, key) = Component(StampedPayload, key)
      BY <2>1, <3>1 DEF Component
    <3> QED
      BY <3>2 DEF SpecOf
  <2> QED
    BY <2>3, <2>4 DEF VerifiedIsSame, Verified, ContentSha256
<1> QED
  BY <1>1, CostInductive, PTL

\* The net returns of a run carry the per-side cost of every fill, once, and are never
\* cheaper than the direct way: apply_costs_to_period_returns over any sequence of
\* rebalances, partial fills and edits.
THEOREM FillsArePaidOnce == CostSpec => []EveryFillIsPaidOnce
<1>1. CostIInv => EveryFillIsPaidOnce
  <2> SUFFICES ASSUME CostIInv PROVE EveryFillIsPaidOnce
    OBVIOUS
  <2> DEFINE spec == SpecOf(payload)
             cost == PerSideCost(spec)
             Charged(n) == -SumFunction(NetReturns(n, traded, spec))
  <2>1. cost \in Int /\ (Verified => cost >= 0)
    BY VerifiedCostIsPositive DEF CostIInv, CostTyped
  <2>2. traded \in Seq(Int) /\ moved \in Int /\ moved = SumFunction(traded)
    BY DEF CostIInv, CostTyped, MovedIsTraded
  <2>3. ASSUME NEW n \in 1..MaxPeriods, NetReturns(n, traded, spec) # <<>>
        PROVE  Charged(n) = cost * moved
    <3> DEFINE net == NetReturns(n, traded, spec)
               less == -cost
    <3>1. n = Len(traded) /\ DOMAIN traded = 1..n
      BY <2>2, <2>3 DEF NetReturns
    <3>2. net = [t \in 1..n |-> -cost * traded[t]]
      BY <3>1 DEF NetReturns
    <3>3. \A t \in 1..n : traded[t] \in Int /\ net[t] = less * traded[t]
      BY <2>1, <2>2, <3>1, <3>2
    <3>4. less \in Int /\ IsFiniteSet(1..n)
      BY <2>1, FS_Interval
    <3>5. SumFunction(net) = SumFunctionOnSet(net, 1..n)
      BY <3>2 DEF SumFunction
    <3>6. SumFunctionOnSet(net, 1..n) = less * SumFunctionOnSet(traded, 1..n)
      <4> HIDE DEF net, less
      <4> QED
        BY <3>3, <3>4, SumScaled
    <3>7. SumFunctionOnSet(traded, 1..n) = moved
      BY <2>2, <3>1 DEF SumFunction
    <3>8. -(less * moved) = cost * moved
      <4> HIDE DEF cost
      <4> QED
        BY <2>1, <2>2
    <3> QED
      BY <3>5, <3>6, <3>7, <3>8
  <2>4. 2 * RebalanceCost(<<>>, book, spec) <= cost * moved
    <3> DEFINE empty == <<>>
               a == Size(book)
    <3>1. IsBook(book) /\ IsBook(empty)
      BY DEF CostIInv, CostTyped, IsBook
    <3>2. TradedFraction(empty, book) = Move(empty, book)
      BY <3>1, TradedIsMove
    <3>3. Move(empty, book) = a
      <4>1. \A s : Delta(empty, book, s) = Weight(book, s)
        <5>1. \A s : Weight(empty, s) = 0
          BY DEF Weight
        <5>2. \A s : Weight(book, s) \in Int
          BY <3>1, BookWeights
        <5> HIDE DEF empty
        <5> QED
          BY <5>1, <5>2 DEF Delta
      <4> HIDE DEF empty
      <4> QED
        BY <4>1 DEF Move, Size
    <3>4. a \in Int /\ 2 * a <= moved
      <4>1. a \in Int
        BY <3>1, MoveBoundsSize
      <4>2. 2 * a <= moved
        BY DEF CostIInv, MovedReachesBook
      <4> QED
        BY <4>1, <4>2
    <3>5. a >= 0
      <4> DEFINE f == [s \in Symbols |-> Abs(Weight(book, s))]
                 z == [s \in Symbols |-> 0]
      <4>1. \A s \in Symbols : z[s] \in Int /\ f[s] \in Int /\ z[s] <= f[s]
        BY <3>1, BookWeights DEF Abs
      <4>2. IsFiniteSet(Symbols)
        BY CostAssumption
      <4>3. \A s \in Symbols \ {} : z[s] = 0
        OBVIOUS
      <4>4. {} \in SUBSET Symbols
        OBVIOUS
      <4> HIDE DEF f, z
      <4>5. SumFunctionOnSet(z, Symbols) = 0
        BY <4>2, <4>3, <4>4, SumWithoutZeros, SumEmpty
      <4>6. SumFunctionOnSet(z, Symbols) <= SumFunctionOnSet(f, Symbols)
        BY <4>1, <4>2, SumMonotone
      <4>7. Size(book) = SumFunctionOnSet(f, Symbols)
        BY DEF Size, SumFunction, f
      <4> QED
        BY <3>4, <4>5, <4>6, <4>7
    <3>6. Verified \/ moved = 0
      <4>1. CASE traded = <<>>
        <5>1. DOMAIN traded = {}
          BY <4>1
        <5> QED
          BY <2>2, <5>1, SumEmpty DEF SumFunction
      <4> QED
        BY <4>1 DEF CostIInv, NothingTradedUnverified
    <3>7. 2 * (cost * a) <= cost * moved
      <4> HIDE DEF cost, a
      <4>1. CASE moved = 0
        <5>1. a = 0
          BY <3>4, <3>5, <4>1
        <5> QED
          BY <2>1, <4>1, <5>1
      <4>2. CASE cost >= 0
        <5>1. cost * (moved - 2 * a) >= 0
          BY <2>1, <2>2, <3>4, <4>2
        <5>2. cost * (moved - 2 * a) = cost * moved - 2 * (cost * a)
          BY <2>1, <2>2, <3>4
        <5>3. cost * moved \in Int /\ cost * a \in Int
          BY <2>1, <2>2, <3>4
        <5> QED
          BY <5>1, <5>2, <5>3
      <4> QED
        BY <2>1, <3>6, <4>1, <4>2
    <3>8. RebalanceCost(empty, book, spec) = cost * a
      BY <3>2, <3>3 DEF RebalanceCost
    <3> QED
      BY <3>7, <3>8
  <2> HIDE DEF Charged
  <2>5. (\A n \in 1..MaxPeriods : NetReturns(n, traded, spec) # <<>> => Charged(n) = cost * moved)
    BY <2>3
  <2> QED
    BY <2>4, <2>5 DEF EveryFillIsPaidOnce, Charged
<1> QED
  BY <1>1, CostInductive, PTL

-----------------------------------------------------------------------------
(* The regime labels.                                                      *)

\* Tables are sequences of returns, and days count from one.
RegimeTables == Seq(DailyReturns)

\* A slice that ends within the table is the same when a day is appended.
LEMMA SliceOfAppend ==
  ASSUME NEW r \in RegimeTables, NEW x \in DailyReturns,
         NEW m \in Nat \ {0}, NEW n \in Nat, n <= Len(r)
  PROVE  SubSeq(Append(r, x), m, n) = SubSeq(r, m, n)
<1> DEFINE s == SubSeq(Append(r, x), m, n)
           t == SubSeq(r, m, n)
<1>1. r \in Seq(DailyReturns) /\ Append(r, x) \in Seq(DailyReturns)
  BY DEF RegimeTables
<1>2. \A i \in m..n : r[i] \in DailyReturns /\ Append(r, x)[i] = r[i]
  BY <1>1
<1>3. /\ s \in Seq(DailyReturns) /\ Len(s) = IF m <= n THEN n - m + 1 ELSE 0
      /\ \A i \in 1..(n - m + 1) : s[i] = Append(r, x)[m + i - 1]
  BY <1>2, SubSeqProperties
<1>4. /\ t \in Seq(DailyReturns) /\ Len(t) = IF m <= n THEN n - m + 1 ELSE 0
      /\ \A i \in 1..(n - m + 1) : t[i] = r[m + i - 1]
  BY <1>2, SubSeqProperties
<1>5. \A i \in 1..Len(s) : s[i] = t[i]
  <2> SUFFICES ASSUME NEW i \in 1..Len(s) PROVE s[i] = t[i]
    OBVIOUS
  <2>1. i \in 1..(n - m + 1) /\ m + i - 1 \in m..n
    BY <1>3
  <2> QED
    BY <1>2, <1>3, <1>4, <2>1
<1> QED
  BY <1>3, <1>4, <1>5, SeqEqual

\* No window of a day reaches past it.
LEMMA WindowsIgnoreAppend ==
  ASSUME NEW r \in RegimeTables, NEW x \in DailyReturns, NEW n \in Nat
  PROVE  /\ \A d \in 1..Len(r) : Before(Append(r, x), d, n) = Before(r, d, n)
         /\ \A d \in 0..Len(r) : UpTo(Append(r, x), d, n) = UpTo(r, d, n)
<1>1. Len(r) \in Nat
  BY DEF RegimeTables
<1>2. ASSUME NEW d \in 1..Len(r) PROVE Before(Append(r, x), d, n) = Before(r, d, n)
  <2> DEFINE m == IF d > n THEN d - n ELSE 1
  <2>1. m \in Nat \ {0} /\ d - 1 \in Nat /\ d - 1 <= Len(r)
    BY <1>1
  <2> HIDE DEF m
  <2>2. SubSeq(Append(r, x), m, d - 1) = SubSeq(r, m, d - 1)
    BY <2>1, SliceOfAppend
  <2> QED
    BY <2>2 DEF Before, m
<1>3. ASSUME NEW d \in 0..Len(r) PROVE UpTo(Append(r, x), d, n) = UpTo(r, d, n)
  <2> DEFINE m == IF d > n THEN d - n + 1 ELSE 1
  <2>1. m \in Nat \ {0} /\ d \in Nat /\ d <= Len(r)
    BY <1>1
  <2> HIDE DEF m
  <2>2. SubSeq(Append(r, x), m, d) = SubSeq(r, m, d)
    BY <2>1, SliceOfAppend
  <2> QED
    BY <2>2 DEF UpTo, m
<1> QED
  BY <1>2, <1>3

\* The label of a day is the same when a day is appended.
LEMMA LabelsIgnoreAppend ==
  ASSUME NEW r \in RegimeTables, NEW x \in DailyReturns, NEW d \in 1..Len(r)
  PROVE  /\ HmmLabel(Append(r, x), d) = HmmLabel(r, d)
         /\ GridLabel(Append(r, x), d) = GridLabel(r, d)
<1> DEFINE q == Append(r, x)
<1>1. Len(r) \in Nat /\ d \in Nat /\ d \in 0..Len(r)
  BY DEF RegimeTables
<1>2. /\ ShortWindow \in Nat /\ MidWindow \in Nat /\ LongWindow \in Nat
      /\ HurstWindow \in Nat /\ TrendWindow \in Nat /\ VolWindow \in Nat /\ HistWindow \in Nat
  BY RegimeAssumption
<1>3. /\ Before(q, d, ShortWindow) = Before(r, d, ShortWindow)
      /\ Before(q, d, MidWindow) = Before(r, d, MidWindow)
      /\ Before(q, d, LongWindow) = Before(r, d, LongWindow)
      /\ UpTo(q, d, HurstWindow) = UpTo(r, d, HurstWindow)
      /\ UpTo(q, d, TrendWindow) = UpTo(r, d, TrendWindow)
  BY <1>1, <1>2, WindowsIgnoreAppend
<1>4. \A row \in 0..Len(r) : UpTo(q, row, VolWindow) = UpTo(r, row, VolWindow)
  BY <1>2, WindowsIgnoreAppend
<1> HIDE DEF q
<1>5. HmmLabel(q, d) = HmmLabel(r, d)
  BY <1>3 DEF HmmLabel
<1>6. TrendLabel(q, d) = TrendLabel(r, d)
  BY <1>3 DEF TrendLabel
<1>7. VolLabel(q, d) = VolLabel(r, d)
  <2> DEFINE rows == HistRows(r, d)
             known == {row \in rows : VolKnown(r, row)}
  <2>1. HistRows(q, d) = rows
    BY DEF HistRows
  <2>2. rows \subseteq 0..Len(r)
    BY <1>1, <1>2 DEF HistRows
  <2>3. \A row \in rows : VolKnown(q, row) = VolKnown(r, row)
    <3> HIDE DEF rows
    <3> QED
      BY <1>4, <2>2 DEF VolKnown
  <2>4. VolKnown(q, d) = VolKnown(r, d)
    BY <1>1, <1>4 DEF VolKnown
  <2>5. \A row \in rows : LowerVol(q, row, d) = LowerVol(r, row, d)
    <3> HIDE DEF rows
    <3> QED
      BY <1>1, <1>4, <2>2 DEF LowerVol
  <2>6. {row \in rows : VolKnown(q, row)} = known
    BY <2>3
  <2> DEFINE lowerQ == Cardinality({row \in known : LowerVol(q, row, d)})
             lowerR == Cardinality({row \in known : LowerVol(r, row, d)})
             Label(lower, isKnown) ==
               IF Cardinality(known) < MinHistRows \/ ~isKnown THEN "nan"
               ELSE IF 100 * lower <= 33 * (Cardinality(rows) - 1) THEN "CALM"
               ELSE IF 100 * lower <= 66 * (Cardinality(rows) - 1) THEN "NORMAL"
               ELSE "SPIKED"
  <2>7. lowerQ = lowerR
    <3>1. {row \in known : LowerVol(q, row, d)} = {row \in known : LowerVol(r, row, d)}
      BY <2>5
    <3> QED
      BY <3>1
  <2> HIDE DEF rows, known
  <2>8. VolLabel(q, d) = Label(lowerQ, VolKnown(q, d))
    BY <2>1, <2>6 DEF VolLabel
  <2>9. VolLabel(r, d) = Label(lowerR, VolKnown(r, d))
    BY DEF VolLabel, rows, known
  <2> HIDE DEF lowerQ, lowerR, Label
  <2>10. Label(lowerQ, VolKnown(q, d)) = Label(lowerR, VolKnown(r, d))
    BY <2>4, <2>7
  <2> QED
    BY <2>8, <2>9, <2>10
<1> QED
  BY <1>5, <1>6, <1>7 DEF GridLabel, q

\* What a day is labelled.
DayLabels ==
    [ hmm  : {"BEAR", "CHOPPY", "BULL_CALM", "BULL_VOLATILE"},
      grid : {"nan", "LOW", "MED", "HIGH"} \X {"nan", "CALM", "NORMAL", "SPIKED"} ]

\* Every day of the table was labelled when it was the last.
RegimeTyped ==
    /\ rets \in RegimeTables /\ Len(rets) <= MaxDays
    /\ published \in Seq(DayLabels) /\ Len(published) = Len(rets)

RegimeIInv == RegimeTyped /\ LabelsIgnoreTheFuture

LEMMA LabelsTyped ==
  ASSUME NEW r, NEW d
  PROVE  [hmm |-> HmmLabel(r, d), grid |-> GridLabel(r, d)] \in DayLabels
<1>1. HmmLabel(r, d) \in {"BEAR", "CHOPPY", "BULL_CALM", "BULL_VOLATILE"}
  BY DEF HmmLabel
<1>2. TrendLabel(r, d) \in {"nan", "LOW", "MED", "HIGH"}
  BY DEF TrendLabel
<1>3. VolLabel(r, d) \in {"nan", "CALM", "NORMAL", "SPIKED"}
  BY DEF VolLabel
<1> QED
  BY <1>1, <1>2, <1>3 DEF DayLabels, GridLabel

LEMMA RegimeStepIInv == RegimeIInv /\ [Close]_regimeVars => RegimeIInv'
<1> SUFFICES ASSUME RegimeIInv, [Close]_regimeVars PROVE RegimeIInv'
  OBVIOUS
<1>1. CASE UNCHANGED regimeVars
  BY <1>1 DEF regimeVars, RegimeIInv, RegimeTyped, LabelsIgnoreTheFuture
<1>2. CASE Close
  <2> DEFINE n == Len(rets)
             label == [hmm |-> HmmLabel(rets', n + 1), grid |-> GridLabel(rets', n + 1)]
  <2>1. /\ rets \in RegimeTables /\ published \in Seq(DayLabels)
        /\ n \in Nat /\ Len(published) = n /\ n < MaxDays
    BY <1>2 DEF RegimeIInv, RegimeTyped, RegimeTables, Close
  <2>2. PICK x \in DailyReturns : rets' = Append(rets, x)
    BY <1>2 DEF Close
  <2>3. rets' \in RegimeTables /\ Len(rets') = n + 1
    BY <2>1, <2>2 DEF RegimeTables
  <2>4. published' = Append(published, label)
    BY <1>2, <2>3 DEF Close
  <2>5. label \in DayLabels
    BY LabelsTyped
  <2> HIDE DEF label
  <2>6. /\ published' \in Seq(DayLabels) /\ Len(published') = n + 1 /\ published'[n + 1] = label
        /\ \A d \in 1..n : published'[d] = published[d]
    BY <2>1, <2>4, <2>5
  <2>7. RegimeTyped'
    <3>1. n + 1 <= MaxDays
      BY <2>1, RegimeAssumption
    <3> QED
      BY <2>3, <2>6, <3>1 DEF RegimeTyped
  <2>8. LabelsIgnoreTheFuture'
    <3> SUFFICES ASSUME NEW d \in 1..Len(rets')
                 PROVE  published'[d] = [hmm |-> HmmLabel(rets', d), grid |-> GridLabel(rets', d)]
      BY DEF LabelsIgnoreTheFuture, HmmLabel, GridLabel
    <3>1. CASE d = n + 1
      BY <2>6, <3>1 DEF label
    <3>2. CASE d # n + 1
      <4>1. d \in 1..n
        BY <2>1, <2>3, <3>2
      <4>2. HmmLabel(rets', d) = HmmLabel(rets, d) /\ GridLabel(rets', d) = GridLabel(rets, d)
        BY <2>1, <2>2, <4>1, LabelsIgnoreAppend
      <4>3. published[d] = [hmm |-> HmmLabel(rets, d), grid |-> GridLabel(rets, d)]
        BY <4>1 DEF RegimeIInv, LabelsIgnoreTheFuture
      <4> QED
        BY <2>6, <4>1, <4>2, <4>3
    <3> QED
      BY <3>1, <3>2
  <2> QED
    BY <2>7, <2>8 DEF RegimeIInv
<1> QED
  BY <1>1, <1>2

LEMMA RegimeInductive == RegimeSpec => []RegimeIInv
<1>1. RegimeInit => RegimeIInv
  <2> SUFFICES ASSUME RegimeInit PROVE RegimeIInv
    OBVIOUS
  <2>1. rets = <<>> /\ published = <<>> /\ Len(rets) = 0
    BY DEF RegimeInit
  <2> QED
    BY <2>1, RegimeAssumption DEF RegimeIInv, RegimeTyped, RegimeTables, LabelsIgnoreTheFuture
<1> QED
  BY <1>1, RegimeStepIInv, PTL DEF RegimeSpec

\* The label of a day never changes when later days are added, whatever the windows:
\* compute_hmm_regime_labels, and the percentiles of the grid, see no future.
THEOREM LabelsAreCausal == RegimeSpec => []LabelsIgnoreTheFuture
<1> QED
  BY RegimeInductive, PTL DEF RegimeIInv

\* A window that has not filled up leaves a component without a label.
LEMMA OpenWindowIsWarmup ==
  ASSUME RegimeIInv, NEW d \in 1..Len(rets), WindowsOpen(d)
  PROVE  IsWarmup(published[d].grid)
<1>1. published[d].grid = <<TrendLabel(rets, d), VolLabel(rets, d)>>
  <2>1. published[d] = [hmm |-> HmmLabel(rets, d), grid |-> GridLabel(rets, d)]
    BY DEF RegimeIInv, LabelsIgnoreTheFuture
  <2>2. published[d].grid = GridLabel(rets, d)
    BY <2>1
  <2> QED
    BY <2>2 DEF GridLabel
<1>2. CASE d < TrendWindow \div 2
  <2> DEFINE w == UpTo(rets, d, TrendWindow)
  <2>1. TrendWindow \in Nat /\ d \in Nat /\ d <= TrendWindow /\ d <= Len(rets)
    <3>1. TrendWindow \in Nat
      BY RegimeAssumption
    <3>2. Len(rets) \in Nat
      BY DEF RegimeIInv, RegimeTyped, RegimeTables
    <3> QED
      BY <1>2, <3>1, <3>2
  <2>2. w = SubSeq(rets, 1, d)
    BY <2>1 DEF UpTo
  <2>3. Len(w) = d
    BY <2>1, <2>2 DEF RegimeIInv, RegimeTyped, RegimeTables
  <2>4. TrendLabel(rets, d) = "nan"
    <3>1. TrendWindow \div 2 \in Int /\ ~(d >= TrendWindow \div 2)
      BY <1>2, <2>1
    <3> HIDE DEF w
    <3> QED
      BY <1>2, <2>3, <3>1 DEF TrendLabel, w
  <2> QED
    BY <1>1, <2>4 DEF IsWarmup
<1>3. CASE Cardinality({row \in HistRows(rets, d) : VolKnown(rets, row)}) < MinHistRows
  <2>1. VolLabel(rets, d) = "nan"
    BY <1>3 DEF VolLabel
  <2> QED
    BY <1>1, <2>1 DEF IsWarmup
<1> QED
  BY <1>2, <1>3 DEF WindowsOpen

\* The objective does not depend on what a model predicts on warm-up days, whatever it
\* predicts there: per_regime_cs_ic and min_across_regimes leave them out.
THEOREM WarmupIsNeverEvidence == RegimeSpec => []WarmupIsNoEvidence
<1>1. RegimeIInv => WarmupIsNoEvidence
  <2> SUFFICES ASSUME RegimeIInv, NEW x \in {-1, 0, 1}
               PROVE  LET other == [d \in DOMAIN DayIC |-> IF WindowsOpen(d) THEN x ELSE DayIC[d]]
                      IN  MinAcrossRegimes(published, other) = MinAcrossRegimes(published, DayIC)
    BY DEF WarmupIsNoEvidence
  <2> DEFINE other == [d \in DOMAIN DayIC |-> IF WindowsOpen(d) THEN x ELSE DayIC[d]]
             Used(ic) == {d \in DOMAIN published : ic[d] # NoIC /\ ~IsWarmup(published[d].grid)}
  <2>1. DOMAIN published = 1..Len(rets) /\ Len(rets) \in Nat /\ 1..Len(rets) \subseteq DOMAIN DayIC
    <3>1. DOMAIN published = 1..Len(rets) /\ Len(rets) \in Nat /\ Len(rets) <= MaxDays
      BY DEF RegimeIInv, RegimeTyped, RegimeTables
    <3>2. MaxDays \in Nat /\ DOMAIN DayIC = 1..MaxDays
      BY RegimeAssumption
    <3> QED
      BY <3>1, <3>2
  <2>2. \A d \in DOMAIN published : ~IsWarmup(published[d].grid) => other[d] = DayIC[d]
    BY <2>1, OpenWindowIsWarmup
  <2> HIDE DEF other
  <2>3. Used(other) = Used(DayIC)
    BY <2>2
  <2>4. PerRegimeDays(published, other) = PerRegimeDays(published, DayIC)
    BY <2>3 DEF PerRegimeDays
  <2>5. \A days \in PerRegimeDays(published, DayIC) :
            SumFunctionOnSet(other, days) = SumFunctionOnSet(DayIC, days)
    <3> SUFFICES ASSUME NEW days \in PerRegimeDays(published, DayIC)
                 PROVE  SumFunctionOnSet(other, days) = SumFunctionOnSet(DayIC, days)
      OBVIOUS
    <3>1. days \subseteq Used(DayIC)
      BY DEF PerRegimeDays
    <3>2. IsFiniteSet(days)
      <4>1. days \subseteq 1..Len(rets)
        BY <2>1, <3>1
      <4>2. IsFiniteSet(1..Len(rets))
        BY <2>1, FS_Interval
      <4> QED
        BY <4>1, <4>2, FS_Subset
    <3>3. \A d \in days : other[d] = DayIC[d]
      BY <2>2, <3>1
    <3> QED
      BY <3>2, <3>3, SumSame
  <2> DEFINE Means(ic) == { <<SumFunctionOnSet(ic, days), Cardinality(days)>> :
                               days \in PerRegimeDays(published, ic) }
  <2>6. Means(other) = Means(DayIC)
    BY <2>4, <2>5
  <2>7. /\ MinAcrossRegimes(published, other) =
             { m \in Means(other) : \A o \in Means(other) : m[1] * o[2] <= o[1] * m[2] }
        /\ MinAcrossRegimes(published, DayIC) =
             { m \in Means(DayIC) : \A o \in Means(DayIC) : m[1] * o[2] <= o[1] * m[2] }
    BY DEF MinAcrossRegimes
  <2> HIDE DEF Means
  <2>8. MinAcrossRegimes(published, other) = MinAcrossRegimes(published, DayIC)
    BY <2>6, <2>7
  <2> QED
    BY <2>8 DEF other
<1> QED
  BY <1>1, RegimeInductive, PTL

-----------------------------------------------------------------------------
(* The estimators of overfitting.                                          *)

\* A study has handed in its matrix.
Given == matrix \in [Candidates -> Series]

\* The series of a study are integers of one length.
LEMMA SeriesOfStudy ==
  ASSUME Given
  PROVE  /\ NumObs \in Nat /\ NumObs >= NumSlices
         /\ \A c \in Candidates : \A n \in 1..NumObs : matrix[c][n] \in Int
<1>1. 1 \in Candidates
  BY OverfittingAssumption DEF Candidates
<1>2. \A c \in Candidates : matrix[c] \in Series /\ matrix[c] \in Seq(Int)
  BY OverfittingAssumption DEF Given
<1>3. \A c \in Candidates : Len(matrix[c]) = NumObs
  BY <1>1, <1>2, OverfittingAssumption DEF NumObs
<1>4. NumObs \in Nat /\ NumObs >= NumSlices
  BY <1>1, <1>2, OverfittingAssumption DEF NumObs
<1>5. ASSUME NEW c \in Candidates, NEW n \in 1..NumObs PROVE matrix[c][n] \in Int
  BY <1>2, <1>3
<1> QED
  BY <1>4, <1>5

\* What the ratio of a candidate is computed from are integers.
LEMMA SharpeParts ==
  ASSUME Given, NEW obs \in SUBSET (1..NumObs), NEW c \in Candidates
  PROVE  SumOver(c, obs) \in Int /\ Dispersion(c, obs) \in Int /\ Signed2(SumOver(c, obs)) \in Int
<1> DEFINE sq == [n \in obs |-> matrix[c][n] * matrix[c][n]]
<1>1. IsFiniteSet(obs) /\ Cardinality(obs) \in Nat
  <2>1. IsFiniteSet(1..NumObs)
    BY SeriesOfStudy, FS_Interval
  <2> QED
    BY <2>1, FS_Subset, FS_CardinalityType
<1>2. \A n \in obs : matrix[c][n] \in Int
  BY SeriesOfStudy
<1>3. SumOver(c, obs) \in Int
  BY <1>1, <1>2, SumInteger DEF SumOver
<1>4. \A n \in obs : sq[n] \in Int
  BY <1>2
<1>5. SumFunction(sq) = SumFunctionOnSet(sq, obs)
  BY DEF SumFunction
<1> HIDE DEF sq
<1>6. SumFunctionOnSet(sq, obs) \in Int
  BY <1>1, <1>4, SumInteger
<1>7. Dispersion(c, obs) = Cardinality(obs) * SumFunction(sq) - SumOver(c, obs) * SumOver(c, obs)
  BY DEF Dispersion, sq
<1>8. Cardinality(obs) * SumFunction(sq) \in Int /\ SumOver(c, obs) * SumOver(c, obs) \in Int
  BY <1>1, <1>3, <1>5, <1>6
<1>9. Signed2(SumOver(c, obs)) \in Int
  BY <1>3, <1>8 DEF Signed2
<1> QED
  BY <1>3, <1>7, <1>8, <1>9

\* Products keep their order when a positive factor comes in or goes out.
LEMMA ProductOrder ==
  ASSUME NEW a \in Int, NEW b \in Int, NEW k \in Int, k > 0
  PROVE  a * k < b * k <=> a < b
<1>1. (b - a) * k = b * k - a * k /\ a * k \in Int /\ b * k \in Int
  OBVIOUS
<1>2. CASE a < b
  <2>1. (b - a) * k > 0
    <3>1. b - a >= 1 /\ b - a \in Int
      BY <1>2
    <3> QED
      BY <3>1
  <2> QED
    BY <1>1, <1>2, <2>1
<1>3. CASE ~(a < b)
  <2>1. (a - b) * k >= 0
    <3>1. a - b >= 0 /\ a - b \in Int
      BY <1>3
    <3> QED
      BY <3>1
  <2>2. (a - b) * k = a * k - b * k
    OBVIOUS
  <2> QED
    BY <1>1, <1>3, <2>1, <2>2
<1> QED
  BY <1>2, <1>3

\* Fractions over positive denominators are ordered.
LEMMA FractionOrder ==
  ASSUME NEW a \in Int, NEW b \in Int, b > 0, NEW c \in Int, NEW d \in Int, d > 0,
         NEW e \in Int, NEW f \in Int, f > 0,
         a * d < c * b, c * f < e * d
  PROVE  a * f < e * b
<1>1. a * d \in Int /\ c * b \in Int /\ c * f \in Int /\ e * d \in Int /\ a * f \in Int /\ e * b \in Int
  OBVIOUS
<1>2. (a * d) * f < (c * b) * f
  BY <1>1, ProductOrder
<1>3. (c * f) * b < (e * d) * b
  BY <1>1, ProductOrder
<1>4. (a * d) * f = (a * f) * d /\ (c * b) * f = (c * f) * b /\ (e * d) * b = (e * b) * d
  OBVIOUS
<1>5. (a * f) * d \in Int /\ (c * f) * b \in Int /\ (e * b) * d \in Int
  BY <1>1
<1>6. (a * f) * d < (e * b) * d
  BY <1>2, <1>3, <1>4, <1>5
<1> QED
  BY <1>1, <1>6, ProductOrder

\* Where every ratio is defined, no ratio is below itself, nor below one it is above.
LEMMA SharpeOrder ==
  ASSUME Given, NEW obs \in SUBSET (1..NumObs), NEW c \in Candidates, NEW d \in Candidates
  PROVE  ~(SharpeBelow(c, d, obs) /\ SharpeBelow(d, c, obs))
<1>1. /\ Signed2(SumOver(c, obs)) \in Int /\ Dispersion(c, obs) \in Int
      /\ Signed2(SumOver(d, obs)) \in Int /\ Dispersion(d, obs) \in Int
  BY SharpeParts
<1> DEFINE x == Signed2(SumOver(c, obs)) * Dispersion(d, obs)
           y == Signed2(SumOver(d, obs)) * Dispersion(c, obs)
<1>2. x \in Int /\ y \in Int
  BY <1>1
<1>3. (SharpeBelow(c, d, obs) <=> x < y) /\ (SharpeBelow(d, c, obs) <=> y < x)
  BY DEF SharpeBelow
<1> HIDE DEF x, y
<1> QED
  BY <1>2, <1>3

LEMMA SharpeTransitive ==
  ASSUME Given, NEW obs \in SUBSET (1..NumObs), \A k \in Candidates : HasSharpe(k, obs),
         NEW c \in Candidates, NEW d \in Candidates, NEW e \in Candidates,
         SharpeBelow(c, d, obs), SharpeBelow(d, e, obs)
  PROVE  SharpeBelow(c, e, obs)
<1> DEFINE S(k) == Signed2(SumOver(k, obs))
           D(k) == Dispersion(k, obs)
<1>1. \A k \in Candidates : S(k) \in Int /\ D(k) \in Int /\ D(k) > 0
  BY SharpeParts DEF HasSharpe
<1>2. S(c) * D(d) < S(d) * D(c) /\ S(d) * D(e) < S(e) * D(d)
  BY DEF SharpeBelow
<1> HIDE DEF S, D
<1>3. S(c) * D(e) < S(e) * D(c)
  BY <1>1, <1>2, FractionOrder
<1> QED
  BY <1>3 DEF S, D, SharpeBelow

\* Where no two ratios are equal, some candidate has the highest, and is the best.
LEMMA BestExists ==
  ASSUME Given, NEW obs \in SUBSET (1..NumObs), Clean(obs)
  PROVE  BestOf(obs) \in Candidates
<1> DEFINE Highest(U) == \E c \in U : \A d \in U : ~SharpeBelow(c, d, obs)
           Good == {U \in SUBSET Candidates : U = {} \/ Highest(U)}
<1>1. \A c \in Candidates : HasSharpe(c, obs)
  BY DEF Clean
<1>2. IsFiniteSet(Candidates) /\ 1 \in Candidates
  BY OverfittingAssumption, FS_Interval DEF Candidates
<1>3. \A c \in Candidates : ~SharpeBelow(c, c, obs)
  BY SharpeOrder
<1>4. ASSUME NEW U \in SUBSET Candidates, NEW a \in Candidates \ U, U \in Good
      PROVE  U \cup {a} \in Good
  <2>1. CASE U = {}
    BY <1>3, <2>1
  <2>2. CASE U # {}
    <3>1. PICK c \in U : \A d \in U : ~SharpeBelow(c, d, obs)
      BY <1>4, <2>2
    <3>2. CASE SharpeBelow(c, a, obs)
      <4>1. ASSUME NEW d \in U, SharpeBelow(a, d, obs) PROVE FALSE
        <5>1. SharpeBelow(c, d, obs)
          BY <1>1, <3>2, <4>1, SharpeTransitive
        <5> QED
          BY <3>1, <5>1
      <4> QED
        BY <1>3, <4>1
    <3>3. CASE ~SharpeBelow(c, a, obs)
      BY <3>1, <3>3
    <3> QED
      BY <3>2, <3>3
  <2> QED
    BY <2>1, <2>2
<1>5. Candidates \in Good
  <2>1. {} \in Good
    OBVIOUS
  <2> HIDE DEF Good
  <2> QED
    BY <1>2, <1>4, <2>1, ElementInduction
<1>6. PICK c \in Candidates : \A d \in Candidates : ~SharpeBelow(c, d, obs)
  BY <1>2, <1>5
<1> DEFINE top == {k \in Candidates : HasSharpe(k, obs)
                     /\ \A d \in Candidates : HasSharpe(d, obs) => ~SharpeBelow(k, d, obs)}
<1>7. c \in top
  BY <1>1, <1>6
<1>8. \A k \in top : k = c
  BY <1>1, <1>6 DEF Clean, NoTies
<1>9. c <= c
  BY DEF Candidates
<1>10. BestOf(obs) = CHOOSE k \in top : \A d \in top : k <= d
  BY DEF BestOf
<1> HIDE DEF top
<1>11. BestOf(obs) = c
  BY <1>7, <1>8, <1>9, <1>10
<1> QED
  BY <1>11

\* Where no two ratios are equal, the rank of a candidate counts those that do not beat it.
LEMMA RankCounts ==
  ASSUME Given, NEW obs \in SUBSET (1..NumObs), Clean(obs), NEW c \in Candidates
  PROVE  LET beating == {d \in Candidates : SharpeBelow(c, d, obs)}
         IN  /\ Cardinality(beating) \in Nat
             /\ RankOf(c, obs) = NumCandidates - Cardinality(beating)
             /\ SliceRank(c, obs) = NumCandidates - Cardinality(beating)
<1> DEFINE beating == {d \in Candidates : SharpeBelow(c, d, obs)}
           below == {d \in Candidates : SharpeBelow(d, c, obs)}
<1>1. \A d \in Candidates : HasSharpe(d, obs)
  BY DEF Clean
<1>2. ~SharpeBelow(c, c, obs) /\ ~(c < c)
  BY SharpeOrder DEF Candidates
<1>3. \A d \in Candidates : Precedes(d, c, obs) <=> SharpeBelow(d, c, obs)
  BY <1>1, <1>2 DEF Precedes, Clean, NoTies
<1>4. {d \in Candidates : Precedes(d, c, obs)} = below
  BY <1>3
<1>5. {d \in Candidates : IF HasSharpe(c, obs) = HasSharpe(d, obs) THEN Precedes(d, c, obs)
                          ELSE HasSharpe(c, obs)} = below
  BY <1>1, <1>3
<1>6. below \cup {c} \cup beating = Candidates
  BY <1>1 DEF Clean, NoTies
<1>7. (below \cup {c}) \cap beating = {} /\ c \notin below
  BY <1>2, SharpeOrder
<1>8. IsFiniteSet(Candidates) /\ Cardinality(Candidates) = NumCandidates
  BY OverfittingAssumption, FS_Interval DEF Candidates
<1>9. IsFiniteSet(below) /\ IsFiniteSet(beating) /\ IsFiniteSet(below \cup {c})
  BY <1>6, <1>8, FS_Subset
<1> HIDE DEF below, beating
<1>10. Cardinality(below \cup {c}) = Cardinality(below) + 1
  BY <1>7, <1>9, FS_AddElement
<1>11. Cardinality((below \cup {c}) \cup beating) =
         Cardinality(below \cup {c}) + Cardinality(beating) - Cardinality((below \cup {c}) \cap beating)
  BY <1>9, FS_Union
<1>12. Cardinality({}) = 0
  BY FS_EmptySet
<1>13. Cardinality(below) \in Nat /\ Cardinality(beating) \in Nat
  BY <1>9, FS_CardinalityType
<1>14. Cardinality(below) + 1 = NumCandidates - Cardinality(beating)
  <2>1. Cardinality((below \cup {c}) \cup beating) = NumCandidates
    BY <1>6, <1>8
  <2>2. Cardinality((below \cup {c}) \cap beating) = 0
    BY <1>7, <1>12
  <2> QED
    BY <1>10, <1>11, <1>13, <2>1, <2>2, OverfittingAssumption
<1>15. RankOf(c, obs) = Cardinality(below) + 1 /\ SliceRank(c, obs) = Cardinality(below) + 1
  BY <1>4, <1>5 DEF RankOf, SliceRank
<1> QED
  BY <1>13, <1>14, <1>15 DEF beating

\* The chunks lie within the observations, and are the slices where all slices are equal.
LEMMA ChunksWithin ==
  ASSUME Given, NEW half \in SUBSET Slices
  PROVE  /\ ChunksOf(half) \in SUBSET (1..NumObs)
         /\ SlicesAreEqual => SlicesOf(half) = ChunksOf(half)
<1> DEFINE size == NumObs \div NumSlices
<1>1. NumObs \in Nat /\ NumSlices \in Nat /\ NumSlices >= 4
  BY SeriesOfStudy, OverfittingAssumption
<1>2. size \in Nat /\ NumSlices * size <= NumObs
  BY <1>1
<1>3. ASSUME NEW k \in Slices PROVE Chunk(k) \subseteq 1..NumObs
  <2>1. k \in Nat /\ k >= 1 /\ k <= NumSlices
    BY <1>1 DEF Slices
  <2>2. (k - 1) * size >= 0 /\ k * size <= NumSlices * size
    <3> HIDE DEF size
    <3>1. (k - 1) * size >= 0
      BY <1>2, <2>1
    <3>2. (NumSlices - k) * size >= 0
      BY <1>1, <1>2, <2>1
    <3>3. (NumSlices - k) * size = NumSlices * size - k * size
      BY <1>1, <1>2, <2>1
    <3>4. NumSlices * size \in Int /\ k * size \in Int
      BY <1>1, <1>2, <2>1
    <3> QED
      BY <3>1, <3>2, <3>3, <3>4
  <2>3. Chunk(k) = (k - 1) * size + 1 .. k * size
    BY DEF Chunk
  <2>4. (k - 1) * size \in Int /\ k * size \in Int /\ NumSlices * size \in Int
    <3> HIDE DEF size
    <3> QED
      BY <1>1, <1>2, <2>1
  <2> HIDE DEF size
  <2> QED
    BY <1>1, <1>2, <2>2, <2>3, <2>4
<1>4. ASSUME SlicesAreEqual, NEW k \in Slices PROVE SliceOf(k) = Chunk(k)
  <2> DEFINE EndOf(j) == j * size + (IF j < 0 THEN j ELSE 0)
  <2>1. SliceOf(k) = EndOf(k - 1) + 1 .. EndOf(k)
    BY <1>4 DEF SlicesAreEqual, SliceOf
  <2>2. k \in Nat /\ k >= 1
    BY DEF Slices
  <2>3. (k - 1) * size \in Int /\ k * size \in Int
    <3> HIDE DEF size
    <3> QED
      BY <1>2, <2>2
  <2>4. EndOf(k - 1) = (k - 1) * size /\ EndOf(k) = k * size
    <3> HIDE DEF size
    <3> QED
      BY <2>2, <2>3
  <2>5. Chunk(k) = (k - 1) * size + 1 .. k * size
    BY DEF Chunk
  <2> HIDE DEF EndOf, size
  <2> QED
    BY <2>1, <2>4, <2>5
<1> QED
  BY <1>3, <1>4 DEF ChunksOf, SlicesOf

\* Where every ratio is defined, no two are equal and the slices are too, the two
\* estimators count the same splits and differ on the median of an odd number of
\* candidates alone: pbo_cscv and probability_of_backtest_overfitting.
THEOREM EstimatorsNeverDisagree == OverfittingSpec => []EstimatorsAgree
<1> DEFINE Inv == matrix = <<>> \/ Given
<1>1. OverfittingInit => Inv
  BY DEF OverfittingInit
<1>2. Inv /\ [Estimate]_matrix => Inv'
  BY DEF Estimate, Given
<1>3. Inv => EstimatorsAgree
  <2> SUFFICES ASSUME Given, SlicesAreEqual, NEW half \in Halves,
                      Clean(ChunksOf(half)), Clean(ChunksOf(Slices \ half))
               PROVE
                 LET best == BestOf(ChunksOf(half))
                     oos == ChunksOf(Slices \ half)
                     beating == {c \in Candidates : SharpeBelow(best, c, oos)}
                 IN  /\ CscvCounts(half) /\ SlicesCount(half)
                     /\ CscvOverfit(half) <=> 2 * Cardinality(beating) >= NumCandidates
                     /\ SlicesOverfit(half) <=> 2 * Cardinality(beating) >= NumCandidates - 1
                     /\ NumCandidates % 2 = 0 => (CscvOverfit(half) <=> SlicesOverfit(half))
    BY DEF EstimatorsAgree
  <2> DEFINE best == BestOf(ChunksOf(half))
             oos == ChunksOf(Slices \ half)
             beating == {c \in Candidates : SharpeBelow(best, c, oos)}
  <2>1. half \in SUBSET Slices /\ Slices \ half \in SUBSET Slices
    BY DEF Halves
  <2>2. /\ ChunksOf(half) \in SUBSET (1..NumObs) /\ SlicesOf(half) = ChunksOf(half)
        /\ oos \in SUBSET (1..NumObs) /\ SlicesOf(Slices \ half) = oos
    BY <2>1, ChunksWithin
  <2>3. best \in Candidates
    BY <2>2, BestExists
  <2>4. 1 \in Candidates /\ NumCandidates \in Nat
    BY OverfittingAssumption DEF Candidates
  <2>5. CscvCounts(half) /\ SlicesCount(half)
    BY <2>2, <2>3 DEF Clean, CscvCounts, SlicesCount, Evaluable
  <2>6. /\ Cardinality(beating) \in Nat
        /\ RankOf(best, oos) = NumCandidates - Cardinality(beating)
        /\ SliceRank(best, oos) = NumCandidates - Cardinality(beating)
    BY <2>2, <2>3, RankCounts
  <2>7. /\ CscvOverfit(half) <=> 2 * RankOf(best, oos) <= NumCandidates
        /\ SlicesOverfit(half) <=> 2 * SliceRank(best, oos) <= NumCandidates + 1
    BY <2>2 DEF CscvOverfit, CscvRank, SlicesOverfit
  <2> HIDE DEF best, oos, beating
  <2>8. /\ CscvOverfit(half) <=> 2 * Cardinality(beating) >= NumCandidates
        /\ SlicesOverfit(half) <=> 2 * Cardinality(beating) >= NumCandidates - 1
    BY <2>4, <2>6, <2>7
  <2>9. NumCandidates % 2 = 0 => (CscvOverfit(half) <=> SlicesOverfit(half))
    BY <2>4, <2>6, <2>8
  <2> QED
    BY <2>5, <2>8, <2>9 DEF best, oos, beating
<1> QED
  BY <1>1, <1>2, <1>3, PTL DEF OverfittingSpec
=============================================================================
