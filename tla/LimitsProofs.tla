---------------------------- MODULE LimitsProofs ----------------------------
(***************************************************************************)
(* What bounds new risk, for every value of the constants: that a sized    *)
(* order keeps every deterministic limit and is the largest that does,     *)
(* that an order sent fits a mandate and a drawdown limit that were in     *)
(* force, that caution never raises a limit, and that a replayed trade is  *)
(* one that could have been had.                                           *)
(***************************************************************************)
EXTENDS MCLimits, TLAPS

(* Arithmetic.                                                             *)

LEMMA ProductGrows ==
  ASSUME NEW a \in Nat, NEW b \in Nat, NEW c \in Nat, a <= b
  PROVE  a * c <= b * c
  BY SMT

LEMMA ProductNat ==
  ASSUME NEW a \in Nat, NEW b \in Nat
  PROVE  a * b \in Nat
  BY SMT

LEMMA ProductPositive ==
  ASSUME NEW a \in Positive, NEW b \in Positive
  PROVE  a * b \in Positive
  BY SMT DEF Positive

LEMMA Cancel ==
  ASSUME NEW a \in Nat, NEW b \in Nat, NEW c \in Positive, a * c <= b * c
  PROVE  a <= b
  BY SMT DEF Positive

(* A quotient bounds exactly the quantities whose product fits: what the   *)
(* floor to a step is for.                                                 *)
LEMMA StepsFit ==
  ASSUME NEW n \in Nat, NEW d \in Positive
  PROVE  /\ Steps(n, d) \in Nat
         /\ \A q \in Nat : q <= Steps(n, d) <=> q * d <= n
<1>1. n \div d \in Nat /\ (n \div d) * d <= n
  BY SMT DEF Positive
<1>2. ASSUME NEW q \in Nat, q <= n \div d PROVE q * d <= n
  <2>1. q * d <= (n \div d) * d
    BY <1>1, <1>2, ProductGrows DEF Positive
  <2> QED
    BY <1>1, <2>1, ProductNat, SMT DEF Positive
<1>3. ASSUME NEW q \in Nat, q * d <= n PROVE q <= n \div d
  BY <1>3, SMT DEF Positive
<1> QED
  BY <1>1, <1>2, <1>3 DEF Steps

-----------------------------------------------------------------------------
(* Types of what size computes.                                            *)

LEMMA Types ==
  ASSUME NEW i \in Opportunity, Directed(i)
  PROVE  /\ Leverage(i) \in Positive
         /\ Leverage(i) <= i.mandate \/ i.spot
         /\ LossPerUnit(i) \in Positive
         /\ RewardPerUnit(i) \in Nat
         /\ ConfidenceMultiplier(i) \in 1 .. 20 * Unit
         /\ CorrelationMultiplier(i) \in 1 .. 5 * Unit
         /\ Reserve(i) \in Nat
         /\ MarginBudget(i) \in Nat
         /\ RiskBudget(i) \in Nat
         /\ RiskBudgetUnit \in Positive
         /\ MarginBudgetUnit(i) \in Positive
<1> USE SizingAssumption
<1>1. Leverage(i) \in Positive /\ (Leverage(i) <= i.mandate \/ i.spot)
  BY DEF Leverage, Opportunity, Lesser, Positive
<1>2. CostPerUnit(i) \in Nat
  BY ProductNat DEF CostPerUnit, Opportunity, Positive
<1>3. Distance(i.entry, i.stop) \in Positive /\ Distance(i.target, i.entry) \in Positive
  BY DEF Distance, Directed, Opportunity, Positive
<1>4. /\ CostUnit * Distance(i.entry, i.stop) \in Positive
      /\ CostUnit * Distance(i.target, i.entry) \in Positive
  BY <1>3, ProductPositive
<1>5. LossPerUnit(i) \in Positive
  BY <1>2, <1>4, SMT DEF LossPerUnit, Positive
<1>6. RewardPerUnit(i) \in Nat
  BY <1>2, <1>4, SMT DEF RewardPerUnit, Greater, Positive
<1>7. ConfidenceMultiplier(i) \in 1 .. 20 * Unit
  BY SMT DEF ConfidenceMultiplier, Opportunity, Share, Positive
<1>8. CorrelationMultiplier(i) \in 1 .. 5 * Unit
  BY SMT DEF CorrelationMultiplier, Greater, Opportunity, Share, Positive
<1>9. Reserve(i) \in Nat
  BY SMT DEF Reserve, Greater, Opportunity, Share, Positive
<1>10. MarginBudget(i) \in Nat
  <2>1. Greater(4 * (i.equity - i.gross), i.equity) \in Nat
    BY SMT DEF Greater, Opportunity, Positive
  <2>2. 7 * i.balance \in Nat
    BY SMT DEF Opportunity
  <2> QED
    BY <2>1, <2>2, ProductNat DEF MarginBudget
<1>11. RiskBudget(i) \in Nat
  <2>1. i.equity * i.maxLoss \in Nat
    BY ProductNat DEF Opportunity, Positive
  <2>2. ConfidenceMultiplier(i) * CorrelationMultiplier(i) \in Nat
    BY <1>7, <1>8, ProductNat
  <2> QED
    BY <2>1, <2>2, ProductNat DEF RiskBudget
<1>12. RiskBudgetUnit \in Positive
  <2>1. 20 * Unit \in Positive /\ 5 * Unit \in Positive
    BY SMT DEF Positive
  <2> QED
    BY <2>1, ProductPositive DEF RiskBudgetUnit
<1>13. MarginBudgetUnit(i) \in Positive
  BY SMT DEF MarginBudgetUnit, Opportunity, Positive
<1> QED
  BY <1>1, <1>5, <1>6, <1>7, <1>8, <1>9, <1>10, <1>11, <1>12, <1>13

(* The quantity fits the four budgets, and so does nothing larger.         *)
LEMMA QuantityFits ==
  ASSUME NEW i \in Opportunity, Directed(i)
  PROVE  /\ Quantity(i) \in Nat
         /\ \A q \in Nat : q <= Quantity(i) <=> Affordable(i, q)
<1> USE SizingAssumption
<1> DEFINE N1 == RiskBudget(i) * CostUnit          D1 == RiskBudgetUnit * LossPerUnit(i)
           N2 == MarginBudget(i) * Leverage(i)     D2 == MarginBudgetUnit(i) * i.entry
           N3 == i.equity * i.strategyMax          D3 == Unit * i.entry
           N4 == Reserve(i)
<1>1. N1 \in Nat /\ N2 \in Nat /\ N3 \in Nat /\ N4 \in Nat
  BY Types, ProductNat DEF Opportunity, Share, Positive
<1>2. D1 \in Positive /\ D2 \in Positive /\ D3 \in Positive
  BY Types, ProductPositive DEF Opportunity
<1>3. /\ QuantityByRisk(i) \in Nat
      /\ \A q \in Nat : q <= QuantityByRisk(i) <=> q * D1 <= N1
  BY <1>1, <1>2, StepsFit DEF QuantityByRisk
<1>4. /\ QuantityByMargin(i) \in Nat
      /\ \A q \in Nat : q <= QuantityByMargin(i) <=> q * D2 <= N2
  BY <1>1, <1>2, StepsFit DEF QuantityByMargin
<1>5. /\ QuantityByStrategy(i) \in Nat
      /\ \A q \in Nat : q <= QuantityByStrategy(i) <=> q * D3 <= N3
  BY <1>1, <1>2, StepsFit DEF QuantityByStrategy
<1>6. /\ QuantityByReserve(i) \in Nat
      /\ \A q \in Nat : q <= QuantityByReserve(i) <=> q * D3 <= N4
  BY <1>1, <1>2, StepsFit DEF QuantityByReserve
<1>7. Quantity(i) \in Nat
  BY <1>3, <1>4, <1>5, <1>6 DEF Quantity, Lesser
<1>8. ASSUME NEW q \in Nat
      PROVE  q <= Quantity(i) <=>
               /\ q <= QuantityByRisk(i) /\ q <= QuantityByMargin(i)
               /\ q <= QuantityByStrategy(i) /\ q <= QuantityByReserve(i)
  BY <1>3, <1>4, <1>5, <1>6, SMT DEF Quantity, Lesser
<1>9. ASSUME NEW q \in Nat
      PROVE  q <= Quantity(i) <=> Affordable(i, q)
  BY <1>3, <1>4, <1>5, <1>6, <1>8 DEF Affordable
<1> QED
  BY <1>7, <1>9

-----------------------------------------------------------------------------
(* The limits.                                                             *)

(* The agents' confidence and the correlation only scale the risk budget   *)
(* down from what the mandate allows.                                      *)
LEMMA LossWithinMandate ==
  ASSUME NEW i \in Opportunity, Directed(i), NEW q \in Nat, Affordable(i, q)
  PROVE  q * LossPerUnit(i) * LossUnit <= i.equity * i.maxLoss * CostUnit
<1> USE SizingAssumption
<1> DEFINE a == q * LossPerUnit(i) * LossUnit
           b == i.equity * i.maxLoss * CostUnit
           x == (20 * Unit) * (5 * Unit)
           m == ConfidenceMultiplier(i) * CorrelationMultiplier(i)
<1>1. a \in Nat /\ b \in Nat
  <2>1. q * LossPerUnit(i) \in Nat /\ i.equity * i.maxLoss \in Nat
    BY Types, ProductNat DEF Opportunity, Positive
  <2> QED
    BY <2>1, ProductNat DEF Positive
<1>2. x \in Positive /\ m \in Nat /\ m <= x
  <2>1. /\ ConfidenceMultiplier(i) \in Nat /\ ConfidenceMultiplier(i) <= 20 * Unit
        /\ CorrelationMultiplier(i) \in Nat /\ CorrelationMultiplier(i) <= 5 * Unit
        /\ 20 * Unit \in Positive /\ 5 * Unit \in Positive
    BY Types, SMT DEF Positive
  <2>2. ConfidenceMultiplier(i) * CorrelationMultiplier(i) <= (20 * Unit) * CorrelationMultiplier(i)
    BY <2>1, ProductGrows DEF Positive
  <2>3. CorrelationMultiplier(i) * (20 * Unit) <= (5 * Unit) * (20 * Unit)
    BY <2>1, ProductGrows DEF Positive
  <2>4. x \in Positive /\ m \in Nat
    BY <2>1, ProductPositive, ProductNat
  <2> QED
    BY <2>1, <2>2, <2>3, <2>4, SMT DEF Positive
<1>3. a * x <= b * m
  <2>1. q * (RiskBudgetUnit * LossPerUnit(i)) <= RiskBudget(i) * CostUnit
    BY DEF Affordable
  <2>2. /\ LossPerUnit(i) \in Int /\ x \in Int /\ m \in Int /\ LossUnit \in Int
        /\ CostUnit \in Int /\ i.equity * i.maxLoss \in Int
    BY <1>2, Types, SMT DEF Positive, Opportunity
  <2>3. q * ((LossUnit * x) * LossPerUnit(i)) = a * x
    BY <2>2, SMT
  <2>4. ((i.equity * i.maxLoss) * m) * CostUnit = b * m
    BY <2>2, SMT
  <2> QED
    BY <2>1, <2>3, <2>4 DEF RiskBudgetUnit, RiskBudget
<1>4. b * m <= b * x
  <2>1. m * b <= x * b
    BY <1>1, <1>2, ProductGrows DEF Positive
  <2> QED
    BY <1>1, <1>2, <2>1, SMT DEF Positive
<1>5. a * x <= b * x
  BY <1>1, <1>2, <1>3, <1>4, SMT DEF Positive
<1> HIDE DEF a, b, x, m
<1>6. a <= b
  BY <1>1, <1>2, <1>5, Cancel
<1> QED
  BY <1>6 DEF a, b

(* What is already exposed only scales the margin budget down.             *)
LEMMA MarginWithinBalance ==
  ASSUME NEW i \in Opportunity, Directed(i), NEW q \in Nat, Affordable(i, q)
  PROVE  q * i.entry * 20 <= 7 * i.balance * Leverage(i)
<1> DEFINE a == q * i.entry * 20
           b == 7 * i.balance * Leverage(i)
           x == 4 * i.equity
           g == Greater(4 * (i.equity - i.gross), i.equity)
<1>1. a \in Nat /\ b \in Nat
  <2>1. q * i.entry \in Nat /\ i.balance * Leverage(i) \in Nat
    BY Types, ProductNat DEF Opportunity, Positive
  <2>2. b = 7 * (i.balance * Leverage(i))
    BY Types, SMT DEF Opportunity, Positive
  <2> QED
    BY <2>1, <2>2, SMT
<1>2. x \in Positive /\ g \in Nat /\ g <= x
  BY SMT DEF Greater, Opportunity, Positive
<1>3. a * x <= b * g
  <2>1. q * ((20 * x) * i.entry) <= ((7 * i.balance) * g) * Leverage(i)
    BY DEF Affordable, MarginBudget, MarginBudgetUnit
  <2>2. x \in Int /\ g \in Int /\ i.entry \in Int /\ i.balance \in Int /\ Leverage(i) \in Int
    BY <1>2, Types, SMT DEF Positive, Opportunity
  <2> HIDE DEF x, g
  <2>3. q * ((20 * x) * i.entry) = a * x
    BY <2>2, SMT
  <2>4. ((7 * i.balance) * g) * Leverage(i) = b * g
    BY <2>2, SMT
  <2> QED
    BY <2>1, <2>3, <2>4
<1> HIDE DEF a, b, x, g
<1>4. g * b <= x * b
  BY <1>1, <1>2, ProductGrows DEF Positive
<1>5. a * x <= b * x
  BY <1>1, <1>2, <1>3, <1>4, SMT DEF Positive
<1>6. a <= b
  BY <1>1, <1>2, <1>5, Cancel
<1> QED
  BY <1>6 DEF a, b

LEMMA ReserveKept ==
  ASSUME NEW i \in Opportunity, Directed(i), NEW q \in Positive, Affordable(i, q)
  PROVE  (i.gross + q * i.entry) * Unit <= i.equity * (Unit - i.reserve)
<1> USE SizingAssumption
<1>1. q * (Unit * i.entry) <= Reserve(i)
  BY DEF Affordable
<1>2. q * (Unit * i.entry) \in Positive
  BY ProductPositive DEF Opportunity
<1>3. Reserve(i) = i.equity * (Unit - i.reserve) - i.gross * Unit
  BY <1>1, <1>2, SMT DEF Reserve, Greater, Opportunity, Share, Positive
<1>4. (i.gross + q * i.entry) * Unit = i.gross * Unit + q * (Unit * i.entry)
  BY SMT DEF Opportunity, Positive
<1>5. /\ i.gross * Unit \in Int /\ i.equity * (Unit - i.reserve) \in Int
      /\ q * (Unit * i.entry) \in Int
  BY <1>2, SMT DEF Opportunity, Share, Positive
<1> QED
  BY <1>1, <1>3, <1>4, <1>5, SMT

-----------------------------------------------------------------------------
(* What size answers.                                                      *)

(* The verdict tells the quantity; the last check never rejects, because   *)
(* what fits after the rounding is within both budgets.                    *)
LEMMA Answer ==
  ASSUME NEW i \in Opportunity, Directed(i)
  PROVE  /\ Size(i) \in Sizing
         /\ Size(i).verdict \in {"sized", "reward_to_risk", "unfunded", "minimum"}
         /\ Size(i).verdict = "reward_to_risk" <=> PoorReward(i)
         /\ Size(i).verdict = "sized" <=>
              ~PoorReward(i) /\ Quantity(i) > 0 /\ ~BelowMinimum(i, Quantity(i))
         /\ Size(i).verdict = "sized" =>
              Size(i).quantity = Quantity(i) /\ Size(i).leverage = Leverage(i)
         /\ Size(i).verdict = "unfunded" => Quantity(i) = 0
         /\ Size(i).verdict = "minimum" => BelowMinimum(i, Quantity(i))
<1> USE SizingAssumption
<1> DEFINE q == Quantity(i)
<1>1. q \in Nat /\ Affordable(i, q)
  BY QuantityFits
<1>2. Leverage(i) \in Nat
  BY Types DEF Positive
<1>3. ~OverBudget(i, q)
  <2>1. /\ q * (RiskBudgetUnit * LossPerUnit(i)) <= RiskBudget(i) * CostUnit
        /\ q * (MarginBudgetUnit(i) * i.entry) <= MarginBudget(i) * Leverage(i)
    BY <1>1 DEF Affordable
  <2>2. /\ RiskBudgetUnit \in Int /\ LossPerUnit(i) \in Int /\ MarginBudgetUnit(i) \in Int
        /\ i.entry \in Int /\ q \in Int
        /\ RiskBudget(i) * CostUnit \in Int /\ MarginBudget(i) * Leverage(i) \in Int
    BY <1>1, Types, SMT DEF Positive, Opportunity
  <2>3. /\ q * (RiskBudgetUnit * LossPerUnit(i)) = q * LossPerUnit(i) * RiskBudgetUnit
        /\ q * (MarginBudgetUnit(i) * i.entry) = q * i.entry * MarginBudgetUnit(i)
    BY <2>2, SMT
  <2>4. /\ q * LossPerUnit(i) * RiskBudgetUnit \in Int
        /\ q * i.entry * MarginBudgetUnit(i) \in Int
    BY <2>2, SMT
  <2> QED
    BY <2>1, <2>2, <2>3, <2>4, SMT DEF OverBudget
<1> HIDE DEF q
<1>4. CASE PoorReward(i)
  <2>1. Size(i) = Rejected("reward_to_risk")
    BY <1>4, Zenon DEF Size, q
  <2> QED
    BY <1>4, <2>1 DEF Rejected, Sizing, Verdict
<1>5. CASE ~PoorReward(i) /\ q <= 0
  <2>1. q = 0 /\ ~(q > 0)
    BY <1>1, <1>5
  <2>2. Size(i) = Rejected("unfunded")
    BY <1>5, <2>1, Zenon DEF Size, q
  <2> QED
    BY <1>5, <2>1, <2>2 DEF Rejected, Sizing, Verdict, q
<1>6. CASE ~PoorReward(i) /\ q > 0 /\ BelowMinimum(i, q)
  <2>1. ~(q <= 0)
    BY <1>1, <1>6
  <2>2. Size(i) = Rejected("minimum")
    BY <1>6, <2>1, Zenon DEF Size, q
  <2> QED
    BY <1>6, <2>2 DEF Rejected, Sizing, Verdict, q
<1>7. CASE ~PoorReward(i) /\ q > 0 /\ ~BelowMinimum(i, q)
  <2>1. ~(q <= 0)
    BY <1>1, <1>7
  <2>2. Size(i) = [verdict |-> "sized", quantity |-> q, leverage |-> Leverage(i)]
    BY <1>3, <1>7, <2>1, Zenon DEF Size, q
  <2> QED
    BY <1>1, <1>2, <1>7, <2>2 DEF Sizing, Verdict, q
<1> QED
  BY <1>1, <1>4, <1>5, <1>6, <1>7

(* Less caution: the same opportunity with a more confident opinion that   *)
(* asks for more, on a less correlated portfolio.                          *)
Bolder(i, c, k, a) == [i EXCEPT !.confidence = c, !.correlated = k, !.asked = a]

LEMMA BolderAffordsMore ==
  ASSUME NEW i \in Opportunity, Directed(i),
         NEW c \in i.confidence .. Unit, NEW k \in 0 .. i.correlated, NEW a \in i.asked .. Platform
  PROVE  LET j == Bolder(i, c, k, a)
         IN  /\ j \in Opportunity /\ Directed(j)
             /\ PoorReward(j) <=> PoorReward(i)
             /\ \A q \in Nat : /\ BelowMinimum(j, q) <=> BelowMinimum(i, q)
                               /\ Affordable(i, q) => Affordable(j, q)
<1> USE SizingAssumption
<1> DEFINE j == Bolder(i, c, k, a)
<1>1. j \in Opportunity
  <2>1. c \in Share /\ k \in Share /\ a \in Positive
    BY SMT DEF Opportunity, Share, Positive
  <2> QED
    BY <2>1 DEF Bolder, Opportunity
<1>2. /\ j.spot = i.spot /\ j.entry = i.entry /\ j.stop = i.stop /\ j.target = i.target
      /\ j.equity = i.equity /\ j.balance = i.balance /\ j.gross = i.gross
      /\ j.strategyMax = i.strategyMax /\ j.reserve = i.reserve /\ j.maxLoss = i.maxLoss
      /\ j.mandate = i.mandate /\ j.venue = i.venue /\ j.cost = i.cost
      /\ j.minQuantity = i.minQuantity /\ j.minNotional = i.minNotional
      /\ j.confidence = c /\ j.correlated = k /\ j.asked = a
  BY DEF Bolder, Opportunity
<1> HIDE DEF j
<1>3. Directed(j)
  BY <1>2 DEF Directed
<1>4. /\ LossPerUnit(j) = LossPerUnit(i) /\ RewardPerUnit(j) = RewardPerUnit(i)
      /\ Reserve(j) = Reserve(i) /\ MarginBudget(j) = MarginBudget(i)
      /\ MarginBudgetUnit(j) = MarginBudgetUnit(i)
  BY <1>2 DEF LossPerUnit, RewardPerUnit, CostPerUnit, Reserve, MarginBudget, MarginBudgetUnit
<1>5. PoorReward(j) <=> PoorReward(i)
  BY <1>4 DEF PoorReward
<1>6. ASSUME NEW q \in Nat PROVE BelowMinimum(j, q) <=> BelowMinimum(i, q)
  BY <1>2 DEF BelowMinimum
<1>7. RiskBudget(i) * CostUnit <= RiskBudget(j) * CostUnit
  <2>1. /\ ConfidenceMultiplier(i) \in Nat /\ ConfidenceMultiplier(j) \in Nat
        /\ CorrelationMultiplier(i) \in Nat /\ CorrelationMultiplier(j) \in Nat
        /\ RiskBudget(i) \in Nat /\ RiskBudget(j) \in Nat
    BY <1>1, <1>3, Types DEF Positive
  <2>2. ConfidenceMultiplier(i) <= ConfidenceMultiplier(j)
    BY <1>2, SMT DEF ConfidenceMultiplier, Opportunity, Share, Positive
  <2>3. CorrelationMultiplier(i) <= CorrelationMultiplier(j)
    BY <1>2, SMT DEF CorrelationMultiplier, Greater, Opportunity, Share, Positive
  <2>4. ConfidenceMultiplier(i) * CorrelationMultiplier(i)
          <= ConfidenceMultiplier(j) * CorrelationMultiplier(i)
    BY <2>1, <2>2, ProductGrows
  <2>5. CorrelationMultiplier(i) * ConfidenceMultiplier(j)
          <= CorrelationMultiplier(j) * ConfidenceMultiplier(j)
    BY <2>1, <2>3, ProductGrows
  <2> DEFINE x == ConfidenceMultiplier(i) * CorrelationMultiplier(i)
             y == ConfidenceMultiplier(j) * CorrelationMultiplier(j)
             e == i.equity * i.maxLoss
  <2>6. x \in Nat /\ y \in Nat /\ x <= y /\ e \in Nat
    <3>1. x \in Nat /\ y \in Nat /\ e \in Nat
      BY <2>1, ProductNat DEF Opportunity, Positive
    <3> QED
      BY <2>1, <2>4, <2>5, <3>1, SMT
  <2>7. RiskBudget(i) = e * x /\ RiskBudget(j) = e * y
    BY <1>2 DEF RiskBudget
  <2> HIDE DEF x, y, e
  <2>8. x * e <= y * e
    BY <2>6, ProductGrows
  <2>9. RiskBudget(i) <= RiskBudget(j)
    BY <2>6, <2>7, <2>8, SMT
  <2> QED
    BY <2>1, <2>9, ProductGrows DEF Positive
<1>8. MarginBudget(i) * Leverage(i) <= MarginBudget(j) * Leverage(j)
  <2>1. /\ Leverage(i) \in Nat /\ Leverage(j) \in Nat /\ MarginBudget(i) \in Nat
    BY <1>1, <1>3, Types DEF Positive
  <2>2. Leverage(i) <= Leverage(j)
    BY <1>2, SMT DEF Leverage, Lesser, Opportunity, Positive
  <2>3. Leverage(i) * MarginBudget(i) <= Leverage(j) * MarginBudget(i)
    BY <2>1, <2>2, ProductGrows
  <2> QED
    BY <1>4, <2>1, <2>3, SMT
<1>9. ASSUME NEW q \in Nat, Affordable(i, q) PROVE Affordable(j, q)
  <2>1. /\ RiskBudget(i) * CostUnit \in Int /\ RiskBudget(j) * CostUnit \in Int
        /\ MarginBudget(i) * Leverage(i) \in Int /\ MarginBudget(j) * Leverage(j) \in Int
    BY <1>1, <1>3, Types, SMT DEF Positive
  <2>2. q * (RiskBudgetUnit * LossPerUnit(i)) \in Int /\ q * (MarginBudgetUnit(i) * i.entry) \in Int
    <3>1. /\ RiskBudgetUnit * LossPerUnit(i) \in Positive
          /\ MarginBudgetUnit(i) * i.entry \in Positive
      BY Types, ProductPositive DEF Opportunity
    <3> QED
      BY <3>1, ProductNat DEF Positive
  <2>3. q * (RiskBudgetUnit * LossPerUnit(i)) <= RiskBudget(j) * CostUnit
    BY <1>7, <1>9, <2>1, <2>2, SMT DEF Affordable
  <2>4. q * (MarginBudgetUnit(i) * i.entry) <= MarginBudget(j) * Leverage(j)
    BY <1>8, <1>9, <2>1, <2>2, SMT DEF Affordable
  <2> QED
    BY <1>2, <1>4, <1>9, <2>3, <2>4 DEF Affordable
<1> QED
  BY <1>1, <1>3, <1>5, <1>6, <1>9 DEF j

-----------------------------------------------------------------------------
(* The theorems.                                                           *)

IndInv ==
  /\ opportunity \in Opportunities
  /\ sizing = Rejected("pending") \/ sizing = Size(opportunity)

LEMMA OpportunityTyped ==
  ASSUME IndInv
  PROVE  opportunity \in Opportunity /\ Directed(opportunity)
  BY SizingAssumption DEF IndInv

THEOREM Invariance == Spec => []IndInv
<1>1. Init => IndInv
  BY DEF Init, IndInv
<1>2. IndInv /\ [Next]_vars => IndInv'
  BY DEF IndInv, Next, SizeOpportunity, vars
<1> QED
  BY <1>1, <1>2, PTL DEF Spec

(* Every answer has its type; a sized order has a quantity, and a leverage *)
(* the platform allows.                                                    *)
THEOREM TypeCorrect == Spec => []TypeOK
<1>1. IndInv => TypeOK
  <2> SUFFICES ASSUME IndInv PROVE TypeOK
    OBVIOUS
  <2>1. opportunity \in Opportunity /\ Directed(opportunity)
    BY OpportunityTyped
  <2>2. CASE sizing = Rejected("pending")
    BY <2>1, <2>2 DEF TypeOK, Rejected, Sizing, Verdict
  <2>3. CASE sizing = Size(opportunity)
    <3>1. Leverage(opportunity) \in 1 .. Platform
      BY <2>1, SizingAssumption, SMT DEF Leverage, Lesser, Opportunity, Positive
    <3>2. sizing \in Sizing
      BY <2>1, <2>3, Answer
    <3>3. sizing.verdict = "sized" => sizing.quantity > 0 /\ sizing.leverage \in 1 .. Platform
      BY <2>1, <2>3, <3>1, Answer
    <3> QED
      BY <2>1, <3>2, <3>3 DEF TypeOK
  <2> QED
    BY <2>2, <2>3 DEF IndInv
<1> QED
  BY <1>1, Invariance, PTL

(* Nothing the agents say, and no rounding, lets a sized order exceed a    *)
(* leverage ceiling, the mandate's loss, the margin, the strategy's cap or *)
(* the reserve.                                                            *)
THEOREM SizedWithinLimits == Spec => []LimitsHold
<1>1. IndInv => LimitsHold
  <2> SUFFICES ASSUME IndInv, sizing.verdict = "sized"
               PROVE  WithinLimits(opportunity, sizing.quantity, sizing.leverage)
    BY DEF LimitsHold
  <2> DEFINE i == opportunity
             q == sizing.quantity
  <2>1. i \in Opportunity /\ Directed(i)
    BY OpportunityTyped
  <2>2. sizing = Size(i)
    BY DEF IndInv, Rejected
  <2>3. q = Quantity(i) /\ q > 0 /\ sizing.leverage = Leverage(i)
    BY <2>1, <2>2, Answer
  <2>4. q \in Positive /\ Affordable(i, q)
    BY <2>1, <2>3, QuantityFits, SMT DEF Positive
  <2>5. /\ Leverage(i) <= i.mandate /\ Leverage(i) <= i.venue /\ Leverage(i) <= Platform
        /\ i.spot => Leverage(i) = 1
    BY <2>1, SizingAssumption, SMT DEF Leverage, Lesser, Opportunity, Positive
  <2>6. q * LossPerUnit(i) * LossUnit <= i.equity * i.maxLoss * CostUnit
    BY <2>1, <2>4, LossWithinMandate DEF Positive
  <2>7. q * i.entry * 20 <= 7 * i.balance * Leverage(i)
    BY <2>1, <2>4, MarginWithinBalance DEF Positive
  <2>8. q * i.entry * Unit <= i.equity * i.strategyMax
    <3>1. q * (Unit * i.entry) <= i.equity * i.strategyMax
      BY <2>4 DEF Affordable
    <3>2. q * (Unit * i.entry) = q * i.entry * Unit
      BY <2>1, <2>4, SizingAssumption, SMT DEF Opportunity, Positive
    <3> QED
      BY <3>1, <3>2
  <2>9. (i.gross + q * i.entry) * Unit <= i.equity * (Unit - i.reserve)
    BY <2>1, <2>4, ReserveKept
  <2> QED
    BY <2>3, <2>5, <2>6, <2>7, <2>8, <2>9 DEF WithinLimits
<1> QED
  BY <1>1, Invariance, PTL

(* The rounding loses nothing: no larger quantity would have been          *)
(* affordable, and what is refused for its budgets or for the minimum had  *)
(* no acceptable quantity.                                                 *)
THEOREM SizedIsLargest == Spec => []LargestAffordable
<1>1. IndInv => LargestAffordable
  <2> SUFFICES ASSUME IndInv PROVE LargestAffordable
    OBVIOUS
  <2> DEFINE i == opportunity
  <2>1. i \in Opportunity /\ Directed(i)
    BY OpportunityTyped
  <2>2. CASE sizing = Rejected("pending")
    BY <2>2 DEF LargestAffordable, Rejected
  <2>3. CASE sizing = Size(i)
    <3>1. /\ Quantity(i) \in Nat
          /\ \A n \in Nat : n <= Quantity(i) <=> Affordable(i, n)
      BY <2>1, QuantityFits
    <3>2. Candidates(i) \subseteq Nat
      BY <2>1, SMT DEF Candidates, Opportunity, Positive
    <3>3. ASSUME sizing.verdict = "sized"
          PROVE  /\ Affordable(i, sizing.quantity)
                 /\ \A n \in Candidates(i) : Affordable(i, n) => n <= sizing.quantity
      <4>1. sizing.quantity = Quantity(i)
        BY <2>1, <2>3, <3>3, Answer
      <4>2. Affordable(i, Quantity(i))
        BY <3>1
      <4> QED
        BY <3>1, <3>2, <4>1, <4>2
    <3>4. ASSUME sizing.verdict \in {"unfunded", "minimum", "over_budget"},
                 NEW n \in Candidates(i), n > 0, Affordable(i, n)
          PROVE  BelowMinimum(i, n)
      <4>1. n \in Nat /\ n <= Quantity(i)
        BY <3>1, <3>2, <3>4
      <4>2. BelowMinimum(i, Quantity(i))
        BY <2>1, <2>3, <3>1, <3>4, <4>1, Answer, SMT
      <4>3. n * i.entry <= Quantity(i) * i.entry
        BY <2>1, <3>1, <4>1, ProductGrows DEF Opportunity, Positive
      <4>4. n * i.entry \in Nat /\ Quantity(i) * i.entry \in Nat
        BY <2>1, <3>1, <4>1, ProductNat DEF Opportunity, Positive
      <4> QED
        BY <2>1, <3>1, <4>1, <4>2, <4>3, <4>4, SMT DEF BelowMinimum, Opportunity
    <3> QED
      BY <3>3, <3>4 DEF LargestAffordable
  <2> QED
    BY <2>2, <2>3 DEF IndInv
<1> QED
  BY <1>1, Invariance, PTL

(* Whatever is sized under more caution is sized under less, and no        *)
(* smaller.                                                                *)
THEOREM CautionReduces == Spec => []CautionOnlyReduces
<1>1. IndInv => CautionOnlyReduces
  <2> SUFFICES ASSUME IndInv, sizing.verdict = "sized",
                      NEW c \in opportunity.confidence .. Unit,
                      NEW k \in 0 .. opportunity.correlated,
                      NEW a \in opportunity.asked .. Platform
               PROVE  /\ Size(Bolder(opportunity, c, k, a)).verdict = "sized"
                      /\ Size(Bolder(opportunity, c, k, a)).quantity >= sizing.quantity
    BY DEF CautionOnlyReduces, Bolder
  <2> DEFINE i == opportunity
             j == Bolder(i, c, k, a)
  <2>1. i \in Opportunity /\ Directed(i)
    BY OpportunityTyped
  <2>2. sizing = Size(i)
    BY DEF IndInv, Rejected
  <2>3. /\ ~PoorReward(i) /\ Quantity(i) > 0 /\ ~BelowMinimum(i, Quantity(i))
        /\ sizing.quantity = Quantity(i)
    BY <2>1, <2>2, Answer
  <2>4. /\ j \in Opportunity /\ Directed(j)
        /\ PoorReward(j) <=> PoorReward(i)
        /\ \A q \in Nat : /\ BelowMinimum(j, q) <=> BelowMinimum(i, q)
                          /\ Affordable(i, q) => Affordable(j, q)
    BY <2>1, BolderAffordsMore
  <2> HIDE DEF j
  <2>5. /\ Quantity(i) \in Nat /\ Quantity(j) \in Nat
        /\ Affordable(i, Quantity(i))
        /\ \A q \in Nat : Affordable(j, q) => q <= Quantity(j)
    BY <2>1, <2>4, QuantityFits
  <2>6. Quantity(i) <= Quantity(j)
    BY <2>4, <2>5
  <2>7. ~BelowMinimum(j, Quantity(j))
    <3>1. Quantity(i) * j.entry <= Quantity(j) * j.entry
      BY <2>4, <2>5, <2>6, ProductGrows DEF Opportunity, Positive
    <3>2. Quantity(i) * j.entry \in Nat /\ Quantity(j) * j.entry \in Nat
      BY <2>4, <2>5, ProductNat DEF Opportunity, Positive
    <3>3. ~BelowMinimum(j, Quantity(i))
      BY <2>3, <2>4, <2>5
    <3> QED
      BY <2>4, <2>5, <2>6, <3>1, <3>2, <3>3, SMT DEF BelowMinimum, Opportunity
  <2>8. Quantity(j) > 0 /\ ~PoorReward(j)
    BY <2>3, <2>4, <2>5, <2>6, SMT
  <2> QED
    BY <2>3, <2>4, <2>5, <2>6, <2>7, <2>8, Answer, SMT DEF j
<1> QED
  BY <1>1, Invariance, PTL

-----------------------------------------------------------------------------
(***************************************************************************)
(* The mandate. A submission that is under way has an offer, its own; what *)
(* is in force is seen; and each check leaves behind what it established.  *)

Checking == {"profile", "limit", "equity", "connection", "context", "broker", "begin"}
Placing  == {"place", "sent"}

OffersMatch ==
  /\ draft.at # "idle" => draft.account \in Accounts /\ offer.status = "absent"
  /\ offer.status # "absent" => offer.account \in Accounts
  /\ call.at \in Checking => offer.status \in {"available", "invalidated"}
  /\ call.at \in Placing => offer.status = "submitted"
  /\ call.at # "idle" =>
       /\ call.at \in Checking \cup Placing
       /\ call.account = offer.account
       /\ call.terms = offer.terms

Noticed(now) == \A k \in {"profiles", "limits", "none"} : now[k] \subseteq seen[k]

InForceSeen ==
  call.at \notin {"idle", "sent"} => Noticed(InForce(profile, context, equity[call.account]))

ChecksHeld ==
  /\ call.at \in (Checking \cup Placing) \ {"profile"} =>
       call.profile \in seen.profiles /\ call.profile.accepted
  /\ call.at \in (Checking \cup Placing) \ {"profile", "limit"} => call.gate \in seen.profiles
  /\ call.at \in {"context", "broker", "begin"} \cup Placing => Fits(call)
  /\ call.at \in {"begin"} \cup Placing => \E e \in Equities : LossFits(call, e)

Withdrawn == offer.status = "invalidated" \/ context # call.account

GateHeld ==
  /\ call.at \in {"connection", "context", "broker", "begin"} /\ seen.none = {} =>
       Mandate(call.gate).drawdown \in seen.limits \/ Withdrawn
  /\ call.at \in Placing /\ seen.none = {} => Mandate(call.gate).drawdown \in seen.limits

MandateInv ==
  MandateTypeOK /\ OffersMatch /\ InForceSeen /\ ChecksHeld /\ GateHeld

(* A record of three sets, when it is written field by field.              *)
LEMMA WatchSeen ==
  ASSUME MandateTypeOK, Watch, call' = call
  PROVE  LET now == InForce(profile', context', equity'[call.account])
         IN  seen' = IF call.at \in {"idle", "sent"} THEN seen
                     ELSE [profiles |-> seen.profiles \cup now.profiles,
                           limits |-> seen.limits \cup now.limits,
                           none |-> seen.none \cup now.none]
PROOF
<1> DEFINE now == InForce(profile', context', equity'[call.account])
<1>1. DOMAIN seen = {"profiles", "limits", "none"}
  BY DEF MandateTypeOK
<1>2. CASE call.at \in {"idle", "sent"}
  BY <1>2 DEF Watch
<1>3. CASE call.at \notin {"idle", "sent"}
  <2>1. seen' = [k \in {"profiles", "limits", "none"} |-> seen[k] \cup now[k]]
    BY <1>1, <1>3 DEF Watch
  <2> HIDE DEF now
  <2>2. seen' = [profiles |-> seen.profiles \cup now.profiles,
                 limits |-> seen.limits \cup now.limits,
                 none |-> seen.none \cup now.none]
    BY <2>1
  <2> QED
    BY <1>3, <2>2 DEF now
<1> QED
  BY <1>2, <1>3

LEMMA InForceTyped ==
  ASSUME NEW p \in Profiles \cup {None}, NEW c \in Accounts \cup {None}, NEW s
  PROVE  InForce(p, c, s) \in [profiles : SUBSET Profiles, limits : SUBSET Limits, none : SUBSET {None}]
PROOF BY DEF InForce

(* What an action of the environment leaves in force is noticed, and what  *)
(* was noticed stays so.                                                   *)
LEMMA WatchNotices ==
  ASSUME MandateTypeOK, Watch, call' = call, InForceSeen,
         profile' \in Profiles \cup {None}, context' \in Accounts \cup {None}
  PROVE  /\ seen' \in [profiles : SUBSET Profiles, limits : SUBSET Limits, none : SUBSET {None}]
         /\ \A k \in {"profiles", "limits", "none"} : seen[k] \subseteq seen'[k]
         /\ InForceSeen'
PROOF
<1> DEFINE now == InForce(profile', context', equity'[call.account])
<1>1. now \in [profiles : SUBSET Profiles, limits : SUBSET Limits, none : SUBSET {None}]
  BY InForceTyped
<1>2. seen \in [profiles : SUBSET Profiles, limits : SUBSET Limits, none : SUBSET {None}]
  BY DEF MandateTypeOK
<1>3. seen' = IF call.at \in {"idle", "sent"} THEN seen
              ELSE [profiles |-> seen.profiles \cup now.profiles,
                    limits |-> seen.limits \cup now.limits,
                    none |-> seen.none \cup now.none]
  BY WatchSeen
<1>4. InForceSeen' <=> (call.at \notin {"idle", "sent"} =>
                         \A k \in {"profiles", "limits", "none"} : now[k] \subseteq seen'[k])
  BY DEF InForceSeen, Noticed
<1> HIDE DEF now
<1> QED
  BY <1>1, <1>2, <1>3, <1>4

LEMMA InvalidatedOffer ==
  ASSUME offer \in Offer, NEW o \in {offer, Invalidated}
  PROVE  /\ o \in Offer
         /\ o.account = offer.account /\ o.terms = offer.terms
         /\ o.status = offer.status \/ (offer.status = "available" /\ o.status = "invalidated")
         /\ o = Invalidated => o.status # "available"
PROOF
<1>1. CASE o = offer
  BY <1>1 DEF Invalidated, Offer
<1>2. CASE o = Invalidated
  BY <1>2 DEF Invalidated, Offer
<1> QED
  BY <1>1, <1>2

(* The investor, the accounts and the clock: they change no handler, they  *)
(* only withdraw offers, and an account becomes the active one only where  *)
(* there was none or with every offer withdrawn.                           *)
LEMMA EnvironmentKeeps ==
  ASSUME MandateInv, Watch, call' = call, draft' = draft,
         profile' \in Profiles \cup {None}, context' \in Accounts \cup {None},
         live' \subseteq Accounts, equity' \in [Accounts -> Snapshot \cup {None}],
         offer' \in {offer, Invalidated},
         context' \in {context, None} \/ context = None \/ offer' = Invalidated
  PROVE  MandateInv'
PROOF
<1>1. /\ seen' \in [profiles : SUBSET Profiles, limits : SUBSET Limits, none : SUBSET {None}]
      /\ \A k \in {"profiles", "limits", "none"} : seen[k] \subseteq seen'[k]
      /\ InForceSeen'
  BY WatchNotices DEF MandateInv, MandateTypeOK
<1>2. /\ offer' \in Offer
      /\ offer'.account = offer.account /\ offer'.terms = offer.terms
      /\ offer'.status = offer.status \/ (offer.status = "available" /\ offer'.status = "invalidated")
      /\ offer' = Invalidated => offer'.status # "available"
  BY InvalidatedOffer DEF MandateInv, MandateTypeOK
<1>3. MandateTypeOK'
  BY <1>1, <1>2 DEF MandateInv, MandateTypeOK
<1>4. OffersMatch'
  BY <1>2 DEF MandateInv, OffersMatch, Checking, Placing
<1>5. ChecksHeld'
  BY <1>1 DEF MandateInv, ChecksHeld, Fits, LossFits
<1>6. GateHeld'
  <2>1. ASSUME call.at \in Checking, seen'.none = {}, Withdrawn
        PROVE  Withdrawn'
    <3>1. context # None
      <4>1. None \in seen.none \/ context # None
        BY <2>1, MandateAssumption DEF MandateInv, InForceSeen, Noticed, InForce, Checking
      <4> QED
        BY <4>1, <1>1, <2>1
    <3>2. offer.status \in {"available", "invalidated"} /\ call.account \in Accounts
      BY <2>1 DEF MandateInv, OffersMatch, Checking
    <3>3. context' \in {context, None} \/ offer'.status = "invalidated"
      BY <3>1, <3>2, <1>2
    <3> QED
      BY <2>1, <3>2, <3>3, <1>2, MandateAssumption DEF Withdrawn
  <2>2. ASSUME call.at \in {"connection", "context", "broker", "begin"}, seen'.none = {}
        PROVE  Mandate(call.gate).drawdown \in seen'.limits \/ Withdrawn'
    BY <2>1, <2>2, <1>1 DEF MandateInv, GateHeld, Checking
  <2>3. ASSUME call.at \in Placing, seen'.none = {}
        PROVE  Mandate(call.gate).drawdown \in seen'.limits
    BY <2>3, <1>1 DEF MandateInv, GateHeld
  <2> QED
    BY <2>2, <2>3 DEF GateHeld
<1> QED
  BY <1>1, <1>3, <1>4, <1>5, <1>6 DEF MandateInv

LEMMA EnvironmentStep ==
  ASSUME MandateInv,
         \/ \E p \in Profiles : SaveProfile(p)
         \/ \E a \in Accounts : Switch(a) \/ Revoke(a) \/ Sync(a)
         \/ TimePasses
  PROVE  MandateInv'
PROOF
<1> USE DEF MandateInv, MandateTypeOK
<1>1. ASSUME NEW p \in Profiles, SaveProfile(p)
      PROVE  MandateInv'
  BY <1>1, EnvironmentKeeps DEF SaveProfile
<1>2. ASSUME NEW a \in Accounts, Switch(a)
      PROVE  MandateInv'
  BY <1>2, EnvironmentKeeps DEF Switch
<1>3. ASSUME NEW a \in Accounts, Revoke(a)
      PROVE  MandateInv'
  BY <1>3, EnvironmentKeeps DEF Revoke
<1>4. ASSUME NEW a \in Accounts, Sync(a)
      PROVE  MandateInv'
  <2>1. PICK e \in Equities :
          equity' = [equity EXCEPT ![a] = [high |-> Higher(e, equity[a]), current |-> e, age |-> 0]]
    BY <1>4 DEF Sync
  <2>2. Higher(e, equity[a]) \in Equities
    BY DEF Higher, Snapshot
  <2>3. [high |-> Higher(e, equity[a]), current |-> e, age |-> 0] \in Snapshot
    BY <2>2, MandateAssumption DEF Snapshot
  <2>4. equity' \in [Accounts -> Snapshot \cup {None}]
    BY <2>1, <2>3
  <2> QED
    BY <1>4, <2>4, EnvironmentKeeps DEF Sync
<1>5. CASE TimePasses
  <2>1. \A s \in Snapshot \cup {None} : Aged(s) \in Snapshot \cup {None}
    BY MandateAssumption DEF Aged, Snapshot
  <2>2. equity' \in [Accounts -> Snapshot \cup {None}]
    BY <1>5, <2>1 DEF TimePasses
  <2> QED
    BY <1>5, <2>2, EnvironmentKeeps DEF TimePasses
<1> QED
  BY <1>1, <1>2, <1>3, <1>4, <1>5

(* A handler that passes a check moves on, and keeps what it is about.     *)
LEMMA CheckStays ==
  ASSUME NEW h \in Handler, NEW n, NEW next, Check(h, n, next),
         profile \in Profiles \cup {None}, next \in {"portfolio", "broker"}
  PROVE  /\ n \in Handler
         /\ n.account = h.account /\ n.terms = h.terms
         /\ h.at \in {"profile", "limit", "equity", "connection", "context"}
         /\ n.at = CASE h.at = "profile" -> "limit" [] h.at = "limit" -> "equity"
                      [] h.at = "equity" -> "connection" [] h.at = "connection" -> "context"
                      [] h.at = "context" -> next
         /\ IF h.at = "profile" THEN Accepted /\ n.profile = profile ELSE n.profile = h.profile
         /\ IF h.at = "limit" THEN profile # None /\ n.gate = profile ELSE n.gate = h.gate
PROOF
<1>1. CASE CheckProfile(h, n)
  BY <1>1 DEF CheckProfile, Handler, Accepted
<1>2. CASE CheckLimit(h, n)
  BY <1>2 DEF CheckLimit, Handler
<1>3. CASE CheckEquity(h, n)
  BY <1>3 DEF CheckEquity, Handler
<1>4. CASE CheckConnection(h, n)
  BY <1>4 DEF CheckConnection, Handler
<1>5. CASE CheckContext(h, next, n)
  BY <1>5 DEF CheckContext, Handler
<1> QED
  BY <1>1, <1>2, <1>3, <1>4, <1>5 DEF Check

(* Creating the offer: no submission is under way before it is stored.     *)
LEMMA DraftStep ==
  ASSUME MandateInv,
         (\E a \in Accounts, t \in Terms : StartDraft(a, t)) \/ Draft \/ Insert \/ DropDraft
  PROVE  MandateInv'
PROOF
<1> USE DEF MandateInv
<1>1. ASSUME draft' \in Handler, draft'.at # "idle" => draft'.account \in Accounts /\ offer.status = "absent",
             UNCHANGED <<profile, context, live, equity, offer, call, seen>>
      PROVE  MandateInv'
  BY <1>1 DEF MandateTypeOK, OffersMatch, InForceSeen, Noticed, ChecksHeld, GateHeld, Withdrawn, Fits, LossFits
<1>2. Resting \in Handler /\ Resting.at = "idle"
  BY DEF Resting, Handler
<1>3. ASSUME NEW a \in Accounts, NEW t \in Terms, StartDraft(a, t)
      PROVE  MandateInv'
  <2>1. draft' \in Handler /\ draft'.account = a
    BY <1>2, <1>3 DEF StartDraft, Resting, Handler
  <2> QED
    BY <1>1, <1>3, <2>1 DEF StartDraft
<1>4. CASE Draft
  <2>1. CASE Check(draft, draft', "portfolio")
    <3>1. draft' \in Handler /\ draft'.account = draft.account /\ draft.at # "idle"
      BY <2>1, CheckStays DEF MandateTypeOK
    <3> QED
      BY <1>1, <1>4, <3>1 DEF Draft, OffersMatch
  <2>2. CASE DraftFits
    <3>1. draft' \in Handler /\ draft'.account = draft.account /\ draft.at # "idle"
      BY <2>2 DEF DraftFits, MandateTypeOK, Handler
    <3> QED
      BY <1>1, <1>4, <3>1 DEF Draft, OffersMatch
  <2> QED
    BY <1>4, <2>1, <2>2 DEF Draft
<1>5. CASE Insert
  <2>1. draft.at # "idle" /\ call.at = "idle"
    BY <1>5 DEF Insert, OffersMatch, Checking, Placing
  <2>2. /\ offer'.status = "available" /\ offer'.account = draft.account
        /\ offer' \in Offer
    BY <1>5 DEF Insert, MandateTypeOK, Offer, Handler
  <2> QED
    BY <1>2, <1>5, <2>1, <2>2
       DEF Insert, MandateTypeOK, OffersMatch, InForceSeen, ChecksHeld, GateHeld, Checking, Placing
<1>6. CASE DropDraft
  BY <1>1, <1>2, <1>6 DEF DropDraft
<1> QED
  BY <1>3, <1>4, <1>5, <1>6

(* The gate lets an equity pass that its limit keeps.                      *)
LEMMA GateKeeps ==
  ASSUME NEW s \in Snapshot, NEW a, NewRiskAllowed(s, AdaptiveMandate(a).drawdown)
  PROVE  s # None => Keeps(s, AdaptiveMandate(a).drawdown)
PROOF
<1>1. AdaptiveMandate(a).drawdown \in {6, 8, 12}
  BY DEF AdaptiveMandate
<1>2. s.high \in Nat /\ s.current \in Nat /\ s.age \in 0 .. MaxAge + 1
  BY MandateAssumption DEF Snapshot
<1>3. ASSUME NEW l \in {6, 8, 12}, NewRiskAllowed(s, l), s # None
      PROVE  Keeps(s, l)
  <2>1. s.age <= MaxAge
    BY <1>2, <1>3, MandateAssumption DEF NewRiskAllowed, DrawdownStatus
  <2>2. s.high = 0 \/ ~(Drop(s) * 100 >= l * s.high)
    BY <1>2, <1>3, <2>1, MandateAssumption DEF NewRiskAllowed, DrawdownStatus
  <2>3. s.high = 0 \/ (s.high - s.current) * 100 < l * s.high
    BY <1>2, <1>3, <2>2 DEF Drop
  <2> QED
    BY <1>3, <2>1, <2>3 DEF Keeps
<1> QED
  BY <1>1, <1>3

(* The submission's checks: each one leaves behind what it established.    *)
LEMMA ConfirmStep ==
  ASSUME MandateInv, Confirm
  PROVE  MandateInv'
PROOF
<1> USE DEF MandateInv
<1>0. UNCHANGED <<profile, context, live, equity, offer, draft, seen>>
  BY DEF Confirm
<1>1. /\ call' \in Handler
      /\ call'.account = call.account /\ call'.terms = call.terms
      /\ call.at \in {"profile", "limit", "equity", "connection", "context"}
      /\ call'.at = CASE call.at = "profile" -> "limit" [] call.at = "limit" -> "equity"
                       [] call.at = "equity" -> "connection" [] call.at = "connection" -> "context"
                       [] call.at = "context" -> "broker"
      /\ IF call.at = "profile" THEN Accepted /\ call'.profile = profile ELSE call'.profile = call.profile
      /\ IF call.at = "limit" THEN profile # None /\ call'.gate = profile ELSE call'.gate = call.gate
  BY CheckStays DEF Confirm, MandateTypeOK
<1>2. Noticed(InForce(profile, context, equity[call.account]))
  BY <1>1 DEF InForceSeen
<1>3. profile # None => profile \in seen.profiles
  BY <1>2 DEF Noticed, InForce
<1>4. MandateTypeOK'
  BY <1>0, <1>1 DEF MandateTypeOK
<1>5. OffersMatch'
  BY <1>0, <1>1 DEF OffersMatch, Checking, Placing
<1>6. InForceSeen'
  BY <1>0, <1>1 DEF InForceSeen, Noticed
<1>7. ChecksHeld'
  <2>1. call'.at # "profile" => call'.profile \in seen.profiles /\ call'.profile.accepted
    BY <1>1, <1>3 DEF ChecksHeld, Checking, Accepted
  <2>2. call'.at \notin {"profile", "limit"} => call'.gate \in seen.profiles
    BY <1>1, <1>3 DEF ChecksHeld, Checking
  <2>3. call'.at \in {"context", "broker"} => Fits(call)
    BY <1>1 DEF ChecksHeld, Confirm
  <2>4. call'.at \in {"context", "broker"} => Fits(call')
    BY <1>1, <2>3 DEF Fits
  <2> QED
    BY <1>0, <1>1, <2>1, <2>2, <2>4 DEF ChecksHeld, Placing, Fits
<1>8. GateHeld'
  <2>1. ASSUME call.at = "equity", seen.none = {}
        PROVE  Mandate(call.gate).drawdown \in seen.limits \/ Withdrawn
    <3>1. GatePasses(call)
      BY <2>1 DEF Confirm, Check, CheckProfile, CheckLimit, CheckEquity, CheckConnection, CheckContext
    <3>2. CASE context # call.account
      BY <3>2 DEF Withdrawn
    <3>3. CASE context = call.account
      <4>1. context \in Accounts /\ equity[context] \in Snapshot /\ equity[context] # None
        BY <3>1 DEF GatePasses, MandateTypeOK
      <4>2. Keeps(equity[context], Mandate(call.gate).drawdown)
        BY <3>1, <4>1, GateKeeps DEF GatePasses, Mandate
      <4>3. Mandate(call.gate).drawdown \in Limits
        BY <2>1 DEF ChecksHeld, MandateTypeOK, Limits, Checking
      <4> QED
        BY <1>2, <3>3, <4>2, <4>3 DEF Noticed, InForce
    <3> QED
      BY <3>2, <3>3
  <2>2. ASSUME call'.at \in {"connection", "context", "broker"}, seen.none = {}
        PROVE  Mandate(call'.gate).drawdown \in seen.limits \/ Withdrawn'
    <3>1. call.at \in {"equity", "connection", "context"} /\ call'.gate = call.gate
      BY <1>1, <2>2
    <3>2. Mandate(call.gate).drawdown \in seen.limits \/ Withdrawn
      BY <2>1, <2>2, <3>1 DEF GateHeld
    <3> QED
      BY <1>0, <1>1, <3>1, <3>2 DEF Withdrawn
  <2> QED
    BY <1>0, <1>1, <2>2 DEF GateHeld, Placing
<1> QED
  BY <1>4, <1>5, <1>6, <1>7, <1>8

LEMMA SubmitStep ==
  ASSUME MandateInv,
         StartSubmit \/ AskBroker \/ BeginSubmission \/ PlaceOrder \/ DropSubmit
  PROVE  MandateInv'
PROOF
<1> USE DEF MandateInv
<1>1. CASE StartSubmit
  <2>1. /\ call'.at = "profile" /\ call'.account = offer.account /\ call'.terms = offer.terms
        /\ call' \in Handler
    BY <1>1 DEF StartSubmit, Resting, MandateTypeOK, Handler, Offer
  <2>2. seen' = InForce(profile, context, equity[offer.account])
    BY <1>1 DEF StartSubmit
  <2>3. seen' \in [profiles : SUBSET Profiles, limits : SUBSET Limits, none : SUBSET {None}]
    <3>1. profile \in Profiles \cup {None} /\ context \in Accounts \cup {None}
      BY DEF MandateTypeOK
    <3>2. InForce(profile, context, equity[offer.account])
            \in [profiles : SUBSET Profiles, limits : SUBSET Limits, none : SUBSET {None}]
      BY <3>1, InForceTyped
    <3> QED
      BY <2>2, <3>2
  <2>4. UNCHANGED <<profile, context, live, equity, offer, draft>> /\ offer.status = "available"
    BY <1>1 DEF StartSubmit
  <2>5. MandateTypeOK'
    BY <2>1, <2>3, <2>4 DEF MandateTypeOK
  <2>6. OffersMatch'
    BY <2>1, <2>4 DEF OffersMatch, Checking, Placing
  <2>7. InForceSeen'
    BY <2>1, <2>2, <2>4 DEF InForceSeen, Noticed
  <2>8. ChecksHeld' /\ GateHeld'
    BY <2>1 DEF ChecksHeld, GateHeld, Placing
  <2> QED
    BY <2>5, <2>6, <2>7, <2>8
<1>2. CASE AskBroker
  <2>1. /\ call' \in Handler /\ call.at = "broker" /\ call'.at = "begin"
        /\ call'.account = call.account /\ call'.terms = call.terms
        /\ call'.profile = call.profile /\ call'.gate = call.gate
    BY <1>2 DEF AskBroker, MandateTypeOK, Handler
  <2>2. UNCHANGED <<profile, context, live, equity, offer, draft, seen>>
    BY <1>2 DEF AskBroker
  <2>3. MandateTypeOK' /\ OffersMatch' /\ InForceSeen'
    BY <2>1, <2>2 DEF MandateTypeOK, OffersMatch, InForceSeen, Noticed, Checking, Placing
  <2>4. PICK e \in Equities : LossFits(call, e)
    BY <1>2 DEF AskBroker
  <2>5. Fits(call') /\ LossFits(call', e)
    BY <2>1, <2>4 DEF ChecksHeld, Fits, LossFits
  <2>6. ChecksHeld'
    BY <2>1, <2>2, <2>5 DEF ChecksHeld, Checking, Placing, Fits, LossFits
  <2>7. GateHeld'
    BY <2>1, <2>2 DEF GateHeld, Withdrawn, Placing
  <2> QED
    BY <2>3, <2>6, <2>7
<1>3. CASE BeginSubmission
  <2>1. /\ call' \in Handler /\ call.at = "begin" /\ call'.at = "place"
        /\ call'.account = call.account /\ call'.terms = call.terms
        /\ call'.profile = call.profile /\ call'.gate = call.gate
    BY <1>3 DEF BeginSubmission, MandateTypeOK, Handler
  <2>2. /\ offer' \in Offer /\ offer'.status = "submitted" /\ offer.status = "available"
        /\ offer'.account = offer.account /\ offer'.terms = offer.terms
        /\ UNCHANGED <<profile, context, live, equity, draft, seen>>
        /\ context = call.account
    BY <1>3 DEF BeginSubmission, MandateTypeOK, Offer
  <2>3. MandateTypeOK' /\ OffersMatch' /\ InForceSeen'
    BY <2>1, <2>2 DEF MandateTypeOK, OffersMatch, InForceSeen, Noticed, Checking, Placing
  <2>4. ChecksHeld'
    BY <2>1, <2>2 DEF ChecksHeld, Checking, Placing, Fits, LossFits
  <2>5. GateHeld'
    BY <2>1, <2>2 DEF GateHeld, Withdrawn, Placing
  <2> QED
    BY <2>3, <2>4, <2>5
<1>4. CASE PlaceOrder
  <2>1. /\ call' \in Handler /\ call.at = "place" /\ call'.at = "sent"
        /\ call'.account = call.account /\ call'.terms = call.terms
        /\ call'.profile = call.profile /\ call'.gate = call.gate
        /\ UNCHANGED <<profile, context, live, equity, offer, draft, seen>>
    BY <1>4 DEF PlaceOrder, MandateTypeOK, Handler
  <2>2. MandateTypeOK' /\ OffersMatch' /\ InForceSeen'
    BY <2>1 DEF MandateTypeOK, OffersMatch, InForceSeen, Noticed, Checking, Placing
  <2>3. ChecksHeld'
    BY <2>1 DEF ChecksHeld, Checking, Placing, Fits, LossFits
  <2>4. GateHeld'
    BY <2>1 DEF GateHeld, Placing
  <2> QED
    BY <2>2, <2>3, <2>4
<1>5. CASE DropSubmit
  <2>1. call' \in Handler /\ call'.at = "idle"
    BY <1>5 DEF DropSubmit, Resting, Handler
  <2>2. UNCHANGED <<profile, context, live, equity, offer, draft>>
    BY <1>5 DEF DropSubmit
  <2>3. seen' \in [profiles : SUBSET Profiles, limits : SUBSET Limits, none : SUBSET {None}]
    BY <1>5 DEF DropSubmit, NothingSeen
  <2> QED
    BY <2>1, <2>2, <2>3
       DEF MandateTypeOK, OffersMatch, InForceSeen, ChecksHeld, GateHeld, Checking, Placing
<1> QED
  BY <1>1, <1>2, <1>3, <1>4, <1>5

(* The inductive invariant of the mandate, for any number of accounts,     *)
(* profiles, offers and equities.                                          *)
THEOREM MandateInvariance == MandateSpec => []MandateInv
PROOF
<1>1. MandateInit => MandateInv
  BY DEF MandateInit, MandateInv, MandateTypeOK, OffersMatch, InForceSeen, ChecksHeld, GateHeld,
         Checking, Placing, NoOffer, Offer, Resting, Handler, NothingSeen
<1>2. MandateInv /\ [MandateNext]_mandateVars => MandateInv'
  <2> SUFFICES ASSUME MandateInv, [MandateNext]_mandateVars
               PROVE  MandateInv'
    OBVIOUS
  <2>1. CASE UNCHANGED mandateVars
    BY <2>1 DEF mandateVars, MandateInv, MandateTypeOK, OffersMatch, InForceSeen, Noticed,
                ChecksHeld, GateHeld, Withdrawn, Fits, LossFits
  <2>2. CASE MandateNext
    BY <2>2, EnvironmentStep, DraftStep, ConfirmStep, SubmitStep DEF MandateNext
  <2> QED
    BY <2>1, <2>2
<1> QED
  BY <1>1, <1>2, PTL DEF MandateSpec

(* OrdersFitMandate: whatever is edited, switched or revoked while an      *)
(* order is confirmed, the order that is sent fits one profile that was    *)
(* in force meanwhile, in leverage, category, disclosures and loss.        *)
THEOREM OrdersFit == MandateSpec => []OrdersFitMandate
PROOF
<1>1. MandateInv => OrdersFitMandate
  <2> SUFFICES ASSUME MandateInv, call.at = "sent"
               PROVE  \E p \in seen.profiles :
                        LET m == Mandate(p)
                        IN  /\ p.accepted
                            /\ call.terms.leverage <= m.leverage
                            /\ call.terms.linear => m.derivatives
                            /\ \E e \in Equities : call.terms.loss * 100 <= e * m.loss
    BY DEF OrdersFitMandate
  <2>1. call.profile \in seen.profiles /\ call.profile.accepted
    BY DEF MandateInv, ChecksHeld, Checking, Placing
  <2>2. Fits(call) /\ \E e \in Equities : LossFits(call, e)
    BY DEF MandateInv, ChecksHeld, Checking, Placing
  <2> QED
    BY <2>1, <2>2 DEF Fits, LossFits
<1> QED
  BY <1>1, MandateInvariance, PTL

(* BreachStopsRisk: an order is sent only if the drawdown of its own       *)
(* account kept the limit of a profile in force, at some moment of its     *)
(* confirmation, unless the active account was revoked meanwhile.          *)
THEOREM BreachStops == MandateSpec => []BreachStopsRisk
PROOF
<1>1. MandateInv => BreachStopsRisk
  BY DEF MandateInv, ChecksHeld, GateHeld, BreachStopsRisk, Checking, Placing
<1> QED
  BY <1>1, MandateInvariance, PTL

-----------------------------------------------------------------------------
(***************************************************************************)
(* The answers. A more careful answer is as protective, no more eligible,  *)
(* and takes selective growth away.                                        *)

LEMMA Careless ==
  ASSUME NEW a \in Answers, NEW b \in MoreCareful(a)
  PROVE  \/ b = [a EXCEPT !.goals = a.goals \cup {"capital_preservation"}]
         \/ b = [a EXCEPT !.goals = a.goals \ {"capital_growth"}]
         \/ b = [a EXCEPT !.liquidity = IF a.liquidity = "low" THEN "moderate" ELSE "high"]
         \/ b = [a EXCEPT !.products = a.products \ {"futures"}]
         \/ b = [a EXCEPT !.drawdown = "exit"]
         \/ b = [a EXCEPT !.drawdown = "unsure"]
         \/ \E e \in Less[a.investing] : b = [a EXCEPT !.investing = e]
         \/ \E e \in Less[a.trading] : b = [a EXCEPT !.trading = e]
PROOF BY DEF MoreCareful

LEMMA LessExperienced ==
  ASSUME NEW e \in Experience, NEW f \in Less[e]
  PROVE  /\ f \in Experience /\ f # "advanced" /\ f # e
         /\ f = "intermediate" => e = "advanced"
         /\ e # "none"
PROOF BY DEF Less, Experience

LEMMA StepOfCare ==
  ASSUME NEW a \in Answers, NEW b \in MoreCareful(a)
  PROVE  /\ Protective(a) => Protective(b)
         /\ Eligible(b) => Eligible(a)
         /\ SelectiveGrowth(b) => SelectiveGrowth(a)
         /\ SelectiveGrowth(a) => ~SelectiveGrowth(b) \/ Protective(b)
PROOF
<1> USE DEF Protective, Eligible, SelectiveGrowth
<1>1. CASE b = [a EXCEPT !.goals = a.goals \cup {"capital_preservation"}]
  BY <1>1 DEF Answers
<1>2. CASE b = [a EXCEPT !.goals = a.goals \ {"capital_growth"}]
  BY <1>2 DEF Answers
<1>3. CASE b = [a EXCEPT !.liquidity = IF a.liquidity = "low" THEN "moderate" ELSE "high"]
  BY <1>3 DEF Answers
<1>4. CASE b = [a EXCEPT !.products = a.products \ {"futures"}]
  BY <1>4 DEF Answers
<1>5. CASE b = [a EXCEPT !.drawdown = "exit"]
  BY <1>5 DEF Answers
<1>6. CASE b = [a EXCEPT !.drawdown = "unsure"]
  BY <1>6 DEF Answers
<1>7. ASSUME NEW e \in Less[a.investing], b = [a EXCEPT !.investing = e]
      PROVE  /\ Protective(a) => Protective(b)
             /\ Eligible(b) => Eligible(a)
             /\ SelectiveGrowth(b) => SelectiveGrowth(a)
             /\ SelectiveGrowth(a) => ~SelectiveGrowth(b) \/ Protective(b)
  BY <1>7, LessExperienced DEF Answers
<1>8. ASSUME NEW e \in Less[a.trading], b = [a EXCEPT !.trading = e]
      PROVE  /\ Protective(a) => Protective(b)
             /\ Eligible(b) => Eligible(a)
             /\ SelectiveGrowth(b) => SelectiveGrowth(a)
             /\ SelectiveGrowth(a) => ~SelectiveGrowth(b) \/ Protective(b)
  BY <1>8, LessExperienced DEF Answers
<1> QED
  BY Careless, <1>1, <1>2, <1>3, <1>4, <1>5, <1>6, <1>7, <1>8

(* "Never learns a higher limit": for every answer the model has.          *)
THEOREM CautiousAnswers == MCSpec => []CautionNeverRaises
PROOF
<1>1. CautionNeverRaises
  <2> SUFFICES ASSUME NEW a \in Answers
               PROVE  LET m == AdaptiveMandate(a)
                      IN  /\ m.loss <= 200 /\ m.drawdown <= 20 /\ m.leverage <= 40
                          /\ m.leverage > 3 => m.derivatives
                          /\ \A b \in MoreCareful(a) :
                               LET n == AdaptiveMandate(b)
                               IN  /\ n.loss <= m.loss /\ n.drawdown <= m.drawdown /\ n.leverage <= m.leverage
                                   /\ n.derivatives => m.derivatives
                                   /\ b # a /\ m.leverage > 3 => n.leverage < m.leverage
    BY DEF CautionNeverRaises
  <2>1. SelectiveGrowth(a) => Eligible(a)
    BY DEF SelectiveGrowth
  <2>2. \A b \in MoreCareful(a) : SelectiveGrowth(b) => Eligible(b)
    BY DEF SelectiveGrowth
  <2>3. ASSUME NEW b \in MoreCareful(a)
        PROVE  LET m == AdaptiveMandate(a)
                   n == AdaptiveMandate(b)
               IN  /\ n.loss <= m.loss /\ n.drawdown <= m.drawdown /\ n.leverage <= m.leverage
                   /\ n.derivatives => m.derivatives
                   /\ m.leverage > 3 => n.leverage < m.leverage
    BY <2>1, <2>2, StepOfCare DEF AdaptiveMandate
  <2> QED
    BY <2>1, <2>3 DEF AdaptiveMandate
<1> QED
  BY <1>1, PTL

-----------------------------------------------------------------------------
(***************************************************************************)
(* The replay. What a trade must satisfy is said of the bars it was        *)
(* replayed on, so that a later bar does not disturb it.                   *)

Trade == [levels : Levels, opened : Nat, closed : Nat, fill : Int, exit : Int,
          moved : Int, charges : Nat, funded : Nat]

(* The bars a trade was held through without an end to it.                 *)
HeldThrough(s, t) == t.opened .. (IF t.closed = 0 THEN Len(s) ELSE t.closed - 1)

FilledAt(b, t) ==
  /\ b.low <= t.fill /\ t.fill <= b.high
  /\ Gain(t.levels.side, t.fill, t.levels.entry) >= 0

ExitedAt(b, t) ==
  /\ Gain(t.levels.side, t.levels.target, t.exit) <= 0
  /\ \E x \in {b.low, b.high} : Gain(t.levels.side, t.exit, x) >= 0
  /\ (\E x \in {b.low, b.high} : Gain(t.levels.side, t.levels.stop, x) <= 0)
       => Gain(t.levels.side, t.levels.stop, t.exit) <= 0

Attained(s, t) ==
  /\ FilledAt(s[t.opened], t)
  /\ \A n \in HeldThrough(s, t) : ~Over(t.levels, s[n])
  /\ t.closed # 0 => (Over(t.levels, s[t.closed]) \/ t.closed = Length) /\ ExitedAt(s[t.closed], t)

Counted(s, t) ==
  LET end == IF t.closed = 0 THEN Len(s) ELSE t.closed
  IN  /\ t.moved = (IF t.closed = 0 THEN s[end].close ELSE t.exit) - t.fill
      /\ t.charges = IF t.closed = 0 THEN 1 ELSE 2
      /\ t.funded = IF Linear THEN end - t.opened + 1 ELSE 0

Placed(s, t) ==
  /\ InOrder(t.levels)
  /\ Warmup < t.opened /\ t.opened \in 1 .. Len(s)
  /\ t.closed # 0 => t.closed \in t.opened .. Len(s)

Correct(s, t) == Attained(s, t) /\ Counted(s, t) /\ Placed(s, t)

ReplayTypes ==
  /\ bars \in Seq(Bars) /\ Len(bars) <= Length
  /\ pending \in Levels \cup {NoValue}
  /\ position \in Positions \cup {NoValue}
  /\ cooldownUntil \in Nat
  /\ trades \in Seq(Trade)

(* The position is the last trade's, marked to the last close.             *)
PositionIsLast ==
  /\ \A i \in 1 .. Len(trades) : trades[i].closed = 0 <=> (i = Len(trades) /\ position # NoValue)
  /\ position # NoValue =>
       LET l == trades[Len(trades)].levels
       IN  /\ Len(trades) > 0 /\ Len(bars) > 0 /\ Len(bars) < Length
           /\ position = [side |-> l.side, reference |-> bars[Len(bars)].close,
                          stop |-> l.stop, target |-> l.target]

(* A signal waits only while flat, warmed up and cooled down; the cooldown *)
(* counts from the last exit.                                              *)
SignalsWait ==
  /\ pending # NoValue =>
       position = NoValue /\ Len(bars) >= Warmup /\ Len(bars) - 1 >= cooldownUntil
  /\ Len(trades) > 0 /\ position = NoValue =>
       cooldownUntil >= trades[Len(trades)].closed + Cooldown

Apart ==
  \A i \in 2 .. Len(trades) : trades[i].opened - trades[i - 1].closed > Cooldown + 1

LabInv ==
  /\ ReplayTypes
  /\ \A i \in 1 .. Len(trades) : Correct(bars, trades[i])
  /\ PositionIsLast
  /\ SignalsWait
  /\ Apart

-----------------------------------------------------------------------------
(* One bar, seen from a buy and from a sell.                               *)

LEMMA OverIs ==
  ASSUME NEW b \in OHLC, NEW l \in Levels
  PROVE  Over(l, b) <=>
           \/ b.low <= l.stop /\ l.stop <= b.high
           \/ b.low <= l.target /\ l.target <= b.high
           \/ b.high < (IF l.side = "buy" THEN l.stop ELSE l.target)
           \/ b.low > (IF l.side = "buy" THEN l.target ELSE l.stop)
PROOF BY DEF Over, Touching

(* A bar that ends a trade gives it an exit, at a price that traded and    *)
(* that is no better than the stop, if it was touched, or the target.      *)
LEMMA ExitIs ==
  ASSUME NEW b \in OHLC, Sound(b), NEW l \in Levels, InOrder(l),
         NEW p \in Positions, p.side = l.side, p.stop = l.stop, p.target = l.target
  PROVE  LET e == ExitPrice(p, b)
             x == IF e # NoValue THEN e ELSE b.close
         IN  /\ e # NoValue <=> Over(l, b)
             /\ x \in Int
             /\ Gain(l.side, l.target, x) <= 0
             /\ Gain(l.side, x, b.low) >= 0 \/ Gain(l.side, x, b.high) >= 0
             /\ Gain(l.side, l.stop, b.low) <= 0 \/ Gain(l.side, l.stop, b.high) <= 0
                  => Gain(l.side, l.stop, x) <= 0
PROOF
<1> USE DEF Levels, Positions, OHLC
<1>1. NoValue \notin Int
  BY LaboratoryAssumption
<1>2. CASE l.side = "buy"
  <2>1. /\ b.low <= b.open /\ b.open <= b.high /\ b.low <= b.close /\ b.close <= b.high
        /\ l.stop < l.entry /\ l.entry < l.target
    BY <1>2 DEF Sound, InOrder
  <2>2. ExitPrice(p, b) = IF b.low <= l.stop THEN (IF b.open <= l.stop THEN b.open ELSE l.stop)
                          ELSE IF l.target <= b.high THEN l.target ELSE NoValue
    BY <1>2 DEF ExitPrice, Stopped, Reached, Against, Adverse, Favourable, Further
  <2>3. Over(l, b) <=> b.low <= l.stop \/ l.target <= b.high
    BY <1>2, <2>1, OverIs
  <2> QED
    BY <1>1, <1>2, <2>1, <2>2, <2>3 DEF Gain
<1>3. CASE l.side = "sell"
  <2>1. /\ b.low <= b.open /\ b.open <= b.high /\ b.low <= b.close /\ b.close <= b.high
        /\ l.target < l.entry /\ l.entry < l.stop
    BY <1>3 DEF Sound, InOrder
  <2>2. ExitPrice(p, b) = IF b.high >= l.stop THEN (IF b.open >= l.stop THEN b.open ELSE l.stop)
                          ELSE IF l.target >= b.low THEN l.target ELSE NoValue
    BY <1>3 DEF ExitPrice, Stopped, Reached, Against, Adverse, Favourable, Further
  <2>3. Over(l, b) <=> b.high >= l.stop \/ l.target >= b.low
    BY <1>3, <2>1, OverIs
  <2> QED
    BY <1>1, <1>3, <2>1, <2>2, <2>3 DEF Gain
<1> QED
  BY <1>2, <1>3 DEF Sides

LEMMA FillIs ==
  ASSUME NEW b \in OHLC, Sound(b), NEW l \in Levels, InOrder(l), Touches(l, b)
  PROVE  /\ FillPrice(l, b) \in Int
         /\ b.low <= FillPrice(l, b) /\ FillPrice(l, b) <= b.high
         /\ Gain(l.side, FillPrice(l, b), l.entry) >= 0
PROOF
<1> USE DEF Levels, OHLC
<1>1. CASE l.side = "buy"
  BY <1>1 DEF Sound, Touches, FillPrice, Against, Further, Adverse, Gain
<1>2. CASE l.side = "sell"
  BY <1>2 DEF Sound, Touches, FillPrice, Against, Further, Adverse, Gain
<1> QED
  BY <1>1, <1>2 DEF Sides

-----------------------------------------------------------------------------
(* A later bar leaves a closed trade as it is.                             *)
LEMMA ClosedStays ==
  ASSUME NEW s \in Seq(Bars), NEW b \in Bars, NEW t \in Trade, t.closed # 0, Correct(s, t)
  PROVE  Correct(Append(s, b), t)
PROOF
<1>1. /\ t.opened \in 1 .. Len(s) /\ t.closed \in t.opened .. Len(s)
      /\ t.opened \in Nat /\ t.closed \in Nat
  BY DEF Correct, Placed, Trade
<1>2. /\ Len(Append(s, b)) = Len(s) + 1
      /\ \A n \in 1 .. Len(s) : Append(s, b)[n] = s[n]
  OBVIOUS
<1> DEFINE r == Append(s, b)
<1>3. r[t.opened] = s[t.opened] /\ r[t.closed] = s[t.closed] /\ Len(r) = Len(s) + 1
  BY <1>1, <1>2
<1>4. HeldThrough(r, t) = HeldThrough(s, t) /\ \A n \in HeldThrough(s, t) : r[n] = s[n]
  BY <1>1, <1>2 DEF HeldThrough
<1> HIDE DEF r
<1>5. Attained(r, t)
  BY <1>3, <1>4 DEF Correct, Attained
<1>6. Counted(r, t)
  BY <1>3 DEF Correct, Counted
<1>7. Placed(r, t)
  BY <1>1, <1>3 DEF Correct, Placed
<1> QED
  BY <1>5, <1>6, <1>7 DEF Correct, r

(* The last trade when it is open, as position h knows it before bar b.    *)
Holding(t, h, b) ==
  /\ t \in Trade /\ t.closed = 0 /\ InOrder(t.levels)
  /\ h = [side |-> t.levels.side, reference |-> h.reference,
          stop |-> t.levels.stop, target |-> t.levels.target]
  /\ h.reference \in Int
  /\ Warmup < t.opened /\ t.opened \in 1 .. Len(bars) + 1
  /\ FilledAt(Append(bars, b)[t.opened], t)
  /\ \A n \in t.opened .. Len(bars) : ~Over(t.levels, bars[n])
  /\ t.moved = h.reference - t.fill /\ t.charges = 1
  /\ t.funded = IF Linear THEN Len(bars) - t.opened + 1 ELSE 0

LEMMA TradeExcept ==
  ASSUME NEW t \in Trade, NEW a \in Int, NEW f \in Nat, NEW c \in Nat, NEW d \in Nat, NEW e \in Int,
         NEW u, u = [t EXCEPT !.moved = a, !.funded = f, !.charges = c, !.closed = d, !.exit = e]
  PROVE  u \in Trade
PROOF
<1>1. [t EXCEPT !.moved = a] \in Trade
  BY DEF Trade
<1>2. [t EXCEPT !.moved = a, !.funded = f] \in Trade
  BY <1>1 DEF Trade
<1>3. [t EXCEPT !.moved = a, !.funded = f, !.charges = c] \in Trade
  BY <1>2 DEF Trade
<1>4. [t EXCEPT !.moved = a, !.funded = f, !.charges = c, !.closed = d] \in Trade
  BY <1>3 DEF Trade
<1>5. [t EXCEPT !.moved = a, !.funded = f, !.charges = c, !.closed = d, !.exit = e] \in Trade
  BY <1>4 DEF Trade
<1> QED
  BY <1>5

(* What a bar books to a trade, whether it closes it or not.               *)
LEMMA BookedIs ==
  ASSUME NEW t \in Trade, NEW move \in Int, NEW x \in Int, bars \in Seq(Bars), NEW closing \in BOOLEAN
  PROVE  LET u == Booked(t, move, closing, x)
         IN  /\ u \in Trade
             /\ u.levels = t.levels /\ u.opened = t.opened /\ u.fill = t.fill
             /\ u.moved = t.moved + move
             /\ u.funded = t.funded + (IF Linear THEN 1 ELSE 0)
             /\ closing => u.charges = t.charges + 1 /\ u.closed = Len(bars) + 1 /\ u.exit = x
             /\ ~closing => u.charges = t.charges /\ u.closed = 0 /\ u.exit = 0
PROOF
<1> DEFINE u == Booked(t, move, closing, x)
           f == IF Linear THEN t.funded + 1 ELSE t.funded
           c == IF closing THEN t.charges + 1 ELSE t.charges
           d == IF closing THEN Len(bars) + 1 ELSE 0
           e == IF closing THEN x ELSE 0
           a == t.moved + move
<1>1. u = [t EXCEPT !.moved = a, !.funded = f, !.charges = c, !.closed = d, !.exit = e]
  BY Zenon DEF Booked, Trade
<1>2. a \in Int /\ f \in Nat /\ c \in Nat /\ d \in Nat /\ e \in Int
  BY DEF Trade
<1>3. u.levels = t.levels /\ u.opened = t.opened /\ u.fill = t.fill
  BY DEF Booked, Trade
<1>4. u.moved = t.moved + move 
  BY DEF Booked, Trade
<1>5. u.funded = t.funded + (IF Linear THEN 1 ELSE 0)
  BY DEF Booked, Trade
<1>6. closing => u.charges = t.charges + 1 /\ u.closed = Len(bars) + 1 /\ u.exit = x
  BY DEF Booked, Trade
<1>7. ~closing => u.charges = t.charges /\ u.closed = 0 /\ u.exit = 0
  BY DEF Booked, Trade
<1> HIDE DEF a, f, c, d, e, u
<1>8. u \in Trade
  BY <1>1, <1>2, TradeExcept, Zenon
<1> QED
  BY <1>3, <1>4, <1>5, <1>6, <1>7, <1>8 DEF u

(* How a bar leaves position h: at which price, and whether closed.        *)
MarkOf(h, b) == IF ExitPrice(h, b) # NoValue THEN ExitPrice(h, b) ELSE b.close
Closing(h, b) == ExitPrice(h, b) # NoValue \/ Len(bars) = Length - 1
After(t, h, b) == Booked(t, MarkOf(h, b) - h.reference, Closing(h, b), MarkOf(h, b))

(* The bar that an open trade goes through is booked to it once, and       *)
(* either ends it as it should be ended or leaves it open and marked.      *)
LEMMA BarBooked ==
  ASSUME bars \in Seq(Bars), Len(bars) < Length, NEW b \in Bars, NEW t, NEW h, Holding(t, h, b)
  PROVE  LET u == After(t, h, b)
         IN  /\ u \in Trade /\ u.levels = t.levels /\ u.opened = t.opened
             /\ Closing(h, b) => u.closed = Len(bars) + 1
             /\ ~Closing(h, b) => u.closed = 0
             /\ Correct(Append(bars, b), u)
             /\ Marked(h, b) = [side |-> t.levels.side, reference |-> b.close,
                                stop |-> t.levels.stop, target |-> t.levels.target]
             /\ Marked(h, b) \in Positions
PROOF
<1> DEFINE e == ExitPrice(h, b)
           mark == MarkOf(h, b)
           closing == Closing(h, b)
           u == After(t, h, b)
           r == Append(bars, b)
           l == t.levels
<1>1. /\ b \in OHLC /\ Sound(b) /\ b.close \in Int
      /\ Length \in Nat /\ Warmup \in Nat /\ Linear \in BOOLEAN
  BY LaboratoryAssumption DEF OHLC
<1>2. /\ t \in Trade /\ l \in Levels /\ InOrder(l) /\ t.closed = 0
      /\ t.opened \in 1 .. Len(bars) + 1 /\ Warmup < t.opened /\ h.reference \in Int
      /\ l.side \in Sides /\ l.stop \in Int /\ l.target \in Int /\ l.entry \in Int
      /\ t.fill \in Int
  BY DEF Holding, Trade, Levels
<1>3. h \in Positions /\ h.side = l.side /\ h.stop = l.stop /\ h.target = l.target
  <2>1. h = [side |-> l.side, reference |-> h.reference, stop |-> l.stop, target |-> l.target]
    BY DEF Holding
  <2> HIDE DEF l
  <2>2. h.side = l.side /\ h.stop = l.stop /\ h.target = l.target
    BY <2>1
  <2>3. [side |-> l.side, reference |-> h.reference, stop |-> l.stop, target |-> l.target] \in Positions
    BY <1>2 DEF Positions
  <2> QED
    BY <2>1, <2>2, <2>3
<1>4. /\ e # NoValue <=> Over(l, b)
      /\ mark \in Int
      /\ Gain(l.side, l.target, mark) <= 0
      /\ Gain(l.side, mark, b.low) >= 0 \/ Gain(l.side, mark, b.high) >= 0
      /\ Gain(l.side, l.stop, b.low) <= 0 \/ Gain(l.side, l.stop, b.high) <= 0
           => Gain(l.side, l.stop, mark) <= 0
  <2> HIDE DEF l
  <2> QED
    BY <1>1, <1>2, <1>3, ExitIs DEF MarkOf
<1>5. closing \in BOOLEAN /\ mark - h.reference \in Int
  BY <1>2, <1>4 DEF Closing
<1>6. /\ u \in Trade
      /\ u.levels = l /\ u.opened = t.opened /\ u.fill = t.fill
      /\ u.moved = t.moved + (mark - h.reference)
      /\ u.funded = t.funded + (IF Linear THEN 1 ELSE 0)
      /\ closing => u.charges = t.charges + 1 /\ u.closed = Len(bars) + 1 /\ u.exit = mark
      /\ ~closing => u.charges = t.charges /\ u.closed = 0 /\ u.exit = 0
  <2> HIDE DEF mark, closing
  <2> QED
    BY <1>2, <1>4, <1>5, BookedIs DEF After, mark, closing
<1>7. /\ Len(r) = Len(bars) + 1 /\ r[Len(bars) + 1] = b
      /\ \A n \in 1 .. Len(bars) : r[n] = bars[n]
      /\ Len(bars) \in Nat
  OBVIOUS
<1>8. /\ \A n \in t.opened .. Len(bars) : ~Over(l, bars[n])
      /\ FilledAt(r[t.opened], t)
      /\ t.moved = h.reference - t.fill /\ t.charges = 1
      /\ t.funded = IF Linear THEN Len(bars) - t.opened + 1 ELSE 0
  BY DEF Holding
<1>9. Marked(h, b) = [side |-> l.side, reference |-> b.close, stop |-> l.stop, target |-> l.target]
  <2> HIDE DEF l
  <2> QED
    BY <1>3 DEF Marked, Positions
<1>10. Marked(h, b) \in Positions
  BY <1>1, <1>2, <1>9 DEF Positions
<1>20. closing => e # NoValue \/ Len(bars) + 1 = Length
  BY <1>1, <1>7 DEF Closing
<1>21. ~closing => e = NoValue /\ mark = b.close
  BY DEF Closing, MarkOf
<1> HIDE DEF e, mark, closing, u, r, l
<1>11. Attained(r, u)
  <2>1. FilledAt(r[u.opened], u)
    BY <1>6, <1>8 DEF FilledAt, l
  <2>2. ASSUME NEW n \in HeldThrough(r, u)
        PROVE  ~Over(u.levels, r[n])
    <3>1. n \in t.opened .. Len(bars) \/ (n = Len(bars) + 1 /\ ~closing)
      BY <1>2, <1>6, <1>7, <2>2 DEF HeldThrough
    <3>2. CASE n \in t.opened .. Len(bars)
      BY <1>2, <1>6, <1>7, <1>8, <3>2
    <3>3. CASE n = Len(bars) + 1 /\ ~closing
      BY <1>4, <1>6, <1>7, <1>21, <3>3
    <3> QED
      BY <3>1, <3>2, <3>3
  <2>3. ASSUME u.closed # 0
        PROVE  (Over(u.levels, r[u.closed]) \/ u.closed = Length) /\ ExitedAt(r[u.closed], u)
    <3>1. closing /\ u.closed = Len(bars) + 1 /\ r[u.closed] = b /\ u.exit = mark
      BY <1>6, <1>7, <2>3
    <3>2. Over(l, b) \/ u.closed = Length
      BY <1>4, <1>20, <3>1
    <3>3. ExitedAt(b, u)
      BY <1>4, <1>6, <3>1 DEF ExitedAt
    <3> QED
      BY <1>6, <3>1, <3>2, <3>3
  <2> QED
    BY <2>1, <2>2, <2>3 DEF Attained
<1>12. Counted(r, u)
  <2>1. u.moved = mark - u.fill
    BY <1>2, <1>4, <1>6, <1>8
  <2>2. u.funded = IF Linear THEN Len(bars) + 1 - u.opened + 1 ELSE 0
    BY <1>2, <1>6, <1>7, <1>8
  <2>3. CASE closing
    <3>1. /\ u.closed = Len(bars) + 1 /\ u.closed # 0 /\ u.exit = mark /\ u.charges = 2
          /\ u.closed \in Nat /\ u.opened \in Nat
      BY <1>2, <1>6, <1>7, <1>8, <2>3
    <3>2. u.moved = u.exit - u.fill
      BY <2>1, <3>1
    <3>3. u.funded = IF Linear THEN u.closed - u.opened + 1 ELSE 0
      BY <2>2, <3>1
    <3> QED
      BY <3>1, <3>2, <3>3 DEF Counted
  <2>4. CASE ~closing
    <3>1. u.closed = 0 /\ u.charges = 1 /\ r[Len(r)].close = mark /\ Len(r) = Len(bars) + 1
      BY <1>6, <1>7, <1>8, <1>21, <2>4
    <3>2. u.moved = r[Len(r)].close - u.fill
      BY <2>1, <3>1
    <3>3. u.funded = IF Linear THEN Len(r) - u.opened + 1 ELSE 0
      <4>1. Len(r) = Len(bars) + 1 /\ Len(bars) \in Nat /\ u.opened \in Nat
        BY <1>2, <1>6, <1>7, <3>1
      <4>2. Len(bars) + 1 - u.opened + 1 = Len(r) - u.opened + 1
        BY <4>1
      <4> QED
        BY <2>2, <4>2, Zenon
    <3> QED
      BY <3>1, <3>2, <3>3 DEF Counted
  <2> QED
    BY <2>3, <2>4
<1>13. Placed(r, u)
  BY <1>1, <1>2, <1>6, <1>7 DEF Placed
<1> QED
  BY <1>6, <1>9, <1>10, <1>11, <1>12, <1>13 DEF Correct, e, mark, closing, u, r, l

-----------------------------------------------------------------------------
(* The trades before a bar: the last is open, and the others are done with *)
(* and far enough apart.                                                   *)
Ready(o, h, b) ==
  /\ o \in Seq(Trade) /\ Len(o) > 0
  /\ Holding(o[Len(o)], h, b)
  /\ \A i \in 1 .. Len(o) - 1 : o[i].closed # 0 /\ Correct(bars, o[i])
  /\ \A i \in 2 .. Len(o) : o[i].opened - o[i - 1].closed > Cooldown + 1

\* A bar whose index reaches the end of the cooldown lies beyond it (cooldown_until).
LEMMA WaitedApart ==
  ASSUME NEW n \in Nat, NEW left \in Nat, NEW wait \in Nat, NEW until \in Nat,
         until >= left + wait, n - 1 >= until, NEW opens, opens = n + 1
  PROVE  opens - left > wait + 1
OBVIOUS

LEMMA OpeningReady ==
  ASSUME LabInv, NEW b \in Bars, pending # NoValue, position = NoValue,
         InOrder(pending), Touches(pending, b)
  PROVE  Ready(Append(trades, NewTrade(pending, b)), Opened(pending, b), b)
PROOF
<1> DEFINE t == NewTrade(pending, b)
           o == Append(trades, t)
           h == Opened(pending, b)
           fill == FillPrice(pending, b)
<1>1. /\ b \in OHLC /\ Sound(b) /\ Warmup \in Nat /\ Cooldown \in Nat
  BY LaboratoryAssumption
<1>2. /\ pending \in Levels /\ trades \in Seq(Trade) /\ bars \in Seq(Bars) /\ cooldownUntil \in Nat
      /\ Len(bars) \in Nat /\ Len(trades) \in Nat
  BY DEF LabInv, ReplayTypes
<1>3. fill \in Int /\ b.low <= fill /\ fill <= b.high /\ Gain(pending.side, fill, pending.entry) >= 0
  BY <1>1, <1>2, FillIs
<1>4. t = [levels |-> pending, opened |-> Len(bars) + 1, closed |-> 0, fill |-> fill,
           exit |-> 0, moved |-> 0, charges |-> 1, funded |-> 0]
  BY DEF NewTrade
<1>5. h = [side |-> pending.side, reference |-> fill, stop |-> pending.stop, target |-> pending.target]
  BY DEF Opened
<1> HIDE DEF t, h, fill
<1>6. /\ t \in Trade /\ t.levels = pending /\ t.opened = Len(bars) + 1 /\ t.closed = 0 /\ t.fill = fill
      /\ t.moved = 0 /\ t.charges = 1 /\ t.funded = 0
  BY <1>2, <1>3, <1>4 DEF Trade
<1>7. h.reference = fill /\ h.side = pending.side /\ h.stop = pending.stop /\ h.target = pending.target
  BY <1>5
<1>8. /\ o \in Seq(Trade) /\ Len(o) = Len(trades) + 1 /\ o[Len(trades) + 1] = t
      /\ \A i \in 1 .. Len(trades) : o[i] = trades[i]
  BY <1>2, <1>6
<1> HIDE DEF o
<1>9. Append(bars, b)[Len(bars) + 1] = b
  BY <1>2
<1>10. Holding(t, h, b)
  <2>1. Len(bars) >= Warmup
    BY <1>2 DEF LabInv, SignalsWait
  <2>2. FilledAt(Append(bars, b)[t.opened], t)
    BY <1>3, <1>6, <1>9 DEF FilledAt
  <2>3. h = [side |-> t.levels.side, reference |-> h.reference,
             stop |-> t.levels.stop, target |-> t.levels.target]
    BY <1>5, <1>6, <1>7
  <2>4. t.opened \in 1 .. Len(bars) + 1 /\ Warmup < t.opened
    BY <1>1, <1>2, <1>6, <2>1
  <2>5. \A n \in t.opened .. Len(bars) : ~Over(t.levels, bars[n])
    BY <1>2, <1>6
  <2>6. t.moved = h.reference - t.fill /\ h.reference \in Int
    BY <1>3, <1>6, <1>7
  <2>7. t.funded = IF Linear THEN Len(bars) - t.opened + 1 ELSE 0
    BY <1>2, <1>6
  <2> QED
    BY <1>6, <2>2, <2>3, <2>4, <2>5, <2>6, <2>7 DEF Holding
<1>11. \A i \in 1 .. Len(o) - 1 : o[i].closed # 0 /\ Correct(bars, o[i])
  BY <1>2, <1>8 DEF LabInv, PositionIsLast
<1>12. ASSUME NEW i \in 2 .. Len(o)
       PROVE  o[i].opened - o[i - 1].closed > Cooldown + 1
  <2>1. CASE i <= Len(trades)
    BY <1>2, <1>8, <2>1 DEF LabInv, Apart
  <2>2. CASE i = Len(trades) + 1
    <3>1. o[i] = t /\ o[i - 1] = trades[Len(trades)] /\ Len(trades) > 0
      BY <1>2, <1>8, <2>2
    <3>2. cooldownUntil >= trades[Len(trades)].closed + Cooldown /\ Len(bars) - 1 >= cooldownUntil
      BY <3>1 DEF LabInv, SignalsWait
    <3>3. trades[Len(trades)] \in Trade
      BY <1>2, <3>1
    <3>4. trades[Len(trades)].closed \in Nat
      BY <3>3 DEF Trade
    <3>5. o[i].opened = Len(bars) + 1 /\ o[i - 1].closed = trades[Len(trades)].closed
      BY <1>6, <3>1
    <3>6. o[i].opened - trades[Len(trades)].closed > Cooldown + 1
      BY <1>1, <1>2, <3>2, <3>4, <3>5, WaitedApart
    <3> QED
      BY <3>5, <3>6
  <2> QED
    BY <1>2, <1>8, <2>1, <2>2
<1>13. Len(o) > 0 /\ o[Len(o)] = t
  BY <1>2, <1>8
<1>14. Ready(o, h, b)
  BY <1>8, <1>10, <1>11, <1>12, <1>13 DEF Ready
<1> QED
  BY <1>14 DEF o, t, h

LEMMA HeldReady ==
  ASSUME LabInv, NEW b \in Bars, position # NoValue
  PROVE  Ready(trades, position, b)
PROOF
<1> DEFINE t == trades[Len(trades)]
<1>1. /\ trades \in Seq(Trade) /\ bars \in Seq(Bars) /\ Len(bars) \in Nat /\ Len(trades) \in Nat
      /\ position \in Positions
  BY DEF LabInv, ReplayTypes
<1>2. /\ Len(trades) > 0 /\ Len(bars) > 0
      /\ position = [side |-> t.levels.side, reference |-> bars[Len(bars)].close,
                     stop |-> t.levels.stop, target |-> t.levels.target]
  BY DEF LabInv, PositionIsLast
<1>3. t \in Trade /\ t.closed = 0 /\ Correct(bars, t)
  BY <1>1, <1>2 DEF LabInv, PositionIsLast
<1> HIDE DEF t
<1>4. position.reference = bars[Len(bars)].close /\ position.reference \in Int
  BY <1>1, <1>2 DEF Positions
<1>5. /\ t.opened \in 1 .. Len(bars) /\ Warmup < t.opened /\ InOrder(t.levels)
  BY <1>3 DEF Correct, Placed
<1>6. Append(bars, b)[t.opened] = bars[t.opened]
  BY <1>1, <1>5
<1>7. FilledAt(bars[t.opened], t) /\ \A n \in t.opened .. Len(bars) : ~Over(t.levels, bars[n])
  BY <1>3 DEF Correct, Attained, HeldThrough
<1>8. /\ t.moved = bars[Len(bars)].close - t.fill /\ t.charges = 1
      /\ t.funded = IF Linear THEN Len(bars) - t.opened + 1 ELSE 0
  BY <1>3 DEF Correct, Counted
<1>9. Holding(t, position, b)
  <2>1. position = [side |-> t.levels.side, reference |-> position.reference,
                    stop |-> t.levels.stop, target |-> t.levels.target]
    BY <1>2, <1>4
  <2>2. t.moved = position.reference - t.fill
    BY <1>4, <1>8
  <2>3. t.opened \in 1 .. Len(bars) + 1
    BY <1>1, <1>5
  <2> QED
    BY <1>3, <1>4, <1>5, <1>6, <1>7, <1>8, <2>1, <2>2, <2>3 DEF Holding
<1>10. \A i \in 1 .. Len(trades) - 1 : trades[i].closed # 0 /\ Correct(bars, trades[i])
  BY <1>1 DEF LabInv, PositionIsLast
<1> QED
  BY <1>1, <1>2, <1>9, <1>10 DEF Ready, t, LabInv, Apart

LEMMA RoundedTyped ==
  ASSUME NEW signal \in Signals, NEW x \in Int
  PROVE  RoundedLevels(SignalTerms(signal, x)) \in Levels
PROOF
<1> DEFINE terms == SignalTerms(signal, x)
<1>1. terms \in Levels
  BY LaboratoryAssumption DEF SignalTerms, Levels, Sides
<1>2. \A y \in Int : Floor(y) \in Int /\ Ceiling(y) \in Int
  BY LaboratoryAssumption DEF Floor, Ceiling
<1> HIDE DEF terms
<1>3. RoundedLevels(terms) \in Levels
  <2>1. CASE terms.side = "buy"
    BY <1>1, <1>2, <2>1 DEF RoundedLevels, Levels
  <2>2. CASE terms.side # "buy"
    BY <1>1, <1>2, <2>2 DEF RoundedLevels, Levels
  <2> QED
    BY <2>1, <2>2
<1> QED
  BY <1>3 DEF terms

(* A bar with nothing held: the closed trades stay, a signal may be left.  *)
LEMMA FlatBar ==
  ASSUME LabInv, NEW b \in Bars, Len(bars) < Length, position = NoValue,
         bars' = Append(bars, b), position' = NoValue, cooldownUntil' = cooldownUntil,
         trades' = trades, pending' \in Levels \cup {NoValue},
         pending' # NoValue => Len(bars) >= cooldownUntil /\ Len(bars) + 1 >= Warmup
  PROVE  LabInv'
PROOF
<1>1. /\ bars \in Seq(Bars) /\ trades \in Seq(Trade) /\ Len(bars) \in Nat /\ Len(trades) \in Nat
      /\ cooldownUntil \in Nat /\ Length \in Nat /\ Warmup \in Nat /\ Cooldown \in Nat
  BY LaboratoryAssumption DEF LabInv, ReplayTypes
<1>2. bars' \in Seq(Bars) /\ Len(bars') = Len(bars) + 1
  BY <1>1
<1>3. ReplayTypes'
  BY <1>1, <1>2 DEF LabInv, ReplayTypes
<1>4. \A i \in 1 .. Len(trades) : trades[i].closed # 0 /\ trades[i] \in Trade
  BY <1>1 DEF LabInv, PositionIsLast
<1>5. \A i \in 1 .. Len(trades) : Correct(bars', trades[i])
  BY <1>1, <1>4, ClosedStays DEF LabInv
<1>6. PositionIsLast'
  BY <1>4 DEF PositionIsLast
<1>7. SignalsWait'
  BY <1>1, <1>2 DEF LabInv, SignalsWait
<1>8. Apart'
  BY DEF LabInv, Apart
<1> QED
  BY <1>3, <1>5, <1>6, <1>7, <1>8 DEF LabInv

(* The trades after a bar that was booked to the last of them.             *)
LEMMA TradesAfter ==
  ASSUME NEW b \in Bars, NEW o, NEW h, Ready(o, h, b), bars \in Seq(Bars),
         NEW u \in Trade, u.opened = o[Len(o)].opened, Correct(Append(bars, b), u)
  PROVE  LET n == [o EXCEPT ![Len(o)] = u]
         IN  /\ n \in Seq(Trade) /\ Len(n) = Len(o) /\ Len(o) \in Nat /\ Len(o) > 0 /\ n[Len(o)] = u
             /\ \A i \in 1 .. Len(o) : Correct(Append(bars, b), n[i])
             /\ \A i \in 1 .. Len(o) - 1 : n[i].closed # 0
             /\ \A i \in 2 .. Len(o) : n[i].opened - n[i - 1].closed > Cooldown + 1
PROOF
<1> DEFINE n == [o EXCEPT ![Len(o)] = u]
<1>1. /\ o \in Seq(Trade) /\ Len(o) \in Nat /\ Len(o) > 0
      /\ \A i \in 1 .. Len(o) - 1 : o[i].closed # 0 /\ Correct(bars, o[i])
      /\ \A i \in 2 .. Len(o) : o[i].opened - o[i - 1].closed > Cooldown + 1
  BY DEF Ready
<1>2. /\ n \in Seq(Trade) /\ Len(n) = Len(o) /\ n[Len(o)] = u
      /\ \A i \in 1 .. Len(o) - 1 : n[i] = o[i]
  BY <1>1
<1> HIDE DEF n
<1>3. ASSUME NEW i \in 1 .. Len(o)
      PROVE  Correct(Append(bars, b), n[i])
  <2>1. CASE i = Len(o)
    BY <1>2, <2>1
  <2>2. CASE i # Len(o)
    <3>1. i \in 1 .. Len(o) - 1
      BY <1>1, <2>2
    <3>2. o[i] \in Trade
      BY <1>1
    <3> QED
      BY <1>1, <1>2, <3>1, <3>2, ClosedStays
  <2> QED
    BY <2>1, <2>2
<1>4. ASSUME NEW i \in 2 .. Len(o)
      PROVE  n[i].opened - n[i - 1].closed > Cooldown + 1
  <2>1. i - 1 \in 1 .. Len(o) - 1
    BY <1>1
  <2>2. n[i].opened = o[i].opened
    <3>1. CASE i = Len(o)
      BY <1>2, <3>1
    <3>2. CASE i # Len(o)
      <4>1. i \in 1 .. Len(o) - 1
        BY <1>1, <3>2
      <4> QED
        BY <1>2, <4>1
    <3> QED
      BY <3>1, <3>2
  <2> QED
    BY <1>1, <1>2, <2>1, <2>2
<1>5. \A i \in 1 .. Len(o) - 1 : n[i].closed # 0
  BY <1>1, <1>2
<1> QED
  BY <1>1, <1>2, <1>3, <1>4, <1>5 DEF n

(* A bar with a position: it is the last trade's, and is booked to it.     *)
LEMMA HeldBar ==
  ASSUME LabInv, NEW b \in Bars, Len(bars) < Length, NEW o, NEW h, Ready(o, h, b),
         bars' = Append(bars, b), pending' \in Levels \cup {NoValue},
         trades' = [o EXCEPT ![Len(o)] = After(o[Len(o)], h, b)],
         Closing(h, b) => position' = NoValue /\ cooldownUntil' = Len(bars) + Cooldown + 1,
         ~Closing(h, b) => position' = Marked(h, b) /\ cooldownUntil' = cooldownUntil,
         pending' # NoValue => Closing(h, b) /\ Len(bars) >= cooldownUntil' /\ Len(bars) + 1 >= Warmup
  PROVE  LabInv'
PROOF
<1> DEFINE t == o[Len(o)]
           u == After(t, h, b)
<1>1. /\ bars \in Seq(Bars) /\ Len(bars) \in Nat
      /\ cooldownUntil \in Nat /\ Length \in Nat /\ Warmup \in Nat /\ Cooldown \in Nat
      /\ NoValue \notin Positions
  BY LaboratoryAssumption DEF LabInv, ReplayTypes
<1>2. Holding(t, h, b)
  BY DEF Ready
<1> HIDE DEF t
<1>3. /\ u \in Trade /\ u.levels = t.levels /\ u.opened = t.opened
      /\ Closing(h, b) => u.closed = Len(bars) + 1
      /\ ~Closing(h, b) => u.closed = 0
      /\ Correct(Append(bars, b), u)
      /\ Marked(h, b) = [side |-> t.levels.side, reference |-> b.close,
                         stop |-> t.levels.stop, target |-> t.levels.target]
      /\ Marked(h, b) \in Positions
  BY <1>1, <1>2, BarBooked
<1>4. bars' \in Seq(Bars) /\ Len(bars') = Len(bars) + 1 /\ bars'[Len(bars) + 1] = b
  BY <1>1
<1> HIDE DEF u
<1>5. trades' = [o EXCEPT ![Len(o)] = u]
  BY DEF u, t
<1>n. u.opened = o[Len(o)].opened
  BY <1>3 DEF t
<1> DEFINE n == [o EXCEPT ![Len(o)] = u]
<1>m. /\ n \in Seq(Trade) /\ Len(n) = Len(o) /\ Len(o) \in Nat /\ Len(o) > 0 /\ n[Len(o)] = u
      /\ \A i \in 1 .. Len(o) : Correct(Append(bars, b), n[i])
      /\ \A i \in 1 .. Len(o) - 1 : n[i].closed # 0
      /\ \A i \in 2 .. Len(o) : n[i].opened - n[i - 1].closed > Cooldown + 1
  BY <1>1, <1>3, <1>n, TradesAfter
<1> HIDE DEF n
<1>t. trades' = n
  BY <1>5 DEF n
<1>6. /\ trades' \in Seq(Trade) /\ Len(trades') = Len(o) /\ Len(o) \in Nat /\ Len(o) > 0
      /\ trades'[Len(o)] = u
  BY <1>m, <1>t
<1>7. /\ \A i \in 1 .. Len(o) : Correct(Append(bars, b), trades'[i])
      /\ \A i \in 1 .. Len(o) - 1 : trades'[i].closed # 0
      /\ \A i \in 2 .. Len(o) : trades'[i].opened - trades'[i - 1].closed > Cooldown + 1
  BY <1>m, <1>t
<1>8. Apart' /\ \A i \in 1 .. Len(trades') : Correct(bars', trades'[i])
  BY <1>6, <1>7 DEF Apart
<1>9. Len(bars') <= Length
  BY <1>1, <1>4
<1>10. \A i \in 1 .. Len(o) : i = Len(o) \/ i \in 1 .. Len(o) - 1
  <2>1. Len(o) \in Nat
    BY <1>6
  <2> QED
    BY <2>1
<1>11. CASE Closing(h, b)
  <2>1. /\ position' = NoValue /\ cooldownUntil' = Len(bars) + Cooldown + 1
        /\ u.closed = Len(bars) + 1 /\ u.closed # 0 /\ cooldownUntil' \in Nat
    BY <1>1, <1>3, <1>11
  <2>2. ReplayTypes'
    BY <1>4, <1>6, <1>9, <2>1 DEF ReplayTypes
  <2>3. \A i \in 1 .. Len(trades') : trades'[i].closed # 0
    BY <1>6, <1>7, <1>10, <2>1
  <2>4. PositionIsLast'
    BY <2>1, <2>3 DEF PositionIsLast
  <2>5. trades'[Len(trades')].closed = Len(bars) + 1
    BY <1>6, <2>1
  <2>6. cooldownUntil' >= trades'[Len(trades')].closed + Cooldown
    BY <1>1, <2>1, <2>5
  <2>7. pending' # NoValue => Len(bars') >= Warmup /\ Len(bars') - 1 >= cooldownUntil'
    BY <1>1, <1>4, <2>1
  <2>8. SignalsWait'
    BY <2>1, <2>6, <2>7 DEF SignalsWait
  <2> QED
    BY <1>8, <2>2, <2>4, <2>8 DEF LabInv
<1>12. CASE ~Closing(h, b)
  <2>1. /\ position' = Marked(h, b) /\ cooldownUntil' = cooldownUntil /\ pending' = NoValue
        /\ position' # NoValue /\ position' \in Positions /\ u.closed = 0
    BY <1>1, <1>3, <1>12
  <2>2. ReplayTypes'
    BY <1>1, <1>4, <1>6, <1>9, <2>1 DEF ReplayTypes
  <2>3. Len(bars') < Length /\ Len(bars') > 0
    BY <1>1, <1>4, <1>12 DEF Closing
  <2>4. ASSUME NEW i \in 1 .. Len(trades')
        PROVE  trades'[i].closed = 0 <=> i = Len(trades')
    <3>1. CASE i = Len(o)
      BY <1>6, <2>1, <3>1
    <3>2. CASE i # Len(o)
      BY <1>6, <1>7, <1>10, <3>2
    <3> QED
      BY <3>1, <3>2
  <2>5. position' = [side |-> u.levels.side, reference |-> bars'[Len(bars')].close,
                     stop |-> u.levels.stop, target |-> u.levels.target]
    BY <1>3, <1>4, <2>1
  <2>6. trades'[Len(trades')] = u /\ Len(trades') > 0
    BY <1>6
  <2>7. PositionIsLast'
    BY <2>1, <2>3, <2>4, <2>5, <2>6 DEF PositionIsLast
  <2>8. SignalsWait'
    BY <2>1 DEF SignalsWait
  <2> QED
    BY <1>8, <2>2, <2>7, <2>8 DEF LabInv
<1> QED
  BY <1>11, <1>12

LEMMA ReplayStep ==
  ASSUME LabInv, NextBar
  PROVE  LabInv'
PROOF
<1>1. PICK b \in Bars, sized \in BOOLEAN, signal \in Signals \cup {NoValue} : Replay(b, sized, signal)
  BY DEF NextBar
<1> DEFINE opening == pending # NoValue /\ position = NoValue /\ sized /\ InOrder(pending) /\ Touches(pending, b)
           h == IF opening THEN Opened(pending, b) ELSE position
           o == IF opening THEN Append(trades, NewTrade(pending, b)) ELSE trades
           closing == h # NoValue /\ Closing(h, b)
           until == IF closing THEN Len(bars) + Cooldown + 1 ELSE cooldownUntil
           deciding == (h = NoValue \/ closing) /\ Len(bars) >= until /\ Len(bars) + 1 >= Warmup
<1>2. /\ bars' = Append(bars, b)
      /\ position' = IF h = NoValue \/ closing THEN NoValue ELSE Marked(h, b)
      /\ cooldownUntil' = until
      /\ pending' = IF deciding /\ signal # NoValue
                     THEN RoundedLevels(SignalTerms(signal, b.close)) ELSE NoValue
      /\ trades' = IF h = NoValue THEN o
                    ELSE [o EXCEPT ![Len(o)] = Booked(o[Len(o)], MarkOf(h, b) - h.reference, closing, MarkOf(h, b))]
  BY <1>1 DEF Replay, MarkOf, Closing
<1>3. Len(bars) < Length
  BY DEF NextBar
<1>4. b.close \in Int
  BY LaboratoryAssumption DEF OHLC
<1>5. pending' \in Levels \cup {NoValue} /\ (pending' # NoValue => deciding)
  <2> HIDE DEF deciding
  <2> QED
    BY <1>2, <1>4, RoundedTyped
<1>6. CASE opening
  <2>1. h = Opened(pending, b) /\ o = Append(trades, NewTrade(pending, b)) /\ Ready(o, h, b)
    BY <1>6, OpeningReady
  <2>2. h \in Positions
    <3>1. FillPrice(pending, b) \in Int /\ pending \in Levels
      BY <1>6, FillIs, LaboratoryAssumption DEF LabInv, ReplayTypes
    <3> QED
      BY <2>1, <3>1 DEF Opened, Levels, Positions
  <2>3. h # NoValue
    BY <2>2, LaboratoryAssumption
  <2>4. closing = Closing(h, b)
    BY <2>3 DEF Closing
  <2> HIDE DEF h, o, opening
  <2> QED
    BY <1>2, <1>3, <1>5, <2>1, <2>3, <2>4, HeldBar DEF After
<1>7. CASE ~opening /\ position # NoValue
  <2>1. h = position /\ o = trades /\ h # NoValue /\ Ready(o, h, b)
    BY <1>7, HeldReady
  <2>2. closing = Closing(h, b)
    BY <2>1 DEF Closing
  <2> HIDE DEF h, o, opening
  <2> QED
    BY <1>2, <1>3, <1>5, <2>1, <2>2, HeldBar DEF After
<1>8. CASE ~opening /\ position = NoValue
  <2>1. h = NoValue /\ o = trades
    BY <1>8
  <2> QED
    BY <1>2, <1>3, <1>5, <1>8, <2>1, FlatBar
<1> QED
  BY <1>6, <1>7, <1>8

(* The inductive invariant of the replay, for every series and strategy.   *)
THEOREM ReplayInvariance == LabSpec => []LabInv
PROOF
<1>1. LabInit => LabInv
  <2> SUFFICES ASSUME LabInit
               PROVE  LabInv
    OBVIOUS
  <2>1. bars = <<>> /\ trades = <<>> /\ Len(bars) = 0 /\ Len(trades) = 0
        /\ pending = NoValue /\ position = NoValue /\ cooldownUntil = 0
    BY DEF LabInit
  <2>2. ReplayTypes
    BY <2>1, LaboratoryAssumption DEF ReplayTypes
  <2> QED
    BY <2>1, <2>2 DEF LabInv, PositionIsLast, SignalsWait, Apart
<1>2. LabInv /\ [LabNext]_labVars => LabInv'
  <2> SUFFICES ASSUME LabInv, [LabNext]_labVars
               PROVE  LabInv'
    OBVIOUS
  <2>1. CASE UNCHANGED labVars
    BY <2>1 DEF labVars, LabInv, ReplayTypes, PositionIsLast, SignalsWait, Apart
  <2>2. CASE LabNext
    BY <2>2, ReplayStep DEF LabNext
  <2> QED
    BY <2>1, <2>2
<1> QED
  BY <1>1, <1>2, PTL DEF LabSpec

(* TradesAttainable: a replayed trade is one that could have been had, for *)
(* every series of bars and whatever the strategy says.                    *)
THEOREM ReplayAttainable == LabSpec => []TradesAttainable
PROOF
<1>1. LabInv => TradesAttainable
  <2> SUFFICES ASSUME LabInv
               PROVE  TradesAttainable
    OBVIOUS
  <2>1. DOMAIN trades = 1 .. Len(trades)
    BY DEF LabInv, ReplayTypes
  <2> SUFFICES ASSUME NEW i \in 1 .. Len(trades)
               PROVE  LET t == trades[i]
                          l == t.levels
                          first == bars[t.opened]
                          lastBar == bars[t.closed]
                      IN  /\ first.low <= t.fill /\ t.fill <= first.high
                          /\ Gain(l.side, t.fill, l.entry) >= 0
                          /\ \A n \in t.opened .. (IF t.closed = 0 THEN Len(bars) ELSE t.closed - 1) :
                               ~Over(l, bars[n])
                          /\ t.closed # 0 =>
                               /\ Over(l, lastBar) \/ t.closed = Length
                               /\ Gain(l.side, l.target, t.exit) <= 0
                               /\ \E x \in {lastBar.low, lastBar.high} : Gain(l.side, t.exit, x) >= 0
                               /\ (\E x \in {lastBar.low, lastBar.high} : Gain(l.side, l.stop, x) <= 0)
                                    => Gain(l.side, l.stop, t.exit) <= 0
    BY <2>1 DEF TradesAttainable
  <2>2. Attained(bars, trades[i])
    BY DEF LabInv, Correct
  <2> QED
    BY <2>2, Zenon DEF Attained, FilledAt, ExitedAt, HeldThrough
<1> QED
  BY <1>1, ReplayInvariance, PTL

(* EveryMoveOnce: the moves of a trade add up to what it made, costs and   *)
(* funding are charged once each, trades keep the cooldown and the series  *)
(* ends flat.                                                              *)
THEOREM MovesOnce == LabSpec => []EveryMoveOnce
PROOF
<1>1. LabInv => EveryMoveOnce
  <2> SUFFICES ASSUME LabInv
               PROVE  EveryMoveOnce
    OBVIOUS
  <2>1. DOMAIN trades = 1 .. Len(trades) /\ Len(trades) \in Nat
    BY DEF LabInv, ReplayTypes
  <2> SUFFICES ASSUME NEW i \in 1 .. Len(trades)
               PROVE  LET t == trades[i]
                          end == IF t.closed = 0 THEN Len(bars) ELSE t.closed
                      IN  /\ t.moved = (IF t.closed = 0 THEN bars[end].close ELSE t.exit) - t.fill
                          /\ t.charges = IF t.closed = 0 THEN 1 ELSE 2
                          /\ t.funded = IF Linear THEN end - t.opened + 1 ELSE 0
                          /\ t.opened > Warmup
                          /\ t.closed = 0 => i = Len(trades) /\ Len(bars) < Length
                          /\ i > 1 => /\ trades[i - 1].closed # 0
                                      /\ t.opened - trades[i - 1].closed > Cooldown + 1
    BY <2>1 DEF EveryMoveOnce
  <2>2. Counted(bars, trades[i]) /\ trades[i].opened > Warmup
    <3>1. trades[i] \in Trade /\ Warmup \in Nat
      BY <2>1, LaboratoryAssumption DEF LabInv, ReplayTypes
    <3>2. trades[i].opened \in Nat
      BY <3>1 DEF Trade
    <3> QED
      BY <3>1, <3>2 DEF LabInv, Correct, Placed
  <2>3. trades[i].closed = 0 => i = Len(trades) /\ Len(bars) < Length
    BY DEF LabInv, PositionIsLast
  <2>4. ASSUME i > 1
        PROVE  trades[i - 1].closed # 0 /\ trades[i].opened - trades[i - 1].closed > Cooldown + 1
    <3>1. i - 1 \in 1 .. Len(trades) /\ i - 1 # Len(trades) /\ i \in 2 .. Len(trades)
      BY <2>1, <2>4
    <3> QED
      BY <3>1 DEF LabInv, PositionIsLast, Apart
  <2> QED
    BY <2>2, <2>3, <2>4, Zenon DEF Counted
<1> QED
  BY <1>1, ReplayInvariance, PTL

-----------------------------------------------------------------------------
(* The machines share no variable: what is proved of each holds of the     *)
(* behaviours the run explores.                                            *)
THEOREM MachinesApart == MCSpec => MandateSpec /\ LabSpec
PROOF
<1>1. MCInit => MandateInit /\ LabInit
  BY DEF MCInit
<1>2. [MCNext]_allVars => [MandateNext]_mandateVars /\ [LabNext]_labVars
  <2> SUFFICES ASSUME [MCNext]_allVars
               PROVE  [MandateNext]_mandateVars /\ [LabNext]_labVars
    OBVIOUS
  <2>1. CASE UNCHANGED allVars
    BY <2>1 DEF allVars
  <2>2. CASE MCNext
    BY <2>2 DEF MCNext
  <2> QED
    BY <2>1, <2>2
<1> QED
  BY <1>1, <1>2, PTL DEF MCSpec, MandateSpec, LabSpec

=============================================================================
