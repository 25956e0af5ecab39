-------------------------- MODULE OpportunitySizing --------------------------
(***************************************************************************)
(* OpportunitySizingPolicy.size: how much of an opportunity the pipeline   *)
(* proposes, from the market's levels, the account, the strategy's and the *)
(* user's limits and the opinion of the agents, or why it proposes nothing.*)
(*                                                                         *)
(* The code computes with decimals; here every quantity is an integer in a *)
(* unit of its own, and a quotient is compared crosswise or floored. A     *)
(* quantity counts quantity steps, a price is the money one step of it     *)
(* costs, and the fractions count parts of Unit, LossUnit or CostUnit.     *)
(***************************************************************************)
EXTENDS Integers

CONSTANTS
  Opportunities,  \* the inputs considered
  Unit,           \* what confidences, correlations and caps are parts of
  LossUnit,       \* what max_loss_per_trade_pct is a part of
  CostUnit,       \* what round_trip_cost_bps is a part of (10000)
  Platform        \* PLATFORM_MAX_LEVERAGE (20)

Positive == Nat \ {0}
Share    == 0 .. Unit

(* OpportunitySizingInput. The side is told by the levels.                 *)
Opportunity ==
  [spot : BOOLEAN,
   entry : Positive, stop : Positive, target : Positive,
   equity : Positive, balance : Nat, gross : Nat, correlated : Share,
   strategyMax : Share \ {0}, reserve : Share, maxLoss : 1 .. LossUnit,
   mandate : Positive, venue : Positive, asked : Positive, confidence : Share,
   minQuantity : Nat, minNotional : Nat, cost : Nat]

(* validate_directional_levels.                                            *)
Directed(i) ==
  \/ i.stop < i.entry /\ i.entry < i.target
  \/ i.target < i.entry /\ i.entry < i.stop

ASSUME SizingAssumption ==
  /\ Unit \in Positive /\ LossUnit \in Positive /\ CostUnit \in Positive
  /\ Platform \in Positive
  /\ \A i \in Opportunities : i \in Opportunity /\ Directed(i)

VARIABLES
  opportunity,  \* the input
  sizing        \* what size answered

vars == <<opportunity, sizing>>

Verdict == {"pending", "sized", "reward_to_risk", "unfunded", "minimum", "over_budget"}
Sizing  == [verdict : Verdict, quantity : Nat, leverage : Nat]

(* OpportunitySizing: a sized order has a quantity and a legal leverage.   *)
TypeOK ==
  /\ opportunity \in Opportunity
  /\ sizing \in Sizing
  /\ sizing.verdict = "sized" => sizing.quantity > 0 /\ sizing.leverage \in 1 .. Platform

-----------------------------------------------------------------------------
(* The algorithm.                                                          *)

Lesser(a, b)  == IF a <= b THEN a ELSE b
Greater(a, b) == IF a >= b THEN a ELSE b
Distance(a, b) == IF a >= b THEN a - b ELSE b - a

(* _leverage.                                                              *)
Leverage(i) ==
  IF i.spot THEN 1
  ELSE Lesser(Lesser(i.asked, i.mandate), Lesser(i.venue, Platform))

(* 0.35 + 0.65 * agent_confidence, in parts of 20 * Unit.                  *)
ConfidenceMultiplier(i) == 7 * Unit + 13 * i.confidence

(* Mutant of CorrelationMultiplier: the floor is the correlation itself.   *)
CorrelationMultiplierFlipped(i) == Greater(Unit, 5 * i.correlated)

(* max(0.20, 1 - correlated_exposure_pct), in parts of 5 * Unit.           *)
CorrelationMultiplier(i) == Greater(Unit, 5 * (Unit - i.correlated))

(* risk_budget, in parts of LossUnit * (20 * Unit) * (5 * Unit).           *)
RiskBudget(i) ==
  i.equity * i.maxLoss * (ConfidenceMultiplier(i) * CorrelationMultiplier(i))
RiskBudgetUnit == LossUnit * ((20 * Unit) * (5 * Unit))

(* cost_per_unit, loss_per_unit and reward_per_unit, in parts of CostUnit. *)
CostPerUnit(i)   == i.entry * i.cost
LossPerUnit(i)   == CostUnit * Distance(i.entry, i.stop) + CostPerUnit(i)
RewardPerUnit(i) == Greater(CostUnit * Distance(i.target, i.entry) - CostPerUnit(i), 0)

(* reward_to_risk < 1.25.                                                  *)
PoorReward(i) == 4 * RewardPerUnit(i) < 5 * LossPerUnit(i)

(* margin_budget: 0.35 of the balance, scaled by 1 - exposure_ratio, which *)
(* never falls below a quarter; in parts of 20 * (4 * equity).             *)
MarginBudget(i) == 7 * i.balance * Greater(4 * (i.equity - i.gross), i.equity)
MarginBudgetUnit(i) == 20 * (4 * i.equity)

(* reserve_capacity, in parts of Unit.                                     *)
Reserve(i) == Greater(i.equity * (Unit - i.reserve) - i.gross * Unit, 0)

(* Mutant of Steps: the quantity is rounded up to the step.                *)
StepsUp(n, d) == (n + d - 1) \div d

(* _floor_to_step of a quotient. The floor of the smallest quotient is the *)
(* smallest of the floors.                                                 *)
Steps(n, d) == n \div d

QuantityByRisk(i)     == Steps(RiskBudget(i) * CostUnit, RiskBudgetUnit * LossPerUnit(i))
QuantityByMargin(i)   == Steps(MarginBudget(i) * Leverage(i), MarginBudgetUnit(i) * i.entry)
QuantityByStrategy(i) == Steps(i.equity * i.strategyMax, Unit * i.entry)
QuantityByReserve(i)  == Steps(Reserve(i), Unit * i.entry)

(* Mutant of Quantity: the strategy's cap is left out.                     *)
QuantityUncapped(i) ==
  Lesser(Lesser(QuantityByRisk(i), QuantityByMargin(i)), QuantityByReserve(i))

Quantity(i) ==
  Lesser(Lesser(QuantityByRisk(i), QuantityByMargin(i)),
         Lesser(QuantityByStrategy(i), QuantityByReserve(i)))

(* The last check: the rounded order against the two budgets again.        *)
OverBudget(i, q) ==
  \/ q * LossPerUnit(i) * RiskBudgetUnit > RiskBudget(i) * CostUnit
  \/ q * i.entry * MarginBudgetUnit(i) > MarginBudget(i) * Leverage(i)

BelowMinimum(i, q) == q < i.minQuantity \/ q * i.entry < i.minNotional

Rejected(verdict) == [verdict |-> verdict, quantity |-> 0, leverage |-> 0]

(* OpportunitySizingPolicy.size.                                           *)
Size(i) ==
  LET q == Quantity(i)
  IN  CASE PoorReward(i) -> Rejected("reward_to_risk")
        [] ~PoorReward(i) /\ q <= 0 -> Rejected("unfunded")
        [] ~PoorReward(i) /\ q > 0 /\ BelowMinimum(i, q) -> Rejected("minimum")
        [] ~PoorReward(i) /\ q > 0 /\ ~BelowMinimum(i, q) ->
             IF OverBudget(i, q) THEN Rejected("over_budget")
             ELSE [verdict |-> "sized", quantity |-> q, leverage |-> Leverage(i)]

-----------------------------------------------------------------------------

Init ==
  /\ opportunity \in Opportunities
  /\ sizing = Rejected("pending")

SizeOpportunity ==
  /\ sizing.verdict = "pending"
  /\ sizing' = Size(opportunity)
  /\ UNCHANGED opportunity

Next == SizeOpportunity

Spec == Init /\ [][Next]_vars

-----------------------------------------------------------------------------
(* Properties.                                                             *)

(* "Its output cannot raise a deterministic limit" and spot remains 1x:    *)
(* whatever the agents say, a sized order keeps under each leverage        *)
(* ceiling, loses at its stop, costs included, no more than the mandate    *)
(* allows of the equity, puts up no more margin than 35% of the balance,   *)
(* stays under the strategy's cap and, with what is already exposed, out   *)
(* of the reserve.                                                         *)
WithinLimits(i, q, leverage) ==
  /\ leverage <= i.mandate /\ leverage <= i.venue /\ leverage <= Platform
  /\ i.spot => leverage = 1
  /\ q * LossPerUnit(i) * LossUnit <= i.equity * i.maxLoss * CostUnit
  /\ q * i.entry * 20 <= 7 * i.balance * leverage
  /\ q * i.entry * Unit <= i.equity * i.strategyMax
  /\ (i.gross + q * i.entry) * Unit <= i.equity * (Unit - i.reserve)

LimitsHold ==
  sizing.verdict = "sized" => WithinLimits(opportunity, sizing.quantity, sizing.leverage)

(* The reference: the quantities that fit every budget, crosswise.         *)
Affordable(i, q) ==
  /\ q * (RiskBudgetUnit * LossPerUnit(i)) <= RiskBudget(i) * CostUnit
  /\ q * (MarginBudgetUnit(i) * i.entry) <= MarginBudget(i) * Leverage(i)
  /\ q * (Unit * i.entry) <= i.equity * i.strategyMax
  /\ q * (Unit * i.entry) <= Reserve(i)

(* No affordable quantity is larger: the strategy's cap is part of the     *)
(* equity.                                                                 *)
Candidates(i) == 0 .. i.equity \div i.entry

(* The rounding loses nothing and gives up on nothing: a sized order is    *)
(* the largest affordable one, and an order is refused for its budgets or  *)
(* for the exchange's minimum only if no quantity would do.                *)
LargestAffordable ==
  LET i == opportunity
      q == sizing.quantity
  IN  /\ sizing.verdict = "sized" =>
           /\ Affordable(i, q)
           /\ \A n \in Candidates(i) : Affordable(i, n) => n <= q
      /\ sizing.verdict \in {"unfunded", "minimum", "over_budget"} =>
           \A n \in Candidates(i) : n > 0 /\ Affordable(i, n) => BelowMinimum(i, n)

(* The agents' caution and the account's correlation only ever reduce an   *)
(* order: a more confident opinion that asks for more leverage, on a less  *)
(* correlated portfolio, is sized too, and no smaller.                     *)
CautionOnlyReduces ==
  sizing.verdict = "sized" =>
    \A c \in opportunity.confidence .. Unit, k \in 0 .. opportunity.correlated,
       a \in opportunity.asked .. Platform :
      LET bolder == Size([opportunity EXCEPT !.confidence = c, !.correlated = k, !.asked = a])
      IN  bolder.verdict = "sized" /\ bolder.quantity >= sizing.quantity

=============================================================================
