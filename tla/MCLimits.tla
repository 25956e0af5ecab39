------------------------------ MODULE MCLimits ------------------------------
(* What bounds new risk, on small instances: the sizing of an opportunity,  *)
(* the investor's mandate with the drawdown gate, and the laboratory's      *)
(* replay. They share no variable: a behaviour is one of them, and the      *)
(* others stay where they began.                                            *)
EXTENDS OpportunitySizing, InvestorMandate, Laboratory, TLC

VARIABLE machine  \* which of them this behaviour is

allVars == <<vars, mandateVars, labVars, machine>>

-----------------------------------------------------------------------------
(* The levels of two longs and a short; the second long rewards too little *)
(* once it pays its costs.                                                 *)
SizingLevels == {<<40, 39, 44>>, <<40, 39, 42>>, <<40, 42, 36>>}

(* Every budget is the smallest one somewhere, confidence and correlation  *)
(* take their ends and their middle, and the minimums exclude some orders. *)
SomeOpportunities ==
  { [spot |-> s, entry |-> l[1], stop |-> l[2], target |-> l[3],
     equity |-> e, balance |-> b, gross |-> g, correlated |-> k,
     strategyMax |-> p, reserve |-> f, maxLoss |-> 1,
     mandate |-> m, venue |-> 3, asked |-> a, confidence |-> c,
     minQuantity |-> n, minNotional |-> v, cost |-> t] :
       s \in BOOLEAN, l \in SizingLevels, e \in {400, 900}, b \in {0, 150, 400}, g \in {0, 300},
       k \in {0, 2, 4}, p \in {1, 4}, f \in {0, 3}, m \in {1, 5}, a \in {1, 4},
       c \in {0, 2, 4}, n \in {0, 2}, v \in {0, 100}, t \in {0, 2} }
(* A growth investor with every right, the same one turned careful, and    *)
(* one who withdraws the acceptance of the disclosures.                    *)
Bold == [goals |-> {"capital_growth"}, liquidity |-> "low", investing |-> "advanced",
         trading |-> "advanced", products |-> {"futures"}, frequency |-> "weekly",
         drawdown |-> "hold"]
Careful == [Bold EXCEPT !.goals = {"capital_growth", "capital_preservation"}]

SomeProfiles == {[answers |-> Bold, accepted |-> TRUE], [answers |-> Careful, accepted |-> TRUE],
                 [answers |-> Bold, accepted |-> FALSE]}

(* Two offers at the careful mandate's loss for an equity of 100, one of   *)
(* them with the leverage and the category that only the bold one allows.  *)
SomeTerms == {[leverage |-> 2, linear |-> FALSE, loss |-> 50],
              [leverage |-> 40, linear |-> TRUE, loss |-> 50]}

AccountSymmetry == Permutations(Accounts)

(* Bars around the levels of the signals: still, rising, touching only the *)
(* stop, only the target or both, and gapping over either.                 *)
Bar(o, h, l, c) == [open |-> o, high |-> h, low |-> l, close |-> c]
SomeBars == {Bar(7, 7, 7, 7), Bar(7, 9, 5, 8), Bar(8, 9, 7, 9), Bar(3, 3, 2, 3),
             Bar(5, 8, 3, 7), Bar(12, 12, 11, 12), Bar(7, 11, 3, 6)}
SomeSignals == {[side |-> "buy", risk |-> 2, reward |-> 3], [side |-> "sell", risk |-> 2, reward |-> 3]}

-----------------------------------------------------------------------------

Machines == {"sizing", "mandate", "answers", "replay"}

MCInit ==
  /\ machine \in Machines
  /\ sizing = Rejected("pending")
  /\ opportunity \in IF machine = "sizing" THEN Opportunities
                     ELSE {CHOOSE i \in Opportunities : TRUE}
  /\ MandateInit
  /\ LabInit

MCNext ==
  \/ machine = "sizing" /\ Next /\ UNCHANGED <<mandateVars, labVars, machine>>
  \/ machine = "mandate" /\ MandateNext /\ UNCHANGED <<vars, labVars, machine>>
  \/ machine = "replay" /\ LabNext /\ UNCHANGED <<vars, mandateVars, machine>>

MCSpec == MCInit /\ [][MCNext]_allVars

(* derive_adaptive_mandate "never learns a higher limit": whatever the     *)
(* answers, a more careful one leaves no limit higher, no limit passes the *)
(* platform's own, and the highest take every answer together: any one     *)
(* that is more careful takes them away.                                   *)
CautionNeverRaises ==
  machine = "answers" =>
    \A a \in Answers :
      LET m == AdaptiveMandate(a)
      IN  /\ m.loss <= 200 /\ m.drawdown <= 20 /\ m.leverage <= 40
          /\ m.leverage > 3 => m.derivatives
          /\ \A b \in MoreCareful(a) :
               LET n == AdaptiveMandate(b)
               IN  /\ n.loss <= m.loss /\ n.drawdown <= m.drawdown /\ n.leverage <= m.leverage
                   /\ n.derivatives => m.derivatives
                   /\ b # a /\ m.leverage > 3 => n.leverage < m.leverage

=============================================================================
