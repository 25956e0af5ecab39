------------------------ MODULE MCStrategyGovernance ------------------------
(* Small instances of StrategyGovernance.                                  *)
EXTENDS StrategyGovernance, TLC

Symmetry == Permutations(Handlers)

=============================================================================
