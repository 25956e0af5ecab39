------------------------- MODULE MCExecutionActions -------------------------
(* Small instances of ExecutionActions.                                    *)
EXTENDS ExecutionActions, TLC

(* Sound for the runs without liveness: the specification only compares    *)
(* the members of these sets.                                              *)
Symmetry == Permutations(Calls) \cup Permutations(Keys) \cup Permutations(Reviews)
              \cup Permutations(Stops)

=============================================================================
