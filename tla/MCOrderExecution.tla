-------------------------- MODULE MCOrderExecution --------------------------
(* Small instances of OrderExecution.                                      *)
EXTENDS OrderExecution, TLC

(* Every proposal expires when the clock stops.                            *)
Expiry == [p \in Proposals |-> MaxTime]

(* No proposal expires.                                                    *)
Later == [p \in Proposals |-> MaxTime + 1]

(* Sound for the runs without liveness: the specification only compares    *)
(* the members of these sets.                                              *)
Symmetry == Permutations(Requests) \cup Permutations(Proposals)
              \cup Permutations(Keys) \cup Permutations(Reviews)

=============================================================================
