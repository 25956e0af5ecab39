------------------------ MODULE MCBrokerConnections ------------------------
(* Small instances of BrokerConnections.                                   *)
EXTENDS BrokerConnections, TLC

(* Sound: the specification only compares the members of these sets.       *)
Symmetry == Permutations(Connections) \cup Permutations(Calls) \cup Permutations(Proposals)

=============================================================================
