--------------------------- MODULE ProposalPromise ---------------------------
(***************************************************************************)
(* What the write path promises about each trade proposal, without saying  *)
(* how: an open proposal is either withdrawn or committed, never both; the *)
(* broker is asked to place an order for it at most once, and only after   *)
(* the commitment; a commitment can only be closed.                        *)
(*                                                                         *)
(* Closing does not wait for the placement: the closing of one position    *)
(* closes every commitment of its symbol, one whose single place call is   *)
(* still to come included (OrderExecution, ReplaceOpenPositions).          *)
(***************************************************************************)
CONSTANT Proposals

VARIABLES
  phase,   \* of each proposal
  calls    \* the place calls made for each proposal

vars == <<phase, calls>>

Init ==
  /\ phase = [p \in Proposals |-> "open"]
  /\ calls = [p \in Proposals |-> {}]

Shift(ps, from, to) ==
  /\ \A p \in ps : phase[p] = from
  /\ phase' = [p \in Proposals |-> IF p \in ps THEN to ELSE phase[p]]
  /\ UNCHANGED calls

Withdraw(ps) == Shift(ps, "open", "withdrawn")
Commit(p)    == Shift({p}, "open", "committed")
Close(ps)    == Shift(ps, "committed", "closed")

Place(p) ==
  /\ phase[p] \in {"committed", "closed"}
  /\ calls[p] = {}
  /\ \E c \in calls'[p] : calls' = [calls EXCEPT ![p] = {c}]
  /\ UNCHANGED phase

Next ==
  \/ \E ps \in SUBSET Proposals : Withdraw(ps) \/ Close(ps)
  \/ \E p \in Proposals : Commit(p) \/ Place(p)

Spec == Init /\ [][Next]_vars

=============================================================================
