---------------------------- MODULE OrderStates ----------------------------
(***************************************************************************)
(* The vocabulary shared by the execution modules: the durable states of a *)
(* broker_orders row, the order statuses the broker reports, and the table *)
(* that translates the second into the first.                              *)
(***************************************************************************)

(* BrokerOrderState.                                                       *)
OrderState ==
  {"submitting", "acknowledged", "partially_filled", "filled", "cancelling",
   "cancelled", "rejected", "submission_unknown", "reconciliation_required"}

(* Mutants of Reconcilable: an order nobody knows the fate of is not       *)
(* polled; one being cancelled is not.                                     *)
ReconcilableForgetsUnknown ==
  {"submitting", "acknowledged", "partially_filled", "cancelling", "reconciliation_required"}

ReconcilableForgetsCancelling ==
  {"submitting", "acknowledged", "partially_filled", "submission_unknown",
   "reconciliation_required"}

(* The states ExecutionStore.list_reconcilable_orders selects.             *)
Reconcilable ==
  {"submitting", "acknowledged", "partially_filled", "cancelling",
   "submission_unknown", "reconciliation_required"}

(* The others are never polled again.                                      *)
Terminal == OrderState \ Reconcilable

(* Mutant of MapOrderState: a partial fill counts as a fill.               *)
MapOrderStateEager(status) ==
  IF status \in {"PartiallyFilled", "Filled"} THEN "filled" ELSE "acknowledged"

(* _ORDER_STATE_MAP and map_order_state: a status missing from the table   *)
(* asks for reconciliation.                                                *)
MapOrderState(status) ==
  CASE status \in {"Created", "New", "Untriggered", "Triggered"} -> "acknowledged"
    [] status = "PartiallyFilled" -> "partially_filled"
    [] status = "Filled" -> "filled"
    [] status \in {"Cancelled", "PartiallyFilledCanceled", "Deactivated"} -> "cancelled"
    [] status = "Rejected" -> "rejected"
    [] OTHER -> "reconciliation_required"

(* What the broker knows of an order: nothing, or a status and whether any *)
(* of it has executed (cumExecQty > 0). "Unlisted" stands for every status *)
(* the table does not name, "New" for the four that mean working and       *)
(* untouched, "Cancelled" for the three that mean stopped.                 *)
BrokerStatus == {"New", "Unlisted", "PartiallyFilled", "Filled", "Cancelled", "Rejected"}
BrokerOrder  == [status : BrokerStatus \cup {"None"}, executed : BOOLEAN]

NoBrokerOrder == [status |-> "None", executed |-> FALSE]

Working(o)  == o.status \in {"New", "Unlisted", "PartiallyFilled"}
Finished(o) == o.status \in {"Filled", "Cancelled", "Rejected"}

(* BybitHttpGateway._signed_post: what a call that was sent can end in. An *)
(* envelope of the broker acknowledges or refuses it (BrokerOrderRejected).*)
(* No answer in time, an HTTP error or an unreadable body fails it         *)
(* (BrokerProviderError), whatever the broker has done or will do.         *)
Outcomes(answer) == {"failed"} \cup ({answer} \ {"none"})

(* The broker's own moves on an order it holds: a status the table does    *)
(* not list, a partial or full fill, a cancellation, a late rejection.     *)
BrokerMoves(o) ==
  { n \in BrokerOrder :
      /\ Working(o)
      /\ \/ n = [o EXCEPT !.status = "Unlisted"] /\ o.status = "New"
         \/ n = [status |-> "PartiallyFilled", executed |-> TRUE] /\ o.status # "PartiallyFilled"
         \/ n = [status |-> "Filled", executed |-> TRUE]
         \/ n = [o EXCEPT !.status = "Cancelled"]
         \/ n = [o EXCEPT !.status = "Rejected"] /\ ~o.executed }

=============================================================================
