-------------------------- MODULE ExecutionActions --------------------------
(***************************************************************************)
(* What a user may do to an order or a position that exists: cancel the    *)
(* order, close the position, move its stop and target. Each is reviewed,  *)
(* confirmed, sent to the broker once, acknowledged or not, and completed  *)
(* when reconciliation sees its effect.                                    *)
(*                                                                         *)
(* One working order and one position row of one account. The actors are   *)
(* the review handlers, the confirming calls (ExecutionService.cancel_     *)
(* order, close_position, update_position_protection), the reconciliation  *)
(* worker and the broker. Every transaction is a step and every await of   *)
(* the broker a boundary between steps. The proposals that the same        *)
(* reconciliation archives are OrderExecution's.                           *)
(*                                                                         *)
(* An action row is named by the call that inserted it. What the broker    *)
(* calls the position's sequence stands for its size and side too.         *)
(***************************************************************************)
EXTENDS Naturals, FiniteSets, OrderStates

CONSTANTS
  Calls,        \* confirming calls
  Keys,         \* idempotency keys
  Reviews,      \* execution action reviews
  Workers,      \* reconciliation workers
  Scopes,       \* the kinds of action clients take together: those of one target
  Stops,        \* stop and target boundaries
  None,         \* no value
  MaxSequence   \* bound of the broker's moves of the position

ASSUME ActionsAssumption ==
  /\ Scopes \subseteq SUBSET {"cancel", "close", "protect"}
  /\ None \notin Calls
  /\ MaxSequence \in Nat

VARIABLES
  connected,      \* the account is active and its credential is there
  orderTruth,     \* the broker's order
  positionTruth,  \* the broker's position
  orderRow,       \* broker_orders: the state and the snapshot last written
  positionRow,    \* broker_positions
  review,         \* execution_action_reviews, with the handler creating each
  action,         \* execution_actions.state of the row each call inserted
  ask,            \* what each call names (never changes)
  pc,             \* where each call is
  held,           \* the broker snapshot each call is holding
  start,          \* the action each call answers with
  sent,           \* broker calls made for each action
  wire,           \* broker calls on their way
  reply,          \* the broker's answers
  accepted,       \* accepted calls whose effect is still to come
  worker          \* the cycle of each reconciliation worker

callVars  == <<pc, held, start>>
netVars   == <<sent, wire, reply, accepted>>
truthVars == <<orderTruth, positionTruth>>
rowVars   == <<orderRow, positionRow, action>>
vars == <<connected, truthVars, rowVars, review, ask, callVars, netVars, worker>>

-----------------------------------------------------------------------------
(* Types.                                                                  *)

Types == UNION Scopes

Position == [open : BOOLEAN, sequence : Nat, stops : Stops]
OrderRow == [state : OrderState, was : BrokerOrder]

(* ExecutionActionState, and the rows that do not exist yet.               *)
ActionState ==
  {"absent", "submitting", "acknowledged", "completed", "rejected", "reconciliation_required"}

(* ExecutionActionTerms: what each kind of action binds.                   *)
Terms == [status : BrokerStatus \cup {"None"}, sequence : Nat, stops : Stops \cup {None}]
NoTerms == [status |-> "None", sequence |-> 0, stops |-> None]

Review == [stage : {"none", "fetched", "applied", "ready"}, type : Types \cup {None},
           terms : Terms, expired : BOOLEAN, consumed : BOOLEAN,
           held : BrokerOrder \cup Position \cup {None}]
NoReview == [stage |-> "none", type |-> None, terms |-> NoTerms, expired |-> FALSE,
             consumed |-> FALSE, held |-> None]

Preflight == {"idle", "review", "fetch", "apply", "check", "begin"}
Pc == Preflight \cup {"send", "wait", "done"}

Worker == [at : {"idle", "listed", "order", "rest", "position"},
           held : BrokerOrder \cup Position \cup {None}]
IdleWorker == [at |-> "idle", held |-> None]

TypeOK ==
  /\ connected \in BOOLEAN
  /\ orderTruth \in BrokerOrder
  /\ positionTruth \in Position
  /\ orderRow \in OrderRow
  /\ positionRow \in Position
  /\ review \in [Reviews -> Review]
  /\ action \in [Calls -> ActionState]
  /\ ask \in [Calls -> [type : Types, key : Keys, review : Reviews]]
  /\ pc \in [Calls -> Pc]
  /\ held \in [Calls -> BrokerOrder \cup Position \cup {None}]
  /\ start \in [Calls -> Calls \cup {None}]
  /\ sent \in [Calls -> Nat]
  /\ wire \in SUBSET Calls
  /\ reply \in [Calls -> {"none", "ack", "refused"}]
  /\ accepted \in SUBSET Calls
  /\ worker \in [Workers -> Worker]

(* The kinds of action the calls are for: what they are not about is left  *)
(* alone by the environment.                                               *)
Asked == {ask[c].type : c \in Calls}

(* The order and the position as the last reconciliation left them.        *)
Init ==
  /\ connected = TRUE
  /\ orderTruth = [status |-> "New", executed |-> FALSE]
  /\ orderRow = [state |-> "acknowledged", was |-> orderTruth]
  /\ \E s \in Stops : positionTruth = [open |-> TRUE, sequence |-> 0, stops |-> s]
  /\ positionRow = positionTruth
  /\ review = [v \in Reviews |-> NoReview]
  /\ action = [c \in Calls |-> "absent"]
  /\ \E some \in Scopes : ask \in [Calls -> [type : some, key : Keys, review : Reviews]]
  /\ pc = [c \in Calls |-> "idle"]
  /\ held = [c \in Calls |-> None]
  /\ start = [c \in Calls |-> None]
  /\ sent = [c \in Calls |-> 0]
  /\ wire = {}
  /\ reply = [c \in Calls |-> "none"]
  /\ accepted = {}
  /\ worker = [w \in Workers |-> IdleWorker]

-----------------------------------------------------------------------------
(* Database helpers.                                                       *)

Inserted == {c \in Calls : action[c] # "absent"}

(* The row whose lock begin_action takes.                                  *)
Target(type) == IF type = "cancel" THEN "order" ELSE "position"

TermsOf(c) == review[ask[c].review].terms

(* Mutants of Marked: an action is completed under its call's feet; an     *)
(* action of unknown fate is forgotten.                                    *)
MarkedOrNot == {"submitting", "acknowledged", "reconciliation_required"}
MarkedAcknowledged == {"acknowledged"}

(* Marked by their call, and waiting for the broker's state to show.       *)
Marked == {"acknowledged", "reconciliation_required"}

(* _complete_actions and _complete_protection_actions: of the actions the  *)
(* observation confirms, the marked ones.                                  *)
Complete(confirmed) ==
  [c \in Calls |-> IF c \in confirmed /\ action[c] \in Marked THEN "completed" ELSE action[c]]

(* Mutant of ConfirmsCancel: an order that ended is taken for cancelled.   *)
ConfirmsCancelAnyEnd(c, state) == ask[c].type = "cancel" /\ state \in Terminal

ConfirmsCancel(c, state) == ask[c].type = "cancel" /\ state = "cancelled"

(* ExecutionStore.reconcile_order.                                         *)
ReconcileOrder(snapshot) ==
  /\ orderRow' = [state |-> MapOrderState(snapshot.status), was |-> snapshot]
  /\ action' = Complete({c \in Calls : ConfirmsCancel(c, MapOrderState(snapshot.status))})
  /\ UNCHANGED positionRow

CloseRow == [positionRow EXCEPT !.open = FALSE]

ConfirmsProtection(c, snapshot) == ask[c].type = "protect" /\ TermsOf(c).stops = snapshot.stops

(* ExecutionStore.replace_open_positions: a listed position is written and *)
(* confirms the protection it shows, an unlisted one is closed.            *)
ReplaceOpenPositions(snapshot) ==
  /\ positionRow' = IF snapshot.open THEN snapshot ELSE CloseRow
  /\ action' = Complete(IF snapshot.open
                          THEN {c \in Calls : ConfirmsProtection(c, snapshot)}
                          ELSE {c \in Calls : ask[c].type = "close" /\ positionRow.open})
  /\ UNCHANGED orderRow

Apply(target, snapshot) ==
  IF target = "order" THEN ReconcileOrder(snapshot) ELSE ReplaceOpenPositions(snapshot)

Truth(target) == IF target = "order" THEN orderTruth ELSE positionTruth

-----------------------------------------------------------------------------
(* The review handlers: review_cancel_order, review_close_position and     *)
(* review_position_protection refresh their target, then record its terms. *)

StartReview(v, type) ==
  /\ review[v].stage = "none"
  /\ connected
  /\ review' = [review EXCEPT ![v] =
                  [NoReview EXCEPT !.stage = "fetched", !.type = type,
                                   !.held = Truth(Target(type))]]
  /\ UNCHANGED <<connected, truthVars, rowVars, ask, callVars, netVars, worker>>

RefreshForReview(v) ==
  /\ review[v].stage = "fetched"
  /\ Apply(Target(review[v].type), review[v].held)
  /\ review' = [review EXCEPT ![v].stage = "applied", ![v].held = None]
  /\ UNCHANGED <<connected, truthVars, ask, callVars, netVars, worker>>

Cancellable == orderRow.state \in {"acknowledged", "partially_filled"}

(* The terms of each kind; the new boundaries are the client's choice.     *)
ReviewTerms(type) ==
  CASE type = "cancel"  -> {[NoTerms EXCEPT !.status = orderRow.was.status]}
    [] type = "close"   -> {[NoTerms EXCEPT !.sequence = positionRow.sequence]}
    [] type = "protect" -> {[NoTerms EXCEPT !.sequence = positionRow.sequence, !.stops = s] :
                               s \in Stops}

RecordReview(v) ==
  /\ review[v].stage = "applied"
  /\ IF review[v].type = "cancel" THEN Cancellable ELSE positionRow.open
  /\ \E t \in ReviewTerms(review[v].type) :
       review' = [review EXCEPT ![v].stage = "ready", ![v].terms = t]
  /\ UNCHANGED <<connected, truthVars, rowVars, ask, callVars, netVars, worker>>

(* review_ttl passes.                                                      *)
ExpireReview(v) ==
  /\ review[v].stage = "ready"
  /\ ~review[v].expired
  /\ review' = [review EXCEPT ![v].expired = TRUE]
  /\ UNCHANGED <<connected, truthVars, rowVars, ask, callVars, netVars, worker>>

-----------------------------------------------------------------------------
(* The confirming calls, up to their commit.                               *)

ByKey(c) == {a \in Inserted : ask[a].key = ask[c].key}

Proceed(c, from, to) ==
  /\ pc[c] = from
  /\ pc' = [pc EXCEPT ![c] = to]

(* A known key answers with its action, or refuses if that is another one. *)
AnswerKnown(c) ==
  \E a \in ByKey(c) :
    /\ pc' = [pc EXCEPT ![c] = "done"]
    /\ start' = [start EXCEPT ![c] = IF ask[a].type = ask[c].type THEN a ELSE None]

(* _existing_action.                                                       *)
LookUp(c) ==
  /\ \/ ByKey(c) = {} /\ Proceed(c, "idle", "review") /\ UNCHANGED start
     \/ pc[c] = "idle" /\ AnswerKnown(c)
  /\ UNCHANGED <<connected, truthVars, rowVars, review, ask, held, netVars, worker>>

Confirms(c) ==
  /\ review[ask[c].review].stage = "ready"
  /\ review[ask[c].review].type = ask[c].type
  /\ ~review[ask[c].review].expired

(* _require_action_review.                                                 *)
RequireReview(c) ==
  /\ Confirms(c)
  /\ Proceed(c, "review", "fetch")
  /\ UNCHANGED <<connected, truthVars, rowVars, review, ask, held, start, netVars, worker>>

(* _refresh_order and _refresh_position.                                   *)
FetchTarget(c) ==
  /\ connected
  /\ Proceed(c, "fetch", "apply")
  /\ held' = [held EXCEPT ![c] = Truth(Target(ask[c].type))]
  /\ UNCHANGED <<connected, truthVars, rowVars, review, ask, start, netVars, worker>>

RefreshTarget(c) ==
  /\ Proceed(c, "apply", "check")
  /\ Apply(Target(ask[c].type), held[c])
  /\ held' = [held EXCEPT ![c] = None]
  /\ UNCHANGED <<connected, truthVars, review, ask, start, netVars, worker>>

(* The target is still the one that was reviewed.                          *)
Unchanged(c) ==
  IF ask[c].type = "cancel"
    THEN Cancellable /\ orderRow.was.status = TermsOf(c).status
    ELSE positionRow.open /\ positionRow.sequence = TermsOf(c).sequence

CheckTarget(c) ==
  /\ Unchanged(c)
  /\ Proceed(c, "check", "begin")
  /\ UNCHANGED <<connected, truthVars, rowVars, review, ask, held, start, netVars, worker>>

(* begin_action refuses while an action of the target is in one of these.  *)
Pending == {"submitting", "acknowledged", "reconciliation_required"}

Awaiting(target) == {a \in Calls : Target(ask[a].type) = target /\ action[a] \in Pending}

(* Mutant of TargetFree: a close and a protection do not exclude each other. *)
TargetFreeOfKind(c) ==
  \A a \in Calls : ask[a].type = ask[c].type => action[a] \notin Pending

TargetFree(c) == Awaiting(Target(ask[c].type)) = {}

(* Mutant of ReviewFresh: a review confirms as often as it is shown.       *)
ReviewFreshAgain(c) == Confirms(c)

ReviewFresh(c) == Confirms(c) /\ ~review[ask[c].review].consumed

BeginAction(c) ==
  /\ pc[c] = "begin"
  /\ \/ /\ AnswerKnown(c)
        /\ UNCHANGED <<action, orderRow, review>>
     \/ /\ ByKey(c) = {}
        /\ TargetFree(c)
        /\ ReviewFresh(c)
        /\ action' = [action EXCEPT ![c] = "submitting"]
        /\ start' = [start EXCEPT ![c] = c]
        /\ review' = [review EXCEPT ![ask[c].review].consumed = TRUE]
        /\ orderRow' = IF ask[c].type = "cancel"
                         THEN [orderRow EXCEPT !.state = "cancelling"] ELSE orderRow
        /\ pc' = [pc EXCEPT ![c] = "send"]
  /\ UNCHANGED <<connected, truthVars, positionRow, ask, held, netVars, worker>>

(* A conflict, a missing row or credential, boundaries on the wrong side   *)
(* of the mark price, an exception or the death of the process.            *)
Refuse(c) ==
  /\ pc[c] \in Preflight
  /\ pc' = [pc EXCEPT ![c] = "done"]
  /\ held' = [held EXCEPT ![c] = None]
  /\ UNCHANGED <<connected, truthVars, rowVars, review, ask, start, netVars, worker>>

-----------------------------------------------------------------------------
(* The confirming calls, after their commit.                               *)

(* BybitHttpGateway.cancel_order, close_position and set_trading_stop, on  *)
(* the order or the position and with the terms of the action.             *)
CallBroker(c) ==
  /\ sent' = [sent EXCEPT ![c] = @ + 1]
  /\ wire' = wire \cup {c}

Send(c) ==
  /\ connected
  /\ Proceed(c, "send", "wait")
  /\ CallBroker(c)
  /\ UNCHANGED <<connected, truthVars, rowVars, review, ask, held, start, reply, accepted,
                 worker>>

(* mark_action.                                                            *)
MarkAction(c, state) ==
  /\ action' = [action EXCEPT ![c] = state]
  /\ pc' = [pc EXCEPT ![c] = "done"]
  /\ UNCHANGED <<connected, truthVars, orderRow, positionRow, review, ask, held, start, netVars,
                 worker>>

(* _acknowledge_action, _reject_action (the broker's refusal, or no        *)
(* credential) and _unknown_action (no readable answer).                   *)
AcknowledgeAction(c) ==
  pc[c] = "wait" /\ "ack" \in Outcomes(reply[c]) /\ MarkAction(c, "acknowledged")

RejectAction(c) ==
  /\ \/ pc[c] = "send" /\ ~connected
     \/ pc[c] = "wait" /\ "refused" \in Outcomes(reply[c])
  /\ MarkAction(c, "rejected")

UnknownAction(c) ==
  pc[c] = "wait" /\ "failed" \in Outcomes(reply[c]) /\ MarkAction(c, "reconciliation_required")

Crash(c) ==
  /\ pc[c] \in {"send", "wait"}
  /\ pc' = [pc EXCEPT ![c] = "done"]
  /\ UNCHANGED <<connected, truthVars, rowVars, review, ask, held, start, netVars, worker>>

-----------------------------------------------------------------------------
(* The broker and the network. An accepted call takes effect later, if at  *)
(* all; a lost one stays on the wire.                                      *)

Answer(c) ==
  /\ c \in wire
  /\ wire' = wire \ {c}
  /\ \/ reply' = [reply EXCEPT ![c] = "ack"] /\ accepted' = accepted \cup {c}
     \/ reply' = [reply EXCEPT ![c] = "refused"] /\ UNCHANGED accepted
  /\ UNCHANGED <<connected, truthVars, rowVars, review, ask, callVars, sent, worker>>

MovePosition(new) ==
  /\ positionTruth.sequence < MaxSequence
  /\ positionTruth' = [new EXCEPT !.sequence = positionTruth.sequence + 1]

TakeEffect(c) ==
  /\ c \in accepted
  /\ accepted' = accepted \ {c}
  /\ \/ /\ ask[c].type = "cancel" /\ Working(orderTruth)
        /\ orderTruth' = [orderTruth EXCEPT !.status = "Cancelled"]
        /\ UNCHANGED positionTruth
     \/ /\ ask[c].type = "close" /\ positionTruth.open
        /\ MovePosition([positionTruth EXCEPT !.open = FALSE])
        /\ UNCHANGED orderTruth
     \/ /\ ask[c].type = "protect" /\ positionTruth.open
        /\ MovePosition([positionTruth EXCEPT !.stops = TermsOf(c).stops])
        /\ UNCHANGED orderTruth
  /\ UNCHANGED <<connected, rowVars, review, ask, callVars, sent, wire, reply, worker>>

(* Fills, cancellations and closures nobody here asked for, a position     *)
(* opened again.                                                           *)
MoveOrder ==
  /\ "cancel" \in Asked
  /\ orderTruth' \in BrokerMoves(orderTruth)
  /\ orderTruth'.status \in {"PartiallyFilled", "Filled", "Cancelled"}
  /\ UNCHANGED <<connected, positionTruth, rowVars, review, ask, callVars, netVars, worker>>

ReopenOrClose ==
  /\ Asked # {"cancel"}
  /\ \E s \in Stops : MovePosition([positionTruth EXCEPT !.open = ~@, !.stops = s])
  /\ UNCHANGED <<connected, orderTruth, rowVars, review, ask, callVars, netVars, worker>>

(* The connection is revoked or another account becomes the active one.    *)
Disconnect ==
  /\ connected
  /\ connected' = FALSE
  /\ UNCHANGED <<truthVars, rowVars, review, ask, callVars, netVars, worker>>

-----------------------------------------------------------------------------
(* ReconciliationService._reconcile_account.                               *)

Cycle(w, from, to, snapshot) ==
  /\ worker[w].at = from
  /\ worker' = [worker EXCEPT ![w] = [at |-> to, held |-> snapshot]]
  /\ UNCHANGED <<connected, truthVars, review, ask, callVars, netVars>>

ListOrders(w) ==
  /\ connected
  /\ Cycle(w, "idle", IF orderRow.state \in Reconcilable THEN "listed" ELSE "rest", None)
  /\ UNCHANGED rowVars

FetchOrder(w) == Cycle(w, "listed", "order", orderTruth) /\ UNCHANGED rowVars

ApplyOrder(w) == Cycle(w, "order", "rest", None) /\ ReconcileOrder(worker[w].held)

FetchPositions(w) == Cycle(w, "rest", "position", positionTruth) /\ UNCHANGED rowVars

ApplyPositions(w) == Cycle(w, "position", "idle", None) /\ ReplaceOpenPositions(worker[w].held)

AbortCycle(w) ==
  /\ worker[w].at # "idle"
  /\ Cycle(w, worker[w].at, "idle", None)
  /\ UNCHANGED rowVars

-----------------------------------------------------------------------------

Reviewing(v) ==
  \/ \E type \in Asked : StartReview(v, type)
  \/ RefreshForReview(v) \/ RecordReview(v) \/ ExpireReview(v)

Call(c) ==
  \/ LookUp(c) \/ RequireReview(c) \/ FetchTarget(c) \/ RefreshTarget(c) \/ CheckTarget(c)
  \/ BeginAction(c) \/ Refuse(c) \/ Send(c) \/ AcknowledgeAction(c) \/ RejectAction(c)
  \/ UnknownAction(c) \/ Crash(c)

Broker ==
  \/ \E c \in Calls : Answer(c) \/ TakeEffect(c)
  \/ MoveOrder
  \/ ReopenOrClose

Reconciler(w) ==
  \/ ListOrders(w) \/ FetchOrder(w) \/ ApplyOrder(w) \/ FetchPositions(w) \/ ApplyPositions(w)
  \/ AbortCycle(w)

Next ==
  \/ \E v \in Reviews : Reviewing(v)
  \/ \E c \in Calls : Call(c)
  \/ Broker
  \/ Disconnect
  \/ \E w \in Workers : Reconciler(w)

Spec == Init /\ [][Next]_vars

-----------------------------------------------------------------------------
(* Safety.                                                                 *)

(* Calls from several devices, retries and late answers notwithstanding,   *)
(* an order or a position never has two actions in flight.                 *)
OneAwaiting ==
  \A c, d \in Calls :
    /\ c # d
    /\ {action[c], action[d]} \subseteq {"submitting", "acknowledged", "reconciliation_required"}
    => Target(ask[c].type) # Target(ask[d].type)

(* Every broker call belongs to one action that a user reviewed and        *)
(* confirmed: it is made once, and no two actions share a review or a key. *)
SentAsConfirmed ==
  \A c \in Calls :
    /\ sent[c] <= 1
    /\ sent[c] = 1 => c \in Inserted
    /\ c \in Inserted => /\ review[ask[c].review].consumed
                         /\ review[ask[c].review].type = ask[c].type
                         /\ \A d \in Inserted \ {c} : /\ ask[d].review # ask[c].review
                                                      /\ ask[d].key # ask[c].key

(* A cancellation reported as completed has happened, whichever snapshot   *)
(* it was read from.                                                       *)
CancelledIsTrue ==
  \A c \in Calls :
    ask[c].type = "cancel" /\ action[c] = "completed" => orderTruth.status = "Cancelled"

(* The answer of a call and the observation of its effect race on one row: *)
(* an action that ended stays ended, and only a marked one completes.      *)
ActionMoves ==
  \A c \in Calls : action'[c] # action[c] =>
    \/ action[c] = "absent" /\ action'[c] = "submitting"
    \/ action[c] = "submitting" /\ action'[c] \in Marked \cup {"rejected"}
    \/ action[c] \in Marked /\ action'[c] = "completed"

ActionLifecycle == [][ActionMoves]_vars

-----------------------------------------------------------------------------
(* Liveness: the worker polls for ever, and not every cycle of it fails.   *)

WorkerFairness(w) ==
  /\ WF_vars(ListOrders(w))
  /\ SF_vars(FetchOrder(w))
  /\ SF_vars(ApplyOrder(w))
  /\ SF_vars(FetchPositions(w))
  /\ SF_vars(ApplyPositions(w))

FairSpec == Spec /\ \A w \in Workers : WorkerFairness(w)

(* An action that was marked while its target was still polled completes   *)
(* once the broker has done what it asked for.                             *)
InDoubt(c, type) ==
  ask[c].type = type /\ action[c] \in {"acknowledged", "reconciliation_required"}

EffectsComplete ==
  []connected =>
    \A c \in Calls :
      /\ InDoubt(c, "cancel") /\ orderRow.state \in Reconcilable /\ orderTruth.status = "Cancelled"
           ~> action[c] = "completed"
      /\ InDoubt(c, "close") /\ positionRow.open /\ ~positionTruth.open
           ~> action[c] = "completed" \/ positionTruth.open

(* A cancel that overwrites a final row with "cancelling", and every stale *)
(* snapshot, is corrected in the end.                                      *)
CancellingResolves ==
  []connected =>
    <>[](Finished(orderTruth) => orderRow.state = MapOrderState(orderTruth.status))

=============================================================================
