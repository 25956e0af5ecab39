--------------------------- MODULE OrderExecution ---------------------------
(***************************************************************************)
(* The write path of SignalOS: a reviewed trade proposal becomes at most   *)
(* one order at the broker, and the broker's truth about that order and    *)
(* about the position it opens flows back into the database.               *)
(*                                                                         *)
(* The actors are the submit requests of the API (ExecutionService.submit, *)
(* any number of them concurrently, retried by clients with the same or    *)
(* with another idempotency key), the five-second reconciliation worker,   *)
(* the API handlers that refresh one order from the broker, the user, and  *)
(* the broker behind a network that loses, delays and answers late. Every  *)
(* database transaction is one step, every await of the broker is a        *)
(* boundary between steps, and a request may die at any of them.           *)
(*                                                                         *)
(* One user, one broker connection, one linear symbol. The proposals come  *)
(* from different strategies, so that each is a setup of its own, and they *)
(* were sized against an empty portfolio. An order row is named by the     *)
(* request that inserted it, which is what makes it fresh (uuid4), and so  *)
(* is its orderLinkId.                                                     *)
(***************************************************************************)
EXTENDS Naturals, FiniteSets, OrderStates

CONSTANTS
  Requests,    \* submit calls
  Proposals,   \* trade proposals of the symbol
  Keys,        \* idempotency keys
  Reviews,     \* order reviews (tickets) a client may hold
  Workers,     \* reconciliation workers
  Refreshers,  \* API handlers that may be refreshing an order at one time
  Statuses,    \* the statuses the broker moves orders to
  None,        \* no value
  ExpiresAt,   \* the expiry of each proposal
  ReviewTtl,   \* how long a review lives
  MaxTime      \* bound of the clock

ASSUME ConstantsAssumption ==
  /\ None \notin Requests
  /\ Statuses \subseteq BrokerStatus
  /\ ExpiresAt \in [Proposals -> Nat]
  /\ ReviewTtl \in Nat
  /\ MaxTime \in Nat

VARIABLES
  now,        \* the clock
  account,    \* the connection: the active context, switched away, or revoked
  proposal,   \* trade_proposals.status
  review,     \* order_reviews rows
  ask,        \* what each submit call names (never changes)
  pc,         \* where each submit call is
  start,      \* the order row the call works on or answers with
  seen,       \* the open-positions answer the call's preflight is holding
  order,      \* broker_orders.state of the row each call inserted
  sent,       \* place_order calls that carried each orderLinkId
  wire,       \* place_order calls on their way to the broker
  reply,      \* the broker's answer to each place_order call
  broker,     \* the broker's orders, by orderLinkId
  exposure,   \* the broker holds a position in the symbol
  position,   \* the broker_positions row of the symbol
  worker,     \* the cycle each reconciliation worker is in
  refresh     \* the order snapshot each refreshing API handler holds

requestVars == <<pc, start, seen>>
networkVars == <<sent, wire, reply>>
brokerVars  == <<broker, exposure>>
vars == <<now, account, proposal, review, ask, pc, start, seen, order, sent,
          wire, reply, broker, exposure, position, worker, refresh>>

-----------------------------------------------------------------------------
(* Types.                                                                  *)

ProposalStatus == {"available", "submitted", "rejected", "invalidated", "archived"}
Account == {"active", "switched", "revoked"}
Ask == [proposal : Proposals, key : Keys, review : Reviews]

NoReview == [proposal |-> None, expires |-> 0, consumed |-> FALSE]
Review   == [proposal : Proposals \cup {None}, expires : Nat, consumed : BOOLEAN]

Preflight == {"preflight", "refresh", "portfolio", "lookup", "begin"}
Committed == {"placing", "waiting"}
Pc == {"idle", "done"} \cup Preflight \cup Committed

(* An order snapshot in the hands of a reconciler.                         *)
NoSnapshot == [of |-> None, was |-> NoBrokerOrder]
Snapshot   == [of : Requests \cup {None}, was : BrokerOrder]

Worker == [at : {"idle", "account", "orders", "positions"}, todo : SUBSET Requests,
           held : Snapshot, open : BOOLEAN]
IdleWorker == [at |-> "idle", todo |-> {}, held |-> NoSnapshot, open |-> FALSE]

TypeOK ==
  /\ now \in Nat
  /\ account \in Account
  /\ proposal \in [Proposals -> ProposalStatus]
  /\ review \in [Reviews -> Review]
  /\ ask \in [Requests -> Ask]
  /\ pc \in [Requests -> Pc]
  /\ start \in [Requests -> Requests \cup {None}]
  /\ seen \in [Requests -> BOOLEAN]
  /\ order \in [Requests -> OrderState \cup {"absent"}]
  /\ sent \in [Requests -> Nat]
  /\ wire \in SUBSET Requests
  /\ reply \in [Requests -> {"none", "ack", "refused"}]
  /\ broker \in [Requests -> BrokerOrder]
  /\ exposure \in BOOLEAN
  /\ position \in {"absent", "open", "closed"}
  /\ worker \in [Workers -> Worker]
  /\ refresh \in [Refreshers -> Snapshot]

Init ==
  /\ now = 0
  /\ account = "active"
  /\ proposal = [p \in Proposals |-> "available"]
  /\ review = [v \in Reviews |-> NoReview]
  /\ ask \in [Requests -> Ask]
  /\ pc = [r \in Requests |-> "idle"]
  /\ start = [r \in Requests |-> None]
  /\ seen = [r \in Requests |-> FALSE]
  /\ order = [r \in Requests |-> "absent"]
  /\ sent = [r \in Requests |-> 0]
  /\ wire = {}
  /\ reply = [r \in Requests |-> "none"]
  /\ broker = [r \in Requests |-> NoBrokerOrder]
  /\ exposure = FALSE
  /\ position = "absent"
  /\ worker = [w \in Workers |-> IdleWorker]
  /\ refresh = [f \in Refreshers |-> NoSnapshot]

-----------------------------------------------------------------------------
(* Database helpers.                                                       *)

Rows == {r \in Requests : order[r] # "absent"}

Unexpired(p) == now < ExpiresAt[p]

(* _archive_proposal: only a submitted proposal is archived.               *)
Archived(ps) ==
  [p \in Proposals |-> IF p \in ps /\ proposal[p] = "submitted" THEN "archived" ELSE proposal[p]]

(* ExecutionStore._set_state, under mark_acknowledged and mark_failed: the *)
(* row takes the state whatever it was before.                             *)
SetState(o, state) ==
  /\ order' = [order EXCEPT ![o] = state]
  /\ proposal' = IF state = "rejected" THEN Archived({ask[o].proposal}) ELSE proposal

(* Mutant of DeadUnexecuted: a partly filled order that was cancelled too. *)
DeadUnexecutedOrNot(snapshot) == MapOrderState(snapshot.status) \in {"cancelled", "rejected"}

(* ExecutionStore.reconcile_order: the row takes what the snapshot says;   *)
(* a dead order of which nothing executed archives its proposal.           *)
DeadUnexecuted(snapshot) ==
  /\ MapOrderState(snapshot.status) \in {"cancelled", "rejected"}
  /\ ~snapshot.executed

ReconcileOrder(o, snapshot) ==
  /\ order' = [order EXCEPT ![o] = MapOrderState(snapshot.status)]
  /\ proposal' = IF DeadUnexecuted(snapshot) THEN Archived({ask[o].proposal}) ELSE proposal

(* _archive_symbol_proposals: all proposals are the symbol's.              *)
ArchivedSymbol == Archived(Proposals)

(* Mutant of ReplaceOpenPositions: rows are only ever added.               *)
ReplaceOpenPositionsKeeps(open) ==
  /\ position' = IF open THEN "open" ELSE position
  /\ UNCHANGED proposal

(* ExecutionStore.replace_open_positions: an open row the answer does not  *)
(* list is closed, and closing it archives every submitted proposal of the *)
(* symbol.                                                                 *)
ReplaceOpenPositions(open) ==
  /\ position' = IF open THEN "open" ELSE IF position = "open" THEN "closed" ELSE position
  /\ proposal' = IF ~open /\ position = "open" THEN ArchivedSymbol ELSE proposal

-----------------------------------------------------------------------------
(* BybitHttpGateway: what its calls ask of the broker and make of the      *)
(* answer. A read that fails or makes no sense raises instead.             *)

(* get_order_snapshot: the working orders are searched for the link, then  *)
(* the history, so an order that ends in between is found all the same.    *)
OrderSnapshot(o) ==
  IF broker[o].status = "None" THEN NoSnapshot ELSE [of |-> o, was |-> broker[o]]

(* get_positions: every page is read before any of it counts, and a        *)
(* position of size zero is none.                                          *)
OpenPositions == exposure

(* place_order, with the row's orderLinkId.                                *)
PlaceOrder(o) ==
  /\ sent' = [sent EXCEPT ![o] = @ + 1]
  /\ wire' = wire \cup {o}

-----------------------------------------------------------------------------
(* The clock and the user.                                                 *)

Tick ==
  /\ now < MaxTime
  /\ now' = now + 1
  /\ UNCHANGED <<account, proposal, review, ask, requestVars, order, networkVars,
                 brokerVars, position, worker, refresh>>

(* ExecutionService.review and create_review: a ticket that dies with its  *)
(* proposal at the latest.                                                 *)
ReviewExpiry(p) == IF ExpiresAt[p] < now + ReviewTtl THEN ExpiresAt[p] ELSE now + ReviewTtl

CreateReview(v, p) ==
  /\ review[v] = NoReview
  /\ proposal[p] = "available"
  /\ Unexpired(p)
  /\ review' = [review EXCEPT ![v] =
                  [proposal |-> p, expires |-> ReviewExpiry(p), consumed |-> FALSE]]
  /\ UNCHANGED <<now, account, proposal, ask, requestVars, order, networkVars,
                 brokerVars, position, worker, refresh>>

(* Mutant of RejectProposal: a submitted proposal can be rejected too.     *)
RejectProposalAnyTime(p) ==
  /\ proposal[p] \in {"available", "submitted"}
  /\ proposal' = [proposal EXCEPT ![p] = "rejected"]
  /\ UNCHANGED <<now, account, review, ask, requestVars, order, networkVars,
                 brokerVars, position, worker, refresh>>

(* ProposalStore.reject.                                                   *)
RejectProposal(p) ==
  /\ proposal[p] = "available"
  /\ proposal' = [proposal EXCEPT ![p] = "rejected"]
  /\ UNCHANGED <<now, account, review, ask, requestVars, order, networkVars,
                 brokerVars, position, worker, refresh>>

(* _invalidate_pending_proposals.                                          *)
InvalidatePending ==
  proposal' = [p \in Proposals |->
                IF proposal[p] = "available" THEN "invalidated" ELSE proposal[p]]

(* BrokerContextService.switch, to another account of the user and back.   *)
SwitchContext ==
  /\ account # "revoked"
  /\ account' = IF account = "active" THEN "switched" ELSE "active"
  /\ InvalidatePending
  /\ UNCHANGED <<now, review, ask, requestVars, order, networkVars, brokerVars,
                 position, worker, refresh>>

(* BrokerContextService.revoke: the credential goes with the connection.   *)
RevokeConnection ==
  /\ account # "revoked"
  /\ account' = "revoked"
  /\ InvalidatePending
  /\ UNCHANGED <<now, review, ask, requestVars, order, networkVars, brokerVars,
                 position, worker, refresh>>

-----------------------------------------------------------------------------
(* ExecutionService.submit, from its first lookup to its commit.           *)

ByKey(r) == {o \in Rows : ask[o].key = ask[r].key}
ByProposal(p) == {o \in Rows : ask[o].proposal = p}

(* Mutant of LookUpKey: a repeated key places its order again.             *)
LookUpKeyResubmits(r, next) ==
  IF ByKey(r) = {}
    THEN pc' = [pc EXCEPT ![r] = next] /\ UNCHANGED start
    ELSE \E o \in ByKey(r) :
           /\ pc' = [pc EXCEPT ![r] = "placing"]
           /\ start' = [start EXCEPT ![r] = o]

(* get_order_by_idempotency, and its repetition inside begin_submission: a *)
(* known key answers with its order, or refuses when that order is for     *)
(* another proposal; otherwise the call goes on to next.                   *)
LookUpKey(r, next) ==
  \/ /\ ByKey(r) = {}
     /\ pc' = [pc EXCEPT ![r] = next]
     /\ UNCHANGED start
  \/ \E o \in ByKey(r) :
       /\ pc' = [pc EXCEPT ![r] = "done"]
       /\ start' = [start EXCEPT ![r] =
                      IF ask[o].proposal = ask[r].proposal THEN o ELSE None]

Submit(r) ==
  /\ pc[r] = "idle"
  /\ LookUpKey(r, "preflight")
  /\ UNCHANGED <<now, account, proposal, review, ask, seen, order, networkVars,
                 brokerVars, position, worker, refresh>>

(* _preflight_submission up to its positions request.                      *)
CheckProposal(r) ==
  /\ pc[r] = "preflight"
  /\ proposal[ask[r].proposal] = "available"
  /\ Unexpired(ask[r].proposal)
  /\ account = "active"
  /\ pc' = [pc EXCEPT ![r] = "refresh"]
  /\ seen' = [seen EXCEPT ![r] = OpenPositions]
  /\ UNCHANGED <<now, account, proposal, review, ask, start, order, networkVars,
                 brokerVars, position, worker, refresh>>

(* The preflight writes the positions it was given,                        *)
RefreshPositions(r) ==
  /\ pc[r] = "refresh"
  /\ ReplaceOpenPositions(seen[r])
  /\ pc' = [pc EXCEPT ![r] = "portfolio"]
  /\ seen' = [seen EXCEPT ![r] = FALSE]
  /\ UNCHANGED <<now, account, review, ask, start, order, networkVars, brokerVars,
                 worker, refresh>>

(* and requires the portfolio the proposal was sized against: an empty one.*)
CheckPortfolio(r) ==
  /\ pc[r] = "portfolio"
  /\ position # "open"
  /\ pc' = [pc EXCEPT ![r] = "lookup"]
  /\ UNCHANGED <<now, account, proposal, review, ask, start, seen, order, networkVars,
                 brokerVars, position, worker, refresh>>

(* begin_submission reads the key before it takes any lock.                *)
LookUpKeyAgain(r) ==
  /\ pc[r] = "lookup"
  /\ LookUpKey(r, "begin")
  /\ UNCHANGED <<now, account, proposal, review, ask, seen, order, networkVars,
                 brokerVars, position, worker, refresh>>

(* What begin_submission requires under its row locks,                     *)
ReviewUsable(r) ==
  /\ review[ask[r].review].proposal = ask[r].proposal
  /\ ~review[ask[r].review].consumed
  /\ now < review[ask[r].review].expires

ProposalOpen(r) ==
  /\ proposal[ask[r].proposal] = "available"
  /\ Unexpired(ask[r].proposal)

(* Mutant of RowUnique: no constraint on (user, idempotency key).          *)
RowUniqueByProposal(r) == ByProposal(ask[r].proposal) = {}

(* and the unique constraints of broker_orders at the insertion.           *)
RowUnique(r) ==
  /\ ByKey(r) = {}
  /\ ByProposal(ask[r].proposal) = {}

BeginSubmission(r) ==
  /\ pc[r] = "begin"
  /\ ReviewUsable(r)
  /\ ProposalOpen(r)
  /\ account = "active"
  /\ RowUnique(r)
  /\ order' = [order EXCEPT ![r] = "submitting"]
  /\ start' = [start EXCEPT ![r] = r]
  /\ review' = [review EXCEPT ![ask[r].review].consumed = TRUE]
  /\ proposal' = [proposal EXCEPT ![ask[r].proposal] = "submitted"]
  /\ pc' = [pc EXCEPT ![r] = "placing"]
  /\ UNCHANGED <<now, account, ask, seen, networkVars, brokerVars, position, worker,
                 refresh>>

(* A conflict raised by any check above or by one whose data is left out   *)
(* (profile, drawdown gate, mandate, strategy evidence, leverage, ticker,  *)
(* margin, hash), an exception, or the death of the process: nothing has   *)
(* been written for the call.                                              *)
Refuse(r) ==
  /\ pc[r] \in Preflight
  /\ pc' = [pc EXCEPT ![r] = "done"]
  /\ seen' = [seen EXCEPT ![r] = FALSE]
  /\ UNCHANGED <<now, account, proposal, review, ask, start, order, networkVars,
                 brokerVars, position, worker, refresh>>

-----------------------------------------------------------------------------
(* ExecutionService.submit, after its commit.                              *)

(* set_leverage accepted, place_order sent.                                *)
SendOrder(r) ==
  /\ pc[r] = "placing"
  /\ pc' = [pc EXCEPT ![r] = "waiting"]
  /\ PlaceOrder(start[r])
  /\ UNCHANGED <<now, account, proposal, review, ask, start, seen, order, reply,
                 brokerVars, position, worker, refresh>>

Finish(r, state) ==
  /\ SetState(start[r], state)
  /\ pc' = [pc EXCEPT ![r] = "done"]
  /\ UNCHANGED <<now, account, review, ask, start, seen, networkVars, brokerVars,
                 position, worker, refresh>>

MarkAcknowledged(r) ==
  /\ pc[r] = "waiting"
  /\ "ack" \in Outcomes(reply[start[r]])
  /\ Finish(r, "acknowledged")

(* BrokerOrderRejected, from set_leverage or from place_order.             *)
MarkRejected(r) ==
  /\ \/ pc[r] = "placing"
     \/ pc[r] = "waiting" /\ "refused" \in Outcomes(reply[start[r]])
  /\ Finish(r, "rejected")

(* Mutant of MarkUnknown: no answer is blindly retried.                    *)
MarkUnknownRetries(r) ==
  /\ pc[r] \in Committed
  /\ pc' = [pc EXCEPT ![r] = "placing"]
  /\ UNCHANGED <<now, account, proposal, review, ask, start, seen, order, networkVars,
                 brokerVars, position, worker, refresh>>

(* BrokerProviderError (no answer in time, an unreadable one) at either    *)
(* call, or an acknowledgement of another link.                            *)
MarkUnknown(r) ==
  /\ pc[r] \in Committed
  /\ Finish(r, "submission_unknown")

(* The process dies with the row written: nothing more is done for it.     *)
Crash(r) ==
  /\ pc[r] \in Committed
  /\ pc' = [pc EXCEPT ![r] = "done"]
  /\ UNCHANGED <<now, account, proposal, review, ask, start, seen, order, networkVars,
                 brokerVars, position, worker, refresh>>

-----------------------------------------------------------------------------
(* The network and the broker. A lost call is one that stays in the wire.  *)

Deliver(o, answer, new) ==
  /\ o \in wire
  /\ wire' = wire \ {o}
  /\ reply' = [reply EXCEPT ![o] = answer]
  /\ broker' = [broker EXCEPT ![o] = new]
  /\ UNCHANGED <<now, account, proposal, review, ask, requestVars, order, sent,
                 exposure, position, worker, refresh>>

AcceptOrder(o) == Deliver(o, "ack", [status |-> "New", executed |-> FALSE])
RefuseOrder(o) == Deliver(o, "refused", broker[o])

MoveOrder(o) ==
  /\ \E n \in BrokerMoves(broker[o]) :
       /\ n.status \in Statuses
       /\ broker' = [broker EXCEPT ![o] = n]
       /\ exposure' = (exposure \/ n.status \in {"PartiallyFilled", "Filled"})
  /\ UNCHANGED <<now, account, proposal, review, ask, requestVars, order, networkVars,
                 position, worker, refresh>>

(* A stop, a target, a liquidation or the user at the broker.              *)
CloseExposure ==
  /\ exposure
  /\ exposure' = FALSE
  /\ UNCHANGED <<now, account, proposal, review, ask, requestVars, order, networkVars,
                 broker, position, worker, refresh>>

-----------------------------------------------------------------------------
(* ReconciliationService.run_once for the account.                         *)

WorkerRest == <<now, account, review, ask, requestVars, networkVars, brokerVars>>

(* list_active_accounts: only the account that is the user's current       *)
(* context is polled.                                                      *)
ListAccounts(w) ==
  /\ worker[w].at = "idle"
  /\ account = "active"
  /\ worker' = [worker EXCEPT ![w] = [@ EXCEPT !.at = "account"]]
  /\ UNCHANGED <<WorkerRest, proposal, order, position, refresh>>

(* The credential is read, which a revocation has deleted, then            *)
(* list_reconcilable_orders.                                               *)
ListOrders(w) ==
  /\ worker[w].at = "account"
  /\ account # "revoked"
  /\ worker' = [worker EXCEPT ![w] = [@ EXCEPT !.at = "orders",
                    !.todo = {o \in Rows : order[o] \in Reconcilable}]]
  /\ UNCHANGED <<WorkerRest, proposal, order, position, refresh>>

(* get_order_snapshot; an order the broker does not know is skipped.       *)
FetchOrder(w, o) ==
  /\ worker[w].at = "orders"
  /\ worker[w].held.of = None
  /\ o \in worker[w].todo
  /\ worker' = [worker EXCEPT ![w] = [@ EXCEPT !.todo = worker[w].todo \ {o},
                    !.held = OrderSnapshot(o)]]
  /\ UNCHANGED <<WorkerRest, proposal, order, position, refresh>>

ApplyOrder(w) ==
  /\ worker[w].held.of # None
  /\ ReconcileOrder(worker[w].held.of, worker[w].held.was)
  /\ worker' = [worker EXCEPT ![w] = [@ EXCEPT !.held = NoSnapshot]]
  /\ UNCHANGED <<WorkerRest, position, refresh>>

FetchPositions(w) ==
  /\ worker[w].at = "orders"
  /\ worker[w].todo = {}
  /\ worker[w].held.of = None
  /\ worker' = [worker EXCEPT ![w] = [@ EXCEPT !.at = "positions", !.open = OpenPositions]]
  /\ UNCHANGED <<WorkerRest, proposal, order, position, refresh>>

ApplyPositions(w) ==
  /\ worker[w].at = "positions"
  /\ ReplaceOpenPositions(worker[w].open)
  /\ worker' = [worker EXCEPT ![w] = IdleWorker]
  /\ UNCHANGED <<WorkerRest, order, refresh>>

(* An exception ends the account's cycle wherever it was.                  *)
AbortCycle(w) ==
  /\ worker[w].at # "idle"
  /\ worker' = [worker EXCEPT ![w] = IdleWorker]
  /\ UNCHANGED <<WorkerRest, proposal, order, position, refresh>>

-----------------------------------------------------------------------------
(* _refresh_order, in the API handlers that review or cancel an order.     *)

FetchRefresh(f, o) ==
  /\ refresh[f] = NoSnapshot
  /\ o \in Rows
  /\ account # "revoked"
  /\ broker[o].status # "None"
  /\ refresh' = [refresh EXCEPT ![f] = OrderSnapshot(o)]
  /\ UNCHANGED <<WorkerRest, proposal, order, position, worker>>

ApplyRefresh(f) ==
  /\ refresh[f].of # None
  /\ ReconcileOrder(refresh[f].of, refresh[f].was)
  /\ refresh' = [refresh EXCEPT ![f] = NoSnapshot]
  /\ UNCHANGED <<WorkerRest, position, worker>>

-----------------------------------------------------------------------------

User ==
  \/ \E v \in Reviews, p \in Proposals : CreateReview(v, p)
  \/ \E p \in Proposals : RejectProposal(p)
  \/ SwitchContext
  \/ RevokeConnection

Request(r) ==
  \/ Submit(r) \/ CheckProposal(r) \/ RefreshPositions(r) \/ CheckPortfolio(r)
  \/ LookUpKeyAgain(r) \/ BeginSubmission(r) \/ Refuse(r) \/ SendOrder(r)
  \/ MarkAcknowledged(r) \/ MarkRejected(r) \/ MarkUnknown(r) \/ Crash(r)

Broker ==
  \/ \E o \in Requests : AcceptOrder(o) \/ RefuseOrder(o) \/ MoveOrder(o)
  \/ CloseExposure

Reconciler(w) ==
  \/ ListAccounts(w)
  \/ ListOrders(w)
  \/ \E o \in Requests : FetchOrder(w, o)
  \/ ApplyOrder(w)
  \/ FetchPositions(w)
  \/ ApplyPositions(w)
  \/ AbortCycle(w)

Refresher(f) == (\E o \in Requests : FetchRefresh(f, o)) \/ ApplyRefresh(f)

Next ==
  \/ Tick
  \/ User
  \/ \E r \in Requests : Request(r)
  \/ Broker
  \/ \E w \in Workers : Reconciler(w)
  \/ \E f \in Refreshers : Refresher(f)

Spec == Init /\ [][Next]_vars

-----------------------------------------------------------------------------
(* Safety.                                                                 *)

(* SignalOS "does not blindly retry and risk a duplicate order": whatever  *)
(* retries, crashes, timeouts and concurrent submissions happen, the       *)
(* broker is asked at most once per proposal, over all its order links.    *)
AtMostOnePlacement ==
  \A o1, o2 \in Requests :
    /\ sent[o1] <= 1
    /\ sent[o1] > 0 /\ sent[o2] > 0 /\ ask[o1].proposal = ask[o2].proposal => o1 = o2

(* A proposal the user rejected or a context change invalidated never      *)
(* reaches the broker: no row, no call on the wire, no broker order.       *)
WithdrawnNeverPlaced ==
  \A o \in Requests :
    proposal[ask[o].proposal] \in {"available", "rejected", "invalidated"}
      => order[o] = "absent" /\ sent[o] = 0 /\ o \notin wire /\ broker[o] = NoBrokerOrder

(* One confirmation, one order: two order rows never share a proposal, an  *)
(* idempotency key or a consumed review, and each row consumed its review. *)
OneOrderPerConfirmation ==
  \A o1 \in Rows :
    /\ review[ask[o1].review].consumed
    /\ \A o2 \in Rows \ {o1} :
         /\ ask[o1].proposal # ask[o2].proposal
         /\ ask[o1].key # ask[o2].key
         /\ ask[o1].review # ask[o2].review

(* Nothing more will come of the order: it is not at the broker and on no  *)
(* wire, or it ended there, without a single execution.                    *)
NeverTraded(o) ==
  /\ ~Working(broker[o])
  /\ ~broker[o].executed
  /\ o \notin wire
  /\ \A r \in Requests : pc[r] = "placing" => start[r] # o

(* A terminal row is never polled again, so it must be the broker's last   *)
(* word: acknowledgements and timeouts never produce one, a refusal does   *)
(* only when no order can exist.                                           *)
TerminalIsBrokerTruth ==
  \A o \in Rows :
    /\ order[o] = "filled"    => broker[o].status = "Filled"
    /\ order[o] = "cancelled" => broker[o].status = "Cancelled"
    /\ order[o] = "rejected"  => NeverTraded(o)

(* An idempotent replay answers with the order of the proposal and key it  *)
(* names, never with somebody else's.                                      *)
AnswersOwnOrder ==
  \A r \in Requests : start[r] # None =>
    /\ start[r] \in Rows
    /\ ask[start[r]].proposal = ask[r].proposal
    /\ ask[start[r]].key = ask[r].key

(* Why the properties above hold, in terms of every step. First what ties  *)
(* a call, its row, its proposal and its review together: a committed call *)
(* works on the row it inserted, a row is a commitment of its own proposal *)
(* by its own key and consumed review, and no call before its commit has   *)
(* one.                                                                    *)
Owner ==
  \A r \in Requests :
    /\ pc[r] \in Committed => start[r] = r /\ r \in Rows
    /\ pc[r] \in {"idle"} \cup Preflight => r \notin Rows

Commitment ==
  \A o \in Rows :
    /\ proposal[ask[o].proposal] \in {"submitted", "archived"}
    /\ review[ask[o].review].proposal = ask[o].proposal
    /\ review[ask[o].review].consumed

OwnTerms ==
  \A o1, o2 \in Rows :
    o1 # o2 => ask[o1].proposal # ask[o2].proposal /\ ask[o1].key # ask[o2].key

(* Then what ties a row to its single call: the call is on the wire, or it *)
(* was accepted, or it was refused, and only after it was sent.            *)
OneCall ==
  \A o \in Requests :
    /\ sent[o] \in {0, 1}
    /\ sent[o] = 1 => o \in Rows /\ pc[o] # "placing"
    /\ o \in wire => sent[o] = 1 /\ reply[o] = "none"
    /\ reply[o] # "none" => sent[o] = 1
    /\ broker[o] # NoBrokerOrder => reply[o] = "ack"

SubmissionInv == Owner /\ Commitment /\ OwnTerms /\ OneCall /\ AnswersOwnOrder

(* Last, what a stale snapshot may still say: an end it saw was the end.   *)
Faithful(snapshot) ==
  snapshot.of # None =>
    /\ snapshot.of \in Rows
    /\ broker[snapshot.of].status # "None"
    /\ Finished(snapshot.was) => broker[snapshot.of] = snapshot.was

BrokerInv ==
  /\ \A o \in Requests :
       /\ broker[o].status = "None" => broker[o] = NoBrokerOrder
       /\ broker[o].status = "Rejected" => ~broker[o].executed
  /\ \A w \in Workers : worker[w].todo \subseteq Rows /\ Faithful(worker[w].held)
  /\ \A f \in Refreshers : Faithful(refresh[f])
  /\ TerminalIsBrokerTruth

(* Submit, reject, switch, revoke and archive race on one proposal row; it *)
(* still only moves forward, and a withdrawn one never moves again.        *)
ProposalMoves ==
  \A p \in Proposals : proposal'[p] # proposal[p] =>
    \/ /\ proposal[p] = "available"
       /\ proposal'[p] \in {"submitted", "rejected", "invalidated"}
    \/ proposal[p] = "submitted" /\ proposal'[p] = "archived"

ProposalLifecycle == [][ProposalMoves]_vars

(* A proposal is archived only on evidence: the position of its symbol has *)
(* just been seen to close, or its own order is dead and never traded.     *)
ArchivedFor ==
  \A p \in Proposals : proposal[p] = "submitted" /\ proposal'[p] = "archived" =>
    \/ position = "open" /\ position' = "closed"
    \/ \A o \in ByProposal(p) : NeverTraded(o)'

ArchivedOnEvidence == [][ArchivedFor]_vars

(* The whole write path keeps the promise of ProposalPromise.              *)
Phase(status) ==
  CASE status = "available" -> "open"
    [] status = "submitted" -> "committed"
    [] status = "archived"  -> "closed"
    [] OTHER                -> "withdrawn"

phases == [p \in Proposals |-> Phase(proposal[p])]

placements ==
  [p \in Proposals |->
    UNION {{o} \X (1 .. sent[o]) : o \in {o \in Requests : ask[o].proposal = p}}]

Promise == INSTANCE ProposalPromise WITH phase <- phases, calls <- placements

KeepsPromise == Promise!Spec

-----------------------------------------------------------------------------
(* Liveness. run_worker polls every five seconds for ever; a cycle may     *)
(* fail, but not every cycle: each of its steps is taken again and again   *)
(* if it keeps being due. Nothing is assumed of users, requests, the       *)
(* network or the broker.                                                  *)

WorkerFairness(w) ==
  /\ WF_vars(ListAccounts(w))
  /\ SF_vars(ListOrders(w))
  /\ \A o \in Requests : SF_vars(FetchOrder(w, o))
  /\ SF_vars(ApplyOrder(w))
  /\ SF_vars(FetchPositions(w))
  /\ SF_vars(ApplyPositions(w))

FairSpec == Spec /\ \A w \in Workers : WorkerFairness(w)

StaysActive == <>[](account = "active")

(* Late acknowledgements, timeouts and stale snapshots may overwrite what  *)
(* was reconciled, but while the account stays the active one every order  *)
(* the broker has finished ends in the matching state for good.            *)
OrdersConverge ==
  StaysActive =>
    \A o \in Requests :
      <>[](Finished(broker[o]) => order[o] = MapOrderState(broker[o].status))

(* Likewise for the position, whichever stale answer was written last.     *)
PositionConverges == StaysActive => <>[]((position = "open") <=> exposure)

-----------------------------------------------------------------------------
(* Claims of the repository that the code does not meet.                   *)

(* "An active proposal or order already exists for this setup": a setup is *)
(* not reported active for ever, by has_active, when nothing of it is left.*)
NothingLeft(p) ==
  /\ ~exposure
  /\ \A o \in ByProposal(p) : pc[o] \notin Committed /\ o \notin wire /\ ~Working(broker[o])

ActiveSetupExists ==
  StaysActive =>
    \A p \in Proposals :
      proposal[p] = "submitted" /\ NothingLeft(p)
        ~> (proposal[p] = "archived" \/ ~NothingLeft(p))

=============================================================================
