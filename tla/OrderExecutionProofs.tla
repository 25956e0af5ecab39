------------------------ MODULE OrderExecutionProofs ------------------------
(***************************************************************************)
(* Proofs, for every number of requests, proposals, keys, reviews, workers *)
(* and refreshers, of the safety properties of OrderExecution.             *)
(***************************************************************************)
EXTENDS OrderExecution, TLAPS

-----------------------------------------------------------------------------
(* Types.                                                                  *)

(* What a broker's status becomes is a state of an order row.              *)
LEMMA MapOrderStateType == ASSUME NEW status PROVE MapOrderState(status) \in OrderState
  BY DEF MapOrderState, OrderState

(* Archiving keeps the proposals' type.                                    *)
LEMMA ArchivedType ==
  ASSUME proposal \in [Proposals -> ProposalStatus], NEW ps
  PROVE  Archived(ps) \in [Proposals -> ProposalStatus]
  BY DEF Archived, ProposalStatus

LEMMA UserType ==
  ASSUME TypeOK, Tick \/ User PROVE TypeOK'
<1> USE DEF TypeOK
<1>1. CASE Tick
  BY <1>1, ConstantsAssumption DEF Tick, requestVars, networkVars, brokerVars
<1>2. ASSUME NEW v \in Reviews, NEW p \in Proposals, CreateReview(v, p) PROVE TypeOK'
  <2>1. ReviewExpiry(p) \in Nat
    BY ConstantsAssumption DEF ReviewExpiry
  <2>2. review' \in [Reviews -> Review]
    BY <1>2, <2>1 DEF CreateReview, Review
  <2> QED BY <1>2, <2>2 DEF CreateReview, requestVars, networkVars, brokerVars
<1>3. ASSUME NEW p \in Proposals, RejectProposal(p) PROVE TypeOK'
  BY <1>3 DEF RejectProposal, ProposalStatus, requestVars, networkVars, brokerVars
<1>4. CASE SwitchContext
  BY <1>4 DEF SwitchContext, InvalidatePending, Account, ProposalStatus, requestVars, networkVars, brokerVars
<1>5. CASE RevokeConnection
  BY <1>5 DEF RevokeConnection, InvalidatePending, Account, ProposalStatus, requestVars, networkVars, brokerVars
<1> QED BY <1>1, <1>2, <1>3, <1>4, <1>5 DEF User

LEMMA RequestType ==
  ASSUME TypeOK, Owner, NEW r \in Requests, Request(r) PROVE TypeOK'
<1> USE DEF TypeOK, requestVars, networkVars, brokerVars
<1>1. CASE Submit(r)
  BY <1>1 DEF Submit, LookUpKey, ByKey, Rows, Pc, Preflight, Committed
<1>2. CASE CheckProposal(r)
  BY <1>2 DEF CheckProposal, OpenPositions, Pc, Preflight, Committed
<1>3. CASE RefreshPositions(r)
  BY <1>3, ArchivedType DEF RefreshPositions, ReplaceOpenPositions, ArchivedSymbol, Pc, Preflight, Committed
<1>4. CASE CheckPortfolio(r)
  BY <1>4 DEF CheckPortfolio, Pc, Preflight, Committed
<1>5. CASE LookUpKeyAgain(r)
  BY <1>5 DEF LookUpKeyAgain, LookUpKey, ByKey, Rows, Pc, Preflight, Committed
<1>6. CASE BeginSubmission(r)
  <2>1. review' \in [Reviews -> Review]
    BY <1>6 DEF BeginSubmission, Review, Ask
  <2>2. proposal' \in [Proposals -> ProposalStatus]
    BY <1>6 DEF BeginSubmission, ProposalStatus, Ask
  <2> QED BY <1>6, <2>1, <2>2 DEF BeginSubmission, Pc, Preflight, Committed, OrderState
<1>7. CASE Refuse(r)
  BY <1>7 DEF Refuse, Pc, Preflight, Committed
<1>8. CASE SendOrder(r)
  BY <1>8 DEF SendOrder, PlaceOrder, Owner, Pc, Preflight, Committed
<1>9. ASSUME NEW state \in OrderState, Finish(r, state) PROVE TypeOK'
  BY <1>9, ArchivedType DEF Finish, SetState, Pc, Preflight, Committed
<1>10. CASE MarkAcknowledged(r)
  BY <1>10, <1>9 DEF MarkAcknowledged, OrderState
<1>11. CASE MarkRejected(r)
  BY <1>11, <1>9 DEF MarkRejected, OrderState
<1>12. CASE MarkUnknown(r)
  BY <1>12, <1>9 DEF MarkUnknown, OrderState
<1>13. CASE Crash(r)
  BY <1>13 DEF Crash, Pc, Preflight, Committed
<1> QED BY <1>1, <1>2, <1>3, <1>4, <1>5, <1>6, <1>7, <1>8, <1>10, <1>11, <1>12, <1>13 DEF Request

LEMMA BrokerType ==
  ASSUME TypeOK, Broker PROVE TypeOK'
<1> USE DEF TypeOK, requestVars, networkVars, brokerVars
<1>1. ASSUME NEW o \in Requests, AcceptOrder(o) PROVE TypeOK'
  BY <1>1 DEF AcceptOrder, Deliver, BrokerOrder, BrokerStatus
<1>2. ASSUME NEW o \in Requests, RefuseOrder(o) PROVE TypeOK'
  BY <1>2 DEF RefuseOrder, Deliver
<1>3. ASSUME NEW o \in Requests, MoveOrder(o) PROVE TypeOK'
  BY <1>3 DEF MoveOrder, BrokerMoves
<1>4. CASE CloseExposure
  BY <1>4 DEF CloseExposure
<1> QED BY <1>1, <1>2, <1>3, <1>4 DEF Broker

(* A worker's cycle with another snapshot or other orders left is a cycle. *)
LEMMA WorkerType ==
  /\ NoSnapshot \in Snapshot
  /\ \A c \in Worker, h \in Snapshot : [c EXCEPT !.held = h] \in Worker
  /\ \A c \in Worker, h \in Snapshot, t \in SUBSET Requests :
       [c EXCEPT !.todo = t, !.held = h] \in Worker
<1>1. NoSnapshot \in Snapshot
  BY DEF NoSnapshot, Snapshot, NoBrokerOrder, BrokerOrder
<1> QED BY <1>1 DEF Worker

LEMMA ReconcilerType ==
  ASSUME TypeOK, NEW w \in Workers, Reconciler(w) PROVE TypeOK'
<1> USE DEF TypeOK, WorkerRest, requestVars, networkVars, brokerVars
<1>0. CASE ListAccounts(w)
  BY <1>0 DEF ListAccounts, Worker
<1>1. CASE ListOrders(w)
  BY <1>1 DEF ListOrders, Worker, Rows
<1>2. ASSUME NEW o \in Requests, FetchOrder(w, o) PROVE TypeOK'
  <2> DEFINE h == IF broker[o].status = "None" THEN NoSnapshot
                  ELSE [of |-> o, was |-> broker[o]]
             t == worker[w].todo \ {o}
  <2>1. worker[w] \in Worker
    OBVIOUS
  <2>2. h \in Snapshot
    BY WorkerType DEF Snapshot
  <2>3. t \in SUBSET Requests
    BY <2>1 DEF Worker
  <2>4. [worker[w] EXCEPT !.todo = t, !.held = h] \in Worker
    BY <2>1, <2>2, <2>3, WorkerType
  <2>5. worker' = [worker EXCEPT ![w] = [worker[w] EXCEPT !.todo = t, !.held = h]]
    BY <1>2 DEF FetchOrder, OrderSnapshot
  <2> HIDE DEF h, t
  <2>6. worker' \in [Workers -> Worker]
    BY <2>4, <2>5
  <2> QED BY <1>2, <2>6 DEF FetchOrder, OrderSnapshot
<1>3. CASE ApplyOrder(w)
  <2>1. worker[w].held.of \in Requests \cup {None} BY DEF Worker, Snapshot
  <2>2. worker' \in [Workers -> Worker]
    BY <1>3, WorkerType DEF ApplyOrder
  <2> QED BY <1>3, <2>1, <2>2, MapOrderStateType, ArchivedType DEF ApplyOrder, ReconcileOrder
<1>4. CASE FetchPositions(w)
  BY <1>4 DEF FetchPositions, OpenPositions, Worker
<1>5. CASE ApplyPositions(w)
  BY <1>5, ArchivedType
  DEF ApplyPositions, ReplaceOpenPositions, ArchivedSymbol, Worker, IdleWorker, Snapshot, NoSnapshot, NoBrokerOrder, BrokerOrder
<1>6. CASE AbortCycle(w)
  BY <1>6 DEF AbortCycle, Worker, IdleWorker, Snapshot, NoSnapshot, NoBrokerOrder, BrokerOrder
<1> QED BY <1>0, <1>1, <1>2, <1>3, <1>4, <1>5, <1>6 DEF Reconciler

LEMMA RefresherType ==
  ASSUME TypeOK, NEW f \in Refreshers, Refresher(f) PROVE TypeOK'
<1> USE DEF TypeOK, WorkerRest, requestVars, networkVars, brokerVars
<1>1. ASSUME NEW o \in Requests, FetchRefresh(f, o) PROVE TypeOK'
  BY <1>1 DEF FetchRefresh, OrderSnapshot, Snapshot
<1>2. CASE ApplyRefresh(f)
  BY <1>2, MapOrderStateType, ArchivedType
  DEF ApplyRefresh, ReconcileOrder, Snapshot, NoSnapshot, NoBrokerOrder, BrokerOrder
<1> QED BY <1>1, <1>2 DEF Refresher

-----------------------------------------------------------------------------
(* The submission.                                                         *)

(* A step that leaves the calls alone and forgets no commitment, whatever  *)
(* it does to the states of the rows.                                      *)
LEMMA SubmissionFrame ==
  ASSUME TypeOK, SubmissionInv,
         UNCHANGED <<ask, requestVars, networkVars, broker>>,
         Rows' = Rows,
         \A p \in Proposals : proposal[p] \in {"submitted", "archived"}
                                => proposal'[p] \in {"submitted", "archived"},
         \A v \in Reviews : review[v].consumed => review'[v] = review[v]
  PROVE  SubmissionInv'
<1>1. /\ UNCHANGED <<ask, pc, start, sent, wire, reply, broker>>
      /\ Rows \subseteq Requests
      /\ \A r \in Requests : ask[r].proposal \in Proposals /\ ask[r].review \in Reviews
  BY DEF requestVars, networkVars, Rows, TypeOK, Ask
<1>2. Owner' /\ OwnTerms' /\ AnswersOwnOrder' /\ OneCall'
  BY <1>1 DEF SubmissionInv, Owner, OwnTerms, AnswersOwnOrder, OneCall
<1>3. Commitment'
  BY <1>1 DEF SubmissionInv, Commitment
<1> QED BY <1>2, <1>3 DEF SubmissionInv

(* What is archived was committed, and stays so.                           *)
LEMMA ArchivedKeeps ==
  ASSUME NEW ps, proposal' = Archived(ps)
  PROVE  \A p \in Proposals : proposal[p] \in {"submitted", "archived"}
                                => proposal'[p] \in {"submitted", "archived"}
  BY DEF Archived

LEMMA UserSubmission ==
  ASSUME TypeOK, SubmissionInv, Tick \/ User PROVE SubmissionInv'
<1> USE DEF requestVars, networkVars, brokerVars, Rows
<1>1. CASE Tick
  BY <1>1, SubmissionFrame DEF Tick
<1>2. ASSUME NEW v \in Reviews, NEW p \in Proposals, CreateReview(v, p) PROVE SubmissionInv'
  BY <1>2, SubmissionFrame DEF CreateReview, NoReview, TypeOK
<1>3. ASSUME NEW p \in Proposals, RejectProposal(p) PROVE SubmissionInv'
  BY <1>3, SubmissionFrame DEF RejectProposal, TypeOK
<1>4. CASE SwitchContext
  BY <1>4, SubmissionFrame DEF SwitchContext, InvalidatePending
<1>5. CASE RevokeConnection
  BY <1>5, SubmissionFrame DEF RevokeConnection, InvalidatePending
<1> QED BY <1>1, <1>2, <1>3, <1>4, <1>5 DEF User

LEMMA WorkerSubmission ==
  ASSUME TypeOK, SubmissionInv, BrokerInv,
         (\E w \in Workers : Reconciler(w)) \/ (\E f \in Refreshers : Refresher(f))
  PROVE  SubmissionInv'
<1> USE DEF WorkerRest, requestVars, networkVars, brokerVars
<1>1. ASSUME NEW o \in Rows, NEW s, ReconcileOrder(o, s) PROVE Rows' = Rows
  BY <1>1, MapOrderStateType DEF ReconcileOrder, Rows, OrderState, TypeOK
<1>2. ASSUME NEW o, NEW s, ReconcileOrder(o, s)
      PROVE  \A p \in Proposals : proposal[p] \in {"submitted", "archived"}
                                    => proposal'[p] \in {"submitted", "archived"}
  BY <1>2, ArchivedKeeps DEF ReconcileOrder
<1>3. ASSUME NEW w \in Workers, Reconciler(w) PROVE SubmissionInv'
  <2>1. CASE ApplyOrder(w)
    <3>1. worker[w].held.of \in Rows
      BY <2>1 DEF ApplyOrder, BrokerInv, Faithful
    <3> QED BY <2>1, <3>1, <1>1, <1>2, SubmissionFrame DEF ApplyOrder
  <2>2. CASE ApplyPositions(w)
    BY <2>2, ArchivedKeeps, SubmissionFrame DEF ApplyPositions, ReplaceOpenPositions, ArchivedSymbol, Rows
  <2> QED BY <1>3, <2>1, <2>2, SubmissionFrame
          DEF Reconciler, ListAccounts, ListOrders, FetchOrder, FetchPositions, AbortCycle, Rows
<1>4. ASSUME NEW f \in Refreshers, Refresher(f) PROVE SubmissionInv'
  <2>1. CASE ApplyRefresh(f)
    <3>1. refresh[f].of \in Rows
      BY <2>1 DEF ApplyRefresh, BrokerInv, Faithful
    <3> QED BY <2>1, <3>1, <1>1, <1>2, SubmissionFrame DEF ApplyRefresh
  <2> QED BY <1>4, <2>1, SubmissionFrame DEF Refresher, FetchRefresh, Rows
<1> QED BY <1>3, <1>4

LEMMA BrokerSubmission ==
  ASSUME TypeOK, SubmissionInv, Broker PROVE SubmissionInv'
<1> USE DEF requestVars, networkVars, brokerVars, Rows
<1>1. ASSUME NEW o \in Requests, AcceptOrder(o) \/ RefuseOrder(o) PROVE SubmissionInv'
  BY <1>1 DEF AcceptOrder, RefuseOrder, Deliver, TypeOK, SubmissionInv, Owner, Commitment,
              OwnTerms, OneCall, AnswersOwnOrder
<1>2. ASSUME NEW o \in Requests, MoveOrder(o) PROVE SubmissionInv'
  <2>1. broker[o] # NoBrokerOrder
    BY <1>2 DEF MoveOrder, BrokerMoves, Working, NoBrokerOrder
  <2> QED BY <1>2, <2>1 DEF MoveOrder, TypeOK, SubmissionInv, Owner, Commitment,
              OwnTerms, OneCall, AnswersOwnOrder
<1>3. CASE CloseExposure
  BY <1>3, SubmissionFrame DEF CloseExposure
<1> QED BY <1>1, <1>2, <1>3 DEF Broker

LEMMA RequestSubmission ==
  ASSUME TypeOK, SubmissionInv, NEW r \in Requests, Request(r) PROVE SubmissionInv'
<1> USE DEF requestVars, networkVars, brokerVars, TypeOK, SubmissionInv, Ask
<1>a. ASSUME NEW next \in Preflight, pc[r] \in {"idle"} \cup Preflight, LookUpKey(r, next),
             UNCHANGED <<proposal, review, ask, order, networkVars, broker>>
      PROVE  SubmissionInv'
  BY <1>a DEF LookUpKey, ByKey, Rows, Owner, Commitment, OwnTerms, OneCall, AnswersOwnOrder,
              Preflight, Committed
<1>b. ASSUME pc[r] \in Preflight, NEW next \in Preflight \cup {"done"},
             pc' = [pc EXCEPT ![r] = next],
             \A p \in Proposals : proposal[p] \in {"submitted", "archived"}
                                    => proposal'[p] \in {"submitted", "archived"},
             UNCHANGED <<review, ask, start, order, networkVars, broker>>
      PROVE  SubmissionInv'
  BY <1>b DEF Rows, Owner, Commitment, OwnTerms, OneCall, AnswersOwnOrder, Preflight, Committed
<1>1. CASE Submit(r)
  BY <1>1, <1>a DEF Submit, Preflight
<1>2. CASE CheckProposal(r)
  BY <1>2, <1>b DEF CheckProposal, Preflight
<1>3. CASE RefreshPositions(r)
  BY <1>3, <1>b, ArchivedKeeps DEF RefreshPositions, ReplaceOpenPositions, ArchivedSymbol, Preflight
<1>4. CASE CheckPortfolio(r)
  BY <1>4, <1>b DEF CheckPortfolio, Preflight
<1>5. CASE LookUpKeyAgain(r)
  BY <1>5, <1>a DEF LookUpKeyAgain, Preflight
<1>6. CASE BeginSubmission(r)
  <2>1. r \notin Rows /\ Rows' = Rows \cup {r}
    BY <1>6 DEF BeginSubmission, Rows, Owner, Preflight
  <2>2. Owner'
    BY <1>6, <2>1 DEF BeginSubmission, Owner, Preflight, Committed
  <2>3. Commitment'
    BY <1>6, <2>1 DEF BeginSubmission, Commitment, ReviewUsable, Rows, Review
  <2>4. OwnTerms'
    BY <1>6, <2>1 DEF BeginSubmission, OwnTerms, RowUnique, ByKey, ByProposal, Rows
  <2>5. OneCall'
    BY <1>6, <2>1 DEF BeginSubmission, OneCall
  <2>6. AnswersOwnOrder'
    BY <1>6, <2>1 DEF BeginSubmission, AnswersOwnOrder
  <2> QED BY <2>2, <2>3, <2>4, <2>5, <2>6
<1>7. CASE Refuse(r)
  BY <1>7, <1>b DEF Refuse
<1>8. CASE SendOrder(r)
  BY <1>8 DEF SendOrder, PlaceOrder, Rows, Owner, Commitment, OwnTerms, OneCall, AnswersOwnOrder, Committed, Preflight
<1>9. ASSUME NEW state \in OrderState, pc[r] \in Committed, Finish(r, state) PROVE SubmissionInv'
  <2>1. Rows' = Rows
    BY <1>9 DEF Finish, SetState, Rows, Owner, OrderState
  <2>2. \A p \in Proposals : proposal[p] \in {"submitted", "archived"}
                               => proposal'[p] \in {"submitted", "archived"}
    BY <1>9, ArchivedKeeps DEF Finish, SetState
  <2>3. Owner'
    BY <1>9, <2>1 DEF Finish, Owner, Committed, Preflight
  <2>4. Commitment' /\ OwnTerms' /\ AnswersOwnOrder'
    BY <1>9, <2>1, <2>2 DEF Finish, Commitment, OwnTerms, AnswersOwnOrder, Rows
  <2>5. OneCall'
    BY <1>9, <2>1 DEF Finish, OneCall
  <2> QED BY <2>3, <2>4, <2>5
<1>10. CASE MarkAcknowledged(r)
  BY <1>10, <1>9 DEF MarkAcknowledged, OrderState, Committed
<1>11. CASE MarkRejected(r)
  BY <1>11, <1>9 DEF MarkRejected, OrderState, Committed
<1>12. CASE MarkUnknown(r)
  BY <1>12, <1>9 DEF MarkUnknown, OrderState
<1>13. CASE Crash(r)
  BY <1>13 DEF Crash, Rows, Owner, Commitment, OwnTerms, OneCall, AnswersOwnOrder, Committed, Preflight
<1> QED BY <1>1, <1>2, <1>3, <1>4, <1>5, <1>6, <1>7, <1>8, <1>10, <1>11, <1>12, <1>13 DEF Request

-----------------------------------------------------------------------------
(* The broker's truth.                                                     *)

(* A step that leaves the broker alone and moves no row to an end.         *)
LEMMA BrokerFrame ==
  ASSUME TypeOK, BrokerInv,
         UNCHANGED <<broker, worker, refresh>>,
         wire' \subseteq wire,
         Rows \subseteq Rows',
         \A r \in Requests : pc'[r] = "placing" => pc[r] = "placing" /\ start'[r] = start[r],
         \A o \in Requests : order'[o] = order[o] \/ order'[o] \notin {"filled", "cancelled", "rejected"}
  PROVE  BrokerInv'
<1>1. \A s : Faithful(s) => Faithful(s)'
  BY DEF Faithful
<1>2. TerminalIsBrokerTruth'
  BY DEF BrokerInv, TerminalIsBrokerTruth, NeverTraded, Rows
<1> QED BY <1>1, <1>2 DEF BrokerInv

LEMMA UserTruth ==
  ASSUME TypeOK, BrokerInv, Tick \/ User PROVE BrokerInv'
<1> USE DEF requestVars, networkVars, brokerVars, Rows
<1>1. CASE Tick
  BY <1>1, BrokerFrame DEF Tick
<1>2. CASE User
  BY <1>2, BrokerFrame DEF User, CreateReview, RejectProposal, SwitchContext, RevokeConnection
<1> QED BY <1>1, <1>2

LEMMA BrokerTruth ==
  ASSUME TypeOK, SubmissionInv, BrokerInv, Broker PROVE BrokerInv'
<1> USE DEF requestVars, networkVars, brokerVars, Rows
<1>1. ASSUME NEW o \in Requests, AcceptOrder(o) PROVE BrokerInv'
  <2>1. broker[o] = NoBrokerOrder /\ o \in wire /\ pc[o] # "placing"
    BY <1>1 DEF AcceptOrder, Deliver, SubmissionInv, OneCall
  <2>2. broker' = [broker EXCEPT ![o] = [status |-> "New", executed |-> FALSE]]
    BY <1>1 DEF AcceptOrder, Deliver
  <2>3. \A s : Faithful(s) => Faithful(s)'
    BY <1>1, <2>1, <2>2 DEF AcceptOrder, Deliver, Faithful, NoBrokerOrder, TypeOK
  <2>4. TerminalIsBrokerTruth'
    BY <1>1, <2>1, <2>2
    DEF AcceptOrder, Deliver, BrokerInv, TerminalIsBrokerTruth, NeverTraded, NoBrokerOrder, Working, TypeOK
  <2> QED BY <1>1, <2>2, <2>3, <2>4 DEF AcceptOrder, Deliver, BrokerInv, NoBrokerOrder, TypeOK
<1>2. ASSUME NEW o \in Requests, RefuseOrder(o) PROVE BrokerInv'
  BY <1>2, BrokerFrame DEF RefuseOrder, Deliver, TypeOK
<1>3. ASSUME NEW o \in Requests, MoveOrder(o) PROVE BrokerInv'
  <2>1. PICK n \in BrokerMoves(broker[o]) : broker' = [broker EXCEPT ![o] = n]
    BY <1>3 DEF MoveOrder
  <2>2. /\ Working(broker[o])
        /\ n.status # "None"
        /\ n.status = "Rejected" => ~n.executed
    BY <2>1 DEF BrokerMoves, TypeOK, BrokerOrder
  <2>3. \A s : Faithful(s) => Faithful(s)'
    BY <1>3, <2>1, <2>2 DEF MoveOrder, Faithful, Finished, Working, TypeOK
  <2>4. TerminalIsBrokerTruth'
    BY <1>3, <2>1, <2>2 DEF MoveOrder, BrokerInv, TerminalIsBrokerTruth, NeverTraded, Working, TypeOK
  <2> QED BY <1>3, <2>1, <2>2, <2>3, <2>4 DEF MoveOrder, BrokerInv, TypeOK
<1>4. CASE CloseExposure
  BY <1>4, BrokerFrame DEF CloseExposure
<1> QED BY <1>1, <1>2, <1>3, <1>4 DEF Broker

LEMMA RequestTruth ==
  ASSUME TypeOK, SubmissionInv, BrokerInv, NEW r \in Requests, Request(r) PROVE BrokerInv'
<1> USE DEF requestVars, networkVars, brokerVars, TypeOK
<1>a. ASSUME NEW next \in Preflight, LookUpKey(r, next),
             UNCHANGED <<ask, order, networkVars, broker, worker, refresh>>
      PROVE  BrokerInv'
  BY <1>a, BrokerFrame DEF LookUpKey, Rows, Preflight
<1>1. CASE Submit(r)
  BY <1>1, <1>a DEF Submit, Preflight
<1>2. CASE CheckProposal(r) \/ RefreshPositions(r) \/ CheckPortfolio(r) \/ Refuse(r) \/ Crash(r)
  BY <1>2, BrokerFrame DEF CheckProposal, RefreshPositions, CheckPortfolio, Refuse, Crash, Rows
<1>3. CASE LookUpKeyAgain(r)
  BY <1>3, <1>a DEF LookUpKeyAgain, Preflight
<1>4. CASE BeginSubmission(r)
  <2>1. sent[r] = 0 /\ r \notin Rows
    BY <1>4 DEF BeginSubmission, SubmissionInv, Owner, OneCall, Preflight
  <2>2. broker[r] = NoBrokerOrder
    BY <2>1 DEF SubmissionInv, OneCall
  <2>3. Rows' = Rows \cup {r}
    BY <1>4 DEF BeginSubmission, Rows
  <2>4. TerminalIsBrokerTruth'
    BY <1>4, <2>1, <2>3 DEF BeginSubmission, BrokerInv, TerminalIsBrokerTruth, NeverTraded
  <2> QED BY <1>4, <2>3, <2>4 DEF BeginSubmission, BrokerInv, Faithful
<1>5. CASE SendOrder(r)
  <2>1. start[r] = r /\ r \in Rows
    BY <1>5 DEF SendOrder, PlaceOrder, SubmissionInv, Owner, Committed
  <2>2. order[r] # "rejected"
    BY <1>5, <2>1 DEF SendOrder, PlaceOrder, BrokerInv, TerminalIsBrokerTruth, NeverTraded
  <2>3. TerminalIsBrokerTruth'
    BY <1>5, <2>1, <2>2 DEF SendOrder, PlaceOrder, BrokerInv, TerminalIsBrokerTruth, NeverTraded, Rows
  <2> QED BY <1>5, <2>3 DEF SendOrder, PlaceOrder, BrokerInv, Faithful, Rows
<1>6. CASE MarkAcknowledged(r) \/ MarkUnknown(r)
  <2>1. PICK state \in {"acknowledged", "submission_unknown"} :
          pc[r] \in Committed /\ Finish(r, state)
    BY <1>6 DEF MarkAcknowledged, MarkUnknown, Committed
  <2> QED BY <2>1, BrokerFrame DEF Finish, SetState, Rows, OrderState
<1>7. CASE MarkRejected(r)
  <2>1. start[r] = r /\ r \in Rows
    BY <1>7 DEF MarkRejected, SubmissionInv, Owner, Committed
  <2>2. broker[r] = NoBrokerOrder /\ r \notin wire
    BY <1>7, <2>1 DEF MarkRejected, Outcomes, SubmissionInv, OneCall
  <2>3. pc' = [pc EXCEPT ![r] = "done"] /\ order' = [order EXCEPT ![r] = "rejected"]
    BY <1>7, <2>1 DEF MarkRejected, Finish, SetState
  <2>4. Rows' = Rows
    BY <2>1, <2>3 DEF Rows
  <2>5. UNCHANGED <<start, wire, broker, worker, refresh>>
    BY <1>7 DEF MarkRejected, Finish
  <2>6. \A q \in Requests : pc'[q] = "placing" => pc[q] = "placing" /\ start'[q] = q
    BY <2>3, <2>5 DEF SubmissionInv, Owner, Committed
  <2>7. NeverTraded(r)'
    BY <2>2, <2>3, <2>5, <2>6 DEF NeverTraded, NoBrokerOrder, Working
  <2>8. \A o \in Rows : NeverTraded(o) => NeverTraded(o)'
    BY <2>3, <2>5 DEF NeverTraded
  <2>9. TerminalIsBrokerTruth'
    BY <2>1, <2>3, <2>4, <2>5, <2>7, <2>8 DEF BrokerInv, TerminalIsBrokerTruth, Rows
  <2> QED BY <2>4, <2>5, <2>9 DEF BrokerInv, Faithful
<1> QED BY <1>1, <1>2, <1>3, <1>4, <1>5, <1>6, <1>7 DEF Request

(* Writing a faithful snapshot tells the broker's truth.                   *)
LEMMA ReconcileTruth ==
  ASSUME TypeOK, SubmissionInv, BrokerInv, NEW s \in Snapshot, s.of # None, Faithful(s),
         ReconcileOrder(s.of, s.was), UNCHANGED <<requestVars, networkVars, broker>>
  PROVE  /\ TerminalIsBrokerTruth'
         /\ Rows' = Rows
         /\ DeadUnexecuted(s.was) => NeverTraded(s.of)'
<1> USE DEF requestVars, networkVars
<1>1. s.of \in Rows /\ s.was \in BrokerOrder
  BY DEF Faithful, Snapshot
<1>2. Rows' = Rows
  BY <1>1, MapOrderStateType DEF ReconcileOrder, Rows, OrderState, TypeOK
<1>3. MapOrderState(s.was.status) \in {"filled", "cancelled", "rejected"}
        => broker[s.of] = s.was /\ Finished(s.was)
  BY <1>1 DEF Faithful, MapOrderState, Finished, BrokerOrder, BrokerStatus
<1>4. s.of \notin wire /\ \A r \in Requests : pc[r] = "placing" => start[r] # s.of
  <2>1. broker[s.of] # NoBrokerOrder /\ s.of \in Requests
    BY <1>1 DEF Faithful, NoBrokerOrder, Rows
  <2>2. sent[s.of] = 1 /\ reply[s.of] = "ack" /\ pc[s.of] # "placing" /\ s.of \notin wire
    BY <2>1 DEF SubmissionInv, OneCall
  <2> QED BY <2>2 DEF SubmissionInv, Owner, Committed
<1>5. /\ MapOrderState(s.was.status) = "filled" => s.was.status = "Filled"
      /\ MapOrderState(s.was.status) = "rejected" => s.was.status = "Rejected"
      /\ MapOrderState(s.was.status) = "cancelled" => s.was.status = "Cancelled"
  BY <1>1 DEF MapOrderState, BrokerOrder, BrokerStatus
<1>6. MapOrderState(s.was.status) = "rejected" => NeverTraded(s.of)'
  BY <1>1, <1>3, <1>4, <1>5 DEF NeverTraded, Working, BrokerInv, Rows
<1>7. DeadUnexecuted(s.was) => NeverTraded(s.of)'
  BY <1>3, <1>4, <1>5 DEF DeadUnexecuted, NeverTraded, Working
<1>8. \A o \in Rows : NeverTraded(o) => NeverTraded(o)'
  BY DEF NeverTraded
<1>9. order' = [order EXCEPT ![s.of] = MapOrderState(s.was.status)]
  BY DEF ReconcileOrder
<1>10. TerminalIsBrokerTruth'
  BY <1>1, <1>2, <1>3, <1>5, <1>6, <1>8, <1>9 DEF BrokerInv, TerminalIsBrokerTruth, Rows, TypeOK
<1> QED BY <1>2, <1>7, <1>10

LEMMA WorkerTruth ==
  ASSUME TypeOK, SubmissionInv, BrokerInv, NEW w \in Workers, Reconciler(w) PROVE BrokerInv'
<1> USE DEF WorkerRest, requestVars, networkVars, brokerVars, TypeOK
<1>1. /\ worker[w] \in Worker
      /\ worker[w].held \in Snapshot
      /\ worker[w].todo \subseteq Rows
      /\ Faithful(worker[w].held)
  BY DEF BrokerInv, Worker
<1>2. UNCHANGED <<requestVars, networkVars, broker, refresh>>
  BY DEF Reconciler, ListAccounts, ListOrders, FetchOrder, ApplyOrder, FetchPositions, ApplyPositions, AbortCycle
<1>3. ASSUME UNCHANGED order PROVE Rows' = Rows /\ TerminalIsBrokerTruth'
  BY <1>2, <1>3 DEF BrokerInv, TerminalIsBrokerTruth, NeverTraded, Rows
<1>4. ASSUME Rows' = Rows PROVE \A s : Faithful(s) => Faithful(s)'
  BY <1>2, <1>4 DEF Faithful
<1>5. \A s : s.of = None => Faithful(s)'
  BY DEF Faithful
<1>6. ASSUME Rows' = Rows, TerminalIsBrokerTruth', NEW c, worker' = [worker EXCEPT ![w] = c],
             c.todo \subseteq Rows, \A s : s = c.held => Faithful(s)'
      PROVE  BrokerInv'
  <2>1. worker'[w].todo \subseteq Rows' /\ Faithful(worker[w].held)'
    BY <1>6
  <2>2. \A v \in Workers \ {w} : worker'[v] = worker[v]
    BY <1>6
  <2>3. \A v \in Workers : worker'[v].todo \subseteq Rows' /\ Faithful(worker[v].held)'
    BY <1>4, <1>6, <2>1, <2>2 DEF BrokerInv
  <2> QED BY <1>2, <1>4, <1>6, <2>3 DEF BrokerInv
<1>0. CASE ListAccounts(w)
  <2>1. PICK c : c = [worker[w] EXCEPT !.at = "account"]
    OBVIOUS
  <2>2. worker' = [worker EXCEPT ![w] = c] /\ UNCHANGED order
    BY <1>0, <2>1 DEF ListAccounts
  <2>3. c.held = worker[w].held /\ c.todo = worker[w].todo
    BY <1>1, <2>1 DEF Worker
  <2> QED BY <1>1, <1>3, <1>4, <1>6, <2>2, <2>3
<1>7. CASE ListOrders(w)
  <2>1. PICK t \in SUBSET Rows :
          worker' = [worker EXCEPT ![w] = [worker[w] EXCEPT !.at = "orders", !.todo = t]]
    BY <1>7 DEF ListOrders
  <2>2. PICK c : c = [worker[w] EXCEPT !.at = "orders", !.todo = t]
    OBVIOUS
  <2>3. c.held = worker[w].held /\ c.todo = t
    BY <1>1, <2>2 DEF Worker
  <2>4. UNCHANGED order
    BY <1>7 DEF ListOrders
  <2> QED BY <1>1, <1>3, <1>4, <1>6, <2>1, <2>2, <2>3, <2>4
<1>8. ASSUME NEW o \in Requests, FetchOrder(w, o) PROVE BrokerInv'
  <2>1. PICK h : h = IF broker[o].status = "None" THEN NoSnapshot ELSE [of |-> o, was |-> broker[o]]
    OBVIOUS
  <2>2. PICK c : c = [worker[w] EXCEPT !.todo = worker[w].todo \ {o}, !.held = h]
    OBVIOUS
  <2>3. worker' = [worker EXCEPT ![w] = c] /\ UNCHANGED order /\ o \in worker[w].todo
    BY <1>8, <2>1, <2>2 DEF FetchOrder, OrderSnapshot
  <2>4. c.held = h /\ c.todo \subseteq Rows
    BY <1>1, <2>2 DEF Worker
  <2>5. o \in Rows
    BY <1>1, <2>3
  <2>6. Faithful(h)'
    BY <1>2, <1>3, <2>1, <2>3, <2>5 DEF Faithful, NoSnapshot
  <2> QED BY <1>3, <1>6, <2>3, <2>4, <2>6
<1>9. CASE ApplyOrder(w)
  <2>1. PICK c : c = [worker[w] EXCEPT !.held = NoSnapshot]
    OBVIOUS
  <2>2. worker' = [worker EXCEPT ![w] = c]
    BY <1>9, <2>1 DEF ApplyOrder
  <2>3. c.held.of = None /\ c.todo \subseteq Rows
    BY <1>1, <2>1 DEF Worker, NoSnapshot
  <2>4. Rows' = Rows /\ TerminalIsBrokerTruth'
    BY <1>1, <1>9, ReconcileTruth DEF ApplyOrder
  <2> QED BY <1>5, <1>6, <2>2, <2>3, <2>4
<1>10. CASE FetchPositions(w)
  <2>1. PICK c : c = [worker[w] EXCEPT !.at = "positions", !.open = exposure]
    OBVIOUS
  <2>2. worker' = [worker EXCEPT ![w] = c] /\ UNCHANGED order
    BY <1>10, <2>1 DEF FetchPositions, OpenPositions
  <2>3. c.held = worker[w].held /\ c.todo = worker[w].todo
    BY <1>1, <2>1 DEF Worker
  <2> QED BY <1>1, <1>3, <1>4, <1>6, <2>2, <2>3
<1>11. CASE ApplyPositions(w) \/ AbortCycle(w)
  <2>1. worker' = [worker EXCEPT ![w] = IdleWorker] /\ UNCHANGED order
    BY <1>11 DEF ApplyPositions, AbortCycle
  <2>2. IdleWorker.held.of = None /\ IdleWorker.todo = {}
    BY DEF IdleWorker, NoSnapshot
  <2> QED BY <1>3, <1>5, <1>6, <2>1, <2>2
<1> QED BY <1>0, <1>7, <1>8, <1>9, <1>10, <1>11 DEF Reconciler

LEMMA RefresherTruth ==
  ASSUME TypeOK, SubmissionInv, BrokerInv, NEW f \in Refreshers, Refresher(f) PROVE BrokerInv'
<1> USE DEF WorkerRest, requestVars, networkVars, brokerVars, TypeOK
<1>1. Faithful(NoSnapshot)'
  BY DEF Faithful, NoSnapshot
<1>2. ASSUME NEW o \in Requests, FetchRefresh(f, o) PROVE BrokerInv'
  <2>1. Rows' = Rows /\ TerminalIsBrokerTruth'
    BY <1>2 DEF FetchRefresh, BrokerInv, TerminalIsBrokerTruth, NeverTraded, Rows
  <2>2. \A s : Faithful(s) => Faithful(s)'
    BY <1>2, <2>1 DEF FetchRefresh, Faithful
  <2>3. Faithful([of |-> o, was |-> broker[o]])'
    BY <1>2, <2>1 DEF FetchRefresh, Faithful
  <2> QED BY <1>2, <2>1, <2>2, <2>3 DEF FetchRefresh, OrderSnapshot, BrokerInv
<1>3. CASE ApplyRefresh(f)
  <2>1. Faithful(refresh[f]) /\ refresh[f] \in Snapshot
    BY DEF BrokerInv
  <2>2. Rows' = Rows /\ TerminalIsBrokerTruth'
    BY <1>3, <2>1, ReconcileTruth DEF ApplyRefresh
  <2>3. \A s : Faithful(s) => Faithful(s)'
    BY <1>3, <2>2 DEF ApplyRefresh, Faithful
  <2> QED BY <1>1, <1>3, <2>2, <2>3 DEF ApplyRefresh, BrokerInv
<1> QED BY <1>2, <1>3 DEF Refresher

-----------------------------------------------------------------------------
(* The invariant, and what follows from it.                                *)

IndInv == TypeOK /\ SubmissionInv /\ BrokerInv

LEMMA Initially == Init => IndInv
<1> SUFFICES ASSUME Init PROVE IndInv
  OBVIOUS
<1>1. TypeOK
  BY ConstantsAssumption
  DEF Init, TypeOK, Account, ProposalStatus, Review, NoReview, Pc, OrderState, BrokerOrder,
      NoBrokerOrder, Worker, IdleWorker, Snapshot, NoSnapshot
<1>2. SubmissionInv
  BY ConstantsAssumption
  DEF Init, SubmissionInv, Owner, Commitment, OwnTerms, OneCall, AnswersOwnOrder, Rows, Committed
<1>3. BrokerInv
  BY DEF Init, BrokerInv, TerminalIsBrokerTruth, Rows, Faithful, NoSnapshot, NoBrokerOrder, IdleWorker
<1> QED BY <1>1, <1>2, <1>3 DEF IndInv

LEMMA Inductive == IndInv /\ [Next]_vars => IndInv'
<1> SUFFICES ASSUME IndInv, [Next]_vars PROVE IndInv'
  OBVIOUS
<1> USE DEF IndInv
<1>0. Owner
  BY DEF SubmissionInv
<1>1. CASE UNCHANGED vars
  <2>1. TypeOK'
    BY <1>1 DEF TypeOK, vars
  <2>2. SubmissionInv'
    BY <1>1, SubmissionFrame DEF vars, requestVars, networkVars, Rows
  <2>3. BrokerInv'
    BY <1>1, BrokerFrame DEF vars, Rows
  <2> QED BY <2>1, <2>2, <2>3
<1>2. CASE Tick \/ User
  BY <1>2, UserType, UserSubmission, UserTruth
<1>3. CASE Broker
  BY <1>3, BrokerType, BrokerSubmission, BrokerTruth
<1>4. ASSUME NEW r \in Requests, Request(r) PROVE IndInv'
  BY <1>0, <1>4, RequestType, RequestSubmission, RequestTruth
<1>5. ASSUME NEW w \in Workers, Reconciler(w) PROVE IndInv'
  BY <1>5, ReconcilerType, WorkerSubmission, WorkerTruth
<1>6. ASSUME NEW f \in Refreshers, Refresher(f) PROVE IndInv'
  BY <1>6, RefresherType, WorkerSubmission, RefresherTruth
<1> QED BY <1>1, <1>2, <1>3, <1>4, <1>5, <1>6 DEF Next

THEOREM Invariance == Spec => []IndInv
  BY Initially, Inductive, PTL DEF Spec

(* The state of the write path always has its type.                        *)
THEOREM TypeCorrect == Spec => []TypeOK
  BY Invariance, PTL DEF IndInv

(* SignalOS never asks the broker twice for one proposal, however many     *)
(* submissions, retries, timeouts and deaths of the process there are.     *)
THEOREM PlacedAtMostOnce == Spec => []AtMostOnePlacement
<1>1. IndInv => AtMostOnePlacement
  BY DEF IndInv, TypeOK, SubmissionInv, OneCall, OwnTerms, AtMostOnePlacement
<1> QED BY <1>1, Invariance, PTL

(* What the user or a context change withdrew never reaches the broker.    *)
THEOREM WithdrawnStaysHome == Spec => []WithdrawnNeverPlaced
<1>1. IndInv => WithdrawnNeverPlaced
  BY DEF IndInv, TypeOK, Rows, SubmissionInv, Commitment, OneCall, WithdrawnNeverPlaced
<1> QED BY <1>1, Invariance, PTL

(* A confirmation, its review and its key make one order row at most.      *)
THEOREM ConfirmedOnce == Spec => []OneOrderPerConfirmation
<1>1. IndInv => OneOrderPerConfirmation
  BY DEF IndInv, SubmissionInv, Commitment, OwnTerms, OneOrderPerConfirmation
<1> QED BY <1>1, Invariance, PTL

(* A replay answers with the order of its own proposal and key.            *)
THEOREM ReplaysTheirOwn == Spec => []AnswersOwnOrder
<1>1. IndInv => AnswersOwnOrder
  BY DEF IndInv, SubmissionInv
<1> QED BY <1>1, Invariance, PTL

(* A row that is no longer polled says the broker's last word, whichever   *)
(* late answers and stale snapshots were written to it.                    *)
THEOREM TerminalIsTrue == Spec => []TerminalIsBrokerTruth
<1>1. IndInv => TerminalIsBrokerTruth
  BY DEF IndInv, BrokerInv
<1> QED BY <1>1, Invariance, PTL

-----------------------------------------------------------------------------
(* What a step may do to a proposal.                                       *)

(* Every change of a proposal is one of these four.                        *)
LEMMA ProposalStep ==
  ASSUME IndInv, [Next]_vars
  PROVE  \/ UNCHANGED proposal
         \/ \E p \in Proposals : RejectProposal(p)
         \/ InvalidatePending
         \/ \E r \in Requests : BeginSubmission(r)
         \/ \E ps \in SUBSET Proposals : proposal' = Archived(ps)
<1> USE DEF IndInv, TypeOK, WorkerRest
<1>1. CASE UNCHANGED vars
  BY <1>1 DEF vars
<1>2. CASE Tick \/ User
  BY <1>2 DEF Tick, User, CreateReview, SwitchContext, RevokeConnection
<1>3. CASE Broker
  BY <1>3 DEF Broker, AcceptOrder, RefuseOrder, Deliver, MoveOrder, CloseExposure
<1>4. ASSUME NEW open, ReplaceOpenPositions(open)
      PROVE  UNCHANGED proposal \/ proposal' = Archived(Proposals)
  BY <1>4 DEF ReplaceOpenPositions, ArchivedSymbol
<1>5. ASSUME NEW r \in Requests, Request(r), ~BeginSubmission(r)
      PROVE  UNCHANGED proposal \/ \E ps \in SUBSET Proposals : proposal' = Archived(ps)
  <2>1. {ask[start[r]].proposal} \in SUBSET Proposals \/ pc[r] \notin Committed
    BY DEF SubmissionInv, Owner, Ask
  <2>2. ASSUME NEW state, pc[r] \in Committed, Finish(r, state)
        PROVE  UNCHANGED proposal \/ \E ps \in SUBSET Proposals : proposal' = Archived(ps)
    BY <2>1, <2>2 DEF Finish, SetState
  <2>3. CASE MarkAcknowledged(r) \/ MarkRejected(r) \/ MarkUnknown(r)
    BY <2>2, <2>3 DEF MarkAcknowledged, MarkRejected, MarkUnknown, Committed
  <2>4. CASE RefreshPositions(r)
    BY <1>4, <2>4 DEF RefreshPositions
  <2> QED BY <1>5, <2>3, <2>4
          DEF Request, Submit, CheckProposal, CheckPortfolio, LookUpKeyAgain, Refuse, SendOrder, Crash
<1>6. ASSUME NEW o \in Rows, NEW s, ReconcileOrder(o, s)
      PROVE  UNCHANGED proposal \/ \E ps \in SUBSET Proposals : proposal' = Archived(ps)
  <2>1. {ask[o].proposal} \in SUBSET Proposals
    BY DEF Rows, Ask
  <2> QED BY <1>6, <2>1 DEF ReconcileOrder
<1>7. ASSUME NEW w \in Workers, Reconciler(w)
      PROVE  UNCHANGED proposal \/ \E ps \in SUBSET Proposals : proposal' = Archived(ps)
  <2>1. CASE ApplyOrder(w)
    BY <1>6, <2>1 DEF ApplyOrder, BrokerInv, Faithful
  <2>2. CASE ApplyPositions(w)
    BY <1>4, <2>2 DEF ApplyPositions
  <2> QED BY <1>7, <2>1, <2>2 DEF Reconciler, ListAccounts, ListOrders, FetchOrder, FetchPositions, AbortCycle
<1>8. ASSUME NEW f \in Refreshers, Refresher(f)
      PROVE  UNCHANGED proposal \/ \E ps \in SUBSET Proposals : proposal' = Archived(ps)
  BY <1>6, <1>8 DEF Refresher, FetchRefresh, ApplyRefresh, BrokerInv, Faithful
<1> QED BY <1>1, <1>2, <1>3, <1>5, <1>7, <1>8 DEF Next

(* Racing submissions, rejections, switches and archivals only ever move a *)
(* proposal forward.                                                       *)
THEOREM ProposalsMoveForward == Spec => ProposalLifecycle
<1>1. IndInv /\ [Next]_vars => [ProposalMoves]_vars
  <2> SUFFICES ASSUME IndInv, [Next]_vars PROVE ProposalMoves
    OBVIOUS
  <2> USE DEF IndInv, TypeOK, ProposalMoves
  <2>1. CASE UNCHANGED proposal
    BY <2>1
  <2>2. CASE \E p \in Proposals : RejectProposal(p)
    BY <2>2 DEF RejectProposal
  <2>3. CASE InvalidatePending
    BY <2>3 DEF InvalidatePending
  <2>4. ASSUME NEW r \in Requests, BeginSubmission(r) PROVE ProposalMoves
    BY <2>4 DEF BeginSubmission, ProposalOpen
  <2>5. CASE \E ps \in SUBSET Proposals : proposal' = Archived(ps)
    BY <2>5 DEF Archived
  <2> QED BY <2>1, <2>2, <2>3, <2>4, <2>5, ProposalStep
<1> QED BY <1>1, Invariance, PTL DEF Spec, ProposalLifecycle

(* A proposal is archived only when the position of its symbol was seen to *)
(* close or its order never traded.                                        *)
THEOREM ArchivalHasEvidence == Spec => ArchivedOnEvidence
<1>1. IndInv /\ [Next]_vars => [ArchivedFor]_vars
  <2> SUFFICES ASSUME IndInv, [Next]_vars,
                      NEW p \in Proposals, proposal[p] = "submitted", proposal'[p] = "archived"
               PROVE  \/ position = "open" /\ position' = "closed"
                      \/ \A o \in ByProposal(p) : NeverTraded(o)'
    BY DEF ArchivedFor
  <2> USE DEF IndInv, TypeOK, WorkerRest, requestVars, networkVars, brokerVars
  <2>a. ASSUME NEW o \in Rows, proposal' = Archived({ask[o].proposal})
        PROVE  \A q \in ByProposal(p) : q = o
    <3>1. ask[o].proposal = p
      BY <2>a DEF Archived
    <3> QED BY <3>1 DEF ByProposal, SubmissionInv, OwnTerms
  <2>b. ASSUME NEW open, ReplaceOpenPositions(open) PROVE position = "open" /\ position' = "closed"
    BY <2>b DEF ReplaceOpenPositions, ArchivedSymbol
  <2>c. ASSUME NEW s \in Snapshot, s.of # None, Faithful(s), ReconcileOrder(s.of, s.was),
               UNCHANGED <<requestVars, networkVars, broker>>
        PROVE  \A o \in ByProposal(p) : NeverTraded(o)'
    <3>1. DeadUnexecuted(s.was) /\ proposal' = Archived({ask[s.of].proposal}) /\ s.of \in Rows
      BY <2>c DEF ReconcileOrder, Faithful
    <3>2. NeverTraded(s.of)'
      BY <2>c, <3>1, ReconcileTruth
    <3>3. \A o \in ByProposal(p) : o = s.of
      BY <2>a, <3>1
    <3> QED BY <3>2, <3>3
  <2>1. CASE UNCHANGED proposal
    BY <2>1
  <2>2. ASSUME NEW r \in Requests, Request(r)
        PROVE  \/ position = "open" /\ position' = "closed"
               \/ \A o \in ByProposal(p) : NeverTraded(o)'
    <3>1. CASE RefreshPositions(r)
      BY <2>b, <3>1 DEF RefreshPositions
    <3>2. CASE MarkRejected(r)
      <4>1. start[r] = r /\ r \in Rows
        BY <3>2 DEF MarkRejected, SubmissionInv, Owner, Committed
      <4>2. \A o \in ByProposal(p) : o = r
        BY <2>a, <3>2, <4>1 DEF MarkRejected, Finish, SetState
      <4>3. order'[r] = "rejected" /\ r \in Rows'
        BY <3>2, <4>1 DEF MarkRejected, Finish, SetState, Rows
      <4>4. NeverTraded(r)'
        BY <2>2, <4>3, RequestTruth DEF BrokerInv, TerminalIsBrokerTruth
      <4> QED BY <4>2, <4>4
    <3>3. CASE BeginSubmission(r)
      BY <3>3 DEF BeginSubmission
    <3> QED BY <2>1, <2>2, <3>1, <3>2, <3>3
            DEF Request, Submit, CheckProposal, CheckPortfolio, LookUpKeyAgain, Refuse, SendOrder,
                MarkAcknowledged, MarkUnknown, Finish, SetState, Crash
  <2>3. ASSUME NEW w \in Workers, Reconciler(w)
        PROVE  \/ position = "open" /\ position' = "closed"
               \/ \A o \in ByProposal(p) : NeverTraded(o)'
    <3>1. CASE ApplyOrder(w)
      <4>1. worker[w].held \in Snapshot /\ Faithful(worker[w].held)
        BY DEF BrokerInv, Worker
      <4> QED BY <2>c, <3>1, <4>1 DEF ApplyOrder
    <3>2. CASE ApplyPositions(w)
      BY <2>b, <3>2 DEF ApplyPositions
    <3> QED BY <2>1, <2>3, <3>1, <3>2
            DEF Reconciler, ListAccounts, ListOrders, FetchOrder, FetchPositions, AbortCycle
  <2>4. ASSUME NEW f \in Refreshers, Refresher(f)
        PROVE  \A o \in ByProposal(p) : NeverTraded(o)'
    <3>1. CASE ApplyRefresh(f)
      BY <2>c, <3>1 DEF ApplyRefresh, BrokerInv
    <3> QED BY <2>4, <3>1 DEF Refresher, FetchRefresh
  <2>5. CASE Tick \/ User \/ Broker \/ UNCHANGED vars
    BY <2>5 DEF Tick, User, CreateReview, RejectProposal, SwitchContext, RevokeConnection,
                InvalidatePending, Broker, AcceptOrder, RefuseOrder, Deliver, MoveOrder,
                CloseExposure, vars
  <2> QED BY <2>2, <2>3, <2>4, <2>5 DEF Next
<1> QED BY <1>1, Invariance, PTL DEF Spec, ArchivedOnEvidence

-----------------------------------------------------------------------------
(* The write path implements ProposalPromise.                              *)

(* An order link's placements: none, or the one.                           *)
LEMMA Placements ==
  ASSUME IndInv, NEW p \in Proposals
  PROVE  /\ (\A o \in Requests : ask[o].proposal = p => sent[o] = 0) => placements[p] = {}
         /\ \A r \in Requests :
              /\ ask[r].proposal = p
              /\ \A o \in Requests : ask[o].proposal = p /\ sent[o] # 0 => o = r
              /\ sent[r] = 1
              => placements[p] = {<<r, 1>>}
<1> DEFINE own == {o \in Requests : ask[o].proposal = p}
<1>1. placements[p] = UNION {{o} \X (1 .. sent[o]) : o \in own}
  BY DEF placements
<1>2. 1 .. 0 = {} /\ 1 .. 1 = {1}
  OBVIOUS
<1>3. ASSUME \A o \in Requests : ask[o].proposal = p => sent[o] = 0 PROVE placements[p] = {}
  <2>1. \A o \in own : {o} \X (1 .. sent[o]) = {}
    BY <1>2, <1>3
  <2> QED BY <1>1, <2>1
<1>4. ASSUME NEW r \in Requests, ask[r].proposal = p, sent[r] = 1,
             \A o \in Requests : ask[o].proposal = p /\ sent[o] # 0 => o = r
      PROVE  placements[p] = {<<r, 1>>}
  <2>1. \A o \in own : o # r => {o} \X (1 .. sent[o]) = {}
    BY <1>2, <1>4
  <2>2. {r} \X (1 .. sent[r]) = {<<r, 1>>} /\ r \in own
    BY <1>2, <1>4
  <2> QED BY <1>1, <2>1, <2>2
<1> QED BY <1>3, <1>4

(* A step that sends nothing places nothing, and its change of the         *)
(* proposals is the change of their phases.                                *)
LEMMA SilentStep ==
  ASSUME IndInv, UNCHANGED <<ask, sent>>
  PROVE  /\ UNCHANGED placements
         /\ UNCHANGED proposal => UNCHANGED phases
         /\ \A ps \in SUBSET Proposals : proposal' = Archived(ps) => Promise!Next
         /\ InvalidatePending => Promise!Next
         /\ \A p \in Proposals : RejectProposal(p) => Promise!Next
<1> USE DEF IndInv, TypeOK
<1>1. UNCHANGED placements
  BY DEF placements
<1>2. UNCHANGED proposal => UNCHANGED phases
  BY DEF phases
<1>3. ASSUME NEW ps \in SUBSET Proposals, proposal' = Archived(ps) PROVE Promise!Next
  <2> DEFINE qs == {p \in ps : proposal[p] = "submitted"}
  <2>1. Promise!Close(qs)
    BY <1>1, <1>3 DEF Promise!Close, Promise!Shift, phases, Phase, Archived
  <2>2. qs \in SUBSET Proposals
    OBVIOUS
  <2> HIDE DEF qs
  <2> QED BY <2>1, <2>2 DEF Promise!Next
<1>4. ASSUME InvalidatePending PROVE Promise!Next
  <2> DEFINE qs == {p \in Proposals : proposal[p] = "available"}
  <2>1. Promise!Withdraw(qs)
    BY <1>1, <1>4 DEF Promise!Withdraw, Promise!Shift, phases, Phase, InvalidatePending
  <2>2. qs \in SUBSET Proposals
    OBVIOUS
  <2> HIDE DEF qs
  <2> QED BY <2>1, <2>2 DEF Promise!Next
<1>5. ASSUME NEW p \in Proposals, RejectProposal(p) PROVE Promise!Next
  <2>1. Promise!Withdraw({p})
    BY <1>1, <1>5 DEF Promise!Withdraw, Promise!Shift, phases, Phase, RejectProposal
  <2>2. {p} \in SUBSET Proposals
    OBVIOUS
  <2> QED BY <2>1, <2>2 DEF Promise!Next
<1> QED BY <1>1, <1>2, <1>3, <1>4, <1>5

LEMMA PromiseInit == Init => Promise!Init
<1> SUFFICES ASSUME Init PROVE Promise!Init
  OBVIOUS
<1>1. phases = [p \in Proposals |-> "open"]
  BY DEF Init, phases, Phase
<1>2. placements = [p \in Proposals |-> {}]
  BY Initially, Placements DEF Init, placements
<1> QED BY <1>1, <1>2 DEF Promise!Init

LEMMA PromiseStep == IndInv /\ [Next]_vars => [Promise!Next]_(Promise!vars)
<1> SUFFICES ASSUME IndInv, [Next]_vars
             PROVE  Promise!Next \/ UNCHANGED <<phases, placements>>
  BY DEF Promise!vars
<1> USE DEF IndInv
<1>1. CASE \E r \in Requests : SendOrder(r)
  <2>1. PICK r \in Requests : SendOrder(r)
    BY <1>1
  <2>2. start[r] = r /\ sent[r] = 0 /\ ask[r].proposal \in Proposals /\ r \in Rows
    BY <2>1 DEF SendOrder, PlaceOrder, SubmissionInv, Owner, OneCall, Committed, TypeOK, Ask
  <2> DEFINE p == ask[r].proposal
  <2>3. phases[p] \in {"committed", "closed"}
    BY <2>2 DEF phases, Phase, SubmissionInv, Commitment
  <2>4. \A o \in Requests : ask[o].proposal = p => sent[o] = 0
    BY <2>2 DEF SubmissionInv, OwnTerms, OneCall
  <2>5. placements[p] = {}
    BY <2>2, <2>4, Placements
  <2>6. UNCHANGED <<ask, proposal>> /\ sent' = [sent EXCEPT ![r] = 1]
    BY <2>1, <2>2 DEF SendOrder, PlaceOrder
  <2>7. placements' = [placements EXCEPT ![p] = {<<r, 1>>}]
    <3>1. placements'[p] = {<<r, 1>>}
      <4> DEFINE own == {o \in Requests : ask[o].proposal = p}
      <4>1. placements'[p] = UNION {{o} \X (1 .. sent'[o]) : o \in own}
        BY <2>2, <2>6 DEF placements
      <4>2. 1 .. 0 = {} /\ 1 .. 1 = {1}
        OBVIOUS
      <4>3. \A o \in own : o # r => {o} \X (1 .. sent'[o]) = {}
        BY <2>4, <2>6, <4>2 DEF TypeOK
      <4>4. {r} \X (1 .. sent'[r]) = {<<r, 1>>} /\ r \in own
        BY <2>6, <4>2 DEF TypeOK
      <4> QED BY <4>1, <4>3, <4>4
    <3>2. ASSUME NEW q \in Proposals, q # p PROVE placements'[q] = placements[q]
      <4>1. \A o \in {o \in Requests : ask[o].proposal = q} : sent'[o] = sent[o]
        BY <2>6, <3>2 DEF TypeOK
      <4> QED BY <2>6, <4>1 DEF placements
    <3> QED BY <2>2, <3>1, <3>2 DEF placements
  <2>8. UNCHANGED phases
    BY <2>6 DEF phases
  <2>9. placements'[p] = {<<r, 1>>}
    BY <2>2, <2>7 DEF placements
  <2>10. Promise!Place(p)
    BY <2>3, <2>5, <2>7, <2>8, <2>9 DEF Promise!Place
  <2> QED BY <2>2, <2>10 DEF Promise!Next
<1>2. CASE \E r \in Requests : BeginSubmission(r)
  <2>1. PICK r \in Requests : BeginSubmission(r)
    BY <1>2
  <2>2. UNCHANGED <<ask, sent>> /\ ask[r].proposal \in Proposals
    BY <2>1 DEF BeginSubmission, networkVars, TypeOK, Ask
  <2>3. Promise!Commit(ask[r].proposal)
    BY <2>1, <2>2, SilentStep
    DEF BeginSubmission, ProposalOpen, Promise!Commit, Promise!Shift, phases, Phase, TypeOK
  <2> QED BY <2>2, <2>3 DEF Promise!Next
<1>3. ASSUME \A r \in Requests : ~SendOrder(r), \A r \in Requests : ~BeginSubmission(r)
      PROVE  Promise!Next \/ UNCHANGED <<phases, placements>>
  <2>1. UNCHANGED <<ask, sent>>
    <3>1. CASE UNCHANGED vars
      BY <3>1 DEF vars
    <3>2. CASE Tick \/ User \/ Broker
      BY <3>2 DEF Tick, User, CreateReview, RejectProposal, SwitchContext, RevokeConnection, Broker,
                  AcceptOrder, RefuseOrder, Deliver, MoveOrder, CloseExposure, networkVars
    <3>3. ASSUME NEW r \in Requests, Request(r) PROVE UNCHANGED <<ask, sent>>
      BY <1>3, <3>3
      DEF Request, Submit, CheckProposal, RefreshPositions, CheckPortfolio, LookUpKeyAgain, Refuse,
          MarkAcknowledged, MarkRejected, MarkUnknown, Finish, Crash, networkVars
    <3>4. ASSUME NEW w \in Workers, Reconciler(w) PROVE UNCHANGED <<ask, sent>>
      BY <3>4 DEF Reconciler, ListAccounts, ListOrders, FetchOrder, ApplyOrder, FetchPositions, ApplyPositions,
                  AbortCycle, WorkerRest, networkVars
    <3>5. ASSUME NEW f \in Refreshers, Refresher(f) PROVE UNCHANGED <<ask, sent>>
      BY <3>5 DEF Refresher, FetchRefresh, ApplyRefresh, WorkerRest, networkVars
    <3> QED BY <3>1, <3>2, <3>3, <3>4, <3>5 DEF Next
  <2> QED BY <1>3, <2>1, ProposalStep, SilentStep
<1> QED BY <1>1, <1>2, <1>3

(* Whatever the calls, the workers, the network and the broker do, each    *)
(* proposal is only ever opened, withdrawn or committed, placed once and   *)
(* closed, as the abstract specification says.                             *)
THEOREM ImplementsPromise == Spec => KeepsPromise
<1>1. Init => Promise!Init
  BY PromiseInit
<1>2. IndInv /\ [Next]_vars => [Promise!Next]_(Promise!vars)
  BY PromiseStep
<1> QED BY <1>1, <1>2, Invariance, PTL DEF Spec, KeepsPromise, Promise!Spec

=============================================================================
