----------------------- MODULE ExecutionActionsProofs -----------------------
(***************************************************************************)
(* Proofs, for any number of calls, reviews, keys and workers, that what a *)
(* user confirms for an order or a position reaches the broker once, one   *)
(* action of a target at a time, and that a cancellation reported as       *)
(* completed has happened.                                                 *)
(***************************************************************************)
EXTENDS ExecutionActions, TLAPS

-----------------------------------------------------------------------------
(* The inductive invariant.                                                *)

(* A snapshot on its way to a row: of its target's type, and if it shows a *)
(* cancelled order, the order is cancelled still.                          *)
SnapshotOf(target, snapshot) ==
  IF target = "order"
    THEN /\ snapshot \in BrokerOrder
         /\ snapshot.status = "Cancelled" => orderTruth.status = "Cancelled"
    ELSE snapshot \in Position

Snapshots ==
  /\ \A v \in Reviews :
       review[v].stage = "fetched" => SnapshotOf(Target(review[v].type), review[v].held)
  /\ \A c \in Calls : pc[c] = "apply" => SnapshotOf(Target(ask[c].type), held[c])
  /\ \A w \in Workers :
       /\ worker[w].at = "order" => SnapshotOf("order", worker[w].held)
       /\ worker[w].at = "position" => SnapshotOf("position", worker[w].held)

Reviewed ==
  \A v \in Reviews :
    /\ review[v].stage # "none" => review[v].type \in Types
    /\ review[v].stage = "ready" /\ review[v].type = "protect" => review[v].terms.stops \in Stops

(* How far a call is, and what it has done by then.                        *)
Progress ==
  \A c \in Calls :
    /\ pc[c] \in Preflight => action[c] = "absent"
    /\ pc[c] \in {"send", "wait"} => action[c] = "submitting"
    /\ pc[c] \in Preflight \cup {"send"} => sent[c] = 0
    /\ c \in wire \cup accepted => action[c] # "absent"
    /\ action[c] # "absent" => review[ask[c].review].stage = "ready"

IndInv ==
  TypeOK /\ Snapshots /\ Reviewed /\ Progress /\ OneAwaiting /\ SentAsConfirmed /\ CancelledIsTrue

LEMMA KnownTypes == Types \subseteq {"cancel", "close", "protect"}
  BY ActionsAssumption DEF Types

LEMMA MapType == \A s : MapOrderState(s) \in OrderState
  BY DEF MapOrderState, OrderState

(* Only a cancelled order is read as cancelled.                            *)
LEMMA MapCancelled ==
  ASSUME NEW o \in BrokerOrder, MapOrderState(o.status) = "cancelled"
  PROVE  o.status = "Cancelled"
  BY DEF MapOrderState, BrokerOrder, BrokerStatus

-----------------------------------------------------------------------------
(* Writing a snapshot to the rows only ever completes marked actions, and  *)
(* a cancellation only from a snapshot that shows it.                      *)

LEMMA CompleteType ==
  ASSUME TypeOK, NEW confirmed
  PROVE  /\ Complete(confirmed) \in [Calls -> ActionState]
         /\ \A c \in Calls : \/ Complete(confirmed)[c] = action[c]
                             \/ /\ c \in confirmed
                                /\ action[c] \in Marked
                                /\ Complete(confirmed)[c] = "completed"
  BY DEF TypeOK, Complete, ActionState

LEMMA ApplyRows ==
  ASSUME TypeOK, NEW target \in {"order", "position"}, NEW snapshot,
         SnapshotOf(target, snapshot), Apply(target, snapshot)
  PROVE  /\ orderRow' \in OrderRow /\ positionRow' \in Position
         /\ action' \in [Calls -> ActionState]
         /\ \A c \in Calls : \/ action'[c] = action[c]
                             \/ /\ action[c] \in Marked /\ action'[c] = "completed"
                                /\ ask[c].type = "cancel" => orderTruth.status = "Cancelled"
<1>1. CASE target = "order"
  <2> DEFINE S == {c \in Calls : ConfirmsCancel(c, MapOrderState(snapshot.status))}
  <2>1. /\ snapshot \in BrokerOrder /\ positionRow' = positionRow /\ action' = Complete(S)
        /\ orderRow' = [state |-> MapOrderState(snapshot.status), was |-> snapshot]
        /\ snapshot.status = "Cancelled" => orderTruth.status = "Cancelled"
    BY <1>1 DEF Apply, ReconcileOrder, SnapshotOf
  <2>2. orderRow' \in OrderRow
    BY <2>1, MapType DEF OrderRow
  <2>3. \A c \in S : orderTruth.status = "Cancelled"
    BY <2>1, MapCancelled DEF ConfirmsCancel
  <2> HIDE DEF S
  <2> QED BY <2>1, <2>2, <2>3, CompleteType DEF TypeOK
<1>2. CASE target = "position"
  <2> DEFINE S == IF snapshot.open THEN {c \in Calls : ConfirmsProtection(c, snapshot)}
                  ELSE {c \in Calls : ask[c].type = "close" /\ positionRow.open}
  <2>1. /\ snapshot \in Position /\ orderRow' = orderRow /\ action' = Complete(S)
        /\ positionRow' = IF snapshot.open THEN snapshot ELSE CloseRow
    BY <1>2 DEF Apply, ReplaceOpenPositions, SnapshotOf
  <2>2. positionRow' \in Position
    BY <2>1 DEF TypeOK, CloseRow, Position
  <2>3. \A c \in S : ask[c].type # "cancel"
    BY DEF ConfirmsProtection
  <2> HIDE DEF S
  <2> QED BY <2>1, <2>2, <2>3, CompleteType DEF TypeOK
<1> QED BY <1>1, <1>2

(* What such a write leaves of the invariant.                              *)
LEMMA CompletedInv ==
  ASSUME Progress, OneAwaiting, SentAsConfirmed, CancelledIsTrue,
         UNCHANGED <<sent, wire, accepted, ask, orderTruth>>,
         \A c \in Calls : \/ action'[c] = action[c]
                          \/ /\ action[c] \in Marked /\ action'[c] = "completed"
                             /\ ask[c].type = "cancel" => orderTruth.status = "Cancelled",
         \A c \in Calls : pc'[c] = pc[c] \/ (pc[c] \in Preflight /\ pc'[c] \in Preflight),
         \A c \in Calls : review[ask[c].review].stage = "ready" =>
                            /\ review'[ask[c].review].stage = "ready"
                            /\ review'[ask[c].review].type = review[ask[c].review].type
                            /\ review'[ask[c].review].consumed = review[ask[c].review].consumed
  PROVE  Progress' /\ OneAwaiting' /\ SentAsConfirmed' /\ CancelledIsTrue'
<1>1. Progress'
  BY DEF Progress, Marked, Preflight
<1>2. OneAwaiting'
  <2> SUFFICES ASSUME NEW c \in Calls, NEW d \in Calls, c # d,
                      action'[c] \in Pending, action'[d] \in Pending
               PROVE  Target(ask[c].type) # Target(ask[d].type)
    BY DEF OneAwaiting, Pending
  <2>1. action'[c] = action[c] /\ action'[d] = action[d]
    BY DEF Pending, Marked
  <2> QED BY <2>1 DEF OneAwaiting, Pending
<1>3. SentAsConfirmed'
  BY DEF SentAsConfirmed, Inserted, Marked, Progress
<1>4. CancelledIsTrue'
  BY DEF CancelledIsTrue
<1> QED BY <1>1, <1>2, <1>3, <1>4

-----------------------------------------------------------------------------
(* Every step keeps the invariant.                                         *)

LEMMA InitInv == Init => IndInv
<1> SUFFICES ASSUME Init PROVE IndInv
  OBVIOUS
<1>1. TypeOK
  <2>1. orderTruth \in BrokerOrder /\ orderRow \in OrderRow
    BY DEF Init, BrokerOrder, BrokerStatus, OrderRow, OrderState
  <2>2. positionTruth \in Position /\ positionRow \in Position
    BY DEF Init, Position
  <2>3. review \in [Reviews -> Review]
    BY DEF Init, Review, NoReview, Terms, NoTerms
  <2>4. ask \in [Calls -> [type : Types, key : Keys, review : Reviews]]
    BY DEF Init, Types
  <2> QED BY <2>1, <2>2, <2>3, <2>4 DEF Init, TypeOK, ActionState, Pc, Preflight, Worker, IdleWorker
<1>2. Snapshots
  BY DEF Init, Snapshots, NoReview, IdleWorker
<1>3. Reviewed
  BY DEF Init, Reviewed, NoReview
<1>4. Progress
  BY DEF Init, Progress, Preflight
<1>5. OneAwaiting /\ SentAsConfirmed /\ CancelledIsTrue
  BY DEF Init, OneAwaiting, SentAsConfirmed, CancelledIsTrue, Inserted
<1> QED BY <1>1, <1>2, <1>3, <1>4, <1>5 DEF IndInv

LEMMA ReviewRecord ==
  ASSUME NEW r \in Review
  PROVE  /\ \A stage \in {"none", "fetched", "applied", "ready"}, held_ \in {None} :
              [r EXCEPT !.stage = stage, !.held = held_] \in Review
         /\ \A terms \in Terms : [r EXCEPT !.stage = "ready", !.terms = terms] \in Review
         /\ [r EXCEPT !.expired = TRUE] \in Review
         /\ [r EXCEPT !.consumed = TRUE] \in Review
  BY DEF Review

LEMMA ReviewingInv ==
  ASSUME IndInv, NEW v \in Reviews, Reviewing(v)
  PROVE  IndInv'
<1> USE DEF IndInv
<1>1. ASSUME NEW type \in Asked, StartReview(v, type) PROVE IndInv'
  <2>1. type \in Types
    BY DEF Asked, TypeOK
  <2>2. Truth(Target(type)) \in BrokerOrder \cup Position
    BY DEF Truth, TypeOK
  <2>3. SnapshotOf(Target(type), Truth(Target(type)))
    BY DEF SnapshotOf, Truth, TypeOK
  <2>4. review' = [review EXCEPT ![v] = [NoReview EXCEPT !.stage = "fetched", !.type = type,
                                            !.held = Truth(Target(type))]]
    BY <1>1 DEF StartReview
  <2>5. TypeOK'
    <3>1. NoTerms \in Terms
      BY DEF NoTerms, Terms
    <3>2. review' \in [Reviews -> Review]
      BY <2>1, <2>2, <2>4, <3>1 DEF TypeOK, Review, NoReview
    <3> QED BY <1>1, <3>2 DEF StartReview, TypeOK, truthVars, rowVars, callVars, netVars
  <2>6. Snapshots'
    BY <1>1, <2>3, <2>4 DEF StartReview, Snapshots, SnapshotOf, NoReview, TypeOK, truthVars,
       callVars
  <2>7. Reviewed'
    BY <2>1, <2>4 DEF Reviewed, NoReview, TypeOK
  <2>8. review[v].stage = "none"
    BY <1>1 DEF StartReview
  <2>9. Progress' /\ OneAwaiting' /\ SentAsConfirmed' /\ CancelledIsTrue'
    BY <1>1, <2>4, <2>8, CompletedInv DEF StartReview, TypeOK, truthVars, rowVars, callVars, netVars
  <2> QED BY <2>5, <2>6, <2>7, <2>9
<1>2. CASE RefreshForReview(v)
  <2>1. review' = [review EXCEPT ![v].stage = "applied", ![v].held = None]
    BY <1>2 DEF RefreshForReview
  <2>2. review[v].stage = "fetched" /\ review[v].type \in Types
    BY <1>2 DEF RefreshForReview, Reviewed
  <2>3. Target(review[v].type) \in {"order", "position"}
    BY DEF Target
  <2>4. /\ orderRow' \in OrderRow /\ positionRow' \in Position
        /\ action' \in [Calls -> ActionState]
        /\ \A c \in Calls : \/ action'[c] = action[c]
                            \/ /\ action[c] \in Marked /\ action'[c] = "completed"
                               /\ ask[c].type = "cancel" => orderTruth.status = "Cancelled"
    BY <1>2, <2>2, <2>3, ApplyRows DEF RefreshForReview, Snapshots
  <2>5. TypeOK'
    <3>1. review' \in [Reviews -> Review]
      <4>1. review[v] \in Review /\ review \in [Reviews -> Review]
        BY DEF TypeOK
      <4>2. review' = [review EXCEPT ![v] = [review[v] EXCEPT !.stage = "applied", !.held = None]]
        BY <2>1, <4>1
      <4> QED BY <4>1, <4>2, ReviewRecord
    <3> QED BY <1>2, <2>4, <3>1 DEF RefreshForReview, TypeOK, truthVars, callVars, netVars
  <2>6. Snapshots' /\ Reviewed'
    <3>1. \A u \in Reviews : review'[u].stage \in {"fetched", "ready"} => review'[u] = review[u]
      BY <2>1 DEF TypeOK, Review
    <3>2. \A u \in Reviews : review'[u].stage # "none" =>
             review[u].stage # "none" /\ review'[u].type = review[u].type
      BY <2>1, <2>2 DEF TypeOK, Review
    <3>3. Snapshots'
      BY <1>2, <3>1 DEF RefreshForReview, Snapshots, SnapshotOf, truthVars, callVars
    <3>4. Reviewed'
      BY <3>1, <3>2 DEF Reviewed
    <3> QED BY <3>3, <3>4
  <2>7. Progress' /\ OneAwaiting' /\ SentAsConfirmed' /\ CancelledIsTrue'
    BY <1>2, <2>1, <2>2, <2>4, CompletedInv DEF RefreshForReview, TypeOK, Review, truthVars, callVars, netVars
  <2> QED BY <2>5, <2>6, <2>7
<1>3. CASE RecordReview(v)
  <2>1. PICK t \in ReviewTerms(review[v].type) :
           review' = [review EXCEPT ![v].stage = "ready", ![v].terms = t]
    BY <1>3 DEF RecordReview
  <2>2. review[v].stage = "applied" /\ review[v].type \in {"cancel", "close", "protect"}
    BY <1>3, KnownTypes DEF RecordReview, Reviewed
  <2>3. t \in Terms /\ (review[v].type = "protect" => t.stops \in Stops)
    <3>1. CASE review[v].type = "cancel"
      BY <2>1, <3>1 DEF ReviewTerms, TypeOK, Terms, NoTerms, OrderRow, BrokerOrder
    <3>2. CASE review[v].type = "close"
      BY <2>1, <3>2 DEF ReviewTerms, TypeOK, Terms, NoTerms, Position
    <3>3. CASE review[v].type = "protect"
      <4>1. PICK s \in Stops : t = [NoTerms EXCEPT !.sequence = positionRow.sequence, !.stops = s]
        BY <2>1, <3>3 DEF ReviewTerms
      <4> QED BY <4>1 DEF TypeOK, Terms, NoTerms, Position
    <3> QED BY <2>2, <3>1, <3>2, <3>3
  <2>4. TypeOK'
    <3>1. review' \in [Reviews -> Review]
      <4>1. review[v] \in Review /\ review \in [Reviews -> Review]
        BY DEF TypeOK
      <4>2. review' = [review EXCEPT ![v] = [review[v] EXCEPT !.stage = "ready", !.terms = t]]
        BY <2>1, <4>1
      <4> QED BY <2>3, <4>1, <4>2, ReviewRecord
    <3> QED BY <1>3, <3>1 DEF RecordReview, TypeOK, truthVars, rowVars, callVars, netVars
  <2>5. Snapshots' /\ Reviewed'
    <3>1. \A u \in Reviews : review'[u].stage = "fetched" => review'[u] = review[u]
      BY <2>1 DEF TypeOK, Review
    <3>2. Snapshots'
      BY <1>3, <3>1 DEF RecordReview, Snapshots, SnapshotOf, truthVars, callVars
    <3>3. /\ \A u \in Reviews \ {v} : review'[u] = review[u]
          /\ review'[v].type = review[v].type /\ review'[v].terms = t
      BY <2>1 DEF TypeOK, Review
    <3>4. Reviewed'
      BY <2>2, <2>3, <3>3 DEF Reviewed
    <3> QED BY <3>2, <3>4
  <2>6. Progress' /\ OneAwaiting' /\ SentAsConfirmed' /\ CancelledIsTrue'
    BY <1>3, <2>1, <2>2, CompletedInv DEF RecordReview, TypeOK, Review, truthVars, rowVars, callVars, netVars
  <2> QED BY <2>4, <2>5, <2>6
<1>4. CASE ExpireReview(v)
  <2>1. /\ review' \in [Reviews -> Review]
        /\ \A u \in Reviews : /\ review'[u].stage = review[u].stage
                              /\ review'[u].type = review[u].type
                              /\ review'[u].terms = review[u].terms
                              /\ review'[u].held = review[u].held
    <3>1. /\ review[v] \in Review /\ review \in [Reviews -> Review]
          /\ review' = [review EXCEPT ![v] = [review[v] EXCEPT !.expired = TRUE]]
      BY <1>4 DEF ExpireReview, TypeOK
    <3>2. review' \in [Reviews -> Review]
      BY <3>1, ReviewRecord
    <3>3. /\ \A u \in Reviews \ {v} : review'[u] = review[u]
          /\ review'[v] = [review[v] EXCEPT !.expired = TRUE]
      BY <3>1
    <3> QED BY <3>1, <3>2, <3>3 DEF Review
  <2>3. TypeOK'
    BY <1>4, <2>1 DEF ExpireReview, TypeOK, truthVars, rowVars, callVars, netVars
  <2>4. Snapshots' /\ Reviewed'
    BY <1>4, <2>1 DEF ExpireReview, Snapshots, Reviewed, SnapshotOf, truthVars, callVars
  <2>2. Progress' /\ OneAwaiting' /\ SentAsConfirmed' /\ CancelledIsTrue'
    BY <1>4, CompletedInv DEF ExpireReview, TypeOK, Review, truthVars, rowVars, callVars, netVars
  <2> QED BY <2>2, <2>3, <2>4
<1> QED BY <1>1, <1>2, <1>3, <1>4 DEF Reviewing

(* Frames: what a conjunct does not mention may change.                    *)
LEMMA ReviewedKept == ASSUME Reviewed, UNCHANGED review PROVE Reviewed'
  BY DEF Reviewed

(* A call that has not committed leaves reviews and counts alone.          *)
LEMMA PreflightInv ==
  ASSUME IndInv, NEW c \in Calls,
         LookUp(c) \/ RequireReview(c) \/ FetchTarget(c) \/ CheckTarget(c) \/ Refuse(c)
  PROVE  IndInv'
<1> USE DEF IndInv
<1>1. /\ UNCHANGED <<connected, truthVars, rowVars, review, ask, netVars, worker>>
      /\ pc[c] \in Preflight
      /\ \E to \in Preflight \cup {"done"} : pc' = [pc EXCEPT ![c] = to]
  BY DEF LookUp, RequireReview, FetchTarget, CheckTarget, Refuse, Proceed, AnswerKnown, Preflight
<1>2. start' \in [Calls -> Calls \cup {None}]
  BY DEF LookUp, RequireReview, FetchTarget, CheckTarget, Refuse, AnswerKnown, ByKey, Inserted,
     TypeOK
<1>3. /\ held' \in [Calls -> BrokerOrder \cup Position \cup {None}]
      /\ \A d \in Calls : pc'[d] = "apply" => SnapshotOf(Target(ask[d].type), held'[d])
  <2>1. CASE FetchTarget(c)
    <3>1. /\ held' = [held EXCEPT ![c] = Truth(Target(ask[c].type))]
          /\ pc' = [pc EXCEPT ![c] = "apply"]
      BY <2>1 DEF FetchTarget, Proceed
    <3>2. /\ Truth(Target(ask[c].type)) \in BrokerOrder \cup Position
          /\ SnapshotOf(Target(ask[c].type), Truth(Target(ask[c].type)))
      BY DEF Truth, TypeOK, SnapshotOf
    <3> QED BY <3>1, <3>2 DEF TypeOK, Snapshots
  <2>2. CASE LookUp(c) \/ RequireReview(c) \/ CheckTarget(c) \/ Refuse(c)
    <3>1. held' = held \/ held' = [held EXCEPT ![c] = None]
      BY <2>2 DEF LookUp, RequireReview, CheckTarget, Refuse
    <3>2. pc'[c] # "apply"
      BY <2>2 DEF LookUp, RequireReview, CheckTarget, Refuse, Proceed, AnswerKnown, TypeOK
    <3> QED BY <1>1, <3>1, <3>2 DEF TypeOK, Snapshots
  <2> QED BY <2>1, <2>2
<1>4. TypeOK'
  <2>1. pc' \in [Calls -> Pc]
    BY <1>1 DEF TypeOK, Pc
  <2> QED BY <1>1, <1>2, <1>3, <2>1 DEF TypeOK, truthVars, rowVars, netVars
<1>5. Snapshots'
  BY <1>1, <1>3 DEF Snapshots, SnapshotOf, truthVars
<1>6. Progress'
  BY <1>1 DEF Progress, TypeOK, rowVars, netVars, Preflight
<1>7. OneAwaiting' /\ SentAsConfirmed' /\ CancelledIsTrue' /\ Reviewed'
  BY <1>1 DEF OneAwaiting, SentAsConfirmed, CancelledIsTrue, Reviewed, Inserted, truthVars, rowVars, netVars
<1> QED BY <1>4, <1>5, <1>6, <1>7

LEMMA RefreshTargetInv ==
  ASSUME IndInv, NEW c \in Calls, RefreshTarget(c)
  PROVE  IndInv'
<1> USE DEF IndInv
<1>1. /\ UNCHANGED <<connected, truthVars, review, ask, start, netVars, worker>>
      /\ pc[c] = "apply" /\ pc' = [pc EXCEPT ![c] = "check"]
      /\ held' = [held EXCEPT ![c] = None]
      /\ Apply(Target(ask[c].type), held[c])
  BY DEF RefreshTarget, Proceed
<1>2. Target(ask[c].type) \in {"order", "position"} /\ SnapshotOf(Target(ask[c].type), held[c])
  BY <1>1 DEF Target, Snapshots
<1>3. /\ orderRow' \in OrderRow /\ positionRow' \in Position
      /\ action' \in [Calls -> ActionState]
      /\ \A d \in Calls : \/ action'[d] = action[d]
                          \/ /\ action[d] \in Marked /\ action'[d] = "completed"
                             /\ ask[d].type = "cancel" => orderTruth.status = "Cancelled"
  BY <1>1, <1>2, ApplyRows
<1>4. TypeOK'
  BY <1>1, <1>3 DEF TypeOK, truthVars, netVars, Pc, Preflight
<1>5. Snapshots' /\ Reviewed'
  BY <1>1 DEF Snapshots, SnapshotOf, Reviewed, truthVars, TypeOK
<1>6. Progress' /\ OneAwaiting' /\ SentAsConfirmed' /\ CancelledIsTrue'
  BY <1>1, <1>3, CompletedInv DEF TypeOK, truthVars, netVars, Preflight
<1> QED BY <1>4, <1>5, <1>6

(* The commit: here the lock of the target and the review are used.        *)
LEMMA BeginInv ==
  ASSUME IndInv, NEW c \in Calls, BeginAction(c)
  PROVE  IndInv'
<1> USE DEF IndInv
<1>1. CASE AnswerKnown(c) /\ UNCHANGED <<action, orderRow, review>>
  <2>1. /\ pc[c] \in Preflight /\ pc' = [pc EXCEPT ![c] = "done"]
        /\ UNCHANGED <<connected, truthVars, rowVars, review, ask, held, netVars, worker>>
    BY <1>1 DEF BeginAction, AnswerKnown, rowVars, Preflight
  <2>2. start' \in [Calls -> Calls \cup {None}]
    BY <1>1 DEF AnswerKnown, ByKey, Inserted, TypeOK
  <2>3. TypeOK'
    BY <2>1, <2>2 DEF TypeOK, truthVars, rowVars, netVars, Pc
  <2>4. Snapshots' /\ Reviewed'
    BY <2>1 DEF Snapshots, SnapshotOf, Reviewed, truthVars, TypeOK
  <2>5. Progress'
    BY <2>1 DEF Progress, TypeOK, rowVars, netVars, Preflight
  <2>6. OneAwaiting' /\ SentAsConfirmed' /\ CancelledIsTrue'
    BY <2>1 DEF OneAwaiting, SentAsConfirmed, CancelledIsTrue, Inserted, truthVars, rowVars, netVars
  <2> QED BY <2>3, <2>4, <2>5, <2>6
<1>2. CASE ~(AnswerKnown(c) /\ UNCHANGED <<action, orderRow, review>>)
  <2>1. /\ pc[c] = "begin" /\ pc' = [pc EXCEPT ![c] = "send"]
        /\ ByKey(c) = {} /\ TargetFree(c) /\ ReviewFresh(c)
        /\ action' = [action EXCEPT ![c] = "submitting"]
        /\ start' = [start EXCEPT ![c] = c]
        /\ review' = [review EXCEPT ![ask[c].review].consumed = TRUE]
        /\ orderRow' = IF ask[c].type = "cancel"
                         THEN [orderRow EXCEPT !.state = "cancelling"] ELSE orderRow
        /\ UNCHANGED <<connected, truthVars, positionRow, ask, held, netVars, worker>>
    BY <1>2 DEF BeginAction
  <2> DEFINE r == ask[c].review
  <2>2. /\ r \in Reviews /\ review[r] \in Review /\ review \in [Reviews -> Review]
        /\ review' = [review EXCEPT ![r] = [review[r] EXCEPT !.consumed = TRUE]]
    BY <2>1 DEF TypeOK
  <2>3. review' \in [Reviews -> Review]
    BY <2>2, ReviewRecord
  <2>4. /\ \A v \in Reviews : /\ review'[v].stage = review[v].stage
                              /\ review'[v].type = review[v].type
                              /\ review'[v].terms = review[v].terms
                              /\ review'[v].held = review[v].held
                              /\ review[v].consumed => review'[v].consumed
        /\ review'[r].consumed
    <3>1. \A v \in Reviews \ {r} : review'[v] = review[v]
      BY <2>2
    <3>2. review'[r] = [review[r] EXCEPT !.consumed = TRUE]
      BY <2>2
    <3> QED BY <2>2, <3>1, <3>2 DEF Review
  <2>5. orderRow' \in OrderRow
    BY <2>1 DEF TypeOK, OrderRow, OrderState
  <2>6. TypeOK'
    BY <2>1, <2>3, <2>5 DEF TypeOK, truthVars, netVars, Pc, ActionState
  <2>7. Snapshots' /\ Reviewed'
    BY <2>1, <2>4 DEF Snapshots, SnapshotOf, Reviewed, truthVars, TypeOK
  <2>8. /\ review[r].stage = "ready" /\ review[r].type = ask[c].type /\ ~review[r].consumed
        /\ action[c] = "absent" /\ sent[c] = 0
    BY <2>1 DEF ReviewFresh, Confirms, Progress, Preflight
  <2>9. Progress'
    BY <2>1, <2>4, <2>8 DEF Progress, TypeOK, netVars, Preflight
  <2>10. OneAwaiting'
    <3> SUFFICES ASSUME NEW d \in Calls, NEW e \in Calls, d # e,
                        action'[d] \in Pending, action'[e] \in Pending
                 PROVE  Target(ask[d].type) # Target(ask[e].type)
      BY <2>1 DEF OneAwaiting, Pending
    <3>1. \A a \in Calls : action[a] \in Pending => Target(ask[a].type) # Target(ask[c].type)
      BY <2>1 DEF TargetFree, Awaiting
    <3>2. (d # c => action[d] \in Pending) /\ (e # c => action[e] \in Pending)
      BY <2>1 DEF TypeOK
    <3> QED BY <3>1, <3>2 DEF OneAwaiting, Pending
  <2>11. SentAsConfirmed'
    <3>1. \A d \in Inserted : d # c /\ ask[d].review # r /\ ask[d].key # ask[c].key
      BY <2>1, <2>8 DEF SentAsConfirmed, ByKey, Inserted
    <3>2. Inserted' = Inserted \cup {c}
      BY <2>1 DEF Inserted, TypeOK
    <3>3. \A d \in Calls : ask[d].review \in Reviews
      BY DEF TypeOK
    <3> QED BY <2>1, <2>4, <2>8, <3>1, <3>2, <3>3 DEF SentAsConfirmed, netVars
  <2>12. CancelledIsTrue'
    BY <2>1 DEF CancelledIsTrue, truthVars, TypeOK
  <2> QED BY <2>6, <2>7, <2>9, <2>10, <2>11, <2>12
<1> QED BY <1>1, <1>2

LEMMA SubmittedInv ==
  ASSUME IndInv, NEW c \in Calls,
         Send(c) \/ AcknowledgeAction(c) \/ RejectAction(c) \/ UnknownAction(c) \/ Crash(c)
  PROVE  IndInv'
<1> USE DEF IndInv
<1>1. CASE Send(c)
  <2>1. /\ pc[c] = "send" /\ pc' = [pc EXCEPT ![c] = "wait"]
        /\ sent' = [sent EXCEPT ![c] = @ + 1] /\ wire' = wire \cup {c}
        /\ UNCHANGED <<connected, truthVars, rowVars, review, ask, held, start, reply, accepted,
                       worker>>
    BY <1>1 DEF Send, Proceed, CallBroker
  <2>2. sent[c] = 0 /\ action[c] = "submitting"
    BY <2>1 DEF Progress
  <2>3. TypeOK'
    BY <2>1 DEF TypeOK, truthVars, rowVars, Pc
  <2>4. Snapshots' /\ Reviewed'
    BY <2>1 DEF Snapshots, SnapshotOf, Reviewed, truthVars, TypeOK
  <2>5. Progress'
    BY <2>1, <2>2 DEF Progress, TypeOK, rowVars, Preflight
  <2>6. SentAsConfirmed'
    BY <2>1, <2>2 DEF SentAsConfirmed, Inserted, TypeOK, rowVars
  <2>7. OneAwaiting' /\ CancelledIsTrue'
    BY <2>1 DEF OneAwaiting, CancelledIsTrue, truthVars, rowVars
  <2> QED BY <2>3, <2>4, <2>5, <2>6, <2>7
<1>2. CASE AcknowledgeAction(c) \/ RejectAction(c) \/ UnknownAction(c) \/ Crash(c)
  <2>1. /\ pc[c] \in {"send", "wait"} /\ pc' = [pc EXCEPT ![c] = "done"]
        /\ \E s \in Marked \cup {"rejected", "submitting"} : action' = [action EXCEPT ![c] = s]
        /\ UNCHANGED <<connected, truthVars, orderRow, positionRow, review, ask, held, start,
                       netVars, worker>>
    <3>1. action[c] = "submitting" => action = [action EXCEPT ![c] = "submitting"]
      BY DEF TypeOK
    <3> QED BY <1>2, <3>1 DEF AcknowledgeAction, RejectAction, UnknownAction, Crash, MarkAction, Marked, Progress,
          rowVars
  <2>2. action[c] = "submitting"
    BY <2>1 DEF Progress
  <2>3. TypeOK'
    BY <2>1 DEF TypeOK, truthVars, netVars, Pc, ActionState, Marked
  <2>4. Snapshots' /\ Reviewed'
    BY <2>1 DEF Snapshots, SnapshotOf, Reviewed, truthVars, TypeOK
  <2>5. Progress'
    BY <2>1, <2>2 DEF Progress, TypeOK, netVars, Preflight, Marked
  <2>6. Inserted' = Inserted
    BY <2>1, <2>2 DEF Inserted, TypeOK, Marked
  <2>7. SentAsConfirmed'
    BY <2>1, <2>6 DEF SentAsConfirmed, netVars
  <2>8. OneAwaiting'
    BY <2>1, <2>2 DEF OneAwaiting, TypeOK, Marked
  <2>9. CancelledIsTrue'
    BY <2>1, <2>2 DEF CancelledIsTrue, truthVars, TypeOK, Marked
  <2> QED BY <2>3, <2>4, <2>5, <2>7, <2>8, <2>9
<1> QED BY <1>1, <1>2

LEMMA MoveType ==
  ASSUME TypeOK, NEW open \in BOOLEAN, NEW stops \in Stops,
         \/ MovePosition([positionTruth EXCEPT !.open = open])
         \/ MovePosition([positionTruth EXCEPT !.stops = stops])
         \/ MovePosition([positionTruth EXCEPT !.open = open, !.stops = stops])
  PROVE  positionTruth' \in Position
<1>1. positionTruth \in Position
  BY DEF TypeOK
<1>2. ASSUME NEW new \in Position, MovePosition(new) PROVE positionTruth' \in Position
  <2>1. positionTruth' = [new EXCEPT !.sequence = positionTruth.sequence + 1]
    BY <1>2 DEF MovePosition
  <2>2. positionTruth.sequence + 1 \in Nat
    BY <1>1 DEF Position
  <2> QED BY <2>1, <2>2 DEF Position
<1>3. /\ [positionTruth EXCEPT !.open = open] \in Position
      /\ [positionTruth EXCEPT !.stops = stops] \in Position
      /\ [positionTruth EXCEPT !.open = open, !.stops = stops] \in Position
  BY <1>1 DEF Position
<1> QED BY <1>2, <1>3

LEMMA BrokerInv ==
  ASSUME IndInv, Broker
  PROVE  IndInv'
<1> USE DEF IndInv
<1>1. ASSUME NEW c \in Calls, Answer(c) PROVE IndInv'
  <2>1. /\ c \in wire /\ wire' \subseteq wire /\ accepted' \subseteq accepted \cup {c}
        /\ reply' \in [Calls -> {"none", "ack", "refused"}]
        /\ UNCHANGED <<connected, truthVars, rowVars, review, ask, callVars, sent, worker>>
    BY <1>1 DEF Answer, TypeOK
  <2>2. TypeOK'
    BY <2>1 DEF TypeOK, truthVars, rowVars, callVars
  <2>3. Snapshots' /\ Reviewed'
    BY <2>1 DEF Snapshots, SnapshotOf, Reviewed, truthVars, callVars
  <2>4. Progress' /\ OneAwaiting' /\ SentAsConfirmed' /\ CancelledIsTrue'
    BY <2>1 DEF Progress, OneAwaiting, SentAsConfirmed, CancelledIsTrue, Inserted, truthVars,
       rowVars, callVars
  <2> QED BY <2>2, <2>3, <2>4
<1>2. ASSUME /\ orderTruth' \in BrokerOrder /\ positionTruth' \in Position
             /\ orderTruth.status = "Cancelled" => orderTruth'.status = "Cancelled"
             /\ accepted' \subseteq accepted
             /\ UNCHANGED <<connected, rowVars, review, ask, callVars, sent, wire, reply, worker>>
      PROVE  IndInv'
  <2>1. TypeOK'
    BY <1>2 DEF TypeOK, rowVars, callVars
  <2>2. Snapshots' /\ Reviewed'
    BY <1>2 DEF Snapshots, SnapshotOf, Reviewed, callVars
  <2>3. Progress' /\ OneAwaiting' /\ SentAsConfirmed' /\ CancelledIsTrue'
    BY <1>2 DEF Progress, OneAwaiting, SentAsConfirmed, CancelledIsTrue, Inserted, rowVars,
       callVars
  <2> QED BY <2>1, <2>2, <2>3
<1>3. ASSUME NEW c \in Calls, TakeEffect(c) PROVE IndInv'
  <2>1. CASE ask[c].type = "cancel"
    BY <1>2, <1>3, <2>1 DEF TakeEffect, TypeOK, Working, BrokerOrder, BrokerStatus
  <2>2. CASE ask[c].type = "close"
    <3>1. MovePosition([positionTruth EXCEPT !.open = FALSE]) /\ orderTruth' = orderTruth
      BY <1>3, <2>2 DEF TakeEffect
    <3>2. Stops # {} => positionTruth' \in Position
      BY <3>1, MoveType
    <3>3. positionTruth.stops \in Stops
      BY DEF TypeOK, Position
    <3> QED BY <1>2, <1>3, <3>1, <3>2, <3>3 DEF TakeEffect, TypeOK
  <2>3. CASE ask[c].type = "protect"
    <3>1. TermsOf(c).stops \in Stops
      BY <1>3, <2>3 DEF TakeEffect, TermsOf, Progress, SentAsConfirmed, Reviewed, Inserted, TypeOK
    <3>2. /\ MovePosition([positionTruth EXCEPT !.stops = TermsOf(c).stops])
          /\ orderTruth' = orderTruth
      BY <1>3, <2>3 DEF TakeEffect
    <3>3. positionTruth' \in Position
      BY <3>1, <3>2, MoveType
    <3> QED BY <1>2, <1>3, <3>2, <3>3 DEF TakeEffect, TypeOK
  <2> QED BY <1>3, <2>1, <2>2, <2>3 DEF TakeEffect
<1>4. CASE MoveOrder
  BY <1>2, <1>4 DEF MoveOrder, BrokerMoves, Working, TypeOK, netVars
<1>5. CASE ReopenOrClose
  <2>1. PICK s \in Stops : MovePosition([positionTruth EXCEPT !.open = ~@, !.stops = s])
    BY <1>5 DEF ReopenOrClose
  <2>2. positionTruth' \in Position
    BY <2>1, MoveType
  <2> QED BY <1>2, <1>5, <2>2 DEF ReopenOrClose, TypeOK, netVars
<1> QED BY <1>1, <1>3, <1>4, <1>5 DEF Broker

LEMMA ReconcilerInv ==
  ASSUME IndInv, NEW w \in Workers, Reconciler(w)
  PROVE  IndInv'
<1> USE DEF IndInv
<1>1. CASE ListOrders(w) \/ FetchOrder(w) \/ FetchPositions(w) \/ AbortCycle(w)
  <2>1. PICK to \in {"idle", "listed", "order", "rest", "position"},
             x \in BrokerOrder \cup Position \cup {None} :
          /\ worker' = [worker EXCEPT ![w] = [at |-> to, held |-> x]]
          /\ to \in {"order", "position"} => SnapshotOf(to, x)
    BY <1>1 DEF ListOrders, FetchOrder, FetchPositions, AbortCycle, Cycle, TypeOK, SnapshotOf
  <2>2. UNCHANGED <<connected, truthVars, rowVars, review, ask, callVars, netVars>>
    BY <1>1 DEF ListOrders, FetchOrder, FetchPositions, AbortCycle, Cycle
  <2>3. TypeOK'
    BY <2>1, <2>2 DEF TypeOK, Worker, truthVars, rowVars, callVars, netVars
  <2>4. Snapshots' /\ Reviewed'
    BY <2>1, <2>2 DEF Snapshots, SnapshotOf, Reviewed, truthVars, callVars, TypeOK
  <2>5. Progress' /\ OneAwaiting' /\ SentAsConfirmed' /\ CancelledIsTrue'
    BY <2>2 DEF Progress, OneAwaiting, SentAsConfirmed, CancelledIsTrue, Inserted, truthVars,
       rowVars, callVars, netVars
  <2> QED BY <2>3, <2>4, <2>5
<1>2. CASE ApplyOrder(w) \/ ApplyPositions(w)
  <2>1. PICK to \in {"idle", "rest"}, target \in {"order", "position"} :
          /\ worker' = [worker EXCEPT ![w] = [at |-> to, held |-> None]]
          /\ worker[w].at = target /\ Apply(target, worker[w].held)
    BY <1>2 DEF ApplyOrder, ApplyPositions, Cycle, Apply
  <2>2. UNCHANGED <<connected, truthVars, review, ask, callVars, netVars>>
    BY <1>2 DEF ApplyOrder, ApplyPositions, Cycle
  <2>3. SnapshotOf(target, worker[w].held)
    BY <2>1 DEF Snapshots
  <2>4. /\ orderRow' \in OrderRow /\ positionRow' \in Position
        /\ action' \in [Calls -> ActionState]
        /\ \A c \in Calls : \/ action'[c] = action[c]
                            \/ /\ action[c] \in Marked /\ action'[c] = "completed"
                               /\ ask[c].type = "cancel" => orderTruth.status = "Cancelled"
    BY <2>1, <2>3, ApplyRows
  <2>5. TypeOK'
    BY <2>1, <2>2, <2>4 DEF TypeOK, Worker, truthVars, callVars, netVars
  <2>6. Snapshots' /\ Reviewed'
    BY <2>1, <2>2 DEF Snapshots, SnapshotOf, Reviewed, truthVars, callVars, TypeOK
  <2>7. Progress' /\ OneAwaiting' /\ SentAsConfirmed' /\ CancelledIsTrue'
    BY <2>2, <2>4, CompletedInv DEF truthVars, callVars, netVars
  <2> QED BY <2>5, <2>6, <2>7
<1> QED BY <1>1, <1>2 DEF Reconciler

LEMMA NextInv == IndInv /\ [Next]_vars => IndInv'
<1> SUFFICES ASSUME IndInv, [Next]_vars PROVE IndInv'
  OBVIOUS
<1>1. CASE UNCHANGED <<truthVars, rowVars, review, ask, callVars, netVars, worker>>
              /\ connected' \in BOOLEAN
  BY <1>1 DEF IndInv, TypeOK, Snapshots, SnapshotOf, Reviewed, Progress, OneAwaiting,
     SentAsConfirmed, CancelledIsTrue, Inserted, truthVars, rowVars, callVars, netVars
<1>2. ASSUME NEW c \in Calls, Call(c) PROVE IndInv'
  BY <1>2, PreflightInv, RefreshTargetInv, BeginInv, SubmittedInv DEF Call
<1>3. CASE UNCHANGED vars
  BY <1>1, <1>3 DEF vars, IndInv, TypeOK
<1>4. CASE Disconnect
  BY <1>1, <1>4 DEF Disconnect
<1> QED BY <1>2, <1>3, <1>4, ReviewingInv, BrokerInv, ReconcilerInv DEF Next

(* How a step moves an action.                                             *)
LEMMA StepMoves ==
  ASSUME IndInv, Next
  PROVE  ActionMoves
<1> USE DEF IndInv
<1>1. CASE UNCHANGED action
  BY <1>1 DEF ActionMoves
<1>2. ASSUME NEW target \in {"order", "position"}, NEW snapshot,
             SnapshotOf(target, snapshot), Apply(target, snapshot)
      PROVE  ActionMoves
  BY <1>2, ApplyRows DEF ActionMoves
<1>3. ASSUME NEW v \in Reviews, Reviewing(v) PROVE ActionMoves
  <2>1. CASE RefreshForReview(v)
    <3>1. /\ SnapshotOf(Target(review[v].type), review[v].held)
          /\ Target(review[v].type) \in {"order", "position"}
      BY <2>1 DEF RefreshForReview, Snapshots, Target
    <3> QED BY <1>2, <2>1, <3>1 DEF RefreshForReview
  <2>2. CASE ~RefreshForReview(v)
    BY <1>1, <1>3, <2>2 DEF Reviewing, StartReview, RecordReview, ExpireReview, rowVars
  <2> QED BY <2>1, <2>2
<1>4. ASSUME NEW c \in Calls, Call(c) PROVE ActionMoves
  <2>1. CASE RefreshTarget(c)
    <3>1. /\ SnapshotOf(Target(ask[c].type), held[c])
          /\ Target(ask[c].type) \in {"order", "position"}
      BY <2>1 DEF RefreshTarget, Proceed, Snapshots, Target
    <3> QED BY <1>2, <2>1, <3>1 DEF RefreshTarget
  <2>2. CASE BeginAction(c)
    BY <2>2 DEF BeginAction, ActionMoves, Progress, Preflight, TypeOK
  <2>3. CASE AcknowledgeAction(c) \/ RejectAction(c) \/ UnknownAction(c)
    BY <2>3 DEF AcknowledgeAction, RejectAction, UnknownAction, MarkAction, ActionMoves, Progress,
       Marked, TypeOK
  <2>4. CASE \/ LookUp(c) \/ RequireReview(c) \/ FetchTarget(c) \/ CheckTarget(c) \/ Refuse(c)
             \/ Send(c) \/ Crash(c)
    BY <1>1, <2>4 DEF LookUp, RequireReview, FetchTarget, CheckTarget, Refuse, Send, Crash, rowVars
  <2> QED BY <1>4, <2>1, <2>2, <2>3, <2>4 DEF Call
<1>5. CASE Broker
  BY <1>1, <1>5 DEF Broker, Answer, TakeEffect, MoveOrder, ReopenOrClose, rowVars
<1>6. CASE Disconnect
  BY <1>1, <1>6 DEF Disconnect, rowVars
<1>7. ASSUME NEW w \in Workers, Reconciler(w) PROVE ActionMoves
  <2>1. CASE ApplyOrder(w) \/ ApplyPositions(w)
    BY <1>2, <2>1 DEF ApplyOrder, ApplyPositions, Cycle, Snapshots, Apply
  <2>2. CASE ~(ApplyOrder(w) \/ ApplyPositions(w))
    BY <1>1, <1>7, <2>2 DEF Reconciler, ListOrders, FetchOrder, FetchPositions, AbortCycle, rowVars
  <2> QED BY <2>1, <2>2
<1> QED BY <1>3, <1>4, <1>5, <1>6, <1>7 DEF Next

-----------------------------------------------------------------------------
(* The theorems.                                                           *)

(* The invariant holds in every reachable state.                           *)
THEOREM Invariance == Spec => []IndInv
  BY InitInv, NextInv, PTL DEF Spec

(* The rows, the reviews and the calls keep their types, the snapshots of  *)
(* the broker's answers included.                                          *)
THEOREM TypeCorrect == Spec => []TypeOK
<1>1. IndInv => TypeOK
  BY DEF IndInv
<1> QED BY <1>1, Invariance, PTL

(* However many devices confirm at once, an order or a position never has  *)
(* two actions in flight.                                                  *)
THEOREM OneActionInFlight == Spec => []OneAwaiting
<1>1. IndInv => OneAwaiting
  BY DEF IndInv
<1> QED BY <1>1, Invariance, PTL

(* What reaches the broker was reviewed and confirmed, and reaches it once. *)
THEOREM ConfirmedOnce == Spec => []SentAsConfirmed
<1>1. IndInv => SentAsConfirmed
  BY DEF IndInv
<1> QED BY <1>1, Invariance, PTL

(* A cancellation that reads completed has happened at the broker.         *)
THEOREM CancellationIsTrue == Spec => []CancelledIsTrue
<1>1. IndInv => CancelledIsTrue
  BY DEF IndInv
<1> QED BY <1>1, Invariance, PTL

(* The answer of a call and the reconciler race on one row; an action that *)
(* ended stays ended, and only one that its call has marked completes.     *)
THEOREM Lifecycle == Spec => ActionLifecycle
<1>1. IndInv /\ [Next]_vars => [ActionMoves]_vars
  BY StepMoves
<1> QED BY <1>1, Invariance, PTL DEF Spec, ActionLifecycle

=============================================================================
