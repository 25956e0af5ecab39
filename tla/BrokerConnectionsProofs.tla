----------------------- MODULE BrokerConnectionsProofs -----------------------
(***************************************************************************)
(* Proofs, for any number of accounts, handlers and proposals, of the      *)
(* safety properties of BrokerConnections.                                 *)
(***************************************************************************)
EXTENDS BrokerConnections, TLAPS

-----------------------------------------------------------------------------
(* The inductive invariant.                                                *)

(* A handler is at work on a connection that exists.                       *)
Named ==
  /\ \A j \in Calls : call[j].at # "idle" =>
       call[j].connection \in Connections /\ status[call[j].connection] # "absent"
  /\ \A p \in Proposals : draft[p].at # "idle" => draft[p].connection \in Connections
  /\ \A p \in Proposals : proposal[p].status # "absent" => proposal[p].connection \in Connections

(* A key is stored once, before anything else happens to its connection.   *)
KeysLive ==
  /\ credential \cap revoked = {}
  /\ \A c \in revoked : status[c] # "absent"

(* What a verification must come before, also in the handlers in flight.   *)
VerifiedFirst ==
  /\ \A c \in Connections : status[c] \in {"syncing", "healthy", "degraded"} => c \in verified
  /\ \A j \in Calls : call[j].at \in {"sync", "fetch", "fetched", "loaded"} =>
       call[j].connection \in verified

IndInv == TypeOK /\ Named /\ KeysLive /\ VerifiedFirst /\ HealthyWasVerified

-----------------------------------------------------------------------------
(* Every step of a handler keeps the invariant.                            *)

LEMMA InvalidatedType ==
  ASSUME TypeOK, NEW chosen
  PROVE  /\ Invalidated(chosen) \in [Proposals -> Proposal]
         /\ \A p \in Proposals : Invalidated(chosen)[p].connection = proposal[p].connection
         /\ \A p \in Proposals :
              (Invalidated(chosen)[p].status = "absent") = (proposal[p].status = "absent")
         /\ \A p \in Proposals :
              Invalidated(chosen)[p].status = "available" => proposal[p].connection \notin chosen
  BY DEF TypeOK, Invalidated, Proposal

LEMMA InitInv == Init => IndInv
<1> SUFFICES ASSUME Init PROVE IndInv
  OBVIOUS
<1>1. TypeOK
  BY DEF Init, TypeOK, ConnectionStatus, Call, IdleCall, Draft, IdleDraft, Proposal, NoProposal
<1>2. Named
  BY DEF Init, Named, IdleCall, IdleDraft, NoProposal
<1>3. KeysLive
  BY DEF Init, KeysLive
<1>4. VerifiedFirst
  BY DEF Init, VerifiedFirst, IdleCall
<1>5. HealthyWasVerified
  BY BrokerAssumption DEF Init, HealthyWasVerified
<1> QED BY <1>1, <1>2, <1>3, <1>4, <1>5 DEF IndInv

LEMMA AccountInv ==
  ASSUME IndInv, NEW c \in Connections, CreateConnection(c) \/ Switch(c) \/ Revoke(c)
  PROVE  IndInv'
<1> USE BrokerAssumption DEF IndInv, TypeOK, Named, KeysLive, VerifiedFirst, HealthyWasVerified
<1>1. CASE CreateConnection(c)
  BY <1>1 DEF CreateConnection, ConnectionStatus
<1>2. CASE Switch(c)
  BY <1>2, InvalidatedType DEF Switch, Switchable
<1>3. CASE Revoke(c)
  BY <1>3, InvalidatedType DEF Revoke, KeysLeft, ConnectionStatus
<1> QED BY <1>1, <1>2, <1>3

LEMMA VerificationInv ==
  ASSUME IndInv, NEW j \in Calls, Verification(j) \/ Abandon(j)
  PROVE  IndInv'
<1> USE DEF IndInv, TypeOK, Named, KeysLive, VerifiedFirst, HealthyWasVerified, dbVars, Call,
            IdleCall, ConnectionStatus, Goto, SignedGet
<1>1. ASSUME NEW c \in Connections, StartVerify(j, c) PROVE IndInv'
  BY <1>1 DEF StartVerify
<1>2. CASE MarkVerifying(j)
  BY <1>2 DEF MarkVerifying
<1>3. CASE ReadKey(j)
  <2>1. PICK at \in {"asked", "idle"} : call' = [call EXCEPT ![j].at = at]
    BY <1>3 DEF ReadKey
  <2>2. call[j].at # "idle"
    BY <1>3 DEF ReadKey
  <2> QED BY <1>3, <2>1, <2>2 DEF ReadKey
<1>4. CASE KeyAccepted(j)
  BY <1>4 DEF KeyAccepted
<1>5. CASE MarkFailed(j)
  BY <1>5 DEF MarkFailed
<1>6. CASE MarkVerified(j)
  BY <1>6 DEF MarkVerified
<1>7. CASE Abandon(j)
  BY <1>7 DEF Abandon
<1> QED BY <1>1, <1>2, <1>3, <1>4, <1>5, <1>6, <1>7 DEF Verification

LEMMA SynchronisationInv ==
  ASSUME IndInv, NEW j \in Calls, Synchronisation(j)
  PROVE  IndInv'
<1> USE DEF IndInv, TypeOK, Named, KeysLive, VerifiedFirst, HealthyWasVerified, dbVars, Call,
            IdleCall, ConnectionStatus, Goto, SignedGet
<1>1. ASSUME NEW c \in Connections, StartSync(j, c) PROVE IndInv'
  BY <1>1 DEF StartSync, Synchronisable
<1>2. CASE ReadSyncKey(j)
  BY <1>2 DEF ReadSyncKey
<1>3. CASE FetchSnapshot(j)
  BY <1>3 DEF FetchSnapshot
<1>4. CASE LoadConnection(j)
  BY <1>4 DEF LoadConnection
<1>5. CASE SaveSnapshot(j)
  BY <1>5 DEF SaveSnapshot, Flushed, ContextAfterSnapshot
<1> QED BY <1>1, <1>2, <1>3, <1>4, <1>5 DEF Synchronisation

LEMMA CreationInv ==
  ASSUME IndInv, NEW p \in Proposals, Creation(p)
  PROVE  IndInv'
<1> USE DEF IndInv, TypeOK, Named, KeysLive, VerifiedFirst, HealthyWasVerified, dbVars, Draft,
            Proposal, Step
<1>1. ASSUME NEW c \in Connections, CheckConnection(p, c) PROVE IndInv'
  BY <1>1 DEF CheckConnection
<1>2. CASE CheckContext(p)
  BY <1>2 DEF CheckContext
<1>3. CASE CheckPortfolio(p)
  BY <1>3 DEF CheckPortfolio
<1>4. CASE InsertProposal(p)
  BY <1>4 DEF InsertProposal
<1>5. CASE Drop(p)
  BY <1>5 DEF Drop
<1> QED BY <1>1, <1>2, <1>3, <1>4, <1>5 DEF Creation

LEMMA NextInv == IndInv /\ [Next]_vars => IndInv'
<1> SUFFICES ASSUME IndInv, [Next]_vars PROVE IndInv'
  OBVIOUS
<1>1. CASE UNCHANGED vars
  BY <1>1 DEF vars, dbVars, IndInv, TypeOK, Named, KeysLive, VerifiedFirst, HealthyWasVerified
<1>2. CASE Next
  BY <1>2, AccountInv, VerificationInv, SynchronisationInv, CreationInv DEF Next
<1> QED BY <1>1, <1>2

-----------------------------------------------------------------------------
(* The theorems.                                                           *)

(* The invariant holds in every reachable state.                           *)
THEOREM Invariance == Spec => []IndInv
  BY InitInv, NextInv, PTL DEF Spec

(* The rows and the handlers' local state keep their types.                *)
THEOREM TypeCorrect == Spec => []TypeOK
<1>1. IndInv => TypeOK
  BY DEF IndInv
<1> QED BY <1>1, Invariance, PTL

(* A healthy account and the active account (BrokerStore.save_snapshot,    *)
(* BrokerContextService.switch) have passed a verification before.         *)
THEOREM HealthIsVerified == Spec => []HealthyWasVerified
<1>1. IndInv => HealthyWasVerified
  BY DEF IndInv
<1> QED BY <1>1, Invariance, PTL

(* What unlocks the studio is a verified key the user has not revoked.     *)
THEOREM LiveKeyUnlocks == Spec => []UnlockedByLiveKey
<1>1. IndInv => UnlockedByLiveKey
  BY DEF IndInv, TypeOK, KeysLive, HealthyWasVerified, UnlockedByLiveKey, Unlocked
<1> QED BY <1>1, Invariance, PTL

(* Only a switch, which leaves no offer behind, or a revocation takes the  *)
(* active account away.                                                    *)
THEOREM ActiveHeld == Spec => ActiveAccountHeld
<1>1. ASSUME IndInv, [Next]_vars PROVE [ContextMoves]_vars
  <2> USE <1>1
  <2>1. ASSUME NEW c \in Connections, CreateConnection(c) PROVE ContextMoves
    BY <2>1 DEF CreateConnection, ContextMoves
  <2>2. ASSUME NEW c \in Connections, Switch(c) PROVE ContextMoves
    <3> SUFFICES ASSUME context # c PROVE ContextMoves
      BY <2>2 DEF Switch, ContextMoves
    <3>1. \A p \in Proposals : proposal'[p].status # "available"
      <4>1. proposal' = Invalidated(Connections)
        BY <2>2 DEF Switch, LeftBehind
      <4>2. \A p \in Proposals : proposal[p].status # "absent" => proposal[p].connection \in Connections
        BY DEF IndInv, Named
      <4> QED BY <4>1, <4>2, InvalidatedType DEF IndInv
    <3>2. context' = c /\ c # None /\ status[c] = "healthy"
      BY <2>2, BrokerAssumption DEF Switch, Switchable
    <3> QED BY <3>1, <3>2 DEF ContextMoves
  <2>3. ASSUME NEW c \in Connections, Revoke(c) PROVE ContextMoves
    BY <2>3 DEF Revoke, ContextMoves
  <2>4. ASSUME NEW j \in Calls, Verification(j) \/ Abandon(j) PROVE ContextMoves
    BY <2>4 DEF Verification, StartVerify, MarkVerifying, ReadKey, KeyAccepted, MarkFailed,
                MarkVerified, Abandon, dbVars, ContextMoves
  <2>5. ASSUME NEW j \in Calls, Synchronisation(j) PROVE ContextMoves
    BY <2>5 DEF Synchronisation, StartSync, ReadSyncKey, FetchSnapshot, LoadConnection,
                SaveSnapshot, ContextAfterSnapshot, dbVars, ContextMoves
  <2>6. ASSUME NEW p \in Proposals, Creation(p) PROVE ContextMoves
    BY <2>6 DEF Creation, CheckConnection, CheckContext, CheckPortfolio, InsertProposal, Drop,
                dbVars, ContextMoves
  <2> QED BY <2>1, <2>2, <2>3, <2>4, <2>5, <2>6 DEF Next
<1> QED BY <1>1, Invariance, PTL DEF Spec, ActiveAccountHeld

=============================================================================
