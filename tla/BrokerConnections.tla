-------------------------- MODULE BrokerConnections --------------------------
(***************************************************************************)
(* The broker accounts of one user: connecting, verifying and synchronising *)
(* them, choosing the active one and revoking them, and the proposals      *)
(* created meanwhile for the active account.                               *)
(*                                                                         *)
(* The actors are API handlers and the market worker, which synchronises   *)
(* the active account before it proposes anything. A verification and a    *)
(* synchronisation await the broker between their transactions; most of    *)
(* these take no row lock, so another handler's commit can fall between a  *)
(* transaction's read and its write.                                       *)
(***************************************************************************)
EXTENDS Naturals

CONSTANTS
  Connections,  \* broker_connections of the user
  Calls,        \* verifications and synchronisations in flight
  Proposals,    \* proposals being created
  None          \* no value

ASSUME BrokerAssumption == None \notin Connections

VARIABLES
  status,       \* broker_connections.status
  verified,     \* connections whose last_verified_at is set
  synced,       \* connections whose last_synced_at is set
  credential,   \* connections that have a broker_credentials row
  context,      \* the connection broker_contexts names, if any
  proposal,     \* trade_proposals: status and connection
  call,         \* each verify or sync handler
  draft,        \* each ProposalService.create handler
  revoked       \* connections the user has revoked (history)

dbVars == <<status, verified, synced, credential, context>>
vars   == <<dbVars, proposal, call, draft, revoked>>

-----------------------------------------------------------------------------
(* Types.                                                                  *)

ConnectionStatus ==
  {"absent", "pending", "verifying", "syncing", "healthy", "degraded", "failed", "revoked"}

Call == [at : {"idle", "verify", "key", "asked", "answered", "sync", "fetch", "fetched", "loaded"},
         connection : Connections \cup {None},
         loaded : ConnectionStatus]
IdleCall == [at |-> "idle", connection |-> None, loaded |-> "absent"]

Draft == [at : {"idle", "context", "portfolio", "insert", "done"},
          connection : Connections \cup {None}]
IdleDraft == [at |-> "idle", connection |-> None]

Proposal == [status : {"absent", "available", "invalidated"}, connection : Connections \cup {None}]
NoProposal == [status |-> "absent", connection |-> None]

TypeOK ==
  /\ status \in [Connections -> ConnectionStatus]
  /\ verified \subseteq Connections
  /\ synced \subseteq Connections
  /\ credential \subseteq Connections
  /\ context \in Connections \cup {None}
  /\ proposal \in [Proposals -> Proposal]
  /\ call \in [Calls -> Call]
  /\ draft \in [Proposals -> Draft]
  /\ revoked \subseteq Connections

Init ==
  /\ status = [c \in Connections |-> "absent"]
  /\ verified = {}
  /\ synced = {}
  /\ credential = {}
  /\ context = None
  /\ proposal = [p \in Proposals |-> NoProposal]
  /\ call = [j \in Calls |-> IdleCall]
  /\ draft = [p \in Proposals |-> IdleDraft]
  /\ revoked = {}

-----------------------------------------------------------------------------
(* Helpers.                                                                *)

(* What a column holds after a transaction that read one value of it and   *)
(* assigned another: the session writes only what it changed.              *)
Flushed(now, loaded, new) == IF new = loaded THEN now ELSE new

(* _invalidate_pending_proposals.                                          *)
Invalidated(chosen) ==
  [p \in Proposals |->
     IF proposal[p].status = "available" /\ proposal[p].connection \in chosen
       THEN [proposal[p] EXCEPT !.status = "invalidated"]
       ELSE proposal[p]]

Goto(j, from, to) ==
  /\ call[j].at = from
  /\ call' = [call EXCEPT ![j].at = to]

-----------------------------------------------------------------------------
(* BrokerStore.create_connection, with the credential.                     *)

CreateConnection(c) ==
  /\ status[c] = "absent"
  /\ status' = [status EXCEPT ![c] = "pending"]
  /\ credential' = credential \cup {c}
  /\ UNCHANGED <<verified, synced, context, proposal, call, draft, revoked>>

(* BrokerService.verify: the connection exists, whatever its status.       *)
StartVerify(j, c) ==
  /\ call[j].at = "idle"
  /\ status[c] # "absent"
  /\ call' = [call EXCEPT ![j] = [IdleCall EXCEPT !.at = "verify", !.connection = c]]
  /\ UNCHANGED <<dbVars, proposal, draft, revoked>>

MarkVerifying(j) ==
  /\ Goto(j, "verify", "key")
  /\ status' = [status EXCEPT ![call[j].connection] = "verifying"]
  /\ UNCHANGED <<verified, synced, credential, context, proposal, draft, revoked>>

(* Without a credential the handler raises and leaves the status behind.   *)
ReadKey(j) ==
  /\ \/ Goto(j, "key", "asked") /\ call[j].connection \in credential
     \/ Goto(j, "key", "idle") /\ call[j].connection \notin credential
  /\ UNCHANGED <<dbVars, proposal, draft, revoked>>

(* BybitHttpGateway._signed_get, which a handler awaits: it returns, or it *)
(* raises because the key is not accepted or the broker gives no answer.   *)
SignedGet(j, from, to) == Goto(j, from, to)

(* get_key_info and _validate_connected_key passed, or did not.            *)
KeyAccepted(j) ==
  /\ SignedGet(j, "asked", "answered")
  /\ UNCHANGED <<dbVars, proposal, draft, revoked>>

MarkFailed(j) ==
  /\ SignedGet(j, "asked", "idle")
  /\ status' = [status EXCEPT ![call[j].connection] = "failed"]
  /\ UNCHANGED <<verified, synced, credential, context, proposal, draft, revoked>>

(* mark_verified. Its second transaction stamps the credential; nothing    *)
(* reads the stamp.                                                        *)
MarkVerified(j) ==
  /\ Goto(j, "answered", "idle")
  /\ status' = [status EXCEPT ![call[j].connection] = "syncing"]
  /\ verified' = verified \cup {call[j].connection}
  /\ UNCHANGED <<synced, credential, context, proposal, draft, revoked>>

-----------------------------------------------------------------------------
(* BrokerService.sync.                                                     *)

Synchronisable(c) == status[c] \in {"syncing", "healthy", "degraded"}

StartSync(j, c) ==
  /\ call[j].at = "idle"
  /\ Synchronisable(c)
  /\ call' = [call EXCEPT ![j] = [IdleCall EXCEPT !.at = "sync", !.connection = c]]
  /\ UNCHANGED <<dbVars, proposal, draft, revoked>>

ReadSyncKey(j) ==
  /\ Goto(j, "sync", "fetch")
  /\ call[j].connection \in credential
  /\ UNCHANGED <<dbVars, proposal, draft, revoked>>

(* get_account_snapshot answers.                                           *)
FetchSnapshot(j) ==
  /\ SignedGet(j, "fetch", "fetched")
  /\ UNCHANGED <<dbVars, proposal, draft, revoked>>

(* save_snapshot reads the connection without a lock ...                   *)
LoadConnection(j) ==
  /\ call[j].at = "fetched"
  /\ call' = [call EXCEPT ![j].at = "loaded", ![j].loaded = status[call[j].connection]]
  /\ UNCHANGED <<dbVars, proposal, draft, revoked>>

(* Mutant of ContextAfterSnapshot: the account last synchronised becomes   *)
(* the active one.                                                         *)
ContextAfterSnapshotTakes(c) == c

(* ... marks it healthy, and makes it the active one if there is none.     *)
ContextAfterSnapshot(c) == IF context = None THEN c ELSE context

SaveSnapshot(j) ==
  LET c == call[j].connection
  IN  /\ call[j].at = "loaded"
      /\ call' = [call EXCEPT ![j] = IdleCall]
      /\ status' = [status EXCEPT ![c] = Flushed(@, call[j].loaded, "healthy")]
      /\ synced' = synced \cup {c}
      /\ context' = ContextAfterSnapshot(c)
      /\ UNCHANGED <<verified, credential, proposal, draft, revoked>>

(* A conflict, a broker error or the death of the process.                 *)
Abandon(j) ==
  /\ call[j].at # "idle"
  /\ call' = [call EXCEPT ![j] = IdleCall]
  /\ UNCHANGED <<dbVars, proposal, draft, revoked>>

-----------------------------------------------------------------------------
(* BrokerContextService: both lock the connection's row.                   *)

Switchable(c) == status[c] = "healthy" /\ c \in synced

(* Whose proposals a switch invalidates: everybody's, if it is a change.   *)
LeftBehind(c) == IF context # c THEN Connections ELSE {}

Switch(c) ==
  /\ Switchable(c)
  /\ context' = c
  /\ proposal' = Invalidated(LeftBehind(c))
  /\ UNCHANGED <<status, verified, synced, credential, call, draft, revoked>>

(* Mutant of KeysLeft: the key survives the revocation.                    *)
KeysLeftAll(c) == credential

KeysLeft(c) == credential \ {c}

Revoke(c) ==
  /\ status[c] # "absent"
  /\ status' = [status EXCEPT ![c] = "revoked"]
  /\ credential' = KeysLeft(c)
  /\ context' = IF context = c THEN None ELSE context
  /\ proposal' = Invalidated({c})
  /\ revoked' = revoked \cup {c}
  /\ UNCHANGED <<verified, synced, call, draft>>

-----------------------------------------------------------------------------
(* ProposalService.create: the account is healthy, is the active one and   *)
(* has a portfolio, each read in a transaction of its own.                 *)

Step(p, from, to) ==
  /\ draft[p].at = from
  /\ draft' = [draft EXCEPT ![p].at = to]

CheckConnection(p, c) ==
  /\ draft[p].at = "idle"
  /\ status[c] = "healthy"
  /\ draft' = [draft EXCEPT ![p] = [at |-> "context", connection |-> c]]
  /\ UNCHANGED <<dbVars, proposal, call, revoked>>

CheckContext(p) ==
  /\ Step(p, "context", "portfolio")
  /\ context = draft[p].connection
  /\ UNCHANGED <<dbVars, proposal, call, revoked>>

(* get_portfolio_summary answers for this account.                         *)
HasPortfolio(c) == context = c /\ status[c] = "healthy" /\ c \in synced

CheckPortfolio(p) ==
  /\ Step(p, "portfolio", "insert")
  /\ HasPortfolio(draft[p].connection)
  /\ UNCHANGED <<dbVars, proposal, call, revoked>>

InsertProposal(p) ==
  /\ Step(p, "insert", "done")
  /\ proposal' = [proposal EXCEPT ![p] =
                    [status |-> "available", connection |-> draft[p].connection]]
  /\ UNCHANGED <<dbVars, call, revoked>>

(* Another check fails, or the process dies.                               *)
Drop(p) ==
  /\ draft[p].at \notin {"idle", "done"}
  /\ draft' = [draft EXCEPT ![p].at = "done"]
  /\ UNCHANGED <<dbVars, proposal, call, revoked>>

-----------------------------------------------------------------------------

Verification(j) ==
  \/ \E c \in Connections : StartVerify(j, c)
  \/ MarkVerifying(j) \/ ReadKey(j) \/ KeyAccepted(j) \/ MarkFailed(j) \/ MarkVerified(j)

Synchronisation(j) ==
  \/ \E c \in Connections : StartSync(j, c)
  \/ ReadSyncKey(j) \/ FetchSnapshot(j) \/ LoadConnection(j) \/ SaveSnapshot(j)

Creation(p) ==
  \/ \E c \in Connections : CheckConnection(p, c)
  \/ CheckContext(p) \/ CheckPortfolio(p) \/ InsertProposal(p) \/ Drop(p)

Next ==
  \/ \E c \in Connections : CreateConnection(c) \/ Switch(c) \/ Revoke(c)
  \/ \E j \in Calls : Verification(j) \/ Synchronisation(j) \/ Abandon(j)
  \/ \E p \in Proposals : Creation(p)

Spec == Init /\ [][Next]_vars

-----------------------------------------------------------------------------
(* Safety.                                                                 *)

(* BrokerStore.has_healthy_read_connection.                                *)
Unlocked == context # None /\ status[context] = "healthy" /\ context \in credential

(* What a synchronisation in flight writes after a revocation, or a        *)
(* verification after a failure, never unlocks the studio again: it stands *)
(* on a key the user has not revoked and that passed a verification.       *)
UnlockedByLiveKey == Unlocked => context \in verified \ revoked

(* An account that is reported healthy or is the active one has passed a   *)
(* verification and been synchronised, in whatever order the transactions  *)
(* of its handlers were committed.                                         *)
HealthyWasVerified ==
  \A c \in Connections : status[c] = "healthy" \/ context = c => c \in verified \cap synced

(* The active account changes hands only by a switch, which leaves no      *)
(* proposal behind, and is given up only with its revocation: no           *)
(* background synchronisation takes it away.                               *)
ContextMoves ==
  context' # context /\ context # None =>
    \/ context' = None /\ context \in revoked'
    \/ /\ context' # None /\ status[context'] = "healthy"
       /\ \A p \in Proposals : proposal'[p].status # "available"

ActiveAccountHeld == [][ContextMoves]_vars

-----------------------------------------------------------------------------
(* Claims of the repository that the code does not meet.                   *)

(* The test of revocation reads back "revoked" and a locked studio: a      *)
(* revoked account is neither reported healthy nor the active one.         *)
RevokedStaysOut == \A c \in revoked : status[c] # "healthy" /\ context # c

=============================================================================
