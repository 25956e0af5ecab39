------------------------- MODULE StrategyGovernance -------------------------
(***************************************************************************)
(* The versions of one trading strategy on their way from candidate to     *)
(* approved. The API process keeps them in a registry in its memory and    *)
(* saves each change to a table; the market worker merges that table into  *)
(* a registry of its own before each analysis and trades on the newest     *)
(* version, if that is approved and refers to its latest passing replay.   *)
(*                                                                         *)
(* An evaluation names what it was made of by a digest (reproducibility_   *)
(* hash): the strategy's content and the experiment. Digests stand for     *)
(* these hashes as the source relies on them: another content has another  *)
(* hash, drawn when it is first computed, and no content holds a hash that *)
(* was not computed before.                                                *)
(***************************************************************************)
EXTENDS Naturals, Sequences

CONSTANTS
  Versions,    \* numbered in the order of _semver
  Seeds,       \* the versions every process starts with (seeds.py)
  Handlers,    \* requests of the operator that the API serves
  Digests,     \* bound: of different replays
  None

ASSUME GovernanceAssumption ==
  /\ Versions \subseteq Nat /\ Seeds \subseteq Versions
  /\ None \notin Digests \cup Versions

StrategyStatus ==
  {"discovered", "quarantined", "research", "validated", "shadow", "promotion_pending",
   "approved", "benched", "retired"}

(* The statuses that the transition route asks evidence for.               *)
Admitted == {"validated", "shadow", "promotion_pending", "approved"}

(* A version as a registry or the table holds it; None where it is not.    *)
StrategySpec == [status : StrategyStatus, references : SUBSET Digests]
Slot == StrategySpec \cup {None}

(* What a digest was made of, and what the replay said.                    *)
Content == [version : Versions, spec : StrategySpec, passes : BOOLEAN]

ASSUME NoneAssumption == None \notin StrategySpec /\ None \notin Content

VARIABLES
  registry,    \* of the API process: a slot for each version
  table,       \* the durable strategies
  digest,      \* the content of each digest that was drawn
  evaluations, \* of each version, the saved evaluations' digests, oldest first
  handler,     \* each request in flight
  trading,     \* the version the market worker's analysis in progress trades on
  offers,      \* the versions it has made offers of
  approvals,   \* history: the versions the operator has approved
  lost,        \* history: the versions of which a save failed
  crossed      \* history: the versions of which two saves overlapped

apiVars    == <<registry, handler>>
workerVars == <<trading, offers>>
history    == <<approvals, lost, crossed>>
vars       ==
  <<registry, table, digest, evaluations, handler, trading, offers, approvals, lost, crossed>>

Idle == [at |-> "idle", version |-> None, spec |-> None, seen |-> None]

Handler ==
  [at      : {"idle", "check", "admit", "load", "insert", "update", "skip", "record"},
   version : Versions \cup {None},
   spec    : Slot,                     \* what it would move the version to, or saves
   seen    : Digests \cup {None}]      \* the evaluation it has read or made

NoTrade == [version |-> None, spec |-> None]
Trade == [version : Versions, spec : StrategySpec]

TypeOK ==
  /\ registry \in [Versions -> Slot] /\ table \in [Versions -> Slot]
  /\ digest \in [Digests -> Content \cup {None}]
  /\ evaluations \in [Versions -> Seq(Digests)]
  /\ handler \in [Handlers -> Handler]
  /\ trading \in Trade \cup {NoTrade}
  /\ offers \subseteq Versions /\ approvals \subseteq Versions
  /\ lost \subseteq Versions /\ crossed \subseteq Versions

(* build_strategy_registry.                                                *)
Seeded ==
  [v \in Versions |-> IF v \in Seeds THEN [status |-> "quarantined", references |-> {}] ELSE None]

(* VersionedRegistry.restore of all that is durable over the seeds. No row *)
(* is ever deleted, so that what was restored before makes no difference.  *)
Restored == [v \in Versions |-> IF table[v] # None THEN table[v] ELSE Seeded[v]]

Init ==
  /\ registry = Seeded
  /\ table = [v \in Versions |-> None]
  /\ digest = [d \in Digests |-> None]
  /\ evaluations = [v \in Versions |-> <<>>]
  /\ handler = [h \in Handlers |-> Idle]
  /\ trading = NoTrade /\ offers = {}
  /\ approvals = {} /\ lost = {} /\ crossed = {}

-----------------------------------------------------------------------------
(* Evidence.                                                               *)

Drawn == {d \in Digests : digest[d] # None}

Saved(v) == {evaluations[v][i] : i \in DOMAIN evaluations[v]}

(* IntelligenceStore.latest_evaluation: of this id and version, whatever   *)
(* content it was made of.                                                 *)
Latest(v) == IF evaluations[v] = <<>> THEN None ELSE evaluations[v][Len(evaluations[v])]

(* Mutant of Evidenced: a replay that is referred to will do, passed or not.*)
EvidencedByName(references, seen) == seen # None /\ seen \in references

(* "passing version-bound execution replay required", "strategy must       *)
(* reference its exact evaluation".                                        *)
Evidenced(references, seen) ==
  seen # None /\ digest[seen].passes /\ seen \in references

(* The hash of a content: the one it has, or a fresh one.                  *)
Hashes(content, d) ==
  IF \E e \in Drawn : digest[e] = content THEN digest[d] = content ELSE digest[d] = None

-----------------------------------------------------------------------------
(* The operator's requests.                                                *)

Saves == {"load", "insert", "update", "skip"}
Saving(h, v) == handler[h].at \in Saves /\ handler[h].version = v

(* IntelligenceStore.save_strategy starts.                                 *)
StartSave(h, v, spec) ==
  /\ handler' = [handler EXCEPT ![h] = [Idle EXCEPT !.at = "load", !.version = v, !.spec = spec]]
  /\ crossed' = IF \E g \in Handlers \ {h} : Saving(g, v) THEN crossed \cup {v} ELSE crossed

(* Mutant of RegisterCandidate: a version may be registered again.         *)
RegisterCandidateAgain(h, v, status, references) ==
  /\ handler[h].at = "idle"
  /\ status \in {"discovered", "quarantined"}
  /\ references \subseteq Drawn
  /\ LET spec == [status |-> status, references |-> references]
     IN  registry' = [registry EXCEPT ![v] = spec] /\ StartSave(h, v, spec)
  /\ UNCHANGED <<table, digest, evaluations, workerVars, approvals, lost>>

(* register_strategy_candidate: the references are whatever the operator   *)
(* knows.                                                                  *)
RegisterCandidate(h, v, status, references) ==
  /\ handler[h].at = "idle"
  /\ status \in {"discovered", "quarantined"}
  /\ references \subseteq Drawn
  /\ registry[v] = None
  /\ LET spec == [status |-> status, references |-> references]
     IN  registry' = [registry EXCEPT ![v] = spec] /\ StartSave(h, v, spec)
  /\ UNCHANGED <<table, digest, evaluations, workerVars, approvals, lost>>

(* evaluate_strategy: the replay runs and is hashed, then it is saved.     *)
Evaluate(h, v, passes, d) ==
  /\ handler[h].at = "idle"
  /\ registry[v] # None
  /\ LET content == [version |-> v, spec |-> registry[v], passes |-> passes]
     IN  Hashes(content, d) /\ digest' = [digest EXCEPT ![d] = content]
  /\ handler' = [handler EXCEPT ![h] = [Idle EXCEPT !.at = "record", !.version = v, !.seen = d]]
  /\ UNCHANGED <<registry, table, evaluations, workerVars, history>>

(* An evaluation that was saved before keeps its place.                    *)
SaveEvaluation(h) ==
  /\ handler[h].at = "record"
  /\ LET d == handler[h].seen
         v == handler[h].version
     IN  evaluations' = IF d \in Saved(v) THEN evaluations
                        ELSE [evaluations EXCEPT ![v] = Append(@, d)]
  /\ handler' = [handler EXCEPT ![h] = Idle]
  /\ UNCHANGED <<registry, table, digest, workerVars, history>>

(* _ALLOWED_STRATEGY_TRANSITIONS.                                          *)
Allowed(status) ==
  CASE status = "discovered"        -> {"quarantined"}
    [] status = "quarantined"       -> {"research", "retired"}
    [] status = "research"          -> {"validated", "benched"}
    [] status = "validated"         -> {"shadow", "benched"}
    [] status = "shadow"            -> {"promotion_pending", "benched"}
    [] status = "promotion_pending" -> {"approved", "benched"}
    [] status = "approved"          -> {"benched", "retired"}
    [] status = "benched"           -> {"research", "retired"}
    [] status = "retired"           -> {}

(* StrategyRegistry.transition, from the status the version has now.       *)
Move(h, v, target) ==
  /\ target \in Allowed(registry[v].status)
  /\ LET spec == [registry[v] EXCEPT !.status = target]
     IN  registry' = [registry EXCEPT ![v] = spec] /\ StartSave(h, v, spec)
  /\ approvals' = IF target = "approved" THEN approvals \cup {v} ELSE approvals

(* transition_strategy.                                                    *)
Transition(h, v, target) ==
  /\ handler[h].at = "idle"
  /\ registry[v] # None
  /\ target \notin Admitted
  /\ Move(h, v, target)
  /\ UNCHANGED <<table, digest, evaluations, workerVars, lost>>

AskAdmission(h, v, target) ==
  /\ handler[h].at = "idle"
  /\ registry[v] # None
  /\ target \in Admitted
  /\ LET spec == [registry[v] EXCEPT !.status = target]
     IN  handler' = [handler EXCEPT ![h] =
                       [Idle EXCEPT !.at = "check", !.version = v, !.spec = spec]]
  /\ UNCHANGED <<registry, table, digest, evaluations, workerVars, history>>

ReadEvaluation(h) ==
  /\ handler[h].at = "check"
  /\ handler' = [handler EXCEPT ![h].at = "admit", ![h].seen = Latest(handler[h].version)]
  /\ UNCHANGED <<registry, table, digest, evaluations, workerVars, history>>

(* For the last two the operator hands in shadow evidence, which may fail  *)
(* assess_promotion: then the request ends (Refuse).                       *)
Admit(h) ==
  /\ handler[h].at = "admit"
  /\ Evidenced(handler[h].spec.references, handler[h].seen)
  /\ Move(h, handler[h].version, handler[h].spec.status)
  /\ UNCHANGED <<table, digest, evaluations, workerVars, lost>>

Refuse(h) ==
  /\ handler[h].at \in {"check", "admit", "record"}
  /\ handler' = [handler EXCEPT ![h] = Idle]
  /\ UNCHANGED <<registry, table, digest, evaluations, workerVars, history>>

(* Mutant of LoadRow: a row that exists is left as it is.                  *)
LoadRowInsertOnly(h) ==
  /\ handler[h].at = "load"
  /\ handler' = [handler EXCEPT
                   ![h].at = IF table[handler[h].version] = None THEN "insert" ELSE "skip"]
  /\ UNCHANGED <<registry, table, digest, evaluations, workerVars, history>>

(* _save_document: it loads the row, and inserts it or writes what differs *)
(* from what it loaded.                                                    *)
LoadRow(h) ==
  LET row == table[handler[h].version] IN
  /\ handler[h].at = "load"
  /\ handler' = [handler EXCEPT ![h].at = IF row = None THEN "insert"
                                          ELSE IF row = handler[h].spec THEN "skip" ELSE "update"]
  /\ UNCHANGED <<registry, table, digest, evaluations, workerVars, history>>

CommitRow(h) ==
  LET v == handler[h].version IN
  /\ handler[h].at = "insert" => table[v] = None
  /\ \/ handler[h].at \in {"insert", "update"} /\ table' = [table EXCEPT ![v] = handler[h].spec]
     \/ handler[h].at = "skip" /\ table' = table
  /\ handler' = [handler EXCEPT ![h] = Idle]
  /\ UNCHANGED <<registry, digest, evaluations, workerVars, history>>

(* The database cannot be reached, or the row was inserted meanwhile.      *)
LoseSave(h) ==
  /\ handler[h].at \in Saves
  /\ lost' = lost \cup {handler[h].version}
  /\ handler' = [handler EXCEPT ![h] = Idle]
  /\ UNCHANGED <<registry, table, digest, evaluations, workerVars, approvals, crossed>>

(* The API process stops, and starts from its seeds and the table.         *)
Restart ==
  /\ registry' = Restored
  /\ handler' = [h \in Handlers |-> Idle]
  /\ lost' = lost \cup {v \in Versions : \E h \in Handlers : Saving(h, v)}
  /\ UNCHANGED <<table, digest, evaluations, workerVars, approvals, crossed>>

-----------------------------------------------------------------------------
(* The market worker.                                                      *)

(* Mutant of Approved: a version on trial counts.                          *)
ApprovedOnTrial(known) ==
  {v \in Versions :
     known[v] # None /\ known[v].status \in {"shadow", "promotion_pending", "approved"}}

(* StrategyRegistry.approved: the newest version, if it is approved.       *)
Approved(known) ==
  LET present == {v \in Versions : known[v] # None}
  IN  {v \in present : known[v].status = "approved" /\ \A w \in present : w <= v}

(* run_scan_loop before an analysis, and the start of analyze_scan, which  *)
(* keeps the list of approved versions to its end.                         *)
StartAnalysis ==
  /\ trading = NoTrade
  /\ \E v \in Approved(Restored) : trading' = [version |-> v, spec |-> Restored[v]]
  /\ UNCHANGED <<apiVars, table, digest, evaluations, offers, history>>

(* A candidate passes the pipeline's evidence gate, and all else.          *)
Offer ==
  /\ trading # NoTrade
  /\ Evidenced(trading.spec.references, Latest(trading.version))
  /\ offers' = offers \cup {trading.version}
  /\ UNCHANGED <<apiVars, table, digest, evaluations, trading, history>>

(* The analysis ends, or the worker is started again.                      *)
EndAnalysis ==
  /\ trading # NoTrade
  /\ trading' = NoTrade
  /\ UNCHANGED <<apiVars, table, digest, evaluations, offers, history>>

-----------------------------------------------------------------------------

Request(h) ==
  \/ \E v \in Versions, s \in StrategyStatus, r \in SUBSET Digests : RegisterCandidate(h, v, s, r)
  \/ \E v \in Versions, p \in BOOLEAN, d \in Digests : Evaluate(h, v, p, d)
  \/ \E v \in Versions, t \in StrategyStatus : Transition(h, v, t) \/ AskAdmission(h, v, t)
  \/ SaveEvaluation(h) \/ ReadEvaluation(h) \/ Admit(h) \/ Refuse(h)
  \/ LoadRow(h) \/ CommitRow(h) \/ LoseSave(h)

Worker == StartAnalysis \/ Offer \/ EndAnalysis

Next == (\E h \in Handlers : Request(h)) \/ Restart \/ Worker

Spec == Init /\ [][Next]_vars

-----------------------------------------------------------------------------
(* Safety.                                                                 *)

(* What there is of a version: in the memory of the API, in the table, in  *)
(* a save under way, and in the market worker's analysis.                  *)
Copies(v) ==
  {registry[v], table[v]}
    \cup {handler[h].spec : h \in {g \in Handlers : Saving(g, v)}}
    \cup {t.spec : t \in {trade \in {trading} : trade.version = v}}

IsAdmitted(spec) == spec # None /\ spec.status \in Admitted

(* Wherever a version is admitted, it refers to a saved replay of that id  *)
(* and version that passed.                                                *)
HasReplay(v, spec) ==
  \E d \in Saved(v) : d \in spec.references /\ digest[d].version = v /\ digest[d].passes

AdmittedHasReplay ==
  \A v \in Versions : \A spec \in Copies(v) : IsAdmitted(spec) => HasReplay(v, spec)

(* Nothing is offered on a version that no operator has approved, however  *)
(* far behind the worker's registry and the table are.                     *)
OffersWereApproved == offers \subseteq approvals

(* The registry and the table agree on a version, once no request saves    *)
(* it, unless a save of it was lost or two of them overlapped.             *)
SavedWhenQuiet ==
  \A v \in Versions :
    \/ registry[v] = table[v]
    \/ registry[v] = Seeded[v] /\ table[v] = None
    \/ v \in lost \cup crossed
    \/ \E h \in Handlers : Saving(h, v)

(* No candidate leaves research unless a save of it was lost: while the    *)
(* saves succeed, the content that a replay hashes has the references of   *)
(* the version, which cannot name that hash.                               *)
AdmissionNeedsLostSave ==
  \A v \in Versions :
    IsAdmitted(registry[v]) \/ IsAdmitted(table[v]) => v \in lost

-----------------------------------------------------------------------------
(* A claim of the repository that the code does not meet.                  *)

=============================================================================
