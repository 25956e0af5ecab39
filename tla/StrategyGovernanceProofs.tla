---------------------- MODULE StrategyGovernanceProofs ----------------------
(***************************************************************************)
(* Proofs, for any number of versions, requests and replays, of the safety *)
(* properties of StrategyGovernance.                                       *)
(***************************************************************************)
EXTENDS StrategyGovernance, TLAPS

-----------------------------------------------------------------------------
(* The inductive invariant.                                                *)

(* What a version refers to was hashed before, and it was approved before  *)
(* it is approved.                                                         *)
Held(v, spec) ==
  spec # None => /\ spec.references \subseteq Drawn
                 /\ spec.status = "approved" => v \in approvals

Holding ==
  /\ \A v \in Versions : \A spec \in Copies(v) : Held(v, spec)
  /\ trading # NoTrade => trading.spec.status = "approved"

(* No content refers to its own hash, or to a later one.                   *)
Hashed ==
  \A d \in Drawn : digest[d].spec.references \subseteq Drawn \ {d}

(* An evaluation belongs to the version it is saved for.                   *)
Recorded ==
  /\ \A v \in Versions : \A d \in Saved(v) : d \in Drawn /\ digest[d].version = v
  /\ \A h \in Handlers : handler[h].at = "record" =>
       /\ handler[h].version \in Versions /\ handler[h].seen \in Drawn
       /\ digest[handler[h].seen].version = handler[h].version

(* A request for admission still looks at the references of its version.   *)
Asking ==
  \A h \in Handlers : handler[h].at \in {"check", "admit"} =>
    /\ handler[h].version \in Versions /\ handler[h].spec # None
    /\ registry[handler[h].version] # None
    /\ registry[handler[h].version].references = handler[h].spec.references
    /\ handler[h].at = "admit" => handler[h].seen \in Saved(handler[h].version) \cup {None}

Writing ==
  \A h \in Handlers : handler[h].at \in Saves =>
    /\ handler[h].version \in Versions /\ handler[h].spec # None
    /\ handler[h].at \in {"update", "skip"} => table[handler[h].version] # None

(* While no save of a version was lost, everything that there is of it has *)
(* the references it has in memory, and it stays there because it is, or   *)
(* will be, durable.                                                       *)
Alike(v, spec) == registry[v] # None /\ spec.references = registry[v].references

Bound(v) ==
  /\ \A spec \in Copies(v) \ {None} : Alike(v, spec)
  /\ \A d \in Drawn : digest[d].version = v => Alike(v, digest[d].spec)
  /\ registry[v] # None => table[v] # None \/ v \in Seeds \/ \E h \in Handlers : Saving(h, v)
  /\ v \in Seeds => registry[v] # None /\ registry[v].references = {}

Bounded == \A v \in Versions \ lost : Bound(v)

(* While, moreover, no two saves of it overlapped, the one under way       *)
(* writes what memory holds.                                               *)
Alone(v) ==
  \A h \in Handlers : Saving(h, v) =>
    /\ \A g \in Handlers : Saving(g, v) => g = h
    /\ handler[h].spec = registry[v]
    /\ handler[h].at = "skip" => table[v] = handler[h].spec

InOrder == \A v \in Versions \ (lost \cup crossed) : Alone(v)

IndInv ==
  /\ TypeOK /\ Holding /\ Hashed /\ Recorded /\ Asking /\ Writing
  /\ Bounded /\ InOrder
  /\ AdmittedHasReplay /\ OffersWereApproved /\ SavedWhenQuiet

-----------------------------------------------------------------------------
(* What a step keeps.                                                      *)

LEMMA TradeOrNot == NoTrade \notin Trade
  BY GovernanceAssumption DEF NoTrade, Trade

LEMMA CopiesTyped ==
  ASSUME TypeOK, NEW v \in Versions
  PROVE  Copies(v) \subseteq Slot
<1>1. \A h \in Handlers : handler[h].spec \in Slot
  BY DEF TypeOK, Handler
<1>2. trading.version = v => trading.spec \in Slot
  BY GovernanceAssumption DEF TypeOK, Trade, NoTrade, Slot
<1> QED BY <1>1, <1>2 DEF Copies, TypeOK

(* The steps that only move one handler, without starting a save.          *)
LEMMA HandlerMoves ==
  ASSUME TypeOK, NEW h \in Handlers, NEW to \in Handler, handler' = [handler EXCEPT ![h] = to],
         UNCHANGED <<registry, table, trading>>,
         to.at \in Saves => /\ handler[h].at \in Saves
                            /\ to.version = handler[h].version /\ to.spec = handler[h].spec
  PROVE  \A v \in Versions : Copies(v)' \subseteq Copies(v)
<1>1. \A v \in Versions, g \in Handlers :
        Saving(g, v)' => Saving(g, v) /\ handler'[g].spec = handler[g].spec
  BY DEF TypeOK, Saving
<1> QED BY <1>1 DEF Copies

(* The start of a save, by a handler that was not saving.                  *)
LEMMA SaveStarts ==
  ASSUME TypeOK, NEW h \in Handlers, NEW v \in Versions, NEW spec \in StrategySpec,
         registry' = [registry EXCEPT ![v] = spec], StartSave(h, v, spec),
         UNCHANGED <<table, trading>>
  PROVE  /\ \A w \in Versions \ {v} : Copies(w)' \subseteq Copies(w) /\ registry'[w] = registry[w]
         /\ Copies(v)' \subseteq Copies(v) \cup {spec} /\ registry'[v] = spec
         /\ \A g \in Handlers \ {h} : handler'[g] = handler[g]
         /\ handler'[h].at = "load" /\ handler'[h].version = v /\ handler'[h].spec = spec
         /\ crossed \subseteq crossed'
         /\ \A g \in Handlers \ {h} : Saving(g, v) => v \in crossed'
<1>1. \A g \in Handlers \ {h} : handler'[g] = handler[g]
  BY DEF TypeOK, StartSave
<1>2. handler'[h].at = "load" /\ handler'[h].version = v /\ handler'[h].spec = spec
  BY DEF TypeOK, StartSave, Idle
<1>3. \A w \in Versions, g \in Handlers :
        Saving(g, w)' => \/ Saving(g, w) /\ handler'[g].spec = handler[g].spec
                         \/ w = v /\ handler'[g].spec = spec
  BY <1>1, <1>2 DEF Saving
<1>4. \A w \in Versions \ {v} : registry'[w] = registry[w]
  BY DEF TypeOK
<1>5. registry'[v] = spec
  BY DEF TypeOK
<1>6. crossed \subseteq crossed' /\ \A g \in Handlers \ {h} : Saving(g, v) => v \in crossed'
  BY DEF StartSave
<1> QED BY <1>1, <1>2, <1>3, <1>4, <1>5, <1>6 DEF Copies

(* New evidence takes nothing away.                                        *)
Kept ==
  /\ \A d \in Drawn : digest'[d] = digest[d]
  /\ \A v \in Versions : Saved(v) \subseteq Saved(v)'

LEMMA KeptUnchanged == UNCHANGED <<digest, evaluations>> => Kept
  BY DEF Kept, Saved

LEMMA ReplayStays ==
  ASSUME Recorded, Kept, NEW v \in Versions, NEW spec, HasReplay(v, spec)
  PROVE  HasReplay(v, spec)'
<1>1. PICK d \in Saved(v) : d \in spec.references /\ digest[d].version = v /\ digest[d].passes
  BY DEF HasReplay
<1>2. d \in Drawn /\ d \in Saved(v)'
  BY DEF Recorded, Kept
<1>3. digest'[d] = digest[d]
  BY <1>2 DEF Kept
<1> QED BY <1>1, <1>2, <1>3 DEF HasReplay

LEMMA AdmittedStays ==
  ASSUME Recorded, AdmittedHasReplay, Kept,
         \A v \in Versions : \A spec \in Copies(v)' \ Copies(v) :
           IsAdmitted(spec) => HasReplay(v, spec)
  PROVE  AdmittedHasReplay'
<1> SUFFICES ASSUME NEW v \in Versions, NEW spec \in Copies(v)', IsAdmitted(spec)
             PROVE  HasReplay(v, spec)'
  BY DEF AdmittedHasReplay, IsAdmitted
<1>1. HasReplay(v, spec)
  BY DEF AdmittedHasReplay
<1> QED BY <1>1, ReplayStays

LEMMA HoldingStays ==
  ASSUME Holding, Drawn \subseteq Drawn', approvals \subseteq approvals',
         \A v \in Versions : \A spec \in Copies(v)' \ Copies(v) : Held(v, spec)',
         UNCHANGED trading
  PROVE  Holding'
<1>1. \A v \in Versions : \A spec \in Copies(v) : Held(v, spec)'
  BY DEF Holding, Held
<1> QED BY <1>1 DEF Holding

LEMMA BoundedStays ==
  ASSUME Bounded, lost \subseteq lost', Kept, Drawn \subseteq Drawn',
         \A v \in Versions \ lost' :
           /\ registry[v] # None => registry'[v] # None /\ registry'[v].references = registry[v].references
           /\ \A spec \in Copies(v)' \ Copies(v) : Alike(v, spec)' \/ spec = None
           /\ \A d \in Drawn' \ Drawn : digest'[d].version = v => Alike(v, digest[d].spec)'
           /\ registry'[v] # None => \/ table'[v] # None \/ v \in Seeds
                                     \/ \E h \in Handlers : Saving(h, v)'
  PROVE  Bounded'
<1> SUFFICES ASSUME NEW v \in Versions \ lost' PROVE Bound(v)'
  BY DEF Bounded
<1>1. Bound(v)
  BY DEF Bounded
<1>2. \A spec \in Copies(v)' \ {None} : Alike(v, spec)'
  BY <1>1 DEF Bound, Alike
<1>3. \A d \in Drawn' : digest'[d].version = v => Alike(v, digest[d].spec)'
  BY <1>1 DEF Bound, Alike, Kept
<1>4. v \in Seeds => registry'[v] # None /\ registry'[v].references = {}
  BY <1>1 DEF Bound
<1> QED BY <1>2, <1>3, <1>4 DEF Bound

-----------------------------------------------------------------------------
(* The requests.                                                           *)

LEMMA SaveStartsInv ==
  ASSUME IndInv, NEW h \in Handlers, NEW v \in Versions, NEW spec \in StrategySpec,
         handler[h].at \notin Saves,
         spec.references \subseteq Drawn, spec.status = "approved" => v \in approvals',
         registry[v] # None => spec.references = registry[v].references,
         spec.status \in Admitted => HasReplay(v, spec),
         registry' = [registry EXCEPT ![v] = spec], StartSave(h, v, spec),
         approvals \subseteq approvals' /\ approvals' \subseteq Versions,
         UNCHANGED <<table, digest, evaluations, trading, offers, lost>>
  PROVE  IndInv'
<1> USE GovernanceAssumption, NoneAssumption DEF IndInv
<1>1. spec # None
  OBVIOUS
<1>2. TypeOK'
  BY DEF StartSave, TypeOK, Handler, Slot, Idle
<1>3. /\ \A w \in Versions \ {v} : Copies(w)' \subseteq Copies(w) /\ registry'[w] = registry[w]
      /\ Copies(v)' \subseteq Copies(v) \cup {spec} /\ registry'[v] = spec
      /\ \A g \in Handlers \ {h} : handler'[g] = handler[g]
      /\ handler'[h].at = "load" /\ handler'[h].version = v /\ handler'[h].spec = spec
      /\ crossed \subseteq crossed'
      /\ \A g \in Handlers \ {h} : Saving(g, v) => v \in crossed'
  BY NoneAssumption, SaveStarts
<1>4. Kept /\ Drawn' = Drawn
  BY KeptUnchanged DEF Drawn
<1>5. Holding'
  <2>1. Held(v, spec)'
    BY <1>4 DEF Held
  <2> QED BY <1>3, <1>4, <2>1, HoldingStays
<1>6. Hashed' /\ Recorded'
  BY <1>3, <1>4 DEF Hashed, Recorded, Drawn, Saved
<1>7. Asking' /\ Writing'
  BY <1>3 DEF Asking, Writing, Saved, Saves
<1>8. /\ Saving(h, v)' /\ \A w \in Versions \ {v} : ~Saving(h, w)'
      /\ \A w \in Versions, g \in Handlers \ {h} : Saving(g, w)' = Saving(g, w)
      /\ \A w \in Versions : ~Saving(h, w)
  BY <1>3 DEF Saving, Saves
<1>9. Bounded'
  <2>1. Alike(v, spec)'
    BY <1>3 DEF Alike
  <2> QED BY <1>3, <1>4, <1>8, <2>1, BoundedStays DEF Bounded, Bound
<1>10. InOrder'
  <2> SUFFICES ASSUME NEW w \in Versions \ (lost' \cup crossed') PROVE Alone(w)'
    BY DEF InOrder
  <2>1. CASE w = v
    BY <1>3, <1>8, <2>1 DEF Alone
  <2>2. CASE w # v
    BY <1>3, <1>8, <2>2 DEF Alone, InOrder
  <2> QED BY <2>1, <2>2
<1>11. SavedWhenQuiet'
  BY <1>3, <1>8 DEF SavedWhenQuiet
<1>12. AdmittedHasReplay' /\ OffersWereApproved'
  BY <1>3, <1>4, AdmittedStays DEF OffersWereApproved, IsAdmitted
<1> QED BY <1>2, <1>5, <1>6, <1>7, <1>9, <1>10, <1>11, <1>12

LEMMA RegisterCandidateInv ==
  ASSUME IndInv, NEW h \in Handlers, NEW v \in Versions, NEW s \in StrategyStatus,
         NEW r \in SUBSET Digests, RegisterCandidate(h, v, s, r)
  PROVE  IndInv'
<1> DEFINE spec == [status |-> s, references |-> r]
<1>1. spec \in StrategySpec /\ s \notin Admitted /\ s # "approved"
  BY DEF RegisterCandidate, StrategySpec, Admitted
<1>2. handler[h].at \notin Saves
  BY DEF RegisterCandidate, Saves
<1> QED BY <1>1, <1>2, SaveStartsInv DEF RegisterCandidate, IndInv, TypeOK, workerVars

(* What a transition may count on.                                         *)
LEMMA MoveInv ==
  ASSUME IndInv, NEW h \in Handlers, NEW v \in Versions, NEW t \in StrategyStatus,
         handler[h].at \notin Saves, registry[v] # None, Move(h, v, t),
         t \in Admitted => HasReplay(v, registry[v]),
         UNCHANGED <<table, digest, evaluations, trading, offers, lost>>
  PROVE  IndInv'
<1> USE GovernanceAssumption, NoneAssumption
<1> DEFINE spec == [registry[v] EXCEPT !.status = t]
<1>1. registry[v] \in StrategySpec
  BY DEF IndInv, TypeOK, Slot
<1>2. spec \in StrategySpec /\ spec.references = registry[v].references /\ spec.status = t
  BY <1>1 DEF StrategySpec
<1>3. spec.references \subseteq Drawn
  BY <1>2 DEF IndInv, Holding, Held, Copies
<1>4. approvals \subseteq approvals' /\ approvals' \subseteq Versions /\ (t = "approved" => v \in approvals')
  BY DEF Move, IndInv, TypeOK
<1>5. registry' = [registry EXCEPT ![v] = spec] /\ StartSave(h, v, spec)
  BY DEF Move
<1>6. t \in Admitted => HasReplay(v, spec)
  BY <1>2 DEF HasReplay
<1> HIDE DEF spec
<1> QED BY <1>2, <1>3, <1>4, <1>5, <1>6, SaveStartsInv

LEMMA TransitionInv ==
  ASSUME IndInv, NEW h \in Handlers, NEW v \in Versions, NEW t \in StrategyStatus,
         Transition(h, v, t)
  PROVE  IndInv'
<1>1. handler[h].at \notin Saves
  BY DEF Transition, Saves
<1> QED BY <1>1, MoveInv DEF Transition, workerVars

LEMMA AdmitInv ==
  ASSUME IndInv, NEW h \in Handlers, Admit(h)
  PROVE  IndInv'
<1> DEFINE v == handler[h].version
           spec == handler[h].spec
           d == handler[h].seen
<1>1. /\ v \in Versions /\ spec # None /\ registry[v] # None
      /\ registry[v].references = spec.references /\ d \in Saved(v) \cup {None}
  BY DEF IndInv, Asking, Admit
<1>2. d \in Saved(v) /\ digest[d].version = v /\ digest[d].passes /\ d \in registry[v].references
  BY <1>1 DEF Admit, Evidenced, IndInv, Recorded
<1>3. HasReplay(v, registry[v])
  BY <1>2 DEF HasReplay
<1>4. spec.status \in StrategyStatus
  BY <1>1 DEF IndInv, TypeOK, Handler, Slot, StrategySpec
<1>5. handler[h].at \notin Saves
  BY DEF Admit, Saves
<1>6. Move(h, v, spec.status) /\ UNCHANGED <<table, digest, evaluations, trading, offers, lost>>
  BY DEF Admit, workerVars
<1> HIDE DEF v, spec
<1> QED BY <1>1, <1>3, <1>4, <1>5, <1>6, MoveInv

(* The steps of a request before and between its saves.                    *)
LEMMA RequestMoves ==
  ASSUME IndInv, NEW h \in Handlers, NEW to \in Handler,
         handler[h].at \notin Saves, to.at \notin Saves, handler' = [handler EXCEPT ![h] = to],
         UNCHANGED <<registry, table, trading, offers, approvals, lost, crossed>>,
         TypeOK', Kept, Drawn \subseteq Drawn', Hashed', Recorded',
         to.at \in {"check", "admit"} =>
           /\ to.version \in Versions /\ to.spec # None /\ registry[to.version] # None
           /\ registry[to.version].references = to.spec.references
           /\ to.at = "admit" => to.seen \in Saved(to.version)' \cup {None},
         \A d \in Drawn' \ Drawn : Alike(digest'[d].version, digest'[d].spec)
  PROVE  IndInv'
<1> USE DEF IndInv
<1>1. \A v \in Versions : Copies(v)' \subseteq Copies(v)
  BY HandlerMoves
<1>2. \A g \in Handlers : handler'[g] = IF g = h THEN to ELSE handler[g]
  BY DEF TypeOK
<1>3. \A v \in Versions, g \in Handlers : Saving(g, v)' = Saving(g, v)
  BY <1>2 DEF Saving
<1>4. Holding'
  BY <1>1, HoldingStays
<1>5. Asking'
  BY <1>2 DEF Asking, Kept
<1>6. Writing'
  BY <1>2 DEF Writing
<1>7. Bounded'
  BY <1>1, <1>3, BoundedStays DEF Bounded, Bound, Alike
<1>8. InOrder'
  BY <1>2, <1>3 DEF InOrder, Alone, Saving
<1>9. SavedWhenQuiet'
  BY <1>3 DEF SavedWhenQuiet
<1>10. AdmittedHasReplay' /\ OffersWereApproved'
  BY <1>1, AdmittedStays DEF OffersWereApproved
<1> QED BY <1>4, <1>5, <1>6, <1>7, <1>8, <1>9, <1>10

LEMMA EvaluateInv ==
  ASSUME IndInv, NEW h \in Handlers, NEW v \in Versions, NEW p \in BOOLEAN, NEW d \in Digests,
         Evaluate(h, v, p, d)
  PROVE  IndInv'
<1> USE GovernanceAssumption, NoneAssumption
<1> DEFINE content == [version |-> v, spec |-> registry[v], passes |-> p]
           to == [Idle EXCEPT !.at = "record", !.version = v, !.seen = d]
<1>1. registry[v] \in StrategySpec /\ registry[v] # None /\ registry[v].references \subseteq Drawn
  BY DEF Evaluate, IndInv, TypeOK, Slot, Holding, Held, Copies
<1>2. content \in Content /\ content.version = v /\ content.spec = registry[v]
  BY <1>1 DEF Content
<1>3. to \in Handler /\ to.at = "record" /\ to.version = v /\ to.seen = d
  BY DEF Handler, Idle, Slot
<1>4. /\ digest' = [digest EXCEPT ![d] = content] /\ Hashes(content, d)
      /\ handler' = [handler EXCEPT ![h] = to] /\ handler[h].at = "idle"
      /\ UNCHANGED <<registry, table, evaluations, trading, offers, approvals, lost, crossed>>
  BY DEF Evaluate, workerVars, history
<1> HIDE DEF content, to
<1>5. Kept /\ Drawn' = Drawn \cup {d} /\ digest'[d] = content
  BY <1>2, <1>4 DEF Kept, Drawn, Hashes, Saved, IndInv, TypeOK
<1>6. TypeOK'
  BY <1>2, <1>3, <1>4 DEF IndInv, TypeOK
<1>7. Hashed'
  <2>1. d \notin registry[v].references
    <3>1. CASE d \in Drawn
      BY <1>1, <1>2, <1>4, <3>1 DEF Hashes, IndInv, Hashed, Drawn
    <3> QED BY <1>1, <3>1
  <2> QED BY <1>1, <1>2, <1>5, <2>1 DEF IndInv, Hashed, Kept
<1>8. Recorded'
  <2>1. \A w \in Versions : Saved(w)' = Saved(w)
    BY <1>4 DEF Saved
  <2>2. \A g \in Handlers : handler'[g] = IF g = h THEN to ELSE handler[g]
    BY <1>4 DEF IndInv, TypeOK
  <2> QED BY <1>2, <1>3, <1>5, <2>1, <2>2 DEF IndInv, Recorded, Kept
<1>9. \A e \in Drawn' \ Drawn : Alike(digest'[e].version, digest'[e].spec)
  BY <1>1, <1>2, <1>5 DEF Alike
<1>10. handler[h].at \notin Saves /\ to.at \notin Saves
  BY <1>3, <1>4 DEF Saves
<1> QED BY <1>3, <1>4, <1>5, <1>6, <1>7, <1>8, <1>9, <1>10, RequestMoves

LEMMA SaveEvaluationInv ==
  ASSUME IndInv, NEW h \in Handlers, SaveEvaluation(h)
  PROVE  IndInv'
<1> USE GovernanceAssumption, NoneAssumption
<1> DEFINE d == handler[h].seen
           v == handler[h].version
<1>1. v \in Versions /\ d \in Drawn /\ digest[d].version = v
  BY DEF SaveEvaluation, IndInv, Recorded
<1>2. /\ evaluations' = IF d \in Saved(v) THEN evaluations
                        ELSE [evaluations EXCEPT ![v] = Append(@, d)]
      /\ handler' = [handler EXCEPT ![h] = Idle]
      /\ UNCHANGED <<registry, table, digest, trading, offers, approvals, lost, crossed>>
  BY DEF SaveEvaluation, workerVars, history
<1>3. Idle \in Handler /\ Idle.at = "idle"
  BY DEF Handler, Idle, Slot
<1> HIDE DEF d, v
<1>4. evaluations' \in [Versions -> Seq(Digests)]
  BY <1>1, <1>2 DEF IndInv, TypeOK, Drawn
<1>5. \A w \in Versions : Saved(w) \subseteq Saved(w)' /\ Saved(w)' \subseteq Saved(w) \cup {e \in {d} : w = v}
  <2> SUFFICES ASSUME NEW w \in Versions
               PROVE  Saved(w) \subseteq Saved(w)' /\ Saved(w)' \subseteq Saved(w) \cup {e \in {d} : w = v}
    OBVIOUS
  <2>1. CASE evaluations'[w] = evaluations[w]
    BY <2>1 DEF Saved
  <2>2. CASE evaluations'[w] # evaluations[w]
    <3>1. w = v /\ evaluations'[v] = Append(evaluations[v], d)
      BY <1>1, <1>2, <2>2 DEF IndInv, TypeOK
    <3>2. evaluations[v] \in Seq(Digests)
      BY <1>1 DEF IndInv, TypeOK
    <3>3. /\ DOMAIN evaluations[v] = 1 .. Len(evaluations[v]) /\ Len(evaluations[v]) \in Nat
          /\ DOMAIN evaluations'[v] = 1 .. Len(evaluations[v]) + 1
          /\ \A i \in 1 .. Len(evaluations[v]) : evaluations'[v][i] = evaluations[v][i]
          /\ evaluations'[v][Len(evaluations[v]) + 1] = d
      BY <3>1, <3>2
    <3> QED BY <3>1, <3>3 DEF Saved
  <2> QED BY <2>1, <2>2
<1>6. Drawn' = Drawn /\ Kept
  BY <1>2, <1>5 DEF Drawn, Kept
<1>7. TypeOK'
  BY <1>2, <1>3, <1>4 DEF IndInv, TypeOK
<1>8. Hashed'
  BY <1>2, <1>6 DEF IndInv, Hashed
<1>9. Recorded'
  BY <1>1, <1>2, <1>3, <1>5, <1>6 DEF IndInv, Recorded, TypeOK
<1>10. handler[h].at \notin Saves /\ Idle.at \notin Saves
  BY <1>3 DEF SaveEvaluation, Saves
<1> QED BY <1>2, <1>3, <1>6, <1>7, <1>8, <1>9, <1>10, RequestMoves

(* Those that evaluate nothing.                                            *)
LEMMA RequestReads ==
  ASSUME IndInv, NEW h \in Handlers, NEW to \in Handler,
         handler[h].at \notin Saves, to.at \in {"idle", "check", "admit"},
         handler' = [handler EXCEPT ![h] = to],
         UNCHANGED <<registry, table, digest, evaluations, workerVars, history>>,
         to.at \in {"check", "admit"} =>
           /\ to.version \in Versions /\ to.spec # None /\ registry[to.version] # None
           /\ registry[to.version].references = to.spec.references
           /\ to.at = "admit" => to.seen \in Saved(to.version) \cup {None}
  PROVE  IndInv'
<1>1. Kept /\ Drawn' = Drawn /\ \A v \in Versions : Saved(v)' = Saved(v)
  BY KeptUnchanged DEF Drawn, Saved
<1>2. TypeOK'
  BY DEF IndInv, TypeOK, workerVars, history
<1>3. Hashed'
  BY <1>1 DEF IndInv, Hashed
<1>4. Recorded'
  BY <1>1 DEF IndInv, Recorded, TypeOK
<1>5. to.at \notin Saves
  BY DEF Saves
<1> QED BY <1>1, <1>2, <1>3, <1>4, <1>5, RequestMoves DEF workerVars, history

LEMMA AskAdmissionInv ==
  ASSUME IndInv, NEW h \in Handlers, NEW v \in Versions, NEW t \in StrategyStatus,
         AskAdmission(h, v, t)
  PROVE  IndInv'
<1> USE GovernanceAssumption, NoneAssumption
<1> DEFINE spec == [registry[v] EXCEPT !.status = t]
           to == [Idle EXCEPT !.at = "check", !.version = v, !.spec = spec]
<1>1. registry[v] \in StrategySpec /\ registry[v] # None
  BY DEF AskAdmission, IndInv, TypeOK, Slot
<1>2. spec \in StrategySpec /\ spec.references = registry[v].references /\ spec # None
  BY <1>1 DEF StrategySpec
<1> HIDE DEF spec
<1>3. to \in Handler /\ to.at = "check" /\ to.version = v /\ to.spec = spec
  BY <1>2 DEF Handler, Idle, Slot
<1>4. /\ handler' = [handler EXCEPT ![h] = to] /\ handler[h].at \notin Saves
      /\ UNCHANGED <<registry, table, digest, evaluations, workerVars, history>>
  BY DEF AskAdmission, spec, Saves
<1> HIDE DEF to
<1> QED BY <1>1, <1>2, <1>3, <1>4, RequestReads

LEMMA ReadEvaluationInv ==
  ASSUME IndInv, NEW h \in Handlers, ReadEvaluation(h)
  PROVE  IndInv'
<1> DEFINE v == handler[h].version
           to == [handler[h] EXCEPT !.at = "admit", !.seen = Latest(v)]
<1>1. /\ v \in Versions /\ handler[h].spec # None /\ registry[v] # None
      /\ registry[v].references = handler[h].spec.references
  BY DEF ReadEvaluation, IndInv, Asking
<1>2. Latest(v) \in Saved(v) \cup {None} /\ Saved(v) \subseteq Digests
  <2>1. evaluations[v] \in Seq(Digests)
    BY <1>1 DEF IndInv, TypeOK
  <2>2. CASE evaluations[v] # <<>>
    <3>1. Len(evaluations[v]) \in DOMAIN evaluations[v]
      BY <2>1, <2>2
    <3> QED BY <2>1, <2>2, <3>1 DEF Latest, Saved
  <2>3. CASE evaluations[v] = <<>>
    BY <2>1, <2>3 DEF Latest, Saved
  <2> QED BY <2>2, <2>3
<1>3. handler[h] \in Handler /\ handler[h].at = "check"
  BY DEF IndInv, TypeOK, ReadEvaluation
<1>4. to \in Handler /\ to.at = "admit" /\ to.version = v /\ to.spec = handler[h].spec
                     /\ to.seen = Latest(v)
  BY <1>2, <1>3 DEF Handler
<1>5. /\ handler' = [handler EXCEPT ![h] = to] /\ handler[h].at \notin Saves
      /\ UNCHANGED <<registry, table, digest, evaluations, workerVars, history>>
  BY <1>3 DEF ReadEvaluation, Saves
<1> HIDE DEF v, to
<1> QED BY <1>1, <1>2, <1>4, <1>5, RequestReads

LEMMA RefuseInv ==
  ASSUME IndInv, NEW h \in Handlers, Refuse(h)
  PROVE  IndInv'
<1>1. Idle \in Handler /\ Idle.at = "idle"
  BY DEF Handler, Idle, Slot
<1>2. handler[h].at \notin Saves
  BY DEF Refuse, Saves
<1> QED BY <1>1, <1>2, RequestReads DEF Refuse

-----------------------------------------------------------------------------
(* The saves.                                                              *)

LEMMA LoadRowInv ==
  ASSUME IndInv, NEW h \in Handlers, LoadRow(h)
  PROVE  IndInv'
<1> USE DEF IndInv
<1> DEFINE v == handler[h].version
           at == IF table[v] = None THEN "insert"
                 ELSE IF table[v] = handler[h].spec THEN "skip" ELSE "update"
           to == [handler[h] EXCEPT !.at = at]
<1>1. handler[h] \in Handler /\ handler[h].at = "load"
  BY DEF TypeOK, LoadRow
<1>2. /\ to \in Handler /\ to.at = at /\ to.version = v /\ to.spec = handler[h].spec
      /\ to.at \in {"insert", "skip", "update"}
  BY <1>1 DEF Handler
<1>3. /\ handler' = [handler EXCEPT ![h] = to]
      /\ UNCHANGED <<registry, table, digest, evaluations, trading, offers, approvals, lost, crossed>>
  BY DEF LoadRow, workerVars, history
<1>4. /\ to.at = "skip" => table[v] = to.spec
      /\ to.at \in {"update", "skip"} => table[v] # None
  BY <1>2
<1> HIDE DEF v, at, to
<1>5. \A w \in Versions : Copies(w)' \subseteq Copies(w)
  BY <1>1, <1>2, <1>3, HandlerMoves DEF Saves, v
<1>6. \A g \in Handlers : handler'[g] = IF g = h THEN to ELSE handler[g]
  BY <1>3 DEF TypeOK
<1>7. \A w \in Versions, g \in Handlers : Saving(g, w)' = Saving(g, w)
  BY <1>1, <1>2, <1>6 DEF Saving, Saves, v
<1>8. Kept /\ Drawn' = Drawn
  BY <1>3, KeptUnchanged DEF Drawn
<1>9. TypeOK'
  BY <1>2, <1>3 DEF TypeOK
<1>10. Holding'
  BY <1>3, <1>5, <1>8, HoldingStays
<1>11. Hashed' /\ Recorded'
  BY <1>2, <1>3, <1>6, <1>8 DEF Hashed, Recorded, Saved
<1>12. Asking' /\ Writing'
  BY <1>1, <1>2, <1>3, <1>4, <1>6 DEF Asking, Writing, Saved, Saves, v
<1>13. Bounded'
  BY <1>3, <1>5, <1>7, <1>8, BoundedStays DEF Bounded, Bound
<1>14. InOrder'
  BY <1>1, <1>2, <1>3, <1>4, <1>6, <1>7 DEF InOrder, Alone, Saving, v
<1>15. SavedWhenQuiet'
  BY <1>3, <1>7 DEF SavedWhenQuiet
<1>16. AdmittedHasReplay' /\ OffersWereApproved'
  BY <1>3, <1>5, <1>8, AdmittedStays DEF OffersWereApproved
<1> QED BY <1>9, <1>10, <1>11, <1>12, <1>13, <1>14, <1>15, <1>16

LEMMA CommitRowInv ==
  ASSUME IndInv, NEW h \in Handlers, CommitRow(h)
  PROVE  IndInv'
<1> USE GovernanceAssumption, NoneAssumption DEF IndInv
<1> DEFINE v == handler[h].version
           spec == handler[h].spec
<1>1. /\ v \in Versions /\ spec \in StrategySpec /\ spec # None /\ Saving(h, v)
      /\ handler[h].at \in {"update", "skip"} => table[v] # None
  BY DEF CommitRow, Writing, Saves, Saving, TypeOK, Handler, Slot
<1>2. /\ handler' = [handler EXCEPT ![h] = Idle]
      /\ UNCHANGED <<registry, digest, evaluations, trading, offers, approvals, lost, crossed>>
  BY DEF CommitRow, workerVars, history
<1> HIDE DEF spec
<1>3. /\ \A w \in Versions \ {v} : table'[w] = table[w]
      /\ table' \in [Versions -> Slot] /\ table'[v] # None
      /\ \/ table'[v] = spec
         \/ handler[h].at = "skip" /\ table'[v] = table[v]
  <2>1. CASE handler[h].at \in {"insert", "update"} /\ table' = [table EXCEPT ![v] = spec]
    <3>1. spec \in Slot
      BY <1>1 DEF Slot
    <3>2. table'[v] = spec /\ \A w \in Versions \ {v} : table'[w] = table[w]
      BY <1>1, <2>1 DEF TypeOK
    <3>3. table' \in [Versions -> Slot]
      BY <2>1, <3>1 DEF TypeOK
    <3> QED BY <1>1, <3>2, <3>3
  <2>2. CASE handler[h].at = "skip" /\ table' = table
    BY <1>1, <2>2 DEF TypeOK
  <2> QED BY <2>1, <2>2 DEF CommitRow, spec
<1>4. /\ Idle.at = "idle" /\ Idle \in Handler
      /\ \A g \in Handlers : handler'[g] = IF g = h THEN Idle ELSE handler[g]
  BY <1>2 DEF Idle, Handler, Slot, TypeOK
<1> HIDE DEF v
<1>5. \A w \in Versions, g \in Handlers : Saving(g, w)' = (Saving(g, w) /\ g # h)
  BY <1>4 DEF Saving, Saves
<1>6. \A w \in Versions : Copies(w)' \subseteq Copies(w)
  <2>1. spec \in Copies(v)
    BY <1>1 DEF Copies, spec
  <2>2. \A w \in Versions : table'[w] \in Copies(w)
    BY <1>3, <2>1 DEF Copies
  <2> QED BY <1>2, <1>4, <1>5, <2>2 DEF Copies
<1>7. Kept /\ Drawn' = Drawn
  BY <1>2, KeptUnchanged DEF Drawn
<1>8. TypeOK'
  BY <1>2, <1>3, <1>4 DEF TypeOK
<1>9. Holding'
  BY <1>2, <1>6, <1>7, HoldingStays
<1>10. Hashed' /\ Recorded'
  BY <1>2, <1>4, <1>7 DEF Hashed, Recorded, Saved
<1>11. Asking' /\ Writing'
  <2>1. Asking'
    BY <1>2, <1>4 DEF Asking, Saved
  <2>2. \A w \in Versions : table[w] # None => table'[w] # None
    BY <1>3
  <2>3. Writing'
    BY <1>4, <2>2 DEF Writing, Saves
  <2> QED BY <2>1, <2>3
<1>12. Bounded'
  BY <1>2, <1>3, <1>5, <1>6, <1>7, <1>1, BoundedStays DEF Bounded, Bound, Saving
<1>13. InOrder'
  BY <1>1, <1>2, <1>3, <1>4, <1>5 DEF InOrder, Alone, Saving
<1>14. SavedWhenQuiet'
  <2> SUFFICES ASSUME NEW w \in Versions \ (lost \cup crossed), \A g \in Handlers : ~Saving(g, w)'
               PROVE  registry[w] = table'[w] \/ (registry[w] = Seeded[w] /\ table'[w] = None)
    BY <1>2 DEF SavedWhenQuiet
  <2>1. CASE w = v
    BY <1>1, <1>3, <2>1 DEF InOrder, Alone, spec
  <2>2. CASE w # v
    <3>1. ~Saving(h, w)
      BY <1>1, <2>2 DEF Saving, v
    <3> QED BY <1>3, <1>5, <2>2, <3>1 DEF SavedWhenQuiet
  <2> QED BY <2>1, <2>2
<1>15. AdmittedHasReplay' /\ OffersWereApproved'
  BY <1>2, <1>6, <1>7, AdmittedStays DEF OffersWereApproved
<1> QED BY <1>8, <1>9, <1>10, <1>11, <1>12, <1>13, <1>14, <1>15

LEMMA LoseSaveInv ==
  ASSUME IndInv, NEW h \in Handlers, LoseSave(h)
  PROVE  IndInv'
<1> USE DEF IndInv
<1> DEFINE v == handler[h].version
<1>1. v \in Versions /\ Saving(h, v)
  BY DEF LoseSave, Writing, Saving
<1>2. /\ handler' = [handler EXCEPT ![h] = Idle] /\ lost' = lost \cup {v}
      /\ UNCHANGED <<registry, table, digest, evaluations, trading, offers, approvals, crossed>>
  BY DEF LoseSave, workerVars
<1>3. /\ Idle.at = "idle" /\ Idle \in Handler
      /\ \A g \in Handlers : handler'[g] = IF g = h THEN Idle ELSE handler[g]
  BY <1>2 DEF Idle, Handler, Slot, TypeOK
<1>4. \A w \in Versions, g \in Handlers : Saving(g, w)' = (Saving(g, w) /\ g # h)
  BY <1>3 DEF Saving, Saves
<1>5. \A w \in Versions \ {v} : ~Saving(h, w)
  BY DEF Saving
<1> HIDE DEF v
<1>6. \A w \in Versions : Copies(w)' \subseteq Copies(w)
  BY <1>2, <1>3, HandlerMoves DEF Saves
<1>7. Kept /\ Drawn' = Drawn
  BY <1>2, KeptUnchanged DEF Drawn
<1>8. TypeOK'
  BY <1>1, <1>2, <1>3 DEF TypeOK
<1>9. Holding'
  BY <1>2, <1>6, <1>7, HoldingStays
<1>10. Hashed' /\ Recorded'
  BY <1>2, <1>3, <1>7 DEF Hashed, Recorded, Saved
<1>11. Asking' /\ Writing'
  BY <1>2, <1>3 DEF Asking, Writing, Saved, Saves
<1>12. Bounded'
  <2> SUFFICES ASSUME NEW w \in Versions \ lost'
               PROVE  registry'[w] # None => \/ table'[w] # None \/ w \in Seeds
                                             \/ \E g \in Handlers : Saving(g, w)'
    BY <1>2, <1>6, <1>7, BoundedStays
  <2>1. w # v /\ Bound(w)
    BY <1>2 DEF Bounded
  <2> QED BY <1>2, <1>4, <1>5, <2>1 DEF Bound
<1>13. InOrder'
  BY <1>2, <1>3, <1>4 DEF InOrder, Alone, Saving
<1>14. SavedWhenQuiet'
  BY <1>2, <1>4, <1>5 DEF SavedWhenQuiet
<1>15. AdmittedHasReplay' /\ OffersWereApproved'
  BY <1>2, <1>6, <1>7, AdmittedStays DEF OffersWereApproved
<1> QED BY <1>8, <1>9, <1>10, <1>11, <1>12, <1>13, <1>14, <1>15

LEMMA SeedsTyped ==
  ASSUME NEW v \in Versions
  PROVE  /\ Seeded[v] \in Slot
         /\ Seeded[v] # None => /\ v \in Seeds /\ Seeded[v].references = {}
                                /\ Seeded[v].status = "quarantined"
         /\ v \in Seeds => Seeded[v] # None
<1>1. [status |-> "quarantined", references |-> {}] \in StrategySpec
  BY DEF StrategySpec, StrategyStatus
<1> QED BY <1>1, NoneAssumption DEF Seeded, Slot

LEMMA RestoredTyped ==
  ASSUME TypeOK, NEW v \in Versions
  PROVE  /\ Restored[v] = IF table[v] # None THEN table[v] ELSE Seeded[v]
         /\ Restored \in [Versions -> Slot]
<1>1. \A w \in Versions : Restored[w] = IF table[w] # None THEN table[w] ELSE Seeded[w]
  BY DEF Restored
<1>2. Restored = [w \in Versions |-> Restored[w]]
  BY DEF Restored
<1>3. \A w \in Versions : Restored[w] \in Slot
  BY <1>1, SeedsTyped DEF TypeOK
<1> QED BY <1>1, <1>2, <1>3

LEMMA RestartInv ==
  ASSUME IndInv, Restart
  PROVE  IndInv'
<1> USE GovernanceAssumption DEF IndInv
<1>1. /\ registry' = Restored /\ handler' = [h \in Handlers |-> Idle]
      /\ lost' = lost \cup {v \in Versions : \E h \in Handlers : Saving(h, v)}
      /\ UNCHANGED <<table, digest, evaluations, trading, offers, approvals, crossed>>
  BY DEF Restart, workerVars
<1>2. Idle.at = "idle" /\ Idle \in Handler
  BY DEF Idle, Handler, Slot
<1>3. \A v \in Versions : registry'[v] = IF table[v] # None THEN table[v] ELSE Seeded[v]
  BY <1>1, RestoredTyped
<1>4. \A v \in Versions, h \in Handlers : ~Saving(h, v)'
  BY <1>1, <1>2 DEF Saving, Saves
<1>5. \A v \in Versions : Copies(v)' \subseteq Copies(v) \cup {registry'[v]}
  BY <1>1, <1>3, <1>4 DEF Copies
<1>6. Kept /\ Drawn' = Drawn
  BY <1>1, KeptUnchanged DEF Drawn
<1>7. TypeOK'
  <2>1. registry' \in [Versions -> Slot]
    <3>1. CASE Versions = {}
      BY <1>1, <3>1 DEF Restored
    <3>2. CASE Versions # {}
      BY <1>1, <3>2, RestoredTyped
    <3> QED BY <3>1, <3>2
  <2> QED BY <1>1, <1>2, <2>1 DEF TypeOK
<1>8. Holding'
  <2>1. \A v \in Versions : Held(v, Seeded[v])'
    BY SeedsTyped DEF Held, Seeded
  <2>2. \A v \in Versions : registry'[v] \in Copies(v) \cup {Seeded[v]}
    BY <1>3 DEF Copies
  <2> QED BY <1>1, <1>5, <1>6, <2>1, <2>2, HoldingStays
<1>9. Hashed' /\ Recorded'
  BY <1>1, <1>2, <1>6 DEF Hashed, Recorded, Saved
<1>10. Asking' /\ Writing'
  BY <1>1, <1>2 DEF Asking, Writing, Saves
<1>11. Bounded'
  <2> SUFFICES ASSUME NEW v \in Versions \ lost'
               PROVE  /\ registry[v] # None => /\ registry'[v] # None
                                               /\ registry'[v].references = registry[v].references
                      /\ \A spec \in Copies(v)' \ Copies(v) : Alike(v, spec)' \/ spec = None
                      /\ registry'[v] # None => table'[v] # None \/ v \in Seeds
    BY <1>1, <1>6, BoundedStays
  <2>1. Bound(v) /\ \A h \in Handlers : ~Saving(h, v)
    BY <1>1 DEF Bounded
  <2>2. table[v] # None => Alike(v, table[v])
    BY <2>1 DEF Bound, Copies
  <2>3. CASE table[v] # None
    <3>1. registry'[v] = table[v] /\ table[v] \in Copies(v)
      BY <1>3, <2>3 DEF Copies
    <3> QED BY <1>1, <1>5, <2>2, <2>3, <3>1 DEF Alike
  <2>4. CASE table[v] = None
    BY <1>1, <1>3, <1>5, <2>1, <2>4, SeedsTyped DEF Alike, Bound
  <2> QED BY <2>3, <2>4
<1>12. InOrder'
  BY <1>4 DEF InOrder, Alone
<1>13. SavedWhenQuiet'
  BY <1>1, <1>3 DEF SavedWhenQuiet, Seeded
<1>14. AdmittedHasReplay' /\ OffersWereApproved'
  <2>1. \A v \in Versions : ~IsAdmitted(Seeded[v])
    BY SeedsTyped DEF IsAdmitted, Admitted
  <2>2. \A v \in Versions : registry'[v] \in Copies(v) \cup {Seeded[v]}
    BY <1>3 DEF Copies
  <2> QED BY <1>1, <1>5, <1>6, <2>1, <2>2, AdmittedStays DEF OffersWereApproved
<1> QED BY <1>7, <1>8, <1>9, <1>10, <1>11, <1>12, <1>13, <1>14

-----------------------------------------------------------------------------
(* The market worker.                                                      *)

(* The analysis holds what it found in the table.                          *)
LEMMA StartAnalysisInv ==
  ASSUME IndInv, StartAnalysis
  PROVE  IndInv'
<1> USE GovernanceAssumption, NoneAssumption DEF IndInv
<1>1. PICK v \in Versions :
        /\ Restored[v] # None /\ Restored[v].status = "approved"
        /\ trading' = [version |-> v, spec |-> Restored[v]]
  BY DEF StartAnalysis, Approved
<1>2. /\ trading = NoTrade
      /\ UNCHANGED <<registry, handler, table, digest, evaluations, offers, approvals, lost, crossed>>
  BY DEF StartAnalysis, apiVars, history
<1>3. Restored[v] = table[v] /\ Restored[v] \in StrategySpec
  BY <1>1, RestoredTyped, SeedsTyped DEF TypeOK, Slot
<1>4. trading' \in Trade /\ trading'.version = v /\ trading'.spec = table[v]
  BY <1>1, <1>3 DEF Trade
<1>5. \A w \in Versions, h \in Handlers : Saving(h, w)' = Saving(h, w)
  BY <1>2 DEF Saving
<1>6. \A w \in Versions : Copies(w)' \subseteq Copies(w)
  BY <1>2, <1>4, <1>5 DEF Copies
<1>7. Kept /\ Drawn' = Drawn
  BY <1>2, KeptUnchanged DEF Drawn
<1>8. TypeOK'
  BY <1>2, <1>4 DEF TypeOK
<1>9. Holding'
  BY <1>1, <1>2, <1>3, <1>4, <1>6, <1>7 DEF Holding, Held
<1>10. Hashed' /\ Recorded' /\ Asking' /\ Writing'
  BY <1>2, <1>7 DEF Hashed, Recorded, Asking, Writing, Saved
<1>11. Bounded'
  BY <1>2, <1>5, <1>6, <1>7, BoundedStays DEF Bounded, Bound
<1>12. InOrder' /\ SavedWhenQuiet'
  BY <1>2, <1>5 DEF InOrder, Alone, SavedWhenQuiet
<1>13. AdmittedHasReplay' /\ OffersWereApproved'
  BY <1>2, <1>6, <1>7, AdmittedStays DEF OffersWereApproved
<1> QED BY <1>8, <1>9, <1>10, <1>11, <1>12, <1>13

LEMMA OfferInv ==
  ASSUME IndInv, Offer
  PROVE  IndInv'
<1> USE DEF IndInv
<1>1. /\ offers' = offers \cup {trading.version} /\ trading # NoTrade
      /\ UNCHANGED <<registry, handler, table, digest, evaluations, trading, approvals, lost, crossed>>
  BY DEF Offer, apiVars, history
<1>2. trading.version \in Versions /\ trading.spec \in StrategySpec
  BY <1>1 DEF TypeOK, Trade
<1>3. trading.version \in approvals
  BY <1>1, <1>2, NoneAssumption DEF Holding, Held, Copies
<1>4. \A w \in Versions, h \in Handlers : Saving(h, w)' = Saving(h, w)
  BY <1>1 DEF Saving
<1>5. \A w \in Versions : Copies(w)' \subseteq Copies(w)
  BY <1>1, <1>4 DEF Copies
<1>6. Kept /\ Drawn' = Drawn
  BY <1>1, KeptUnchanged DEF Drawn
<1>7. TypeOK'
  BY <1>1, <1>2 DEF TypeOK
<1>8. Holding'
  BY <1>1, <1>5, <1>6, HoldingStays
<1>9. Hashed' /\ Recorded' /\ Asking' /\ Writing'
  BY <1>1, <1>6 DEF Hashed, Recorded, Asking, Writing, Saved
<1>10. Bounded'
  BY <1>1, <1>4, <1>5, <1>6, BoundedStays DEF Bounded, Bound
<1>11. InOrder' /\ SavedWhenQuiet'
  BY <1>1, <1>4 DEF InOrder, Alone, SavedWhenQuiet
<1>12. AdmittedHasReplay' /\ OffersWereApproved'
  BY <1>1, <1>3, <1>5, <1>6, AdmittedStays DEF OffersWereApproved
<1> QED BY <1>7, <1>8, <1>9, <1>10, <1>11, <1>12

LEMMA EndAnalysisInv ==
  ASSUME IndInv, EndAnalysis
  PROVE  IndInv'
<1> USE DEF IndInv
<1>1. /\ trading' = NoTrade
      /\ UNCHANGED <<registry, handler, table, digest, evaluations, offers, approvals, lost, crossed>>
  BY DEF EndAnalysis, apiVars, history
<1>2. \A w \in Versions, h \in Handlers : Saving(h, w)' = Saving(h, w)
  BY <1>1 DEF Saving
<1>3. \A w \in Versions : Copies(w)' \subseteq Copies(w)
  BY <1>1, <1>2, GovernanceAssumption DEF Copies, NoTrade
<1>4. Kept /\ Drawn' = Drawn
  BY <1>1, KeptUnchanged DEF Drawn
<1>5. TypeOK'
  BY <1>1 DEF TypeOK
<1>6. Holding'
  BY <1>1, <1>3, <1>4 DEF Holding, Held
<1>7. Hashed' /\ Recorded' /\ Asking' /\ Writing'
  BY <1>1, <1>4 DEF Hashed, Recorded, Asking, Writing, Saved
<1>8. Bounded'
  BY <1>1, <1>2, <1>3, <1>4, BoundedStays DEF Bounded, Bound
<1>9. InOrder' /\ SavedWhenQuiet'
  BY <1>1, <1>2 DEF InOrder, Alone, SavedWhenQuiet
<1>10. AdmittedHasReplay' /\ OffersWereApproved'
  BY <1>1, <1>3, <1>4, AdmittedStays DEF OffersWereApproved
<1> QED BY <1>5, <1>6, <1>7, <1>8, <1>9, <1>10

-----------------------------------------------------------------------------
(* The theorems.                                                           *)

LEMMA InitInv == Init => IndInv
<1> SUFFICES ASSUME Init PROVE IndInv
  OBVIOUS
<1> USE GovernanceAssumption, NoneAssumption
<1>1. /\ \A v \in Versions : Copies(v) \subseteq {Seeded[v], None} /\ Saved(v) = {}
      /\ Drawn = {} /\ Idle.at = "idle" /\ Idle \in Handler
  BY DEF Init, Copies, Saved, Drawn, Saving, Saves, Idle, Handler, Slot, NoTrade
<1>2. TypeOK
  <2>1. registry \in [Versions -> Slot]
    BY SeedsTyped DEF Init, Seeded
  <2> QED BY <1>1, <2>1 DEF Init, TypeOK, Slot
<1>3. Holding /\ Hashed /\ Recorded
  BY <1>1, SeedsTyped DEF Init, Holding, Held, Hashed, Recorded
<1>4. Asking /\ Writing /\ InOrder
  BY <1>1 DEF Init, Asking, Writing, InOrder, Alone, Saving, Saves
<1>5. Bounded
  BY <1>1, SeedsTyped DEF Init, Bounded, Bound, Alike
<1>6. AdmittedHasReplay /\ OffersWereApproved /\ SavedWhenQuiet
  BY <1>1, SeedsTyped DEF Init, AdmittedHasReplay, IsAdmitted, Admitted, OffersWereApproved, SavedWhenQuiet
<1> QED BY <1>2, <1>3, <1>4, <1>5, <1>6 DEF IndInv

LEMMA NextInv == IndInv /\ [Next]_vars => IndInv'
<1> SUFFICES ASSUME IndInv, [Next]_vars PROVE IndInv'
  OBVIOUS
<1>1. ASSUME NEW h \in Handlers, Request(h) PROVE IndInv'
  BY <1>1, RegisterCandidateInv, EvaluateInv, TransitionInv, AskAdmissionInv, SaveEvaluationInv,
     ReadEvaluationInv, AdmitInv, RefuseInv, LoadRowInv, CommitRowInv, LoseSaveInv DEF Request
<1>2. CASE Restart
  BY <1>2, RestartInv
<1>3. CASE Worker
  BY <1>3, StartAnalysisInv, OfferInv, EndAnalysisInv DEF Worker
<1>4. CASE UNCHANGED vars
  <2>1. /\ UNCHANGED <<registry, table, digest, evaluations, handler, trading, offers, approvals>>
        /\ UNCHANGED <<lost, crossed>>
    BY <1>4 DEF vars
  <2>2. /\ \A v \in Versions : Copies(v)' = Copies(v) /\ Saved(v)' = Saved(v)
        /\ \A v \in Versions, h \in Handlers : Saving(h, v)' = Saving(h, v)
        /\ Drawn' = Drawn
    BY <2>1 DEF Copies, Saved, Saving, Drawn
  <2>3. (TypeOK /\ Holding /\ Hashed /\ Recorded /\ Asking /\ Writing)'
    BY <2>1, <2>2 DEF IndInv, TypeOK, Holding, Held, Hashed, Recorded, Asking, Writing
  <2>4. (Bounded /\ InOrder)'
    BY <2>1, <2>2 DEF IndInv, Bounded, Bound, Alike, InOrder, Alone
  <2>5. (AdmittedHasReplay /\ OffersWereApproved /\ SavedWhenQuiet)'
    BY <2>1, <2>2 DEF IndInv, AdmittedHasReplay, HasReplay, OffersWereApproved, SavedWhenQuiet
  <2> QED BY <2>3, <2>4, <2>5 DEF IndInv
<1> QED BY <1>1, <1>2, <1>3, <1>4 DEF Next

(* Every reachable state of the governance of strategies is described by   *)
(* the invariant: copies of a version agree on its references while its    *)
(* saves succeed, hashes name only what was hashed before.                 *)
THEOREM Invariance == Spec => []IndInv
  BY InitInv, NextInv, PTL DEF Spec

(* Registries, table, evaluations, requests and analysis keep their types. *)
THEOREM TypeCorrect == Spec => []TypeOK
<1>1. IndInv => TypeOK
  BY DEF IndInv
<1> QED BY <1>1, Invariance, PTL

(* transition_strategy and what follows it: an admitted version refers,    *)
(* wherever a copy of it is, to a saved replay of its own that passed.     *)
THEOREM AdmittedOnReplay == Spec => []AdmittedHasReplay
<1>1. IndInv => AdmittedHasReplay
  BY DEF IndInv
<1> QED BY <1>1, Invariance, PTL

(* analyze_scan trades on no version that no operator has approved.        *)
THEOREM OffersApproved == Spec => []OffersWereApproved
<1>1. IndInv => OffersWereApproved
  BY DEF IndInv
<1> QED BY <1>1, Invariance, PTL

(* save_strategy after each change of the registry: memory and table agree *)
(* where saves neither fail nor overlap.                                   *)
THEOREM QuietIsSaved == Spec => []SavedWhenQuiet
<1>1. IndInv => SavedWhenQuiet
  BY DEF IndInv
<1> QED BY <1>1, Invariance, PTL

(* transition_strategy admits no version all of whose saves succeeded: the *)
(* replay it would have to refer to has hashed its references.             *)
THEOREM NoAdmissionUnlessLost == Spec => []AdmissionNeedsLostSave
<1>1. IndInv => AdmissionNeedsLostSave
  <2> SUFFICES ASSUME IndInv, NEW v \in Versions, v \notin lost,
                      NEW spec \in {registry[v], table[v]}, IsAdmitted(spec)
               PROVE  FALSE
    BY DEF AdmissionNeedsLostSave
  <2>1. spec \in Copies(v) \ {None}
    BY DEF Copies, IsAdmitted
  <2>2. PICK d \in Saved(v) : d \in spec.references /\ digest[d].version = v
    BY <2>1 DEF IndInv, AdmittedHasReplay, HasReplay
  <2>3. d \in Drawn
    BY <2>2 DEF IndInv, Recorded
  <2>4. digest[d].spec.references = registry[v].references /\ spec.references = registry[v].references
    BY <2>1, <2>2, <2>3 DEF IndInv, Bounded, Bound, Alike
  <2> QED BY <2>2, <2>3, <2>4 DEF IndInv, Hashed
<1> QED BY <1>1, Invariance, PTL

=============================================================================
