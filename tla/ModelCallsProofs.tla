-------------------------- MODULE ModelCallsProofs --------------------------
(***************************************************************************)
(* Proofs about research runs and learned preferences, for any number of   *)
(* executions, attempts, feedback handlers and strategy families.          *)
(***************************************************************************)
EXTENDS MCModelCalls, TLAPS

-----------------------------------------------------------------------------
(* Feedback that nothing disturbs.                                         *)

(* An undisturbed handler is the only one at work, and what it has done    *)
(* rests on the observations that are there.                               *)
Undisturbed ==
  \A h \in Handlers : feedback[h].undisturbed =>
    /\ \A g \in Handlers \ {h} : feedback[g].at = "idle"
    /\ feedback[h].at \in {"reset", "save"} => feedback[h].inferred = Inferred(observed)
    /\ feedback[h].at = "save" => \A f \in Families : learned[f] = 0

AloneIsCurrent ==
  alone => /\ \A h \in Handlers : feedback[h].at = "idle"
           /\ \A f \in Families : learned[f] = IF f \in Inferred(observed) THEN 1 ELSE 0

LearnInv == LearnTypeOK /\ Undisturbed /\ AloneIsCurrent

LEMMA LearnInitInv == LearnInit => LearnInv
<1> SUFFICES ASSUME LearnInit PROVE LearnInv
  OBVIOUS
<1>1. 0 \in 0 .. MaxRows /\ Waiting \in Feedback
  BY LearningAssumption DEF Waiting, Feedback
<1>2. LearnTypeOK
  BY <1>1 DEF LearnInit, LearnTypeOK
<1>3. Undisturbed /\ AloneIsCurrent
  BY DEF LearnInit, Undisturbed, AloneIsCurrent, Waiting
<1> QED BY <1>2, <1>3 DEF LearnInv

LEMMA DisturbedType ==
  ASSUME LearnTypeOK
  PROVE  /\ Disturbed \in [Handlers -> Feedback]
         /\ \A h \in Handlers : /\ ~Disturbed[h].undisturbed
                                /\ Disturbed[h].at = feedback[h].at
  BY DEF LearnTypeOK, Disturbed, Feedback

(* The investor's own hand: nobody at work stays undisturbed.              *)
LEMMA ByHandInv ==
  ASSUME LearnInv, feedback' = Disturbed, alone' = FALSE,
         observed' \in [Observations -> 0 .. MaxRows], learned' \in [Families -> 0 .. MaxRows]
  PROVE  LearnInv'
  BY DisturbedType DEF LearnInv, LearnTypeOK, Undisturbed, AloneIsCurrent

LEMMA LearnNextInv ==
  ASSUME LearnInv, LearnNext
  PROVE  LearnInv'
<1> USE LearningAssumption DEF LearnInv
<1>1. ASSUME NEW h \in Handlers, NEW o \in Observations, Remember(h, o) PROVE LearnInv'
  <2> DEFINE new == [Waiting EXCEPT !.at = "list",
                                    !.undisturbed = \A g \in Handlers : feedback[g].at = "idle"]
  <2>1. /\ feedback' = [Disturbed EXCEPT ![h] = new] /\ observed' = [observed EXCEPT ![o] = @ + 1]
        /\ alone' = FALSE /\ learned' = learned /\ observed[o] < MaxRows
    BY <1>1 DEF Remember
  <2>2. /\ new \in Feedback /\ new.at = "list"
        /\ new.undisturbed => \A g \in Handlers : feedback[g].at = "idle"
    BY DEF Waiting, Feedback
  <2> HIDE DEF new
  <2>3. observed' \in [Observations -> 0 .. MaxRows]
    BY <2>1 DEF LearnTypeOK
  <2>4. LearnTypeOK'
    BY <2>1, <2>2, <2>3, DisturbedType DEF LearnTypeOK
  <2>5. \A g \in Handlers : feedback'[g] = IF g = h THEN new ELSE Disturbed[g]
    BY <2>1, DisturbedType
  <2>6. Undisturbed'
    BY <2>2, <2>5, DisturbedType DEF Undisturbed
  <2>7. AloneIsCurrent'
    BY <2>1 DEF AloneIsCurrent
  <2> QED BY <2>4, <2>6, <2>7
<1>2. ASSUME NEW h \in Handlers, ListMemories(h) PROVE LearnInv'
  <2>1. Inferred(observed) \in SUBSET Families
    BY DEF Inferred
  <2>2. /\ feedback' = [feedback EXCEPT ![h] = [feedback[h] EXCEPT !.at = "reset",
                                                               !.inferred = Inferred(observed)]]
        /\ feedback[h].at = "list" /\ UNCHANGED <<observed, learned, alone>>
    BY <1>2 DEF ListMemories, LearnTypeOK, Feedback
  <2>3. LearnTypeOK'
    BY <2>1, <2>2 DEF LearnTypeOK, Feedback
  <2>4. Undisturbed'
    BY <2>1, <2>2 DEF Undisturbed, LearnTypeOK, Feedback
  <2>5. AloneIsCurrent'
    BY <2>2 DEF AloneIsCurrent
  <2> QED BY <2>3, <2>4, <2>5
<1>3. ASSUME NEW h \in Handlers, ResetLearned(h) PROVE LearnInv'
  <2>1. /\ learned' = [f \in Families |-> 0] /\ feedback[h].at = "reset"
        /\ feedback' = [feedback EXCEPT ![h].at = "save"] /\ UNCHANGED <<observed, alone>>
    BY <1>3 DEF ResetLearned, Cleared
  <2>2. LearnTypeOK'
    BY <2>1 DEF LearnTypeOK, Feedback
  <2>3. Undisturbed'
    BY <2>1 DEF Undisturbed, LearnTypeOK, Feedback
  <2>4. AloneIsCurrent'
    BY <2>1 DEF AloneIsCurrent
  <2> QED BY <2>2, <2>3, <2>4
<1>4. ASSUME NEW h \in Handlers, SaveLearned(h) PROVE LearnInv'
  <2>1. /\ feedback[h].at = "save" /\ feedback' = [feedback EXCEPT ![h] = Waiting]
        /\ \A f \in feedback[h].inferred : learned[f] < MaxRows
        /\ learned' = [f \in Families |-> IF f \in feedback[h].inferred THEN learned[f] + 1
                                          ELSE learned[f]]
        /\ alone' = feedback[h].undisturbed /\ UNCHANGED observed
    BY <1>4 DEF SaveLearned
  <2>2. Waiting \in Feedback /\ Waiting.at = "idle" /\ ~Waiting.undisturbed
    BY DEF Waiting, Feedback
  <2>3. learned' \in [Families -> 0 .. MaxRows]
    BY <2>1 DEF LearnTypeOK
  <2>4. LearnTypeOK'
    <3>1. alone' \in BOOLEAN
      BY <2>1 DEF LearnTypeOK, Feedback
    <3> QED BY <2>1, <2>2, <2>3, <3>1 DEF LearnTypeOK
  <2>5. \A g \in Handlers : feedback'[g] = IF g = h THEN Waiting ELSE feedback[g]
    BY <2>1 DEF LearnTypeOK
  <2>6. Undisturbed'
    BY <2>1, <2>2, <2>5 DEF Undisturbed
  <2>7. AloneIsCurrent'
    <3>1. CASE feedback[h].undisturbed
      <4>1. /\ feedback[h].inferred = Inferred(observed) /\ \A f \in Families : learned[f] = 0
            /\ \A g \in Handlers \ {h} : feedback[g].at = "idle"
        BY <2>1, <3>1 DEF Undisturbed
      <4> QED BY <2>1, <2>2, <2>5, <4>1 DEF AloneIsCurrent
    <3>2. CASE ~feedback[h].undisturbed
      BY <2>1, <3>2 DEF AloneIsCurrent
    <3> QED BY <3>1, <3>2
  <2> QED BY <2>4, <2>6, <2>7
<1>5. ASSUME NEW h \in Handlers, AbandonFeedback(h) PROVE LearnInv'
  <2>1. Waiting \in Feedback /\ Waiting.at = "idle" /\ ~Waiting.undisturbed
    BY DEF Waiting, Feedback
  <2>2. /\ feedback' = [feedback EXCEPT ![h] = Waiting] /\ UNCHANGED <<observed, learned, alone>>
        /\ \A g \in Handlers : feedback'[g] = IF g = h THEN Waiting ELSE feedback[g]
    BY <1>5 DEF AbandonFeedback, LearnTypeOK
  <2> QED BY <2>1, <2>2 DEF LearnTypeOK, Undisturbed, AloneIsCurrent
<1>6. ASSUME NEW o \in Observations, DeleteObservation(o) PROVE LearnInv'
  <2>1. observed' \in [Observations -> 0 .. MaxRows]
    BY <1>6 DEF DeleteObservation, LearnTypeOK
  <2> QED BY <1>6, <2>1, ByHandInv DEF DeleteObservation, LearnTypeOK
<1>7. ASSUME NEW f \in Families, DeleteLearned(f) PROVE LearnInv'
  <2>1. learned' \in [Families -> 0 .. MaxRows]
    BY <1>7 DEF DeleteLearned, LearnTypeOK
  <2> QED BY <1>7, <2>1, ByHandInv DEF DeleteLearned, LearnTypeOK
<1>8. CASE ResetByHand
  <2>1. learned' \in [Families -> 0 .. MaxRows]
    BY <1>8 DEF ResetByHand
  <2> QED BY <1>8, <2>1, ByHandInv DEF ResetByHand, LearnTypeOK
<1> QED BY <1>1, <1>2, <1>3, <1>4, <1>5, <1>6, <1>7, <1>8 DEF LearnNext

-----------------------------------------------------------------------------
(* Research runs.                                                          *)

Work == [at : Stages \cup {"idle", "ended", "failed"}, free : BOOLEAN,
         verdict : Ended \cup {None}]

(* The stages between the first look at a run and the end of the work.     *)
Within == {"researching", "routing", "research", "produce", "verifying", "verification", "verify",
           "report", "published", "rejected", "told"}

(* No execution begins before the question has been answered.              *)
AskedFirst ==
  asking # "answered" => /\ run.status \in {"absent", "queued"}
                         /\ flow.state = "none"
                         /\ \A e \in Executions : work[e].at \notin Within \cup {"load"}

Called == flow.state = "posted" => flow.call \in Executions

(* What an execution at this stage has told and stored, or found.          *)
PastOf(w) ==
  /\ w.at \in Within \ {"researching", "routing"} => events[1] # None
  /\ w.at \in Within \ {"researching", "routing", "research"} => events[2] # None
  /\ w.at \in {"verify", "report", "published", "rejected", "told"} => events[3] # None
  /\ w.at \in {"report", "published"} => w.verdict = "published"
  /\ w.at = "rejected" => w.verdict = "rejected"
  /\ w.at = "told" => w.verdict \in Ended
  /\ w.at = "published" \/ (w.at = "told" /\ w.verdict = "published") => report # None

Past == \A e \in Executions : PastOf(work[e])

(* As long as no two executions have worked at once, what one is about to  *)
(* tell is in the row, and once it is told nobody works.                   *)
OneAtATime ==
  ~overlapped =>
    /\ \A d, e \in Executions : work[d].at \in Within /\ work[e].at \in Within => d = e
    /\ \A e \in Executions : work[e].at = "told" => run.status = work[e].verdict
    /\ events[4] # None => /\ run.status \in Ended
                           /\ \A e \in Executions : work[e].at \notin Within
                           /\ events[4] = "published" => run.status = "published"
                           /\ events[4] = "failed" => run.status = "rejected"

RunInv == RunTypeOK /\ AskedFirst /\ Called /\ Past /\ OneAtATime /\ ToldInOrder

LEMMA AfterIs ==
  /\ DOMAIN After = Within \ {"verify"}
  /\ After["researching"] = "routing" /\ After["routing"] = "research"
  /\ After["research"] = "produce" /\ After["produce"] = "verifying"
  /\ After["verifying"] = "verification" /\ After["verification"] = "verify"
  /\ After["report"] = "published" /\ After["published"] = "told"
  /\ After["rejected"] = "told" /\ After["told"] = "ended"
  BY DEF After, Within

LEMMA SequenceIs ==
  /\ DOMAIN Sequence = {"routing", "research", "verification", "told"}
  /\ Sequence["routing"] = 1 /\ Sequence["research"] = 2
  /\ Sequence["verification"] = 3 /\ Sequence["told"] = 4
  BY DEF Sequence

LEMMA StagesAre == Stages = Within \cup {"load"}
  BY AfterIs DEF Stages, Within

LEMMA WorkingIs == \A e : Working(e) <=> work[e].at \in Within
  BY StagesAre DEF Working, Live, Within

LEMMA RunInitInv == RunInit => RunInv
<1> SUFFICES ASSUME RunInit PROVE RunInv
  OBVIOUS
<1>1. RunTypeOK
  <2>1. run \in [status : Statuses \cup {"absent"}, report : BOOLEAN] /\ attempts \in 0 .. MaxAttempts
    BY ResearchAssumption DEF RunInit
  <2>2. work \in [Executions -> [at : Stages \cup {"idle", "ended", "failed"},
                                 free : BOOLEAN, verdict : Ended \cup {None}]]
    BY DEF RunInit, NoWork
  <2> QED BY <2>1, <2>2 DEF RunInit, RunTypeOK
<1>2. AskedFirst /\ Called /\ Past
  BY DEF RunInit, AskedFirst, Called, Past, PastOf, NoWork, Within
<1>3. OneAtATime /\ ToldInOrder
  <2>1. events[4] = None /\ events[1] = None /\ events[2] = None /\ events[3] = None
    BY DEF RunInit
  <2>2. None # "published"
    BY ResearchAssumption DEF Kinds
  <2>3. \A n \in 2 .. 4 : events[n] = None
    BY DEF RunInit
  <2> QED BY <2>1, <2>2, <2>3 DEF RunInit, OneAtATime, ToldInOrder, NoWork, Within
<1> QED BY <1>1, <1>2, <1>3 DEF RunInv

(* An execution moves and nothing is written.                              *)
LEMMA MoveInv ==
  ASSUME RunInv, NEW e \in Executions, NEW w \in Work, work' = [work EXCEPT ![e] = w],
         UNCHANGED <<run, report, events, overlapped>>,
         asking' \in {"new", "accepted", "logged", "answered"}, attempts' \in 0 .. MaxAttempts,
         flow' \in [state : {"none", "waiting", "posted", "done", "failed"},
                    call : Executions \cup {None}],
         asking' = "answered", Called',
         PastOf(w),
         w.at \in Within => work[e].at \in Within,
         w.at = "told" => work[e].at = "told" /\ w.verdict = work[e].verdict
  PROVE  RunInv'
<1> USE DEF RunInv
<1>1. RunTypeOK'
  BY DEF RunTypeOK, Work
<1>2. \A d \in Executions : work'[d] = IF d = e THEN w ELSE work[d]
  BY DEF RunTypeOK
<1>3. AskedFirst'
  BY DEF AskedFirst
<1>4. Past'
  BY <1>2 DEF Past, PastOf
<1>5. OneAtATime'
  BY <1>2 DEF OneAtATime
<1>6. ToldInOrder'
  BY DEF ToldInOrder
<1> QED BY <1>1, <1>3, <1>4, <1>5, <1>6

LEMMA WorkType ==
  ASSUME RunTypeOK, NEW e \in Executions
  PROVE  /\ work[e] \in Work
         /\ \A at \in Within \cup {"load", "ended", "failed"} :
              /\ [work[e] EXCEPT !.at = at] \in Work
              /\ [work[e] EXCEPT !.at = at].at = at
              /\ [work[e] EXCEPT !.at = at].verdict = work[e].verdict
              /\ [work[e] EXCEPT !.free = FALSE, !.at = at] \in Work
              /\ [work[e] EXCEPT !.free = FALSE, !.at = at].at = at
              /\ [work[e] EXCEPT !.free = FALSE, !.at = at].verdict = work[e].verdict
         /\ [work[e] EXCEPT !.free = TRUE] \in Work
         /\ [work[e] EXCEPT !.free = TRUE].at = work[e].at
         /\ [work[e] EXCEPT !.free = TRUE].verdict = work[e].verdict
         /\ [NoWork EXCEPT !.at = "load"] \in Work
<1>1. work[e] \in Work
  BY DEF RunTypeOK, Work
<1>2. Within \cup {"load", "ended", "failed"} \subseteq Stages \cup {"idle", "ended", "failed"}
  BY StagesAre
<1>3. [NoWork EXCEPT !.at = "load"] \in Work
  BY StagesAre DEF Work, NoWork
<1> HIDE DEF Within, Stages
<1> QED BY <1>1, <1>2, <1>3 DEF Work

(* The question's route and the workflow.                                  *)
LEMMA RouteInv ==
  ASSUME RunInv, Accept \/ LogQueued \/ Dispatch \/ LeaveQueued \/ Complete \/ Retry
  PROVE  RunInv'
<1> USE DEF RunInv
<1>1. UNCHANGED <<report, work, attempts, overlapped>>
  BY DEF Accept, LogQueued, Dispatch, LeaveQueued, Complete, Retry
<1>2. CASE Accept
  <2>1. /\ asking = "new" /\ run' = [status |-> "queued", report |-> FALSE]
        /\ asking' = "accepted" /\ UNCHANGED <<events, flow>>
    BY <1>2 DEF Accept
  <2>2. RunTypeOK'
    BY <1>1, <2>1 DEF RunTypeOK, Statuses
  <2>3. run.status \notin Ended /\ \A e \in Executions : work[e].at \notin Within
    BY <2>1 DEF AskedFirst, Ended
  <2>4. OneAtATime'
    BY <1>1, <2>1, <2>3 DEF OneAtATime, Within
  <2> QED BY <1>1, <2>1, <2>2, <2>4 DEF AskedFirst, Called, Past, PastOf, ToldInOrder
<1>3. CASE LogQueued
  <2>1. /\ asking = "accepted" /\ asking' = "logged" /\ UNCHANGED <<run, flow>>
        /\ events' = [events EXCEPT ![0] = "queued"]
    BY <1>3 DEF LogQueued
  <2>2. RunTypeOK'
    BY <1>1, <2>1 DEF RunTypeOK, Kinds
  <2>3. \A n \in 1 .. 4 : events'[n] = events[n]
    BY <2>1 DEF RunTypeOK
  <2>4. events'[1] = events[1] /\ events'[2] = events[2] /\ events'[3] = events[3] /\ events'[4] = events[4]
    BY <2>3
  <2>5. ToldInOrder'
    <3>1. \A n \in 2 .. 4 : n - 1 \in 1 .. 4 /\ n \in 1 .. 4
      OBVIOUS
    <3> QED BY <1>1, <2>1, <2>3, <2>4, <3>1 DEF ToldInOrder
  <2> QED BY <1>1, <2>1, <2>2, <2>4, <2>5 DEF AskedFirst, Called, Past, PastOf, OneAtATime
<1>4. CASE Dispatch \/ LeaveQueued \/ Complete \/ Retry
  <2>1. /\ UNCHANGED <<run, events>>
        /\ (asking' = asking /\ flow.state # "none") \/ asking' = "answered"
        /\ flow' \in [state : {"none", "waiting", "posted", "done", "failed"},
                      call : Executions \cup {None}]
        /\ flow'.state = "posted" => flow' = flow
    BY <1>4 DEF Dispatch, LeaveQueued, Complete, Retry, RunTypeOK
  <2>2. RunTypeOK'
    BY <1>1, <2>1 DEF RunTypeOK
  <2>3. AskedFirst' /\ Called'
    BY <1>1, <2>1 DEF AskedFirst, Called
  <2> QED BY <1>1, <2>1, <2>2, <2>3 DEF Past, PastOf, OneAtATime, ToldInOrder
<1> QED BY <1>2, <1>3, <1>4

LEMMA BeginInv ==
  ASSUME RunInv, NEW e \in Executions, AskFast(e) \/ Post(e) \/ PostByHand(e)
  PROVE  RunInv'
<1> USE DEF RunInv
<1> DEFINE w == [NoWork EXCEPT !.at = "load"]
<1>1. /\ work' = [work EXCEPT ![e] = w] /\ UNCHANGED <<run, report, events, overlapped>>
  BY DEF AskFast, Post, PostByHand, Begin
<1>2. w \in Work /\ w.at = "load"
  BY WorkType DEF NoWork
<1>3. asking' = "answered"
  BY DEF AskFast, Post, PostByHand, AskedFirst, RunTypeOK
<1>4. /\ flow' \in [state : {"none", "waiting", "posted", "done", "failed"},
                    call : Executions \cup {None}]
      /\ Called'
  BY DEF AskFast, Post, PostByHand, RunTypeOK, Called
<1>5. attempts' \in 0 .. MaxAttempts
  BY ResearchAssumption DEF AskFast, Post, PostByHand, RunTypeOK
<1>6. PastOf(w) /\ w.at \notin Within
  BY <1>2 DEF PastOf, Within
<1> HIDE DEF w
<1> QED BY <1>1, <1>2, <1>3, <1>4, <1>5, <1>6, MoveInv

LEMMA AtWork ==
  ASSUME RunInv, NEW e \in Executions, work[e].at \in Within \cup {"load"}
  PROVE  asking = "answered"
  BY DEF RunInv, AskedFirst, RunTypeOK

LEMMA QuietMoveInv ==
  ASSUME RunInv, NEW e \in Executions,
         \/ LookUpEvent(e) \/ Produce(e) \/ Verify(e) \/ Fail(e)
  PROVE  RunInv'
<1> USE DEF RunInv
<1>1. UNCHANGED <<run, report, events, asking, flow, attempts, overlapped>>
  BY DEF LookUpEvent, Produce, Verify, Fail
<1>2. work[e].at \in Within \cup {"load"}
  BY SequenceIs, StagesAre DEF LookUpEvent, Produce, Verify, Fail, Live, Within
<1>3. asking' = "answered" /\ Called'
  BY <1>1, <1>2, AtWork DEF Called
<1>4. PICK w \in Work :
        /\ work' = [work EXCEPT ![e] = w] /\ PastOf(w)
        /\ w.at \in Within => work[e].at \in Within
        /\ w.at = "told" => work[e].at = "told" /\ w.verdict = work[e].verdict
  <2>1. CASE LookUpEvent(e) /\ events[Sequence[work[e].at]] = None
    <3> DEFINE w == [work[e] EXCEPT !.free = TRUE]
    <3>1. work' = [work EXCEPT ![e] = w]
      BY <2>1 DEF LookUpEvent
    <3>2. w \in Work /\ w.at = work[e].at /\ w.verdict = work[e].verdict
      BY WorkType
    <3>3. PastOf(w)
      BY <3>2 DEF Past, PastOf
    <3> HIDE DEF w
    <3> QED BY <3>1, <3>2, <3>3
  <2>2. CASE LookUpEvent(e) /\ events[Sequence[work[e].at]] # None
    <3> DEFINE w == [work[e] EXCEPT !.at = After[work[e].at]]
    <3>1. work' = [work EXCEPT ![e] = w]
      BY <2>2 DEF LookUpEvent, Go
    <3>2. work[e].at \in {"routing", "research", "verification", "told"}
      BY <2>2, SequenceIs DEF LookUpEvent
    <3>3. After[work[e].at] \in Within \cup {"ended"}
      BY <3>2, AfterIs DEF Within
    <3>4. /\ w \in Work /\ w.at = After[work[e].at] /\ w.verdict = work[e].verdict
      BY <3>3, WorkType
    <3> HIDE DEF w
    <3>5. PastOf(w) /\ work[e].at \in Within /\ w.at # "told"
      <4>1. CASE work[e].at = "routing"
        BY <2>2, <3>4, <4>1, AfterIs, SequenceIs DEF PastOf, Within
      <4>2. CASE work[e].at = "research"
        BY <2>2, <3>4, <4>2, AfterIs, SequenceIs DEF Past, PastOf, Within
      <4>3. CASE work[e].at = "verification"
        BY <2>2, <3>4, <4>3, AfterIs, SequenceIs DEF Past, PastOf, Within
      <4>4. CASE work[e].at = "told"
        BY <2>2, <3>4, <4>4, AfterIs, SequenceIs DEF Past, PastOf, Within
      <4> QED BY <3>2, <4>1, <4>2, <4>3, <4>4
    <3> QED BY <3>1, <3>4, <3>5
  <2>3. CASE Produce(e)
    <3> DEFINE w == [work[e] EXCEPT !.at = "verifying"]
    <3>1. work' = [work EXCEPT ![e] = w] /\ work[e].at = "produce"
      BY <2>3, AfterIs DEF Produce, Go
    <3>2. w \in Work /\ w.at = "verifying"
      BY WorkType DEF Within
    <3> HIDE DEF w
    <3> QED BY <3>1, <3>2 DEF Past, PastOf, Within
  <2>4. CASE Verify(e)
    <3>1. PICK verdict \in Ended :
             work' = [work EXCEPT ![e].verdict = verdict,
                                  ![e].at = IF verdict = "published" THEN "report" ELSE "rejected"]
      BY <2>4 DEF Verify
    <3> DEFINE at == IF verdict = "published" THEN "report" ELSE "rejected"
               w == [work[e] EXCEPT !.verdict = verdict, !.at = at]
    <3>2. work' = [work EXCEPT ![e] = w]
      BY <3>1
    <3>3. at \in Within
      BY DEF Within
    <3>4. w \in Work /\ w.at = at /\ w.verdict = verdict
      <4>1. work[e] \in Work /\ at \in Stages
        BY <3>3, WorkType, StagesAre
      <4> HIDE DEF at
      <4> QED BY <4>1 DEF Work
    <3> HIDE DEF w
    <3>5. PastOf(w) /\ work[e].at = "verify"
      BY <2>4, <3>4 DEF Verify, Past, PastOf, Within, Ended
    <3> QED BY <3>2, <3>4, <3>5 DEF Within
  <2>5. CASE Fail(e)
    <3> DEFINE w == [work[e] EXCEPT !.free = FALSE, !.at = "failed"]
    <3>1. work' = [work EXCEPT ![e] = w]
      BY <2>5 DEF Fail
    <3>2. w \in Work /\ w.at = "failed"
      BY WorkType
    <3> HIDE DEF w
    <3> QED BY <3>1, <3>2 DEF PastOf, Within
  <2> QED BY <2>1, <2>2, <2>3, <2>4, <2>5
<1> QED BY <1>1, <1>3, <1>4, MoveInv DEF RunTypeOK

LEMMA LoadInv ==
  ASSUME RunInv, NEW e \in Executions, Load(e)
  PROVE  RunInv'
<1> USE DEF RunInv
<1> DEFINE at == IF run.status \in Ended THEN "ended" ELSE "researching"
           w == [work[e] EXCEPT !.at = at]
<1>1. /\ work[e].at = "load" /\ work' = [work EXCEPT ![e] = w]
      /\ overlapped' = (overlapped \/ (run.status \notin Ended
                                       /\ \E d \in Executions \ {e} : Working(d)))
      /\ UNCHANGED <<run, report, events, asking, flow, attempts>>
  BY DEF Load, Go
<1>2. w \in Work /\ w.at = at
  <2>1. at \in Within \cup {"load", "ended", "failed"}
    BY DEF Within
  <2> HIDE DEF at
  <2> QED BY <2>1, WorkType
<1> HIDE DEF w
<1>3. asking = "answered"
  BY <1>1, AtWork
<1>4. \A d \in Executions : work'[d] = IF d = e THEN w ELSE work[d]
  BY <1>1 DEF RunTypeOK
<1>5. RunTypeOK'
  BY <1>1, <1>2 DEF RunTypeOK, Work
<1>6. AskedFirst' /\ Called' /\ ToldInOrder'
  BY <1>1, <1>3 DEF AskedFirst, Called, ToldInOrder
<1>7. Past'
  BY <1>1, <1>2, <1>4 DEF Past, PastOf, Within
<1>8. OneAtATime'
  <2>1. CASE run.status \in Ended
    <3>1. w.at = "ended" /\ overlapped' = overlapped
      BY <1>1, <1>2, <2>1 DEF RunTypeOK
    <3> QED BY <1>1, <1>4, <3>1 DEF OneAtATime, Within
  <2>2. CASE run.status \notin Ended
    <3> SUFFICES ASSUME ~overlapped' PROVE OneAtATime'
      BY DEF OneAtATime
    <3>1. ~overlapped /\ \A d \in Executions \ {e} : work[d].at \notin Within
      BY <1>1, <2>2, WorkingIs
    <3>2. w.at = "researching" /\ events[4] = None
      BY <1>2, <2>2, <3>1 DEF OneAtATime
    <3> QED BY <1>1, <1>4, <3>1, <3>2 DEF OneAtATime, Within
  <2> QED BY <2>1, <2>2
<1> QED BY <1>5, <1>6, <1>7, <1>8

LEMMA SaveInv ==
  ASSUME RunInv, NEW e \in Executions, Save(e)
  PROVE  RunInv'
<1> USE DEF RunInv
<1> DEFINE w == [work[e] EXCEPT !.at = After[work[e].at]]
<1>1. /\ work[e].at \in {"researching", "verifying", "published", "rejected"}
      /\ run' = [status |-> work[e].at, report |-> work[e].at = "published"]
      /\ work' = [work EXCEPT ![e] = w]
      /\ UNCHANGED <<report, events, asking, flow, attempts, overlapped>>
  BY DEF Save, Go, Ended
<1>2. After[work[e].at] \in {"routing", "verification", "told"}
  BY <1>1, AfterIs
<1>3. w \in Work /\ w.at = After[work[e].at] /\ w.verdict = work[e].verdict
  BY <1>2, WorkType DEF Within
<1> HIDE DEF w
<1>4. asking = "answered"
  BY <1>1, AtWork DEF Within
<1>5. \A d \in Executions : work'[d] = IF d = e THEN w ELSE work[d]
  BY <1>1 DEF RunTypeOK
<1>6. run' \in [status : Statuses \cup {"absent"}, report : BOOLEAN]
  BY <1>1 DEF Statuses, Ended
<1>7. RunTypeOK'
  BY <1>1, <1>3, <1>6 DEF RunTypeOK, Work
<1>8. AskedFirst' /\ Called'
  BY <1>1, <1>4 DEF AskedFirst, Called
<1>9. PastOf(w)
  <2>1. CASE work[e].at \in {"researching", "verifying"}
    BY <1>3, <2>1, AfterIs DEF Past, PastOf, Within
  <2>2. CASE work[e].at \in {"published", "rejected"}
    BY <1>3, <2>2, AfterIs DEF Past, PastOf, Within, Ended
  <2> QED BY <1>1, <2>1, <2>2
<1>10. Past'
  BY <1>1, <1>5, <1>9 DEF Past, PastOf
<1>11. ToldInOrder'
  BY <1>1 DEF ToldInOrder, Past, PastOf
<1>12. OneAtATime'
  <2> SUFFICES ASSUME ~overlapped PROVE OneAtATime'
    BY <1>1 DEF OneAtATime
  <2>1. \A d \in Executions \ {e} : work[d].at \notin Within
    BY <1>1 DEF OneAtATime, Within
  <2>2. events[4] = None
    BY <1>1 DEF OneAtATime, Within
  <2>3. w.at = "told" => run'.status = w.verdict
    BY <1>1, <1>3, AfterIs DEF Past, PastOf
  <2> QED BY <1>1, <1>5, <2>1, <2>2, <2>3 DEF OneAtATime, Within
<1> QED BY <1>7, <1>8, <1>10, <1>11, <1>12

LEMMA SaveReportInv ==
  ASSUME RunInv, NEW e \in Executions, SaveReport(e)
  PROVE  RunInv'
<1> USE DEF RunInv
<1> DEFINE w == [work[e] EXCEPT !.at = "published"]
<1>1. /\ work[e].at = "report" /\ report' = e /\ work' = [work EXCEPT ![e] = w]
      /\ UNCHANGED <<run, events, asking, flow, attempts, overlapped>>
  BY AfterIs DEF SaveReport, Go
<1>2. w \in Work /\ w.at = "published" /\ w.verdict = work[e].verdict
  BY WorkType DEF Within
<1> HIDE DEF w
<1>3. asking = "answered" /\ e # None
  BY <1>1, AtWork, ResearchAssumption DEF Within
<1>4. \A d \in Executions : work'[d] = IF d = e THEN w ELSE work[d]
  BY <1>1 DEF RunTypeOK
<1>5. RunTypeOK'
  BY <1>1, <1>2 DEF RunTypeOK, Work
<1>6. AskedFirst' /\ Called' /\ ToldInOrder'
  BY <1>1, <1>3 DEF AskedFirst, Called, ToldInOrder
<1>7. Past'
  BY <1>1, <1>2, <1>3, <1>4 DEF Past, PastOf, Within
<1>8. OneAtATime'
  BY <1>1, <1>2, <1>4 DEF OneAtATime, Within
<1> QED BY <1>5, <1>6, <1>7, <1>8

LEMMA InsertInv ==
  ASSUME RunInv, NEW e \in Executions, InsertEvent(e)
  PROVE  RunInv'
<1> USE DEF RunInv
<1> DEFINE n == Sequence[work[e].at]
           taken == events[n] # None
           at == IF taken THEN "failed" ELSE After[work[e].at]
           w == [work[e] EXCEPT !.free = FALSE, !.at = at]
<1>1. /\ work[e].at \in {"routing", "research", "verification", "told"}
      /\ events' = IF taken THEN events ELSE [events EXCEPT ![n] = Kind(e)]
      /\ UNCHANGED <<run, report, asking, flow, attempts, overlapped>>
  BY SequenceIs DEF InsertEvent
<1>2. work' = [work EXCEPT ![e] = w]
  BY DEF InsertEvent
<1>3. at \in {"research", "produce", "verify", "ended", "failed"}
  BY <1>1, AfterIs
<1>4. w \in Work /\ w.at = at /\ w.verdict = work[e].verdict
  <2>1. at \in Within \cup {"load", "ended", "failed"}
    BY <1>3 DEF Within
  <2> HIDE DEF at
  <2> QED BY <2>1, WorkType
<1> HIDE DEF w
<1>5. asking = "answered" /\ work[e].at \in Within
  BY <1>1, AtWork DEF Within
<1>6. \A d \in Executions : work'[d] = IF d = e THEN w ELSE work[d]
  BY <1>2 DEF RunTypeOK
<1>7. n \in 1 .. 4 /\ (work[e].at = "told" <=> n = 4)
  BY <1>1, SequenceIs
<1>8. Kind(e) \in Kinds /\ Kind(e) # None
  BY <1>1, ResearchAssumption DEF Kind, Kinds
<1>9. events' \in [0 .. 4 -> Kinds \cup {None}]
  BY <1>1, <1>7, <1>8 DEF RunTypeOK
<1>10. \A m \in 0 .. 4 : /\ events[m] # None => events'[m] = events[m]
                         /\ events'[m] # events[m] => m = n /\ events'[m] = Kind(e)
  BY <1>1, <1>7 DEF RunTypeOK
<1>11. events'[n] # None
  BY <1>1, <1>7, <1>8 DEF RunTypeOK
<1>12. \A m \in 1 .. 4 : events[m] # None => events'[m] # None
  BY <1>10
<1>13. RunTypeOK'
  BY <1>1, <1>2, <1>4, <1>9 DEF RunTypeOK, Work
<1>14. AskedFirst' /\ Called'
  BY <1>1, <1>5 DEF AskedFirst, Called
<1> HIDE DEF n, taken
<1>15. PastOf(work[e])'
  <2>0. /\ work'[e].at = at /\ work'[e].verdict = work[e].verdict /\ report' = report
        /\ at = "failed" \/ at = After[work[e].at]
    BY <1>1, <1>4, <1>6
  <2> HIDE DEF at
  <2>1. CASE work[e].at = "routing"
    BY <1>11, <2>0, <2>1, AfterIs, SequenceIs DEF PastOf, Within, n
  <2>2. CASE work[e].at = "research"
    BY <1>11, <1>12, <2>0, <2>2, AfterIs, SequenceIs DEF Past, PastOf, Within, n
  <2>3. CASE work[e].at = "verification"
    BY <1>11, <1>12, <2>0, <2>3, AfterIs, SequenceIs DEF Past, PastOf, Within, n
  <2>4. CASE work[e].at = "told"
    BY <2>0, <2>4, AfterIs DEF PastOf, Within
  <2> QED BY <1>1, <2>1, <2>2, <2>3, <2>4
<1>16. Past'
  <2>1. ASSUME NEW d \in Executions, d # e PROVE PastOf(work[d])'
    BY <1>1, <1>6, <1>12, <2>1 DEF Past, PastOf
  <2> QED BY <1>15, <2>1 DEF Past
<1>17. ToldInOrder'
  <2>1. ASSUME NEW m \in 2 .. 4, events'[m] # None PROVE events'[m - 1] # None
    <3>1. CASE events[m] # None
      BY <1>12, <3>1 DEF ToldInOrder
    <3>2. CASE events[m] = None
      <4>1. m = n
        BY <1>10, <2>1, <3>2
      <4>2. n \in {2, 3, 4} /\ (n = 2 => work[e].at = "research")
            /\ (n = 3 => work[e].at = "verification") /\ (n = 4 => work[e].at = "told")
        BY <1>1, <4>1, SequenceIs DEF n
      <4>3. events[n - 1] # None
        BY <4>2 DEF Past, PastOf, Within
      <4> QED BY <1>12, <4>1, <4>2, <4>3
    <3> QED BY <3>1, <3>2
  <2>2. run.report \/ events'[4] = "published" => report # None
    <3>1. CASE events'[4] = events[4]
      BY <3>1 DEF ToldInOrder
    <3>2. CASE events'[4] # events[4]
      <4>1. work[e].at = "told" /\ events'[4] = Kind(e)
        BY <1>7, <1>10, <3>2
      <4>2. Kind(e) = "published" => report # None
        BY <4>1 DEF Kind, Past, PastOf
      <4> QED BY <4>1, <4>2 DEF ToldInOrder
    <3> QED BY <3>1, <3>2
  <2> QED BY <1>1, <2>1, <2>2 DEF ToldInOrder
<1>18. OneAtATime'
  <2> SUFFICES ASSUME ~overlapped PROVE OneAtATime'
    BY <1>1 DEF OneAtATime
  <2>1. /\ \A d \in Executions \ {e} : work[d].at \notin Within
        /\ events[4] = None
    BY <1>5 DEF OneAtATime
  <2>2. CASE work[e].at = "told"
    <3>1. n = 4 /\ events'[4] = Kind(e)
      BY <1>7, <1>10, <1>11, <2>1, <2>2
    <3>2. w.at \in {"failed", "ended"}
      BY <1>4, <2>2, AfterIs
    <3>3. run.status = work[e].verdict /\ work[e].verdict \in Ended
      BY <2>2 DEF OneAtATime, Past, PastOf
    <3>4. Kind(e) = "published" => run.status = "published"
      BY <2>2, <3>3 DEF Kind
    <3>5. Kind(e) = "failed" => run.status = "rejected"
      BY <2>2, <3>3 DEF Kind, Ended
    <3> QED BY <1>1, <1>6, <2>1, <3>1, <3>2, <3>3, <3>4, <3>5 DEF OneAtATime, Within
  <2>3. CASE work[e].at # "told"
    <3>1. events'[4] = None
      BY <1>7, <1>10, <2>1, <2>3
    <3>2. w.at # "told"
      BY <1>3, <1>4
    <3> QED BY <1>1, <1>6, <2>1, <3>1, <3>2 DEF OneAtATime
  <2> QED BY <2>2, <2>3
<1> QED BY <1>13, <1>14, <1>16, <1>17, <1>18

LEMMA CrashInv ==
  ASSUME RunInv, Crash
  PROVE  RunInv'
<1> USE DEF RunInv
<1>1. /\ work' = [e \in Executions |-> IF Live(e) THEN [work[e] EXCEPT !.at = "failed", !.free = FALSE]
                                       ELSE work[e]]
      /\ asking' = "answered"
      /\ UNCHANGED <<run, report, events, flow, attempts, overlapped>>
  BY DEF Crash
<1>2. ASSUME NEW e \in Executions
      PROVE  work'[e] \in Work /\ (work'[e] = work[e] \/ work'[e].at = "failed")
  <2>1. [work[e] EXCEPT !.at = "failed", !.free = FALSE] \in Work
        /\ [work[e] EXCEPT !.at = "failed", !.free = FALSE].at = "failed"
    BY WorkType DEF Work
  <2>2. work[e] \in Work
    BY WorkType
  <2> QED BY <1>1, <2>1, <2>2
<1>3. RunTypeOK'
  BY <1>1, <1>2 DEF RunTypeOK, Work
<1>4. AskedFirst' /\ Called' /\ ToldInOrder'
  BY <1>1 DEF AskedFirst, Called, ToldInOrder
<1>5. Past'
  BY <1>1, <1>2 DEF Past, PastOf, Within
<1>6. OneAtATime'
  <2> SUFFICES ASSUME ~overlapped PROVE OneAtATime'
    BY <1>1 DEF OneAtATime
  <2>1. \A e \in Executions : work'[e].at \in Within => work'[e] = work[e]
    BY <1>2 DEF Within
  <2>2. \A e \in Executions : work'[e].at = "told" => work'[e].at \in Within
    BY DEF Within
  <2> HIDE DEF Within
  <2> QED BY <1>1, <2>1, <2>2 DEF OneAtATime
<1> QED BY <1>3, <1>4, <1>5, <1>6

LEMMA RunNextInv ==
  ASSUME RunInv, RunNext
  PROVE  RunInv'
  BY RouteInv, BeginInv, QuietMoveInv, LoadInv, SaveInv, SaveReportInv, InsertInv, CrashInv
     DEF RunNext, Execute

LEMMA RunStepInv ==
  ASSUME RunInv, [RunNext]_runVars
  PROVE  RunInv'
<1>1. CASE RunNext
  BY <1>1, RunNextInv
<1>2. CASE UNCHANGED runVars
  BY <1>2 DEF RunInv, RunTypeOK, AskedFirst, Called, Past, PastOf, OneAtATime, ToldInOrder, runVars
<1> QED BY <1>1, <1>2

(* A run that has ended and on which nobody works: an execution that looks *)
(* at it ends, and there is no other step that writes.                     *)
LEMMA SettledStep ==
  ASSUME RunInv, RunNext, Settled
  PROVE  Settled' /\ UNCHANGED <<run, report, events>>
<1> USE DEF RunInv
<1>1. run.status \in Ended /\ \A e \in Executions : work[e].at \notin Within
  BY WorkingIs DEF Settled
<1>2. asking = "answered"
  BY <1>1 DEF AskedFirst, RunTypeOK, Ended
<1>3. SUFFICES /\ UNCHANGED <<run, report, events>>
               /\ \A e \in Executions : work'[e].at \notin Within
  BY <1>1 DEF Settled, Working, Live, Stages, Within, After
<1>4. CASE Accept \/ LogQueued \/ Dispatch \/ LeaveQueued \/ Complete \/ Retry
  BY <1>1, <1>2, <1>4 DEF Accept, LogQueued, Dispatch, LeaveQueued, Complete, Retry
<1>5. CASE Crash
  <2>1. UNCHANGED <<run, report, events>>
    BY <1>5 DEF Crash
  <2>2. ASSUME NEW e \in Executions PROVE work'[e] = work[e] \/ work'[e].at = "failed"
    <3>1. [work[e] EXCEPT !.at = "failed", !.free = FALSE].at = "failed"
      BY WorkType DEF Work
    <3> QED BY <1>5, <3>1 DEF Crash
  <2> QED BY <1>1, <2>1, <2>2 DEF Within
<1>6. ASSUME NEW e \in Executions, AskFast(e) \/ Post(e) \/ PostByHand(e) PROVE <1>3!1
  <2>1. /\ UNCHANGED <<run, report, events>>
        /\ work' = [work EXCEPT ![e] = [NoWork EXCEPT !.at = "load"]]
    BY <1>6 DEF AskFast, Post, PostByHand, Begin
  <2>2. \A d \in Executions : work'[d] = work[d] \/ work'[d].at = "load"
    BY <2>1 DEF RunTypeOK, NoWork
  <2> QED BY <1>1, <2>1, <2>2 DEF Within
<1>7. ASSUME NEW e \in Executions, Fail(e) PROVE <1>3!1
  <2> DEFINE w == [work[e] EXCEPT !.free = FALSE, !.at = "failed"]
  <2>1. /\ UNCHANGED <<run, report, events>>
        /\ work' = [work EXCEPT ![e] = w]
    BY <1>7 DEF Fail
  <2>2. w.at = "failed"
    BY WorkType DEF Within
  <2> HIDE DEF w
  <2>3. \A d \in Executions : work'[d] = work[d] \/ work'[d].at = "failed"
    BY <2>1, <2>2 DEF RunTypeOK
  <2> QED BY <1>1, <2>1, <2>3 DEF Within
<1>8. ASSUME NEW e \in Executions, Load(e) PROVE <1>3!1
  <2> DEFINE w == [work[e] EXCEPT !.at = "ended"]
  <2>1. /\ UNCHANGED <<run, report, events>>
        /\ work' = [work EXCEPT ![e] = w]
    BY <1>1, <1>8 DEF Load, Go
  <2>2. w.at = "ended"
    BY WorkType DEF Within
  <2> HIDE DEF w
  <2>3. \A d \in Executions : work'[d] = work[d] \/ work'[d].at = "ended"
    BY <2>1, <2>2 DEF RunTypeOK
  <2> QED BY <1>1, <2>1, <2>3 DEF Within
<1>9. ASSUME NEW e \in Executions,
             Save(e) \/ LookUpEvent(e) \/ InsertEvent(e) \/ Produce(e) \/ Verify(e) \/ SaveReport(e)
      PROVE  FALSE
  <2>1. work[e].at \in Within
    BY <1>9, SequenceIs DEF Save, LookUpEvent, InsertEvent, Produce, Verify, SaveReport, Within, Ended
  <2> QED BY <1>1, <2>1
<1> QED BY <1>4, <1>5, <1>6, <1>7, <1>8, <1>9 DEF RunNext, Execute

-----------------------------------------------------------------------------
(* Both together, as MCModelCalls has them.                                *)

IndInv == RunInv /\ LearnInv

LEMMA LearnStutter ==
  ASSUME LearnInv, UNCHANGED learnVars
  PROVE  LearnInv'
  BY DEF LearnInv, LearnTypeOK, Undisturbed, AloneIsCurrent, Inferred, learnVars

(* Whatever is interleaved, the strengthened invariant holds.              *)
THEOREM Invariance == Spec => []IndInv
<1>1. Init => IndInv
  BY RunInitInv, LearnInitInv DEF Init, IndInv
<1>2. IndInv /\ [Next]_<<runVars, learnVars, machine>> => IndInv'
  <2> SUFFICES ASSUME IndInv, [Next]_<<runVars, learnVars, machine>> PROVE IndInv'
    OBVIOUS
  <2>1. [RunNext]_runVars /\ (LearnNext \/ UNCHANGED learnVars)
    BY DEF Next
  <2>2. RunInv'
    BY <2>1, RunStepInv DEF IndInv
  <2>3. LearnInv'
    BY <2>1, LearnNextInv, LearnStutter DEF IndInv
  <2> QED BY <2>2, <2>3 DEF IndInv
<1> QED BY <1>1, <1>2, PTL DEF Spec

(* Types.                                                                  *)
THEOREM TypeCorrect == Spec => []TypeOK
<1>1. IndInv => TypeOK
  BY DEF IndInv, RunInv, LearnInv, TypeOK
<1> QED BY <1>1, Invariance, PTL

(* What a run tells has no gap, and what speaks of a report has one.       *)
THEOREM GaplessRecord == Spec => []ToldInOrder
<1>1. IndInv => ToldInOrder
  BY DEF IndInv, RunInv
<1> QED BY <1>1, Invariance, PTL

(* As long as executions do not overlap, the last event is the outcome.    *)
THEOREM OutcomeIsTrue == Spec => []ToldIsTrue
<1>1. IndInv => ToldIsTrue
  <2> SUFFICES ASSUME IndInv, ~overlapped, events[4] = "published" \/ events[4] = "failed"
               PROVE  /\ events[4] = "published" => run.status = "published"
                      /\ events[4] = "failed" => run.status = "rejected"
    BY DEF ToldIsTrue
  <2>1. events[4] # None
    BY ResearchAssumption DEF Kinds
  <2> QED BY <2>1 DEF IndInv, RunInv, OneAtATime
<1> QED BY <1>1, Invariance, PTL

(* Feedback that nothing disturbs leaves the preferences current.          *)
THEOREM PreferencesCurrent == Spec => []LearnedIsCurrent
<1>1. IndInv => LearnedIsCurrent
  BY DEF IndInv, LearnInv, AloneIsCurrent, LearnedIsCurrent
<1> QED BY <1>1, Invariance, PTL

(* No retry, crash or operator changes a run that is settled.              *)
THEOREM RetriesChangeNothing == Spec => SettledStays
<1>1. IndInv /\ [Next]_<<runVars, learnVars, machine>>
        => [Settled => Settled' /\ UNCHANGED <<run, report, events>>]_runVars
  <2> SUFFICES ASSUME IndInv, [Next]_<<runVars, learnVars, machine>>, ~UNCHANGED runVars
               PROVE  Settled => Settled' /\ UNCHANGED <<run, report, events>>
    OBVIOUS
  <2>1. RunNext
    BY DEF Next
  <2> QED BY <2>1, SettledStep DEF IndInv
<1> QED BY <1>1, Invariance, PTL DEF Spec, SettledStays

=============================================================================
