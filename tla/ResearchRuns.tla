----------------------------- MODULE ResearchRuns -----------------------------
(* One research question, from its acceptance to its report: the question    *)
(* route, IntelligenceService.ask and execute over the rows of               *)
(* IntelligenceStore, and the Temporal workflow that posts the execution     *)
(* again when an attempt fails or hangs. An execution works on the copy of   *)
(* the run it loaded, waits for two models, and overwrites the row without   *)
(* looking at it: attempts overlap, because a client that gives up does not  *)
(* stop the handler it called.                                               *)
EXTENDS Naturals

CONSTANTS
  Executions,    \* handlers that can be at work on the run at once
  MaxAttempts,   \* attempts of the workflow's activity (8 in the code)
  None

VARIABLES
  run,        \* the row of the run: its status and whether it names a report
  report,     \* the stored report: the execution whose analysis it holds
  events,     \* the stored events of the run, by sequence
  asking,     \* where the ask handler stands
  work,       \* what each execution is at
  flow,       \* the workflow: its state and the execution it waits for
  attempts,   \* attempts the activity has made
  overlapped  \* history: two executions have worked on the run at once

runVars == <<run, report, events, asking, work, flow, attempts, overlapped>>

-----------------------------------------------------------------------------
(* States.                                                                 *)

Ended == {"published", "rejected"}

Statuses == {"queued", "researching", "verifying"} \cup Ended

(* Every append_event of an execution, with its sequence.                  *)
Sequence == [routing |-> 1, research |-> 2, verification |-> 3, told |-> 4]

Kinds == {"queued", "routing", "research", "verification", "published", "failed"}

ASSUME ResearchAssumption ==
  /\ MaxAttempts \in Nat
  /\ None \notin Executions \cup Kinds \cup Ended

(* What follows a stage that went well; the stages that are not listed     *)
(* choose.                                                                 *)
After == [researching |-> "routing", routing |-> "research", research |-> "produce",
          produce |-> "verifying", verifying |-> "verification", verification |-> "verify",
          report |-> "published", published |-> "told", rejected |-> "told", told |-> "ended"]

Stages == DOMAIN After \cup {"load", "verify"}

NoWork == [at |-> "idle", free |-> FALSE, verdict |-> None]

Live(e) == work[e].at \in Stages

(* Past its first look at the run, where an ended one is answered.         *)
Working(e) == Live(e) /\ work[e].at # "load"

RunTypeOK ==
  /\ run \in [status : Statuses \cup {"absent"}, report : BOOLEAN]
  /\ report \in Executions \cup {None}
  /\ events \in [0 .. 4 -> Kinds \cup {None}]
  /\ asking \in {"new", "accepted", "logged", "answered"}
  /\ work \in [Executions -> [at : Stages \cup {"idle", "ended", "failed"},
                              free : BOOLEAN, verdict : Ended \cup {None}]]
  /\ flow \in [state : {"none", "waiting", "posted", "done", "failed"},
               call : Executions \cup {None}]
  /\ attempts \in 0 .. MaxAttempts
  /\ overlapped \in BOOLEAN

RunInit ==
  /\ run = [status |-> "absent", report |-> FALSE]
  /\ report = None
  /\ events = [n \in 0 .. 4 |-> None]
  /\ asking = "new"
  /\ work = [e \in Executions |-> NoWork]
  /\ flow = [state |-> "none", call |-> None]
  /\ attempts = 0
  /\ overlapped = FALSE

Begin(e) ==
  /\ ~Live(e)
  /\ flow.call # e
  /\ work' = [work EXCEPT ![e] = [NoWork EXCEPT !.at = "load"]]

-----------------------------------------------------------------------------
(* Asking.                                                                 *)

Accept ==
  /\ asking = "new"
  /\ asking' = "accepted"
  /\ run' = [status |-> "queued", report |-> FALSE]
  /\ UNCHANGED <<report, events, work, flow, attempts, overlapped>>

LogQueued ==
  /\ asking = "accepted"
  /\ asking' = "logged"
  /\ events' = [events EXCEPT ![0] = "queued"]
  /\ UNCHANGED <<run, report, work, flow, attempts, overlapped>>

(* A fast question is executed by its own request.                         *)
AskFast(e) ==
  /\ asking = "logged"
  /\ asking' = "answered"
  /\ Begin(e)
  /\ UNCHANGED <<run, report, events, flow, attempts, overlapped>>

(* A deep one is handed to Temporal under the run's own workflow id.       *)
Dispatch ==
  /\ asking = "logged"
  /\ asking' = "answered"
  /\ flow' = [flow EXCEPT !.state = "waiting"]
  /\ UNCHANGED <<run, report, events, work, attempts, overlapped>>

(* No dispatcher is configured, or the call fails: the run stays queued.   *)
LeaveQueued ==
  /\ asking \in {"accepted", "logged"}
  /\ asking' = "answered"
  /\ UNCHANGED <<run, report, events, work, flow, attempts, overlapped>>

-----------------------------------------------------------------------------
(* The workflow's activity, and an operator who posts by hand.             *)

Post(e) ==
  /\ flow.state = "waiting"
  /\ attempts < MaxAttempts
  /\ attempts' = attempts + 1
  /\ flow' = [state |-> "posted", call |-> e]
  /\ Begin(e)
  /\ UNCHANGED <<run, report, events, asking, overlapped>>

PostByHand(e) ==
  /\ run.status # "absent"
  /\ asking = "answered"
  /\ Begin(e)
  /\ UNCHANGED <<run, report, events, asking, flow, attempts, overlapped>>

Complete ==
  /\ flow.state = "posted"
  /\ work[flow.call].at = "ended"
  /\ flow' = [state |-> "done", call |-> None]
  /\ UNCHANGED <<run, report, events, asking, work, attempts, overlapped>>

(* Mutant of Retry: a client that gave up takes the run for done.          *)
RetryNever ==
  /\ flow.state = "posted"
  /\ flow' = [state |-> "done", call |-> None]
  /\ UNCHANGED <<run, report, events, asking, work, attempts, overlapped>>

(* The attempt failed, or the client's 120 seconds passed, or the worker   *)
(* died: a handler that is still at work goes on.                          *)
Retry ==
  /\ flow.state = "posted"
  /\ flow' = [state |-> IF attempts < MaxAttempts THEN "waiting" ELSE "failed", call |-> None]
  /\ UNCHANGED <<run, report, events, asking, work, attempts, overlapped>>

-----------------------------------------------------------------------------
(* An execution.                                                           *)

Go(e, stage) == work' = [work EXCEPT ![e].at = stage]

(* Mutants of Load: an ended run, or a rejected one, is executed again.    *)
LoadAgain(e) ==
  /\ work[e].at = "load"
  /\ Go(e, "researching")
  /\ overlapped' = (overlapped \/ \E d \in Executions \ {e} : Working(d))
  /\ UNCHANGED <<run, report, events, asking, flow, attempts>>

LoadRejectedAgain(e) ==
  /\ work[e].at = "load"
  /\ Go(e, IF run.status = "published" THEN "ended" ELSE "researching")
  /\ overlapped' = (overlapped \/ (run.status # "published" /\ \E d \in Executions \ {e} : Working(d)))
  /\ UNCHANGED <<run, report, events, asking, flow, attempts>>

Load(e) ==
  /\ work[e].at = "load"
  /\ Go(e, IF run.status \in Ended THEN "ended" ELSE "researching")
  /\ overlapped' = (overlapped \/ (run.status \notin Ended /\ \E d \in Executions \ {e} : Working(d)))
  /\ UNCHANGED <<run, report, events, asking, flow, attempts>>

(* save_run, with the copy that the execution carries along.               *)
Save(e) ==
  /\ work[e].at \in {"researching", "verifying"} \cup Ended
  /\ run' = [status |-> work[e].at, report |-> work[e].at = "published"]
  /\ Go(e, After[work[e].at])
  /\ UNCHANGED <<report, events, asking, flow, attempts, overlapped>>

(* append_event looks for the sequence first, and leaves a stored event    *)
(* as it is.                                                               *)
LookUpEvent(e) ==
  /\ work[e].at \in DOMAIN Sequence
  /\ ~work[e].free
  /\ IF events[Sequence[work[e].at]] = None
     THEN work' = [work EXCEPT ![e].free = TRUE]
     ELSE Go(e, After[work[e].at])
  /\ UNCHANGED <<run, report, events, asking, flow, attempts, overlapped>>

Kind(e) ==
  CASE work[e].at # "told" -> work[e].at
    [] work[e].verdict = "published" -> "published"
    [] OTHER -> "failed"

(* The unique index refuses the second of two inserts: that execution      *)
(* raises.                                                                 *)
InsertEvent(e) ==
  /\ work[e].at \in DOMAIN Sequence
  /\ work[e].free
  /\ LET n == Sequence[work[e].at]
         taken == events[n] # None
     IN  /\ events' = IF taken THEN events ELSE [events EXCEPT ![n] = Kind(e)]
         /\ work' = [work EXCEPT ![e].free = FALSE,
                                 ![e].at = IF taken THEN "failed" ELSE After[work[e].at]]
  /\ UNCHANGED <<run, report, asking, flow, attempts, overlapped>>

Produce(e) ==
  /\ work[e].at = "produce"
  /\ Go(e, After["produce"])
  /\ UNCHANGED <<run, report, events, asking, flow, attempts, overlapped>>

(* Mutant of Verify: the run is published before its report is stored.     *)
VerifyUnreported(e) ==
  /\ work[e].at = "verify"
  /\ \E verdict \in Ended : work' = [work EXCEPT ![e].verdict = verdict, ![e].at = verdict]
  /\ UNCHANGED <<run, report, events, asking, flow, attempts, overlapped>>

(* Two executions may well be told different things.                       *)
Verify(e) ==
  /\ work[e].at = "verify"
  /\ \E verdict \in Ended :
       work' = [work EXCEPT ![e].verdict = verdict,
                            ![e].at = IF verdict = "published" THEN "report" ELSE "rejected"]
  /\ UNCHANGED <<run, report, events, asking, flow, attempts, overlapped>>

(* The report's id is made from the run's, so that it replaces the report  *)
(* of an earlier execution.                                                *)
SaveReport(e) ==
  /\ work[e].at = "report"
  /\ report' = e
  /\ Go(e, After["report"])
  /\ UNCHANGED <<run, events, asking, flow, attempts, overlapped>>

(* A model, the database or the evidence raises.                           *)
Fail(e) ==
  /\ Live(e)
  /\ work' = [work EXCEPT ![e].free = FALSE, ![e].at = "failed"]
  /\ UNCHANGED <<run, report, events, asking, flow, attempts, overlapped>>

(* The API process stops with all its handlers.                            *)
Crash ==
  /\ asking # "new"
  /\ \E e \in Executions : Live(e)
  /\ work' = [e \in Executions |->
                IF Live(e) THEN [work[e] EXCEPT !.at = "failed", !.free = FALSE] ELSE work[e]]
  /\ asking' = "answered"
  /\ UNCHANGED <<run, report, events, flow, attempts, overlapped>>

Execute(e) ==
  Load(e) \/ Save(e) \/ LookUpEvent(e) \/ InsertEvent(e) \/ Produce(e) \/ Verify(e) \/ SaveReport(e)

RunNext ==
  \/ Accept \/ LogQueued \/ Dispatch \/ LeaveQueued \/ Complete \/ Retry \/ Crash
  \/ \E e \in Executions : AskFast(e) \/ Post(e) \/ PostByHand(e) \/ Execute(e) \/ Fail(e)

RunSpec == RunInit /\ [][RunNext]_runVars

-----------------------------------------------------------------------------
(* Properties.                                                             *)

(* Nobody works on the run and it has ended: only first looks are left.    *)
Settled == run.status \in Ended /\ ~\E e \in Executions : Working(e)

(* "Retries are idempotent by run ID", as far as the code goes: once a run *)
(* has ended and nobody works on it, no retry, crash or operator changes   *)
(* the run, its report or its events. While an earlier attempt still works *)
(* the promise does not hold.                                              *)
SettledStays == [][Settled => Settled' /\ UNCHANGED <<run, report, events>>]_runVars

(* What executions tell is a gapless record whatever is retried, and a run *)
(* or a last event that speaks of a report has one that can be read.       *)
ToldInOrder ==
  /\ \A n \in 2 .. 4 : events[n] # None => events[n - 1] # None
  /\ run.report \/ events[4] = "published" => report # None

(* The last event and the run agree on the outcome, across failures and    *)
(* retries, for as long as no two executions worked at once.               *)
ToldIsTrue ==
  ~overlapped =>
    /\ events[4] = "published" => run.status = "published"
    /\ events[4] = "failed" => run.status = "rejected"

(* Handlers go on, Temporal hands out what is due, and an attempt that     *)
(* ended or hangs comes back to it.                                        *)
RunFairness ==
  /\ \A e \in Executions : WF_runVars(Execute(e))
  /\ SF_runVars(\E e \in Executions : Post(e))
  /\ WF_runVars(Complete \/ Retry)

RunFairSpec == RunSpec /\ RunFairness

(* A run that was handed to Temporal ends, whatever fails or crashes, or   *)
(* all its attempts are used up; and it ends for good, unless two          *)
(* executions worked at once: then the slower one may take the run back to *)
(* researching and fail, when the workflow is long done.                   *)
DispatchedRunsEnd ==
  flow.state = "waiting" ~>
    \/ flow.state = "failed"
    \/ run.status \in Ended /\ (overlapped \/ [](run.status \in Ended))

=============================================================================
