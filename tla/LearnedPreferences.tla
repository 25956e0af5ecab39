-------------------------- MODULE LearnedPreferences --------------------------
(* What the feedback on proposals teaches about an investor:                  *)
(* ProposalService.add_feedback remembers an observation, infers from all     *)
(* the remembered ones which strategy family to avoid, and replaces the       *)
(* learned rows, each step a transaction of its own. Other feedback, a        *)
(* deletion, a reset or the end of the process may fall between any two.      *)
EXTENDS Naturals, Functions

CONSTANTS
  Handlers,   \* feedback requests that can be at work at once
  Families,   \* strategy families
  Reasons,    \* reasons a feedback may give
  Teaching,   \* those the learner looks at
  MinCount,   \* observations it asks for (5)
  MaxRows     \* bound: rows of one kind

ASSUME LearningAssumption ==
  /\ Teaching \subseteq Reasons
  /\ MinCount \in Nat \ {0}
  /\ MaxRows \in Nat

VARIABLES
  observed,   \* the episodic rows of the memory, by family and reason
  learned,    \* the learned rows, by family
  feedback,   \* each handler: where it stands and what it inferred
  alone       \* history: the last handler to end did all its work undisturbed

learnVars == <<observed, learned, feedback, alone>>

-----------------------------------------------------------------------------

Observations == Families \X Reasons

(* A handler; undisturbed is history: nobody else has touched the memory.  *)
Feedback == [at : {"idle", "list", "reset", "save"}, inferred : SUBSET Families, undisturbed : BOOLEAN]

Waiting == [at |-> "idle", inferred |-> {}, undisturbed |-> FALSE]

LearnTypeOK ==
  /\ observed \in [Observations -> 0 .. MaxRows]
  /\ learned \in [Families -> 0 .. MaxRows]
  /\ feedback \in [Handlers -> Feedback]
  /\ alone \in BOOLEAN

LearnInit ==
  /\ observed = [o \in Observations |-> 0]
  /\ learned = [f \in Families |-> 0]
  /\ feedback = [h \in Handlers |-> Waiting]
  /\ alone = FALSE

(* PreferenceLearner.infer: enough observations of one family for one      *)
(* reason, and four fifths of them all. At most one family has that share. *)
Inferred(rows) ==
  {f \in Families : \E r \in Teaching :
     rows[<<f, r>>] >= MinCount /\ 5 * rows[<<f, r>>] >= 4 * SumFunction(rows)}

(* Everyone at work has been disturbed.                                    *)
Disturbed == [h \in Handlers |-> [feedback[h] EXCEPT !.undisturbed = FALSE]]

-----------------------------------------------------------------------------
(* add_feedback.                                                           *)

Remember(h, o) ==
  /\ feedback[h].at = "idle"
  /\ observed[o] < MaxRows
  /\ observed' = [observed EXCEPT ![o] = @ + 1]
  /\ feedback' = [Disturbed EXCEPT ![h] =
                    [Waiting EXCEPT !.at = "list",
                                    !.undisturbed = \A g \in Handlers : feedback[g].at = "idle"]]
  /\ alone' = FALSE
  /\ UNCHANGED learned

ListMemories(h) ==
  /\ feedback[h].at = "list"
  /\ feedback' = [feedback EXCEPT ![h].at = "reset", ![h].inferred = Inferred(observed)]
  /\ UNCHANGED <<observed, learned, alone>>

(* Mutant of Cleared: the rows learned before stay.                        *)
ClearedNever == learned

Cleared == [f \in Families |-> 0]

(* reset_learned_preferences, as the first step of save_learned_preferences. *)
ResetLearned(h) ==
  /\ feedback[h].at = "reset"
  /\ learned' = Cleared
  /\ feedback' = [feedback EXCEPT ![h].at = "save"]
  /\ UNCHANGED <<observed, alone>>

(* At most one row is added: two handlers may each add one.                *)
SaveLearned(h) ==
  /\ feedback[h].at = "save"
  /\ \A f \in feedback[h].inferred : learned[f] < MaxRows
  /\ learned' = [f \in Families |-> IF f \in feedback[h].inferred THEN learned[f] + 1 ELSE learned[f]]
  /\ feedback' = [feedback EXCEPT ![h] = Waiting]
  /\ alone' = feedback[h].undisturbed
  /\ UNCHANGED observed

(* An error or the end of the process leaves what is done.                 *)
AbandonFeedback(h) ==
  /\ feedback[h].at # "idle"
  /\ feedback' = [feedback EXCEPT ![h] = Waiting]
  /\ UNCHANGED <<observed, learned, alone>>

-----------------------------------------------------------------------------
(* The investor's own hand.                                                *)

DeleteObservation(o) ==
  /\ observed[o] > 0
  /\ observed' = [observed EXCEPT ![o] = @ - 1]
  /\ feedback' = Disturbed
  /\ alone' = FALSE
  /\ UNCHANGED learned

DeleteLearned(f) ==
  /\ learned[f] > 0
  /\ learned' = [learned EXCEPT ![f] = @ - 1]
  /\ feedback' = Disturbed
  /\ alone' = FALSE
  /\ UNCHANGED observed

ResetByHand ==
  /\ \E f \in Families : learned[f] > 0
  /\ learned' = [f \in Families |-> 0]
  /\ feedback' = Disturbed
  /\ alone' = FALSE
  /\ UNCHANGED observed

LearnNext ==
  \/ \E h \in Handlers, o \in Observations : Remember(h, o)
  \/ \E h \in Handlers : ListMemories(h) \/ ResetLearned(h) \/ SaveLearned(h) \/ AbandonFeedback(h)
  \/ \E o \in Observations : DeleteObservation(o)
  \/ \E f \in Families : DeleteLearned(f)
  \/ ResetByHand

LearnSpec == LearnInit /\ [][LearnNext]_learnVars

-----------------------------------------------------------------------------
(* Properties.                                                             *)

(* Whatever overlapping, abandoned or undone feedback left behind, one     *)
(* feedback that nothing disturbs puts it right: the family that is        *)
(* avoided is then the one the remembered observations speak against, once, *)
(* and none if they no longer do. Between two that overlap the slower one  *)
(* may restore what the faster one has just replaced.                      *)
LearnedIsCurrent ==
  alone /\ (\A h \in Handlers : feedback[h].at = "idle") =>
    \A f \in Families : learned[f] = IF f \in Inferred(observed) THEN 1 ELSE 0

=============================================================================
