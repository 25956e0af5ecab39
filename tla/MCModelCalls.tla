---------------------------- MODULE MCModelCalls ----------------------------
(* What is slow or repeated around the models, on small instances: a        *)
(* research run that Temporal executes again, and the feedback that teaches *)
(* an investor's preferences. They share no variable: a behaviour is one of *)
(* them, and the other stays where it began.                                *)
EXTENDS ResearchRuns, LearnedPreferences

VARIABLE machine  \* which of them this behaviour is

Init == machine \in {"research", "learning"} /\ RunInit /\ LearnInit

Next ==
  \/ machine = "research" /\ RunNext /\ UNCHANGED <<learnVars, machine>>
  \/ machine = "learning" /\ LearnNext /\ UNCHANGED <<runVars, machine>>

Spec == Init /\ [][Next]_<<runVars, learnVars, machine>> /\ RunFairness

(* Both state spaces are well typed.                                       *)
TypeOK == RunTypeOK /\ LearnTypeOK

=============================================================================
