---------------------------- MODULE BootstrapRun ----------------------------
(***************************************************************************)
(* What a bootstrap run promises, as the state machine of spec section     *)
(* 4.1: a run of Stage I (from the cloud or from a file) or of Stage II    *)
(* goes through its stages in order, ends Completed or Failed, and its     *)
(* terminal state is announced once by a completion notification.  A new  *)
(* run starts only when no run is in progress and the last one has been   *)
(* announced.  The process may die at any moment; a new process knows of  *)
(* no run.                                                                 *)
(***************************************************************************)
EXTENDS Naturals, Sequences

StageIStages  == <<"Acquiring", "Verifying", "Extracting", "LayoutChecking", "MarkerWriting">>
StageIIStages == <<"Replacing", "ConfigMerging", "CleaningUp">>

Jobs == {"Cloud", "File", "StageII"}

\* Acquiring is for the cloud mode only.
Pipeline(j) == CASE j = "Cloud" -> StageIStages
                 [] j = "File"  -> Tail(StageIStages)
                 [] OTHER       -> StageIIStages

VARIABLES
  run,       \* the job of the current or last run of this process, or "None"
  stage,     \* the stage of Pipeline(run) the run is in, or "None"
  outcome,   \* "None", "InProgress", "Completed", "Failed"
  notified   \* the terminal state has been announced

absVars == <<run, stage, outcome, notified>>

Init == run = "None" /\ stage = "None" /\ outcome = "None" /\ notified = FALSE

Idle == outcome = "None" \/ (outcome \in {"Completed", "Failed"} /\ notified)

Start(j) ==
  /\ Idle
  /\ run' = j /\ stage' = Head(Pipeline(j)) /\ outcome' = "InProgress" /\ notified' = FALSE

Advance ==
  /\ outcome = "InProgress"
  /\ \E i \in 1..Len(Pipeline(run)) - 1 :
       Pipeline(run)[i] = stage /\ stage' = Pipeline(run)[i + 1]
  /\ UNCHANGED <<run, outcome, notified>>

Complete ==
  /\ outcome = "InProgress" /\ stage = Pipeline(run)[Len(Pipeline(run))]
  /\ outcome' = "Completed" /\ stage' = "None"
  /\ UNCHANGED <<run, notified>>

Fail ==
  /\ outcome = "InProgress"
  /\ outcome' = "Failed" /\ stage' = "None"
  /\ UNCHANGED <<run, notified>>

Notify ==
  /\ outcome \in {"Completed", "Failed"} /\ ~notified
  /\ notified' = TRUE
  /\ UNCHANGED <<run, stage, outcome>>

\* The process ends (dies, aborts, or is quit and started again).
ProcessEnds == Init'

Next ==
  \/ \E j \in Jobs : Start(j)
  \/ Advance \/ Complete \/ Fail \/ Notify
  \/ ProcessEnds

\* A run in progress keeps going until it is announced, unless the process
\* ends.
Spec == Init /\ [][Next]_absVars /\ WF_absVars(Advance \/ Complete \/ Fail \/ Notify)

====
