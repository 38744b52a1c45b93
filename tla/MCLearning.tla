----------------------------- MODULE MCLearning -----------------------------
(***************************************************************************)
(* Instances of the modules that learn: consolidation of measured reports, *)
(* exploration of a world, and the optimization step both pay for.  They   *)
(* meet in no variable here; a behaviour is of one of them (part), and the *)
(* others stay where they begin.                                           *)
(***************************************************************************)
EXTENDS Consolidation, Exploration, Optimization

CONSTANTS e1, e2, w1, w2, c1, c2

VARIABLE part

learningVars == <<consolidationVars, explorationVars, optimizationVars, part>>

-----------------------------------------------------------------------------
(* Consolidation: two environments that agree on one report, a report of   *)
(* the claim's own run, and one whose content no runner consumed.  The     *)
(* parts are closing with its trigger, two workers that run, and one that  *)
(* runs while two stage.                                                   *)

Pair(parent, child) == [parent |-> parent, candidate |-> child,
                        parent_passed |-> parent > 0, candidate_passed |-> child > 0]

MCReports == 1..4

MCReport ==
    [r \in MCReports |->
      [envs     |-> IF r = 2 THEN {e1, e2} ELSE IF r = 4 THEN {e2} ELSE {e1},
       results  |-> <<Pair(1, 1), Pair(1, IF r = 1 THEN 0 ELSE 1)>>,
       evidence |-> IF r = 4 THEN "identity_only" ELSE "projection_consumed",
       episode  |-> IF r = 3 THEN <<e1, 1>> ELSE None]]

Consolidating == {"close", "run", "stage"}

\* Two workers run in one environment; where proposals are staged the second one is
\* only drifted to.
ConsolidationPart ==
    /\ \/ ScopeNext
       \/ part = "close" /\ TriggerNext
       \/ part = "run" /\ (stop_root_budget \/ \E w \in ClaimWorkers : RunNext(w))
       \/ part = "stage" /\ (StageNext \/ RunNext(w1))
    /\ part = "run" => envMark'[e2] = envMark[e2]
    /\ part = "stage" => cycles'[e2] = cycles[e2]

Active(w) == part = "run" \/ (part = "stage" /\ w = w1)

-----------------------------------------------------------------------------
(* Exploration: a long search by one caller, or two callers that race,     *)
(* give up and resume over the first nodes.                                *)

MCRoots == {[seq |-> 1, branch |-> 1, cost |-> 2],
            [seq |-> 2, branch |-> 2, cost |-> 1],
            [seq |-> 3, branch |-> 3, cost |-> 2]}

Exploring == {"search", "race"}

ExplorationPart ==
    \/ register_world
    \/ \E c \in Callers : CallStep(c)
    \/ part = "search" /\ \E q \in Requests : q[2] = 1 /\ look(c1, q)
    \/ /\ part = "race"
       /\ \/ exploration_revoke \/ exploration_cleanup
          \/ \E c \in Callers : give_up(c)
          \/ record_history(<<1, 1>>)
          \/ \E q \in Requests : q[1] <= 2 /\ \E c \in Callers : (c = c1 => q[2] = 1) /\ look(c, q)

-----------------------------------------------------------------------------
(* Optimization: two workers of a step with one batch, one worker of the   *)
(* steps that go further or end earlier.                                   *)

Request(b, r, e, g) == [batches |-> b, rank |-> r, edit |-> e, grant |-> g]

Short == Request(1, FALSE, "changes", TRUE)
Long == Request(2, TRUE, "changes", TRUE)
MCInputs == {Short, Long, Request(1, FALSE, "same", TRUE), Request(1, FALSE, "fails", TRUE),
             Request(0, FALSE, "same", TRUE), Request(1, FALSE, "changes", FALSE)}

Stepping(w) == part = "step" /\ (w = w1 \/ input = Short)

OptimizationPart ==
    \/ \E w \in Workers : Stepping(w) /\ (WorkerStep(w) \/ optimization_crash(w) \/ store_fails(w))
    \/ optimization_revoke \/ optimization_cleanup

-----------------------------------------------------------------------------

MCInit ==
    /\ ConsolidationInit /\ ExplorationInit /\ OptimizationInit
    /\ part \in Consolidating \cup Exploring \cup {"step"}
    /\ part # "step" => input = Short

MCNext ==
    /\ UNCHANGED part
    /\ \/ part \in Consolidating /\ ConsolidationPart /\ UNCHANGED <<explorationVars, optimizationVars>>
       \/ part \in Exploring /\ ExplorationPart /\ UNCHANGED <<consolidationVars, optimizationVars>>
       \/ part = "step" /\ OptimizationPart /\ UNCHANGED <<consolidationVars, explorationVars>>

LearningSpec ==
    /\ MCInit /\ [][MCNext]_learningVars
    /\ \A w \in ClaimWorkers :
         /\ WF_consolidationVars(Active(w) /\ RunStep(w))
         /\ \A c \in Claims : WF_consolidationVars(Active(w) /\ Supervised(w, c))
    /\ ExplorationFairness(c1)
    /\ \A w \in Workers : WF_optimizationVars(Stepping(w) /\ WorkerStep(w))

\* What was written stands, whoever comes late: terminal records of a claim, the
\* scope under a staged proposal, nodes and settled dispatches, facts of a step.
LearningStands ==
    /\ RecordsStand
    /\ StagedIsStanding
    /\ SettledStands
    /\ FactsStand

\* What was begun ends: the running claim has a record, the open dispatch is
\* settled, the prepared step is complete - while their sources stand.
LearningEnds ==
    /\ RunningClaimEnds
    /\ ClaimEnds
    /\ StepEnds
=============================================================================
