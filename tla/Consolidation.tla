--------------------------- MODULE Consolidation ---------------------------
(***************************************************************************)
(* Deployment monitoring and consolidation (evo-engine monitoring.rs).     *)
(*                                                                         *)
(* Development reports measured in one frozen environment are closed as    *)
(* cycles of a scope.  Every two cycles make a generation that is claimed  *)
(* once and run once: the optimization step runs outside any transaction,  *)
(* its outcome is recorded after the sources are looked at again, and a    *)
(* candidate is first kept as a proposal.  A recorded proposal may be      *)
(* staged as one release candidate.                                        *)
(*                                                                         *)
(* A scope is one environment under one revocation watermark, so the       *)
(* environment stands for it.  A claim is <<environment, generation>>, a   *)
(* proposal is <<claim, input>>.                                           *)
(***************************************************************************)
EXTENDS Common, Integers, SequencesExt

CONSTANTS
    Envs,           \* environments
    Reports,        \* development reports
    Report,         \* [Reports -> [envs, results, evidence, episode]]: the scopes it agrees with
    ClaimWorkers,
    ClaimInputs,    \* requests a claim may be run with
    CandidateIds,   \* ids a release candidate may take
    MAX_GENERATION, \* generations looked at
    MAX_CRASHES     \* runs that are lost half way

Claims == Envs \X (1..MAX_GENERATION)
Proposals == Claims \X ClaimInputs
\* What a step may return; no_change stands for a rejected candidate too.
StepOutcomes == {"no_change", "candidate"}
RunOutcomes == StepOutcomes \cup {"uncertain", "revoked", "blocked_budget"}
ClaimStates == {"claimed", "no_contrast", "running"} \cup RunOutcomes
StagedCandidate == [bundle : Proposals \cup {None}, by : ClaimWorkers]

ASSUME ConsolidationShape ==
    /\ \A r \in Reports :
         /\ Report[r].envs \subseteq Envs /\ Report[r].results # <<>>
         /\ Report[r].evidence \in {"fixture", "projection_consumed", "identity_only"}
         /\ Report[r].episode \in Claims \cup {None}
    /\ MAX_GENERATION \in Nat \ {0} /\ MAX_CRASHES \in Nat

\* The absent value is none of the values a variable may hold instead.
ASSUME ConsolidationAbsent ==
    /\ None \notin Envs /\ None \notin CandidateIds /\ None \notin Nat
    /\ None \notin StepOutcomes /\ None \notin StagedCandidate

VARIABLES
    mark,           \* the namespace's revocation watermark
    envMark,        \* the watermark an environment was recorded under
    cycles,         \* the reports closed in each scope, in order
    boundTo,        \* the scope a report is bound to
    drifted,        \* scopes invalidated by an environment drift
    redacted,       \* scopes whose cycles, claims and proposals were redacted
    claim,          \* consolidation claims
    runRecord,      \* terminal run records, by claim
    revokedRecord,  \* terminal records of revoked runs, by claim
    stepDone,       \* what the journal holds of a step, by claim and input
    proposals,      \* stored proposals
    job,            \* what each worker is doing
    rootClosed,     \* the billing root is stopped
    candidate,      \* release candidates: the proposal's bundle and its proposer
    reservation,    \* the candidate id a proposal is reserved for
    linked,         \* proposals linked to their candidate
    crashes

scopeVars == <<envMark, cycles, boundTo, drifted>>
claimVars == <<claim, runRecord, revokedRecord, stepDone, proposals>>
stageVars == <<candidate, reservation, linked>>
consolidationVars == <<mark, scopeVars, redacted, claimVars, job, rootClosed, stageVars, crashes>>

RunRecord == [outcome : RunOutcomes, input : ClaimInputs \cup {None}, proposal : Proposals \cup {None}]
Job == [at : {"closed", "entered", "funded", "started", "stepped", "accepted", "ending"},
        claim : Claims, input : ClaimInputs \cup {None}, outcome : RunOutcomes \cup {None},
        proposal : Proposals \cup {None}]

ConsolidationTypeOK ==
    /\ mark \in Nat /\ crashes \in 0..MAX_CRASHES /\ rootClosed \in BOOLEAN
    /\ envMark \in [Envs -> (0..mark) \cup {None}]
    /\ boundTo \in [Reports -> Envs \cup {None}]
    /\ \A e \in Envs : /\ Range(cycles[e]) \subseteq {r \in Reports : boundTo[r] = e}
                       /\ cycles[e] # <<>> => envMark[e] # None
    /\ drifted \subseteq Envs /\ redacted \subseteq {e \in Envs : envMark[e] # None /\ envMark[e] < mark}
    /\ claim \in [Claims -> [state : ClaimStates, input : ClaimInputs \cup {None}] \cup {None}]
    /\ \A c \in Claims : claim[c] # None => 2 * c[2] <= Len(cycles[c[1]])
    /\ runRecord \in [Claims -> RunRecord \cup {None}]
    /\ revokedRecord \in [Claims -> RunRecord \cup {None}]
    /\ stepDone \in [Proposals -> StepOutcomes \cup {"prepared", None}]
    /\ proposals \subseteq {p \in Proposals : stepDone[p] = "candidate"}
    /\ job \in [ClaimWorkers -> Job \cup {None}]
    /\ candidate \in [CandidateIds -> StagedCandidate \cup {None}]
    /\ reservation \in [Proposals -> CandidateIds \cup {None}]
    /\ linked \subseteq proposals \X CandidateIds

ConsolidationInit ==
    /\ mark = 0 /\ crashes = 0 /\ rootClosed = FALSE
    /\ envMark = [e \in Envs |-> None]
    /\ cycles = [e \in Envs |-> <<>>]
    /\ boundTo = [r \in Reports |-> None]
    /\ drifted = {} /\ redacted = {}
    /\ claim = [c \in Claims |-> None]
    /\ runRecord = [c \in Claims |-> None] /\ revokedRecord = [c \in Claims |-> None]
    /\ stepDone = [p \in Proposals |-> None]
    /\ proposals = {}
    /\ job = [w \in ClaimWorkers |-> None]
    /\ candidate = [i \in CandidateIds |-> None]
    /\ reservation = [p \in Proposals |-> None]
    /\ linked = {}

-----------------------------------------------------------------------------
(* What is read again in every transaction.                                *)

\* require_watermark and validate_environment_live, with its run and application.
EnvironmentLive(e) == envMark[e] = mark

\* pair_tasks: a task whose score or pass state differs is contrast.
has_contrast(r) ==
    \E i \in DOMAIN Report[r].results :
      LET pair == Report[r].results[i] IN
      pair.parent # pair.candidate \/ pair.parent_passed # pair.candidate_passed

ClaimCycles(c) == {cycles[c[1]][2 * c[2] - 1], cycles[c[1]][2 * c[2]]}

\* load_claim_record: redacted claims are refused.
ClaimReads(c) == claim[c] # None /\ c[1] \notin redacted

\* validate_claim_sources: neither drifted nor revoked since.
ClaimSources(c) == c[1] \notin drifted /\ envMark[c[1]] = mark

load_live_claim(c) == ClaimReads(c) /\ ClaimSources(c)

\* require_content_cycles: skill content needs a runner that consumed it.
require_content_cycles(c) == \A r \in ClaimCycles(c) : Report[r].evidence # "identity_only"

\* validate_execution_binding and the compiler inputs resolved at the mark the
\* request names, which is the claim's.
Runnable(c) == claim[c].state \in {"claimed", "running"} /\ envMark[c[1]] = mark

-----------------------------------------------------------------------------
(* Environments and cycles.                                                *)

record_environment_from_run(e) ==
    /\ envMark[e] = None
    /\ envMark' = [envMark EXCEPT ![e] = mark]
    /\ UNCHANGED <<mark, cycles, boundTo, drifted, redacted, claimVars, job, rootClosed, stageVars, crashes>>

\* A previous and a current environment, both live, and a scope of the previous.
record_environment_drift(e, f) ==
    /\ e # f /\ EnvironmentLive(e) /\ EnvironmentLive(f)
    /\ cycles[e] # <<>> /\ e \notin drifted
    /\ drifted' = drifted \cup {e}
    /\ UNCHANGED <<mark, envMark, cycles, boundTo, redacted, claimVars, job, rootClosed, stageVars, crashes>>

\* reject_consolidation_own_episode, for claims and what is left of them.
reject_own_episode(r) == Report[r].episode # None => claim[Report[r].episode] = None

\* The report of a consolidation's own run exists once that run has started.
Reported(r) ==
    Report[r].episode # None => claim[Report[r].episode] # None /\ claim[Report[r].episode].state # "claimed"

\* The immutable binding of a report to the scope it was closed in.
Bindable(r, e) == boundTo[r] \in {None, e}

Closable(e, r) ==
    /\ e \in Report[r].envs
    /\ Reported(r)
    /\ EnvironmentLive(e) /\ e \notin drifted
    /\ reject_own_episode(r)
    /\ r \notin Range(cycles[e])
    /\ Bindable(r, e)

\* Mistake: the report keeps no binding.
CloseUnbound(e, r) ==
    /\ Closable(e, r)
    /\ cycles' = [cycles EXCEPT ![e] = Append(@, r)]
    /\ UNCHANGED boundTo

CloseCycle(e, r) ==
    /\ Closable(e, r)
    /\ cycles' = [cycles EXCEPT ![e] = Append(@, r)]
    /\ boundTo' = [boundTo EXCEPT ![r] = e]

close_development_cycle(e, r) ==
    /\ CloseCycle(e, r)
    /\ UNCHANGED <<mark, envMark, drifted, redacted, claimVars, job, rootClosed, stageVars, crashes>>

-----------------------------------------------------------------------------
(* Claims.                                                                 *)

Generation(e) == Len(cycles[e]) \div 2

\* The newest complete generation of a live scope, not claimed yet.
Claimable(e) ==
    /\ Generation(e) \in 1..MAX_GENERATION
    /\ claim[<<e, Generation(e)>>] = None
    /\ e \notin drifted /\ e \notin redacted /\ EnvironmentLive(e)

NewClaim(c) == [state |-> IF \E r \in ClaimCycles(c) : has_contrast(r) THEN "claimed" ELSE "no_contrast",
                input |-> None]

ClaimGeneration(e) == claim' = [claim EXCEPT ![<<e, Generation(e)>>] = NewClaim(<<e, Generation(e)>>)]

claim_consolidation(e) ==
    /\ Claimable(e)
    /\ ClaimGeneration(e)
    /\ UNCHANGED <<mark, scopeVars, redacted, runRecord, revokedRecord, stepDone, proposals, job,
                   rootClosed, stageVars, crashes>>

Working(at, c, i, outcome, p) ==
    [at |-> at, claim |-> c, input |-> i, outcome |-> outcome, proposal |-> p]

\* The cycle is committed; the trigger runs in a transaction of its own.
close_development_cycle_and_trigger(w, e, r) ==
    /\ job[w] = None
    /\ CloseCycle(e, r)
    /\ job' = [job EXCEPT ![w] = Working("closed", <<e, 1>>, None, None, None)]
    /\ UNCHANGED <<mark, envMark, drifted, redacted, claimVars, rootClosed, stageVars, crashes>>

trigger_from_claim(w) ==
    /\ job[w] # None /\ job[w].at = "closed"
    /\ job' = [job EXCEPT ![w] = None]
    /\ \/ Claimable(job[w].claim[1]) /\ ClaimGeneration(job[w].claim[1])
       \/ ~Claimable(job[w].claim[1]) /\ UNCHANGED claim
    /\ UNCHANGED <<mark, scopeVars, redacted, runRecord, revokedRecord, stepDone, proposals,
                   rootClosed, stageVars, crashes>>

complete_no_contrast(c) ==
    /\ load_live_claim(c)
    /\ runRecord[c] = None /\ claim[c].state = "no_contrast"
    /\ claim' = [claim EXCEPT ![c].state = "no_change"]
    /\ runRecord' = [runRecord EXCEPT ![c] = [outcome |-> "no_change", input |-> None, proposal |-> None]]
    /\ UNCHANGED <<mark, scopeVars, redacted, revokedRecord, stepDone, proposals, job, rootClosed,
                   stageVars, crashes>>

-----------------------------------------------------------------------------
(* Running a claim.                                                        *)

runVars == <<mark, scopeVars, redacted, rootClosed, stageVars, crashes>>

Moves(w, j) == job' = [job EXCEPT ![w] = j]
Ending(w, outcome, p) == Working("ending", job[w].claim, job[w].input, outcome, p)

Recorded(c) == runRecord[c] # None \/ revokedRecord[c] # None

\* A claim without a record is admitted; one whose scope has drifted while it was
\* running ends as revoked.
run_consolidation(w, c, i) ==
    /\ job[w] = None
    /\ ClaimReads(c) /\ ~Recorded(c)
    /\ Runnable(c) /\ require_content_cycles(c)
    /\ \/ ClaimSources(c) /\ Moves(w, Working("entered", c, i, None, None))
       \/ /\ ~ClaimSources(c) /\ claim[c].state = "running"
          /\ Moves(w, Working("ending", c, i, "revoked", None))
    /\ UNCHANGED <<runVars, claimVars>>

\* A recorded claim is read again: its sources may be gone by now.
read_recorded_run(w, c, i) ==
    /\ job[w] = None
    /\ ClaimReads(c) /\ runRecord[c] # None /\ revokedRecord[c] = None
    /\ runRecord[c].input = i
    /\ stepDone[<<c, i>>] # None \/ envMark[c[1]] = mark
    /\ ~ClaimSources(c)
    /\ Moves(w, Working("ending", c, i, "revoked", None))
    /\ UNCHANGED <<runVars, claimVars>>

\* The root budget is read in a session of its own.
check_root_budget(w) ==
    /\ job[w] # None /\ job[w].at = "entered"
    /\ Moves(w, IF rootClosed THEN Ending(w, "blocked_budget", None) ELSE [job[w] EXCEPT !.at = "funded"])
    /\ UNCHANGED <<runVars, claimVars>>

\* Claimed, or running for this very input.
Dispatchable(c, i) == claim[c].state = "claimed" \/ (claim[c].state = "running" /\ claim[c].input = i)

start_running(w) ==
    LET c == job[w].claim IN
    /\ job[w] # None /\ job[w].at = "funded"
    /\ \/ /\ load_live_claim(c) /\ Dispatchable(c, job[w].input)
          /\ claim' = [claim EXCEPT ![c] = [state |-> "running", input |-> job[w].input]]
          /\ Moves(w, [job[w] EXCEPT !.at = "started"])
       \/ /\ ~(load_live_claim(c) /\ Dispatchable(c, job[w].input))
          /\ Moves(w, None) /\ UNCHANGED claim
    /\ UNCHANGED <<runVars, runRecord, revokedRecord, stepDone, proposals>>

\* run_consolidation_step: the journal keeps one outcome of a step.
step_returns(w) ==
    LET s == <<job[w].claim, job[w].input>> IN
    /\ job[w] # None /\ job[w].at = "started"
    /\ \E o \in IF stepDone[s] \in StepOutcomes THEN {stepDone[s]} ELSE StepOutcomes :
         /\ stepDone' = [stepDone EXCEPT ![s] = o]
         /\ Moves(w, [job[w] EXCEPT !.at = "stepped", !.outcome = o])
    /\ UNCHANGED <<runVars, claim, runRecord, revokedRecord, proposals>>

\* The step fails: a port, the journal or a budget refuses.
step_fails(w) ==
    LET c == job[w].claim IN
    /\ job[w] # None /\ job[w].at = "started"
    /\ stepDone' = [stepDone EXCEPT ![<<c, job[w].input>>] = IF @ = None THEN "prepared" ELSE @]
    /\ Moves(w, Ending(w, IF ClaimSources(c) THEN "uncertain" ELSE "revoked", None))
    /\ UNCHANGED <<runVars, claim, runRecord, revokedRecord, proposals>>

\* The sources are looked at again once the step is back.
sources_after_step(w) ==
    /\ job[w] # None /\ job[w].at = "stepped"
    /\ Moves(w, IF ~ClaimSources(job[w].claim) THEN Ending(w, "revoked", None)
               ELSE IF job[w].outcome = "candidate" THEN [job[w] EXCEPT !.at = "accepted"]
               ELSE Ending(w, job[w].outcome, None))
    /\ UNCHANGED <<runVars, claimVars>>

\* The proposal and its edges, with the claim and its sources checked once more.
persist_consolidation_proposal(w) ==
    LET c == job[w].claim
        p == <<c, job[w].input>>
    IN /\ job[w] # None /\ job[w].at = "accepted"
       /\ \/ /\ ClaimSources(c) /\ c[1] \notin redacted
             /\ proposals' = proposals \cup {p}
             /\ Moves(w, Ending(w, "candidate", p))
          \/ /\ ~(ClaimSources(c) /\ c[1] \notin redacted)
             /\ Moves(w, Ending(w, "revoked", None))
             /\ UNCHANGED proposals
       /\ UNCHANGED <<runVars, claim, runRecord, revokedRecord, stepDone>>

\* Mistake: the last run to end has its say.
LastWins(c, records) == TRUE

\* A record that is there already stays, whatever this run found.
FirstWins(c, records) == records[c] = None

Record(w) == [outcome |-> job[w].outcome, input |-> job[w].input, proposal |-> job[w].proposal]

\* Record and claim state are written together; the claim only has to be readable.
persist_terminal_run(w) ==
    LET c == job[w].claim
        revoked == job[w].outcome = "revoked"
        writes == ClaimReads(c) /\ FirstWins(c, IF revoked THEN revokedRecord ELSE runRecord)
    IN /\ job[w] # None /\ job[w].at = "ending"
       /\ Moves(w, None)
       /\ \/ /\ writes
             /\ claim' = [claim EXCEPT ![c] = [state |-> job[w].outcome, input |-> job[w].input]]
             /\ IF revoked
                THEN revokedRecord' = [revokedRecord EXCEPT ![c] = Record(w)] /\ UNCHANGED runRecord
                ELSE runRecord' = [runRecord EXCEPT ![c] = Record(w)] /\ UNCHANGED revokedRecord
          \/ ~writes /\ UNCHANGED <<claim, runRecord, revokedRecord>>
       /\ UNCHANGED <<runVars, stepDone, proposals>>

\* The process stops; what is committed is all that is left.
consolidation_crash(w) ==
    /\ job[w] # None /\ crashes < MAX_CRASHES
    /\ Moves(w, None)
    /\ crashes' = crashes + 1
    /\ UNCHANGED <<mark, scopeVars, redacted, rootClosed, stageVars, claimVars>>

-----------------------------------------------------------------------------
(* Staging.                                                                *)

\* load_stageable_current_proposal: the recorded candidate outcome of a live claim.
load_stageable_proposal(p) ==
    LET c == p[1] IN
    /\ p \in proposals
    /\ load_live_claim(c)
    /\ claim[c].state = "candidate"
    /\ runRecord[c] # None /\ runRecord[c].outcome = "candidate" /\ runRecord[c].proposal = p
    /\ require_content_cycles(c)

holds_bundle(id, p) == candidate[id] # None /\ candidate[id].bundle = p

Free(id, p) == candidate[id] # None => holds_bundle(id, p)

\* Another id only if other content has taken the one reserved.
reserve_staging_identity(p, id) ==
    reservation[p] # id => /\ reservation[p] # None => ~Free(reservation[p], p)
                           /\ Free(id, p)

\* The reservation, the candidate and the edge are one transaction.  A candidate of
\* this bundle that another proposer staged keeps the reservation, and no edge.
stage_current_consolidation_candidate(w, p, id) ==
    /\ load_stageable_proposal(p)
    /\ reserve_staging_identity(p, id)
    /\ Free(id, p)
    /\ reservation' = [reservation EXCEPT ![p] = id]
    /\ IF candidate[id] # None => candidate[id].by = w
       THEN /\ candidate' = [candidate EXCEPT ![id] = [bundle |-> p, by |-> w]]
            /\ linked' = linked \cup {<<p, id>>}
       ELSE UNCHANGED <<candidate, linked>>
    /\ UNCHANGED <<mark, scopeVars, redacted, claimVars, job, rootClosed, crashes>>

\* A release candidate staged directly, once there is a proposal it could meet: of
\* the same bundle or of something else.
stage_bundle(w, id, bundle) ==
    /\ candidate[id] = None /\ proposals # {}
    /\ bundle \in proposals \cup {None}
    /\ candidate' = [candidate EXCEPT ![id] = [bundle |-> bundle, by |-> w]]
    /\ UNCHANGED <<mark, scopeVars, redacted, claimVars, job, rootClosed, reservation, linked, crashes>>

-----------------------------------------------------------------------------
(* The rest of the system.                                                 *)

consolidation_revoke ==
    /\ mark = 0
    /\ mark' = 1
    /\ UNCHANGED <<scopeVars, redacted, claimVars, job, rootClosed, stageVars, crashes>>

\* Cleanup redacts what was derived from the revoked source.
consolidation_cleanup(e) ==
    /\ envMark[e] # None /\ envMark[e] < mark /\ e \notin redacted
    /\ redacted' = redacted \cup {e}
    /\ UNCHANGED <<mark, scopeVars, claimVars, job, rootClosed, stageVars, crashes>>

\* Stopped while a run has been admitted: earlier is the same to that run.
stop_root_budget ==
    /\ ~rootClosed /\ \E w \in ClaimWorkers : job[w] # None /\ job[w].at = "entered"
    /\ rootClosed' = TRUE
    /\ UNCHANGED <<mark, scopeVars, redacted, claimVars, job, stageVars, crashes>>

RunStep(w) ==
    \/ check_root_budget(w) \/ start_running(w) \/ step_returns(w) \/ step_fails(w)
    \/ sources_after_step(w) \/ persist_consolidation_proposal(w) \/ persist_terminal_run(w)

\* Scopes and claims, what happens around them, runs and staging.
ScopeNext ==
    \/ \E e \in Envs :
         \/ record_environment_from_run(e) \/ claim_consolidation(e) \/ consolidation_cleanup(e)
         \/ \E f \in Envs : record_environment_drift(e, f)
         \/ \E r \in Reports : close_development_cycle(e, r)
    \/ \E c \in Claims : complete_no_contrast(c)
    \/ consolidation_revoke

TriggerNext ==
    \E w \in ClaimWorkers :
      \/ trigger_from_claim(w)
      \/ \E e \in Envs, r \in Reports : close_development_cycle_and_trigger(w, e, r)

RunNext(w) ==
    \/ RunStep(w) \/ consolidation_crash(w)
    \/ \E c \in Claims, i \in ClaimInputs : run_consolidation(w, c, i) \/ read_recorded_run(w, c, i)

StageNext ==
    \E w \in ClaimWorkers, id \in CandidateIds :
      \/ \E p \in Proposals : stage_current_consolidation_candidate(w, p, id)
      \/ \E b \in Proposals \cup {None} : stage_bundle(w, id, b)

ConsolidationNext ==
    ScopeNext \/ TriggerNext \/ (\E w \in ClaimWorkers : RunNext(w)) \/ StageNext \/ stop_root_budget

ConsolidationSpec == ConsolidationInit /\ [][ConsolidationNext]_consolidationVars

-----------------------------------------------------------------------------
(* Properties.                                                             *)

\* A report is evidence once: in one scope, in one place of it.
ReportCountsOnce ==
    \A e, f \in Envs : \A i \in DOMAIN cycles[e], j \in DOMAIN cycles[f] :
      cycles[e][i] = cycles[f][j] => e = f /\ i = j

\* A consolidation never feeds the next one: no cycle was measured by the run of
\* a claim.
NoSelfFeeding ==
    \A e \in Envs : \A r \in Range(cycles[e]) :
      Report[r].episode = None \/ claim[Report[r].episode] = None

\* A record of a candidate names a proposal that is stored, whatever run wrote it
\* and wherever the run before it was cut off.
CandidateHasProposal ==
    \A c \in Claims : (runRecord[c] # None /\ runRecord[c].outcome = "candidate") =>
      runRecord[c].proposal = <<c, runRecord[c].input>> /\ runRecord[c].proposal \in proposals

\* A proposal becomes one release candidate at most, and is reserved for it.
OneCandidatePerProposal ==
    \A p \in Proposals : \A i, j \in CandidateIds :
      (<<p, i>> \in linked /\ (<<p, j>> \in linked \/ reservation[p] = j)) => i = j

\* Terminal records stand once they are written, however many runs of the claim
\* end after them.
RecordsStand ==
    [][\A c \in Claims :
         /\ runRecord[c] # None => runRecord'[c] = runRecord[c]
         /\ revokedRecord[c] # None => revokedRecord'[c] = revokedRecord[c]]_consolidationVars

\* A proposal is staged only while nothing was taken back: its scope stands where
\* it was claimed, and no run of the claim was ever ended as revoked.
StagedIsStanding ==
    [][\A p \in Proposals, id \in CandidateIds :
         (<<p, id>> \in linked' /\ <<p, id>> \notin linked) =>
           /\ envMark[p[1][1]] = mark /\ p[1][1] \notin drifted
           /\ revokedRecord[p[1]] = None
           /\ runRecord[p[1]] # None /\ runRecord[p[1]].proposal = p]_consolidationVars

\* Supervised jobs take their next step, and run again what was cut off.
Supervised(w, c) == claim[c] # None /\ claim[c].state = "running" /\ run_consolidation(w, c, claim[c].input)

\* A running claim ends with a record, through crashes and drift, unless a source
\* is revoked meanwhile.
RunningClaimEnds ==
    \A c \in Claims :
      (claim[c] # None /\ claim[c].state = "running") ~> (Recorded(c) \/ mark # 0)

\* What holds of consolidation in every state: no report counts twice or comes from
\* the run of a claim, a candidate record names a stored proposal, and a proposal
\* is one release candidate at most.
ConsolidationSafe ==
    /\ ConsolidationTypeOK
    /\ ReportCountsOnce
    /\ NoSelfFeeding
    /\ CandidateHasProposal
    /\ OneCandidatePerProposal
=============================================================================
