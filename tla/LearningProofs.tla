--------------------------- MODULE LearningProofs ---------------------------
(***************************************************************************)
(* The learning loop, for any bounds: deployment monitoring and            *)
(* consolidation, and the optimization step.                               *)
(***************************************************************************)
EXTENDS Consolidation, Optimization, TLAPS

-----------------------------------------------------------------------------
(***************************************************************************)
(* Deployment monitoring and consolidation, for any number of              *)
(* environments, reports, generations, workers and lost runs.              *)
(***************************************************************************)

(* The invariant.                                                          *)

ClaimRow == [state : ClaimStates, input : ClaimInputs \cup {None}]

\* The cycles s of a scope e: reports bound to it, none of them twice and none of
\* a consolidation's own run; a scope with cycles has its environment recorded.
CyclesSound(e, s, bound, m) ==
    /\ \A i \in 1..Len(s) : bound[s[i]] = e /\ Report[s[i]].episode = None
    /\ \A i, j \in 1..Len(s) : s[i] = s[j] => i = j
    /\ Len(s) # 0 => m # None

ScopesSound ==
    /\ mark \in Nat /\ envMark \in [Envs -> Nat \cup {None}]
    /\ \A e \in Envs : envMark[e] # None => envMark[e] <= mark
    /\ boundTo \in [Reports -> Envs \cup {None}]
    /\ cycles \in [Envs -> Seq(Reports)]
    /\ drifted \subseteq Envs
    /\ redacted \subseteq Envs /\ \A e \in redacted : envMark[e] # None /\ envMark[e] < mark
    /\ \A e \in Envs : CyclesSound(e, cycles[e], boundTo, envMark[e])

\* Nothing brings the sources of a scope back.
Gone(e, marks, m, drift) == e \in drift \/ (marks[e] # None /\ marks[e] < m)

ClaimsSound ==
    /\ claim \in [Claims -> ClaimRow \cup {None}]
    /\ \A c \in Claims : claim[c] # None => 2 * c[2] <= Len(cycles[c[1]])

\* A step's outcome is kept, and only a candidate is proposed.
StepsSound ==
    /\ stepDone \in [Proposals -> StepOutcomes \cup {"prepared", None}]
    /\ proposals \subseteq Proposals /\ \A p \in proposals : stepDone[p] = "candidate"

\* What a worker knows of its claim while it is between two transactions.
Knows(j, marks, m, drift, done, stored) ==
    /\ j.at # "closed" => j.input \in ClaimInputs /\ marks[j.claim[1]] # None
    /\ j.at \in {"stepped", "accepted"} =>
         /\ j.outcome \in StepOutcomes
         /\ j.outcome = "candidate" => done[<<j.claim, j.input>>] = "candidate"
    /\ j.at = "accepted" => j.outcome = "candidate"
    /\ j.at = "ending" =>
         /\ j.outcome \in RunOutcomes
         /\ j.outcome = "candidate" => j.proposal = <<j.claim, j.input>> /\ j.proposal \in stored
         /\ j.outcome = "revoked" => Gone(j.claim[1], marks, m, drift)

JobsSound ==
    /\ job \in [ClaimWorkers -> Job \cup {None}]
    /\ \A w \in ClaimWorkers : job[w] # None => Knows(job[w], envMark, mark, drifted, stepDone, proposals)

RecordsSound ==
    /\ runRecord \in [Claims -> RunRecord \cup {None}]
    /\ revokedRecord \in [Claims -> RunRecord \cup {None}]
    /\ \A c \in Claims : revokedRecord[c] # None => Gone(c[1], envMark, mark, drifted)
    /\ \A c \in Claims : (runRecord[c] # None /\ runRecord[c].outcome = "candidate") =>
         runRecord[c].proposal = <<c, runRecord[c].input>> /\ runRecord[c].proposal \in proposals

\* A linked proposal is reserved for its candidate, and the candidate holds it.
StageSound ==
    /\ candidate \in [CandidateIds -> StagedCandidate \cup {None}]
    /\ reservation \in [Proposals -> CandidateIds \cup {None}]
    /\ linked \subseteq proposals \X CandidateIds
    /\ \A p \in Proposals, i \in CandidateIds :
         <<p, i>> \in linked => reservation[p] = i /\ holds_bundle(i, p)

BoundsSound == crashes \in 0..MAX_CRASHES /\ rootClosed \in BOOLEAN

ConsolidationInv ==
    ScopesSound /\ ClaimsSound /\ StepsSound /\ JobsSound /\ RecordsSound /\ StageSound /\ BoundsSound

LEMMA ConsolidationInvIsSafe == ConsolidationInv => ConsolidationSafe
<1> SUFFICES ASSUME ConsolidationInv PROVE ConsolidationSafe
  OBVIOUS
<1> USE DEF ConsolidationInv
<1>1. ASSUME NEW e \in Envs
      PROVE  /\ cycles[e] \in Seq(Reports) /\ DOMAIN cycles[e] = 1..Len(cycles[e]) /\ Len(cycles[e]) \in Nat
             /\ CyclesSound(e, cycles[e], boundTo, envMark[e])
             /\ cycles[e] # <<>> => Len(cycles[e]) # 0
  BY DEF ScopesSound
<1>2. ReportCountsOnce
  BY <1>1, ConsolidationAbsent DEF ReportCountsOnce, CyclesSound, ScopesSound
<1>3. NoSelfFeeding
  BY <1>1 DEF NoSelfFeeding, CyclesSound, Range
<1>4. CandidateHasProposal
  BY DEF CandidateHasProposal, RecordsSound
<1>5. OneCandidatePerProposal
  BY DEF OneCandidatePerProposal, StageSound
<1>6. ConsolidationTypeOK
  <2>1. envMark \in [Envs -> (0..mark) \cup {None}]
    BY DEF ScopesSound
  <2>2. \A e \in Envs : /\ Range(cycles[e]) \subseteq {r \in Reports : boundTo[r] = e}
                        /\ cycles[e] # <<>> => envMark[e] # None
    BY <1>1 DEF Range, CyclesSound
  <2>3. redacted \subseteq {e \in Envs : envMark[e] # None /\ envMark[e] < mark}
    BY DEF ScopesSound
  <2>4. proposals \subseteq {p \in Proposals : stepDone[p] = "candidate"}
    BY DEF StepsSound
  <2> QED
    BY <2>1, <2>2, <2>3, <2>4
    DEF ConsolidationTypeOK, ScopesSound, ClaimsSound, ClaimRow, StepsSound, JobsSound, RecordsSound, StageSound,
        BoundsSound
<1> QED BY <1>2, <1>3, <1>4, <1>5, <1>6 DEF ConsolidationSafe

LEMMA ConsolidationInvInit == ConsolidationInit => ConsolidationInv
<1> SUFFICES ASSUME ConsolidationInit PROVE ConsolidationInv
  OBVIOUS
<1> USE DEF ConsolidationInit
<1>1. ScopesSound
  BY DEF ScopesSound, CyclesSound
<1>2. ClaimsSound /\ StepsSound
  BY DEF ClaimsSound, StepsSound
<1>3. JobsSound /\ RecordsSound
  BY DEF JobsSound, RecordsSound
<1>4. StageSound
  BY DEF StageSound
<1>5. BoundsSound
  <2>1. MAX_CRASHES \in Nat
    BY ConsolidationShape
  <2>2. crashes \in 0..MAX_CRASHES
    BY <2>1
  <2>3. rootClosed \in BOOLEAN
    BY Zenon
  <2> QED BY <2>2, <2>3 DEF BoundsSound
<1> QED BY <1>1, <1>2, <1>3, <1>4, <1>5 DEF ConsolidationInv

-----------------------------------------------------------------------------
(* What no step takes back.                                                *)

Onward ==
    /\ mark' \in Nat /\ mark <= mark' /\ drifted \subseteq drifted'
    /\ \A e \in Envs : envMark[e] # None => envMark'[e] = envMark[e]
    /\ \A e \in Envs : Len(cycles[e]) <= Len(cycles'[e]) /\ Len(cycles'[e]) \in Nat
    /\ \A p \in Proposals : stepDone[p] = "candidate" => stepDone'[p] = "candidate"
    /\ proposals \subseteq proposals'

LEMMA GoneStays ==
    ASSUME ScopesSound, Onward, NEW e \in Envs, Gone(e, envMark, mark, drifted) PROVE Gone(e, envMark', mark', drifted')
<1>1. envMark[e] # None => envMark[e] \in Nat /\ envMark'[e] = envMark[e]
  BY DEF ScopesSound, Onward
<1> QED BY <1>1 DEF ScopesSound, Onward, Gone

LEMMA KnowsStays ==
    ASSUME ScopesSound, Onward, NEW j \in Job, Knows(j, envMark, mark, drifted, stepDone, proposals) PROVE Knows(j, envMark', mark', drifted', stepDone', proposals')
<1>1. j.claim \in Claims /\ j.claim[1] \in Envs
  BY DEF Job, Claims
<1>2. Gone(j.claim[1], envMark, mark, drifted) => Gone(j.claim[1], envMark', mark', drifted')
  BY <1>1, GoneStays
<1>3. envMark[j.claim[1]] # None => envMark'[j.claim[1]] # None
  BY <1>1 DEF Onward
<1>4. j.input \in ClaimInputs /\ stepDone[<<j.claim, j.input>>] = "candidate" => stepDone'[<<j.claim, j.input>>] = "candidate"
  BY <1>1 DEF Onward, Proposals
<1>5. j.proposal \in proposals => j.proposal \in proposals'
  BY DEF Onward
<1> QED BY <1>2, <1>3, <1>4, <1>5 DEF Knows

LEMMA SameRuns ==
    ASSUME ScopesSound, JobsSound, Onward, UNCHANGED job PROVE JobsSound'
<1>1. ASSUME NEW w \in ClaimWorkers, job[w] # None PROVE job[w] \in Job /\ Knows(job[w], envMark, mark, drifted, stepDone, proposals)
  BY <1>1 DEF JobsSound
<1>2. \A w \in ClaimWorkers : job[w] # None => Knows(job[w], envMark', mark', drifted', stepDone', proposals')
  BY <1>1, KnowsStays
<1> QED BY <1>2 DEF JobsSound, Knows

\* One worker goes on to j.
LEMMA OneRunMoves ==
    ASSUME ScopesSound, JobsSound, Onward, NEW w \in ClaimWorkers, NEW j \in Job \cup {None},
           job' = [job EXCEPT ![w] = j], j # None => Knows(j, envMark', mark', drifted', stepDone', proposals')
    PROVE  JobsSound'
<1>1. ASSUME NEW v \in ClaimWorkers, job[v] # None PROVE job[v] \in Job /\ Knows(job[v], envMark', mark', drifted', stepDone', proposals')
  BY <1>1, KnowsStays DEF JobsSound
<1>2. job' \in [ClaimWorkers -> Job \cup {None}]
  BY DEF JobsSound
<1>3. \A v \in ClaimWorkers : job'[v] = IF v = w THEN j ELSE job[v]
  BY DEF JobsSound
<1>4. \A v \in ClaimWorkers : job'[v] # None => Knows(job'[v], envMark', mark', drifted', stepDone', proposals')
  BY <1>1, <1>3
<1> QED BY <1>2, <1>4 DEF JobsSound

LEMMA SameRecords ==
    ASSUME ScopesSound, RecordsSound, Onward, UNCHANGED <<runRecord, revokedRecord>> PROVE RecordsSound'
<1>1. \A c \in Claims : revokedRecord[c] # None => Gone(c[1], envMark', mark', drifted')
  BY GoneStays DEF RecordsSound, Claims
<1> QED BY <1>1 DEF RecordsSound, Onward, Gone

LEMMA SameClaims ==
    ASSUME ClaimsSound, ScopesSound, Onward, UNCHANGED claim PROVE ClaimsSound'
<1>1. ASSUME NEW c \in Claims, claim[c] # None PROVE 2 * c[2] <= Len(cycles'[c[1]])
  <2>1. c[1] \in Envs /\ c[2] \in Nat /\ 2 * c[2] <= Len(cycles[c[1]])
    BY <1>1 DEF Claims, ClaimsSound
  <2>2. Len(cycles[c[1]]) \in Nat
    BY <2>1 DEF ScopesSound
  <2> QED BY <2>1, <2>2 DEF Onward
<1> QED BY <1>1 DEF ClaimsSound

LEMMA SameStage ==
    ASSUME StageSound, Onward, UNCHANGED stageVars PROVE StageSound'
  BY DEF StageSound, Onward, stageVars, holds_bundle

LEMMA SameScopes ==
    ASSUME ScopesSound, UNCHANGED <<mark, scopeVars, redacted>> PROVE ScopesSound'
  BY DEF ScopesSound, scopeVars

LEMMA SameSteps ==
    ASSUME StepsSound, UNCHANGED <<stepDone, proposals>> PROVE StepsSound'
  BY DEF StepsSound

LEMMA NothingTakenBack ==
    ASSUME ScopesSound, UNCHANGED <<mark, scopeVars>>, 
           \A p \in Proposals : stepDone[p] = "candidate" => stepDone'[p] = "candidate",
           proposals \subseteq proposals'
    PROVE  Onward
<1>1. \A e \in Envs : Len(cycles[e]) \in Nat
  BY DEF ScopesSound
<1> QED BY <1>1 DEF Onward, ScopesSound, scopeVars

-----------------------------------------------------------------------------
(* Scopes.                                                                 *)

LEMMA RecordStep ==
    ASSUME ConsolidationInv, NEW e \in Envs, record_environment_from_run(e) PROVE ConsolidationInv'
<1> USE DEF ConsolidationInv, record_environment_from_run, claimVars, stageVars
<1>1. \A f \in Envs : envMark'[f] = IF f = e THEN mark ELSE envMark[f]
  BY DEF ScopesSound
<1>2. envMark' \in [Envs -> Nat \cup {None}] /\ mark # None
  BY ConsolidationAbsent DEF ScopesSound
<1>3. \A f \in Envs : CyclesSound(f, cycles'[f], boundTo', envMark'[f])
  BY <1>1, <1>2 DEF CyclesSound, ScopesSound
<1>4. ScopesSound'
  BY <1>1, <1>2, <1>3 DEF ScopesSound
<1>5. Onward
  <2>1. \A f \in Envs : Len(cycles[f]) \in Nat
    BY DEF ScopesSound
  <2> QED BY <1>1, <2>1 DEF Onward, ScopesSound
<1>6. StepsSound' /\ BoundsSound'
  BY DEF StepsSound, BoundsSound
<1> QED BY <1>4, <1>5, <1>6, SameRuns, SameRecords, SameClaims, SameStage

LEMMA DriftStep ==
    ASSUME ConsolidationInv, NEW e \in Envs, NEW f \in Envs, record_environment_drift(e, f) PROVE ConsolidationInv'
<1> USE DEF ConsolidationInv, record_environment_drift, claimVars, stageVars
<1>1. ScopesSound'
  BY DEF ScopesSound
<1>2. Onward
  <2>1. \A g \in Envs : Len(cycles[g]) \in Nat
    BY DEF ScopesSound
  <2> QED BY <2>1 DEF Onward, ScopesSound
<1>3. StepsSound' /\ BoundsSound'
  BY DEF StepsSound, BoundsSound
<1> QED BY <1>1, <1>2, <1>3, SameRuns, SameRecords, SameClaims, SameStage

LEMMA ConsolidationRevokeStep ==
    ASSUME ConsolidationInv, consolidation_revoke PROVE ConsolidationInv'
<1> USE DEF ConsolidationInv, consolidation_revoke, claimVars, stageVars, scopeVars
<1>1. ScopesSound'
  <2>1. \A e \in Envs : envMark[e] # None => envMark[e] \in Nat /\ envMark[e] <= 0
    BY DEF ScopesSound
  <2> QED BY <2>1 DEF ScopesSound
<1>2. Onward
  <2>1. \A g \in Envs : Len(cycles[g]) \in Nat
    BY DEF ScopesSound
  <2> QED BY <2>1 DEF Onward, ScopesSound
<1>3. StepsSound' /\ BoundsSound'
  BY DEF StepsSound, BoundsSound
<1> QED BY <1>1, <1>2, <1>3, SameRuns, SameRecords, SameClaims, SameStage

LEMMA CleanupStep ==
    ASSUME ConsolidationInv, NEW e \in Envs, consolidation_cleanup(e) PROVE ConsolidationInv'
<1> USE DEF ConsolidationInv, consolidation_cleanup, claimVars, stageVars, scopeVars
<1>1. ScopesSound'
  BY DEF ScopesSound
<1>2. Onward
  BY NothingTakenBack
<1>3. StepsSound' /\ BoundsSound'
  BY DEF StepsSound, BoundsSound
<1> QED BY <1>1, <1>2, <1>3, SameRuns, SameRecords, SameClaims, SameStage

LEMMA StopStep ==
    ASSUME ConsolidationInv, stop_root_budget PROVE ConsolidationInv'
<1> USE DEF ConsolidationInv, stop_root_budget, claimVars, stageVars, scopeVars
<1>1. Onward
  BY NothingTakenBack
<1>2. StepsSound' /\ ScopesSound'
  BY SameScopes, SameSteps
<1>3. rootClosed' \in BOOLEAN
  BY Zenon
<1>4. BoundsSound'
  BY <1>3 DEF BoundsSound
<1> QED BY <1>1, <1>2, <1>4, SameRuns, SameRecords, SameClaims, SameStage

\* A report is added to a scope: it is new there, and bound to it from now on.
LEMMA CloseCycleKeeps ==
    ASSUME ScopesSound, NEW e \in Envs, NEW r \in Reports, CloseCycle(e, r),
           UNCHANGED <<mark, envMark, drifted, redacted, stepDone, proposals>>
    PROVE  ScopesSound' /\ Onward
<1> USE DEF CloseCycle
<1> DEFINE s == cycles[e]
           t == Append(s, r)
<1>1. s \in Seq(Reports) /\ Len(s) \in Nat /\ DOMAIN s = 1..Len(s)
  BY DEF ScopesSound
<1>2. t \in Seq(Reports) /\ Len(t) = Len(s) + 1 /\ t[Len(s) + 1] = r /\ \A i \in 1..Len(s) : t[i] = s[i]
  BY <1>1
<1>3. r \notin Range(s) /\ boundTo[r] \in {None, e} /\ envMark[e] = mark /\ e \notin drifted
  BY DEF Closable, Bindable, EnvironmentLive
<1>4. Report[r].episode = None
  BY DEF Closable, Reported, reject_own_episode
<1>5. \A i \in 1..Len(s) : s[i] # r
  BY <1>1, <1>3 DEF Range
<1>6. /\ \A f \in Envs : cycles'[f] = IF f = e THEN t ELSE cycles[f]
      /\ \A q \in Reports : boundTo'[q] = IF q = r THEN e ELSE boundTo[q]
      /\ cycles' \in [Envs -> Seq(Reports)] /\ boundTo' \in [Reports -> Envs \cup {None}]
  BY <1>2 DEF ScopesSound
<1>7. CyclesSound(e, t, boundTo', envMark'[e])
  <2>1. ASSUME NEW i \in 1..Len(t) PROVE boundTo'[t[i]] = e /\ Report[t[i]].episode = None
    <3>1. CASE i \in 1..Len(s)
      <4>1. boundTo[s[i]] = e /\ Report[s[i]].episode = None /\ s[i] \in Reports /\ t[i] = s[i]
        BY <3>1, <1>1, <1>2 DEF ScopesSound, CyclesSound
      <4> QED BY <4>1, <1>6
    <3>2. CASE i = Len(s) + 1
      BY <3>2, <1>2, <1>4, <1>6
    <3> QED BY <3>1, <3>2, <1>1, <1>2
  <2>2. ASSUME NEW i \in 1..Len(t), NEW j \in 1..Len(t), t[i] = t[j] PROVE i = j
    <3>1. \A k, l \in 1..Len(s) : s[k] = s[l] => k = l
      BY DEF ScopesSound, CyclesSound
    <3> QED BY <3>1, <2>2, <1>1, <1>2, <1>5
  <2>3. envMark'[e] # None
    BY <1>3, ConsolidationAbsent DEF ScopesSound
  <2> HIDE DEF t
  <2> QED BY <2>1, <2>2, <2>3 DEF CyclesSound
<1>8. ASSUME NEW f \in Envs, f # e PROVE CyclesSound(f, cycles'[f], boundTo', envMark'[f])
  <2>1. cycles'[f] = cycles[f] /\ CyclesSound(f, cycles[f], boundTo, envMark[f]) /\ cycles[f] \in Seq(Reports)
    BY <1>6, <1>8 DEF ScopesSound
  <2>2. ASSUME NEW i \in 1..Len(cycles[f]) PROVE boundTo'[cycles[f][i]] = f
    <3>1. boundTo[cycles[f][i]] = f /\ cycles[f][i] \in Reports
      BY <2>1 DEF CyclesSound
    <3> QED BY <3>1, <1>3, <1>6, <1>8, ConsolidationAbsent
  <2> QED BY <2>1, <2>2 DEF CyclesSound
<1>9. ScopesSound'
  <2> HIDE DEF s, t, CloseCycle
  <2>1. \A f \in Envs : CyclesSound(f, cycles'[f], boundTo', envMark'[f])
    BY <1>6, <1>7, <1>8
  <2> QED BY <2>1, <1>6 DEF ScopesSound
<1>10. Onward
  <2>1. ASSUME NEW f \in Envs PROVE Len(cycles[f]) <= Len(cycles'[f]) /\ Len(cycles'[f]) \in Nat
    <3>1. CASE f = e
      BY <3>1, <1>1, <1>2, <1>6
    <3>2. CASE f # e
      <4>1. cycles'[f] = cycles[f] /\ Len(cycles[f]) \in Nat
        BY <3>2, <1>6 DEF ScopesSound
      <4> QED BY <4>1
    <3> QED BY <3>1, <3>2
  <2> QED BY <2>1 DEF Onward, ScopesSound
<1> QED BY <1>9, <1>10

LEMMA CloseStep ==
    ASSUME ConsolidationInv, NEW e \in Envs, NEW r \in Reports, close_development_cycle(e, r) PROVE ConsolidationInv'
<1> USE DEF ConsolidationInv, close_development_cycle, claimVars, stageVars
<1>1. ScopesSound' /\ Onward
  BY CloseCycleKeeps
<1>2. StepsSound' /\ BoundsSound'
  BY DEF StepsSound, BoundsSound
<1> QED BY <1>1, <1>2, SameRuns, SameRecords, SameClaims, SameStage

LEMMA CloseAndTriggerStep ==
    ASSUME ConsolidationInv, NEW w \in ClaimWorkers, NEW e \in Envs, NEW r \in Reports,
           close_development_cycle_and_trigger(w, e, r)
    PROVE  ConsolidationInv'
<1> USE DEF ConsolidationInv, close_development_cycle_and_trigger, claimVars, stageVars
<1>1. ScopesSound' /\ Onward
  BY CloseCycleKeeps
<1>2. StepsSound' /\ BoundsSound'
  BY DEF StepsSound, BoundsSound
<1> DEFINE j == Working("closed", <<e, 1>>, None, None, None)
<1>3. j \in Job /\ j.at = "closed" /\ job' = [job EXCEPT ![w] = j]
  BY ConsolidationShape DEF Working, Job, Claims
<1> HIDE DEF j
<1>4. Knows(j, envMark', mark', drifted', stepDone', proposals')
  BY <1>3 DEF Knows
<1>5. JobsSound'
  BY <1>1, <1>3, <1>4, OneRunMoves
<1> QED BY <1>1, <1>2, <1>5, SameRecords, SameClaims, SameStage

-----------------------------------------------------------------------------
(* Claims.                                                                 *)

\* Of a claim that may be read: its scope has cycles, and so an environment.
LEMMA ClaimHasScope ==
    ASSUME ScopesSound, ClaimsSound, NEW c \in Claims, claim[c] # None
    PROVE  /\ claim[c] \in ClaimRow /\ c[1] \in Envs /\ c[2] \in Nat
           /\ 2 * c[2] <= Len(cycles[c[1]]) /\ envMark[c[1]] # None
<1>1. claim[c] \in ClaimRow /\ c[1] \in Envs /\ c[2] \in 1..MAX_GENERATION /\ 2 * c[2] <= Len(cycles[c[1]])
  BY DEF ClaimsSound, Claims
<1>2. c[2] \in Nat /\ c[2] > 0
  BY <1>1, ConsolidationShape
<1>3. Len(cycles[c[1]]) \in Nat
  BY <1>1 DEF ScopesSound
<1>4. Len(cycles[c[1]]) # 0
  BY <1>1, <1>2, <1>3
<1> QED BY <1>1, <1>2, <1>4 DEF ScopesSound, CyclesSound

\* One claim is written, whose cycles are there.
LEMMA OneClaimWritten ==
    ASSUME ScopesSound, ClaimsSound, UNCHANGED scopeVars, NEW c \in Claims, NEW r \in ClaimRow,
           2 * c[2] <= Len(cycles[c[1]]), claim' = [claim EXCEPT ![c] = r]
    PROVE  ClaimsSound'
<1>1. \A d \in Claims : claim'[d] = IF d = c THEN r ELSE claim[d]
  BY DEF ClaimsSound
<1>2. claim' \in [Claims -> ClaimRow \cup {None}]
  BY DEF ClaimsSound
<1> QED BY <1>1, <1>2 DEF ClaimsSound, scopeVars

LEMMA ClaimGenerationKeeps ==
    ASSUME ScopesSound, ClaimsSound, NEW e \in Envs, Claimable(e), ClaimGeneration(e), UNCHANGED scopeVars
    PROVE  ClaimsSound'
<1> DEFINE c == <<e, Generation(e)>>
           r == NewClaim(c)
<1>1. c \in Claims /\ c[1] = e /\ c[2] = Generation(e)
  BY DEF Claimable, Claims
<1>2. 2 * Generation(e) <= Len(cycles[e])
  <2>1. Len(cycles[e]) \in Nat
    BY DEF ScopesSound
  <2>2. \A n \in Nat : 2 * (n \div 2) <= n
    OBVIOUS
  <2> QED BY <2>1, <2>2 DEF Generation
<1>3. r \in ClaimRow
  BY DEF NewClaim, ClaimRow, ClaimStates
<1>4. claim' = [claim EXCEPT ![c] = r]
  BY DEF ClaimGeneration
<1> HIDE DEF c, r
<1>5. 2 * c[2] <= Len(cycles[c[1]])
  BY <1>1, <1>2
<1> QED BY <1>1, <1>3, <1>4, <1>5, OneClaimWritten

LEMMA ConsolidationClaimStep ==
    ASSUME ConsolidationInv, NEW e \in Envs, claim_consolidation(e) PROVE ConsolidationInv'
<1> USE DEF ConsolidationInv, claim_consolidation
<1>1. Onward /\ ScopesSound' /\ StepsSound'
  BY NothingTakenBack, SameScopes, SameSteps
<1>2. ClaimsSound'
  BY ClaimGenerationKeeps
<1>3. BoundsSound'
  BY DEF BoundsSound
<1> QED BY <1>1, <1>2, <1>3, SameRuns, SameRecords, SameStage

LEMMA TriggerStep ==
    ASSUME ConsolidationInv, NEW w \in ClaimWorkers, trigger_from_claim(w) PROVE ConsolidationInv'
<1> USE DEF ConsolidationInv, trigger_from_claim
<1>1. Onward /\ ScopesSound' /\ StepsSound'
  BY NothingTakenBack, SameScopes, SameSteps
<1>2. job[w].claim[1] \in Envs
  BY DEF JobsSound, Job, Claims
<1>3. ClaimsSound'
  BY <1>1, <1>2, ClaimGenerationKeeps, SameClaims
<1>4. BoundsSound'
  BY DEF BoundsSound
<1>5. JobsSound'
  BY <1>1, OneRunMoves
<1> QED BY <1>1, <1>3, <1>4, <1>5, SameRecords, SameStage

\* A record is written for a claim.
LEMMA OneRunRecorded ==
    ASSUME ScopesSound, RecordsSound, Onward, NEW c \in Claims, NEW r \in RunRecord,
           r.outcome = "candidate" => r.proposal = <<c, r.input>> /\ r.proposal \in proposals',
           runRecord' = [runRecord EXCEPT ![c] = r], UNCHANGED revokedRecord
    PROVE  RecordsSound'
<1>1. \A d \in Claims : runRecord'[d] = IF d = c THEN r ELSE runRecord[d]
  BY DEF RecordsSound
<1>2. runRecord' \in [Claims -> RunRecord \cup {None}] /\ revokedRecord' \in [Claims -> RunRecord \cup {None}]
  BY DEF RecordsSound
<1>3. \A d \in Claims : revokedRecord'[d] # None => Gone(d[1], envMark', mark', drifted')
  BY GoneStays DEF RecordsSound, Claims
<1>4. \A d \in Claims : (runRecord'[d] # None /\ runRecord'[d].outcome = "candidate") =>
         runRecord'[d].proposal = <<d, runRecord'[d].input>> /\ runRecord'[d].proposal \in proposals'
  BY <1>1 DEF RecordsSound, Onward
<1> QED BY <1>2, <1>3, <1>4 DEF RecordsSound

LEMMA OneRevokedRecorded ==
    ASSUME ScopesSound, RecordsSound, Onward, NEW c \in Claims, NEW r \in RunRecord,
           Gone(c[1], envMark', mark', drifted'),
           revokedRecord' = [revokedRecord EXCEPT ![c] = r], UNCHANGED runRecord
    PROVE  RecordsSound'
<1>1. \A d \in Claims : revokedRecord'[d] = IF d = c THEN r ELSE revokedRecord[d]
  BY DEF RecordsSound
<1>2. runRecord' \in [Claims -> RunRecord \cup {None}] /\ revokedRecord' \in [Claims -> RunRecord \cup {None}]
  BY DEF RecordsSound
<1>3. \A d \in Claims : revokedRecord'[d] # None => Gone(d[1], envMark', mark', drifted')
  BY <1>1, GoneStays DEF RecordsSound, Claims
<1>4. \A d \in Claims : (runRecord'[d] # None /\ runRecord'[d].outcome = "candidate") =>
         runRecord'[d].proposal = <<d, runRecord'[d].input>> /\ runRecord'[d].proposal \in proposals'
  BY DEF RecordsSound, Onward
<1> QED BY <1>2, <1>3, <1>4 DEF RecordsSound

LEMMA NoContrastStep ==
    ASSUME ConsolidationInv, NEW c \in Claims, complete_no_contrast(c) PROVE ConsolidationInv'
<1> USE DEF ConsolidationInv, complete_no_contrast
<1>1. Onward /\ ScopesSound' /\ StepsSound'
  BY NothingTakenBack, SameScopes, SameSteps
<1>2. claim[c] # None
  BY DEF load_live_claim, ClaimReads
<1> DEFINE r == [claim[c] EXCEPT !.state = "no_change"]
           q == [outcome |-> "no_change", input |-> None, proposal |-> None]
<1>3. r \in ClaimRow /\ claim' = [claim EXCEPT ![c] = r]
  <2>1. claim[c] \in ClaimRow
    BY <1>2, ClaimHasScope
  <2> QED BY <2>1 DEF ClaimRow, ClaimStates, RunOutcomes, StepOutcomes
<1>4. q \in RunRecord /\ q.outcome # "candidate" /\ runRecord' = [runRecord EXCEPT ![c] = q]
  BY DEF RunRecord, RunOutcomes, StepOutcomes
<1> HIDE DEF r, q
<1>5. 2 * c[2] <= Len(cycles[c[1]])
  BY <1>2, ClaimHasScope
<1>6. ClaimsSound'
  BY <1>3, <1>5, OneClaimWritten
<1>7. RecordsSound'
  BY <1>1, <1>4, OneRunRecorded
<1>8. BoundsSound'
  BY DEF BoundsSound
<1> QED BY <1>1, <1>6, <1>7, <1>8, SameRuns, SameStage

-----------------------------------------------------------------------------
(* Runs.                                                                   *)

LEMMA JobTypes ==
    ASSUME JobsSound, NEW w \in ClaimWorkers, job[w] # None
    PROVE  /\ job[w] \in Job /\ Knows(job[w], envMark, mark, drifted, stepDone, proposals)
           /\ job[w].claim \in Claims /\ job[w].claim[1] \in Envs
           /\ job[w].input \in ClaimInputs => <<job[w].claim, job[w].input>> \in Proposals
<1>1. job[w] \in Job /\ Knows(job[w], envMark, mark, drifted, stepDone, proposals)
  BY DEF JobsSound
<1> QED BY <1>1 DEF Job, Claims, Proposals

\* The sources of a claim that has a scope do not stand: they are gone.
LEMMA SourcesAreGone ==
    ASSUME ScopesSound, NEW c \in Claims, envMark[c[1]] # None, ~ClaimSources(c)
    PROVE  Gone(c[1], envMark, mark, drifted)
<1>1. c[1] \in Envs
  BY DEF Claims
<1>2. envMark[c[1]] \in Nat /\ mark \in Nat /\ envMark[c[1]] <= mark
  BY <1>1 DEF ScopesSound
<1> QED BY <1>1, <1>2 DEF ClaimSources, Gone

\* A run goes on; nothing but its worker changes.
LEMMA OnlyRunMoves ==
    ASSUME ConsolidationInv, NEW w \in ClaimWorkers, NEW j \in Job \cup {None}, Moves(w, j),
           j # None => Knows(j, envMark, mark, drifted, stepDone, proposals),
           UNCHANGED <<mark, scopeVars, redacted, rootClosed, stageVars, claimVars>>, BoundsSound'
    PROVE  ConsolidationInv'
<1> USE DEF ConsolidationInv, claimVars
<1>1. Onward /\ ScopesSound' /\ StepsSound'
  BY NothingTakenBack, SameScopes, SameSteps
<1>2. j # None => Knows(j, envMark', mark', drifted', stepDone', proposals')
  BY DEF scopeVars
<1>3. JobsSound'
  BY <1>1, <1>2, OneRunMoves DEF Moves
<1> QED BY <1>1, <1>3, SameRecords, SameClaims, SameStage

LEMMA RunStarts ==
    ASSUME ConsolidationInv, NEW w \in ClaimWorkers, NEW c \in Claims, NEW i \in ClaimInputs,
           run_consolidation(w, c, i) \/ read_recorded_run(w, c, i)
    PROVE  ConsolidationInv'
<1> USE DEF ConsolidationInv
<1> DEFINE entered == Working("entered", c, i, None, None)
           ending == Working("ending", c, i, "revoked", None)
<1>1. /\ entered \in Job /\ entered.at = "entered" /\ entered.claim = c /\ entered.input = i
      /\ ending \in Job /\ ending.at = "ending" /\ ending.claim = c /\ ending.input = i /\ ending.outcome = "revoked"
  BY DEF Working, Job, RunOutcomes, StepOutcomes
<1>2. claim[c] # None
  BY DEF run_consolidation, read_recorded_run, ClaimReads
<1>3. \/ Moves(w, entered)
      \/ Moves(w, ending) /\ ~ClaimSources(c)
  BY DEF run_consolidation, read_recorded_run
<1> HIDE DEF entered, ending
<1>4. envMark[c[1]] # None
  BY <1>2, ClaimHasScope
<1>5. Knows(entered, envMark, mark, drifted, stepDone, proposals)
  BY <1>1, <1>4 DEF Knows
<1>6. ~ClaimSources(c) => Knows(ending, envMark, mark, drifted, stepDone, proposals)
  BY <1>1, <1>4, SourcesAreGone DEF Knows, RunOutcomes
<1>7. BoundsSound' /\ UNCHANGED <<mark, scopeVars, redacted, rootClosed, stageVars, claimVars>>
  BY DEF run_consolidation, read_recorded_run, runVars, BoundsSound
<1> QED BY <1>1, <1>3, <1>5, <1>6, <1>7, OnlyRunMoves

\* How a run that has not ended yet may end.
LEMMA EndingIsSound ==
    ASSUME ScopesSound, JobsSound, NEW w \in ClaimWorkers, job[w] # None, job[w].at # "closed",
           NEW o \in RunOutcomes, NEW p \in Proposals \cup {None}, NEW stored,
           o = "candidate" => p = <<job[w].claim, job[w].input>> /\ p \in stored,
           o = "revoked" => ~ClaimSources(job[w].claim)
    PROVE  Ending(w, o, p) \in Job /\ Knows(Ending(w, o, p), envMark, mark, drifted, stepDone, stored)
<1> DEFINE j == Ending(w, o, p)
<1>1. job[w] \in Job /\ Knows(job[w], envMark, mark, drifted, stepDone, proposals) /\ job[w].claim \in Claims
  BY JobTypes
<1>2. /\ j \in Job /\ j.at = "ending" /\ j.claim = job[w].claim /\ j.input = job[w].input
      /\ j.outcome = o /\ j.proposal = p
  BY <1>1 DEF Ending, Working, Job
<1>3. job[w].input \in ClaimInputs /\ envMark[job[w].claim[1]] # None
  BY <1>1 DEF Knows
<1>4. o = "revoked" => Gone(job[w].claim[1], envMark, mark, drifted)
  BY <1>1, <1>3, SourcesAreGone
<1> HIDE DEF j
<1>5. Knows(j, envMark, mark, drifted, stepDone, stored)
  BY <1>2, <1>3, <1>4 DEF Knows
<1> QED BY <1>2, <1>5 DEF j

\* A run takes its next place.
LEMMA NextPlace ==
    ASSUME JobsSound, NEW w \in ClaimWorkers, job[w] # None, job[w].at # "closed",
           NEW at \in {"funded", "started"}
    PROVE  /\ [job[w] EXCEPT !.at = at] \in Job
           /\ Knows([job[w] EXCEPT !.at = at], envMark, mark, drifted, stepDone, proposals)
<1> DEFINE j == [job[w] EXCEPT !.at = at]
<1>1. job[w] \in Job /\ Knows(job[w], envMark, mark, drifted, stepDone, proposals)
  BY JobTypes
<1>2. j \in Job /\ j.at = at /\ j.claim = job[w].claim /\ j.input = job[w].input
  BY <1>1 DEF Job
<1> HIDE DEF j
<1>3. Knows(j, envMark, mark, drifted, stepDone, proposals)
  BY <1>1, <1>2 DEF Knows
<1> QED BY <1>2, <1>3 DEF j

LEMMA CheckBudgetStep ==
    ASSUME ConsolidationInv, NEW w \in ClaimWorkers, check_root_budget(w) PROVE ConsolidationInv'
<1> USE DEF ConsolidationInv
<1>1. job[w] # None /\ job[w].at # "closed"
  BY DEF check_root_budget
<1>2. BoundsSound' /\ UNCHANGED <<mark, scopeVars, redacted, rootClosed, stageVars, claimVars>>
  BY DEF check_root_budget, runVars, BoundsSound
<1>3. CASE Moves(w, Ending(w, "blocked_budget", None))
  <2> DEFINE j == Ending(w, "blocked_budget", None)
  <2>1. "blocked_budget" \in RunOutcomes /\ "blocked_budget" # "candidate" /\ "blocked_budget" # "revoked"
    BY DEF RunOutcomes
  <2>2. j \in Job /\ Knows(j, envMark, mark, drifted, stepDone, proposals)
    BY <1>1, <2>1, EndingIsSound
  <2> HIDE DEF j
  <2> QED BY <1>2, <1>3, <2>2, OnlyRunMoves DEF j
<1>4. CASE Moves(w, [job[w] EXCEPT !.at = "funded"])
  <2> DEFINE j == [job[w] EXCEPT !.at = "funded"]
  <2>2. j \in Job /\ Knows(j, envMark, mark, drifted, stepDone, proposals)
    BY <1>1, NextPlace
  <2>3. Moves(w, j)
    BY <1>4
  <2> HIDE DEF j
  <2> QED BY <1>2, <2>2, <2>3, OnlyRunMoves
<1> QED BY <1>3, <1>4 DEF check_root_budget

LEMMA ConsolidationStartStep ==
    ASSUME ConsolidationInv, NEW w \in ClaimWorkers, start_running(w) PROVE ConsolidationInv'
<1> USE DEF ConsolidationInv
<1> DEFINE c == job[w].claim
           j == [job[w] EXCEPT !.at = "started"]
           r == [state |-> "running", input |-> job[w].input]
<1>1. job[w] # None /\ job[w].at # "closed"
  BY DEF start_running
<1>2. /\ BoundsSound' /\ UNCHANGED <<mark, scopeVars, redacted, rootClosed, stageVars>>
      /\ UNCHANGED <<runRecord, revokedRecord, stepDone, proposals>>
  BY DEF start_running, runVars, BoundsSound
<1>3. CASE Moves(w, None) /\ UNCHANGED claim
  BY <1>2, <1>3, OnlyRunMoves DEF claimVars
<1>4. CASE /\ load_live_claim(c)
           /\ claim' = [claim EXCEPT ![c] = r] /\ Moves(w, j)
  <2>1. Onward /\ ScopesSound' /\ StepsSound'
    BY <1>2, NothingTakenBack, SameScopes, SameSteps
  <2>2. j \in Job /\ Knows(j, envMark, mark, drifted, stepDone, proposals)
    BY <1>1, NextPlace
  <2>3. c \in Claims /\ claim[c] # None /\ r \in ClaimRow
    BY <1>1, <1>4, JobTypes DEF load_live_claim, ClaimReads, ClaimRow, ClaimStates, Job
  <2> HIDE DEF j, c, r
  <2>4. 2 * c[2] <= Len(cycles[c[1]])
    BY <2>3, ClaimHasScope
  <2>5. ClaimsSound'
    BY <1>2, <1>4, <2>3, <2>4, OneClaimWritten
  <2>6. Knows(j, envMark', mark', drifted', stepDone', proposals')
    BY <1>2, <2>2 DEF scopeVars
  <2>7. JobsSound'
    BY <1>4, <2>1, <2>2, <2>6, OneRunMoves DEF Moves
  <2> QED BY <1>2, <2>1, <2>5, <2>7, SameRecords, SameStage
<1> QED BY <1>3, <1>4 DEF start_running

\* One step has its outcome; one that is a candidate already stays one.
LEMMA OneStepMoves ==
    ASSUME ScopesSound, StepsSound, UNCHANGED <<mark, scopeVars, proposals>>, NEW s \in Proposals,
           NEW o \in StepOutcomes \cup {"prepared"}, stepDone' = [stepDone EXCEPT ![s] = o],
           stepDone[s] = "candidate" => o = "candidate"
    PROVE  StepsSound' /\ Onward /\ stepDone'[s] = o
<1>1. \A p \in Proposals : stepDone'[p] = IF p = s THEN o ELSE stepDone[p]
  BY DEF StepsSound
<1>2. stepDone' \in [Proposals -> StepOutcomes \cup {"prepared", None}]
  BY DEF StepsSound
<1>3. StepsSound'
  BY <1>1, <1>2 DEF StepsSound
<1>4. Onward
  BY <1>1, NothingTakenBack
<1> QED BY <1>1, <1>3, <1>4

LEMMA ConsolidationReturnStep ==
    ASSUME ConsolidationInv, NEW w \in ClaimWorkers, step_returns(w) PROVE ConsolidationInv'
<1> USE DEF ConsolidationInv
<1> DEFINE s == <<job[w].claim, job[w].input>>
<1>1. job[w] # None /\ job[w].at = "started"
  BY DEF step_returns
<1>2. /\ BoundsSound' /\ UNCHANGED <<mark, scopeVars, redacted, rootClosed, stageVars>>
      /\ UNCHANGED <<claim, runRecord, revokedRecord, proposals>>
  BY DEF step_returns, runVars, BoundsSound
<1>3. PICK o \in StepOutcomes :
        /\ stepDone[s] \in StepOutcomes => o = stepDone[s]
        /\ stepDone' = [stepDone EXCEPT ![s] = o]
        /\ Moves(w, [job[w] EXCEPT !.at = "stepped", !.outcome = o])
  BY DEF step_returns
<1>4. job[w].input \in ClaimInputs /\ envMark[job[w].claim[1]] # None /\ s \in Proposals /\ job[w] \in Job
  BY <1>1, JobTypes DEF Knows
<1> DEFINE j == [job[w] EXCEPT !.at = "stepped", !.outcome = o]
<1>5. /\ j \in Job /\ j.at = "stepped" /\ j.outcome = o /\ j.claim = job[w].claim /\ j.input = job[w].input
      /\ Moves(w, j) /\ s = <<j.claim, j.input>>
  BY <1>3, <1>4 DEF Job, RunOutcomes
<1> HIDE DEF j, s
<1>6. StepsSound' /\ Onward /\ stepDone'[s] = o
  BY <1>2, <1>3, <1>4, OneStepMoves DEF StepOutcomes
<1>7. Knows(j, envMark', mark', drifted', stepDone', proposals')
  BY <1>2, <1>4, <1>5, <1>6 DEF Knows, scopeVars
<1>8. JobsSound'
  BY <1>5, <1>6, <1>7, OneRunMoves DEF Moves
<1>9. ScopesSound'
  BY <1>2, SameScopes
<1> QED BY <1>2, <1>6, <1>8, <1>9, SameRecords, SameClaims, SameStage

LEMMA ConsolidationFailStep ==
    ASSUME ConsolidationInv, NEW w \in ClaimWorkers, step_fails(w) PROVE ConsolidationInv'
<1> USE DEF ConsolidationInv
<1> DEFINE s == <<job[w].claim, job[w].input>>
           d == IF stepDone[s] = None THEN "prepared" ELSE stepDone[s]
           o == IF ClaimSources(job[w].claim) THEN "uncertain" ELSE "revoked"
           j == Ending(w, o, None)
<1>1. job[w] # None /\ job[w].at = "started"
  BY DEF step_fails
<1>2. /\ BoundsSound' /\ UNCHANGED <<mark, scopeVars, redacted, rootClosed, stageVars>>
      /\ UNCHANGED <<claim, runRecord, revokedRecord, proposals>>
  BY DEF step_fails, runVars, BoundsSound
<1>3. stepDone' = [stepDone EXCEPT ![s] = d] /\ Moves(w, j)
  BY DEF step_fails
<1>4. s \in Proposals
  BY <1>1, JobTypes DEF Knows
<1>5. d \in StepOutcomes \cup {"prepared"} /\ (stepDone[s] = "candidate" => d = "candidate")
  <2>1. stepDone[s] \in StepOutcomes \cup {"prepared", None}
    BY <1>4 DEF StepsSound
  <2> HIDE DEF s
  <2> QED BY <2>1, ConsolidationAbsent DEF StepOutcomes
<1>6. o \in RunOutcomes /\ o # "candidate" /\ (o = "revoked" => ~ClaimSources(job[w].claim))
  BY DEF RunOutcomes
<1> HIDE DEF o
<1>7. j \in Job /\ Knows(j, envMark, mark, drifted, stepDone, proposals)
  BY <1>1, <1>6, EndingIsSound
<1> HIDE DEF s, d, j
<1>8. StepsSound' /\ Onward
  BY <1>2, <1>3, <1>4, <1>5, OneStepMoves
<1>9. Knows(j, envMark', mark', drifted', stepDone', proposals')
  BY <1>7, <1>8, KnowsStays
<1>10. JobsSound'
  BY <1>3, <1>7, <1>8, <1>9, OneRunMoves DEF Moves
<1>11. ScopesSound'
  BY <1>2, SameScopes
<1> QED BY <1>2, <1>8, <1>10, <1>11, SameRecords, SameClaims, SameStage

LEMMA SourcesStep ==
    ASSUME ConsolidationInv, NEW w \in ClaimWorkers, sources_after_step(w) PROVE ConsolidationInv'
<1> USE DEF ConsolidationInv
<1>1. job[w] # None /\ job[w].at = "stepped"
  BY DEF sources_after_step
<1>2. BoundsSound' /\ UNCHANGED <<mark, scopeVars, redacted, rootClosed, stageVars, claimVars>>
  BY DEF sources_after_step, runVars, BoundsSound
<1>3. job[w] \in Job /\ Knows(job[w], envMark, mark, drifted, stepDone, proposals)
  BY <1>1, JobTypes
<1>4. job[w].outcome \in StepOutcomes /\ job[w].input \in ClaimInputs /\ envMark[job[w].claim[1]] # None
  BY <1>1, <1>3 DEF Knows
<1>5. CASE ~ClaimSources(job[w].claim) /\ Moves(w, Ending(w, "revoked", None))
  <2> DEFINE j == Ending(w, "revoked", None)
  <2>1. "revoked" \in RunOutcomes /\ "revoked" # "candidate"
    BY DEF RunOutcomes
  <2>2. j \in Job /\ Knows(j, envMark, mark, drifted, stepDone, proposals)
    BY <1>1, <1>5, <2>1, EndingIsSound
  <2> HIDE DEF j
  <2> QED BY <1>2, <1>5, <2>2, OnlyRunMoves DEF j
<1>6. CASE job[w].outcome # "candidate" /\ Moves(w, Ending(w, job[w].outcome, None))
  <2> DEFINE j == Ending(w, job[w].outcome, None)
  <2>1. job[w].outcome \in RunOutcomes /\ job[w].outcome # "revoked"
    BY <1>4 DEF RunOutcomes, StepOutcomes
  <2>2. j \in Job /\ Knows(j, envMark, mark, drifted, stepDone, proposals)
    BY <1>1, <1>6, <2>1, EndingIsSound
  <2> HIDE DEF j
  <2> QED BY <1>2, <1>6, <2>2, OnlyRunMoves DEF j
<1>7. CASE job[w].outcome = "candidate" /\ Moves(w, [job[w] EXCEPT !.at = "accepted"])
  <2> DEFINE j == [job[w] EXCEPT !.at = "accepted"]
  <2>1. /\ j \in Job /\ j.at = "accepted" /\ j.outcome = "candidate" /\ j.claim = job[w].claim
        /\ j.input = job[w].input /\ Moves(w, j)
    BY <1>3, <1>7 DEF Job
  <2> HIDE DEF j
  <2>2. Knows(j, envMark, mark, drifted, stepDone, proposals)
    BY <1>1, <1>3, <1>7, <2>1 DEF Knows
  <2> QED BY <1>2, <2>1, <2>2, OnlyRunMoves
<1> QED BY <1>5, <1>6, <1>7 DEF sources_after_step

LEMMA ProposalStep ==
    ASSUME ConsolidationInv, NEW w \in ClaimWorkers, persist_consolidation_proposal(w) PROVE ConsolidationInv'
<1> USE DEF ConsolidationInv
<1> DEFINE c == job[w].claim
           p == <<c, job[w].input>>
<1>1. job[w] # None /\ job[w].at = "accepted"
  BY DEF persist_consolidation_proposal
<1>2. /\ BoundsSound' /\ UNCHANGED <<mark, scopeVars, redacted, rootClosed, stageVars>>
      /\ UNCHANGED <<claim, runRecord, revokedRecord, stepDone>>
  BY DEF persist_consolidation_proposal, runVars, BoundsSound
<1>3. p \in Proposals /\ stepDone[p] = "candidate" /\ c \in Claims /\ c[1] \in Envs /\ envMark[c[1]] # None
  BY <1>1, JobTypes DEF Knows
<1>4. CASE proposals' = proposals \cup {p} /\ Moves(w, Ending(w, "candidate", p))
  <2> DEFINE j == Ending(w, "candidate", p)
  <2>1. "candidate" \in RunOutcomes /\ "revoked" # "candidate"
    BY DEF RunOutcomes, StepOutcomes
  <2>2. p \in proposals'
    BY <1>4
  <2>3. j \in Job /\ Knows(j, envMark, mark, drifted, stepDone, proposals')
    BY <1>1, <1>3, <2>1, <2>2, EndingIsSound
  <2> HIDE DEF j, p, c
  <2>4. Onward /\ ScopesSound'
    BY <1>2, <1>4, NothingTakenBack, SameScopes
  <2>5. StepsSound'
    BY <1>2, <1>3, <1>4 DEF StepsSound
  <2>6. Knows(j, envMark', mark', drifted', stepDone', proposals')
    BY <1>2, <2>3 DEF scopeVars
  <2>7. JobsSound'
    BY <1>4, <2>3, <2>4, <2>6, OneRunMoves DEF Moves, j
  <2> QED BY <1>2, <2>4, <2>5, <2>7, SameRecords, SameClaims, SameStage
<1>5. CASE ~(ClaimSources(c) /\ c[1] \notin redacted) /\ Moves(w, Ending(w, "revoked", None)) /\ UNCHANGED proposals
  <2> DEFINE j == Ending(w, "revoked", None)
  <2>1. "revoked" \in RunOutcomes /\ "revoked" # "candidate"
    BY DEF RunOutcomes
  <2>2. ~ClaimSources(c)
    <3>1. c[1] \in redacted => envMark[c[1]] \in Nat /\ mark \in Nat /\ envMark[c[1]] < mark
      BY <1>3 DEF ScopesSound
    <3> QED BY <1>5, <3>1 DEF ClaimSources
  <2>3. j \in Job /\ Knows(j, envMark, mark, drifted, stepDone, proposals)
    BY <1>1, <2>1, <2>2, EndingIsSound
  <2> HIDE DEF j
  <2> QED BY <1>2, <1>5, <2>3, OnlyRunMoves DEF j, claimVars
<1> QED BY <1>4, <1>5 DEF persist_consolidation_proposal

LEMMA ConsolidationTerminalStep ==
    ASSUME ConsolidationInv, NEW w \in ClaimWorkers, persist_terminal_run(w) PROVE ConsolidationInv'
<1> USE DEF ConsolidationInv
<1> DEFINE c == job[w].claim
           r == [state |-> job[w].outcome, input |-> job[w].input]
           q == Record(w)
<1>1. job[w] # None /\ job[w].at = "ending" /\ Moves(w, None)
  BY DEF persist_terminal_run
<1>2. /\ BoundsSound' /\ UNCHANGED <<mark, scopeVars, redacted, rootClosed, stageVars>>
      /\ UNCHANGED <<stepDone, proposals>>
  BY DEF persist_terminal_run, runVars, BoundsSound
<1>3. CASE UNCHANGED <<claim, runRecord, revokedRecord>>
  BY <1>1, <1>2, <1>3, OnlyRunMoves DEF claimVars
<1>4. CASE /\ ClaimReads(c) /\ claim' = [claim EXCEPT ![c] = r]
           /\ \/ /\ job[w].outcome = "revoked"
                 /\ revokedRecord' = [revokedRecord EXCEPT ![c] = q] /\ UNCHANGED runRecord
              \/ runRecord' = [runRecord EXCEPT ![c] = q] /\ UNCHANGED revokedRecord
  <2>1. Onward /\ ScopesSound' /\ StepsSound'
    BY <1>2, NothingTakenBack, SameScopes, SameSteps
  <2>2. job[w] \in Job /\ Knows(job[w], envMark, mark, drifted, stepDone, proposals) /\ c \in Claims
    BY <1>1, JobTypes
  <2>3. /\ job[w].outcome \in RunOutcomes
        /\ job[w].outcome = "candidate" => job[w].proposal = <<c, job[w].input>> /\ job[w].proposal \in proposals
        /\ job[w].outcome = "revoked" => Gone(c[1], envMark, mark, drifted)
    BY <1>1, <2>2 DEF Knows
  <2>4. r \in ClaimRow /\ claim[c] # None
    BY <1>4, <2>2, <2>3 DEF ClaimRow, ClaimStates, Job, ClaimReads
  <2>5. /\ q \in RunRecord /\ q.outcome = job[w].outcome /\ q.input = job[w].input /\ q.proposal = job[w].proposal
    BY <2>2, <2>3 DEF Record, RunRecord, Job
  <2> HIDE DEF q, r, c
  <2>6. 2 * c[2] <= Len(cycles[c[1]])
    BY <2>2, <2>4, ClaimHasScope
  <2>7. ClaimsSound'
    BY <1>2, <1>4, <2>2, <2>4, <2>6, OneClaimWritten
  <2>8. JobsSound'
    BY <1>1, <2>1, OneRunMoves DEF Moves
  <2>9. RecordsSound'
    <3>1. CASE runRecord' = [runRecord EXCEPT ![c] = q] /\ UNCHANGED revokedRecord
      <4>1. q.outcome = "candidate" => q.proposal = <<c, q.input>> /\ q.proposal \in proposals'
        BY <1>2, <2>3, <2>5
      <4> QED BY <3>1, <4>1, <2>1, <2>2, <2>5, OneRunRecorded
    <3>2. CASE /\ job[w].outcome = "revoked"
               /\ revokedRecord' = [revokedRecord EXCEPT ![c] = q] /\ UNCHANGED runRecord
      <4>1. Gone(c[1], envMark', mark', drifted')
        BY <1>2, <2>3, <3>2 DEF scopeVars
      <4> QED BY <3>2, <4>1, <2>1, <2>2, <2>5, OneRevokedRecorded
    <3> QED BY <1>4, <3>1, <3>2
  <2> QED BY <1>2, <2>1, <2>7, <2>8, <2>9, SameStage
<1> QED BY <1>3, <1>4 DEF persist_terminal_run

LEMMA ConsolidationCrashStep ==
    ASSUME ConsolidationInv, NEW w \in ClaimWorkers, consolidation_crash(w) PROVE ConsolidationInv'
<1>1. BoundsSound'
  <2>1. MAX_CRASHES \in Nat
    BY ConsolidationShape
  <2>2. crashes' \in 0..MAX_CRASHES
    BY <2>1 DEF consolidation_crash, ConsolidationInv, BoundsSound
  <2> QED BY <2>2 DEF consolidation_crash, ConsolidationInv, BoundsSound
<1> QED BY <1>1, OnlyRunMoves DEF consolidation_crash

-----------------------------------------------------------------------------
(* Staging.                                                                *)

LEMMA StageStep ==
    ASSUME ConsolidationInv, NEW w \in ClaimWorkers, NEW p \in Proposals, NEW id \in CandidateIds,
           stage_current_consolidation_candidate(w, p, id)
    PROVE  ConsolidationInv'
<1> USE DEF ConsolidationInv
<1>1. /\ BoundsSound' /\ UNCHANGED <<mark, scopeVars, redacted, claimVars, job>>
  BY DEF stage_current_consolidation_candidate, BoundsSound
<1>2. Onward /\ ScopesSound' /\ StepsSound'
  BY <1>1, NothingTakenBack, SameScopes, SameSteps DEF claimVars
<1>3. /\ p \in proposals /\ reserve_staging_identity(p, id) /\ Free(id, p)
      /\ reservation' = [reservation EXCEPT ![p] = id]
  BY DEF stage_current_consolidation_candidate, load_stageable_proposal
\* A proposal that is linked keeps its id.
<1>4. \A i \in CandidateIds : <<p, i>> \in linked => i = id
  <2>1. SUFFICES ASSUME NEW i \in CandidateIds, <<p, i>> \in linked PROVE i = id
    OBVIOUS
  <2>2. reservation[p] = i /\ holds_bundle(i, p) /\ i # None
    BY <2>1, ConsolidationAbsent DEF StageSound
  <2> QED BY <1>3, <2>2 DEF reserve_staging_identity, Free
<1>5. \A q \in Proposals : reservation'[q] = IF q = p THEN id ELSE reservation[q]
  BY <1>3 DEF StageSound
<1>6. reservation' \in [Proposals -> CandidateIds \cup {None}]
  BY <1>3 DEF StageSound
<1>7. ASSUME UNCHANGED <<candidate, linked>> PROVE StageSound'
  BY <1>1, <1>4, <1>5, <1>6, <1>7 DEF StageSound, holds_bundle, claimVars
<1>8. ASSUME candidate' = [candidate EXCEPT ![id] = [bundle |-> p, by |-> w]], linked' = linked \cup {<<p, id>>}
      PROVE  StageSound'
  <2> DEFINE b == [bundle |-> p, by |-> w]
  <2>1. b \in StagedCandidate /\ b.bundle = p /\ candidate' = [candidate EXCEPT ![id] = b]
    BY <1>8 DEF StagedCandidate
  <2> HIDE DEF b
  <2>2. /\ candidate' \in [CandidateIds -> StagedCandidate \cup {None}]
        /\ \A i \in CandidateIds : candidate'[i] = IF i = id THEN b ELSE candidate[i]
    BY <2>1 DEF StageSound
  <2>3. b # None
    BY <2>1, ConsolidationAbsent
  <2>4. ASSUME NEW q \in Proposals, NEW i \in CandidateIds, <<q, i>> \in linked'
        PROVE  reservation'[q] = i /\ candidate'[i] # None /\ candidate'[i].bundle = q
    <3>1. CASE q = p /\ i = id
      BY <3>1, <1>5, <2>1, <2>2, <2>3
    <3>2. CASE <<q, i>> \in linked
      <4>1. reservation[q] = i /\ candidate[i] # None /\ candidate[i].bundle = q
        BY <3>2 DEF StageSound, holds_bundle
      <4>2. i = id => q = p
        BY <4>1, <1>3 DEF Free, holds_bundle
      <4>3. q = p => i = id
        BY <3>2, <1>4
      <4> QED BY <4>1, <4>2, <4>3, <1>5, <2>1, <2>2, <2>3
    <3> QED BY <3>1, <3>2, <2>4, <1>8
  <2>5. linked' \subseteq proposals' \X CandidateIds
    BY <1>1, <1>3, <1>8 DEF StageSound, claimVars
  <2> QED BY <1>6, <2>2, <2>4, <2>5 DEF StageSound, holds_bundle
<1>9. StageSound'
  BY <1>7, <1>8 DEF stage_current_consolidation_candidate
<1> QED BY <1>1, <1>2, <1>9, SameRuns, SameRecords, SameClaims DEF claimVars

LEMMA BundleStep ==
    ASSUME ConsolidationInv, NEW w \in ClaimWorkers, NEW id \in CandidateIds, NEW b \in Proposals \cup {None},
           stage_bundle(w, id, b)
    PROVE  ConsolidationInv'
<1> USE DEF ConsolidationInv
<1>1. /\ BoundsSound' /\ UNCHANGED <<mark, scopeVars, redacted, claimVars, job, reservation, linked>>
  BY DEF stage_bundle, BoundsSound
<1>2. Onward /\ ScopesSound' /\ StepsSound'
  BY <1>1, NothingTakenBack, SameScopes, SameSteps DEF claimVars
<1> DEFINE r == [bundle |-> b, by |-> w]
<1>3. r \in StagedCandidate /\ candidate' = [candidate EXCEPT ![id] = r] /\ candidate[id] = None
  BY DEF StagedCandidate, stage_bundle
<1> HIDE DEF r
<1>4. /\ candidate' \in [CandidateIds -> StagedCandidate \cup {None}]
      /\ \A i \in CandidateIds : i # id => candidate'[i] = candidate[i]
  BY <1>3 DEF StageSound
<1>5. StageSound'
  BY <1>1, <1>3, <1>4 DEF StageSound, holds_bundle, claimVars
<1> QED BY <1>1, <1>2, <1>5, SameRuns, SameRecords, SameClaims DEF claimVars

-----------------------------------------------------------------------------
(* The theorems.                                                           *)

LEMMA ConsolidationInvNext == ConsolidationInv /\ [ConsolidationNext]_consolidationVars => ConsolidationInv'
<1> SUFFICES ASSUME ConsolidationInv, [ConsolidationNext]_consolidationVars PROVE ConsolidationInv'
  OBVIOUS
<1>1. ASSUME ScopeNext PROVE ConsolidationInv'
  BY <1>1, RecordStep, ConsolidationClaimStep, CleanupStep, DriftStep, CloseStep, NoContrastStep, ConsolidationRevokeStep DEF ScopeNext
<1>2. ASSUME TriggerNext PROVE ConsolidationInv'
  BY <1>2, TriggerStep, CloseAndTriggerStep DEF TriggerNext
<1>3. ASSUME NEW w \in ClaimWorkers, RunNext(w) PROVE ConsolidationInv'
  <2>1. ASSUME RunStep(w) PROVE ConsolidationInv'
    BY <2>1, CheckBudgetStep, ConsolidationStartStep, ConsolidationReturnStep, ConsolidationFailStep, SourcesStep, ProposalStep, ConsolidationTerminalStep DEF RunStep
  <2> QED BY <1>3, <2>1, ConsolidationCrashStep, RunStarts DEF RunNext
<1>4. ASSUME StageNext PROVE ConsolidationInv'
  BY <1>4, StageStep, BundleStep DEF StageNext
<1>5. ASSUME UNCHANGED consolidationVars PROVE ConsolidationInv'
  BY <1>5 DEF consolidationVars, scopeVars, claimVars, stageVars, ConsolidationInv, ScopesSound, ClaimsSound, StepsSound,
     JobsSound, RecordsSound, StageSound, BoundsSound, holds_bundle
<1> QED BY <1>1, <1>2, <1>3, <1>4, <1>5, StopStep DEF ConsolidationNext

\* No report counts twice or comes from the run of a claim, a candidate record
\* names a stored proposal, and a proposal is one release candidate at most.
THEOREM ConsolidationIsSafe == ConsolidationSpec => []ConsolidationSafe
<1>1. ConsolidationInit => ConsolidationInv
  BY ConsolidationInvInit
<1>2. ConsolidationInv /\ [ConsolidationNext]_consolidationVars => ConsolidationInv'
  BY ConsolidationInvNext
<1>3. ConsolidationInv => ConsolidationSafe
  BY ConsolidationInvIsSafe
<1> QED BY <1>1, <1>2, <1>3, PTL DEF ConsolidationSpec

\* What a step may do to the records of a claim: write one that is not there.
RecordsKept ==
    \A c \in Claims :
      /\ runRecord[c] # None => runRecord'[c] = runRecord[c]
      /\ revokedRecord[c] # None => revokedRecord'[c] = revokedRecord[c]

LEMMA RecordsKeptNext == ConsolidationInv /\ [ConsolidationNext]_consolidationVars => RecordsKept
<1> SUFFICES ASSUME ConsolidationInv, [ConsolidationNext]_consolidationVars PROVE RecordsKept
  OBVIOUS
<1>1. ASSUME UNCHANGED <<runRecord, revokedRecord>> PROVE RecordsKept
  BY <1>1 DEF RecordsKept
<1>2. ASSUME NEW c \in Claims, complete_no_contrast(c) PROVE RecordsKept
  BY <1>2 DEF complete_no_contrast, RecordsKept, ConsolidationInv, RecordsSound
<1>3. ASSUME NEW w \in ClaimWorkers, persist_terminal_run(w) PROVE RecordsKept
  <2>1. job[w].claim \in Claims
    BY <1>3, JobTypes DEF persist_terminal_run, ConsolidationInv
  <2>2. CASE UNCHANGED <<runRecord, revokedRecord>>
    BY <2>2, <1>1
  <2>3. CASE /\ revokedRecord[job[w].claim] = None /\ UNCHANGED runRecord
             /\ revokedRecord' = [revokedRecord EXCEPT ![job[w].claim] = Record(w)]
    BY <2>1, <2>3 DEF RecordsKept, ConsolidationInv, RecordsSound
  <2>4. CASE /\ runRecord[job[w].claim] = None /\ UNCHANGED revokedRecord
             /\ runRecord' = [runRecord EXCEPT ![job[w].claim] = Record(w)]
    BY <2>1, <2>4 DEF RecordsKept, ConsolidationInv, RecordsSound
  <2> QED BY <1>3, <2>2, <2>3, <2>4 DEF persist_terminal_run, FirstWins
<1>4. ASSUME ScopeNext PROVE RecordsKept
  BY <1>1, <1>2, <1>4 DEF ScopeNext, record_environment_from_run, claim_consolidation, consolidation_cleanup,
     record_environment_drift, close_development_cycle, consolidation_revoke, claimVars
<1>5. ASSUME TriggerNext PROVE RecordsKept
  BY <1>1, <1>5 DEF TriggerNext, trigger_from_claim, close_development_cycle_and_trigger, claimVars
<1>6. ASSUME NEW w \in ClaimWorkers, RunNext(w) PROVE RecordsKept
  <2>1. ASSUME RunStep(w) PROVE RecordsKept
    BY <1>1, <1>3, <2>1 DEF RunStep, check_root_budget, start_running, step_returns, step_fails, sources_after_step,
       persist_consolidation_proposal, claimVars
  <2> QED BY <1>1, <1>6, <2>1 DEF RunNext, consolidation_crash, run_consolidation, read_recorded_run, claimVars
<1>7. ASSUME StageNext PROVE RecordsKept
  BY <1>1, <1>7 DEF StageNext, stage_current_consolidation_candidate, stage_bundle, claimVars
<1>8. ASSUME stop_root_budget \/ UNCHANGED consolidationVars PROVE RecordsKept
  BY <1>1, <1>8 DEF stop_root_budget, consolidationVars, claimVars
<1> QED BY <1>4, <1>5, <1>6, <1>7, <1>8 DEF ConsolidationNext

\* What a step that stages a proposal has found.
StagedStands ==
    \A p \in Proposals, id \in CandidateIds :
      (<<p, id>> \in linked' /\ <<p, id>> \notin linked) =>
        /\ envMark[p[1][1]] = mark /\ p[1][1] \notin drifted
        /\ revokedRecord[p[1]] = None
        /\ runRecord[p[1]] # None /\ runRecord[p[1]].proposal = p

LEMMA StagedStandsNext == ConsolidationInv /\ [ConsolidationNext]_consolidationVars => StagedStands
<1> SUFFICES ASSUME ConsolidationInv, [ConsolidationNext]_consolidationVars PROVE StagedStands
  OBVIOUS
<1>1. ASSUME UNCHANGED linked PROVE StagedStands
  BY <1>1 DEF StagedStands
<1>2. ASSUME NEW w \in ClaimWorkers, NEW q \in Proposals, NEW i \in CandidateIds,
             stage_current_consolidation_candidate(w, q, i)
      PROVE  StagedStands
  <2>1. /\ load_stageable_proposal(q) /\ linked' \subseteq linked \cup {<<q, i>>}
    BY <1>2 DEF stage_current_consolidation_candidate
  <2>2. /\ envMark[q[1][1]] = mark /\ q[1][1] \notin drifted
        /\ runRecord[q[1]] # None /\ runRecord[q[1]].proposal = q
    BY <2>1 DEF load_stageable_proposal, load_live_claim, ClaimSources
  <2>3. revokedRecord[q[1]] = None
    <3>1. q[1] \in Claims /\ mark \in Nat
      BY DEF Proposals, ConsolidationInv, ScopesSound
    <3>2. ~Gone(q[1][1], envMark, mark, drifted)
      BY <2>2, <3>1 DEF Gone
    <3> QED BY <3>1, <3>2 DEF ConsolidationInv, RecordsSound
  <2> QED BY <2>1, <2>2, <2>3 DEF StagedStands
<1>3. ASSUME ScopeNext PROVE StagedStands
  BY <1>1, <1>3 DEF ScopeNext, record_environment_from_run, claim_consolidation, consolidation_cleanup,
     record_environment_drift, close_development_cycle, consolidation_revoke, complete_no_contrast, stageVars
<1>4. ASSUME TriggerNext PROVE StagedStands
  BY <1>1, <1>4 DEF TriggerNext, trigger_from_claim, close_development_cycle_and_trigger, stageVars
<1>5. ASSUME NEW w \in ClaimWorkers, RunNext(w) PROVE StagedStands
  <2>1. ASSUME RunStep(w) PROVE StagedStands
    BY <1>1, <2>1 DEF RunStep, check_root_budget, start_running, step_returns, step_fails, sources_after_step,
       persist_consolidation_proposal, persist_terminal_run, runVars, stageVars
  <2> QED BY <1>1, <1>5, <2>1 DEF RunNext, consolidation_crash, run_consolidation, read_recorded_run, runVars, stageVars
<1>6. ASSUME StageNext PROVE StagedStands
  BY <1>1, <1>2, <1>6 DEF StageNext, stage_bundle
<1>7. ASSUME stop_root_budget \/ UNCHANGED consolidationVars PROVE StagedStands
  BY <1>1, <1>7 DEF stop_root_budget, consolidationVars, stageVars
<1> QED BY <1>3, <1>4, <1>5, <1>6, <1>7 DEF ConsolidationNext

\* Terminal records of a claim stand once written, and a proposal is staged only
\* while its scope stands and no run of its claim was ever ended as revoked.
THEOREM ConsolidationStands == ConsolidationSpec => RecordsStand /\ StagedIsStanding
<1>1. ConsolidationInit => ConsolidationInv
  BY ConsolidationInvInit
<1>2. ConsolidationInv /\ [ConsolidationNext]_consolidationVars => ConsolidationInv'
  BY ConsolidationInvNext
<1>3. ConsolidationInv /\ [ConsolidationNext]_consolidationVars => RecordsKept
  BY RecordsKeptNext
<1>4. ConsolidationInv /\ [ConsolidationNext]_consolidationVars => StagedStands
  BY StagedStandsNext
<1>5. ConsolidationSpec => [][RecordsKept]_consolidationVars
  BY <1>1, <1>2, <1>3, PTL DEF ConsolidationSpec
<1>6. ConsolidationSpec => [][StagedStands]_consolidationVars
  BY <1>1, <1>2, <1>4, PTL DEF ConsolidationSpec
<1> QED BY <1>5, <1>6 DEF RecordsStand, RecordsKept, StagedIsStanding, StagedStands

-----------------------------------------------------------------------------
(***************************************************************************)
(* An optimization step, for any number of workers, crashes and failed     *)
(* transactions, and any request.  While the sources stand, the journal    *)
(* alone decides how far the step can get (Reach); a worker is never ahead *)
(* of it, and one that ended the step leaves no call within reach open.    *)
(***************************************************************************)

(* How far the step can get by what its calls were answered.               *)

Prep(c) == <<c, "DispatchPrepared">>
Obs(c) == <<c, "DispatchObserved">>
Resp(c) == <<c, "ResponseObserved">>
Own == {"no_change", "rejected", "candidate"}
Keys == (Calls \cup {"step"}) \X Kinds

Suggests(j, c) == Obs(c) \in DOMAIN j /\ j[Obs(c)] \in {"none", "one", "many"}

SizeIn(i, a) == CASE a = "one" -> 1 [] a = "many" -> MAX_SUGGESTIONS \div i.batches [] OTHER -> 0

Begins(i) == i.grant /\ i.batches # 0
Reflected(i, j) == Begins(i) /\ Suggests(j, "first") /\ (i.batches = 2 => Suggests(j, "second"))
PoolOf(i, j) == SizeIn(i, j[Obs("first")]) + (IF i.batches = 2 THEN SizeIn(i, j[Obs("second")]) ELSE 0)
Ranks(i, j) == Reflected(i, j) /\ PoolOf(i, j) # 0 /\ ~(PoolOf(i, j) <= MAX_FINAL_EDITS) /\ i.rank
Compiles(i, j) ==
    /\ Reflected(i, j) /\ PoolOf(i, j) # 0
    /\ \/ PoolOf(i, j) <= MAX_FINAL_EDITS
       \/ Ranks(i, j) /\ Obs("rank") \in DOMAIN j /\ j[Obs("rank")] \in {"one", "many"}

Reach(i, j, c) ==
    /\ c = "first" => Begins(i)
    /\ c = "second" => Begins(i) /\ i.batches = 2 /\ Suggests(j, "first")
    /\ c = "rank" => Ranks(i, j)
    /\ c = "dev" => Compiles(i, j) /\ i.edit = "changes"

\* Every call within reach has its answer.
Settled(i, j) == \A c \in Calls : Reach(i, j, c) => Obs(c) \in DOMAIN j

\* What is recorded before a call.
Responded(i, j) == Resp("first") \in DOMAIN j /\ (i.batches = 2 => Resp("second") \in DOMAIN j)
Before(i, j, c) ==
    /\ c = "second" => Resp("first") \in DOMAIN j
    /\ c = "rank" => Responded(i, j)
    /\ c = "dev" => Responded(i, j) /\ Step("EditCompiled") \in DOMAIN j

PoolAt(i, j, c) == IF c = "first" THEN 0 ELSE IF c = "second" THEN SizeIn(i, j[Obs("first")]) ELSE PoolOf(i, j)

Evidence(i, j) ==
    /\ Step("EditCompiled") \in DOMAIN j /\ Responded(i, j)
    /\ Resp("dev") \in DOMAIN j /\ j[Resp("dev")] = "better"

-----------------------------------------------------------------------------
(* The invariant.                                                          *)

Busy == {"sent", "observe"}
Asking == {"request", "look", "claimed", "claim", "sent", "observe", "respond"}
Ats == Asking \cup {"idle", "prepare", "compile", "end", "complete"}

Row == [at : Ats, call : Calls, answer : ModelAnswers \cup DevReports \cup {None},
        pool : 0..MAX_SUGGESTIONS, outcome : Outcomes \cup {None}]

\* A worker x while the sources stand.
LiveRow(x, i, j) ==
    /\ x.at = "prepare" => i.grant
    /\ x.at \in Asking => Reach(i, j, x.call) /\ Before(i, j, x.call) /\ x.pool = PoolAt(i, j, x.call)
    /\ x.at = "respond" => Obs(x.call) \in DOMAIN j /\ j[Obs(x.call)] = x.answer
    /\ x.at = "compile" => Compiles(i, j) /\ Responded(i, j) /\ x.pool = PoolOf(i, j)
    /\ x.at \in {"end", "complete"} /\ x.outcome \in Own => Settled(i, j)
    /\ x.at \in {"end", "complete"} /\ x.outcome = "candidate" => Evidence(i, j)
    /\ x.at = "complete" /\ x.outcome = "candidate" => Step("candidate") \in DOMAIN j

RowSound(x, i, j, l) ==
    /\ x \in Row
    /\ x.at \in Asking => /\ i.batches \in 1..2 /\ (x.call = "first" => x.pool = 0)
                          /\ x.call = "second" => i.batches = 2 /\ x.pool <= 4
    /\ x.at \in {"observe", "respond"} => x.answer \in Answers(x.call)
    /\ x.at = "end" => x.outcome \in Terminals
    /\ l => LiveRow(x, i, j)

\* The calls: who makes one, and that it is made once.
CallsSound(j, n, jobs) ==
    /\ n \in [Calls -> Nat]
    /\ \A c \in Calls : /\ n[c] <= 1 /\ (Prep(c) \notin DOMAIN j => n[c] = 0)
                        /\ Obs(c) \in DOMAIN j => Prep(c) \in DOMAIN j
    /\ \A w \in Workers : jobs[w].at \in Busy =>
         /\ Prep(jobs[w].call) \in DOMAIN j /\ Obs(jobs[w].call) \notin DOMAIN j
         /\ jobs[w].at = "sent" => n[jobs[w].call] = 0
         /\ \A v \in Workers : jobs[v].at \in Busy /\ jobs[v].call = jobs[w].call => v = w

\* The journal while the sources stand.
LiveJournal(i, j) ==
    /\ \A c \in Calls : Prep(c) \in DOMAIN j => Reach(i, j, c)
    /\ \A c \in Calls : Obs(c) \in DOMAIN j => j[Obs(c)] \in Answers(c)
    /\ Step("StepCompleted") \in DOMAIN j /\ j[Step("StepCompleted")] \in Own => Settled(i, j)

Kept(i, j) ==
    /\ Step("StepCompleted") \in DOMAIN j /\ j[Step("StepCompleted")] \in Own =>
         \A c \in Calls : Prep(c) \in DOMAIN j => Obs(c) \in DOMAIN j
    /\ Step("StepCompleted") \in DOMAIN j /\ j[Step("StepCompleted")] = "candidate" =>
         /\ Step("EditCompiled") \in DOMAIN j /\ Step("candidate") \in DOMAIN j /\ Responded(i, j)
         /\ Resp("dev") \in DOMAIN j /\ j[Resp("dev")] \in {"better", "redacted"}

JournalSound(i, j, l, gone) ==
    /\ DOMAIN j \subseteq Keys /\ Kept(i, j) /\ (l => LiveJournal(i, j))
    /\ gone => \A k \in DOMAIN j : j[k] = "redacted" \/ k = Obs("dev")

FlagsSound ==
    /\ input \in Inputs /\ {live, revoked, cleaned} \subseteq BOOLEAN /\ faults \in 0..MaxFaults
    /\ (revoked => ~live) /\ (cleaned => revoked)

RowsSound(jobs, i, j, l) ==
    DOMAIN jobs = Workers /\ \A w \in Workers : RowSound(jobs[w], i, j, l)

OptimizationInv ==
    /\ FlagsSound /\ JournalSound(input, journal, live, cleaned)
    /\ CallsSound(journal, sent, work) /\ RowsSound(work, input, journal, live)

-----------------------------------------------------------------------------
(* The journal grows, and what was within reach stays so.                  *)

Extends(j, k) == DOMAIN j \subseteq DOMAIN k /\ \A x \in DOMAIN j : k[x] = j[x]

LEMMA ReachStays ==
    ASSUME NEW i, NEW j, NEW k, Extends(j, k)
    PROVE  /\ \A c : Suggests(j, c) => Suggests(k, c) /\ k[Obs(c)] = j[Obs(c)]
           /\ Reflected(i, j) => Reflected(i, k) /\ PoolOf(i, k) = PoolOf(i, j)
           /\ Ranks(i, j) => Ranks(i, k)
           /\ Compiles(i, j) => Compiles(i, k)
           /\ \A c : Reach(i, j, c) => Reach(i, k, c)
           /\ \A c \in Calls : Reach(i, j, c) => PoolAt(i, k, c) = PoolAt(i, j, c)
           /\ Responded(i, j) => Responded(i, k)
           /\ \A c : Before(i, j, c) => Before(i, k, c)
           /\ Evidence(i, j) => Evidence(i, k)
<1>1. \A c : Suggests(j, c) => Suggests(k, c) /\ k[Obs(c)] = j[Obs(c)]
  BY DEF Suggests, Extends
<1>2. Reflected(i, j) => Reflected(i, k) /\ PoolOf(i, k) = PoolOf(i, j)
  BY <1>1 DEF Reflected, PoolOf
<1>3. Ranks(i, j) => Ranks(i, k)
  BY <1>2 DEF Ranks
<1>4. Compiles(i, j) => Compiles(i, k)
  BY <1>2, <1>3 DEF Compiles, Extends
<1>5. \A c : Reach(i, j, c) => Reach(i, k, c)
  BY <1>1, <1>3, <1>4 DEF Reach
<1>6. \A c \in Calls : Reach(i, j, c) => PoolAt(i, k, c) = PoolAt(i, j, c)
  BY <1>1, <1>2 DEF Reach, PoolAt, Ranks, Compiles, Calls
<1>7. Responded(i, j) => Responded(i, k)
  BY DEF Responded, Extends
<1>8. \A c : Before(i, j, c) => Before(i, k, c)
  BY <1>7 DEF Before, Extends
<1>9. Evidence(i, j) => Evidence(i, k)
  BY <1>7 DEF Evidence, Extends
<1> QED BY <1>1, <1>2, <1>3, <1>4, <1>5, <1>6, <1>7, <1>8, <1>9

\* When every call within reach has its answer, nothing new comes within reach.
LEMMA SettledStays ==
    ASSUME NEW i, NEW j, NEW k, Extends(j, k), Settled(i, j)
    PROVE  Settled(i, k) /\ \A c \in Calls : Reach(i, k, c) => Reach(i, j, c)
<1> DEFINE Back(c) == Reach(i, k, c) => Reach(i, j, c) /\ Obs(c) \in DOMAIN j
<1>1. \A c \in Calls : Reach(i, j, c) => Obs(c) \in DOMAIN j /\ Obs(c) \in DOMAIN k /\ k[Obs(c)] = j[Obs(c)]
  BY DEF Settled, Extends
<1>2. Back("first") /\ (Begins(i) => Suggests(k, "first") = Suggests(j, "first") /\ k[Obs("first")] = j[Obs("first")])
  BY <1>1 DEF Reach, Calls, Suggests
<1>3. Back("second")
      /\ (Begins(i) /\ i.batches = 2 /\ Suggests(k, "first") =>
            Suggests(k, "second") = Suggests(j, "second") /\ k[Obs("second")] = j[Obs("second")])
  BY <1>1, <1>2 DEF Reach, Calls, Suggests
<1>4. Reflected(i, k) => Reflected(i, j) /\ PoolOf(i, k) = PoolOf(i, j)
  BY <1>2, <1>3 DEF Reflected, PoolOf
<1>5. Ranks(i, k) => Ranks(i, j)
  BY <1>4 DEF Ranks
<1>6. Back("rank") /\ (Ranks(i, k) => k[Obs("rank")] = j[Obs("rank")])
  BY <1>1, <1>5 DEF Reach, Calls
<1>7. Compiles(i, k) => Compiles(i, j)
  BY <1>4, <1>5, <1>6 DEF Compiles, Reach
<1>8. Back("dev")
  BY <1>1, <1>7 DEF Reach, Calls
<1> QED BY <1>2, <1>3, <1>6, <1>8 DEF Settled, Extends, Calls

LEMMA RowStays ==
    ASSUME NEW x, NEW i, NEW j, NEW k, NEW l, Extends(j, k), RowSound(x, i, j, l)
    PROVE  RowSound(x, i, k, l)
<1>1. l => LiveRow(x, i, k)
  <2> SUFFICES ASSUME LiveRow(x, i, j), x \in Row PROVE LiveRow(x, i, k)
    BY DEF RowSound
  <2>1. x.call \in Calls
    BY DEF Row
  <2>2. x.at = "respond" => Obs(x.call) \in DOMAIN k /\ k[Obs(x.call)] = x.answer
    BY DEF LiveRow, Extends
  <2>3. x.at \in Asking => Reach(i, k, x.call) /\ Before(i, k, x.call) /\ x.pool = PoolAt(i, k, x.call)
    BY <2>1, ReachStays DEF LiveRow
  <2>4. x.at = "compile" => Compiles(i, k) /\ Responded(i, k) /\ x.pool = PoolOf(i, k)
    BY ReachStays DEF LiveRow, Compiles
  <2>5. /\ x.at \in {"end", "complete"} /\ x.outcome \in Own => Settled(i, k)
        /\ x.at \in {"end", "complete"} /\ x.outcome = "candidate" => Evidence(i, k)
    BY ReachStays, SettledStays DEF LiveRow
  <2>6. x.at = "complete" /\ x.outcome = "candidate" => Step("candidate") \in DOMAIN k
    BY DEF LiveRow, Extends
  <2>7. x.at = "prepare" => i.grant
    BY DEF LiveRow
  <2> QED BY <2>2, <2>3, <2>4, <2>5, <2>6, <2>7 DEF LiveRow
<1> QED BY <1>1 DEF RowSound


LEMMA JournalStays ==
    ASSUME NEW i, NEW j, NEW k, NEW l, NEW gone, JournalSound(i, j, l, gone), Extends(j, k), DOMAIN k \subseteq Keys,
           \A c \in Calls : (Prep(c) \in DOMAIN k => Prep(c) \in DOMAIN j) /\ (Obs(c) \in DOMAIN k => Obs(c) \in DOMAIN j),
           Step("StepCompleted") \in DOMAIN k => Step("StepCompleted") \in DOMAIN j, k # j => ~gone
    PROVE  JournalSound(i, k, l, gone)
<1>1. Kept(i, k)
  BY ReachStays DEF JournalSound, Kept, Extends
<1>2. l => LiveJournal(i, k)
  <2> SUFFICES ASSUME LiveJournal(i, j) PROVE LiveJournal(i, k)
    BY DEF JournalSound
  <2>1. \A c \in Calls : Prep(c) \in DOMAIN k => Reach(i, k, c)
    BY ReachStays DEF LiveJournal
  <2>2. \A c \in Calls : Obs(c) \in DOMAIN k => k[Obs(c)] \in Answers(c)
    BY DEF LiveJournal, Extends
  <2>3. Step("StepCompleted") \in DOMAIN k /\ k[Step("StepCompleted")] \in Own => Settled(i, k)
    BY SettledStays DEF LiveJournal, Extends
  <2> QED BY <2>1, <2>2, <2>3 DEF LiveJournal
<1> QED BY <1>1, <1>2 DEF JournalSound

\* A worker that is not making a call moves.
LEMMA CallsStay ==
    ASSUME NEW j, NEW k, NEW n, NEW jobs, NEW w \in Workers, NEW x, CallsSound(j, n, jobs), Extends(j, k),
           \A c \in Calls : (Prep(c) \in DOMAIN k => Prep(c) \in DOMAIN j) /\ (Obs(c) \in DOMAIN k => Obs(c) \in DOMAIN j),
           DOMAIN jobs = Workers, x.at \notin Busy, \A v \in Workers : jobs[v].call \in Calls
    PROVE  CallsSound(k, n, [jobs EXCEPT ![w] = x])
<1> DEFINE new == [jobs EXCEPT ![w] = x]
<1>1. new[w] = x /\ \A v \in Workers : v # w => new[v] = jobs[v]
  OBVIOUS
<1> HIDE DEF new
<1>2. \A c \in Calls : /\ n[c] <= 1 /\ (Prep(c) \notin DOMAIN k => n[c] = 0)
                       /\ Obs(c) \in DOMAIN k => Prep(c) \in DOMAIN k
  BY DEF CallsSound, Extends
<1>3. ASSUME NEW v \in Workers, new[v].at \in Busy
      PROVE  /\ Prep(new[v].call) \in DOMAIN k /\ Obs(new[v].call) \notin DOMAIN k
             /\ new[v].at = "sent" => n[new[v].call] = 0
             /\ \A u \in Workers : new[u].at \in Busy /\ new[u].call = new[v].call => u = v
  <2>1. v # w /\ new[v] = jobs[v]
    BY <1>1, <1>3
  <2> QED BY <1>1, <1>3, <2>1 DEF CallsSound, Extends
<1> QED BY <1>2, <1>3 DEF CallsSound, new

LEMMA RowsStay ==
    ASSUME NEW jobs, NEW i, NEW j, NEW k, NEW l, NEW w \in Workers, NEW x, RowsSound(jobs, i, j, l), Extends(j, k),
           RowSound(x, i, k, l)
    PROVE  RowsSound([jobs EXCEPT ![w] = x], i, k, l)
<1>1. \A v \in Workers : RowSound(jobs[v], i, k, l)
  BY RowStays DEF RowsSound
<1> QED BY <1>1 DEF RowsSound

\* A step that makes no call, records no answer and does not complete the step.
LEMMA PlainStep ==
    ASSUME OptimizationInv, NEW w \in Workers, NEW x, work' = [work EXCEPT ![w] = x], x.at \notin Busy,
           RowSound(x, input, journal', live), Extends(journal, journal'), DOMAIN journal' \subseteq Keys,
           \A c \in Calls : /\ Prep(c) \in DOMAIN journal' => Prep(c) \in DOMAIN journal
                            /\ Obs(c) \in DOMAIN journal' => Obs(c) \in DOMAIN journal,
           Step("StepCompleted") \in DOMAIN journal' => Step("StepCompleted") \in DOMAIN journal,
           journal' # journal => live, UNCHANGED <<input, sent, live, revoked, cleaned>>, faults' \in 0..MaxFaults
    PROVE  OptimizationInv'
<1>1. FlagsSound'
  BY DEF OptimizationInv, FlagsSound
<1>2. JournalSound(input, journal', live, cleaned)
  <2>1. journal' # journal => ~cleaned
    BY DEF OptimizationInv, FlagsSound
  <2> QED BY <2>1, JournalStays DEF OptimizationInv
<1>3. CallsSound(journal', sent, work')
  <2>1. DOMAIN work = Workers /\ \A v \in Workers : work[v].call \in Calls
    BY DEF OptimizationInv, RowsSound, RowSound, Row
  <2> QED BY <2>1, CallsStay DEF OptimizationInv
<1>4. RowsSound(work', input, journal', live)
  BY RowsStay DEF OptimizationInv
<1> QED BY <1>1, <1>2, <1>3, <1>4 DEF OptimizationInv

\* The journal stays as it is.
LEMMA MoveStep ==
    ASSUME OptimizationInv, NEW w \in Workers, NEW x, work' = [work EXCEPT ![w] = x], x.at \notin Busy,
           RowSound(x, input, journal, live), UNCHANGED <<input, journal, sent, live, revoked, cleaned>>,
           faults' \in 0..MaxFaults
    PROVE  OptimizationInv'
<1>1. Extends(journal, journal') /\ DOMAIN journal' \subseteq Keys
  BY DEF Extends, OptimizationInv, JournalSound
<1> QED BY <1>1, PlainStep

\* A row that ended without an answer of its own says nothing of the journal.
LEMMA FailRow ==
    ASSUME NEW x, NEW i, NEW j, NEW l, NEW o \in {"step_error", "uncertain"}, x \in Row
    PROVE  LET n == [x EXCEPT !.at = "complete", !.outcome = o] IN n.at \notin Busy /\ RowSound(n, i, j, l)
<1> DEFINE n == [x EXCEPT !.at = "complete", !.outcome = o]
<1>1. n \in Row /\ n.at = "complete" /\ n.outcome = o
  BY DEF Row, Ats, Outcomes, Terminals
<1> HIDE DEF n
<1>2. n.at \notin Busy /\ RowSound(n, i, j, l)
  BY <1>1 DEF RowSound, LiveRow, Busy, Asking, Own
<1> QED BY <1>2 DEF n

LEMMA FaultsStay == ASSUME OptimizationInv, UNCHANGED faults PROVE faults' \in 0..MaxFaults
  BY DEF OptimizationInv, FlagsSound

LEMMA OptimizationFailStep ==
    ASSUME OptimizationInv, NEW w \in Workers, Fail(w) \/ Uncertain(w),
           UNCHANGED <<input, journal, sent, live, revoked, cleaned>>, faults' \in 0..MaxFaults
    PROVE  OptimizationInv'
<1>1. PICK o \in {"step_error", "uncertain"} : work' = [work EXCEPT ![w].at = "complete", ![w].outcome = o]
  BY DEF Fail, Uncertain
<1> DEFINE x == [work[w] EXCEPT !.at = "complete", !.outcome = o]
<1>2. work[w] \in Row /\ DOMAIN work = Workers
  BY DEF OptimizationInv, RowsSound, RowSound
<1>3. work' = [work EXCEPT ![w] = x]
  BY <1>1, <1>2
<1>4. x.at \notin Busy /\ RowSound(x, input, journal, live)
  BY <1>2, FailRow
<1> HIDE DEF x
<1> QED BY <1>3, <1>4, MoveStep

\* A fact that is neither about a call's making or answer nor the end of the step.
Plain(key) ==
    /\ key \in Keys /\ key # Step("StepCompleted")
    /\ \A c \in Calls : key # Prep(c) /\ key # Obs(c)

LEMMA WrittenFacts ==
    ASSUME NEW key, NEW says
    PROVE  /\ DOMAIN Written(key, says) = DOMAIN journal \cup {key} /\ Written(key, says)[key] = says
           /\ \A k \in DOMAIN journal : k # key => Written(key, says)[k] = journal[k]
           /\ Agrees(key, says) => Extends(journal, Written(key, says))
<1>1. /\ DOMAIN Written(key, says) = DOMAIN journal \cup {key} /\ Written(key, says)[key] = says
      /\ \A k \in DOMAIN journal : k # key => Written(key, says)[k] = journal[k]
  BY DEF Written
<1> QED BY <1>1 DEF Agrees, Known, Extends

\* A commit either fails the step or leaves a journal in which the next row stands.
LEMMA CommitStep ==
    ASSUME OptimizationInv, NEW w \in Workers, NEW key, NEW says, NEW x, Commit(w, key, says, x), Plain(key),
           ASSUME live, Extends(journal, Written(key, says))
           PROVE  RowSound(x, input, Written(key, says), live) /\ x.at \notin Busy
    PROVE  OptimizationInv'
<1>1. UNCHANGED <<input, sent, live, revoked, cleaned, faults>> /\ faults' \in 0..MaxFaults
  BY FaultsStay DEF Commit
<1>2. CASE live /\ Agrees(key, says)
  <2> DEFINE j == Written(key, says)
  <2>1. journal' = j /\ work' = [work EXCEPT ![w] = x]
    BY <1>2 DEF Commit
  <2>2. /\ DOMAIN j = DOMAIN journal \cup {key} /\ Extends(journal, j)
    BY <1>2, WrittenFacts
  <2>3. RowSound(x, input, j, live) /\ x.at \notin Busy
    BY <1>2, <2>2
  <2>4. DOMAIN journal \subseteq Keys
    BY DEF OptimizationInv, JournalSound
  <2> HIDE DEF j
  <2>5. /\ DOMAIN journal' \subseteq Keys /\ (Step("StepCompleted") \in DOMAIN journal' => Step("StepCompleted") \in DOMAIN journal)
        /\ \A c \in Calls : /\ Prep(c) \in DOMAIN journal' => Prep(c) \in DOMAIN journal
                            /\ Obs(c) \in DOMAIN journal' => Obs(c) \in DOMAIN journal
    BY <2>1, <2>2, <2>4 DEF Plain
  <2> QED BY <1>1, <1>2, <2>1, <2>2, <2>3, <2>5, PlainStep
<1>3. CASE ~(live /\ Agrees(key, says))
  <2>1. Fail(w) /\ UNCHANGED journal
    BY <1>3 DEF Commit
  <2> QED BY <1>1, <2>1, OptimizationFailStep
<1> QED BY <1>2, <1>3


-----------------------------------------------------------------------------
(* The steps that make no call.                                            *)

LEMMA KeysPlain ==
    /\ Plain(Step("StepPrepared")) /\ Plain(Step("EditCompiled"))
    /\ \A o \in Terminals : Plain(Step(o))
    /\ \A c \in Calls : Plain(<<c, "RequestPrepared">>) /\ Plain(Resp(c))
<1>1. \A k \in Kinds : Step(k) \in Keys /\ \A c \in Calls : <<c, k>> \in Keys
  BY DEF Step, Keys
<1>2. {"StepPrepared", "EditCompiled", "RequestPrepared", "ResponseObserved"} \cup Terminals \subseteq Kinds
  BY DEF Kinds
<1>3. \A k \in {"StepPrepared", "EditCompiled"} \cup Terminals :
        Step(k) # Step("StepCompleted") /\ \A c \in Calls : Step(k) # Prep(c) /\ Step(k) # Obs(c)
  BY DEF Step, Prep, Obs, Terminals, Calls
<1>4. \A c \in Calls, k \in {"RequestPrepared", "ResponseObserved"} :
        <<c, k>> # Step("StepCompleted") /\ \A d \in Calls : <<c, k>> # Prep(d) /\ <<c, k>> # Obs(d)
  BY DEF Step, Prep, Obs, Calls
<1> QED BY <1>1, <1>2, <1>3, <1>4 DEF Plain, Resp

LEMMA RowFacts ==
    ASSUME OptimizationInv, NEW w \in Workers
    PROVE  /\ work[w] \in Row /\ DOMAIN work = Workers /\ RowSound(work[w], input, journal, live)
           /\ live => LiveRow(work[w], input, journal)
           /\ input \in Inputs /\ input.batches \in 0..2 /\ live \in BOOLEAN
<1>1. /\ work[w] \in Row /\ DOMAIN work = Workers /\ RowSound(work[w], input, journal, live)
      /\ live => LiveRow(work[w], input, journal)
  BY DEF OptimizationInv, RowsSound, RowSound
<1>2. input \in Inputs /\ live \in BOOLEAN
  BY DEF OptimizationInv, FlagsSound
<1> QED BY <1>1, <1>2, OptimizationShape

LEMMA NothingReached ==
    ASSUME NEW i, NEW j, ~Begins(i) PROVE Settled(i, j)
  BY DEF Settled, Reach, Ranks, Compiles, Reflected, Calls

LEMMA IdleRow == Idle \in Row /\ \A i, j, l : RowSound(Idle, i, j, l)
<1>1. Idle \in Row
  BY DEF Idle, Row, Ats, Calls, MAX_SUGGESTIONS
<1>2. Idle.at = "idle"
  BY DEF Idle
<1> QED BY <1>1, <1>2 DEF RowSound, LiveRow, Asking

LEMMA IdleMoves ==
    ASSUME NEW at \in Ats
    PROVE  /\ [Idle EXCEPT !.at = at] \in Row /\ [Idle EXCEPT !.at = at].at = at
           /\ [Idle EXCEPT !.at = at].call = "first" /\ [Idle EXCEPT !.at = at].pool = 0
<1>1. Idle \in Row /\ Idle.call = "first" /\ Idle.pool = 0
  BY IdleRow DEF Idle
<1> QED BY <1>1 DEF Row

LEMMA OptimizationStartStep == ASSUME OptimizationInv, NEW w \in Workers, run_step(w) PROVE OptimizationInv'
<1> DEFINE x == IF input.grant THEN [Idle EXCEPT !.at = "prepare"]
                ELSE [Idle EXCEPT !.at = "end", !.outcome = "rejected"]
<1>1. /\ work' = [work EXCEPT ![w] = x] /\ UNCHANGED <<input, journal, sent, live, revoked, cleaned, faults>>
  BY DEF run_step, JustMove
<1>2. /\ x \in Row /\ x.at = (IF input.grant THEN "prepare" ELSE "end")
      /\ ~input.grant => x.outcome = "rejected"
  <2>1. "prepare" \in Ats /\ "end" \in Ats /\ "rejected" \in Outcomes
    BY DEF Ats, Outcomes, Terminals
  <2>2. [Idle EXCEPT !.at = "end", !.outcome = "rejected"] \in Row
    BY <2>1, IdleRow DEF Row
  <2>3. [Idle EXCEPT !.at = "end", !.outcome = "rejected"].at = "end"
        /\ [Idle EXCEPT !.at = "end", !.outcome = "rejected"].outcome = "rejected"
    BY IdleRow DEF Row
  <2> QED BY <2>1, <2>2, <2>3, IdleMoves
<1> HIDE DEF x
<1>3. ~input.grant => Settled(input, journal)
  BY NothingReached DEF Begins
<1>4. RowSound(x, input, journal, live) /\ x.at \notin Busy
  BY <1>2, <1>3 DEF RowSound, LiveRow, Asking, Busy, Own, Terminals
<1> QED BY <1>1, <1>4, MoveStep, FaultsStay

LEMMA PrepareStep == ASSUME OptimizationInv, NEW w \in Workers, prepare_step(w) PROVE OptimizationInv'
<1> DEFINE x == FirstCall
           key == Step("StepPrepared")
<1>1. work[w].at = "prepare" /\ Commit(w, key, "prepared", x)
  BY DEF prepare_step
<1>2. /\ x \in Row /\ x.at = (IF input.batches = 0 THEN "end" ELSE "request") /\ x.call = "first" /\ x.pool = 0
      /\ input.batches = 0 => x.outcome = "no_change"
  <2>1. "request" \in Ats /\ "end" \in Ats /\ "no_change" \in Outcomes
    BY DEF Ats, Asking, Outcomes, Terminals
  <2>2. CASE input.batches = 0
    <3>1. x = [Idle EXCEPT !.at = "end", !.outcome = "no_change"]
      BY <2>2 DEF FirstCall
    <3>2. x.call = "first" /\ x.pool = 0
      BY <3>1 DEF Idle
    <3>3. x \in Row /\ x.at = "end" /\ x.outcome = "no_change"
      BY <2>1, <3>1, IdleRow DEF Row
    <3> QED BY <2>2, <3>2, <3>3
  <2>3. CASE input.batches # 0
    <3>1. x = [Idle EXCEPT !.at = "request"]
      BY <2>3 DEF FirstCall
    <3> QED BY <2>1, <2>3, <3>1, IdleMoves
  <2> QED BY <2>2, <2>3
<1> HIDE DEF x
<1>3. ASSUME live, Extends(journal, Written(key, "prepared")) PROVE RowSound(x, input, Written(key, "prepared"), live)
  <2>1. input.grant /\ input.batches \in 0..2
    BY <1>1, <1>3, RowFacts DEF LiveRow
  <2>2. CASE input.batches = 0
    <3>1. Settled(input, Written(key, "prepared"))
      BY <2>2, NothingReached DEF Begins
    <3> QED BY <1>2, <2>2, <3>1 DEF RowSound, LiveRow, Asking, Own, Terminals
  <2>3. CASE input.batches # 0
    <3>1. Reach(input, Written(key, "prepared"), "first") /\ Before(input, Written(key, "prepared"), "first")
          /\ PoolAt(input, Written(key, "prepared"), "first") = 0
      BY <2>1, <2>3 DEF Reach, Before, PoolAt, Begins
    <3>2. input.batches \in 1..2
      BY <2>1, <2>3
    <3> QED BY <1>2, <2>3, <3>1, <3>2 DEF RowSound, LiveRow, Asking
  <2> QED BY <2>2, <2>3
<1>4. x.at \notin Busy /\ Plain(key)
  BY <1>2, KeysPlain DEF Busy
<1> QED BY <1>1, <1>3, <1>4, CommitStep

\* A worker that asks for a call and only moves on.
LEMMA AskingRow ==
    ASSUME NEW x \in Row, NEW i, NEW j, NEW k, NEW l, Extends(j, k), RowSound(x, i, j, l), x.at \in Asking,
           NEW at \in {"request", "look", "claimed", "claim", "sent"}
    PROVE  RowSound([x EXCEPT !.at = at], i, k, l)
<1> DEFINE n == [x EXCEPT !.at = at]
<1>1. n \in Row /\ n.at = at /\ n.call = x.call /\ n.pool = x.pool
  BY DEF Row, Ats, Asking
<1>2. RowSound(x, i, k, l)
  BY RowStays
<1> HIDE DEF n
<1>3. RowSound(n, i, k, l)
  BY <1>1, <1>2 DEF RowSound, LiveRow, Asking
<1> QED BY <1>3 DEF n

LEMMA RequestStep == ASSUME OptimizationInv, NEW w \in Workers, prepare_request(w) PROVE OptimizationInv'
<1> DEFINE key == <<work[w].call, "RequestPrepared">>
           x == [work[w] EXCEPT !.at = "look"]
<1>1. work[w].at = "request" /\ Commit(w, key, "prepared", x)
  BY DEF prepare_request
<1>2. work[w] \in Row /\ RowSound(work[w], input, journal, live) /\ work[w].call \in Calls
  BY RowFacts DEF Row
<1>3. Plain(key) /\ x.at = "look"
  BY <1>2, KeysPlain DEF Row
<1> HIDE DEF key
<1>4. ASSUME live, Extends(journal, Written(key, "prepared")) PROVE RowSound(x, input, Written(key, "prepared"), live)
  <2>1. work[w].at \in Asking
    BY <1>1 DEF Asking
  <2> QED BY <1>2, <1>4, <2>1, AskingRow
<1>5. x.at \notin Busy
  BY <1>3 DEF Busy
<1> HIDE DEF x
<1> QED BY <1>1, <1>3, <1>4, <1>5, CommitStep

LEMMA LookStep == ASSUME OptimizationInv, NEW w \in Workers, look_observed(w) \/ look_claimed(w) PROVE OptimizationInv'
<1> DEFINE key == Obs(work[w].call)
<1>1. /\ work[w] \in Row /\ DOMAIN work = Workers /\ RowSound(work[w], input, journal, live) /\ work[w].call \in Calls
      /\ work[w].at \in Asking
  BY RowFacts DEF Row, look_observed, look_claimed, Asking
<1>2. UNCHANGED <<input, journal, sent, live, revoked, cleaned>> /\ faults' \in 0..MaxFaults
  BY FaultsStay DEF look_observed, look_claimed, JustMove
<1>3. \/ Fail(w) \/ Uncertain(w) \/ Move(w, "claimed") \/ Move(w, "claim")
      \/ live /\ key \in DOMAIN journal /\ work' = [work EXCEPT ![w].at = "respond", ![w].answer = journal[key]]
  BY DEF look_observed, look_claimed, Known, Obs
<1>4. CASE Fail(w) \/ Uncertain(w)
  BY <1>2, <1>4, OptimizationFailStep
<1>5. CASE Move(w, "claimed") \/ Move(w, "claim")
  <2>1. PICK at \in {"claimed", "claim"} : Move(w, at)
    BY <1>5
  <2> DEFINE x == [work[w] EXCEPT !.at = at]
  <2>2. work' = [work EXCEPT ![w] = x] /\ x.at = at
    BY <1>1, <2>1 DEF Move, Row
  <2>3. Extends(journal, journal)
    BY DEF Extends
  <2>4. RowSound(x, input, journal, live)
    BY <1>1, <2>3, AskingRow
  <2>5. x.at \notin Busy
    BY <2>2 DEF Busy
  <2> HIDE DEF x
  <2> QED BY <1>2, <2>2, <2>4, <2>5, MoveStep
<1>6. CASE live /\ key \in DOMAIN journal /\ work' = [work EXCEPT ![w].at = "respond", ![w].answer = journal[key]]
  <2> DEFINE x == [work[w] EXCEPT !.at = "respond", !.answer = journal[key]]
  <2>1. journal[key] \in Answers(work[w].call)
    BY <1>1, <1>6 DEF OptimizationInv, JournalSound, LiveJournal
  <2>2. journal[key] \in ModelAnswers \cup DevReports
    BY <2>1 DEF Answers
  <2>3. /\ work' = [work EXCEPT ![w] = x] /\ x \in Row /\ x.at = "respond" /\ x.answer = journal[key]
        /\ x.call = work[w].call /\ x.pool = work[w].pool
    BY <1>1, <1>6, <2>2 DEF Row, Ats, Asking
  <2> HIDE DEF x
  <2>4. RowSound(x, input, journal, live) /\ x.at \notin Busy
    BY <1>1, <1>6, <2>1, <2>3 DEF RowSound, LiveRow, Asking, Busy
  <2> QED BY <1>2, <2>3, <2>4, MoveStep
<1> QED BY <1>3, <1>4, <1>5, <1>6

LEMMA OptimizationTerminalStep == ASSUME OptimizationInv, NEW w \in Workers, commit_terminal(w) PROVE OptimizationInv'
<1> DEFINE key == Step(work[w].outcome)
           x == [work[w] EXCEPT !.at = "complete"]
           j == Written(key, work[w].call)
<1>1. work[w].at = "end" /\ Commit(w, key, work[w].call, x)
  BY DEF commit_terminal
<1>2. /\ work[w] \in Row /\ RowSound(work[w], input, journal, live) /\ work[w].outcome \in Terminals
  BY <1>1, RowFacts DEF RowSound
<1>3. x \in Row /\ x.at = "complete" /\ x.outcome = work[w].outcome
  BY <1>2 DEF Row, Ats
<1>4. Plain(key) /\ x.at \notin Busy
  BY <1>2, <1>3, KeysPlain DEF Busy
<1>5. ASSUME live, Extends(journal, j) PROVE RowSound(x, input, j, live)
  <2> HIDE DEF x
  <2>1. DOMAIN j = DOMAIN journal \cup {key}
    BY DEF Written
  <2>2. RowSound(work[w], input, j, live)
    BY <1>2, <1>5, RowStays
  <2> HIDE DEF j
  <2> QED BY <1>1, <1>3, <2>1, <2>2 DEF RowSound, LiveRow, Asking
<1> HIDE DEF x, key
<1> QED BY <1>1, <1>4, <1>5, CommitStep


-----------------------------------------------------------------------------
(* What the answer of a call leads to.                                     *)

LEMMA SettledAtBatch ==
    ASSUME NEW i, NEW j, NEW c \in {"first", "second"}, Reach(i, j, c), Obs(c) \in DOMAIN j, ~Suggests(j, c)
    PROVE  Settled(i, j)
<1>1. ~Reflected(i, j)
  BY DEF Reflected, Reach
<1>2. Obs("first") \in DOMAIN j /\ (c = "first" => ~Suggests(j, "first"))
  BY DEF Reach, Suggests
<1>3. \A d \in Calls : Reach(i, j, d) => d = "first" \/ (d = "second" /\ c = "second")
  BY <1>1, <1>2 DEF Reach, Ranks, Compiles, Calls
<1> QED BY <1>2, <1>3 DEF Settled

LEMMA SettledAfter ==
    ASSUME NEW i, NEW j, Reflected(i, j), Ranks(i, j) => Obs("rank") \in DOMAIN j,
           Compiles(i, j) /\ i.edit = "changes" => Obs("dev") \in DOMAIN j
    PROVE  Settled(i, j)
<1>1. Obs("first") \in DOMAIN j /\ (i.batches = 2 => Obs("second") \in DOMAIN j)
  BY DEF Reflected, Suggests
<1> QED BY <1>1 DEF Settled, Reach, Calls

LEMMA SettledAtRun ==
    ASSUME NEW i, NEW j, Compiles(i, j), i.edit = "changes" => Obs("dev") \in DOMAIN j
    PROVE  Settled(i, j)
<1>1. Reflected(i, j) /\ (Ranks(i, j) => Obs("rank") \in DOMAIN j)
  BY DEF Compiles, Ranks
<1> QED BY <1>1, SettledAfter

LEMMA SizeFacts ==
    ASSUME NEW a, input.batches \in 1..2
    PROVE  /\ Size(a) = SizeIn(input, a) /\ Size(a) \in Nat /\ Size(a) <= 8 /\ (input.batches = 2 => Size(a) <= 4)
<1>1. input.batches = 1 \/ input.batches = 2
  OBVIOUS
<1>2. /\ MAX_SUGGESTIONS \div input.batches \in Nat /\ MAX_SUGGESTIONS \div input.batches <= 8
      /\ input.batches = 2 => MAX_SUGGESTIONS \div input.batches <= 4
  BY <1>1 DEF MAX_SUGGESTIONS
<1>3. Size(a) = SizeIn(input, a)
  BY DEF Size, SizeIn, per_batch_limit
<1>4. SizeIn(input, a) \in {0, 1, MAX_SUGGESTIONS \div input.batches}
  BY DEF SizeIn
<1> QED BY <1>2, <1>3, <1>4

\* A row that ended with an outcome of its own.
LEMMA EndRow ==
    ASSUME NEW x \in Row, NEW i, NEW j, NEW l, NEW o \in {"no_change", "rejected"}, l => Settled(i, j)
    PROVE  RowSound(Ends(x, o), i, j, l) /\ Ends(x, o).at \notin Busy
<1> DEFINE n == Ends(x, o)
<1>1. o \in Outcomes /\ o \in Terminals /\ "end" \in Ats
  BY DEF Outcomes, Terminals, Ats
<1>2. n \in Row /\ n.at = "end" /\ n.outcome = o
  BY <1>1 DEF Ends, Row
<1> HIDE DEF n
<1>3. RowSound(n, i, j, l) /\ n.at \notin Busy
  BY <1>1, <1>2 DEF RowSound, LiveRow, Asking, Busy
<1> QED BY <1>3 DEF n

\* What follows the last batch, x being the worker with its pool filled.
LEMMA AfterReflectionRow ==
    ASSUME NEW x \in Row, NEW j, live => Reflected(input, j) /\ Responded(input, j) /\ x.pool = PoolOf(input, j),
           input.batches \in 1..2
    PROVE  RowSound(AfterReflection(x), input, j, live) /\ AfterReflection(x).at \notin Busy
<1> DEFINE n == AfterReflection(x)
<1>1. x.pool \in 0..MAX_SUGGESTIONS
  BY DEF Row
<1>2. CASE x.pool = 0
  <2>1. n = Ends(x, "no_change")
    BY <1>2 DEF AfterReflection
  <2>2. live => Settled(input, j)
    BY <1>2, SettledAfter DEF Ranks, Compiles
  <2> QED BY <2>1, <2>2, EndRow
<1>3. CASE x.pool # 0 /\ x.pool <= MAX_FINAL_EDITS
  <2>1. n = [x EXCEPT !.at = "compile"]
    BY <1>3 DEF AfterReflection
  <2>2. n \in Row /\ n.at = "compile" /\ n.pool = x.pool
    BY <2>1 DEF Row, Ats
  <2>3. live => Compiles(input, j)
    BY <1>3 DEF Compiles
  <2> HIDE DEF n
  <2> QED BY <2>2, <2>3 DEF RowSound, LiveRow, Asking, Busy, n
<1>4. CASE x.pool # 0 /\ ~(x.pool <= MAX_FINAL_EDITS) /\ input.rank
  <2>1. n = [x EXCEPT !.at = "request", !.call = "rank"]
    BY <1>4 DEF AfterReflection
  <2>2. n \in Row /\ n.at = "request" /\ n.call = "rank" /\ n.pool = x.pool
    BY <2>1 DEF Row, Ats, Asking, Calls
  <2>3. live => Reach(input, j, "rank") /\ Before(input, j, "rank") /\ PoolAt(input, j, "rank") = x.pool
    BY <1>4 DEF Ranks, Reach, Before, PoolAt
  <2> HIDE DEF n
  <2> QED BY <2>2, <2>3 DEF RowSound, LiveRow, Asking, Busy, n
<1>5. CASE x.pool # 0 /\ ~(x.pool <= MAX_FINAL_EDITS) /\ ~input.rank
  <2>1. n = Ends(x, "rejected")
    BY <1>5 DEF AfterReflection
  <2>2. live => Settled(input, j)
    BY <1>5, SettledAfter DEF Ranks, Compiles
  <2> QED BY <2>1, <2>2, EndRow
<1> QED BY <1>2, <1>3, <1>4, <1>5


\* The answer of a call is recorded, and the journal is j with it.
LEMMA AfterAnswerRow ==
    ASSUME NEW x \in Row, NEW j, RowSound(x, input, j, live), x.at = "respond", live, Resp(x.call) \in DOMAIN j,
           j[Resp(x.call)] = x.answer, ~(x.answer = "shape" /\ x.call # "rank"), x.answer \notin {"mismatch", "invalid"}
    PROVE  RowSound(AfterAnswer(x), input, j, live) /\ AfterAnswer(x).at \notin Busy
<1> DEFINE n == AfterAnswer(x)
           a == x.answer
<1>1. /\ x.call \in Calls /\ a \in Answers(x.call) /\ input.batches \in 1..2
      /\ x.call = "first" => x.pool = 0
      /\ x.call = "second" => input.batches = 2 /\ x.pool <= 4
      /\ Reach(input, j, x.call) /\ Before(input, j, x.call) /\ x.pool = PoolAt(input, j, x.call)
      /\ Obs(x.call) \in DOMAIN j /\ j[Obs(x.call)] = a
  BY DEF Row, RowSound, LiveRow, Asking
<1>2. CASE a = "uncertain"
  <2>1. PICK at \in {"complete", "end"} : n = [x EXCEPT !.at = at, !.outcome = "uncertain"]
    BY <1>2 DEF AfterAnswer
  <2>2. n \in Row /\ n.at = at /\ n.outcome = "uncertain"
    BY <2>1 DEF Row, Ats, Outcomes, Terminals
  <2> HIDE DEF n
  <2>3. RowSound(n, input, j, live) /\ n.at \notin Busy
    BY <2>2 DEF RowSound, LiveRow, Asking, Busy, Own, Terminals
  <2> QED BY <2>3 DEF n
<1>3. CASE x.call = "rank" /\ a \notin {"uncertain", "one", "many"}
  <2>1. n = [x EXCEPT !.at = "complete", !.outcome = "step_error"]
    BY <1>3 DEF AfterAnswer
  <2>2. n \in Row /\ n.at = "complete" /\ n.outcome = "step_error"
    BY <2>1 DEF Row, Ats, Outcomes
  <2> HIDE DEF n
  <2>3. RowSound(n, input, j, live) /\ n.at \notin Busy
    BY <2>2 DEF RowSound, LiveRow, Asking, Busy, Own
  <2> QED BY <2>3 DEF n
<1>4. CASE x.call = "rank" /\ a \in {"one", "many"}
  <2>1. n = [x EXCEPT !.at = "compile"]
    BY <1>4 DEF AfterAnswer
  <2>2. n \in Row /\ n.at = "compile" /\ n.pool = x.pool
    BY <2>1 DEF Row, Ats
  <2>3. Compiles(input, j) /\ Responded(input, j) /\ x.pool = PoolOf(input, j)
    BY <1>1, <1>4 DEF Compiles, Reach, Ranks, Before, PoolAt
  <2> HIDE DEF n
  <2>4. RowSound(n, input, j, live) /\ n.at \notin Busy
    BY <2>2, <2>3 DEF RowSound, LiveRow, Asking, Busy
  <2> QED BY <2>4 DEF n
<1>5. CASE x.call \in {"first", "second"} /\ a = "rejected"
  <2>1. n = Ends(x, "rejected")
    BY <1>5 DEF AfterAnswer
  <2>2. Settled(input, j)
    BY <1>1, <1>5, SettledAtBatch DEF Suggests
  <2> QED BY <2>1, <2>2, EndRow
<1>6. CASE x.call = "dev" /\ a # "uncertain"
  <2>1. a \in DevReports /\ a # "rejected"
    BY <1>1, <1>6, OptimizationShape DEF Answers
  <2>2. n = Ends(x, select_development(a))
    BY <1>6, <2>1 DEF AfterAnswer
  <2>3. Settled(input, j)
    BY <1>1, <1>6, SettledAtRun DEF Reach
  <2>4. CASE a = "better"
    <3>1. n = [x EXCEPT !.at = "end", !.outcome = "candidate"]
      BY <2>2, <2>4 DEF Ends, select_development
    <3>2. n \in Row /\ n.at = "end" /\ n.outcome = "candidate"
      BY <3>1 DEF Row, Ats, Outcomes, Terminals
    <3>3. Evidence(input, j)
      BY <1>1, <1>6, <2>4 DEF Evidence, Before
    <3> HIDE DEF n
    <3>4. RowSound(n, input, j, live) /\ n.at \notin Busy
      BY <2>3, <3>2, <3>3 DEF RowSound, LiveRow, Asking, Busy, Terminals
    <3> QED BY <3>4 DEF n
  <2>5. CASE a # "better"
    <3>1. n = Ends(x, "rejected")
      BY <2>2, <2>5 DEF select_development
    <3> QED BY <2>3, <3>1, EndRow
  <2> QED BY <2>4, <2>5
<1>7. CASE x.call \in {"first", "second"} /\ a \notin {"uncertain", "rejected"}
  <2> DEFINE p == [x EXCEPT !.pool = @ + Size(a)]
  <2>1. a \in {"none", "one", "many"}
    BY <1>1, <1>7, OptimizationShape DEF Answers
  <2>2. Suggests(j, x.call)
    BY <1>1, <2>1 DEF Suggests
  <2>3. /\ Size(a) = SizeIn(input, j[Obs(x.call)]) /\ Size(a) \in Nat /\ Size(a) <= 8
        /\ input.batches = 2 => Size(a) <= 4
    BY <1>1, SizeFacts
  <2>4. x.pool \in 0..8 /\ x.pool + Size(a) \in 0..8
    BY <1>1, <1>7, <2>3 DEF Row, MAX_SUGGESTIONS
  <2>5. p \in Row /\ p.pool = x.pool + Size(a) /\ p.call = x.call
    BY <2>4 DEF Row, MAX_SUGGESTIONS
  <2>6. CASE x.call = "first" /\ input.batches = 2
    <3>1. n = [p EXCEPT !.at = "request", !.call = "second"]
      BY <1>7, <2>6 DEF AfterAnswer
    <3> HIDE DEF p
    <3>2. n \in Row /\ n.at = "request" /\ n.call = "second" /\ n.pool = Size(a)
      <4>1. p.pool = Size(a)
        BY <1>1, <2>3, <2>5, <2>6
      <4>2. "request" \in Ats /\ "second" \in Calls
        BY DEF Ats, Asking, Calls
      <4> HIDE DEF n
      <4> QED BY <2>5, <3>1, <4>1, <4>2 DEF Row
    <3>3. Reach(input, j, "second") /\ Before(input, j, "second") /\ PoolAt(input, j, "second") = Size(a)
      BY <1>1, <2>2, <2>3, <2>6 DEF Reach, Before, PoolAt
    <3> HIDE DEF n
    <3>4. RowSound(n, input, j, live) /\ n.at \notin Busy
      BY <2>3, <2>6, <3>2, <3>3 DEF RowSound, LiveRow, Asking, Busy
    <3> QED BY <3>4 DEF n
  <2>7. CASE ~(x.call = "first" /\ input.batches = 2)
    <3>1. n = AfterReflection(p)
      BY <1>7, <2>7 DEF AfterAnswer
    <3>2. Reflected(input, j) /\ Responded(input, j)
      BY <1>1, <1>7, <2>2, <2>7 DEF Reach, Reflected, Before, Responded
    <3>3. p.pool = PoolOf(input, j)
      <4>1. CASE x.call = "first"
        <5>1. input.batches # 2 /\ x.pool = 0
          BY <1>1, <2>7, <4>1
        <5>2. PoolOf(input, j) = SizeIn(input, j[Obs("first")]) + 0
          BY <5>1 DEF PoolOf
        <5> QED BY <2>3, <2>5, <4>1, <5>1, <5>2
      <4>2. CASE x.call = "second"
        <5>1. input.batches = 2 /\ x.pool = SizeIn(input, j[Obs("first")])
          BY <1>1, <4>2 DEF PoolAt
        <5> QED BY <2>3, <2>5, <4>2, <5>1 DEF PoolOf
      <4> QED BY <1>7, <4>1, <4>2
    <3> HIDE DEF p
    <3>4. RowSound(AfterReflection(p), input, j, live) /\ AfterReflection(p).at \notin Busy
      BY <1>1, <2>5, <3>2, <3>3, AfterReflectionRow
    <3> QED BY <3>1, <3>4
  <2> QED BY <2>6, <2>7
<1> QED BY <1>1, <1>2, <1>3, <1>4, <1>5, <1>6, <1>7 DEF Calls


LEMMA RespondStep == ASSUME OptimizationInv, NEW w \in Workers, respond(w) PROVE OptimizationInv'
<1> DEFINE x == work[w]
           key == <<x.call, "ResponseObserved">>
           j == Written(key, x.answer)
<1>1. /\ x \in Row /\ DOMAIN work = Workers /\ RowSound(x, input, journal, live) /\ x.call \in Calls /\ x.at = "respond"
      /\ x.answer \in Answers(x.call) /\ (live => LiveRow(x, input, journal))
  BY RowFacts DEF Row, RowSound, respond
<1>2. live => /\ Reach(input, journal, x.call) /\ Obs(x.call) \in DOMAIN journal /\ journal[Obs(x.call)] = x.answer
  BY <1>1 DEF LiveRow, Asking
<1>3. CASE x.answer = "shape" /\ x.call # "rank"
  <2> DEFINE n == [x EXCEPT !.at = "complete", !.outcome = "rejected"]
  <2>1. work' = [work EXCEPT ![w] = n] /\ UNCHANGED <<input, journal, sent, live, revoked, cleaned, faults>>
    BY <1>1, <1>3 DEF respond, JustMove
  <2>2. x.call \in {"first", "second"}
    BY <1>1, <1>3, OptimizationShape DEF Answers, Calls
  <2>3. live => Settled(input, journal)
    BY <1>2, <1>3, <2>2, SettledAtBatch DEF Suggests
  <2>4. n \in Row /\ n.at = "complete" /\ n.outcome = "rejected"
    BY <1>1 DEF Row, Ats, Outcomes, Terminals
  <2> HIDE DEF n
  <2>5. RowSound(n, input, journal, live) /\ n.at \notin Busy
    BY <2>3, <2>4 DEF RowSound, LiveRow, Asking, Busy
  <2> QED BY <2>1, <2>5, MoveStep, FaultsStay
<1>4. CASE ~(x.answer = "shape" /\ x.call # "rank") /\ x.answer = "mismatch"
  <2>1. Fail(w) /\ UNCHANGED <<input, journal, sent, live, revoked, cleaned, faults>>
    BY <1>4 DEF respond, JustMove
  <2> QED BY <2>1, OptimizationFailStep, FaultsStay
<1>5. CASE ~(x.answer = "shape" /\ x.call # "rank") /\ x.answer = "invalid"
  <2>1. work' = [work EXCEPT ![w] = Ends(x, "rejected")] /\ UNCHANGED <<input, journal, sent, live, revoked, cleaned, faults>>
    BY <1>5 DEF respond, JustMove
  <2>2. x.call = "dev"
    BY <1>1, <1>5, OptimizationShape DEF Answers
  <2>3. live => Settled(input, journal)
    BY <1>2, <2>2, SettledAtRun DEF Reach
  <2>4. RowSound(Ends(x, "rejected"), input, journal, live) /\ Ends(x, "rejected").at \notin Busy
    BY <1>1, <2>3, EndRow
  <2> QED BY <2>1, <2>4, MoveStep, FaultsStay
<1>6. CASE ~(x.answer = "shape" /\ x.call # "rank") /\ x.answer # "mismatch" /\ x.answer # "invalid"
  <2>1. Commit(w, key, x.answer, AfterAnswer(x))
    BY <1>6 DEF respond
  <2>2. Plain(key) /\ key = Resp(x.call)
    BY <1>1, KeysPlain DEF Resp
  <2>3. ASSUME live, Extends(journal, j) PROVE RowSound(AfterAnswer(x), input, j, live) /\ AfterAnswer(x).at \notin Busy
    <3>1. key \in DOMAIN j /\ j[key] = x.answer
      BY DEF Written
    <3>2. RowSound(x, input, j, live)
      BY <1>1, <2>3, RowStays
    <3> HIDE DEF x, j, key
    <3> QED BY <1>1, <1>6, <2>2, <2>3, <3>1, <3>2, AfterAnswerRow
  <2> HIDE DEF x, key
  <2> QED BY <2>1, <2>2, <2>3, CommitStep
<1> QED BY <1>3, <1>4, <1>5, <1>6

LEMMA CompileStep == ASSUME OptimizationInv, NEW w \in Workers, compile_edit(w) PROVE OptimizationInv'
<1> DEFINE x == work[w]
           key == Step("EditCompiled")
           j == Written(key, "compiled")
<1>1. /\ x \in Row /\ RowSound(x, input, journal, live) /\ x.at = "compile" /\ (live => LiveRow(x, input, journal))
      /\ input.batches \in 0..2
  BY RowFacts DEF compile_edit
<1>2. live => Compiles(input, journal) /\ Responded(input, journal) /\ x.pool = PoolOf(input, journal)
  BY <1>1 DEF LiveRow
<1>3. CASE input.edit = "changes"
  <2> DEFINE n == [x EXCEPT !.at = "request", !.call = "dev"]
  <2>1. Commit(w, key, "compiled", n)
    BY <1>3 DEF compile_edit
  <2>2. n \in Row /\ n.at = "request" /\ n.call = "dev" /\ n.pool = x.pool
    BY <1>1 DEF Row, Ats, Asking, Calls
  <2>3. Plain(key)
    BY KeysPlain
  <2> HIDE DEF x
  <2>4. ASSUME live, Extends(journal, j) PROVE RowSound(n, input, j, live) /\ n.at \notin Busy
    <3>1. key \in DOMAIN j
      BY DEF Written
    <3> HIDE DEF n, j
    <3>2. Compiles(input, j) /\ Responded(input, j) /\ n.pool = PoolOf(input, j)
      BY <1>2, <2>2, <2>4, ReachStays DEF Compiles
    <3>3. Reach(input, j, "dev") /\ Before(input, j, "dev") /\ n.pool = PoolAt(input, j, "dev")
      BY <1>3, <3>1, <3>2 DEF Reach, Before, PoolAt
    <3>4. input.batches \in 1..2
      BY <1>1, <3>2 DEF Compiles, Reflected, Begins
    <3> QED BY <2>2, <3>3, <3>4 DEF RowSound, LiveRow, Asking, Busy
  <2> HIDE DEF n
  <2> QED BY <2>1, <2>3, <2>4, CommitStep
<1>4. CASE input.edit # "changes"
  <2>1. PICK o \in {"no_change", "rejected"} : work' = [work EXCEPT ![w] = Ends(x, o)]
    BY <1>4 DEF compile_edit
  <2>2. UNCHANGED <<input, journal, sent, live, revoked, cleaned, faults>>
    BY <1>4 DEF compile_edit, JustMove
  <2>3. live => Settled(input, journal)
    BY <1>2, <1>4, SettledAtRun
  <2>4. RowSound(Ends(x, o), input, journal, live) /\ Ends(x, o).at \notin Busy
    BY <1>1, <2>3, EndRow
  <2> QED BY <2>1, <2>2, <2>4, MoveStep, FaultsStay
<1> QED BY <1>3, <1>4

-----------------------------------------------------------------------------
(* A call is made, answered and observed.                                  *)

LEMMA CallKeys ==
    /\ \A c, d : Prep(c) # Obs(d) /\ (Prep(c) = Prep(d) => c = d) /\ (Obs(c) = Obs(d) => c = d)
    /\ \A c \in Calls : Prep(c) \in Keys /\ Obs(c) \in Keys
    /\ \A c, k : Prep(c) # Resp(k) /\ Obs(c) # Resp(k)
    /\ \A c \in Calls : \A k : Prep(c) # Step(k) /\ Obs(c) # Step(k)
  BY DEF Prep, Obs, Resp, Keys, Kinds, Calls, Step

LEMMA CallClaimed ==
    ASSUME NEW j, NEW k, NEW n, NEW jobs, NEW w \in Workers, NEW x, CallsSound(j, n, jobs), NEW c \in Calls,
           Prep(c) \notin DOMAIN j, DOMAIN k = DOMAIN j \cup {Prep(c)}, DOMAIN jobs = Workers, x.at = "sent", x.call = c,
           \A v \in Workers : jobs[v].call \in Calls
    PROVE  CallsSound(k, n, [jobs EXCEPT ![w] = x])
<1> DEFINE new == [jobs EXCEPT ![w] = x]
<1>1. new[w] = x /\ \A v \in Workers : v # w => new[v] = jobs[v]
  OBVIOUS
<1> HIDE DEF new
<1>2. \A d \in Calls : (Obs(d) \in DOMAIN k => Obs(d) \in DOMAIN j) /\ (Prep(d) \in DOMAIN k => Prep(d) \in DOMAIN j \/ d = c)
  BY CallKeys
<1>3. n[c] = 0 /\ Obs(c) \notin DOMAIN k
  BY <1>2 DEF CallsSound
<1>4. \A d \in Calls : /\ n[d] <= 1 /\ (Prep(d) \notin DOMAIN k => n[d] = 0)
                       /\ Obs(d) \in DOMAIN k => Prep(d) \in DOMAIN k
  BY <1>2 DEF CallsSound
<1>5. \A v \in Workers : jobs[v].at \in Busy => jobs[v].call # c
  BY DEF CallsSound
<1>6. ASSUME NEW v \in Workers, new[v].at \in Busy
      PROVE  /\ Prep(new[v].call) \in DOMAIN k /\ Obs(new[v].call) \notin DOMAIN k
             /\ new[v].at = "sent" => n[new[v].call] = 0
             /\ \A u \in Workers : new[u].at \in Busy /\ new[u].call = new[v].call => u = v
  <2>1. CASE v = w
    BY <1>1, <1>3, <1>5, <2>1
  <2>2. CASE v # w
    BY <1>1, <1>2, <1>5, <1>6, <2>2 DEF CallsSound
  <2> QED BY <2>1, <2>2
<1> QED BY <1>4, <1>6 DEF CallsSound, new

LEMMA OptimizationClaimStep == ASSUME OptimizationInv, NEW w \in Workers, claim_call(w) PROVE OptimizationInv'
<1> DEFINE c == work[w].call
           key == Prep(c)
           x == [work[w] EXCEPT !.at = "sent"]
           j == Written(key, "prepared")
<1>1. /\ work[w] \in Row /\ DOMAIN work = Workers /\ RowSound(work[w], input, journal, live) /\ c \in Calls
      /\ work[w].at = "claim" /\ (live => LiveRow(work[w], input, journal))
  BY RowFacts DEF Row, claim_call
<1>2. UNCHANGED <<input, sent, live, revoked, cleaned, faults>> /\ faults' \in 0..MaxFaults
  BY FaultsStay DEF claim_call
<1>3. \/ (Fail(w) \/ Uncertain(w)) /\ UNCHANGED journal
      \/ live /\ key \notin DOMAIN journal /\ Move(w, "sent") /\ journal' = j
  BY DEF claim_call, Known, Prep
<1>4. CASE (Fail(w) \/ Uncertain(w)) /\ UNCHANGED journal
  BY <1>2, <1>4, OptimizationFailStep
<1>5. CASE live /\ key \notin DOMAIN journal /\ Move(w, "sent") /\ journal' = j
  <2>1. work' = [work EXCEPT ![w] = x] /\ x.at = "sent" /\ x.call = c
    BY <1>1, <1>5 DEF Move, Row
  <2>2. DOMAIN j = DOMAIN journal \cup {key} /\ Extends(journal, j)
    BY <1>5 DEF Written, Extends
  <2>3. RowSound(x, input, j, live) /\ Reach(input, j, c)
    <3>1. work[w].at \in Asking
      BY <1>1 DEF Asking
    <3>2. Reach(input, journal, c)
      BY <1>1, <1>5, <3>1 DEF LiveRow
    <3> QED BY <1>1, <2>2, <3>1, <3>2, AskingRow, ReachStays
  <2> HIDE DEF j, x
  <2>4. RowsSound(work', input, journal', live)
    BY <1>5, <2>1, <2>2, <2>3, RowsStay DEF OptimizationInv
  <2>5. /\ DOMAIN j \subseteq Keys
        /\ \A d \in Calls : /\ Obs(d) \in DOMAIN j => Obs(d) \in DOMAIN journal
                            /\ Prep(d) \in DOMAIN j => Prep(d) \in DOMAIN journal \/ d = c
        /\ \A k : Step(k) \in DOMAIN j => Step(k) \in DOMAIN journal
    BY <1>1, <2>2, CallKeys DEF OptimizationInv, JournalSound
  <2>6. LiveJournal(input, journal) /\ Kept(input, journal) /\ ~cleaned
    BY <1>5 DEF OptimizationInv, JournalSound, FlagsSound
  \* Whoever ended the step left nothing within reach open.
  <2>7. ~(Step("StepCompleted") \in DOMAIN journal /\ journal[Step("StepCompleted")] \in Own)
    <3> SUFFICES ASSUME Step("StepCompleted") \in DOMAIN journal, journal[Step("StepCompleted")] \in Own PROVE FALSE
      OBVIOUS
    <3>1. Settled(input, journal)
      BY <2>6 DEF LiveJournal
    <3>2. Reach(input, journal, c)
      BY <1>1, <2>2, <2>3, <3>1, SettledStays
    <3>3. Obs(c) \in DOMAIN journal
      BY <1>1, <3>1, <3>2 DEF Settled
    <3> QED BY <1>1, <1>5, <3>3 DEF OptimizationInv, CallsSound
  <2>8. Kept(input, j) /\ LiveJournal(input, j)
    <3>1. ~(Step("StepCompleted") \in DOMAIN j /\ j[Step("StepCompleted")] \in Own)
      BY <2>2, <2>5, <2>7 DEF Extends
    <3>2. Kept(input, j)
      BY <3>1 DEF Kept, Own
    <3>3. \A d \in Calls : Prep(d) \in DOMAIN j => Reach(input, j, d)
      BY <2>2, <2>3, <2>5, <2>6, ReachStays DEF LiveJournal
    <3>4. \A d \in Calls : Obs(d) \in DOMAIN j => j[Obs(d)] \in Answers(d)
      BY <2>2, <2>5, <2>6 DEF LiveJournal, Extends
    <3> QED BY <3>1, <3>2, <3>3, <3>4 DEF LiveJournal
  <2>9. JournalSound(input, j, live, cleaned)
    BY <2>5, <2>6, <2>8 DEF JournalSound
  <2>10. CallsSound(j, sent, work')
    <3>1. \A v \in Workers : work[v].call \in Calls
      BY DEF OptimizationInv, RowsSound, RowSound, Row
    <3>2. CallsSound(journal, sent, work)
      BY DEF OptimizationInv
    <3> HIDE DEF c
    <3>3. CallsSound(j, sent, [work EXCEPT ![w] = x])
      BY <1>1, <1>5, <2>1, <2>2, <2>5, <3>1, <3>2, CallClaimed
    <3> QED BY <2>1, <3>3
  <2>11. FlagsSound'
    BY <1>2 DEF OptimizationInv, FlagsSound
  <2> QED BY <1>2, <1>5, <2>4, <2>9, <2>10, <2>11 DEF OptimizationInv
<1> QED BY <1>3, <1>4, <1>5


\* The call has gone out: its worker has the answer, or nobody has.
LEMMA CallReturned ==
    ASSUME NEW j, NEW n, NEW m, NEW jobs, NEW w \in Workers, NEW x, CallsSound(j, n, jobs), NEW c \in Calls,
           jobs[w].at = "sent", jobs[w].call = c, m = [n EXCEPT ![c] = @ + 1], DOMAIN jobs = Workers,
           x.at \notin Busy \/ (x.at = "observe" /\ x.call = c), \A v \in Workers : jobs[v].call \in Calls
    PROVE  CallsSound(j, m, [jobs EXCEPT ![w] = x])
<1> DEFINE new == [jobs EXCEPT ![w] = x]
<1>1. new[w] = x /\ \A v \in Workers : v # w => new[v] = jobs[v]
  OBVIOUS
<1> HIDE DEF new
<1>2. /\ n \in [Calls -> Nat] /\ n[c] = 0 /\ Prep(c) \in DOMAIN j /\ Obs(c) \notin DOMAIN j
      /\ \A v \in Workers : jobs[v].at \in Busy /\ jobs[v].call = c => v = w
  BY DEF CallsSound, Busy
<1>3. m \in [Calls -> Nat] /\ m[c] = 1 /\ \A d \in Calls : d # c => m[d] = n[d]
  BY <1>2
<1>4. \A d \in Calls : /\ m[d] <= 1 /\ (Prep(d) \notin DOMAIN j => m[d] = 0)
                       /\ Obs(d) \in DOMAIN j => Prep(d) \in DOMAIN j
  BY <1>2, <1>3 DEF CallsSound
<1>5. ASSUME NEW v \in Workers, new[v].at \in Busy
      PROVE  /\ Prep(new[v].call) \in DOMAIN j /\ Obs(new[v].call) \notin DOMAIN j
             /\ new[v].at = "sent" => m[new[v].call] = 0
             /\ \A u \in Workers : new[u].at \in Busy /\ new[u].call = new[v].call => u = v
  <2>1. CASE v = w
    BY <1>1, <1>2, <1>5, <2>1 DEF Busy
  <2>2. CASE v # w
    <3>1. new[v] = jobs[v] /\ jobs[v].call # c
      BY <1>1, <1>2, <1>5, <2>2
    <3> QED BY <1>1, <1>3, <1>5, <2>2, <3>1 DEF CallsSound
  <2> QED BY <2>1, <2>2
<1> QED BY <1>3, <1>4, <1>5 DEF CallsSound, new

LEMMA CallObserved ==
    ASSUME NEW j, NEW k, NEW n, NEW jobs, NEW w \in Workers, NEW x, CallsSound(j, n, jobs), NEW c \in Calls,
           jobs[w].at = "observe", jobs[w].call = c, DOMAIN k = DOMAIN j \cup {Obs(c)}, DOMAIN jobs = Workers,
           x.at \notin Busy, \A v \in Workers : jobs[v].call \in Calls
    PROVE  CallsSound(k, n, [jobs EXCEPT ![w] = x])
<1> DEFINE new == [jobs EXCEPT ![w] = x]
<1>1. new[w] = x /\ \A v \in Workers : v # w => new[v] = jobs[v]
  OBVIOUS
<1> HIDE DEF new
<1>2. \A d \in Calls : (Prep(d) \in DOMAIN k => Prep(d) \in DOMAIN j) /\ (Obs(d) \in DOMAIN k => Obs(d) \in DOMAIN j \/ d = c)
  BY CallKeys
<1>3. Prep(c) \in DOMAIN j /\ \A v \in Workers : jobs[v].at \in Busy /\ jobs[v].call = c => v = w
  BY DEF CallsSound, Busy
<1>4. \A d \in Calls : /\ n[d] <= 1 /\ (Prep(d) \notin DOMAIN k => n[d] = 0)
                       /\ Obs(d) \in DOMAIN k => Prep(d) \in DOMAIN k
  BY <1>2, <1>3 DEF CallsSound
<1>5. ASSUME NEW v \in Workers, new[v].at \in Busy
      PROVE  /\ Prep(new[v].call) \in DOMAIN k /\ Obs(new[v].call) \notin DOMAIN k
             /\ new[v].at = "sent" => n[new[v].call] = 0
             /\ \A u \in Workers : new[u].at \in Busy /\ new[u].call = new[v].call => u = v
  <2>1. v # w /\ new[v] = jobs[v] /\ jobs[v].call # c
    BY <1>1, <1>3, <1>5
  <2> QED BY <1>1, <1>2, <1>5, <2>1 DEF CallsSound
<1> QED BY <1>4, <1>5 DEF CallsSound, new

\* The journal stays, the call has gone out.
LEMMA OptimizationReturnStep ==
    ASSUME OptimizationInv, NEW w \in Workers, work[w].at = "sent", NEW x, work' = [work EXCEPT ![w] = x],
           sent' = [sent EXCEPT ![work[w].call] = @ + 1], x.at \notin Busy \/ (x.at = "observe" /\ x.call = work[w].call),
           RowSound(x, input, journal, live), UNCHANGED <<input, journal, live, revoked, cleaned>>, faults' \in 0..MaxFaults
    PROVE  OptimizationInv'
<1>1. FlagsSound' /\ JournalSound(input, journal', live, cleaned)
  BY DEF OptimizationInv, FlagsSound
<1>2. CallsSound(journal, sent', work')
  <2>1. DOMAIN work = Workers /\ \A v \in Workers : work[v].call \in Calls
    BY DEF OptimizationInv, RowsSound, RowSound, Row
  <2>2. CallsSound(journal, sent, work)
    BY DEF OptimizationInv
  <2>3. CallsSound(journal, sent', [work EXCEPT ![w] = x])
    BY <2>1, <2>2, CallReturned
  <2> QED BY <2>3
<1>3. RowsSound(work', input, journal, live)
  <2>1. Extends(journal, journal)
    BY DEF Extends
  <2> QED BY <2>1, RowsStay DEF OptimizationInv
<1> QED BY <1>1, <1>2, <1>3 DEF OptimizationInv

LEMMA ReturnsStep == ASSUME OptimizationInv, NEW w \in Workers, call_returns(w) PROVE OptimizationInv'
<1> DEFINE c == work[w].call
<1>1. /\ work[w] \in Row /\ DOMAIN work = Workers /\ RowSound(work[w], input, journal, live) /\ c \in Calls
      /\ work[w].at = "sent"
  BY RowFacts DEF Row, call_returns
<1>2. /\ UNCHANGED <<input, journal, live, revoked, cleaned, faults>> /\ faults' \in 0..MaxFaults
      /\ sent' = [sent EXCEPT ![c] = @ + 1]
  BY FaultsStay DEF call_returns
<1>3. CASE \E a \in Answers(c) : work' = [work EXCEPT ![w].at = "observe", ![w].answer = a]
  <2>1. PICK a \in Answers(c) : work' = [work EXCEPT ![w].at = "observe", ![w].answer = a]
    BY <1>3
  <2> DEFINE x == [work[w] EXCEPT !.at = "observe", !.answer = a]
  <2>2. a \in ModelAnswers \cup DevReports
    BY DEF Answers
  <2>3. /\ work' = [work EXCEPT ![w] = x] /\ x \in Row /\ x.at = "observe" /\ x.answer = a
        /\ x.call = c /\ x.pool = work[w].pool
    BY <1>1, <2>1, <2>2 DEF Row, Ats, Asking
  <2> HIDE DEF x
  <2>4. RowSound(x, input, journal, live)
    BY <1>1, <2>3 DEF RowSound, LiveRow, Asking
  <2> QED BY <1>1, <1>2, <2>3, <2>4, OptimizationReturnStep
<1>4. CASE Uncertain(w)
  <2> DEFINE x == [work[w] EXCEPT !.at = "complete", !.outcome = "uncertain"]
  <2>1. work' = [work EXCEPT ![w] = x]
    BY <1>1, <1>4 DEF Uncertain
  <2>2. x \in Row /\ x.at = "complete" /\ x.outcome = "uncertain"
    BY <1>1 DEF Row, Ats, Outcomes, Terminals
  <2> HIDE DEF x
  <2>3. x.at \notin Busy /\ RowSound(x, input, journal, live)
    BY <2>2 DEF RowSound, LiveRow, Asking, Busy, Own
  <2> QED BY <1>1, <1>2, <2>1, <2>3, OptimizationReturnStep
<1> QED BY <1>3, <1>4 DEF call_returns

\* Whatever became of the sources, the worker that made the call is the only one to
\* observe it.
LEMMA ObserveStep == ASSUME OptimizationInv, NEW w \in Workers, observe_call(w) PROVE OptimizationInv'
<1> DEFINE c == work[w].call
           key == Obs(c)
           says == IF holds_model_output(c) /\ run_dependency_revoked THEN "redacted" ELSE work[w].answer
           j == Written(key, says)
<1>1. /\ work[w] \in Row /\ DOMAIN work = Workers /\ RowSound(work[w], input, journal, live) /\ c \in Calls
      /\ work[w].at = "observe" /\ (live => LiveRow(work[w], input, journal)) /\ work[w].answer \in Answers(c)
  BY RowFacts DEF Row, RowSound, observe_call
<1>2. UNCHANGED <<input, sent, live, revoked, cleaned, faults>>
  BY DEF observe_call
<1>3. key \notin DOMAIN journal
  BY <1>1 DEF OptimizationInv, CallsSound, Busy
<1>4. journal' = j /\ (live => Move(w, "respond")) /\ (~live => Fail(w))
  BY <1>1, <1>3 DEF observe_call, Agrees, Known, Obs
<1>5. DOMAIN j = DOMAIN journal \cup {key} /\ Extends(journal, j) /\ j[key] = says
  BY <1>3 DEF Written, Extends
<1>6. /\ live => says = work[w].answer
      /\ cleaned => says = "redacted" \/ key = Obs("dev")
  BY DEF OptimizationInv, FlagsSound, run_dependency_revoked, holds_model_output
<1> HIDE DEF j, says
<1>7. /\ DOMAIN j \subseteq Keys
      /\ \A d \in Calls : /\ Prep(d) \in DOMAIN j => Prep(d) \in DOMAIN journal
                          /\ Obs(d) \in DOMAIN j => Obs(d) \in DOMAIN journal \/ d = c
      /\ \A k : Step(k) \in DOMAIN j => Step(k) \in DOMAIN journal
      /\ \A d : Resp(d) \in DOMAIN j => Resp(d) \in DOMAIN journal
  BY <1>1, <1>5, CallKeys DEF OptimizationInv, JournalSound
<1>8. PICK x : work' = [work EXCEPT ![w] = x] /\ x.at \notin Busy /\ RowSound(x, input, j, live)
  <2>1. CASE live
    <3> DEFINE x == [work[w] EXCEPT !.at = "respond"]
    <3>1. /\ work' = [work EXCEPT ![w] = x] /\ x \in Row /\ x.at = "respond" /\ x.call = c /\ x.pool = work[w].pool
          /\ x.answer = work[w].answer
      BY <1>1, <1>4, <2>1 DEF Move, Row, Ats, Asking
    <3>2. RowSound(work[w], input, j, live)
      BY <1>1, <1>5, RowStays
    <3> HIDE DEF x
    <3>3. x.at \notin Busy /\ RowSound(x, input, j, live)
      BY <1>1, <1>5, <1>6, <2>1, <3>1, <3>2 DEF RowSound, LiveRow, Asking, Busy
    <3> QED BY <3>1, <3>3
  <2>2. CASE ~live
    <3> DEFINE x == [work[w] EXCEPT !.at = "complete", !.outcome = "step_error"]
    <3>1. work' = [work EXCEPT ![w] = x]
      BY <1>1, <1>4, <2>2 DEF Fail
    <3>2. x \in Row /\ x.at = "complete" /\ x.outcome = "step_error"
      BY <1>1 DEF Row, Ats, Outcomes
    <3> HIDE DEF x
    <3>3. x.at \notin Busy /\ RowSound(x, input, j, live)
      BY <2>2, <3>2 DEF RowSound, Asking, Busy
    <3> QED BY <3>1, <3>3
  <2> QED BY <2>1, <2>2
<1>9. RowsSound(work', input, j, live)
  BY <1>5, <1>8, RowsStay DEF OptimizationInv
<1>10. CallsSound(j, sent, work')
  <2>1. \A v \in Workers : work[v].call \in Calls
    BY DEF OptimizationInv, RowsSound, RowSound, Row
  <2>2. CallsSound(journal, sent, work)
    BY DEF OptimizationInv
  <2> HIDE DEF c
  <2>3. CallsSound(j, sent, [work EXCEPT ![w] = x])
    BY <1>1, <1>5, <1>8, <2>1, <2>2, CallObserved DEF c
  <2> QED BY <1>8, <2>3
<1>11. Kept(input, j)
  <2>1. Kept(input, journal)
    BY DEF OptimizationInv, JournalSound
  <2>2. Responded(input, journal) => Responded(input, j)
    BY <1>5, ReachStays
  <2> QED BY <1>5, <1>7, <2>1, <2>2 DEF Kept, Extends
<1>12. live => LiveJournal(input, j)
  <2> SUFFICES ASSUME live PROVE LiveJournal(input, j)
    OBVIOUS
  <2>1. LiveJournal(input, journal)
    BY DEF OptimizationInv, JournalSound
  <2>2. \A d \in Calls : Prep(d) \in DOMAIN j => Reach(input, j, d)
    BY <1>5, <1>7, <2>1, ReachStays DEF LiveJournal
  <2>3. \A d \in Calls : Obs(d) \in DOMAIN j => j[Obs(d)] \in Answers(d)
    BY <1>1, <1>5, <1>6, <1>7, <2>1 DEF LiveJournal, Extends
  <2>4. Step("StepCompleted") \in DOMAIN j /\ j[Step("StepCompleted")] \in Own => Settled(input, j)
    BY <1>5, <1>7, <2>1, SettledStays DEF LiveJournal, Extends
  <2> QED BY <2>2, <2>3, <2>4 DEF LiveJournal
<1>13. cleaned => \A k \in DOMAIN j : j[k] = "redacted" \/ k = Obs("dev")
  BY <1>5, <1>6 DEF OptimizationInv, JournalSound, Extends
<1>14. JournalSound(input, j, live, cleaned)
  BY <1>7, <1>11, <1>12, <1>13 DEF JournalSound
<1>15. FlagsSound'
  BY <1>2 DEF OptimizationInv, FlagsSound
<1> QED BY <1>2, <1>4, <1>9, <1>10, <1>14, <1>15 DEF OptimizationInv


-----------------------------------------------------------------------------
(* The step ends, and what interrupts it.                                  *)

LEMMA StepKeys ==
    /\ Step("StepCompleted") \in Keys
    /\ \A c \in Calls : Step("StepCompleted") # Prep(c) /\ Step("StepCompleted") # Obs(c) /\ Step("StepCompleted") # Resp(c)
    /\ Step("StepCompleted") # Step("EditCompiled") /\ Step("StepCompleted") # Step("candidate")
  BY DEF Step, Keys, Kinds, Prep, Obs, Resp, Calls

LEMMA CompleteStep == ASSUME OptimizationInv, NEW w \in Workers, complete_step(w) PROVE OptimizationInv'
<1> DEFINE key == Step("StepCompleted")
           o == work[w].outcome
           j == Written(key, o)
<1>1. /\ work[w].at = "complete" /\ work' = [work EXCEPT ![w] = Idle]
      /\ UNCHANGED <<input, sent, live, revoked, cleaned, faults>>
      /\ journal' = IF live /\ Agrees(key, o) THEN j ELSE journal
  BY DEF complete_step
<1>2. Idle.at \notin Busy /\ RowSound(Idle, input, journal, live) /\ faults' \in 0..MaxFaults
  BY <1>1, IdleRow, FaultsStay DEF Idle, Busy
<1>3. CASE ~(live /\ Agrees(key, o))
  <2>1. journal' = journal
    BY <1>1, <1>3
  <2> QED BY <1>1, <1>2, <2>1, MoveStep
<1>4. CASE live /\ Agrees(key, o)
  <2>1. /\ DOMAIN j = DOMAIN journal \cup {key} /\ j[key] = o /\ Extends(journal, j) /\ journal' = j
    BY <1>1, <1>4, WrittenFacts
  <2>2. LiveRow(work[w], input, journal) /\ JournalSound(input, journal, live, cleaned) /\ ~cleaned
    BY <1>4, RowFacts DEF OptimizationInv, FlagsSound
  <2> HIDE DEF j
  <2>3. /\ DOMAIN j \subseteq Keys
        /\ \A c \in Calls : /\ Prep(c) \in DOMAIN j => Prep(c) \in DOMAIN journal
                            /\ Obs(c) \in DOMAIN j => Obs(c) \in DOMAIN journal
    BY <2>1, <2>2, StepKeys DEF JournalSound
  <2>4. LiveJournal(input, j)
    <3>1. \A c \in Calls : Prep(c) \in DOMAIN j => Reach(input, j, c)
      BY <1>4, <2>1, <2>2, <2>3, ReachStays DEF JournalSound, LiveJournal
    <3>2. \A c \in Calls : Obs(c) \in DOMAIN j => j[Obs(c)] \in Answers(c)
      BY <1>4, <2>1, <2>2, <2>3 DEF JournalSound, LiveJournal, Extends
    <3>3. o \in Own => Settled(input, j)
      BY <1>1, <2>1, <2>2, SettledStays DEF LiveRow
    <3> QED BY <2>1, <3>1, <3>2, <3>3 DEF LiveJournal
  <2>5. Kept(input, j)
    <3>1. o \in Own => \A c \in Calls : Prep(c) \in DOMAIN j => Obs(c) \in DOMAIN j
      BY <2>1, <2>4 DEF LiveJournal, Settled
    <3>2. o = "candidate" => Evidence(input, journal) /\ Step("candidate") \in DOMAIN journal
      BY <1>1, <2>2 DEF LiveRow
    <3>3. o = "candidate" => Evidence(input, j) /\ Step("candidate") \in DOMAIN j
      BY <2>1, <3>2, ReachStays DEF Extends
    <3> QED BY <2>1, <3>1, <3>3 DEF Kept, Evidence
  <2>6. JournalSound(input, j, live, cleaned)
    BY <2>2, <2>3, <2>4, <2>5 DEF JournalSound
  <2>7. RowsSound(work', input, j, live)
    <3>1. RowSound(Idle, input, j, live)
      BY IdleRow
    <3> QED BY <1>1, <2>1, <3>1, RowsStay DEF OptimizationInv
  <2>8. CallsSound(j, sent, work')
    <3>1. DOMAIN work = Workers /\ \A v \in Workers : work[v].call \in Calls
      BY DEF OptimizationInv, RowsSound, RowSound, Row
    <3>2. CallsSound(journal, sent, work)
      BY DEF OptimizationInv
    <3> QED BY <1>1, <1>2, <2>1, <2>3, <3>1, <3>2, CallsStay
  <2>9. FlagsSound'
    BY <1>1 DEF OptimizationInv, FlagsSound
  <2> QED BY <1>1, <2>1, <2>6, <2>7, <2>8, <2>9 DEF OptimizationInv
<1> QED BY <1>3, <1>4

LEMMA OptimizationCrashStep == ASSUME OptimizationInv, NEW w \in Workers, optimization_crash(w) \/ store_fails(w) PROVE OptimizationInv'
<1>1. faults' \in 0..MaxFaults /\ UNCHANGED <<input, journal, live, revoked, cleaned>>
  <2>1. MaxFaults \in Nat /\ faults \in 0..MaxFaults
    BY OptimizationShape DEF OptimizationInv, FlagsSound
  <2> QED BY <2>1 DEF optimization_crash, store_fails
<1>2. Idle.at \notin Busy /\ RowSound(Idle, input, journal, live)
  BY IdleRow DEF Idle, Busy
<1>3. CASE optimization_crash(w) /\ work[w].at = "sent"
  <2>1. sent' = [sent EXCEPT ![work[w].call] = @ + 1] /\ work' = [work EXCEPT ![w] = Idle]
    BY <1>3 DEF optimization_crash
  <2> QED BY <1>1, <1>2, <1>3, <2>1, OptimizationReturnStep
<1>4. CASE optimization_crash(w) /\ work[w].at # "sent"
  <2>1. sent' = sent /\ work' = [work EXCEPT ![w] = Idle]
    BY <1>4 DEF optimization_crash
  <2> QED BY <1>1, <1>2, <2>1, MoveStep
<1>5. CASE store_fails(w)
  <2>1. Fail(w) /\ UNCHANGED sent
    BY <1>5 DEF store_fails
  <2> QED BY <1>1, <2>1, OptimizationFailStep
<1> QED BY <1>3, <1>4, <1>5

LEMMA OptimizationRevokeStep == ASSUME OptimizationInv, optimization_revoke \/ optimization_cleanup PROVE OptimizationInv'
<1>0. revoked \in BOOLEAN /\ cleaned \in BOOLEAN /\ live \in BOOLEAN /\ (revoked => ~live) /\ (cleaned => revoked)
  BY DEF OptimizationInv, FlagsSound
<1>1. UNCHANGED <<input, sent, work, faults>> /\ ~live'
  <2>1. CASE optimization_revoke
    BY <2>1 DEF optimization_revoke
  <2>2. CASE optimization_cleanup
    <3>1. UNCHANGED <<input, sent, work, faults>> /\ revoked /\ live' = live
      BY <2>2 DEF optimization_cleanup
    <3>2. ~live
      BY <1>0, <3>1
    <3> QED BY <3>1, <3>2
  <2> QED BY <2>1, <2>2
<1>2. DOMAIN journal' = DOMAIN journal
  BY DEF optimization_revoke, optimization_cleanup
<1>3. FlagsSound'
  <2>1. CASE optimization_revoke
    <3>1. live' = FALSE /\ revoked' \in {revoked, TRUE} /\ cleaned' = cleaned /\ ~revoked
      BY <2>1 DEF optimization_revoke
    <3>2. live' \in BOOLEAN /\ revoked' \in BOOLEAN /\ cleaned' \in BOOLEAN
      BY <1>0, <3>1, Zenon
    <3>3. ~cleaned'
      BY <1>0, <3>1, Zenon
    <3> QED BY <1>1, <3>2, <3>3 DEF OptimizationInv, FlagsSound
  <2>2. CASE optimization_cleanup
    <3>1. live' = live /\ revoked' = revoked /\ revoked /\ cleaned' = TRUE
      BY <2>2 DEF optimization_cleanup
    <3>2. live' \in BOOLEAN /\ revoked' \in BOOLEAN /\ cleaned' \in BOOLEAN
      BY <1>0, <3>1, Zenon
    <3>3. revoked'
      BY <3>1, Zenon
    <3> QED BY <1>1, <3>2, <3>3 DEF OptimizationInv, FlagsSound
  <2> QED BY <2>1, <2>2
<1>4. RowsSound(work', input', journal', live')
  BY <1>1 DEF OptimizationInv, RowsSound, RowSound
<1>5. CallsSound(journal', sent', work')
  BY <1>1, <1>2 DEF OptimizationInv, CallsSound
<1>6. JournalSound(input', journal', live', cleaned')
  <2>1. DOMAIN journal' \subseteq Keys
    BY <1>2 DEF OptimizationInv, JournalSound
  <2>2. CASE optimization_revoke
    BY <1>1, <2>1, <2>2 DEF optimization_revoke, OptimizationInv, JournalSound
  <2>3. CASE optimization_cleanup
    <3>1. \A k \in DOMAIN journal' : journal'[k] = "redacted"
      BY <2>3 DEF optimization_cleanup
    <3>2. Kept(input', journal')
      BY <3>1 DEF Kept, Own
    <3> QED BY <1>1, <2>1, <3>1, <3>2 DEF JournalSound
  <2> QED BY <2>2, <2>3
<1> QED BY <1>3, <1>4, <1>5, <1>6 DEF OptimizationInv

-----------------------------------------------------------------------------
(* The theorems.                                                           *)

LEMMA OptimizationInvInit == OptimizationInit => OptimizationInv
<1> SUFFICES ASSUME OptimizationInit PROVE OptimizationInv
  OBVIOUS
<1> USE DEF OptimizationInit
<1>1. DOMAIN journal = {} /\ DOMAIN work = Workers /\ \A w \in Workers : work[w] = Idle
  OBVIOUS
<1>2. FlagsSound
  <2>1. input \in Inputs /\ MaxFaults \in Nat /\ faults = 0
    BY OptimizationShape
  <2>2. live \in BOOLEAN /\ revoked \in BOOLEAN /\ cleaned \in BOOLEAN /\ (revoked => ~live) /\ (cleaned => revoked)
    BY Zenon
  <2> QED BY <2>1, <2>2 DEF FlagsSound
<1>3. JournalSound(input, journal, live, cleaned)
  BY <1>1 DEF JournalSound, Kept, LiveJournal
<1>4. CallsSound(journal, sent, work)
  <2>1. sent \in [Calls -> Nat] /\ \A c \in Calls : sent[c] = 0
    OBVIOUS
  <2>2. \A w \in Workers : work[w].at \notin Busy
    BY <1>1 DEF Idle, Busy
  <2> QED BY <1>1, <2>1, <2>2 DEF CallsSound
<1>5. RowsSound(work, input, journal, live)
  BY <1>1, IdleRow DEF RowsSound
<1> QED BY <1>2, <1>3, <1>4, <1>5 DEF OptimizationInv

LEMMA OptimizationInvNext == OptimizationInv /\ [OptimizationNext]_optimizationVars => OptimizationInv'
<1> SUFFICES ASSUME OptimizationInv, [OptimizationNext]_optimizationVars PROVE OptimizationInv'
  OBVIOUS
<1>1. CASE UNCHANGED optimizationVars
  BY <1>1 DEF optimizationVars, OptimizationInv, FlagsSound
<1>2. ASSUME NEW w \in Workers, WorkerStep(w) PROVE OptimizationInv'
  BY <1>2, OptimizationStartStep, PrepareStep, RequestStep, LookStep, OptimizationClaimStep, ReturnsStep, ObserveStep, RespondStep, CompileStep,
     OptimizationTerminalStep, CompleteStep DEF WorkerStep
<1>3. ASSUME NEW w \in Workers, optimization_crash(w) \/ store_fails(w) PROVE OptimizationInv'
  BY <1>3, OptimizationCrashStep
<1>4. CASE optimization_revoke \/ optimization_cleanup
  BY <1>4, OptimizationRevokeStep
<1> QED BY <1>1, <1>2, <1>3, <1>4 DEF OptimizationNext

LEMMA OptimizationInvIsSafe == OptimizationInv => OptimizationSafe
<1> SUFFICES ASSUME OptimizationInv PROVE OptimizationSafe
  OBVIOUS
<1> USE DEF OptimizationInv
<1>1. OptimizationTypeOK
  <2>1. sent \in [Calls -> Nat] /\ DOMAIN journal \subseteq (Calls \cup {"step"}) \X Kinds
    BY DEF CallsSound, JournalSound, Keys
  <2>2. \A w \in Workers :
         /\ work[w].at \in {"idle", "prepare", "request", "look", "claimed", "claim", "sent", "observe",
                            "respond", "compile", "end", "complete"}
         /\ work[w].outcome \in Outcomes \cup {None}
         /\ work[w].pool \in 0..MAX_SUGGESTIONS
    BY DEF RowsSound, RowSound, Row, Ats, Asking
  <2> QED BY <2>1, <2>2 DEF OptimizationTypeOK, FlagsSound
<1>2. CallsOnce
  BY DEF CallsOnce, CallsSound
<1>3. EndedKnowsCalls /\ CandidateHasEvidence
  BY DEF EndedKnowsCalls, CandidateHasEvidence, Completed, Ended, Known, JournalSound, Kept, Own, Responded, Prep, Obs, Resp
<1>4. NothingKept
  BY DEF NothingKept, JournalSound, Obs
<1> QED BY <1>1, <1>2, <1>3, <1>4 DEF OptimizationSafe

\* However many workers run the step, wherever they are cut off and whenever its
\* sources are revoked and cleaned up: no call goes out twice, a step that ended with
\* an answer of its own knows the outcome of every call it made, a candidate has its
\* evidence, and after a cleanup nothing a model said is kept.
THEOREM OptimizationIsSafe == OptimizationSpec => []OptimizationSafe
<1> QED BY OptimizationInvInit, OptimizationInvNext, OptimizationInvIsSafe, PTL DEF OptimizationSpec

\* No fact of the journal is written again; only cleanup takes its content.
THEOREM FactsAreFinal == OptimizationSpec => FactsStand
<1>1. [OptimizationNext]_optimizationVars =>
        [\A k \in DOMAIN journal : journal'[k] \in {journal[k], "redacted"}]_optimizationVars
  <2> SUFFICES ASSUME OptimizationNext PROVE \A k \in DOMAIN journal : journal'[k] \in {journal[k], "redacted"}
    BY DEF optimizationVars
  <2>1. ASSUME NEW w \in Workers, WorkerStep(w)
        PROVE  \/ UNCHANGED journal
               \/ \E key, says : Agrees(key, says) /\ journal' = Written(key, says)
    BY <2>1 DEF WorkerStep, run_step, prepare_step, prepare_request, look_observed, look_claimed, claim_call,
       call_returns, observe_call, respond, compile_edit, commit_terminal, complete_step, Commit, JustMove, Agrees
  <2>2. \/ UNCHANGED journal
        \/ \E key, says : Agrees(key, says) /\ journal' = Written(key, says)
        \/ journal' = [k \in DOMAIN journal |-> "redacted"]
    BY <2>1 DEF OptimizationNext, optimization_crash, store_fails, optimization_revoke, optimization_cleanup
  <2>3. CASE \E key, says : Agrees(key, says) /\ journal' = Written(key, says)
    <3>1. PICK key, says : Agrees(key, says) /\ journal' = Written(key, says)
      BY <2>3
    <3> QED BY <3>1 DEF Agrees, Known, Written
  <2>4. CASE UNCHANGED journal \/ journal' = [k \in DOMAIN journal |-> "redacted"]
    BY <2>4
  <2> QED BY <2>2, <2>3, <2>4
<1> QED BY <1>1, PTL DEF OptimizationSpec, FactsStand

=============================================================================
