----------------------------- MODULE Curriculum -----------------------------
(***************************************************************************)
(* The learner-conditioned curriculum (evo-core curriculum.rs, evo-engine  *)
(* curriculum.rs): development cycles are reduced into failure records,    *)
(* applied releases call for a retest, triggers schedule probe jobs, and   *)
(* one task is selected from the verified proposals of those jobs.         *)
(*                                                                         *)
(* Every action is one store session.  A registered profile has no money   *)
(* (validate refuses any other), so a triggered probe ends at once as      *)
(* budget_exhausted and no probe is ever active: record_probe_attempt,     *)
(* which needs an active one, is never enabled and is left out.  A cycle   *)
(* must have the learner's environment and grader, which never change, so  *)
(* no record is ever moved to diagnostic by a drift.                       *)
(***************************************************************************)
EXTENDS Common, Integers, Functions

CONSTANTS
    CFamilies,          \* development families
    CBucket,            \* registered bucket (a family) -> clusters it requires
    CCycles,            \* verified cycle -> family -> [passed, gain]
    CReleases,          \* releases -> the families their evidence binds
    CProposals,         \* proposal -> [family, bucket, seq, offline]
    CKeys,              \* management idempotency keys
    CBudgets,           \* root budgets a caller may name
    COOLDOWN, WINDOW,   \* completed cycles
    MIN_CLUSTERS, MIN_UNIQUE, MAX_GAIN,
    CBound,             \* decisions handed out, at most
    CTombstone          \* what is left of a redacted learner

ASSUME CurriculumShape ==
    /\ DOMAIN CBucket \subseteq CFamilies /\ \A b \in DOMAIN CBucket : CBucket[b] \in Nat \ {0}
    /\ \A r \in DOMAIN CReleases : CReleases[r] \subseteq CFamilies /\ IsFiniteSet(CReleases[r])
    /\ \A p \in DOMAIN CProposals : CProposals[p].family \in CFamilies /\ CProposals[p].seq \in Nat
    /\ \A p, q \in DOMAIN CProposals : CProposals[p].seq = CProposals[q].seq => p = q
    /\ \A c \in DOMAIN CCycles : DOMAIN CCycles[c] \subseteq CFamilies
    /\ COOLDOWN \in Nat \ {0} /\ WINDOW \in Nat \ {0, 1} /\ CBound \in Nat

ASSUME CurriculumAbsent == None \notin DOMAIN CCycles \cup DOMAIN CReleases

VARIABLES
    learner,    \* None, CTombstone or the learner state
    cjobs,      \* probe jobs by trigger: trigger -> [limit, terminal]
    ckeys,      \* schedule receipts: key -> None or [job, limit]
    cproposals, \* proposal -> None or the trigger of its job
    creports,   \* validity reports [proposal, verdict]
    creleases,  \* release -> "staged", "active", "superseded", "rolled_back"
    cdecided,   \* decisions handed out, in order
    cwater      \* the revoke watermark

cvars == <<learner, cjobs, ckeys, cproposals, creports, creleases, cdecided, cwater>>

-----------------------------------------------------------------------------
(* Failure records.                                                        *)

\* FailureRecordV1: one per cluster, type and cycle; its evidence is its identity.
Record(cluster, type, cycle, snapshot) ==
    [cluster |-> cluster, type |-> type, cycle |-> cycle, snapshot |-> snapshot,
     status |-> "active", release |-> None, resolved |-> None]

Evidence(x) == <<x.cluster, x.type, x.cycle, x.snapshot>>
OpenRecord(x) == x.status \in {"active", "retest_due"}

\* active_absolute_failure_clusters: the current failure gap.
active_absolute_failures(records) ==
    {x.cluster : x \in {x \in records : x.status = "active" /\ x.type = "absolute"}}

Regressed(o) == o.passed /\ o.gain < 0

\* What an outcome leaves open of its cluster's records.
still_failing(o, x) == ~o.passed \/ (Regressed(o) /\ x.type = "regression")

\* One open record after an outcome of its cluster.
record_after(x, o, cycle) ==
    IF still_failing(o, x)
    THEN IF x.status = "retest_due" THEN [x EXCEPT !.status = "active", !.release = None] ELSE x
    ELSE [x EXCEPT !.status = "resolved", !.release = None, !.resolved = cycle]

\* apply_cycle_to_failure_records.
apply_cycle(records, cycle, snapshot) ==
    LET out == CCycles[cycle] IN
    {IF x.cluster \in DOMAIN out /\ OpenRecord(x) THEN record_after(x, out[x.cluster], cycle) ELSE x :
       x \in records}
      \cup {Record(f, "absolute", cycle, snapshot) : f \in {f \in DOMAIN out : ~out[f].passed}}
      \cup {Record(f, "regression", cycle, snapshot) : f \in {f \in DOMAIN out : Regressed(out[f])}}

\* mark_retest_due_after_asset, of the records.
due_after_asset(records, families, release) ==
    {IF x.cluster \in families /\ x.status = "active"
     THEN [x EXCEPT !.status = "retest_due", !.release = release] ELSE x : x \in records}

\* The families of a release, each once; a mark is looked up by its family, so their
\* order makes no difference.
InOrder(families) ==
    CHOOSE s \in [1..Cardinality(families) -> families] : \A f \in families : \E i \in DOMAIN s : s[i] = f

\* mark_retest_due_after_asset, of the marks: one a family and release.
marks_after_asset(marks, families, release) ==
    marks \o LET new == {f \in families : ~ \E i \in DOMAIN marks : marks[i].family = f /\ marks[i].release = release}
             IN [i \in 1..Cardinality(new) |-> [family |-> InOrder(new)[i], release |-> release, consumed |-> FALSE]]

\* Mistake: a selected family is not put back among the gaps.
return_named_only(records, family, release) ==
    {IF x.status = "retest_due" /\ x.cluster = family /\ x.release # release
     THEN [x EXCEPT !.status = "active", !.release = None] ELSE x : x \in records}

\* consume_retest_priority_mark, of the records.
return_selected(records, family, release) ==
    {IF x.status = "retest_due" /\ x.cluster = family
     THEN [x EXCEPT !.status = "active", !.release = None] ELSE x : x \in records}

\* consume_retest_priority_mark, of the marks.
consume_mark(marks, family, release) ==
    [i \in DOMAIN marks |-> IF marks[i].family = family /\ marks[i].release = release
                            THEN [marks[i] EXCEPT !.consumed = TRUE] ELSE marks[i]]

\* void_retest_due_of_release, of every release that is not live.
void_retests(records, live) ==
    {IF x.release # None /\ x.release \notin live
     THEN [x EXCEPT !.status = "active", !.release = None] ELSE x : x \in records}

-----------------------------------------------------------------------------
(* The trigger.                                                            *)

Uncovered(l) == {b \in DOMAIN CBucket : l.observed[b] < CBucket[b]}
GainSum(c) == SumFunction([f \in DOMAIN CCycles[c] |-> CCycles[c][f].gain])
Magnitude(n) == IF n < 0 THEN -n ELSE n

\* detect_plateau_signal, of the last cycles: flat, large and disjoint enough.
\* (Rates, means and their variance are compared as exact fractions.)
plateau(window) ==
    LET Clusters(i) == DOMAIN CCycles[window[i]]
        Count(i)    == Cardinality(Clusters(i))
        k           == Len(window)
        common      == FoldFunction(LAMBDA n, p : n * p, 1, [i \in DOMAIN window |-> Count(i)])
        scaled      == [i \in DOMAIN window |-> GainSum(window[i]) * (common \div Count(i))]
        total       == SumFunction(scaled)
        numerator   == SumFunction([i \in DOMAIN window |-> (k * scaled[i] - total) * (k * scaled[i] - total)])
    IN /\ \A i \in DOMAIN window :
            /\ Count(i) >= MIN_CLUSTERS
            /\ \A f \in Clusters(i) : CCycles[window[i]][f].passed
            /\ Magnitude(GainSum(window[i])) <= MAX_GAIN * Count(i)
       /\ \A i, j \in DOMAIN window : i # j => Clusters(i) \cap Clusters(j) = {}
       /\ Cardinality(UNION {Clusters(i) : i \in DOMAIN window}) >= MIN_UNIQUE
       /\ numerator <= MAX_GAIN * MAX_GAIN * k * k * (k - 1) * common * common

LastCycles(l) == SubSeq(l.cycles, Len(l.cycles) - WINDOW + 1, Len(l.cycles))

\* detect_plateau_signal_v3: what a probe would be for.
detect_plateau_signal(l) ==
    LET gap == active_absolute_failures(l.records) IN
    IF l.cooldown > 0 THEN [kind |-> "not_triggered", why |-> {"cooldown"}]
    ELSE IF gap \cap DOMAIN CBucket # {} THEN [kind |-> "failure_gap", why |-> gap \cap DOMAIN CBucket]
    ELSE IF Uncovered(l) # {} THEN [kind |-> "coverage_gap", why |-> Uncovered(l)]
    ELSE IF Len(l.cycles) < WINDOW THEN [kind |-> "cold_start", why |-> {}]
    ELSE IF plateau(LastCycles(l))
         THEN [kind |-> "plateau_probe", why |-> {LastCycles(l)[i] : i \in 1..WINDOW}]
    ELSE [kind |-> "not_triggered", why |-> IF gap # {} THEN {"unsupported_scope"} ELSE {"window"}]

Triggered(t) == t.kind # "not_triggered"

\* The terminal a job is made with: there is no money to run it.
terminal_of(t) ==
    IF Triggered(t) THEN "budget_exhausted"
    ELSE IF t.why = {"cooldown"} THEN "cooldown" ELSE "unsupported_scope"

-----------------------------------------------------------------------------
(* What a session needs of the stored learner.                             *)

\* load_state_v3, verify_watermark and verify_state_sources.
learner_live == learner \notin {None, CTombstone} /\ learner.mark = cwater

\* register_profile_and_state: nothing derived is filled in.
register_learner ==
    /\ learner = None
    /\ learner' = [mark |-> cwater, snapshot |-> 0, cycles |-> <<>>, records |-> {},
                   observed |-> [b \in DOMAIN CBucket |-> 0], assets |-> {}, marks |-> <<>>,
                   cooldown |-> 0, trigger |-> None]
    /\ UNCHANGED <<cjobs, ckeys, cproposals, creports, creleases, cdecided, cwater>>

\* record_cycle: a cycle is reduced once, whatever receipts name it.
record_cycle(c) ==
    /\ learner_live /\ \A i \in DOMAIN learner.cycles : learner.cycles[i] # c
    /\ learner' = [learner EXCEPT !.records = apply_cycle(@, c, learner.snapshot),
                                  !.observed = [b \in DOMAIN @ |-> @[b] + IF b \in DOMAIN CCycles[c] THEN 1 ELSE 0],
                                  !.cycles = Append(@, c),
                                  !.cooldown = IF @ = 0 THEN 0 ELSE @ - 1]
    /\ UNCHANGED <<cjobs, ckeys, cproposals, creports, creleases, cdecided, cwater>>

\* schedule_probe_in_session: one job a trigger; only a new one moves the learner.
schedule_in_session(t, limit) ==
    IF t \in DOMAIN cjobs
    THEN cjobs[t].limit = limit /\ UNCHANGED <<cjobs, learner>>
    ELSE /\ cjobs' = [x \in DOMAIN cjobs \cup {t} |->
                        IF x = t THEN [limit |-> limit, terminal |-> terminal_of(t)] ELSE cjobs[x]]
         /\ learner' = [learner EXCEPT !.trigger = t, !.cooldown = IF Triggered(t) THEN COOLDOWN ELSE @]

schedule_probe(limit) ==
    /\ learner_live
    /\ schedule_in_session(detect_plateau_signal(learner), limit)
    /\ UNCHANGED <<ckeys, cproposals, creports, creleases, cdecided, cwater>>

\* schedule_probe_idempotent, once the learner is known to be live: a key that
\* has its receipt only reads its job again.
receipt_or_schedule(key, limit, t) ==
    IF ckeys[key] # None
    THEN ckeys[key].limit = limit /\ UNCHANGED <<ckeys, cjobs, learner>>
    ELSE schedule_in_session(t, limit) /\ ckeys' = [ckeys EXCEPT ![key] = [job |-> t, limit |-> limit]]

schedule_probe_idempotent(key, limit) ==
    /\ learner_live
    /\ receipt_or_schedule(key, limit, detect_plateau_signal(learner))
    /\ UNCHANGED <<cproposals, creports, creleases, cdecided, cwater>>

\* store_proposal: of a job that waits for nothing but money.
store_proposal(p, t) ==
    /\ learner_live /\ t \in DOMAIN cjobs /\ cjobs[t].terminal = "budget_exhausted"
    /\ cproposals[p] = None
    /\ cproposals' = [cproposals EXCEPT ![p] = t]
    /\ UNCHANGED <<learner, cjobs, ckeys, creports, creleases, cdecided, cwater>>

quarantined(p) == [proposal |-> p, verdict |-> "quarantined"] \in creports

\* verify_runner_verified_binding: quarantine wins, the offline check passes
\* and a verified cycle covers the family.
runner_verified(p) ==
    /\ ~quarantined(p) /\ CProposals[p].offline
    /\ \E c \in DOMAIN CCycles : CProposals[p].family \in DOMAIN CCycles[c]

record_validity_report(p, verdict) ==
    /\ learner_live /\ cproposals[p] # None
    /\ verdict = "verified" => runner_verified(p)
    /\ creports' = creports \cup {[proposal |-> p, verdict |-> verdict]}
    /\ UNCHANGED <<learner, cjobs, ckeys, cproposals, creleases, cdecided, cwater>>

-----------------------------------------------------------------------------
(* Selection.                                                              *)

\* Verified by the runner, and no report quarantined the proposal.
eligible(c) == c.verdict = "verified" /\ ~quarantined(c.proposal)

Influences(l) == {x.release : x \in {x \in l.records : x.release # None}}
                   \cup {l.marks[i].release : i \in {i \in DOMAIN l.marks : ~l.marks[i].consumed}}

\* live_asset_releases.
live_asset_releases(l) == {r \in Influences(l) : creleases[r] \in {"active", "superseded"}}

\* The marks of a family that still call for its retest, in their order.
LiveMarks(l, family, live) ==
    {i \in DOMAIN l.marks : ~l.marks[i].consumed /\ l.marks[i].family = family /\ l.marks[i].release \in live}

\* rank_by_priority: the category of a candidate, and the release it answers to.
category(l, c, live) ==
    LET p == CProposals[c.proposal]
        due == LiveMarks(l, p.family, live)
    IN IF due # {} THEN [rank |-> 0, release |-> l.marks[CHOOSE i \in due : \A j \in due : i <= j].release]
       ELSE IF p.family \in DOMAIN CBucket /\ p.family \in active_absolute_failures(l.records) THEN [rank |-> 1, release |-> None]
       ELSE IF p.bucket \in Uncovered(l) THEN [rank |-> 2, release |-> None]
       ELSE [rank |-> 3, release |-> None]

\* The first of the ranking: category, then the stable sequence.
top_of(l, candidates, live) ==
    CHOOSE c \in candidates : \A d \in candidates :
      \/ category(l, c, live).rank < category(l, d, live).rank
      \/ /\ category(l, c, live).rank = category(l, d, live).rank
         /\ CProposals[c.proposal].seq <= CProposals[d.proposal].seq

\* frozen_selection_view: the learner as it was registered.
frozen_view(l) == [l EXCEPT !.records = {}, !.marks = <<>>, !.assets = {}, !.cycles = <<>>,
                            !.observed = [b \in DOMAIN @ |-> 0]]

\* The learner after a choice: influences of dead releases are void, and the
\* mark the choice answers to is used up.
learner_after(l, family, release) ==
    IF release = None THEN l
    ELSE [l EXCEPT !.marks = consume_mark(@, family, release),
                   !.records = return_selected(@, family, release)]

\* The decision, and the learner that it leaves, in one commit.
commit_selection(l, top, cat, frozen) ==
    /\ cdecided' = Append(cdecided, [proposal |-> top.proposal, rank |-> cat.rank, asset |-> cat.release,
                                     frozen |-> frozen.proposal])
    /\ learner' = learner_after(l, CProposals[top.proposal].family, cat.release)

\* select_next_task, of the candidates (stored reports) a caller offers.
select_next_task(offered) ==
    /\ learner_live /\ Len(cdecided) < CBound
    /\ LET able == {c \in offered : eligible(c)}
           live == live_asset_releases(learner)
           l    == [learner EXCEPT !.records = void_retests(@, live)]
       IN /\ able # {}
          /\ LET top == top_of(l, able, live)
             IN commit_selection(l, top, category(l, top, live), top_of(frozen_view(l), able, {}))
    /\ UNCHANGED <<cjobs, ckeys, cproposals, creports, creleases, cwater>>

-----------------------------------------------------------------------------
(* Assets, releases and revocation.                                        *)

\* record_applied_asset: a release that served a run of its own; applied once.
record_applied_asset(r) ==
    /\ learner_live /\ creleases[r] \in {"active", "superseded"} /\ CReleases[r] # {}
    /\ r \notin learner.assets
    /\ learner' = [learner EXCEPT !.assets = @ \cup {r}, !.snapshot = @ + 1,
                                  !.records = due_after_asset(@, CReleases[r], r),
                                  !.marks = marks_after_asset(@, CReleases[r], r)]
    /\ UNCHANGED <<cjobs, ckeys, cproposals, creports, creleases, cdecided, cwater>>

\* Release control, as the curriculum sees it (Release models it).
activate_release(r) ==
    /\ creleases[r] = "staged"
    /\ creleases' = [s \in DOMAIN creleases |-> IF s = r THEN "active"
                       ELSE IF creleases[s] = "active" THEN "superseded" ELSE creleases[s]]
    /\ UNCHANGED <<learner, cjobs, ckeys, cproposals, creports, cdecided, cwater>>

roll_back(r) ==
    /\ creleases[r] = "active"
    /\ \E s \in DOMAIN creleases \cup {None} :
         /\ IF s = None THEN \A x \in DOMAIN creleases : creleases[x] # "superseded" ELSE creleases[s] = "superseded"
         /\ creleases' = [x \in DOMAIN creleases |-> IF x = r THEN "rolled_back"
                            ELSE IF x = s THEN "active" ELSE creleases[x]]
    /\ UNCHANGED <<learner, cjobs, ckeys, cproposals, creports, cdecided, cwater>>

\* A source of the learner is revoked; its cleanup redacts the learner.
curriculum_revoke ==
    /\ learner \notin {None, CTombstone} /\ cwater = learner.mark
    /\ cwater' = cwater + 1
    /\ UNCHANGED <<learner, cjobs, ckeys, cproposals, creports, creleases, cdecided>>

redact_learner ==
    /\ learner \notin {None, CTombstone} /\ cwater # learner.mark
    /\ learner' = CTombstone
    /\ UNCHANGED <<cjobs, ckeys, cproposals, creports, creleases, cdecided, cwater>>

curriculum_init ==
    /\ learner = None /\ cjobs = [t \in {} |-> None] /\ ckeys = [k \in CKeys |-> None]
    /\ cproposals = [p \in DOMAIN CProposals |-> None] /\ creports = {}
    /\ creleases = [r \in DOMAIN CReleases |-> "staged"] /\ cdecided = <<>> /\ cwater = 0

curriculum_next ==
    \/ register_learner \/ \E c \in DOMAIN CCycles : record_cycle(c)
    \/ \E b \in CBudgets : schedule_probe(b) \/ \E k \in CKeys : schedule_probe_idempotent(k, b)
    \/ \E p \in DOMAIN CProposals : \/ \E t \in DOMAIN cjobs : store_proposal(p, t)
                                    \/ \E v \in {"verified", "quarantined", "unavailable"} : record_validity_report(p, v)
    \/ \E offered \in SUBSET creports : select_next_task(offered)
    \/ \E r \in DOMAIN CReleases : record_applied_asset(r) \/ activate_release(r) \/ roll_back(r)
    \/ curriculum_revoke \/ redact_learner

CurriculumSpec == curriculum_init /\ [][curriculum_next]_cvars

-----------------------------------------------------------------------------
(* Properties.                                                             *)

Stands == learner \notin {None, CTombstone}

\* FailureRecord: only a retest that is due names a release, only a resolved
\* record the cycle that resolved it.
ValidRecord(x) ==
    /\ x.cluster \in CFamilies /\ x.type \in {"absolute", "regression"}
    /\ x.status \in {"active", "retest_due", "resolved"}
    /\ (x.release # None) = (x.status = "retest_due")
    /\ (x.resolved # None) = (x.status = "resolved")

\* LearnerState: a mark is of an asset that was applied.
ValidLearner ==
    /\ \A x \in learner.records : ValidRecord(x)
    /\ learner.cooldown \in 0..COOLDOWN /\ learner.assets \subseteq DOMAIN CReleases
    /\ \A i \in DOMAIN learner.marks : learner.marks[i].release \in learner.assets

ProbeJob == [limit : CBudgets, terminal : {"budget_exhausted", "cooldown", "unsupported_scope"}]
ProbeProposals == [DOMAIN CProposals -> DOMAIN cjobs \cup {None}]
ValidityReport == [proposal : DOMAIN CProposals, verdict : {"quarantined", "verified", "unavailable"}]

\* A receipt names a job that is there.
ScheduleReceipts == [CKeys -> [job : DOMAIN cjobs, limit : CBudgets] \cup {None}]

CurriculumTypeOK ==
    /\ Stands => ValidLearner
    /\ \A t \in DOMAIN cjobs : cjobs[t] \in ProbeJob
    /\ cproposals \in ProbeProposals
    /\ creports \subseteq ValidityReport
    /\ ckeys \in ScheduleReceipts
    /\ cwater \in Nat

\* The cycles with an outcome of a cluster, and the last of these outcomes.
Seen(cycles, f) == {i \in DOMAIN cycles : f \in DOMAIN CCycles[cycles[i]]}
Outcome(cycles, f) == CCycles[cycles[CHOOSE i \in Seen(cycles, f) : \A j \in Seen(cycles, f) : j <= i]][f]

OpenOf(records, f, type) == \E x \in records : x.cluster = f /\ x.type = type /\ OpenRecord(x)

\* Whatever is applied, selected, voided or rolled back in between, a cluster
\* whose last verified outcome failed has an open failure record, and one
\* whose last outcome passed has none: only a later pass of the same cluster
\* retires a failure.
FailuresStand ==
    Stands => \A f \in CFamilies :
      LET seen == Seen(learner.cycles, f)
          last == Outcome(learner.cycles, f)
      IN /\ OpenOf(learner.records, f, "absolute") <=> (seen # {} /\ ~last.passed)
         /\ (seen # {} /\ last.passed) => (OpenOf(learner.records, f, "regression") <=> Regressed(last))

\* A record never loses its evidence: none is dropped or rewritten, and a
\* resolved one stays as it is.
EvidenceIsKept ==
    [][(Stands /\ learner' # CTombstone) =>
         \A x \in learner.records : \E y \in learner'.records :
           Evidence(y) = Evidence(x) /\ (x.status = "resolved" => y = x)]_cvars

\* A record that waits for a retest is out of the failure gap, so something
\* must bring it back: the mark of its family and release is still there.
DueHasItsMark ==
    Stands => \A x \in learner.records : x.status = "retest_due" =>
      \E i \in DOMAIN learner.marks :
        learner.marks[i].family = x.cluster /\ learner.marks[i].release = x.release /\ ~learner.marks[i].consumed

\* A choice answers to a release only while it is in force, uses its mark up
\* for good, and leaves no record waiting for a release that is not.
RetestIsOneShot ==
    [][LET n == Len(cdecided) IN
       Len(cdecided') > n =>
         LET d == cdecided'[n + 1]
             Mark(l, i) == l.marks[i].family = CProposals[d.proposal].family /\ l.marks[i].release = d.asset
         IN /\ d.asset # None => /\ creleases[d.asset] \in {"active", "superseded"}
                                 /\ \E i \in DOMAIN learner.marks :
                                      Mark(learner, i) /\ ~learner.marks[i].consumed /\ learner'.marks[i].consumed
            /\ \A x \in learner'.records : x.release # None => creleases[x.release] # "rolled_back"]_cvars

\* No choice falls on a proposal that some report quarantined, in whichever
\* order the verdicts came.
QuarantineWins ==
    [][Len(cdecided') > Len(cdecided) => ~quarantined(cdecided'[Len(cdecided')].proposal)]_cvars

\* Scheduling again never prolongs a cooldown: it starts with a new triggered
\* job only, and only when none was running.
CooldownStartsOnce ==
    [][(Stands /\ learner' # CTombstone /\ learner'.cooldown > learner.cooldown) =>
         learner.cooldown = 0 /\ \E t \in DOMAIN cjobs' \ DOMAIN cjobs : Triggered(t)]_cvars

\* The job of a key stays the job the key was first answered with.
KeyKeepsItsJob ==
    [][\A k \in CKeys : ckeys[k] # None => ckeys'[k] = ckeys[k] /\ ckeys[k].job \in DOMAIN cjobs']_cvars

\* What holds of the curriculum in every state: failures are those of the recorded
\* cycles, and what is due for a retest carries the mark of it.
CurriculumSafe ==
    /\ CurriculumTypeOK
    /\ FailuresStand
    /\ DueHasItsMark
=============================================================================
