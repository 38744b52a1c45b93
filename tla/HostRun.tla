------------------------------- MODULE HostRun -------------------------------
(***************************************************************************)
(* The host service over the release store (evo-engine service.rs,         *)
(* release_store.rs: surfaces, frozen runs, applications; evidence.rs:     *)
(* captured facts).                                                        *)
(*                                                                         *)
(* A prepare is three transactions of one call: admit or answer from the   *)
(* cache, freeze the run's snapshot in the release store, commit the run   *)
(* and its reply.  Calls overlap, two of them may carry one request key,   *)
(* and between their transactions releases move and sources are revoked.   *)
(***************************************************************************)
EXTENDS Release

CONSTANTS
    PrepareCalls,   \* prepare calls of the agent
    Config,         \* [PrepareCalls -> [key, kind, profile, evolve, surface]]
    Surfaces,       \* surface ids
    Predecessor,    \* [Surfaces -> Surfaces \cup {None}]
    FeedbackKeys,   \* request keys of feedback
    ProposalKeys,   \* request keys of proposals
    FactSource,     \* [runs -> Sources]: the trace source of a run's facts
    MAX_PREPARE,    \* prepares in flight
    MAX_RUNS        \* runs of the instance

\* stable_id: caller, kind of configuration and request key.
RunOf(c) == [key |-> Config[c].key, kind |-> Config[c].kind]
Runs == {RunOf(c) : c \in PrepareCalls}
Keys == {Config[c].key : c \in PrepareCalls}

ASSUME HostRunShape ==
    /\ \A c \in PrepareCalls : /\ Config[c].kind \in {"legacy", "complete"}
                               /\ Config[c].profile \in Profiles
                               /\ Config[c].evolve \in BOOLEAN
                               /\ Config[c].surface \in Surfaces
    /\ FactSource \in [Runs -> Sources]
    /\ IsFiniteSet(PrepareCalls)
    /\ MAX_PREPARE \in Nat \ {0} /\ MAX_RUNS \in Nat \ {0}

VARIABLES
    surfaces,       \* registered host surfaces
    pc,             \* where each prepare call is
    snap,           \* run-snapshot-<run>
    runs,           \* the service run: the call that created it
    replies,        \* idempotency cache of service.prepare
    answer,         \* what a call returned
    facts,          \* service successes of a run
    captured,       \* the facts in its trace source
    applying,       \* the application holding application_lock
    receipts,       \* host execution receipts, by run
    applied,        \* host-application-<run>
    feedbacks,      \* feedback by key: its run
    proposals       \* proposals by key: run and evidence

notes == <<captured, applying, receipts, applied, feedbacks, proposals>>
serviceVars == <<surfaces, pc, snap, runs, replies, answer, facts, notes>>
hostVars == <<relVars, serviceVars>>

NoReply == None
NoSnapshot == None
InFlight == {"slot", "admitted", "frozen"}
Snapshot == [config : {Config[c] : c \in PrepareCalls}, release : Reports \cup {None}, epoch : Nat]
Reply == [config : {Config[c] : c \in PrepareCalls}, run : Runs, by : PrepareCalls]
NotYet == None
Claims == {"nothing", "used"}
Application == [run : Runs, claim : Claims]
Proposal == [run : Runs, evidence : SUBSET FeedbackKeys]

\* The absent value is none of the values it stands beside.
ASSUME HostRunAbsent ==
    /\ None \notin PrepareCalls /\ None \notin Snapshot /\ None \notin Reply
    /\ None \notin Application /\ None \notin Proposal

HostTypeOK ==
    /\ ReleaseTypeOK
    /\ surfaces \subseteq Surfaces
    /\ pc \in [PrepareCalls -> {"idle", "done", "refused"} \cup InFlight]
    /\ snap \in [Runs -> {NoSnapshot} \cup Snapshot]
    /\ runs \in [Runs -> PrepareCalls \cup {None}]
    /\ replies \in [Keys -> {NoReply} \cup Reply]
    /\ answer \in [PrepareCalls -> PrepareCalls \cup {None}]
    /\ facts \in [Runs -> Nat] /\ captured \in [Runs -> Nat \cup {NotYet}]
    /\ applying \in {None} \cup Application
    /\ receipts \subseteq Runs
    /\ applied \in [Runs -> {NotYet} \cup Claims]
    /\ feedbacks \in [FeedbackKeys -> Runs \cup {None}]
    /\ proposals \in [ProposalKeys -> {None} \cup Proposal]
    /\ \A n \in Runs : runs[n] = None <=> facts[n] = 0

ServiceInit ==
    /\ surfaces = {}
    /\ pc = [c \in PrepareCalls |-> "idle"]
    /\ snap = [r \in Runs |-> NoSnapshot]
    /\ runs = [r \in Runs |-> None]
    /\ replies = [k \in Keys |-> NoReply]
    /\ answer = [c \in PrepareCalls |-> None]
    /\ facts = [r \in Runs |-> 0]
    /\ captured = [r \in Runs |-> NotYet]
    /\ applying = None /\ receipts = {}
    /\ applied = [r \in Runs |-> NotYet]
    /\ feedbacks = [k \in FeedbackKeys |-> None]
    /\ proposals = [k \in ProposalKeys |-> None]

HostInit == ReleaseInit /\ ServiceInit

-----------------------------------------------------------------------------
(* Surfaces and frozen runs.                                               *)

\* The whole chain of predecessors is registered and read again.
SurfaceLive(u) ==
    LET chain[k \in 0..Cardinality(Surfaces)] ==
          IF k = 0 THEN {u}
          ELSE chain[k - 1] \cup {Predecessor[x] : x \in chain[k - 1] \ {None}}
    IN chain[Cardinality(Surfaces)] \subseteq surfaces \cup {None}

register_host_surface_from_source(u) ==
    /\ u \notin surfaces
    /\ Predecessor[u] # None => SurfaceLive(Predecessor[u])
    /\ surfaces' = surfaces \cup {u}
    /\ UNCHANGED <<relVars, pc, snap, runs, replies, answer, facts, notes>>

\* project_read_run_surface and, for a complete run, the bundle as it was staged.
ReleaseServes(r, kind) ==
    /\ Revalidates(r)
    /\ kind = "complete" => BundleVerifies(Judges[r])

\* Mistake: a stored snapshot is taken for a live one.
StoredIsLive(n) == snap[n] # NoSnapshot

\* validate_run_snapshot_source_in_session.
SnapshotLive(n) ==
    /\ snap[n] # NoSnapshot
    /\ SurfaceLive(snap[n].config.surface)
    /\ snap[n].release # None =>
         /\ rel[snap[n].release].state \in {"active", "superseded"}
         /\ ReleaseServes(snap[n].release, n.kind)

\* require_current_run_source, asked of a replay and of a new application.
SourceCurrent(n) == snap[n].release # None => Revalidates(snap[n].release)

inflight == Cardinality({c \in PrepareCalls : pc[c] \in InFlight})
RunCount == Cardinality({n \in Runs : runs[n] # None})

\* admit_new_run: runs, and the prepares in flight beside this one.
Admits == RunCount < MAX_RUNS /\ inflight - 1 < MAX_PREPARE

Step(c, to) == pc' = [pc EXCEPT ![c] = to]

begin_inflight_prepare(c) ==
    /\ pc[c] = "idle"
    /\ Step(c, IF inflight < MAX_PREPARE THEN "slot" ELSE "refused")
    /\ UNCHANGED <<relVars, surfaces, snap, runs, replies, answer, facts, notes>>

\* The cache answers the same operation only, and only while its run is live.
Cached(c) == replies[Config[c].key] # NoReply
CachedAnswers(c) ==
    LET hit == replies[Config[c].key] IN
    /\ hit.config = Config[c]
    /\ SnapshotLive(hit.run)
    /\ runs[hit.run] = hit.by

Answer(c) ==
    IF CachedAnswers(c)
    THEN Step(c, "done") /\ answer' = [answer EXCEPT ![c] = replies[Config[c].key].by]
    ELSE Step(c, "refused") /\ UNCHANGED answer

prepare_admit(c) ==
    /\ pc[c] = "slot"
    /\ \/ Cached(c) /\ Answer(c)
       \/ ~Cached(c) /\ Step(c, IF Admits THEN "admitted" ELSE "refused") /\ UNCHANGED answer
    /\ UNCHANGED <<relVars, surfaces, snap, runs, replies, facts, notes>>

\* What a run frozen now would carry; refused when the active release is unfit.
ServedRelease(c) == IF Config[c].evolve THEN pointer[Config[c].profile].active ELSE None

FreezeAllowed(c) ==
    LET n == RunOf(c)
        r == ServedRelease(c)
    IN IF snap[n] # NoSnapshot
       THEN snap[n].config = Config[c] /\ SnapshotLive(n) /\ SourceCurrent(n)
       ELSE /\ SurfaceLive(Config[c].surface)
            /\ PointerReads(Config[c].profile)
            /\ r # None => rel[r].state = "active" /\ ReleaseServes(r, Config[c].kind)

\* A run that has a snapshot keeps it.
Frozen(c) ==
    IF snap[RunOf(c)] # NoSnapshot THEN snap
    ELSE [snap EXCEPT ![RunOf(c)] = [config |-> Config[c], release |-> ServedRelease(c),
                                     epoch |-> pointer[Config[c].profile].epoch]]

prepare_run_material(c) ==
    /\ pc[c] = "admitted"
    /\ \/ FreezeAllowed(c) /\ snap' = Frozen(c) /\ Step(c, "frozen")
       \/ ~FreezeAllowed(c) /\ UNCHANGED snap /\ Step(c, "refused")
    /\ UNCHANGED <<relVars, surfaces, runs, replies, answer, facts, notes>>

\* The run is counted again where it is inserted.
CommitAdmits(c) == runs[RunOf(c)] = None /\ Admits

prepare_commit(c) ==
    LET n == RunOf(c) IN
    /\ pc[c] = "frozen"
    /\ \/ /\ Cached(c) /\ Answer(c)
          /\ UNCHANGED <<runs, replies, facts>>
       \/ /\ ~Cached(c) /\ SnapshotLive(n) /\ CommitAdmits(c)
          /\ Step(c, "done")
          /\ runs' = [runs EXCEPT ![n] = c]
          /\ replies' = [replies EXCEPT ![n.key] = [config |-> Config[c], run |-> n, by |-> c]]
          /\ answer' = [answer EXCEPT ![c] = c]
          /\ facts' = [facts EXCEPT ![n] = @ + 1]
       \/ /\ ~Cached(c) /\ ~(SnapshotLive(n) /\ CommitAdmits(c))
          /\ Step(c, "refused")
          /\ UNCHANGED <<runs, replies, answer, facts>>
    /\ UNCHANGED <<relVars, surfaces, snap, notes>>

\* A crash drops the call between its transactions, and its slot with it.
prepare_lost(c) ==
    /\ pc[c] \in InFlight
    /\ Step(c, "refused")
    /\ UNCHANGED <<relVars, surfaces, snap, runs, replies, answer, facts, notes>>

-----------------------------------------------------------------------------
(* What is recorded about a run.                                           *)

feedback(k, n) ==
    /\ SnapshotLive(n)
    /\ feedbacks[k] = None /\ runs[n] # None
    /\ feedbacks' = [feedbacks EXCEPT ![k] = n]
    /\ facts' = [facts EXCEPT ![n] = @ + 1]
    /\ UNCHANGED <<relVars, surfaces, pc, snap, runs, replies, answer, captured,
                   applying, receipts, applied, proposals>>

propose(k, n, evidence) ==
    /\ SnapshotLive(n)
    /\ proposals[k] = None /\ runs[n] # None
    /\ \A e \in evidence : feedbacks[e] = n
    /\ proposals' = [proposals EXCEPT ![k] = [run |-> n, evidence |-> evidence]]
    /\ facts' = [facts EXCEPT ![n] = @ + 1]
    /\ UNCHANGED <<relVars, surfaces, pc, snap, runs, replies, answer, captured,
                   applying, receipts, applied, feedbacks>>

\* store_trace_authority_in_session: a tombstone refuses, a second body conflicts.
CaptureAllowed(n) == FactSource[n] \notin revoked /\ captured[n] = NotYet

record_service_facts(n) ==
    /\ runs[n] # None
    /\ SnapshotLive(n)
    /\ CaptureAllowed(n)
    /\ captured' = [captured EXCEPT ![n] = facts[n]]
    /\ UNCHANGED <<relVars, surfaces, pc, snap, runs, replies, answer, facts,
                   applying, receipts, applied, feedbacks, proposals>>

store_host_execution_receipt(n) ==
    /\ n \notin receipts
    /\ receipts' = receipts \cup {n}
    /\ UNCHANGED <<relVars, surfaces, pc, snap, runs, replies, answer, facts,
                   captured, applying, applied, feedbacks, proposals>>

\* Under application_lock: the snapshot is judged in two sessions of the service,
\* and the claim must be one the run can make.
record_application(n, claim) ==
    /\ applying = None
    /\ SnapshotLive(n)
    /\ claim = "used" => snap[n].release # None
    /\ applied[n] \in {NotYet, claim}
    /\ applying' = [run |-> n, claim |-> claim]
    /\ UNCHANGED <<relVars, surfaces, pc, snap, runs, replies, answer, facts,
                   captured, receipts, applied, feedbacks, proposals>>

\* record_applied_request: only a complete run, and use only with a receipt.
ApplicationAllowed(n, claim) ==
    /\ SnapshotLive(n) /\ SourceCurrent(n)
    /\ n.kind = "complete"
    /\ claim = "used" => n \in receipts
    /\ applied[n] \in {NotYet, claim}

record_applied_request ==
    /\ applying # None
    /\ applied' = IF ApplicationAllowed(applying.run, applying.claim)
                  THEN [applied EXCEPT ![applying.run] = applying.claim] ELSE applied
    /\ applying' = None
    /\ UNCHANGED <<relVars, surfaces, pc, snap, runs, replies, answer, facts,
                   captured, receipts, feedbacks, proposals>>

HostNext ==
    \/ ReleaseNext /\ UNCHANGED serviceVars
    \/ \E u \in Surfaces : register_host_surface_from_source(u)
    \/ \E c \in PrepareCalls :
         \/ begin_inflight_prepare(c) \/ prepare_admit(c) \/ prepare_run_material(c)
         \/ prepare_commit(c) \/ prepare_lost(c)
    \/ \E n \in Runs :
         \/ \E k \in FeedbackKeys : feedback(k, n)
         \/ \E k \in ProposalKeys, E \in SUBSET FeedbackKeys : propose(k, n, E)
         \/ record_service_facts(n) \/ store_host_execution_receipt(n)
         \/ \E claim \in Claims : record_application(n, claim)
    \/ record_applied_request

HostSpec == HostInit /\ [][HostNext]_hostVars
-----------------------------------------------------------------------------
(* Properties.                                                             *)

\* Calls with one request key are answered with one run, by the call that created
\* it, and that run and its frozen snapshot are stored (prepare_inner's cache).
OneAnswerPerKey ==
    \A c, d \in PrepareCalls :
      /\ pc[c] = "done" => runs[RunOf(c)] = answer[c] /\ snap[RunOf(c)] # NoSnapshot
      /\ pc[c] = "done" /\ pc[d] = "done" /\ Config[c].key = Config[d].key => answer[c] = answer[d]

\* Runs and prepares in flight stay within their limits, although a call is
\* admitted in one session and its run inserted in another (admit_new_run).
WithinCapacity == RunCount <= MAX_RUNS /\ inflight <= MAX_PREPARE

\* A run sees one release for its whole life, whatever the pointer does between
\* the calls that prepare it (prepare_run_material keeps an existing snapshot).
OneReleasePerRun ==
    [][\A n \in Runs : snap[n] # NoSnapshot => snap'[n] = snap[n]]_hostVars

\* Nothing is recorded as a success of a run once a source its release rests on
\* has been revoked (validate_run_snapshot_live_in_session in every writer).
NoUseAfterRevoke ==
    [][\A n \in Runs : facts'[n] # facts[n] /\ snap[n].release # None
                        => Foundations(snap[n].release) \cap revoked = {}]_hostVars

\* The trace source of a run's facts is written once, from facts the run has, and
\* never after it was revoked (record_service_facts).
FactsCapturedOnce ==
    [][\A n \in Runs : captured'[n] # captured[n]
          => captured[n] = NotYet /\ captured'[n] <= facts[n] /\ FactSource[n] \notin revoked]_hostVars

\* What holds of releases and of the runs that use them in every state: a profile
\* has one active release and a lineage one approval of a bundle, a key has one
\* answer, and runs and prepares stay within their capacity.
HostSafe ==
    /\ ReleaseTypeOK
    /\ OneActive
    /\ OneApprovalPerBundle
    /\ HostTypeOK
    /\ OneAnswerPerKey
    /\ WithinCapacity

\* What no step does to releases and runs: activate over a revoked source, revive
\* what was rolled back, move a run to another release, record a success of a
\* revoked one or capture its facts twice.
HostStands ==
    /\ ActivatedIsClean
    /\ RolledBackIsFinal
    /\ OneReleasePerRun
    /\ NoUseAfterRevoke
    /\ FactsCapturedOnce
=============================================================================
