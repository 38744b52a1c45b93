---------------------------- MODULE ManagementJob ----------------------------
(***************************************************************************)
(* The management dispatcher (evo-engine/src/dispatch.rs) and the trace    *)
(* export that two of its operations produce (trace_export.rs).            *)
(*                                                                         *)
(* A request is stored as a job, and a supervisor task claims and runs it. *)
(* Only some steps of a worker are fenced by the claim; the business       *)
(* transactions of most operations commit on their own.  When a worker has *)
(* failed or its process has died, the job is never run again: what the    *)
(* operation has committed is looked up and the job is closed from that.   *)
(*                                                                         *)
(* Left out: optimization.step, and the rows of older schemas, whose       *)
(* continuations (a queued row that was already claimed) start from them.  *)
(***************************************************************************)
EXTENDS Naturals, FiniteSets

Producers == {"current", "ticket", "replay", "world", "probe"}
Ops == Producers \cup {"status", "meta", "prepare", "publish"}

CONSTANTS
    Jobs,           \* requests, each with its one job id
    Workloads,      \* what the requests may ask for
    Reachable,      \* the operations whose private input a revocation reaches
    Slots,          \* tasks a job may have at one time
    MaxConcurrent,  \* MAX_CONCURRENT_DISPATCH
    MaxCrashes

ASSUME JobShape ==
    /\ IsFiniteSet(Jobs) /\ Workloads \subseteq [Jobs -> Ops]
    /\ Reachable \subseteq Ops
    /\ "none" \notin Jobs /\ "other" \notin Jobs
    /\ MaxConcurrent \in Nat /\ MaxCrashes \in Nat

VARIABLES
    operation,  \* what each request asks for
    job,        \* the job rows
    fact,       \* who committed the holdout, ticket, report, world or receipt
    export,     \* the trace export record: phase, prepare job, publish job
    tree,       \* the published directory of the export exists
    published,  \* history: the jobs that renamed it there
    revoked,    \* a source of the reachable inputs is revoked
    input,      \* the private inputs: live, or redacted by the cleanup
    task,       \* the in-memory tasks, by job and slot
    active,     \* active_workers
    process,    \* up or down
    crashes

vars == <<operation, job, fact, export, tree, published, revoked, input, task, active, process, crashes>>

Terminals == {"succeeded", "failed", "cancelled", "blocked"}
States == {"absent", "queued", "running", "draining"} \cup Terminals
StepNames == {"accepted", "capacity_wait", "claimed", "checkpointed", "recorded", "already",
              "publishing", "ended"}
Results == {"none", "status", "effect"}

JobRow == [state : States, step : StepNames, result : Results, cancel : BOOLEAN,
           arrival : {"none", "before", "after"}, generation : Nat, lease : {"none", "live", "expired"}]

NoJob == [state |-> "absent", step |-> "accepted", result |-> "none", cancel |-> FALSE,
          arrival |-> "none", generation |-> 0, lease |-> "none"]

\* What a worker's exit reports, or what the lookup of its progress finds.
Report(kind, state, step, result) == [kind |-> kind, state |-> state, step |-> step, result |-> result]
Reports == [kind : {"nothing", "outcome", "refused", "lost", "unknown", "not_committed", "committed"},
            state : Terminals, step : StepNames, result : Results]

Nothing == Report("nothing", "failed", "ended", "none")
\* A worker that refused before any commit of its own.
Refused == Report("refused", "failed", "ended", "none")
\* A worker whose commits are not known: it failed, panicked, or its process died.
Lost == Report("lost", "failed", "ended", "none")
Unknown == Report("unknown", "failed", "ended", "none")
NotCommitted == Report("not_committed", "failed", "ended", "none")

ConsumerSteps == {"load", "checkpoint", "effect", "bind", "prepare", "review", "publish", "deliver", "abort"}
ClosingSteps == {"observed", "progress", "verify", "confirm", "settle"}
TaskSteps == {"idle", "claim", "retry", "end"} \cup ClosingSteps \cup ConsumerSteps
TaskRow == [pc : TaskSteps, stop : BOOLEAN, seen : Reports, found : Reports]
Idle == [pc |-> "idle", stop |-> FALSE, seen |-> Nothing, found |-> Nothing]
At(pc) == [Idle EXCEPT !.pc = pc]

TypeOK ==
    /\ operation \in Workloads
    /\ job \in [Jobs -> JobRow]
    /\ fact \in [Producers -> Jobs \cup {"none", "other"}]
    /\ export \in [phase : {"absent", "prepared", "reviewed", "delivered", "aborted", "redacted"},
                   prepare_job : Jobs \cup {"none"}, publish_job : Jobs \cup {"none"}]
    /\ tree \in BOOLEAN /\ published \subseteq Jobs /\ revoked \in BOOLEAN
    /\ input \in [Jobs -> {"live", "redacted"}]
    /\ task \in [Jobs \X Slots -> TaskRow]
    /\ active \subseteq Jobs
    /\ process \in {"up", "down"} /\ crashes \in 0..MaxCrashes

Init ==
    /\ operation \in Workloads
    /\ job = [j \in Jobs |-> NoJob]
    /\ fact = [o \in Producers |-> "none"]
    /\ export = [phase |-> "absent", prepare_job |-> "none", publish_job |-> "none"]
    /\ tree = FALSE /\ published = {} /\ revoked = FALSE
    /\ input = [j \in Jobs |-> "live"]
    /\ task = [t \in Jobs \X Slots |-> Idle]
    /\ active = {}
    /\ process = "up" /\ crashes = 0

-----------------------------------------------------------------------------
(* Predicates of the code.                                                 *)

is_terminal(k) == k.state \in Terminals
Stored(k) == k.state # "absent"

\* Some dependency of the private input of j has a revoked source.
Dead(j) == revoked /\ operation[j] \in Reachable

\* ensure_fence: the claim still runs and its lease has not run out.
ensure_fence(k) == k.state = "running" /\ k.lease = "live"

\* begin_management_step, which every fenced transaction of worker t goes through.
begin_management_step(t) ==
    /\ ensure_fence(job[t[1]])
    /\ ~task[t].stop
    /\ ~job[t[1]].cancel
    /\ input[t[1]] = "live" /\ ~Dead(t[1])

UnclosedRunning(k) == k.state = "running"
\* count_management_job_capacity: a job holds its slot until it is closed.
Unclosed(k) == k.state \in {"running", "draining"}
CapacityFree == Cardinality({j \in Jobs : Unclosed(job[j])}) < MaxConcurrent

stored_result_has_side_effect(r) == r = "effect"

\* A stored reference to committed work must be in the result that replaces it.
committed_result_is_preserved(stored, actual) == stored_result_has_side_effect(stored) => actual = stored

progress_preserves_committed_result(k, p) ==
    CASE p.kind = "unknown"       -> TRUE
      [] p.kind = "not_committed" -> ~stored_result_has_side_effect(k.result)
      [] OTHER                    -> committed_result_is_preserved(k.result, p.result)

has_committed_side_effect(o) == o.result = "effect" /\ o.step # "already"

Arrival(k, committed) ==
    IF ~k.cancel THEN k.arrival
    ELSE IF committed \/ k.arrival = "after" THEN "after" ELSE "before"

apply_completed_outcome(k, o) ==
    IF ~committed_result_is_preserved(k.result, o.result)
    THEN [k EXCEPT !.state = "draining"]
    ELSE LET committed == has_committed_side_effect(o)
             cancelled == k.cancel /\ ~committed
         IN [k EXCEPT !.state = IF cancelled THEN "cancelled" ELSE o.state,
                      !.step = IF cancelled THEN "ended" ELSE o.step,
                      !.result = IF cancelled THEN "none" ELSE o.result,
                      !.arrival = Arrival(k, committed),
                      !.lease = "none"]

-----------------------------------------------------------------------------
(* What an operation has committed, looked up after its worker is gone.    *)

\* The private input can be decoded and, but for a replay, its sources are live.
ProgressInput(j) == input[j] = "live" /\ (operation[j] = "replay" \/ ~Dead(j))

EffectState(j) == IF operation[j] = "ticket" THEN "blocked" ELSE "succeeded"
Committed(j) == Report("committed", EffectState(j), "ended", "effect")

ProducerProgress(j) == IF fact[operation[j]] = "none" THEN NotCommitted ELSE Committed(j)

\* A holdout that this job does not own leaves its fate open.
CurrentProgress(j) ==
    IF fact[operation[j]] = "none" THEN IF job[j].step = "claimed" THEN NotCommitted ELSE Unknown
    ELSE IF job[j].result = "effect" THEN [Committed(j) EXCEPT !.step = job[j].step]
    ELSE Unknown

PrepareProgress(j) ==
    IF export.phase = "redacted" THEN Unknown
    ELSE IF export.phase # "absent" /\ export.prepare_job = j THEN Committed(j)
    ELSE NotCommitted

\* reconcile_publication: the record decides; this job's reviewed one sends on to
\* its tree.
OwnReview(j) == export.phase = "reviewed" /\ export.publish_job = j
PublishProgress(j) ==
    CASE export.phase = "prepared"                               -> NotCommitted
      [] export.phase = "delivered" /\ export.publish_job = j    -> Committed(j)
      [] OTHER                                                   -> Unknown

consumer_progress(j) ==
    IF operation[j] = "current" /\ job[j].step = "recorded" THEN [Committed(j) EXCEPT !.step = "recorded"]
    ELSE IF ~ProgressInput(j) THEN Unknown
    ELSE CASE operation[j] = "current" -> CurrentProgress(j)
           [] operation[j] = "prepare" -> PrepareProgress(j)
           [] operation[j] = "publish" -> PublishProgress(j)
           [] operation[j] = "status"  -> NotCommitted
           [] operation[j] = "meta"    -> Report("committed", "blocked", "ended", "none")
           [] OTHER                    -> ProducerProgress(j)

\* Progress that would drop a stored reference is uncertainty.
OrUnknown(k, p) == IF progress_preserves_committed_result(k, p) THEN p ELSE Unknown

-----------------------------------------------------------------------------
(* Requests and supervisors.                                               *)

SetJob(j, k) == job' = [job EXCEPT ![j] = k]
Move(t, pc) == task' = [task EXCEPT ![t].pc = pc]
\* The worker t has exited and its supervisor has seen the report.
Exit(t, report) == task' = [task EXCEPT ![t].pc = "observed", ![t].seen = report]

Business == <<fact, export, tree, published>>
Sources == <<operation, revoked, input>>
Machine == <<active, process, crashes>>

\* spawn_job: no second supervisor while one is active.
spawn_job(j) ==
    \/ j \in active /\ UNCHANGED <<task, active>>
    \/ /\ j \notin active
       /\ \E n \in Slots : task[<<j, n>>] = Idle /\ task' = [task EXCEPT ![<<j, n>>] = At("claim")]
       /\ active' = active \cup {j}

\* A request is stored once; a repeated one finds its job and spawns again.
submit(j) ==
    /\ process = "up"
    /\ \/ ~Stored(job[j]) /\ ~Dead(j) /\ SetJob(j, [NoJob EXCEPT !.state = "queued"])
       \/ Stored(job[j]) /\ ~is_terminal(job[j]) /\ UNCHANGED job
    /\ spawn_job(j)
    /\ UNCHANGED <<Business, Sources, process, crashes>>

\* A job nobody has claimed ends at once; otherwise its worker closes it.
cancel(j) ==
    /\ process = "up"
    /\ Stored(job[j]) /\ ~is_terminal(job[j]) /\ ~job[j].cancel
    /\ LET k == [job[j] EXCEPT !.cancel = TRUE] IN
         SetJob(j, IF k.state = "queued"
                   THEN [k EXCEPT !.state = "cancelled", !.step = "ended", !.arrival = "before"]
                   ELSE [k EXCEPT !.state = "draining",
                                  !.arrival = IF k.step = "already" THEN "before"
                                              ELSE IF stored_result_has_side_effect(k.result) THEN "after"
                                              ELSE k.arrival])
    /\ UNCHANGED <<Business, Sources, task, Machine>>

\* claim by supervisor t: end, refuse the input, wait for capacity, or run.
ClaimStep(t) == process = "up" /\ task[t].pc = "claim" /\ UNCHANGED <<Business, Sources>>

\* The job is closed, or somebody else's: the progress of a draining one is read
\* and nothing is written.
claim_none(t) ==
    /\ ClaimStep(t) /\ job[t[1]].state # "queued"
    /\ Move(t, "end")
    /\ UNCHANGED <<job, Machine>>

claim_refused(t) ==
    /\ ClaimStep(t) /\ job[t[1]].state = "queued"
    /\ input[t[1]] = "redacted" \/ Dead(t[1])
    /\ SetJob(t[1], [job[t[1]] EXCEPT !.state = "failed", !.step = "ended"])
    /\ Move(t, "end")
    /\ UNCHANGED Machine

WaitsWithoutTimer(t) ==
    /\ ClaimStep(t) /\ job[t[1]].state = "queued"
    /\ input[t[1]] = "live" /\ ~Dead(t[1])
    /\ ~CapacityFree
    /\ SetJob(t[1], [job[t[1]] EXCEPT !.step = "capacity_wait"])
    /\ Move(t, "end")
    /\ UNCHANGED Machine
\* The supervisor ends and leaves a timer that spawns the job again.
claim_waits(t) ==
    /\ ClaimStep(t) /\ job[t[1]].state = "queued"
    /\ input[t[1]] = "live" /\ ~Dead(t[1])
    /\ ~CapacityFree
    /\ SetJob(t[1], [job[t[1]] EXCEPT !.step = "capacity_wait"])
    /\ Move(t, "retry")
    /\ active' = active \ {t[1]}
    /\ UNCHANGED <<process, crashes>>

claim(t) ==
    /\ ClaimStep(t) /\ job[t[1]].state = "queued"
    /\ input[t[1]] = "live" /\ ~Dead(t[1])
    /\ CapacityFree
    /\ SetJob(t[1], [job[t[1]] EXCEPT !.state = "running", !.step = "claimed", !.lease = "live",
                                      !.generation = @ + 1])
    /\ Move(t, "load")
    /\ UNCHANGED Machine

\* The claim met an error that is neither storage nor clock.
record_background_error(t) ==
    /\ ClaimStep(t) /\ job[t[1]].state = "queued"
    /\ SetJob(t[1], [job[t[1]] EXCEPT !.state = "failed", !.step = "ended"])
    /\ Move(t, "end")
    /\ UNCHANGED Machine

retry_claim_later(t) ==
    /\ process = "up" /\ task[t].pc = "retry"
    /\ IF t[1] \in active THEN Move(t, "idle") ELSE Move(t, "claim")
    /\ active' = active \cup {t[1]}
    /\ UNCHANGED <<job, Business, Sources, process, crashes>>

\* The supervisor ends and leaves active_workers.
supervisor_ends(t) ==
    /\ process = "up" /\ task[t].pc = "end"
    /\ task' = [task EXCEPT ![t] = Idle]
    /\ active' = active \ {t[1]}
    /\ UNCHANGED <<job, Business, Sources, process, crashes>>

-----------------------------------------------------------------------------
(* The worker of a claimed job.                                            *)

Working(t, pc) == process = "up" /\ task[t].pc = pc /\ UNCHANGED <<Sources, Machine>>

FirstStep(j) ==
    CASE operation[j] = "current" -> "bind"
      [] operation[j] = "prepare" -> "prepare"
      [] operation[j] = "publish" -> "review"
      [] OTHER               -> "checkpoint"

load_private_request(t) ==
    /\ Working(t, "load")
    /\ IF input[t[1]] = "redacted" THEN Exit(t, Refused) ELSE Move(t, FirstStep(t[1]))
    /\ UNCHANGED <<job, Business>>

\* checkpoint_claim; meta.start only asks whether it was stopped.
checkpoint_claim(t) ==
    /\ Working(t, "checkpoint")
    /\ IF operation[t[1]] = "meta"
       THEN ~task[t].stop /\ UNCHANGED job /\ Exit(t, Report("outcome", "blocked", "ended", "none"))
       ELSE /\ begin_management_step(t)
            /\ SetJob(t[1], [job[t[1]] EXCEPT !.step = "checkpointed"])
            /\ Move(t, "effect")
    /\ UNCHANGED Business

\* The business transaction of evaluation.start, replay.run, curriculum.step and
\* exploration.start: it is not fenced by the claim, it judges the sources, and
\* a fact that is there already is the answer.
CommitFact(j) ==
    /\ operation[j] \in Producers /\ ~Dead(j)
    /\ fact' = [fact EXCEPT ![operation[j]] = IF @ = "none" THEN j ELSE @]

effect_commits(t) ==
    /\ Working(t, "effect")
    /\ CommitFact(t[1])
    /\ Exit(t, Report("outcome", EffectState(t[1]), "ended", "effect"))
    /\ UNCHANGED <<job, export, tree, published>>

\* The transaction commits, but its worker sees a storage error or panics.
effect_commits_unseen(t) ==
    /\ Working(t, "effect")
    /\ CommitFact(t[1])
    /\ Exit(t, Lost)
    /\ UNCHANGED <<job, export, tree, published>>

status_read(t) ==
    /\ Working(t, "effect") /\ operation[t[1]] = "status"
    /\ Exit(t, Report("outcome", "succeeded", "ended", "status"))
    /\ UNCHANGED <<job, Business>>

\* Operations whose own refusal proves that nothing was committed.
Refuses(j, pc) ==
    \/ pc = "effect" /\ operation[j] \in {"ticket", "world", "status"}
    \/ pc \in {"load", "prepare", "review"}

\* Any step may end in an error: of storage or clock, or a refusal of the business
\* transaction or of the fence.  The transaction at hand is rolled back.
worker_fails(t) ==
    /\ \E pc \in ConsumerSteps \ {"publish", "abort"} :
         /\ Working(t, pc)
         /\ \/ pc # "load" /\ Exit(t, Lost)
            \/ Refuses(t[1], pc) /\ Exit(t, Refused)
    /\ UNCHANGED <<job, Business>>

\* run_experiment_register_current: the holdout and the job's reference to it
\* commit together.
bind_current(t) ==
    /\ Working(t, "bind") /\ begin_management_step(t)
    /\ LET step == IF fact[operation[t[1]]] = "none" THEN "recorded" ELSE "already" IN
         /\ SetJob(t[1], [job[t[1]] EXCEPT !.step = step, !.result = "effect"])
         /\ Exit(t, Report("outcome", "succeeded", step, "effect")) \/ Exit(t, Lost)
    /\ CommitFact(t[1])
    /\ UNCHANGED <<export, tree, published>>

-----------------------------------------------------------------------------
(* Trace exports.                                                          *)

Closed(k, state) == [k EXCEPT !.state = state, !.step = "ended", !.lease = "none"]

\* The record and the end of the prepare job are one transaction.
trace_export_prepare(t) ==
    /\ Working(t, "prepare") /\ begin_management_step(t)
    /\ export.phase = "absent"
    /\ export' = [export EXCEPT !.phase = "prepared", !.prepare_job = t[1]]
    /\ SetJob(t[1], [Closed(job[t[1]], "succeeded") EXCEPT !.result = "effect"])
    /\ Exit(t, Report("outcome", "succeeded", "ended", "effect"))
    /\ UNCHANGED <<fact, tree, published>>

trace_export_publish_decision(t) ==
    /\ Working(t, "review") /\ begin_management_step(t)
    /\ export.phase = "prepared" /\ export.publish_job = "none"
    /\ export' = [export EXCEPT !.phase = "reviewed", !.publish_job = t[1]]
    /\ SetJob(t[1], [job[t[1]] EXCEPT !.step = "publishing"])
    /\ Move(t, "publish")
    /\ UNCHANGED <<fact, tree, published>>

\* The rename, under the publication fence of the store: the record is reviewed
\* and its sources live, but the claim of the job is not looked at again.
publish_staged_trace_export(t) ==
    /\ Working(t, "publish")
    /\ \/ /\ export.phase = "reviewed" /\ ~Dead(t[1]) /\ ~tree
          /\ tree' = TRUE /\ published' = published \cup {t[1]}
          /\ Move(t, "deliver") \/ Exit(t, Lost)
       \/ UNCHANGED <<tree, published>> /\ (Move(t, "abort") \/ Exit(t, Lost))
    /\ UNCHANGED <<job, fact, export>>

\* The record is this job's reviewed publication and the claim is still its own.
Finishable(t) ==
    /\ ~is_terminal(job[t[1]])
    /\ export.phase = "reviewed" /\ export.publish_job = t[1]

trace_export_delivered(t) ==
    /\ Working(t, "deliver") /\ Finishable(t)
    /\ export' = [export EXCEPT !.phase = "delivered"]
    /\ LET k == job[t[1]] IN
         SetJob(t[1], [Closed(k, "succeeded") EXCEPT !.result = "effect",
                                                     !.arrival = IF k.cancel THEN "after" ELSE @])
    /\ Exit(t, Report("outcome", "succeeded", "ended", "effect"))
    /\ UNCHANGED <<fact, tree, published>>

commit_trace_export_abort(t) ==
    /\ Working(t, "abort")
    /\ \/ /\ Finishable(t)
          /\ export' = [export EXCEPT !.phase = "aborted"]
          /\ SetJob(t[1], Closed(job[t[1]], "failed"))
          /\ Exit(t, Refused)
       \/ ~Finishable(t) /\ UNCHANGED <<job, export>> /\ Exit(t, Refused)
       \/ UNCHANGED <<job, export>> /\ Exit(t, Lost)
    /\ UNCHANGED <<fact, tree, published>>

-----------------------------------------------------------------------------
(* Closing a job whose worker has exited: finish_observed_worker.          *)

Supervising(t, pc) == process = "up" /\ task[t].pc = pc /\ UNCHANGED <<Sources, Machine>>

Found(t, progress) == task' = [task EXCEPT ![t].pc = "settle", ![t].found = progress]

\* finish_claim closes a completed job under its live fence.  Without the fence,
\* or without an outcome, the job is reconciled.
finish_claim(t) ==
    /\ Supervising(t, "observed")
    /\ LET k == job[t[1]] IN
         \/ is_terminal(k) /\ UNCHANGED job /\ Move(t, "end")
         \/ /\ ~is_terminal(k) /\ task[t].seen.kind = "outcome" /\ ensure_fence(k)
            /\ SetJob(t[1], apply_completed_outcome(k, task[t].seen))
            /\ Move(t, IF is_terminal(job'[t[1]]) THEN "end" ELSE "observed")
         \/ /\ ~is_terminal(k) /\ ~(task[t].seen.kind = "outcome" /\ ensure_fence(k))
            /\ UNCHANGED job /\ Move(t, "progress")
    /\ UNCHANGED Business

\* The progress is read before the transaction that uses it.
observe_progress(t) ==
    /\ Supervising(t, "progress")
    /\ LET j == t[1]
           lost == task[t].seen.kind = "lost"
       IN IF lost /\ operation[j] = "publish" /\ ProgressInput(j) /\ OwnReview(j)
          THEN Move(t, "verify")
          ELSE Found(t, IF lost THEN OrUnknown(job[j], consumer_progress(j)) ELSE NotCommitted)
    /\ UNCHANGED <<job, Business>>

\* The exact tree completes the delivery; without it nothing was published.
verify_trace_export_tree(t) ==
    /\ Supervising(t, "verify")
    /\ IF tree THEN Move(t, "confirm") ELSE Found(t, NotCommitted)
    /\ UNCHANGED <<job, Business>>

reconcile_publication(t) ==
    /\ Supervising(t, "confirm")
    /\ IF OwnReview(t[1])
       THEN export' = [export EXCEPT !.phase = "delivered"] /\ Found(t, Committed(t[1]))
       ELSE UNCHANGED export /\ Found(t, Unknown)
    /\ UNCHANGED <<job, fact, tree, published>>

SettledAsRead(k, seen, found) ==
    LET p == OrUnknown(k, found) IN
    IF p.kind = "unknown" THEN [k EXCEPT !.state = p.kind] ELSE apply_completed_outcome(k, seen)
\* What the final transaction makes of the row k.
Settled(k, seen, found) ==
    LET p == OrUnknown(k, found) IN
    IF seen.kind \in {"outcome", "refused"} THEN apply_completed_outcome(k, seen)
    ELSE CASE p.kind = "unknown"   -> [k EXCEPT !.state = "draining"]
           [] p.kind = "committed" -> apply_completed_outcome(k, p)
           [] OTHER                -> apply_completed_outcome(k, seen)

settle_observed(t) ==
    /\ Supervising(t, "settle")
    /\ LET k == job[t[1]] IN
         SetJob(t[1], IF is_terminal(k) THEN k ELSE Settled(k, task[t].seen, task[t].found))
    /\ task' = [task EXCEPT ![t].pc = IF is_terminal(job'[t[1]]) THEN "end" ELSE "observed",
                            ![t].found = Nothing]
    /\ UNCHANGED Business

-----------------------------------------------------------------------------
(* Time, other writers, revocation, crashes.                               *)

\* A lease runs out when no renewal reached the store in time.
lease_expires(j) ==
    /\ job[j].lease = "live"
    /\ SetJob(j, [job[j] EXCEPT !.lease = "expired"])
    /\ UNCHANGED <<Business, Sources, task, Machine>>

\* A renewal is refused, or meets a storage error: no new step of the worker.
renew_claim_fails(t) ==
    /\ process = "up" /\ task[t].pc \in ConsumerSteps /\ ~task[t].stop
    /\ task' = [task EXCEPT ![t].stop = TRUE]
    /\ UNCHANGED <<job, Business, Sources, Machine>>

\* The same fact committed outside of any job.
other_commits(j) ==
    /\ process = "up" /\ operation[j] \in Producers /\ fact[operation[j]] = "none"
    /\ fact' = [fact EXCEPT ![operation[j]] = "other"]
    /\ UNCHANGED <<job, export, tree, published, Sources, task, Machine>>

revoke ==
    /\ process = "up" /\ ~revoked /\ revoked' = TRUE
    /\ UNCHANGED <<operation, job, Business, input, task, Machine>>

\* The cleanup redacts a private input and preserves its job.
cleanup_input(j) ==
    /\ process = "up" /\ Dead(j) /\ Stored(job[j]) /\ input[j] = "live"
    /\ input' = [input EXCEPT ![j] = "redacted"]
    /\ UNCHANGED <<operation, job, Business, revoked, task, Machine>>

\* The cleanup removes the published tree and redacts the record.
cleanup_export ==
    /\ process = "up" /\ revoked /\ export.phase \notin {"absent", "redacted"}
    /\ {"prepare", "publish"} \subseteq Reachable
    /\ export' = [export EXCEPT !.phase = "redacted"]
    /\ tree' = FALSE
    /\ UNCHANGED <<job, fact, published, Sources, task, Machine>>

crash ==
    /\ process = "up" /\ crashes < MaxCrashes
    /\ process' = "down" /\ crashes' = crashes + 1
    /\ task' = [t \in Jobs \X Slots |-> Idle] /\ active' = {}
    /\ UNCHANGED <<job, Business, Sources>>

\* recover_pending, before the process serves: an untouched job is run, every
\* other unfinished one is reconciled as restarted.
recover_pending ==
    /\ process = "down" /\ process' = "up"
    /\ LET pending == {j \in Jobs : Stored(job[j]) /\ ~is_terminal(job[j])} IN
       \E first \in Slots :
          /\ active' = pending
          /\ task' = [t \in Jobs \X Slots |->
                        IF t[1] \notin pending \/ t[2] # first THEN Idle
                        ELSE IF job[t[1]].state = "queued" THEN At("claim")
                        ELSE [At("observed") EXCEPT !.seen = Lost]]
    /\ UNCHANGED <<job, Business, Sources, crashes>>

-----------------------------------------------------------------------------
TaskStep(t) ==
    \/ claim_none(t) \/ claim_refused(t) \/ claim_waits(t) \/ claim(t) \/ record_background_error(t)
    \/ retry_claim_later(t) \/ supervisor_ends(t) \/ load_private_request(t) \/ checkpoint_claim(t)
    \/ effect_commits(t) \/ effect_commits_unseen(t) \/ status_read(t) \/ worker_fails(t)
    \/ bind_current(t) \/ trace_export_prepare(t) \/ trace_export_publish_decision(t)
    \/ publish_staged_trace_export(t) \/ trace_export_delivered(t) \/ commit_trace_export_abort(t)
    \/ finish_claim(t) \/ observe_progress(t) \/ verify_trace_export_tree(t) \/ reconcile_publication(t)
    \/ settle_observed(t)

Next ==
    \/ \E j \in Jobs : submit(j) \/ cancel(j) \/ lease_expires(j) \/ cleanup_input(j) \/ other_commits(j)
    \/ \E t \in Jobs \X Slots : TaskStep(t) \/ renew_claim_fails(t)
    \/ revoke \/ cleanup_export \/ crash \/ recover_pending

Spec == Init /\ [][Next]_vars

\* Tasks are polled while the process runs, and a process that died is started
\* again.  Nothing is assumed of callers, clocks, revocations or crashes.
FairSpec == Spec /\ WF_vars(recover_pending) /\ \A t \in Jobs \X Slots : WF_vars(TaskStep(t))
-----------------------------------------------------------------------------
(* Properties.                                                             *)

\* What job j itself has committed.
OwnEffect(j) ==
    \/ operation[j] \in Producers /\ fact[operation[j]] = j
    \/ operation[j] = "prepare" /\ export.prepare_job = j
    \/ operation[j] = "publish" /\ export.publish_job = j /\ (tree \/ export.phase = "delivered")

\* What the result of job j refers to is there, or was and has been redacted.
EffectExists(j) ==
    CASE operation[j] \in Producers -> fact[operation[j]] # "none"
      [] operation[j] = "prepare"   -> export.prepare_job = j
      [] operation[j] = "publish"   -> export.publish_job = j /\ export.phase \in {"delivered", "redacted"}
      [] OTHER                 -> FALSE

\* A request is executed once.  It is claimed once although its lease expires and
\* its process dies (claim, recover_pending), and no more workers run than the
\* capacity admits, although a draining job has lost its fence while its worker
\* goes on (claim, count_management_job_capacity).
ExecutedOnce ==
    /\ \A j \in Jobs : job[j].generation <= 1
    /\ Cardinality({t \in Jobs \X Slots : task[t].pc \in ConsumerSteps}) <= MaxConcurrent

\* While the process runs, a job that was claimed and is not closed has exactly one
\* supervisor, which is registered in active_workers (spawn_job,
\* spawn_reconciliation, run_job): nobody else may close it, so without one it
\* would keep its slot for ever.
UnfinishedIsWatched ==
    process = "up" =>
        \A j \in Jobs : Unclosed(job[j]) =>
            /\ j \in active
            /\ \E n \in Slots :
                 /\ task[<<j, n>>].pc \in ConsumerSteps \cup ClosingSteps
                 /\ \A m \in Slots \ {n} : task[<<j, m>>].pc \in {"idle", "retry"}

\* The end of a job tells what it did (finish_observed_worker, consumer_progress):
\* a failed or cancelled job has committed nothing, and nothing it left behind
\* commits later; a result that names committed work names work that exists.
TerminalIsHonest ==
    \A j \in Jobs : is_terminal(job[j]) =>
        /\ job[j].state \in {"failed", "cancelled"} => ~OwnEffect(j)
        /\ job[j].result = "effect" => EffectExists(j)

\* The recorded arrival of a cancellation is the order that happened
\* (cancel_job_atomic, apply_completed_outcome): "before" means that the job
\* committed nothing, "after" that the work it reports exists and, for a holdout,
\* that this job and not an earlier one registered it.
ArrivalIsHonest ==
    \A j \in Jobs : is_terminal(job[j]) =>
        /\ job[j].arrival = "before" => ~OwnEffect(j)
        /\ job[j].arrival = "after" => EffectExists(j) /\ (operation[j] = "current" => OwnEffect(j))

\* What the record of a job says is so: a job nobody has closed is watched by one
\* supervisor, its end tells what it committed, and the arrival of a cancellation is
\* the order that happened.
RecordIsHonest ==
    /\ TypeOK
    /\ UnfinishedIsWatched
    /\ TerminalIsHonest
    /\ ArrivalIsHonest

\* No writer of a job row takes back what the row says (finish_claim,
\* finish_observed_worker, cancel_job_atomic, record_background_error): a closed
\* job does not change, and the reference to work the job has committed is never
\* dropped, whatever a later lookup finds.
RecordOnlyGrows ==
    [][\A j \in Jobs :
         /\ is_terminal(job[j]) => job'[j] = job[j]
         /\ job[j].result = "effect" /\ job[j].step # "already" => job'[j].result = "effect"]_vars

\* A lookup that cannot decide what job j has committed: its sources are revoked,
\* its holdout is somebody else's, or its export record is gone or not its own.
Undecided(j) ==
    \/ Dead(j)
    \/ operation[j] = "current" /\ fact[operation[j]] \notin {"none", j}
    \/ operation[j] = "prepare" /\ export.phase = "redacted"
    \/ operation[j] = "publish" /\ export.phase # "prepared" /\ export.publish_job # j
    \/ operation[j] = "publish" /\ export.phase \in {"aborted", "redacted"}

\* Every job ends, also one that waits for capacity, unless the fate of some job
\* cannot be decided (run_job, retry_claim_later, spawn_reconciliation): such a
\* job drains for ever and keeps its slot.
JobEnds == \A j \in Jobs : Stored(job[j]) ~> (is_terminal(job[j]) \/ \E i \in Jobs : Undecided(i))

\* The comments of consumer_progress and reconcile_publication: a missing tree proves
\* that the job did not publish.
MissingTreeIsUnpublished ==
    \A j \in Jobs : operation[j] = "publish" /\ job[j].state \in {"failed", "cancelled"} => j \notin published

\* The comment of CAPACITY_WAIT_STEP: a job that waits for capacity is claimed later.
WaiterIsClaimed ==
    \A j \in Jobs : (job[j].state = "queued" /\ job[j].step = "capacity_wait") ~> job[j].state # "queued"
=============================================================================
