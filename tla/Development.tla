---------------------------- MODULE Development -----------------------------
(***************************************************************************)
(* Development execution and practice sets (evo-engine development.rs,     *)
(* development_projection.rs, practice.rs).                                *)
(*                                                                         *)
(* A development request runs every task of its control on the parent and  *)
(* on the candidate, each through one call of the root budget, grades the  *)
(* pair and closes the run.  What was run is told by receipts: execution   *)
(* receipts, a grader receipt per task, a run receipt per request.  Each   *)
(* is written once, in a transaction of its own, under an id derived from  *)
(* the request, so that a run that was cut off is run again over what it   *)
(* left.  A practice set runs its attempts as development requests; three  *)
(* attempts need a registration, which is spent on one set.                *)
(*                                                                         *)
(* A job is a practice set or a request made directly.  Requests are       *)
(* <<job, attempt>>.  A receipt is its time of issue: the rest of it       *)
(* follows from the request.                                               *)
(***************************************************************************)
EXTENDS Common

CONSTANTS
    DevWorkers,
    DevTasks,           \* 1..n, in the order of the control
    PracticeSets,       \* jobs that are practice sets under one registration
    DirectRequests,     \* jobs that are one development request
    PracticeAttempts,   \* REGISTERED_PRACTICE_ATTEMPTS
    Runners,            \* which of the two runners a behaviour is about
    DevScores,          \* what the attempts may score: functions from attempts
    LeaseSeconds,
    DevClockLimit,      \* bound: the clock
    DevFaultLimit       \* bound: crashes, failures and changes around a behaviour

Jobs == PracticeSets \cup DirectRequests
StopReasons == {"attempt_error", "uncertain_attempt", "conflict", "attempt_unverified"}

ASSUME DevelopmentShape ==
    /\ PracticeSets \cap DirectRequests = {} /\ None \notin PracticeSets \cup StopReasons
    /\ PracticeAttempts \in Nat \ {0}
    /\ IsFiniteSet(DevTasks) /\ DevTasks # {} /\ DevTasks = 1..Cardinality(DevTasks)
    /\ Runners \subseteq {"registered", "projection"}
    /\ DevScores \subseteq [1..PracticeAttempts -> Nat]
    /\ {LeaseSeconds, DevClockLimit, DevFaultLimit} \subseteq Nat

VARIABLES
    runner,         \* the runner of the control
    devScore,       \* what each attempt of a set scores
    devClock,
    execCall,       \* budget calls by <<request, task, side>>
    execReceipt,    \* execution receipts, by the same key
    graderReceipt,  \* by <<request, task>>
    runReceipt,     \* by request
    binding,        \* the set the registration is spent on
    practiceSet,    \* stored sets
    devLive,        \* the sources are those of the request
    devInputs,      \* the compiled inputs are those of the request
    devStopped,     \* the root budget is stopped
    devWork,        \* what each worker is doing
    devFaults

developmentVars == <<runner, devScore, devClock, execCall, execReceipt, graderReceipt, runReceipt, binding,
                     practiceSet, devLive, devInputs, devStopped, devWork, devFaults>>
devRecords == <<execCall, execReceipt, graderReceipt, runReceipt, binding, practiceSet>>
devWorld == <<runner, devScore, devClock, devLive, devInputs, devStopped, devFaults>>

Sides == <<"parent", "candidate">>
FirstTask == CHOOSE t \in DevTasks : \A u \in DevTasks : t <= u
LastTask == CHOOSE t \in DevTasks : \A u \in DevTasks : t >= u

Requests == {<<j, n>> : j \in Jobs, n \in 1..PracticeAttempts}
CallKeys == Requests \X DevTasks \X {"parent", "candidate"}

AbsentCall == [state |-> "absent", until |-> 0, dispatches |-> 0]
DevIdle == [at |-> "idle", job |-> None, attempt |-> 1, task |-> FirstTask, side |-> 1,
            held |-> "absent", now |-> 0, done |-> <<>>, stop |-> None]

DevTypeOK ==
    /\ runner \in Runners /\ devScore \in DevScores /\ devClock \in 0..DevClockLimit
    /\ \A k \in CallKeys : execCall[k].state \in {"absent", "reserved", "dispatched", "finalized", "uncertain", "released"}
    /\ DOMAIN execReceipt \subseteq CallKeys /\ DOMAIN graderReceipt \subseteq Requests \X DevTasks
    /\ DOMAIN runReceipt \subseteq Requests /\ DOMAIN practiceSet \subseteq PracticeSets
    /\ binding \in PracticeSets \cup {None}
    /\ {devLive, devInputs, devStopped} \subseteq BOOLEAN /\ devFaults \in 0..DevFaultLimit
    /\ \A w \in DevWorkers : devWork[w].task \in DevTasks /\ devWork[w].at \in {"idle", "claim", "attempt", "run", "existing", "reserve", "begin",
                                "settle", "receipt", "grade", "close", "record", "persist"}

DevelopmentInit ==
    /\ runner \in Runners /\ devScore \in DevScores /\ devClock = 0
    /\ execCall = [k \in CallKeys |-> AbsentCall]
    /\ execReceipt = <<>> /\ graderReceipt = <<>> /\ runReceipt = <<>>
    /\ binding = None /\ practiceSet = <<>>
    /\ devLive = TRUE /\ devInputs = TRUE /\ devStopped = FALSE
    /\ devWork = [w \in DevWorkers |-> DevIdle] /\ devFaults = 0

-----------------------------------------------------------------------------
(* A worker's place in its run.                                            *)

Req(w) == <<devWork[w].job, devWork[w].attempt>>
Key(w) == <<Req(w), devWork[w].task, Sides[devWork[w].side]>>
Pair(w) == <<Req(w), devWork[w].task>>

Issue(receipts, key, t) == [k \in DOMAIN receipts \cup {key} |-> IF k = key THEN t ELSE receipts[k]]

DevStep(w, at) == devWork' = [devWork EXCEPT ![w].at = at]

\* runner_stop_reason: a set keeps what finished and records why it stopped;
\* a request made directly returns the error.
runner_stop_reason(w, why) ==
    devWork' = [devWork EXCEPT ![w] = IF @.job \in PracticeSets THEN [@ EXCEPT !.at = "persist", !.stop = why] ELSE DevIdle]

Stop(w, why) == runner_stop_reason(w, why) /\ UNCHANGED devRecords

\* The other side, or the pair is complete.
AfterSide(w) == [devWork[w] EXCEPT !.held = "absent", !.now = 0, !.side = 2,
                                   !.at = IF devWork[w].side = 1 THEN "existing" ELSE "grade"]

\* verify_development_bundle_inputs, load_bundles: over live sources only.
BundleCurrent == devLive /\ devInputs

-----------------------------------------------------------------------------
(* run_practice_set, and a development request of its own.                 *)

\* A stored set is the answer; a registration spent on another set is refused
\* before anything is written.
run_practice_set(w, j) ==
    /\ devWork[w].at = "idle" /\ devLive
    /\ j \notin DOMAIN practiceSet
    /\ (j \in PracticeSets => binding \in {None, j} /\ runner = "registered")
    /\ devWork' = [devWork EXCEPT ![w] = [DevIdle EXCEPT !.job = j, !.at = IF j \in PracticeSets THEN "claim" ELSE "run"]]
    /\ UNCHANGED <<devWorld, devRecords>>

\* bind_registration: of two sets only one is bound.
claim_registration(w) ==
    /\ devWork[w].at = "claim"
    /\ IF binding \in {None, devWork[w].job}
       THEN binding' = devWork[w].job /\ DevStep(w, "attempt")
       ELSE devWork' = [devWork EXCEPT ![w] = DevIdle] /\ UNCHANGED binding
    /\ UNCHANGED <<execCall, execReceipt, graderReceipt, runReceipt, practiceSet, devWorld>>

\* run_attempts: whether the run receipt is there already is noted first.
attempt_already_executed(w) ==
    /\ devWork[w].at = "attempt" /\ DevStep(w, "run") /\ UNCHANGED <<devWorld, devRecords>>

\* The entry of RegisteredDevelopmentRunner::run.
run_request(w) ==
    /\ devWork[w].at = "run"
    /\ IF BundleCurrent
       THEN /\ devWork' = [devWork EXCEPT ![w].at = "existing", ![w].task = FirstTask, ![w].side = 1]
            /\ UNCHANGED devRecords
       ELSE Stop(w, "attempt_error")
    /\ UNCHANGED devWorld

-----------------------------------------------------------------------------
(* execute_side.                                                           *)

\* A receipt that is there is used again, over live sources.
existing_receipt(w) ==
    /\ devWork[w].at = "existing"
    /\ IF ~BundleCurrent THEN Stop(w, "attempt_error")
       ELSE /\ IF Key(w) \in DOMAIN execReceipt THEN devWork' = [devWork EXCEPT ![w] = AfterSide(w)]
               ELSE devWork' = [devWork EXCEPT ![w].at = "reserve", ![w].now = devClock]
            /\ UNCHANGED devRecords
    /\ UNCHANGED devWorld

\* A call is reserved once; the one that exists is handed back as it is.
reserve_call(w) ==
    LET c == execCall[Key(w)]
        new == [AbsentCall EXCEPT !.state = "reserved", !.until = devWork[w].now + LeaseSeconds]
        row == IF c.state = "absent" THEN new ELSE c IN
    /\ devWork[w].at = "reserve"
    /\ IF ~BundleCurrent \/ (c.state = "absent" /\ devStopped) THEN Stop(w, "attempt_error")
       ELSE /\ execCall' = [execCall EXCEPT ![Key(w)] = row]
            /\ IF row.state = "released" THEN runner_stop_reason(w, "uncertain_attempt")
               ELSE devWork' = [devWork EXCEPT ![w].at = IF row.state \in {"reserved", "dispatched"} THEN "begin" ELSE "receipt",
                                               ![w].held = row.state, ![w].now = devClock]
            /\ UNCHANGED <<execReceipt, graderReceipt, runReceipt, binding, practiceSet>>
    /\ UNCHANGED devWorld

\* Only the reservation this worker took may be released, and only while the
\* row is still reserved; over revoked sources nothing is written.
release_undispatched(w) ==
    [execCall EXCEPT ![Key(w)].state = IF devWork[w].held = "reserved" /\ @ = "reserved" THEN "released" ELSE @]

\* The registered runner keeps a reservation it finds over revoked sources;
\* the projection's gate does not tell a tombstone from changed inputs.
KeepsReservation == runner = "registered" /\ ~devLive

DevFault == devFaults < DevFaultLimit /\ devFaults' = devFaults + 1

\* execute_target is a pure function: its failure releases the reservation.
target_execution_failed(w) ==
    /\ devWork[w].at = "begin" /\ DevFault
    /\ execCall' = IF KeepsReservation THEN execCall ELSE release_undispatched(w)
    /\ runner_stop_reason(w, "attempt_error")
    /\ UNCHANGED <<execReceipt, graderReceipt, runReceipt, binding, practiceSet, runner, devScore, devClock, devLive, devInputs, devStopped>>

\* A row another worker took further is fenced by its state.
BeginRefused(w) == execCall[Key(w)].state = "reserved" /\ (devWork[w].now > execCall[Key(w)].until \/ devStopped)

begin_bound_execution(w) ==
    LET key == Key(w)
        c == execCall[key] IN
    /\ devWork[w].at = "begin"
    /\ IF ~BundleCurrent \/ BeginRefused(w)
       THEN /\ execCall' = IF KeepsReservation THEN execCall ELSE release_undispatched(w)
            /\ runner_stop_reason(w, IF BundleCurrent THEN "uncertain_attempt" ELSE "attempt_error")
       ELSE /\ execCall' = [execCall EXCEPT ![key] = IF c.state = "reserved"
                              THEN [c EXCEPT !.state = "dispatched", !.dispatches = @ + 1] ELSE c]
            /\ IF c.state = "released" THEN runner_stop_reason(w, "attempt_error") ELSE DevStep(w, "settle")
    /\ UNCHANGED <<execReceipt, graderReceipt, runReceipt, binding, practiceSet, devWorld>>

\* The zero charge and the typed settlement in one transaction, once.
settle_registered_execution_call(w) ==
    LET c == execCall[Key(w)] IN
    /\ devWork[w].at = "settle"
    /\ IF c.state = "finalized" THEN DevStep(w, "receipt") /\ UNCHANGED execCall
       ELSE IF c.state # "dispatched" \/ devWork[w].now > c.until
       THEN runner_stop_reason(w, "uncertain_attempt") /\ UNCHANGED execCall
       ELSE execCall' = [execCall EXCEPT ![Key(w)].state = "finalized"] /\ DevStep(w, "receipt")
    /\ UNCHANGED <<execReceipt, graderReceipt, runReceipt, binding, practiceSet, devWorld>>

\* A row that is closed with its settlement; a row marked uncertain has none.
validate_execution_call(c) == c.state = "finalized"

\* issue_execution_receipt of the registered runner: the same receipt or the
\* first.  The projection writes its receipt over one that came in between.
issue_execution_receipt(w) ==
    LET key == Key(w) IN
    /\ devWork[w].at = "receipt"
    /\ IF ~devLive \/ ~validate_execution_call(execCall[key])
          \/ (runner = "registered" /\ key \in DOMAIN execReceipt /\ execReceipt[key] # devClock)
       THEN Stop(w, IF devLive THEN "conflict" ELSE "attempt_error")
       ELSE /\ execReceipt' = Issue(execReceipt, key, IF runner = "registered" THEN devClock ELSE devWork[w].now)
            /\ devWork' = [devWork EXCEPT ![w] = AfterSide(w)]
            /\ UNCHANGED <<execCall, graderReceipt, runReceipt, binding, practiceSet>>
    /\ UNCHANGED devWorld

-----------------------------------------------------------------------------
(* Grading and closing.                                                    *)

\* verify_execution_pair, verify_side: both receipts and their rows.
verify_execution_pair(r, t) ==
    \A s \in {"parent", "candidate"} : <<r, t, s>> \in DOMAIN execReceipt /\ validate_execution_call(execCall[<<r, t, s>>])

\* The receipt a runner would write next to one that is there: the registered
\* runner stamps it anew, the projection keeps the time of the stored one.
SameReceipt(receipts, key) == runner = "projection" \/ receipts[key] = devClock

\* Mistake: the last task is passed.
AfterGradeOnward(w) == IF devWork[w].task > LastTask THEN [devWork[w] EXCEPT !.at = "close"]
                       ELSE [devWork[w] EXCEPT !.task = @ + 1, !.side = 1, !.at = "existing"]

AfterGrade(w) == IF devWork[w].task = LastTask THEN [devWork[w] EXCEPT !.at = "close"]
                 ELSE [devWork[w] EXCEPT !.task = @ + 1, !.side = 1, !.at = "existing"]

issue_grader_receipt(w) ==
    LET key == Pair(w) IN
    /\ devWork[w].at = "grade"
    /\ IF ~devLive \/ ~verify_execution_pair(Req(w), devWork[w].task) THEN Stop(w, "attempt_error")
       ELSE IF key \in DOMAIN graderReceipt /\ ~SameReceipt(graderReceipt, key) THEN Stop(w, "conflict")
       ELSE /\ graderReceipt' = IF key \in DOMAIN graderReceipt THEN graderReceipt ELSE Issue(graderReceipt, key, devClock)
            /\ devWork' = [devWork EXCEPT ![w] = AfterGrade(w)]
            /\ UNCHANGED <<execCall, execReceipt, runReceipt, binding, practiceSet>>
    /\ UNCHANGED devWorld

\* A request made directly ends with its report.
issue_run_receipt(w) ==
    LET key == Req(w) IN
    /\ devWork[w].at = "close"
    /\ IF key \in DOMAIN runReceipt /\ ~SameReceipt(runReceipt, key) THEN Stop(w, "conflict")
       ELSE IF key \notin DOMAIN runReceipt /\ (~devLive \/ (runner = "projection" /\ ~devInputs))
       THEN Stop(w, "attempt_error")
       ELSE /\ runReceipt' = IF key \in DOMAIN runReceipt THEN runReceipt ELSE Issue(runReceipt, key, devClock)
            /\ devWork' = [devWork EXCEPT ![w] = IF @.job \in PracticeSets THEN [@ EXCEPT !.at = "record"] ELSE DevIdle]
            /\ UNCHANGED <<execCall, execReceipt, graderReceipt, binding, practiceSet>>
    /\ UNCHANGED devWorld

-----------------------------------------------------------------------------
(* The practice set.                                                       *)

\* The run receipt closes over the grader receipts of all its tasks.
RunReceiptCloses(r) ==
    r \in DOMAIN runReceipt /\ \A t \in DevTasks : <<r, t>> \in DOMAIN graderReceipt

\* verify_observed_report: the receipts of the whole run, over live sources.
VerifiedReport(r) ==
    /\ BundleCurrent /\ RunReceiptCloses(r)
    /\ \A t \in DevTasks : verify_execution_pair(r, t)

record_attempt(w) ==
    LET done == Append(devWork[w].done, devScore[devWork[w].attempt]) IN
    /\ devWork[w].at = "record"
    /\ IF ~VerifiedReport(Req(w)) THEN Stop(w, "attempt_unverified")
       ELSE /\ devWork' = [devWork EXCEPT ![w].done = done,
                             ![w].at = IF devWork[w].attempt = PracticeAttempts THEN "persist" ELSE "attempt",
                             ![w].attempt = IF @ = PracticeAttempts THEN @ ELSE @ + 1]
            /\ UNCHANGED devRecords
    /\ UNCHANGED devWorld

\* The earliest of the best and the earliest of the worst, if they differ.
select_contrast(done) ==
    LET First(best) == CHOOSE n \in DOMAIN done :
            \A m \in DOMAIN done : /\ (IF best THEN done[n] >= done[m] ELSE done[n] <= done[m])
                                   /\ (done[n] = done[m] => n <= m)
    IN IF \A m, n \in DOMAIN done : done[m] = done[n] THEN [contrast |-> FALSE, better |-> 0, worse |-> 0]
       ELSE [contrast |-> TRUE, better |-> First(TRUE), worse |-> First(FALSE)]

\* Mistake: a set that stopped is not stored.
persist_finished(w) ==
    LET me == devWork[w] j == me.job IN
    /\ me.at = "persist"
    /\ IF ~devLive \/ me.stop # None THEN UNCHANGED <<binding, practiceSet>>
       ELSE binding' = j /\ practiceSet' = Issue(practiceSet, j, [done |-> me.done, stop |-> None, outcome |-> select_contrast(me.done)])
    /\ devWork' = [devWork EXCEPT ![w] = DevIdle]
    /\ UNCHANGED <<execCall, execReceipt, graderReceipt, runReceipt, devWorld>>

\* The set is stored once, over live sources, with the binding it was run under.
persist_set(w) ==
    LET me == devWork[w] j == me.job IN
    /\ me.at = "persist"
    /\ IF ~devLive \/ j \in DOMAIN practiceSet \/ binding \notin {None, j}
       THEN UNCHANGED <<binding, practiceSet>>
       ELSE /\ binding' = j
            /\ practiceSet' = Issue(practiceSet, j, [done |-> me.done, stop |-> me.stop,
                                 outcome |-> IF me.stop = None THEN select_contrast(me.done) ELSE None])
    /\ devWork' = [devWork EXCEPT ![w] = DevIdle]
    /\ UNCHANGED <<execCall, execReceipt, graderReceipt, runReceipt, devWorld>>

-----------------------------------------------------------------------------
(* The surroundings.                                                       *)

\* External: the process dies between two transactions; its caller comes back.
dev_crash(w) ==
    /\ devWork[w].at # "idle" /\ DevFault
    /\ devWork' = [devWork EXCEPT ![w] = DevIdle]
    /\ UNCHANGED <<runner, devScore, devClock, devLive, devInputs, devStopped, devRecords>>

\* External: seconds pass.
dev_tick(t) == devClock < t /\ t <= DevClockLimit /\ devClock' = t
               /\ UNCHANGED <<runner, devScore, devLive, devInputs, devStopped, devFaults, devWork, devRecords>>

\* A source of the control is revoked.
dev_revoke == devLive /\ devLive' = FALSE
              /\ UNCHANGED <<runner, devScore, devClock, devInputs, devStopped, devFaults, devWork, devRecords>>

\* A profile or a bundle the compiler reads is replaced.
dev_inputs_change == devInputs /\ devInputs' = FALSE /\ DevFault
                     /\ UNCHANGED <<runner, devScore, devClock, devLive, devStopped, devWork, devRecords>>

dev_root_stops == ~devStopped /\ devStopped' = TRUE /\ DevFault
                  /\ UNCHANGED <<runner, devScore, devClock, devLive, devInputs, devWork, devRecords>>

\* A recovery marks a call whose lease ran out while it was on its way.
dev_mark_uncertain(k) ==
    /\ execCall[k].state = "dispatched" /\ devClock > execCall[k].until
    /\ execCall' = [execCall EXCEPT ![k].state = "uncertain"]
    /\ UNCHANGED <<execReceipt, graderReceipt, runReceipt, binding, practiceSet, devWork, devWorld>>

DevRuns(w) ==
    \/ claim_registration(w) \/ attempt_already_executed(w) \/ run_request(w) \/ existing_receipt(w)
    \/ reserve_call(w) \/ begin_bound_execution(w) \/ settle_registered_execution_call(w)
    \/ issue_execution_receipt(w) \/ issue_grader_receipt(w) \/ issue_run_receipt(w)
    \/ record_attempt(w) \/ persist_set(w)

DevelopmentNext ==
    \/ \E w \in DevWorkers : DevRuns(w) \/ target_execution_failed(w) \/ dev_crash(w) \/ \E j \in Jobs : run_practice_set(w, j)
    \/ (\E t \in 1..DevClockLimit : dev_tick(t)) \/ dev_revoke \/ dev_inputs_change \/ dev_root_stops
    \/ \E k \in CallKeys : dev_mark_uncertain(k)

\* A worker that started goes on; the owner of a bound set asks for it again.
DevelopmentFair ==
    \A w \in DevWorkers : WF_developmentVars(DevRuns(w)) /\ \A j \in PracticeSets : WF_developmentVars(binding = j /\ run_practice_set(w, j))

DevelopmentSpec == DevelopmentInit /\ [][DevelopmentNext]_developmentVars /\ DevelopmentFair

-----------------------------------------------------------------------------
(* Properties.                                                             *)

\* A receipt stands on what it is about: an execution on a row that was
\* settled, a grade on both executions, a closed run on every grade
\* (validate_execution_call, verify_execution_pair, issue_run_receipt).
ReceiptsClose ==
    /\ \A k \in DOMAIN execReceipt : execCall[k].state = "finalized" /\ execCall[k].dispatches = 1
    /\ \A p \in DOMAIN graderReceipt : \A s \in {"parent", "candidate"} : <<p[1], p[2], s>> \in DOMAIN execReceipt
    /\ \A r \in DOMAIN runReceipt : \A t \in DevTasks : <<r, t>> \in DOMAIN graderReceipt

\* A call that went out is never handed back: the release of one worker does
\* not meet the dispatch of another (release_undispatched_budget_call).
SentIsNotReleased == \A k \in CallKeys : execCall[k].state = "released" => execCall[k].dispatches = 0

\* One registration pays for the attempts of one set, whatever runs and dies
\* (claim_registration before the first runner call).
OneSetPerRegistration ==
    \A a, b \in PracticeSets : (\E k \in CallKeys : k[1][1] = a /\ execCall[k].dispatches > 0)
                            /\ (\E k \in CallKeys : k[1][1] = b /\ execCall[k].dispatches > 0) => a = b

\* A finished set holds all its attempts, each closed by its run receipt, and
\* a contrast is between a better and a worse one (persist_set, select_contrast).
SetIsEvidence ==
    \A j \in DOMAIN practiceSet : LET set == practiceSet[j] IN
        /\ binding = j
        /\ \A n \in DOMAIN set.done : <<j, n>> \in DOMAIN runReceipt
        /\ (set.stop = None) = (Len(set.done) = PracticeAttempts)
        /\ set.stop = None /\ set.outcome.contrast => set.done[set.outcome.better] > set.done[set.outcome.worse]

\* What is written stays as it was written, and nothing is written once a
\* source is revoked (require_live_sources in every issuing transaction).
Grown(old, new) == \A k \in DOMAIN old : k \in DOMAIN new /\ new[k] = old[k]
EvidenceStands ==
    [][/\ Grown(graderReceipt, graderReceipt') /\ Grown(runReceipt, runReceipt') /\ Grown(practiceSet, practiceSet')
       /\ DOMAIN execReceipt \subseteq DOMAIN execReceipt'
       /\ (runner = "registered" => Grown(execReceipt, execReceipt'))
       /\ (~devLive => UNCHANGED <<execReceipt, graderReceipt, runReceipt, practiceSet>>)]_developmentVars

\* A set that was bound to its registration is stored in the end, unless its
\* sources are revoked (run_practice_set after a crash).
BoundSetIsStored == \A j \in PracticeSets : (binding = j) ~> (j \in DOMAIN practiceSet \/ ~devLive)

\* What holds of development execution in every state: receipts close what they
\* name, a sent call is not released, one set is bound to a registration, and a
\* stored set is evidence of its attempts.
DevelopmentSafe ==
    /\ DevTypeOK
    /\ ReceiptsClose
    /\ SentIsNotReleased
    /\ OneSetPerRegistration
    /\ SetIsEvidence
=============================================================================
