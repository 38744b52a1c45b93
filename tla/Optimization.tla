---------------------------- MODULE Optimization ----------------------------
(***************************************************************************)
(* One optimization step over its journal (evo-engine optimization.rs).    *)
(*                                                                         *)
(* A step reflects on batches of traces with one model call each, ranks    *)
(* the suggestions when there are too many, compiles the edit and runs it  *)
(* against its parent.  Every stage is an immutable fact, committed in a   *)
(* transaction of its own; a call goes out between a DispatchPrepared and  *)
(* a DispatchObserved fact.  A worker may be cut off anywhere and the step *)
(* run again, by two workers at once; the sources of the step may be       *)
(* revoked, and cleaned up, at any time.                                   *)
(*                                                                         *)
(* A fact is named by its call and its kind.  What it says is reduced to   *)
(* what decides the rest of the step.                                      *)
(***************************************************************************)
EXTENDS Common

CONSTANTS
    Workers,
    Inputs,             \* requests: [batches, rank, edit, grant]
    ModelAnswers,       \* what a model call may return
    DevReports,         \* what a development run may report
    MAX_FINAL_EDITS,
    MaxFaults           \* bound: crashes and failed transactions of a behaviour

ASSUME OptimizationShape ==
    /\ \A i \in Inputs : i.batches \in 0..2 /\ {i.rank, i.grant} \subseteq BOOLEAN
                         /\ i.edit \in {"changes", "same", "fails"}
    /\ ModelAnswers \subseteq {"none", "one", "many", "shape", "rejected", "uncertain"}
    /\ DevReports \subseteq {"better", "worse", "mismatch", "invalid"}
    /\ MAX_FINAL_EDITS \in Nat /\ MaxFaults \in Nat

VARIABLES
    input,      \* the request of the step
    journal,    \* stage facts: <<call, kind>> to what the fact says
    sent,       \* how often each call went out
    live,       \* the watermark is the one of the request
    revoked,    \* a run the step reads has its tombstone
    cleaned,    \* cleanup of that run is over
    work,       \* what each worker is doing
    faults

optimizationVars == <<input, journal, sent, live, revoked, cleaned, work, faults>>

MAX_SUGGESTIONS == 8

Calls == {"first", "second", "rank", "dev"}
Terminals == {"no_change", "rejected", "uncertain", "candidate"}
Outcomes == Terminals \cup {"step_error"}
Kinds == {"StepPrepared", "StepCompleted", "EditCompiled", "RequestPrepared", "DispatchPrepared",
          "DispatchObserved", "ResponseObserved"} \cup Terminals

Step(kind) == <<"step", kind>>
Idle == [at |-> "idle", call |-> "first", answer |-> None, pool |-> 0, outcome |-> None]

OptimizationTypeOK ==
    /\ input \in Inputs /\ {live, revoked, cleaned} \subseteq BOOLEAN /\ faults \in 0..MaxFaults
    /\ DOMAIN journal \subseteq (Calls \cup {"step"}) \X Kinds
    /\ sent \in [Calls -> Nat]
    /\ \A w \in Workers :
         /\ work[w].at \in {"idle", "prepare", "request", "look", "claimed", "claim", "sent", "observe",
                            "respond", "compile", "end", "complete"}
         /\ work[w].outcome \in Outcomes \cup {None}
         /\ work[w].pool \in 0..MAX_SUGGESTIONS

OptimizationInit ==
    /\ input \in Inputs
    /\ journal = <<>> /\ sent = [c \in Calls |-> 0]
    /\ live = TRUE /\ revoked = FALSE /\ cleaned = FALSE
    /\ work = [w \in Workers |-> Idle] /\ faults = 0

-----------------------------------------------------------------------------
(* The journal.                                                            *)

Known(key) == key \in DOMAIN journal

\* commit_current: the same fact again, or the first under its name.
Agrees(key, says) == Known(key) => journal[key] = says

Written(key, says) == [k \in DOMAIN journal \cup {key} |-> IF k = key THEN says ELSE journal[k]]

Move(w, at) == work' = [work EXCEPT ![w].at = at]

\* An error ends the step, recorded by its kind.
Fail(w) == work' = [work EXCEPT ![w].at = "complete", ![w].outcome = "step_error"]

\* The outcome of the call cannot be told: whatever the step returns, it ends uncertain.
Uncertain(w) == work' = [work EXCEPT ![w].at = "complete", ![w].outcome = "uncertain"]

\* commit through RecoveryJournal: the sources are live and the fact is the first of its name.
Commit(w, key, says, next) ==
    /\ IF live /\ Agrees(key, says)
       THEN journal' = Written(key, says) /\ work' = [work EXCEPT ![w] = next]
       ELSE Fail(w) /\ UNCHANGED journal
    /\ UNCHANGED <<input, sent, live, revoked, cleaned, faults>>

JustMove == UNCHANGED <<input, journal, sent, live, revoked, cleaned, faults>>

\* The answer of a model is content of the sources it was asked about.
holds_model_output(c) == c # "dev"

\* Mistake: only the watermark of the request is looked at.
never_revoked == FALSE

run_dependency_revoked == revoked

-----------------------------------------------------------------------------
(* run_step.                                                               *)

\* A step that has its terminal answers it; without a grant nothing goes out.
run_step(w) ==
    /\ work[w].at = "idle" /\ live /\ ~Known(Step("StepCompleted"))
    /\ work' = [work EXCEPT ![w] = IF input.grant THEN [Idle EXCEPT !.at = "prepare"]
                                   ELSE [Idle EXCEPT !.at = "end", !.outcome = "rejected"]]
    /\ JustMove

FirstCall == IF input.batches = 0 THEN [Idle EXCEPT !.at = "end", !.outcome = "no_change"]
             ELSE [Idle EXCEPT !.at = "request"]

prepare_step(w) ==
    /\ work[w].at = "prepare"
    /\ Commit(w, Step("StepPrepared"), "prepared", FirstCall)

\* RequestPrepared, DevelopmentRequestPrepared.
prepare_request(w) ==
    /\ work[w].at = "request"
    /\ Commit(w, <<work[w].call, "RequestPrepared">>, "prepared", [work[w] EXCEPT !.at = "look"])

\* What was observed before is used again, and the call does not go out.
look_observed(w) ==
    LET key == <<work[w].call, "DispatchObserved">> IN
    /\ work[w].at = "look"
    /\ IF ~live \/ (Known(key) /\ journal[key] = "redacted") THEN Fail(w)
       ELSE IF Known(key) THEN work' = [work EXCEPT ![w].at = "respond", ![w].answer = journal[key]]
       ELSE Move(w, "claimed")
    /\ JustMove

\* Mistake: a call without its answer is left to the worker that made it.
leave_unrecorded(w) ==
    /\ work[w].at = "claimed"
    /\ Move(w, IF Known(<<work[w].call, "DispatchPrepared">>) THEN "idle" ELSE "claim")
    /\ JustMove

\* A call that went out and has no answer is never made again.
look_claimed(w) ==
    /\ work[w].at = "claimed"
    /\ IF ~live THEN Fail(w)
       ELSE IF Known(<<work[w].call, "DispatchPrepared">>) THEN Uncertain(w)
       ELSE Move(w, "claim")
    /\ JustMove

\* The first to write DispatchPrepared makes the call.
claim_call(w) ==
    LET key == <<work[w].call, "DispatchPrepared">> IN
    /\ work[w].at = "claim"
    /\ IF ~live THEN Fail(w) /\ UNCHANGED journal
       ELSE IF Known(key) THEN Uncertain(w) /\ UNCHANGED journal
       ELSE Move(w, "sent") /\ journal' = Written(key, "prepared")
    /\ UNCHANGED <<input, sent, live, revoked, cleaned, faults>>

Answers(c) == IF c = "dev" THEN DevReports ELSE ModelAnswers

\* The port or the runner answers, or fails after the call went out.
call_returns(w) ==
    /\ work[w].at = "sent"
    /\ sent' = [sent EXCEPT ![work[w].call] = @ + 1]
    /\ \/ \E a \in Answers(work[w].call) : work' = [work EXCEPT ![w].at = "observe", ![w].answer = a]
       \/ Uncertain(w)
    /\ UNCHANGED <<input, journal, live, revoked, cleaned, faults>>

\* The receipt is kept whatever became of the sources; the answer only while they stand.
\* Then the fact is read back and the sources are judged.
observe_call(w) ==
    LET c    == work[w].call
        key  == <<c, "DispatchObserved">>
        says == IF holds_model_output(c) /\ run_dependency_revoked THEN "redacted" ELSE work[w].answer
    IN /\ work[w].at = "observe"
       /\ IF Agrees(key, says) /\ live
          THEN journal' = Written(key, says) /\ Move(w, "respond")
          ELSE /\ journal' = IF Agrees(key, says) THEN Written(key, says) ELSE journal
               /\ Fail(w)
       /\ UNCHANGED <<input, sent, live, revoked, cleaned, faults>>

per_batch_limit == MAX_SUGGESTIONS \div input.batches

Size(answer) == CASE answer = "one" -> 1 [] answer = "many" -> per_batch_limit [] OTHER -> 0

Ends(job, outcome) == [job EXCEPT !.at = "end", !.outcome = outcome]

\* What follows the last batch.
AfterReflection(job) ==
    IF job.pool = 0 THEN Ends(job, "no_change")
    ELSE IF job.pool <= MAX_FINAL_EDITS THEN [job EXCEPT !.at = "compile"]
    ELSE IF input.rank THEN [job EXCEPT !.at = "request", !.call = "rank"]
    ELSE Ends(job, "rejected")

\* select_development_detailed: strictly better in total and no pass lost.
select_development(report) == IF report = "better" THEN "candidate" ELSE "rejected"

\* What the answer of a call leads to, once it is recorded.
AfterAnswer(job) ==
    LET a == job.answer IN
    CASE a = "uncertain" -> [job EXCEPT !.at = IF job.call = "rank" THEN "complete" ELSE "end", !.outcome = "uncertain"]
      [] a = "rejected" -> IF job.call = "rank" THEN [job EXCEPT !.at = "complete", !.outcome = "step_error"]
                           ELSE Ends(job, "rejected")
      [] a # "uncertain" /\ a # "rejected" ->
           IF job.call = "dev" THEN Ends(job, select_development(a))
           ELSE IF job.call = "rank" THEN IF a \in {"one", "many"} THEN [job EXCEPT !.at = "compile"]
                                          ELSE [job EXCEPT !.at = "complete", !.outcome = "step_error"]
           ELSE LET pooled == [job EXCEPT !.pool = @ + Size(a)] IN
                IF job.call = "first" /\ input.batches = 2
                THEN [pooled EXCEPT !.at = "request", !.call = "second"] ELSE AfterReflection(pooled)

\* ResponseObserved or DevelopmentObserved.  An answer that is no list of suggestions
\* ends the step without one, and so does a report that is not of the request or does
\* not hold together.
respond(w) ==
    LET job == work[w] IN
    /\ job.at = "respond"
    /\ IF job.answer = "shape" /\ job.call # "rank"
       THEN work' = [work EXCEPT ![w].at = "complete", ![w].outcome = "rejected"] /\ JustMove
       ELSE IF job.answer = "mismatch" THEN Fail(w) /\ JustMove
       ELSE IF job.answer = "invalid" THEN work' = [work EXCEPT ![w] = Ends(job, "rejected")] /\ JustMove
       ELSE Commit(w, <<job.call, "ResponseObserved">>, job.answer, AfterAnswer(job))

\* The edit is compiled once; a later run of the step replays it.
compile_edit(w) ==
    LET job == work[w] IN
    /\ job.at = "compile"
    /\ IF input.edit = "changes"
       THEN Commit(w, Step("EditCompiled"), "compiled", [job EXCEPT !.at = "request", !.call = "dev"])
       ELSE work' = [work EXCEPT ![w] = Ends(job, IF input.edit = "same" THEN "no_change" ELSE "rejected")] /\ JustMove

\* The terminal fact of the stage that ended the step.
commit_terminal(w) ==
    /\ work[w].at = "end"
    /\ Commit(w, Step(work[w].outcome), work[w].call, [work[w] EXCEPT !.at = "complete"])

\* StepCompleted: the first outcome stands.
complete_step(w) ==
    LET key == Step("StepCompleted") IN
    /\ work[w].at = "complete"
    /\ journal' = IF live /\ Agrees(key, work[w].outcome) THEN Written(key, work[w].outcome) ELSE journal
    /\ work' = [work EXCEPT ![w] = Idle]
    /\ UNCHANGED <<input, sent, live, revoked, cleaned, faults>>

-----------------------------------------------------------------------------
(* What interrupts a step.                                                 *)

\* The process stops, between two transactions or while a call is out.
optimization_crash(w) ==
    /\ faults < MaxFaults /\ work[w].at # "idle"
    /\ faults' = faults + 1
    /\ sent' = IF work[w].at = "sent" THEN [sent EXCEPT ![work[w].call] = @ + 1] ELSE sent
    /\ work' = [work EXCEPT ![w] = Idle]
    /\ UNCHANGED <<input, journal, live, revoked, cleaned>>

\* A transaction of the step is refused by the store.
store_fails(w) ==
    /\ faults < MaxFaults /\ work[w].at \notin {"idle", "sent", "complete"}
    /\ faults' = faults + 1
    /\ Fail(w)
    /\ UNCHANGED <<input, journal, sent, live, revoked, cleaned>>

\* A run the step reads is revoked, or another source of the namespace is.
optimization_revoke ==
    /\ ~revoked
    /\ live' = FALSE /\ revoked' \in {revoked, TRUE}
    /\ UNCHANGED <<input, journal, sent, cleaned, work, faults>>

\* Cleanup takes the content of the facts that are there when it looks.
optimization_cleanup ==
    /\ revoked /\ ~cleaned
    /\ cleaned' = TRUE
    /\ journal' = [k \in DOMAIN journal |-> "redacted"]
    /\ UNCHANGED <<input, sent, live, revoked, work, faults>>

WorkerStep(w) ==
    \/ run_step(w) \/ prepare_step(w) \/ prepare_request(w) \/ look_observed(w) \/ look_claimed(w)
    \/ claim_call(w) \/ call_returns(w) \/ observe_call(w) \/ respond(w) \/ compile_edit(w)
    \/ commit_terminal(w) \/ complete_step(w)

OptimizationNext ==
    \/ \E w \in Workers : WorkerStep(w) \/ optimization_crash(w) \/ store_fails(w)
    \/ optimization_revoke \/ optimization_cleanup

\* The step is run again until it has its terminal, and every call returns.
OptimizationFairness == \A w \in Workers : WF_optimizationVars(WorkerStep(w))

OptimizationSpec == OptimizationInit /\ [][OptimizationNext]_optimizationVars /\ OptimizationFairness

-----------------------------------------------------------------------------
(* Properties.                                                             *)

Completed == Known(Step("StepCompleted"))
Ended == journal[Step("StepCompleted")]

\* However often the step is run, by however many workers, and wherever it was cut
\* off, no call of it goes out twice.
CallsOnce == \A c \in Calls : sent[c] <= 1

\* A step that ended with an answer of its own knows the outcome of every call that
\* went out: none is left without its observation.
EndedKnowsCalls ==
    Completed /\ Ended \in {"no_change", "rejected", "candidate"} =>
      \A c \in Calls : Known(<<c, "DispatchPrepared">>) => Known(<<c, "DispatchObserved">>)

\* A candidate rests on a compiled edit and an observed run it won, and on the answer
\* of every batch; cleanup may have taken their content.
CandidateHasEvidence ==
    Completed /\ Ended = "candidate" =>
      /\ Known(Step("EditCompiled")) /\ Known(Step("candidate"))
      /\ <<"dev", "ResponseObserved">> \in DOMAIN journal /\ journal[<<"dev", "ResponseObserved">>] \in {"better", "redacted"}
      /\ Known(<<"first", "ResponseObserved">>) /\ (input.batches = 2 => Known(<<"second", "ResponseObserved">>))

\* After the cleanup of a revoked run nothing a model said of it is stored, by a
\* worker that was waiting for the answer meanwhile either.
NothingKept == cleaned => \A k \in DOMAIN journal : journal[k] = "redacted" \/ k = <<"dev", "DispatchObserved">>

\* A fact is never written again; only cleanup takes its content.
FactsStand == [][\A k \in DOMAIN journal : journal'[k] \in {journal[k], "redacted"}]_optimizationVars

\* A step that began ends, as long as its sources stand.
StepEnds == Known(Step("StepPrepared")) ~> (Completed \/ ~live)

\* What holds of an optimization step in every state: no call goes out twice, an
\* ended step knows its calls, a candidate has its evidence, and after a cleanup
\* nothing a model said is kept.
OptimizationSafe ==
    /\ OptimizationTypeOK
    /\ CallsOnce
    /\ EndedKnowsCalls
    /\ CandidateHasEvidence
    /\ NothingKept
=============================================================================
