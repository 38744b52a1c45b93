----------------------------- MODULE Evaluation -----------------------------
(***************************************************************************)
(* Streaming evaluation (evo-engine streaming_evaluator.rs, evo-core       *)
(* holdout.rs and sequential.rs).                                          *)
(*                                                                         *)
(* A ticket freezes a candidate, a baseline and a slice of hidden targets. *)
(* Each target is executed once per side through a paid call, graded by an *)
(* independent evaluator, and scored.  The ticket ends with one report: a  *)
(* complete batch, an early stop with its certificate, or invalid.         *)
(* Receipts and gradings arrive in any order, before or after the end, and *)
(* the bill of a call may come last of all.                                *)
(*                                                                         *)
(* A call is "open" while its cost or the end of its execution is unknown  *)
(* (Dispatched, Uncertain, or Finalized and not closed).                   *)
(***************************************************************************)
EXTENDS Integers, FiniteSets, Sequences, SequencesExt

CONSTANTS
    Tickets,        \* ticket requests, all of one research family and root
    Rotating,       \* [Tickets -> Seq(cluster)]: the frozen order of the slice
    Anchors,        \* [Tickets -> SUBSET anchor ids]
    Attempt,        \* [Tickets -> attempt ids]: whose alpha claims it takes
    Calls,          \* paid calls
    Request,        \* [Calls -> [ticket, target, side]]: what its input digest is for
    Strays,         \* calls of a group that the caller sends without binding a slot
    Outputs,        \* the outputs the executions may have, a set of [Calls -> ...]
    MARGIN,         \* losses over wins at which a prefix confirms futility
    QUERY_LIMIT,    \* tickets a research family may issue
    MAX_LEASES,     \* calls that may be reserved or open
    None

Sides == {"candidate", "baseline"}
RotatingOf(t) == Range(Rotating[t])
Targets(t) == RotatingOf(t) \cup Anchors[t]
AllTargets == UNION {Targets(t) : t \in Tickets}

ASSUME EvaluationShape ==
    /\ \A t \in Tickets : Rotating[t] # <<>> /\ RotatingOf(t) \cap Anchors[t] = {}
    /\ \A c \in Calls : /\ Request[c].ticket \in Tickets
                        /\ Request[c].target \in Targets(Request[c].ticket)
                        /\ Request[c].side \in Sides
    /\ Strays \subseteq Calls
    /\ Outputs \subseteq [Calls -> {"right", "wrong", "broken"}]
    /\ MARGIN \in Nat \ {0} /\ QUERY_LIMIT \in Nat \ {0} /\ MAX_LEASES \in Nat \ {0}

VARIABLES
    controls,       \* registered evaluation controls, by ticket request
    holdouts,       \* registered protected holdouts
    issuing,        \* issues between the budget check and the commit
    eticket,        \* evaluation tickets
    exposure,       \* the entries of the research family's exposure ledger
    claims,         \* alpha claims reserved, by attempt: the ticket
    ecall,          \* paid calls
    output,         \* the outputs of the calls whose execution receipt is stored
    groupStopped,   \* stopped dispatch groups
    rootStopped,    \* the billing root is stopped
    stale,          \* a source was revoked since the candidates were frozen
    final,          \* a finalization that has read its ticket
    settling,       \* settlements that found every call closed
    report          \* formal reports, each with the ticket it pins

registration == <<controls, holdouts, issuing>>
evalVars == <<registration, eticket, exposure, claims, ecall, output,
              groupStopped, rootStopped, stale, final, settling, report>>

Stopping == {"draining", "early_stopped", "complete_batch", "invalid"}
Terminal == {"early_stopped", "complete_batch", "invalid"}
Lifecycle == {"reserved", "running", "ready_for_final"} \cup Stopping
TargetState == {"planned", "running", "usage_unknown", "cancelled", "completed", "not_dispatched"}
Started == {"running", "usage_unknown", "cancelled"}
ExposureState == {"absent", "reserved", "dispatched", "feedback_used"}
MoneyState == {"absent", "held", "released", "pending", "finalized"}
Reasons == {"critical_regression", "futility"}

receipts == {c \in Calls : output[c] # None}

Slot == [call : Calls, receipt : BOOLEAN]
Target == [state : TargetState, slot : [Sides -> Slot \cup {None}], score : [Sides -> {0, 1}], seq : Nat]
Certificate == [reason : Reasons, k : Nat, seq : Nat, uncertain : BOOLEAN]
TicketRecord(t) == [life : Lifecycle, target : [Targets(t) -> Target], next : Nat,
                    certificate : Certificate \cup {None}, lateExecution : SUBSET Calls,
                    lateGrading : SUBSET Targets(t), unattributed : SUBSET Calls,
                    reasons : SUBSET {"operator", "grading", "unattributed"}]

EvaluationTypeOK ==
    /\ controls \subseteq Tickets /\ holdouts \subseteq controls /\ issuing \subseteq holdouts
    /\ \A t \in Tickets : eticket[t] = None \/ eticket[t] \in TicketRecord(t)
    /\ exposure \in [Tickets -> [state : ExposureState, money : MoneyState]]
    /\ claims \in [Range(Attempt) -> Tickets \cup {None}]
    /\ ecall \in [Calls -> {"absent", "reserved", "open", "closed", "released"}]
    /\ output \in [Calls -> {"right", "wrong", "broken", None}]
    /\ receipts \subseteq {c \in Calls : ecall[c] \in {"open", "closed"}}
    /\ groupStopped \subseteq Tickets /\ settling \subseteq Tickets
    /\ rootStopped \in BOOLEAN /\ stale \in BOOLEAN

EvaluationInit ==
    /\ controls = {} /\ holdouts = {} /\ issuing = {}
    /\ eticket = [t \in Tickets |-> None]
    /\ exposure = [t \in Tickets |-> [state |-> "absent", money |-> "absent"]]
    /\ claims = [a \in Range(Attempt) |-> None]
    /\ ecall = [c \in Calls |-> "absent"]
    /\ output = [c \in Calls |-> None]
    /\ groupStopped = {}
    /\ rootStopped = FALSE /\ stale = FALSE
    /\ final = [t \in Tickets |-> None]
    /\ settling = {}
    /\ report = [t \in Tickets |-> None]

-----------------------------------------------------------------------------
(* Scores, prefixes and the sequential decision.                           *)

\* grade_fixed_output: a broken output cannot be graded.
Grade(c) == IF output[c] = "right" THEN 1 ELSE 0
Gradable(pair, anchor) ==
    /\ \A s \in Sides : output[pair[s]] # "broken"
    /\ anchor => output[pair["baseline"]] = "right"

Completed(tg) == {x \in DOMAIN tg : tg[x].state = "completed"}

\* The first k clusters of the frozen order are scored.
PrefixComplete(t, tg, k) == \A i \in 1..k : Rotating[t][i] \in Completed(tg)

Crosses(t, tg, k) ==
    LET wins(s, z) == Cardinality({i \in 1..k : /\ tg[Rotating[t][i]].score[s] = 1
                                                /\ tg[Rotating[t][i]].score[z] = 0})
    IN k > 0 /\ wins("baseline", "candidate") - wins("candidate", "baseline") >= MARGIN

\* Mistake: the clusters are counted as they come in, gaps and all.
StoppingPrefixAsReturned(t, tg) ==
    LET n == Cardinality(Completed(tg) \cap RotatingOf(t))
        losses == Cardinality({x \in Completed(tg) \cap RotatingOf(t) :
                                 tg[x].score["baseline"] > tg[x].score["candidate"]})
    IN IF losses >= MARGIN THEN n ELSE 0

\* SequentialRejectOnly: a unit waits for its gap, and every newly continuous
\* unit is tested by itself.  0 when no prefix crosses the boundary.
StoppingPrefix(t, tg) ==
    LET stops == {k \in 1..Len(Rotating[t]) : PrefixComplete(t, tg, k) /\ Crosses(t, tg, k)}
    IN IF stops = {} THEN 0 ELSE CHOOSE k \in stops : \A j \in stops : k <= j

CriticalRegression(t, tg, x) == x \in Anchors[t] /\ tg[x].score["candidate"] = 0

\* The stop that scoring target x brings, if any.
StopDecision(t, tg, x) ==
    IF CriticalRegression(t, tg, x) THEN [reason |-> "critical_regression", k |-> 0]
    ELSE IF StoppingPrefix(t, tg) # 0 THEN [reason |-> "futility", k |-> StoppingPrefix(t, tg)]
    ELSE None

anchors_passed(t, tg) == \A x \in Anchors[t] : tg[x].state = "completed" /\ tg[x].score["candidate"] = 1
rotating_complete(t, tg) == RotatingOf(t) \subseteq Completed(tg)

-----------------------------------------------------------------------------
(* Calls of a ticket's dispatch group, and what a stop does to them.       *)

GroupCalls(t) == {c \in Calls : Request[c].ticket = t /\ ecall[c] # "absent"}

SlotCalls(g) == {g.slot[s].call : s \in {z \in Sides : g.slot[z] # None}}
InStates(tg, states) == UNION {SlotCalls(tg[x]) : x \in {y \in DOMAIN tg : tg[y].state \in states}}
attributed(tg) == InStates(tg, Started \cup {"completed"})

Unattributed(t, tg) == GroupCalls(t) \ attributed(tg)

\* A running target ends by what became of its calls; the others keep theirs.
ClosedTarget(g) ==
    CASE g.state = "planned" -> [g EXCEPT !.state = "not_dispatched"]
      [] g.state = "running" /\ \E c \in SlotCalls(g) : ecall[c] = "open" -> [g EXCEPT !.state = "usage_unknown"]
      [] g.state = "running" /\ ~(\E c \in SlotCalls(g) : ecall[c] = "open") ->
           [g EXCEPT !.state = IF \E c \in SlotCalls(g) : ecall[c] = "closed" THEN "cancelled" ELSE "not_dispatched"]
      [] OTHER -> g

\* Whether usage is unknown at the stop: calls nobody answers for, and the calls
\* of the targets that were running.
UsageUncertain(t, tg) ==
    \/ \E c \in Unattributed(t, tg) : ecall[c] = "open"
    \/ \E x \in DOMAIN tg : tg[x].state = "running" /\ \E c \in SlotCalls(tg[x]) : ecall[c] = "open"

close_execution_slots(t, tk) ==
    LET stray == Unattributed(t, tk.target) IN
    [tk EXCEPT !.target = [x \in DOMAIN tk.target |-> ClosedTarget(tk.target[x])],
               !.unattributed = @ \cup stray,
               !.reasons = IF stray = {} THEN @ ELSE @ \cup {"unattributed"}]

\* Reserved calls are released by the stop.
ReleasedCalls(t) ==
    [c \in Calls |-> IF c \in GroupCalls(t) /\ ecall[c] = "reserved" THEN "released" ELSE ecall[c]]

WasDispatched(t) == \E c \in GroupCalls(t) : ecall[c] \in {"open", "closed"}

mark_exposure_dispatched(e) ==
    IF e.state = "reserved" /\ e.money = "held" THEN [state |-> "dispatched", money |-> "pending"] ELSE e

\* The exposure entry as the stop finds it.
ExposureAtStop(t) == IF WasDispatched(t) THEN mark_exposure_dispatched(exposure[t]) ELSE exposure[t]

mark_feedback_used(e) == IF e.state = "dispatched" THEN [e EXCEPT !.state = "feedback_used"] ELSE e

\* settle_exposure_money: the entry after it.
SettledExposure(e, uncertain) ==
    CASE e.state = "reserved" /\ e.money = "held" /\ ~uncertain -> [e EXCEPT !.money = "released"]
      [] e.state \in {"dispatched", "feedback_used"} /\ e.money = "pending" /\ ~uncertain ->
           [e EXCEPT !.money = "finalized"]
      [] OTHER -> e

settle_exposure_money(t, e, uncertain) ==
    /\ ~(e.state = "reserved" /\ e.money = "held" /\ uncertain)
    /\ exposure' = [exposure EXCEPT ![t] = SettledExposure(e, uncertain)]

-----------------------------------------------------------------------------
(* Reports.                                                                *)

Report(kind, tk) == [kind |-> kind, ticket |-> tk]

\* Every call of the group has ended, a scored one with its bill.
CallsEnded(t, tk, calls) ==
    /\ \A c \in Calls : Request[c].ticket = t => calls[c] \in {"absent", "closed", "released"}
    /\ \A x \in Completed(tk.target) : \A c \in SlotCalls(tk.target[x]) : calls[c] = "closed"

\* The targets have ended, and between them and the calls nobody bound they name
\* every call of the group.
CallsAccounted(t, tk) ==
    /\ \A x \in DOMAIN tk.target : tk.target[x].state \in {"completed", "cancelled", "not_dispatched"}
    /\ Completed(tk.target) # {}
    /\ GroupCalls(t) = attributed(tk.target) \cup InStates(tk.target, {"not_dispatched"}) \cup tk.unattributed

\* The last score stops the ticket, derived again, as the certificate says.
StopDerivedAgain(t, tk) ==
    LET last == CHOOSE x \in Completed(tk.target) : tk.target[x].seq = tk.next - 1
    IN /\ StopDecision(t, tk.target, last) = [reason |-> tk.certificate.reason, k |-> tk.certificate.k]
       /\ tk.certificate.seq = tk.next

\* validate_bound_early_certificate: the stop is derived again from the scores, and
\* every call of the group has ended, is accounted for and is paid.
BoundCertificate(t, tk, calls, e) ==
    /\ ~stale
    /\ tk.certificate # None /\ ~tk.certificate.uncertain
    /\ CallsEnded(t, tk, calls)
    /\ CallsAccounted(t, tk)
    /\ e = [state |-> "feedback_used", money |-> "finalized"]
    /\ StopDerivedAgain(t, tk)

\* An early stopped ticket gets its report again, for the ticket as it is now.
maybe_store_early_formal(t, tk, calls, e) ==
    IF tk.life = "early_stopped"
    THEN BoundCertificate(t, tk, calls, e) /\ report' = [report EXCEPT ![t] = Report("early_stopped", tk)]
    ELSE UNCHANGED report

\* stop_ticket: the ticket after a stop that scoring has decided.
Stopped(t, tk, decision) ==
    LET uncertain == UsageUncertain(t, tk.target)
        closed == close_execution_slots(t, tk)
    IN [closed EXCEPT
          !.certificate = [reason |-> decision.reason, k |-> decision.k, seq |-> tk.next, uncertain |-> uncertain],
          !.life = IF uncertain THEN "draining" ELSE "early_stopped"]

\* Mistake: the dispatch group is left open.
StopNothing(t) == UNCHANGED groupStopped

StopGroup(t) == groupStopped' = groupStopped \cup {t}

\* invalidate_in_session, for whatever the ticket was.
invalidate_in_session(t, reason, e) ==
    LET tk == eticket[t]
        invalid == [close_execution_slots(t, tk) EXCEPT !.life = "invalid", !.reasons = @ \cup {reason}]
    IN /\ StopGroup(t)
       /\ ecall' = ReleasedCalls(t)
       /\ eticket' = [eticket EXCEPT ![t] = invalid]
       /\ settle_exposure_money(t, e, UsageUncertain(t, tk.target))
       /\ report' = [report EXCEPT ![t] = Report("invalid", invalid)]

-----------------------------------------------------------------------------
(* Registration and issue.                                                 *)

\* validate_root_budget of the registered billing scope.
RootAllows == ~rootStopped

register_current_control(t) ==
    /\ t \notin controls
    /\ RootAllows
    /\ controls' = controls \cup {t}
    /\ UNCHANGED <<holdouts, issuing, eticket, exposure, claims, ecall, output,
                   groupStopped, rootStopped, stale, final, settling, report>>

register_current_holdout(t) ==
    /\ t \in controls /\ t \notin holdouts
    /\ holdouts' = holdouts \cup {t}
    /\ UNCHANGED <<controls, issuing, eticket, exposure, claims, ecall, output,
                   groupStopped, rootStopped, stale, final, settling, report>>

\* First session and budget check of an issue.
issue_ticket_check(t) ==
    /\ t \in holdouts /\ t \notin issuing /\ eticket[t] = None
    /\ RootAllows
    /\ issuing' = issuing \cup {t}
    /\ UNCHANGED <<controls, holdouts, eticket, exposure, claims, ecall, output,
                   groupStopped, rootStopped, stale, final, settling, report>>

\* ExposureLedger::reserve: the family's query limit, and no cluster twice.
ExposureReservable(t) ==
    /\ exposure[t].state = "absent"
    /\ Cardinality({u \in Tickets : exposure[u].state # "absent"}) < QUERY_LIMIT
    /\ \A u \in Tickets : exposure[u].state # "absent" => RotatingOf(u) \cap RotatingOf(t) = {}

NewTarget == [state |-> "planned", slot |-> [s \in Sides |-> None], score |-> [s \in Sides |-> 0], seq |-> 0]
NewTicket(t) == [life |-> "reserved", target |-> [x \in Targets(t) |-> NewTarget], next |-> 1,
                 certificate |-> None, lateExecution |-> {}, lateGrading |-> {},
                 unattributed |-> {}, reasons |-> {}]

\* bind_candidate_record_in_session: the candidate stands as it was frozen.
CandidateStands == ~stale

Issuable(t) ==
    CandidateStands /\ eticket[t] = None /\ ExposureReservable(t) /\ claims[Attempt[t]] = None

\* The ticket, its exposure and its alpha claim, in one commit.
IssueWrites(t) ==
    /\ eticket' = [eticket EXCEPT ![t] = NewTicket(t)]
    /\ exposure' = [exposure EXCEPT ![t] = [state |-> "reserved", money |-> "held"]]
    /\ claims' = [claims EXCEPT ![Attempt[t]] = t]

issue_ticket(t) ==
    /\ t \in issuing
    /\ issuing' = issuing \ {t}
    /\ \/ Issuable(t) /\ IssueWrites(t)
       \/ ~Issuable(t) /\ UNCHANGED <<eticket, exposure, claims>>
    /\ UNCHANGED <<controls, holdouts, ecall, output, groupStopped, rootStopped,
                   stale, final, settling, report>>

-----------------------------------------------------------------------------
(* The paid calls, as the broker and the ledger move them.                 *)

onlyCalls == <<registration, eticket, exposure, claims, output, groupStopped,
               rootStopped, stale, final, settling, report>>

reserve_budget_call(c) ==
    /\ eticket[Request[c].ticket] # None
    /\ ecall[c] = "absent"
    /\ ~rootStopped /\ Request[c].ticket \notin groupStopped
    /\ Cardinality({d \in Calls : ecall[d] \in {"reserved", "open"}}) < MAX_LEASES
    /\ ecall' = [ecall EXCEPT ![c] = "reserved"]
    /\ UNCHANGED onlyCalls

\* One call of a root at a time, and neither root nor group stopped.
Dispatchable(c) ==
    /\ ecall[c] = "reserved"
    /\ ~rootStopped /\ Request[c].ticket \notin groupStopped
    /\ \A d \in Calls : ecall[d] # "open"

\* A call of the group that no ticket slot was bound to.
begin_budget_dispatch(c) ==
    /\ c \in Strays
    /\ Dispatchable(c)
    /\ ecall' = [ecall EXCEPT ![c] = "open"]
    /\ UNCHANGED onlyCalls

close_budget_call(c) ==
    /\ ecall[c] = "open"
    /\ ecall' = [ecall EXCEPT ![c] = "closed"]
    /\ UNCHANGED onlyCalls

stop_root ==
    /\ ~rootStopped
    /\ rootStopped' = TRUE
    /\ UNCHANGED <<registration, eticket, exposure, claims, ecall, output,
                   groupStopped, stale, final, settling, report>>

\* A source of the namespace is revoked: the watermark every binding holds moves.
revoke_source ==
    /\ ~stale
    /\ stale' = TRUE
    /\ UNCHANGED <<registration, eticket, exposure, claims, ecall, output,
                   groupStopped, rootStopped, final, settling, report>>

-----------------------------------------------------------------------------
(* Executions.                                                             *)

\* The candidate binding, edges and closure of a live ticket.
validate_status_closure == ~stale

Bound(tk, c) ==
    [tk EXCEPT !.life = "running",
               !.target[Request[c].target] =
                 [@ EXCEPT !.state = "running", !.slot[Request[c].side] = [call |-> c, receipt |-> FALSE]]]

BindableSlot(g, side) == g.state \in {"planned", "running"} /\ g.slot[side] = None

\* Slot and dispatch are one transaction, and so is the exposure it causes.
start_execution(c) ==
    LET t == Request[c].ticket IN
    /\ eticket[t] # None /\ eticket[t].life \notin Stopping
    /\ validate_status_closure
    /\ BindableSlot(eticket[t].target[Request[c].target], Request[c].side)
    /\ Dispatchable(c)
    /\ ecall' = [ecall EXCEPT ![c] = "open"]
    /\ eticket' = [eticket EXCEPT ![t] = Bound(@, c)]
    /\ exposure' = [exposure EXCEPT ![t] = mark_exposure_dispatched(@)]
    /\ UNCHANGED <<registration, claims, output, groupStopped, rootStopped, stale,
                   final, settling, report>>

StartedSlot(g, c) ==
    g.state \in Started /\ g.slot[Request[c].side] # None /\ g.slot[Request[c].side].call = c

\* A receipt for a live ticket joins its slot; for a stopped one it is kept late,
\* and for an invalid one beside the ticket.
WithReceipt(tk, c) ==
    IF tk.life \in Stopping THEN [tk EXCEPT !.lateExecution = @ \cup {c}]
    ELSE [tk EXCEPT !.life = "running", !.target[Request[c].target].slot[Request[c].side].receipt = TRUE]

\* The executions received so far leave these open.
PossibleOutputs == {f \in Outputs : \A c \in receipts : f[c] = output[c]}

\* The call was sent for this member of the ticket and has no receipt yet.
ReceiptAdmitted(c) ==
    LET t == Request[c].ticket
    IN /\ eticket[t] # None
       /\ eticket[t].life \notin Stopping => validate_status_closure
       /\ c \notin receipts /\ ecall[c] \in {"open", "closed"}
       /\ StartedSlot(eticket[t].target[Request[c].target], c)

record_execution_receipt(c) ==
    LET t == Request[c].ticket
        tk == WithReceipt(eticket[t], c)
    IN /\ ReceiptAdmitted(c)
       /\ \E f \in PossibleOutputs : output' = [output EXCEPT ![c] = f[c]]
       /\ \/ eticket[t].life = "invalid" /\ UNCHANGED <<eticket, report>>
          \/ /\ eticket[t].life # "invalid"
             /\ eticket' = [eticket EXCEPT ![t] = tk]
             /\ maybe_store_early_formal(t, tk, ecall, exposure[t])
       /\ UNCHANGED <<registration, exposure, claims, ecall, groupStopped, rootStopped, stale, final, settling>>

-----------------------------------------------------------------------------
(* Gradings.                                                               *)

\* validate_execution_pair: stored receipts of both sides.
Pair(t, x) == [s \in Sides |-> eticket[t].target[x].slot[s].call]
HasPair(t, x) ==
    \A s \in Sides : /\ eticket[t].target[x].slot[s] # None
                     /\ eticket[t].target[x].slot[s].call \in receipts

\* The report of the target is final: the grading is kept as evidence only.
late_grading_after_final_report(t, x) ==
    \/ eticket[t].life \in {"complete_batch", "invalid"}
    \/ eticket[t].life = "early_stopped" /\ eticket[t].target[x].state = "completed"

\* A delayed grading error cannot replace a confirmed stop.
preserve_confirmed_stop(t) == eticket[t].life \in {"draining", "early_stopped"}

GraderMayAsk(t, x) ==
    /\ eticket[t] # None /\ x \in Targets(t)
    /\ eticket[t].life \notin Stopping => validate_status_closure
    /\ HasPair(t, x)

FeedbackAllowed(t) == exposure[t].state \in {"dispatched", "feedback_used"}

Scored(t, x) ==
    [eticket[t] EXCEPT !.next = @ + 1,
                       !.target[x] = [@ EXCEPT !.state = "completed", !.seq = eticket[t].next,
                                               !.score = [s \in Sides |-> Grade(Pair(t, x)[s])]]]

Ready(t, tk) == rotating_complete(t, tk.target) /\ anchors_passed(t, tk.target)

notGraded == <<registration, claims, output, rootStopped, stale, final, settling>>

\* Outputs that cannot be graded, or a baseline that fails its anchor.
grade_refused(t, x) ==
    /\ GraderMayAsk(t, x)
    /\ ~Gradable(Pair(t, x), x \in Anchors[t])
    /\ ~late_grading_after_final_report(t, x) /\ ~preserve_confirmed_stop(t)
    /\ invalidate_in_session(t, "grading", ExposureAtStop(t))
    /\ UNCHANGED notGraded

grade_after_final(t, x) ==
    /\ GraderMayAsk(t, x)
    /\ Gradable(Pair(t, x), x \in Anchors[t])
    /\ late_grading_after_final_report(t, x)
    /\ FeedbackAllowed(t)
    /\ exposure' = [exposure EXCEPT ![t] = mark_feedback_used(@)]
    /\ UNCHANGED <<notGraded, eticket, ecall, groupStopped, report>>

grade_late(t, x) ==
    LET tk == [eticket[t] EXCEPT !.lateGrading = @ \cup {x}]
        e == mark_feedback_used(exposure[t])
    IN /\ GraderMayAsk(t, x)
       /\ Gradable(Pair(t, x), x \in Anchors[t])
       /\ eticket[t].life \in Stopping /\ ~late_grading_after_final_report(t, x)
       /\ FeedbackAllowed(t)
       /\ eticket' = [eticket EXCEPT ![t] = tk]
       /\ exposure' = [exposure EXCEPT ![t] = e]
       /\ maybe_store_early_formal(t, tk, ecall, e)
       /\ UNCHANGED <<notGraded, ecall, groupStopped>>

\* A score is written once, for a target whose receipts its ticket holds.
ScoreAllowed(t, x) ==
    /\ eticket[t].life \notin Stopping
    /\ eticket[t].target[x].state = "running"
    /\ \A s \in Sides : eticket[t].target[x].slot[s].receipt

grade_target(t, x) ==
    LET tk == Scored(t, x)
        decision == StopDecision(t, tk.target, x)
        uncertain == UsageUncertain(t, tk.target)
        e == mark_feedback_used(exposure[t])
    IN /\ GraderMayAsk(t, x)
       /\ Gradable(Pair(t, x), x \in Anchors[t])
       /\ ScoreAllowed(t, x) /\ FeedbackAllowed(t)
       /\ \/ /\ decision # None
             /\ eticket' = [eticket EXCEPT ![t] = Stopped(t, tk, decision)]
             /\ StopGroup(t)
             /\ ecall' = ReleasedCalls(t)
             /\ settle_exposure_money(t, e, uncertain)
             /\ maybe_store_early_formal(t, eticket'[t], ecall', exposure'[t])
          \/ /\ decision = None
             /\ eticket' = [eticket EXCEPT ![t] = IF Ready(t, tk) THEN [tk EXCEPT !.life = "ready_for_final"] ELSE tk]
             /\ exposure' = [exposure EXCEPT ![t] = e]
             /\ UNCHANGED <<ecall, groupStopped, report>>
       /\ UNCHANGED notGraded

-----------------------------------------------------------------------------
(* Ends.                                                                   *)

\* Finalized usage of every execution the ticket answers for.
UsageFinal(tk) == \A c \in attributed(tk.target) : ecall[c] = "closed"

finalize_read(t) ==
    /\ eticket[t] # None /\ eticket[t].life = "ready_for_final"
    /\ final[t] = None
    /\ UsageFinal(eticket[t])
    /\ final' = [final EXCEPT ![t] = eticket[t]]
    /\ UNCHANGED <<registration, eticket, exposure, claims, ecall, output,
                   groupStopped, rootStopped, stale, settling, report>>

\* The calls of the group are the calls of the targets.
AllAttributed(t) == GroupCalls(t) = attributed(eticket[t].target)

\* What was read for the report still holds when it is committed.
StillFinal(t) == final[t] = eticket[t] /\ validate_status_closure /\ UsageFinal(eticket[t])

\* The commit reads the ticket again; a stray call of the group makes it invalid.
finalize_complete(t) ==
    LET tk == [eticket[t] EXCEPT !.life = "complete_batch"] IN
    /\ final[t] # None
    /\ final' = [final EXCEPT ![t] = None]
    /\ \/ /\ StillFinal(t) /\ AllAttributed(t)
          /\ StopGroup(t)
          /\ settle_exposure_money(t, exposure[t], FALSE)
          /\ eticket' = [eticket EXCEPT ![t] = tk]
          /\ report' = [report EXCEPT ![t] = Report("complete_batch", tk)]
          /\ UNCHANGED ecall
       \/ /\ StillFinal(t) /\ ~AllAttributed(t)
          /\ invalidate_in_session(t, "unattributed", ExposureAtStop(t))
       \/ /\ ~StillFinal(t)
          /\ UNCHANGED <<eticket, ecall, exposure, groupStopped, report>>
    /\ UNCHANGED <<registration, claims, output, rootStopped, stale, settling>>

invalidate(t) ==
    /\ eticket[t] # None
    /\ invalidate_in_session(t, "operator", ExposureAtStop(t))
    /\ UNCHANGED notGraded

\* settle_after_stop looks at the calls first, in sessions of their own.
UsageKnown(tk) ==
    \A c \in InStates(tk.target, {"usage_unknown"}) \cup tk.unattributed : ecall[c] # "open"

settle_after_stop_read(t) ==
    /\ eticket[t] # None /\ eticket[t].life = "draining"
    /\ t \notin settling
    /\ UsageKnown(eticket[t])
    /\ settling' = settling \cup {t}
    /\ UNCHANGED <<registration, eticket, exposure, claims, ecall, output,
                   groupStopped, rootStopped, stale, final, report>>

\* Mistake: the certificate is reconciled and the targets are not.
ReconciledWithoutTargets(tk) == [tk EXCEPT !.life = "early_stopped", !.certificate.uncertain = FALSE]

Reconciled(tk) ==
    [tk EXCEPT !.life = "early_stopped", !.certificate.uncertain = FALSE,
               !.target = [x \in DOMAIN tk.target |-> IF tk.target[x].state = "usage_unknown"
                                                       THEN [tk.target[x] EXCEPT !.state = "cancelled"]
                                                       ELSE tk.target[x]]]

settle_after_stop(t) ==
    LET tk == Reconciled(eticket[t])
        e == SettledExposure(exposure[t], FALSE)
        reportable == BoundCertificate(t, tk, ecall, e)
    IN
    /\ t \in settling
    /\ settling' = settling \ {t}
    /\ \/ /\ eticket[t].life = "draining" /\ "unattributed" \in eticket[t].reasons
          /\ invalidate_in_session(t, "unattributed", ExposureAtStop(t))
       \/ /\ eticket[t].life = "draining" /\ "unattributed" \notin eticket[t].reasons
          /\ reportable
          /\ eticket' = [eticket EXCEPT ![t] = tk]
          /\ exposure' = [exposure EXCEPT ![t] = e]
          /\ maybe_store_early_formal(t, tk, ecall, e)
          /\ UNCHANGED <<ecall, groupStopped>>
       \/ /\ \/ eticket[t].life # "draining"
             \/ "unattributed" \notin eticket[t].reasons /\ ~reportable
          /\ UNCHANGED <<eticket, ecall, exposure, groupStopped, report>>
    /\ UNCHANGED <<registration, claims, output, rootStopped, stale, final>>

-----------------------------------------------------------------------------
(* What a reader of a stored report verifies again.                        *)

\* validate_completed_target_evidence: the score is that of the stored outputs.
CompletedTargetEvidence(t, x) ==
    /\ eticket[t].target[x].state = "completed"
    /\ HasPair(t, x) /\ Gradable(Pair(t, x), x \in Anchors[t])
    /\ \A s \in Sides : eticket[t].target[x].score[s] = Grade(Pair(t, x)[s])

\* The certificate is among the scored targets and follows from them.
EarlyStopClosure(t) ==
    /\ eticket[t].life = "early_stopped"
    /\ \A x \in Completed(eticket[t].target) : CompletedTargetEvidence(t, x)
    /\ BoundCertificate(t, eticket[t], ecall, exposure[t])

\* No call pays for two executions.
CallsDistinct(t) ==
    \A x, y \in Targets(t), r, s \in Sides : <<x, r>> # <<y, s>> => Pair(t, x)[r] # Pair(t, y)[s]

\* The stored and the actual calls of the group are those of the receipts.
ResourceEvidence(t) == CallsDistinct(t) /\ AllAttributed(t) /\ UsageFinal(eticket[t])

\* Every target was scored, in a sequence without gaps.
ScoresInSequence(t) ==
    /\ \A x \in Targets(t) : CompletedTargetEvidence(t, x)
    /\ {eticket[t].target[x].seq : x \in Targets(t)} = 1..Cardinality(Targets(t))
    /\ eticket[t].next = Cardinality(Targets(t)) + 1

\* rebuild_stream: the scores, taken again, reach the end of the plan.
StreamReachesEnd(t) == StoppingPrefix(t, eticket[t].target) = 0

recompute_bound_complete_report(t) ==
    anchors_passed(t, eticket[t].target) /\ ScoresInSequence(t) /\ StreamReachesEnd(t)

CompleteClosure(t) ==
    /\ eticket[t].life = "complete_batch"
    /\ ResourceEvidence(t) /\ recompute_bound_complete_report(t)

InvalidClosure(t) == eticket[t].life = "invalid" /\ eticket[t].reasons # {}

\* A report is about its ticket as it is, and its evidence is derived again.
read_verified_formal_report(t) ==
    /\ report[t] # None /\ report[t].ticket = eticket[t] /\ validate_status_closure
    /\ \/ report[t].kind = "early_stopped" /\ EarlyStopClosure(t)
       \/ report[t].kind = "complete_batch" /\ CompleteClosure(t)
       \/ report[t].kind = "invalid" /\ InvalidClosure(t)

EvaluationNext ==
    \/ \E t \in Tickets :
         \/ register_current_control(t) \/ register_current_holdout(t)
         \/ issue_ticket_check(t) \/ issue_ticket(t)
         \/ finalize_read(t) \/ finalize_complete(t) \/ invalidate(t)
         \/ settle_after_stop_read(t) \/ settle_after_stop(t)
         \/ \E x \in AllTargets : grade_refused(t, x) \/ grade_after_final(t, x) \/ grade_late(t, x) \/ grade_target(t, x)
    \/ \E c \in Calls :
         \/ reserve_budget_call(c) \/ begin_budget_dispatch(c) \/ close_budget_call(c)
         \/ start_execution(c) \/ record_execution_receipt(c)
    \/ stop_root \/ revoke_source

EvaluationSpec == EvaluationInit /\ [][EvaluationNext]_evalVars

-----------------------------------------------------------------------------
(* Properties.                                                             *)

\* The research family's ledger can be restored (ExposureLedger::validate_restore):
\* its tickets keep to the query limit, no two hold the same cluster, and money
\* and exposure move together.
LedgerRestores ==
    LET held == {t \in Tickets : exposure[t].state # "absent"} IN
    /\ Cardinality(held) <= QUERY_LIMIT
    /\ \A t, u \in held : t # u => RotatingOf(t) \cap RotatingOf(u) = {}
    /\ \A t \in held : exposure[t].money \in
         (IF exposure[t].state = "reserved" THEN {"held", "released"} ELSE {"pending", "finalized"})
    /\ \A t \in Tickets : eticket[t] # None <=> t \in held

\* Exposure money given back was never used: no call of the group was ever sent,
\* bound to a slot or not (settle_exposure_money after mark_exposure_dispatched).
ReleasedWasNeverSent ==
    \A t \in Tickets : exposure[t].money = "released" => ~WasDispatched(t)

\* A ticket has a report exactly when it has ended, and the report is about the
\* ticket as it is now, late receipts and gradings included.
ReportPinsTicket ==
    \A t \in Tickets :
      LET ended == eticket[t] # None /\ eticket[t].life \in Terminal IN
      /\ (report[t] # None) <=> ended
      /\ ended => report[t] = Report(eticket[t].life, eticket[t])

\* A futility stop names the least prefix of the frozen order that crosses the
\* boundary, whatever the order in which the clusters came back.
StopIsOrderFree ==
    \A t \in Tickets :
      LET tk == eticket[t] IN
      (tk # None /\ tk.certificate # None /\ tk.certificate.reason = "futility") =>
        /\ tk.certificate.k \in 1..Len(Rotating[t])
        /\ PrefixComplete(t, tk.target, tk.certificate.k) /\ Crosses(t, tk.target, tk.certificate.k)
        /\ \A k \in 1..(tk.certificate.k - 1) : ~Crosses(t, tk.target, k)

\* A complete batch scored every target, passed its anchors, never met the
\* boundary, and answers for every call of its group, each ended and paid.
CompleteIsAccounted ==
    \A t \in Tickets :
      (report[t] # None /\ report[t].kind = "complete_batch") =>
        LET tk == eticket[t] IN
        /\ Completed(tk.target) = Targets(t) /\ anchors_passed(t, tk.target)
        /\ StoppingPrefix(t, tk.target) = 0
        /\ \A c \in GroupCalls(t) : c \in attributed(tk.target) /\ ecall[c] = "closed"

\* An early stop is reported only once no call of its group can still cost.
EarlyStopIsPaid ==
    \A t \in Tickets :
      (report[t] # None /\ report[t].kind = "early_stopped") =>
        /\ \A c \in GroupCalls(t) : ecall[c] \in {"closed", "released"}
        /\ exposure[t].money = "finalized"

\* A stored report can be read: late receipts, gradings, bills and settlements
\* never leave a ticket whose report no longer verifies against them, as long as
\* no source is revoked (read_verified_original_formal_report_core).
ReportVerifies ==
    \A t \in Tickets : (report[t] # None /\ ~stale) => read_verified_formal_report(t)

\* The score of a target stands once it is written, and so does the stop decided
\* on it: a late receipt, grading, settlement or invalidation changes neither.
DecisionStands ==
    [][\A t \in Tickets : eticket[t] # None =>
         /\ \A x \in Completed(eticket[t].target) : eticket'[t].target[x] = eticket[t].target[x]
         /\ eticket[t].certificate # None =>
              eticket'[t].certificate \in {eticket[t].certificate,
                                           [eticket[t].certificate EXCEPT !.uncertain = FALSE]}]_evalVars

\* No call of a ticket is sent once the ticket is stopping or has ended.
NothingSentAfterStop ==
    [][\A c \in Calls : LET tk == eticket[Request[c].ticket] IN
         (ecall[c] # "open" /\ ecall'[c] = "open") => tk # None /\ tk.life \notin Stopping]_evalVars

\* The broker ends every call it has sent, and a draining ticket is settled again
\* after each reconciliation.
EvaluationFairness ==
    /\ \A c \in Calls : WF_evalVars(close_budget_call(c))
    /\ \A t \in Tickets : WF_evalVars(settle_after_stop_read(t)) /\ WF_evalVars(settle_after_stop(t))

\* A stopped ticket whose calls were still running reaches its report, unless a
\* source of the namespace is revoked meanwhile.
DrainingEnds ==
    \A t \in Tickets :
      (eticket[t] # None /\ eticket[t].life = "draining") ~>
        (stale \/ (eticket[t] # None /\ eticket[t].life \in Terminal /\ report[t] # None))

\* The ledger of exposures, the tickets and their reports agree whatever order
\* calls, receipts, gradings, stops and settlements come in.
EvaluationSafe ==
    /\ EvaluationTypeOK
    /\ LedgerRestores
    /\ ReleasedWasNeverSent
    /\ ReportPinsTicket
    /\ StopIsOrderFree
    /\ CompleteIsAccounted
    /\ EarlyStopIsPaid
    /\ ReportVerifies

\* What is decided stands, and nothing is sent for a ticket once it is stopping.
EvaluationStands == DecisionStands /\ NothingSentAfterStop
=============================================================================
