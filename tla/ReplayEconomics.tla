-------------------------- MODULE ReplayEconomics --------------------------
(***************************************************************************)
(* What a replay experiment costs (evo-engine replay_experiment.rs,        *)
(* evo-core replay_economics.rs).                                          *)
(*                                                                         *)
(* An experiment is preregistered over sources at a revocation watermark.  *)
(* A job is started over it, cost receipts are collected from calls of the *)
(* root ledger and from an administrator, and one report is built.         *)
(* Starting, capturing a cost and building a report each read in one       *)
(* transaction and write in a later one; calls, receipts, cancellations    *)
(* and revocations move in between.                                        *)
(*                                                                         *)
(* One evaluator and one experiment.  A receipt is named by its call, an   *)
(* administrator's by an id of his choice.                                 *)
(***************************************************************************)
EXTENDS Common

CONSTANTS
    EcoKeys,        \* start keys, one job each
    EcoSeqs,        \* created_seq of a start request
    EcoCalls,       \* calls of the ledger
    AdminIds,       \* receipt ids the administrator uses
    EcoCosts,       \* amounts
    EcoProcs,       \* requests in progress
    EcoMarks        \* bound: revocation watermarks

ASSUME EconomicsShape ==
    /\ EcoMarks \in Nat \ {0} /\ EcoCosts \subseteq Nat /\ EcoSeqs \subseteq Nat \ {0}
    /\ EcoCalls \cap AdminIds = {}

VARIABLES
    ecoMark,        \* the revocation watermark
    experiment,     \* the watermark the experiment is registered at, or None
    ecoJobs, ecoReceipts, ecoReports,
    ecoCall,        \* the calls, as the ledger has them
    ecoProc         \* what each request has read

ecovars == <<ecoMark, experiment, ecoJobs, ecoReceipts, ecoReports, ecoCall, ecoProc>>

EcoIds == EcoCalls \cup AdminIds
Amounts == EcoCosts \cup {0}
CallStates == {"reserved", "released", "dispatched", "uncertain", "finalized", "closed"}
IdleRequest == [at |-> "idle", key |-> None, seq |-> 0, id |-> None, job |-> None, receipt |-> None, receipts |-> None]

economics_init ==
    /\ ecoMark = 1 /\ experiment = None
    /\ ecoJobs = [k \in EcoKeys |-> None]
    /\ ecoReceipts = [i \in EcoIds |-> None] /\ ecoReports = {}
    /\ ecoCall = [c \in EcoCalls |-> [state |-> "reserved", cost |-> 0]]
    /\ ecoProc = [p \in EcoProcs |-> IdleRequest]

\* verify_experiment_sources and load_live_selection: the sources and the
\* selection report stand while the watermark does.
InputsStand == experiment = ecoMark

-----------------------------------------------------------------------------
(* The arithmetic of compute_economics.                                    *)

\* What the receipts allow to be said.
compute_economics(rs) ==
    IF \E r \in rs : r.state = "usage_uncertain" THEN "usage_uncertain"
    ELSE IF rs = {} \/ \E r \in rs : r.state = "unsupported_measurement" THEN "blocked"
    ELSE "complete"

net_saving(tasks, difference, completed, one_time) == (tasks * difference) \div completed - one_time

break_even_tasks(one_time, difference, completed) == (one_time * completed + difference - 1) \div difference

-----------------------------------------------------------------------------
(* The ledger, the administrator of sources.                               *)

\* A call moves on; its cost is known when it is final, and its receipt may
\* be taken for final when the execution is closed too.
budget_call_moves(c, s, cost) ==
    /\ <<ecoCall[c].state, s>> \in {<<"reserved", "released">>, <<"reserved", "dispatched">>, <<"dispatched", "uncertain">>,
                                   <<"dispatched", "finalized">>, <<"uncertain", "finalized">>, <<"finalized", "closed">>}
    /\ IF s = "finalized" THEN cost \in EcoCosts ELSE cost = ecoCall[c].cost
    /\ ecoCall' = [ecoCall EXCEPT ![c] = [state |-> s, cost |-> cost]]
    /\ UNCHANGED <<ecoMark, experiment, ecoJobs, ecoReceipts, ecoReports, ecoProc>>

economics_revoke == /\ ecoMark < EcoMarks
                 /\ ecoMark' = ecoMark + 1
                 /\ UNCHANGED <<experiment, ecoJobs, ecoReceipts, ecoReports, ecoCall, ecoProc>>

-----------------------------------------------------------------------------
(* Registration, start, cancellation.                                      *)

register_experiment == /\ experiment = None
                       /\ experiment' = ecoMark
                       /\ UNCHANGED <<ecoMark, ecoJobs, ecoReceipts, ecoReports, ecoCall, ecoProc>>

Request(p, r) == ecoProc' = [ecoProc EXCEPT ![p] = r]

\* A known key answers with its job, or refuses another input.
start(p, k, n) == /\ ecoProc[p].at = "idle" /\ InputsStand /\ ecoJobs[k] = None
                  /\ Request(p, [IdleRequest EXCEPT !.at = "starting", !.key = k, !.seq = n])
                  /\ UNCHANGED <<ecoMark, experiment, ecoJobs, ecoReceipts, ecoReports, ecoCall>>

NewJob(n) == [seq |-> n, state |-> "blocked_support", receipts |-> {}, report |-> None, reason |-> None]

StartWrites(p) == /\ ecoJobs' = [ecoJobs EXCEPT ![ecoProc[p].key] = NewJob(ecoProc[p].seq)]
                  /\ Request(p, IdleRequest)
                  /\ UNCHANGED <<ecoMark, experiment, ecoReceipts, ecoReports, ecoCall>>

write_started_job(p) ==
    /\ ecoProc[p].at = "starting"
    /\ IF InputsStand /\ ecoJobs[ecoProc[p].key] = None
       THEN StartWrites(p)
       ELSE Request(p, IdleRequest) /\ UNCHANGED <<ecoMark, experiment, ecoJobs, ecoReceipts, ecoReports, ecoCall>>

cancel_job(k, reason) == /\ ecoJobs[k] # None /\ ecoJobs[k].state # "cancelled"
                         /\ ecoJobs' = [ecoJobs EXCEPT ![k].state = "cancelled", ![k].reason = reason]
                         /\ UNCHANGED <<ecoMark, experiment, ecoReceipts, ecoReports, ecoCall, ecoProc>>

-----------------------------------------------------------------------------
(* Cost receipts.                                                          *)

CostReceipt(state, amount, of) == [state |-> state, amount |-> amount, of |-> of]

\* Mistake: a finalized call whose execution is open counts as final.
measure_finalized(call) ==
    CASE call.state \in {"finalized", "closed"} -> CostReceipt("known_final", call.cost, call)
      [] call.state = "released" -> CostReceipt("not_incurred", 0, call)
      [] call.state = "reserved" -> CostReceipt("unsupported_measurement", 0, call)
      [] OTHER -> CostReceipt("usage_uncertain", 0, call)
measure_cost(call) ==
    CASE call.state = "closed" -> CostReceipt("known_final", call.cost, call)
      [] call.state = "released" -> CostReceipt("not_incurred", 0, call)
      [] call.state = "reserved" -> CostReceipt("unsupported_measurement", 0, call)
      [] OTHER -> CostReceipt("usage_uncertain", 0, call)

\* The call is read before the session that stores its receipt.
record_budget_cost(p, k, c) ==
    /\ ecoProc[p].at = "idle" /\ ecoJobs[k] # None
    /\ Request(p, [IdleRequest EXCEPT !.at = "measured", !.key = k, !.id = c, !.receipt = measure_cost(ecoCall[c])])
    /\ UNCHANGED <<ecoMark, experiment, ecoJobs, ecoReceipts, ecoReports, ecoCall>>

register_admin_cost(p, k, i, amount) ==
    /\ ecoProc[p].at = "idle" /\ ecoJobs[k] # None
    /\ Request(p, [IdleRequest EXCEPT !.at = "measured", !.key = k, !.id = i, !.receipt = CostReceipt("known_final", amount, None)])
    /\ UNCHANGED <<ecoMark, experiment, ecoJobs, ecoReceipts, ecoReports, ecoCall>>

MayRefresh(old, new) == old.of # None /\ old.state = "usage_uncertain" /\ new.state = "known_final"

\* One audited source has one receipt id in a job.
SourceTaken(job, i) == i \in AdminIds /\ \E other \in job.receipts \cap AdminIds : other # i

\* A receipt that is there is answered, refreshed or refused; it is not put
\* into the index of the job that asks.
persist_cost_receipt(p) ==
    /\ ecoProc[p].at = "measured"
    /\ LET k == ecoProc[p].key
           i == ecoProc[p].id
           new == ecoProc[p].receipt
           job == ecoJobs[k] IN
       IF SourceTaken(job, i) THEN UNCHANGED <<ecoReceipts, ecoJobs>>
       ELSE IF ecoReceipts[i] # None
       THEN /\ ecoReceipts' = IF MayRefresh(ecoReceipts[i], new) THEN [ecoReceipts EXCEPT ![i] = new] ELSE ecoReceipts
            /\ UNCHANGED ecoJobs
       ELSE /\ ecoReceipts' = [ecoReceipts EXCEPT ![i] = new]
            /\ ecoJobs' = [ecoJobs EXCEPT
                   ![k].receipts = @ \cup {i},
                   ![k].state = IF new.state = "usage_uncertain" /\ @ # "cancelled" THEN "usage_uncertain" ELSE @]
    /\ Request(p, IdleRequest)
    /\ UNCHANGED <<ecoMark, experiment, ecoReports, ecoCall>>

-----------------------------------------------------------------------------
(* build_blocked_report: a snapshot, the calls outside it, then the write. *)

SnapshotOf(job) == [i \in job.receipts |-> ecoReceipts[i]]

SnapshotTaken(p, k) ==
    /\ Request(p, [IdleRequest EXCEPT !.at = "building", !.key = k, !.job = ecoJobs[k], !.receipts = SnapshotOf(ecoJobs[k])])
    /\ UNCHANGED <<ecoMark, experiment, ecoJobs, ecoReceipts, ecoReports, ecoCall>>

build_blocked_report(p, k) ==
    /\ ecoProc[p].at = "idle" /\ InputsStand
    /\ ecoJobs[k] # None /\ ecoJobs[k].state # "cancelled" /\ ecoJobs[k].report = None
    /\ SnapshotTaken(p, k)

\* Every call still is what its receipt was measured from.
compare_calls(p) ==
    /\ ecoProc[p].at = "building"
    /\ Request(p, IF \A i \in DOMAIN ecoProc[p].receipts \cap EcoCalls : ecoCall[i] = ecoProc[p].receipts[i].of
                  THEN [ecoProc[p] EXCEPT !.at = "writing"] ELSE IdleRequest)
    /\ UNCHANGED <<ecoMark, experiment, ecoJobs, ecoReceipts, ecoReports, ecoCall>>

\* A complete computation is still blocked: no paired online run exists.
Terminal(rs) == IF compute_economics(rs) = "usage_uncertain" THEN "usage_uncertain" ELSE "blocked_support"

ReportOf(p) == LET q == ecoProc[p] IN
    [job |-> q.key, snapshot |-> q.job, receipts |-> q.receipts,
     terminal |-> Terminal({q.receipts[i] : i \in DOMAIN q.receipts})]

ReportWritten(p) == /\ ecoReports' = ecoReports \cup {ReportOf(p)}
                    /\ ecoJobs' = [ecoJobs EXCEPT ![ecoProc[p].key].report = ReportOf(p).terminal]
                    /\ Request(p, IdleRequest)
                    /\ UNCHANGED <<ecoMark, experiment, ecoReceipts, ecoCall>>

write_report(p) ==
    /\ ecoProc[p].at = "writing"
    /\ LET job == ecoJobs[ecoProc[p].key] IN
       IF /\ job.state # "cancelled" /\ InputsStand
          /\ job = ecoProc[p].job /\ SnapshotOf(job) = ecoProc[p].receipts
       THEN ReportWritten(p)
       ELSE Request(p, IdleRequest) /\ UNCHANGED <<ecoMark, experiment, ecoJobs, ecoReceipts, ecoReports, ecoCall>>

economics_step(p) ==
    \/ write_started_job(p) \/ persist_cost_receipt(p) \/ compare_calls(p) \/ write_report(p)
    \/ \E k \in EcoKeys :
          \/ \E n \in EcoSeqs : start(p, k, n)
          \/ \E c \in EcoCalls : record_budget_cost(p, k, c)
          \/ \E i \in AdminIds, amount \in EcoCosts : register_admin_cost(p, k, i, amount)
          \/ build_blocked_report(p, k)

economics_next ==
    \/ register_experiment \/ economics_revoke
    \/ \E c \in EcoCalls, s \in CallStates, cost \in Amounts : budget_call_moves(c, s, cost)
    \/ \E k \in EcoKeys : cancel_job(k, "operator")
    \/ \E p \in EcoProcs : economics_step(p)

economics_spec == economics_init /\ [][economics_next]_ecovars

-----------------------------------------------------------------------------
(* Properties.                                                             *)

\* A valid receipt: only a final one, or an audited one, claims money.
EcoReceipt ==
    LET of == [state : CallStates, cost : Amounts] \cup {None}
    IN  [state : {"known_final"}, amount : Amounts, of : of]
        \cup [state : {"not_incurred", "usage_uncertain", "unsupported_measurement"}, amount : {0}, of : of \ {None}]
\* A valid experiment was registered at a watermark, never at none.
EcoExperiment == 1..EcoMarks
EcoJob == [seq : EcoSeqs, state : {"blocked_support", "usage_uncertain", "cancelled"}, receipts : SUBSET EcoIds,
           report : {None, "blocked_support", "usage_uncertain"}, reason : {None, "operator"}]

\* The absent value is none of the values it stands beside.
ASSUME EconomicsAbsent ==
    /\ None \notin EcoJob /\ None \notin EcoReceipt /\ None \notin [state : CallStates, cost : Amounts]
    /\ None \notin {"blocked_support", "usage_uncertain"}

EconomicsTypeOK ==
    /\ ecoMark \in 1..EcoMarks /\ experiment \in EcoExperiment \cup {None}
    /\ ecoJobs \in [EcoKeys -> EcoJob \cup {None}]
    /\ ecoReceipts \in [EcoIds -> EcoReceipt \cup {None}]
    /\ ecoCall \in [EcoCalls -> [state : CallStates, cost : Amounts]]
    /\ \A r \in ecoReports : r.terminal \in {"blocked_support", "usage_uncertain"}

\* A cost booked as final is the cost the ledger has for a closed call, and
\* one booked as not incurred belongs to a call that was never sent,
\* however long ago the call was read.
FinalIsActual ==
    \A c \in EcoCalls : ecoReceipts[c] # None =>
        /\ ecoReceipts[c].state = "known_final" => ecoCall[c] = [state |-> "closed", cost |-> ecoReceipts[c].amount]
        /\ ecoReceipts[c].state = "not_incurred" => ecoCall[c].state = "released"

\* Requests that measured a call at different times: a final receipt is
\* never taken back by one that saw less.
FinalStays ==
    [][\A i \in EcoIds : ecoReceipts[i] # None /\ ecoReceipts[i].state \in {"known_final", "not_incurred"} =>
           ecoReceipts'[i] = ecoReceipts[i]]_ecovars

\* Two starts of one key that both found no job: the job that is there
\* keeps its request and the costs it has collected.
JobKeepsItsCosts ==
    [][\A k \in EcoKeys : ecoJobs[k] # None =>
           ecoJobs'[k].seq = ecoJobs[k].seq /\ ecoJobs[k].receipts \subseteq ecoJobs'[k].receipts]_ecovars

\* No job and no report comes to be over sources that a revocation has
\* touched since the experiment was registered, though both were decided
\* in an earlier transaction.
OverStandingSources ==
    [][(\E k \in EcoKeys : ecoJobs[k] = None /\ ecoJobs'[k] # None) \/ ecoReports' # ecoReports =>
           InputsStand]_ecovars

\* A report is written of a job that is not cancelled, and of exactly the
\* receipts the job has then, each as it stands then.
ReportIsOfTheJob ==
    [][\A r \in ecoReports' \ ecoReports :
           /\ ecoJobs[r.job].state # "cancelled"
           /\ r.receipts = SnapshotOf(ecoJobs[r.job])]_ecovars

\* A job has one report, and keeps it.
OneReportPerJob == \A r, s \in ecoReports : r.job = s.job => r = s

\* break_even_tasks is the least number of tasks that saves money.
BreakEvenIsLeast ==
    \A o \in 0..6, d \in 1..5, c \in 1..3 :
        LET n == break_even_tasks(o, d, c) IN
        /\ net_saving(n, d, c, 0) >= o
        /\ n > 0 => net_saving(n - 1, d, c, 0) < o

\* What holds of the economics in every state: a final cost is an actual one, a job
\* has one report, and the break-even is the least number of tasks that saves money.
EconomicsSafe ==
    /\ EconomicsTypeOK
    /\ FinalIsActual
    /\ OneReportPerJob
    /\ BreakEvenIsLeast
=============================================================================
