---------------------------- MODULE ModelBroker ----------------------------
(***************************************************************************)
(* PersistentModelBroker (evo-engine broker.rs): the workers that run a    *)
(* model request against the root ledger and the provider.                 *)
(*                                                                         *)
(* A worker goes through dispatch (or dispatch_bound): look the call up,   *)
(* one Session that reserves, fences again and begins the dispatch and     *)
(* commits or rolls back as a whole, the provider call without a           *)
(* transaction, the settlement, the close and the verification, each a     *)
(* commit of its own.  Every await between two commits is a point where    *)
(* another worker, an Admin or a crash may come in.  Lease tokens are      *)
(* derived from the request, so the epoch alone is the fence.              *)
(***************************************************************************)
EXTENDS RootBudget

CONSTANTS
    Workers,        \* broker tasks of the process
    BoundCalls,     \* calls whose request is bound to a read authority
    MaxCrashes      \* bound on crashes

ASSUME BrokerAssumption == Calls # {} /\ BoundCalls \subseteq Calls /\ MaxCrashes \in Nat

VARIABLES
    worker,         \* what each task has in memory
    process,        \* "up", "down" or "recovering"
    crashes,        \* crashes so far
    wire            \* executions the provider has seen, per call

bvars == <<now, root, group, call, body, revoked, worker, process, crashes, wire>>
ledger == <<now, root, group, call, body, revoked>>

\* What a provider call comes back with: a completion may name another model
\* (mismatch), be invalid with readable accounting, or be invalid altogether.
Answers == {"error", "completion", "mismatch", "invalid_accounted", "invalid"}

Results == {"none", "completed", "rejected", "uncertain", "error"}

Steps == {"idle", "bound_close", "session", "replay", "replay_judge", "transport",
          "failed", "settle", "settle_failed", "close", "verify", "recheck"}

Models == {c \in Calls : KindOf[c] = "model"}

WorkerRecord == [at : Steps, call : Calls, epoch : Nat, t : Nat,
                 answer : Answers, charge : Charges \cup {NoCharge},
                 seen : CallRecord, content : BodyRecord, result : Results]

BTypeOK ==
    /\ TypeOK
    /\ worker \in [Workers -> WorkerRecord]
    /\ process \in {"up", "down", "recovering"}
    /\ crashes \in 0..MaxCrashes
    /\ wire \in [Calls -> Nat]

IdleWorker == [at |-> "idle", call |-> CHOOSE c \in Calls : TRUE, epoch |-> 0, t |-> 0,
               answer |-> "error", charge |-> NoCharge,
               seen |-> AbsentCall, content |-> AbsentBody, result |-> "none"]

BInit ==
    /\ Init
    /\ worker = [w \in Workers |-> IdleWorker]
    /\ process = "up"
    /\ crashes = 0
    /\ wire = [c \in Calls |-> 0]

-----------------------------------------------------------------------------
At(w, step) == process = "up" /\ worker[w].at = step

Goto(w, step) == worker' = [worker EXCEPT ![w].at = step]

\* The request ends with a response or an error; nothing is kept in memory.
Return(w, result) ==
    worker' = [worker EXCEPT ![w] = [IdleWorker EXCEPT !.call = worker[w].call,
                                                       !.result = result]]

SourcesLive(c) == SourcesOf[c] \cap revoked = {}

Present(c) == call[c].state # "absent"

\* A worker on its way to the session holds the clock it has read; one that
\* has found an outcome holds the row it has read.
Entering(c, step) == [IdleWorker EXCEPT !.at = step, !.call = c, !.t = now]
Replaying(c) == [IdleWorker EXCEPT !.at = "replay", !.call = c,
                                   !.seen = call[c], !.content = body[c]]

\* dispatch: the lookup before the session, then the clock.
lookup(w, c) ==
    /\ At(w, "idle") /\ c \in Models \ BoundCalls
    /\ worker' = [worker EXCEPT ![w] =
           IF call[c].state \in {"absent", "reserved"}
           THEN Entering(c, "session") ELSE Replaying(c)]
    /\ UNCHANGED <<ledger, process, crashes, wire>>

\* dispatch_management_bound: the clock first; the recovery close of a settled
\* call is a Store write before the session.
bound_lookup(w, c) ==
    /\ At(w, "idle") /\ c \in Models \cap BoundCalls
    /\ worker' = [worker EXCEPT ![w] =
           Entering(c, IF body[c].response # "none" /\ call[c].open
                       THEN "bound_close" ELSE "session")]
    /\ UNCHANGED <<ledger, process, crashes, wire>>

\* A close that another task has made meanwhile is not written again.
CloseIfOpen(c) ==
    \/ close_budget_call_execution(c)
    \/ ~call[c].open /\ UNCHANGED ledger

bound_close(w) ==
    /\ At(w, "bound_close")
    /\ CloseIfOpen(worker[w].call)
    /\ Goto(w, "session")
    /\ UNCHANGED <<process, crashes, wire>>

-----------------------------------------------------------------------------
(* The session.  SessionCall and SessionBody are the row it has built when *)
(* it comes to the dispatch gate.                                          *)

Repairable(c) == /\ Present(c) /\ ~body[c].ref
                 /\ body[c].request = "content" /\ SourcesLive(c)

SessionBody(c) ==
    IF ~Present(c) THEN NewBody
    ELSE IF Repairable(c) THEN [body[c] EXCEPT !.ref = TRUE] ELSE body[c]

Admitted(c, t, d) == IF Present(c) THEN call[c] ELSE NewCall(t, d)

Expired(k, t) == k.state = "reserved" /\ t > k.until

SessionCall(c, t, d) ==
    IF Expired(Admitted(c, t, d), t)
    THEN Refenced(Admitted(c, t, d), t, d) ELSE Admitted(c, t, d)

\* The checks ahead of the dispatch gate.  The bound path validates its stored
\* sources first, whatever the state of the call.
SessionRefused(c, t, j) ==
    \/ c \in BoundCalls /\ ~SourcesLive(c)
    \/ ~Present(c) /\ ~Reservable(c, t, j)
    \/ Present(c) /\ ~SourcesLive(c) /\ ~body[c].ref
    \/ Present(c) /\ Expired(call[c], t) /\ ~SourcesLive(c)

\* A refusal over the sources drops the session and what it wrote.
RolledBack(c, t, d) == DispatchRefusal(c, SessionCall(c, t, d), SessionBody(c), t)
                           \in SourceBlocks

\* Only a call that is still reserved may be sent.
RetriesUncertain(k) == k.state \in {"reserved", "uncertain"}
NewDispatch(k) == k.state = "reserved"

session_refused(w, d, j) ==
    LET c == worker[w].call
        t == worker[w].t
    IN /\ At(w, "session")
       /\ \/ SessionRefused(c, t, j)
          \/ c \in BoundCalls  \* its read authority is no longer current
          \/ NewDispatch(SessionCall(c, t, d)) /\ RolledBack(c, t, d)
       /\ Return(w, "rejected")
       /\ UNCHANGED <<ledger, process, crashes, wire>>

\* The call was dispatched or ended after the lookup: its stored outcome is
\* returned.  The bound path judged the sources in this very snapshot.
session_replay(w) ==
    LET c == worker[w].call
        t == worker[w].t
    IN /\ At(w, "session")
       /\ Present(c) /\ ~NewDispatch(call[c])
       /\ ~SessionRefused(c, t, 0)
       /\ body' = IF c \in BoundCalls THEN body ELSE [body EXCEPT ![c] = SessionBody(c)]
       /\ worker' = [worker EXCEPT ![w] = Replaying(c)]
       /\ UNCHANGED <<now, root, group, call, revoked, process, crashes, wire>>

\* The other refusals release the reservation and commit.
session_release(w, d, j) ==
    LET c == worker[w].call
        t == worker[w].t
        k == SessionCall(c, t, d)
    IN /\ At(w, "session")
       /\ ~SessionRefused(c, t, j)
       /\ NewDispatch(k) /\ k.epoch <= MaxEpoch
       /\ DispatchRefusal(c, k, SessionBody(c), t) \notin SourceBlocks \cup {"none"}
       /\ Present(c) => Refundable(c)
       /\ root' = IF Present(c) THEN Refund(c) ELSE root
       /\ group' = EnsureGroup(c)
       /\ call' = [call EXCEPT ![c] = [k EXCEPT !.state = "released"]]
       /\ body' = [body EXCEPT ![c] = SessionBody(c)]
       /\ Return(w, "rejected")
       /\ UNCHANGED <<now, revoked, process, crashes, wire>>

\* The commit that authorizes the provider call.
session_dispatch(w, d, j) ==
    LET c == worker[w].call
        t == worker[w].t
        k == SessionCall(c, t, d)
    IN /\ At(w, "session")
       /\ ~SessionRefused(c, t, j)
       /\ NewDispatch(k) /\ k.epoch <= MaxEpoch
       /\ DispatchRefusal(c, k, SessionBody(c), t) = "none"
       /\ root' = IF Present(c) THEN root ELSE Hold(c)
       /\ group' = EnsureGroup(c)
       /\ call' = [call EXCEPT ![c] = Dispatched(k)]
       /\ body' = [body EXCEPT ![c] = SessionBody(c)]
       /\ worker' = [worker EXCEPT ![w].epoch = k.epoch, ![w].at = "transport"]
       /\ UNCHANGED <<now, revoked, process, crashes, wire>>

-----------------------------------------------------------------------------
(* existing_response and bound_existing_response.                          *)

\* A stored response: its lost close is recorded before its content is judged.
replay_stored(w) ==
    LET c == worker[w].call IN
    /\ At(w, "replay")
    /\ worker[w].content.response # "none"
    /\ IF worker[w].seen.open THEN CloseIfOpen(c) ELSE UNCHANGED ledger
    /\ Goto(w, "replay_judge")
    /\ UNCHANGED <<process, crashes, wire>>

\* Only a completed response needs its sources; they are judged now, against
\* content read before.  The bound path judged them in its session.
CacheUsable(c) == c \in BoundCalls \/ SourcesLive(c)

replay_judge(w) ==
    LET c == worker[w].call
        b == worker[w].content
    IN /\ At(w, "replay_judge")
       /\ \/ b.response = "redacted" /\ Return(w, "rejected")
          \/ /\ b.response = "content" /\ c \in BoundCalls
             /\ Return(w, IF b.verdict # "usable" THEN "rejected"
                          ELSE IF worker[w].seen.state = "finalized" THEN "completed"
                          ELSE "error")
          \/ /\ b.response = "content" /\ c \notin BoundCalls
             /\ IF b.verdict = "usable" /\ ~CacheUsable(c)
                THEN Return(w, "error") ELSE Goto(w, "verify")
       /\ UNCHANGED <<ledger, process, crashes, wire>>

replay_unanswered(w) ==
    /\ At(w, "replay")
    /\ worker[w].content.response = "none"
    /\ Return(w, CASE worker[w].seen.state \in {"dispatched", "uncertain"} -> "uncertain"
                   [] worker[w].seen.state = "finalized"                   -> "error"
                   [] OTHER                                                -> "rejected")
    /\ UNCHANGED <<ledger, process, crashes, wire>>

-----------------------------------------------------------------------------
(* execute_committed_model.                                                *)

\* The provider runs the request; whether its answer arrives is its affair.
transport_execute(w, answer, ch) ==
    LET c == worker[w].call IN
    /\ At(w, "transport")
    /\ ch \in IF answer \in {"error", "invalid"} THEN {NoCharge} ELSE Charges
    /\ wire' = [wire EXCEPT ![c] = @ + 1]
    /\ worker' = [worker EXCEPT ![w].answer = answer, ![w].charge = ch,
                                ![w].at = IF answer \in {"error", "invalid"}
                                          THEN "failed" ELSE "settle"]
    /\ UNCHANGED <<ledger, process, crashes>>

release_if_dispatched(c, e) ==
    IF call[c].state = "dispatched"
    THEN /\ call' = [call EXCEPT ![c].state = "released"]
         /\ root' = Refund(c)
         /\ UNCHANGED <<now, group, body, revoked>>
    ELSE UNCHANGED ledger

MarkIfDispatched(c, e) ==
    \/ mark_budget_call_uncertain(c, e)
    \/ call[c].state # "dispatched" /\ UNCHANGED ledger

\* No usable accounting: the call becomes uncertain, unless it has moved on.
transport_failed(w) ==
    LET c == worker[w].call IN
    /\ At(w, "failed")
    /\ MarkIfDispatched(c, worker[w].epoch)
    /\ Return(w, IF worker[w].answer = "error" /\ call[c].state \in {"dispatched", "uncertain"}
                 THEN "uncertain" ELSE "error")
    /\ UNCHANGED <<process, crashes, wire>>

Forced(answer) == answer \in {"mismatch", "invalid_accounted"}

\* Everything settle_model_budget_call insists on, besides the fence.
Settleable(c, ch) ==
    /\ call[c].state = "dispatched"
    /\ body[c].response = "none"
    /\ UsageFree(c, ch)
    /\ ~ch.priced \/ Overflows(c, ch) \/ Refundable(c)

settle(w, t) ==
    LET c == worker[w].call
        ch == worker[w].charge
    IN /\ At(w, "settle")
       /\ settle_model_budget_call(c, worker[w].epoch, t, ch, Forced(worker[w].answer))
       /\ Goto(w, "close")
       /\ UNCHANGED <<process, crashes, wire>>

settle_refused(w) ==
    /\ At(w, "settle")
    /\ ~Settleable(worker[w].call, worker[w].charge)
    /\ IF worker[w].answer = "invalid_accounted"
       THEN Return(w, "error") ELSE Goto(w, "settle_failed")
    /\ UNCHANGED <<ledger, process, crashes, wire>>

settle_failed(w) ==
    /\ At(w, "settle_failed")
    /\ MarkIfDispatched(worker[w].call, worker[w].epoch)
    /\ Return(w, "error")
    /\ UNCHANGED <<process, crashes, wire>>

close(w) ==
    /\ At(w, "close")
    /\ CloseIfOpen(worker[w].call)
    /\ worker' = [worker EXCEPT ![w].at = "verify", ![w].content = body[worker[w].call]]
    /\ UNCHANGED <<process, crashes, wire>>

\* verify_persisted_response reads the ledger again before the response leaves.
Verified(c, b) ==
    /\ call[c].state \in {"finalized", "uncertain"}
    /\ ~call[c].open
    /\ body[c].response # "none"
    /\ IF b.verdict = "usable"
       THEN call[c].state = "finalized" /\ body[c].verdict = "usable"
       ELSE body[c].verdict # "usable"

verify_persisted_response(w) ==
    LET c == worker[w].call
        b == worker[w].content
    IN /\ At(w, "verify")
       /\ IF Verified(c, b) /\ b.verdict = "usable" /\ c \in BoundCalls
          THEN Goto(w, "recheck")
          ELSE Return(w, IF ~Verified(c, b) THEN "error"
                         ELSE IF b.verdict = "usable" THEN "completed"
                         ELSE "rejected")
       /\ UNCHANGED <<ledger, process, crashes, wire>>

\* The bound path asks its authority again after the charged execution; the
\* authority may have changed.
recheck_authority(w, current) ==
    /\ At(w, "recheck")
    /\ Return(w, IF current THEN "completed" ELSE "rejected")
    /\ UNCHANGED <<ledger, process, crashes, wire>>

-----------------------------------------------------------------------------
(* Crashes, and the recovery `rsia serve` runs before it listens.          *)

crash ==
    /\ process # "down" /\ crashes < MaxCrashes
    /\ process' = "down"
    /\ crashes' = crashes + 1
    /\ worker' = [w \in Workers |-> IdleWorker]
    /\ UNCHANGED <<ledger, wire>>

restart ==
    /\ process = "down"
    /\ process' = "recovering"
    /\ UNCHANGED <<ledger, worker, crashes, wire>>

RecoversUsableOnly(c) ==
    call[c].state = "finalized" /\ call[c].open /\ body[c].verdict = "usable"

\* A call without a persisted response is listed and left open.
Recoverable(c) ==
    call[c].state = "finalized" /\ call[c].open /\ body[c].response # "none"

recover_settled_open_execution(c) ==
    /\ process = "recovering"
    /\ Recoverable(c)
    /\ close_budget_call_execution(c)
    /\ UNCHANGED <<worker, process, crashes, wire>>

serve ==
    /\ process = "recovering"
    /\ \A c \in Calls : ~Recoverable(c)
    /\ process' = "up"
    /\ UNCHANGED <<ledger, worker, crashes, wire>>

-----------------------------------------------------------------------------
\* Admins, revocations and the clock, at any time; a caller that commits its
\* reservation on its own (dispatch_formal_task), a management job that stops
\* the call it holds.
Environment ==
    /\ \/ Tick
       \/ \E r \in Roots : authorize_root_budget(r) \/ stop_root_budget(r)
       \/ \E g \in Groups : stop_dispatch_group(g)
       \/ \E s \in Sources : revoke_source(s)
       \/ \E c \in Calls :
             \/ \E ch \in Charges : reconcile_budget_call_cost(c, ch)
             \/ \E d \in LeaseTerms : reserve_budget_call(c, now, d, 0)
             \/ cancel_budget_call(c, call[c].epoch)
             \/ close_budget_call_execution(c)
             \/ redact_budget_call_content(c)
             \/ lose_budget_call_ref(c)
    /\ UNCHANGED <<worker, process, crashes, wire>>

Settling(w) == \/ \E t \in worker[w].t..now : settle(w, t)
               \/ settle_refused(w)
               \/ settle_failed(w)
               \/ close(w)
               \/ verify_persisted_response(w)
               \/ \E current \in BOOLEAN : recheck_authority(w, current)

Recovery == restart \/ serve \/ \E c \in Calls : recover_settled_open_execution(c)

BrokerStep(w) ==
    \/ \E c \in Calls : lookup(w, c) \/ bound_lookup(w, c)
    \/ bound_close(w)
    \/ \E d \in LeaseTerms, j \in JobLeases :
          session_refused(w, d, j) \/ session_release(w, d, j) \/ session_dispatch(w, d, j)
    \/ session_replay(w)
    \/ replay_stored(w)
    \/ replay_judge(w)
    \/ replay_unanswered(w)
    \/ \E answer \in Answers, ch \in Charges \cup {NoCharge} : transport_execute(w, answer, ch)
    \/ transport_failed(w)
    \/ Settling(w)

BNext == Environment \/ crash \/ Recovery \/ \E w \in Workers : BrokerStep(w)

\* The runtime keeps polling a task whose answer has arrived, the supervisor
\* restarts the process and the startup recovery runs to its end.  Nothing is
\* assumed of callers, Admins or the provider.
BFairness == /\ \A w \in Workers : WF_bvars(Settling(w))
             /\ WF_bvars(Recovery)

BSpec == BInit /\ [][BNext]_bvars
FairSpec == BSpec /\ BFairness
-----------------------------------------------------------------------------
(* Properties.                                                             *)

PhaseOf(c) ==
    CASE call[c].state = "absent"                    -> "none"
      [] call[c].state = "reserved"                  -> "held"
      [] call[c].state \in {"released", "cancelled"}  -> "void"
      [] call[c].state \in {"dispatched", "uncertain"} -> "committed"
      [] call[c].state = "finalized"                 -> "charged"

Paid == INSTANCE PaidCall WITH phase <- [c \in Calls |-> PhaseOf(c)],
                               executed <- wire

\* The broker and the ledger implement PaidCall: money is given back only for a
\* call the provider never saw, and a call is executed and charged at most once
\* whatever workers, Admins and crashes do.
PaidCallOnce == Paid!Spec

\* The provider sees a request at most once, and only under a committed
\* dispatch: whatever workers repeat it, however leases expire and wherever the
\* process crashes between the commit, the provider call and the settlement
\* (dispatch, execute_committed_model; a dispatched call is never sent again).
SentAtMostOnce ==
    \A c \in Calls : wire[c] <= 1 /\ (wire[c] = 1 => call[c].sent)

\* Two workers are at the provider for one billing root only if an Admin has
\* both charged and closed one of the two calls by hand: leases, crashes and
\* retries never bring it about (concurrency_limit = 1).
OneTransportPerRoot ==
    \A v, w \in Workers :
        /\ v # w
        /\ worker[v].at = "transport" /\ worker[w].at = "transport"
        /\ RootOf(worker[v].call) = RootOf(worker[w].call)
        => \E x \in {v, w} : ~Active(call[worker[x].call])

\* A response reported as completed is that of one provider execution whose
\* charge is booked and whose execution is closed, on the fresh path, on both
\* replay paths and whatever an Admin reconciles in between
\* (verify_persisted_response, bound_existing_response).
CompletedIsPaid ==
    \A w \in Workers : worker[w].result = "completed" =>
        LET c == worker[w].call IN
        /\ call[c].state = "finalized" /\ call[c].charge # NoCharge
        /\ wire[c] = 1
        /\ ~call[c].open

\* An unbound response leaves as completed only in a step in which the ledger
\* still holds it usable: one the cleanup redacted after the worker had read it
\* is not returned (verify_persisted_response reads the row again).
CompletedStillUsable ==
    [][ \A w \in Workers :
           LET c == worker[w].call IN
           c \notin BoundCalls /\ worker[w].at = "verify" /\ worker'[w].result = "completed" =>
               body[c].verdict = "usable" /\ body[c].response = "content" ]_bvars

\* A settled and charged call does not hold its billing root for ever: if the
\* process crashes between the settlement and the close, the startup recovery
\* closes it (recover_settled_open_executions).  A call settled as uncertain and
\* charged by an Admin after the crash is not covered: the recovery does not
\* read it, and a replay, an Admin or the next start closes it.
AtClose(c) == \E w \in Workers : worker[w].at = "close" /\ worker[w].call = c

SettledIsClosed ==
    \A c \in Calls : AtClose(c) /\ call[c].state = "finalized" ~> ~call[c].open

\* What holds of the broker and its ledger in every state: a completed response is
\* paid and closed, the provider sees a request at most once, and one worker of a
\* root is at the provider.
BrokerSafe ==
    /\ BTypeOK
    /\ CompletedIsPaid
    /\ SentAtMostOnce
    /\ OneTransportPerRoot
=============================================================================
