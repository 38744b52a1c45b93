----------------------------- MODULE RootBudget -----------------------------
(***************************************************************************)
(* The root monetary ledger of evo-storage (budget.rs, typed_budget.rs):   *)
(* billing roots, dispatch groups, and the state machine of a paid call.   *)
(*                                                                         *)
(* The store owns one SQLite connection, so every Store method is one      *)
(* transaction and one action here.  A refused or replayed operation       *)
(* commits nothing and is a stuttering step.                               *)
(*                                                                         *)
(* A call row is kept in two variables: `call` holds the accounting        *)
(* columns, `body` the artifact columns.  What identifies the one request  *)
(* a call id may be used with (group, cost cap, sources, kind) is constant:*)
(* same_reservation refuses every other request for that id.               *)
(***************************************************************************)
EXTENDS Integers, FiniteSets, Functions

CONSTANTS
    Roots,          \* billing scopes
    Groups,         \* dispatch groups (billing scope and group id)
    Calls,          \* call ids (billing scope and call id)
    Sources,        \* runs and artifacts a request may be derived from
    UsageIds,       \* provider usage records
    GroupRoot,      \* [Groups -> Roots]
    GroupOf,        \* [Calls -> Groups]
    SourcesOf,      \* [Calls -> SUBSET Sources]: what the request names
    KindOf,         \* [Calls -> Kinds]: the mode and stage of the call
    CostOf,         \* [Calls -> Nat]: max_cost_micros of the request
    TotalLimit,     \* [Roots -> Nat]: total_limit_micros
    PerCallCap,     \* [Roots -> Nat]: per_call_cap_micros
    Amounts,        \* the costs a provider may report
    MaxInt,         \* i64::MAX
    MaxLeases,      \* MVP_MAX_ACTIVE_LEASES
    JobLeases,      \* how many management jobs may hold a lease meanwhile
    LeaseTerms,     \* lease durations callers ask for
    MaxTime,        \* bound on the clock
    MaxEpoch        \* bound on lease_epoch

Kinds == {"model", "registered", "e16"}

ASSUME ShapeAssumption ==
    /\ GroupRoot \in [Groups -> Roots]
    /\ GroupOf \in [Calls -> Groups]
    /\ SourcesOf \in [Calls -> SUBSET Sources]
    /\ KindOf \in [Calls -> Kinds]
    /\ "none" \notin UsageIds

\* validate_authorization, validate_reservation_typed and validate_charge.
ASSUME MoneyAssumption ==
    /\ MaxInt \in Nat
    /\ CostOf \in [Calls -> 1..MaxInt]
    /\ TotalLimit \in [Roots -> 1..MaxInt]
    /\ PerCallCap \in [Roots -> 1..MaxInt]
    /\ \A r \in Roots : PerCallCap[r] <= TotalLimit[r]

ASSUME AmountAssumption == MaxInt \in Nat /\ Amounts \subseteq 0..MaxInt

ASSUME LeaseAssumption ==
    /\ LeaseTerms \subseteq Nat \ {0}
    /\ JobLeases \subseteq Nat
    /\ MaxLeases \in Nat /\ MaxTime \in Nat /\ MaxEpoch \in Nat

VARIABLES
    now,            \* the clock; a caller's reading may be older
    root,           \* root_budgets
    group,          \* root_budget_dispatch_groups
    call,           \* root_budget_calls, accounting columns
    body,           \* root_budget_calls, artifact columns and source reference
    revoked         \* sources whose tombstone has committed

vars == <<now, root, group, call, body, revoked>>

-----------------------------------------------------------------------------
RootOf(c) == GroupRoot[GroupOf[c]]

StopReasons == {"none", "operator", "cost_overrun", "cost_accounting_overflow"}

CallStates == {"absent", "reserved", "dispatched", "uncertain",
               "finalized", "released", "cancelled"}

BlockReasons == {"charge_pricing_identity_mismatch", "forced",
                 "cost_accounting_overflow", "cost_overrun",
                 "e16_source_unavailable", "source_revoked",
                 "budget_sources_unverifiable", "lease_expired",
                 "root_stopped", "dispatch_group_stopped"}

SourceBlocks == {"e16_source_unavailable", "budget_sources_unverifiable",
                 "source_revoked"}

\* A provider's charge; `priced` says that its currency and pricing version
\* are those of the root.
Charges == [usage : UsageIds, amount : Amounts, priced : BOOLEAN]
NoCharge == [usage |-> "none", amount |-> 0, priced |-> FALSE]

Artifacts == {"none", "content", "redacted"}

RootRecord == [authorized : BOOLEAN, spent : Nat, reserved : Nat,
               stop : StopReasons]

CallRecord == [state : CallStates, epoch : Nat, until : Nat,
               sent : BOOLEAN, open : BOOLEAN, charge : Charges \cup {NoCharge}]

BodyRecord == [ref : BOOLEAN, request : Artifacts, transport : Artifacts,
               response : Artifacts,
               verdict : {"none", "usable"} \cup BlockReasons]

TypeOK ==
    /\ now \in Nat
    /\ root \in [Roots -> RootRecord]
    /\ group \in [Groups -> {"absent", "open", "stopped"}]
    /\ call \in [Calls -> CallRecord]
    /\ body \in [Calls -> BodyRecord]
    /\ revoked \in SUBSET Sources

AbsentCall == [state |-> "absent", epoch |-> 0, until |-> 0,
               sent |-> FALSE, open |-> FALSE, charge |-> NoCharge]

AbsentBody == [ref |-> FALSE, request |-> "none", transport |-> "none",
               response |-> "none", verdict |-> "none"]

Init ==
    /\ now = 0
    /\ root = [r \in Roots |-> [authorized |-> FALSE, spent |-> 0,
                                reserved |-> 0, stop |-> "none"]]
    /\ group = [g \in Groups |-> "absent"]
    /\ call = [c \in Calls |-> AbsentCall]
    /\ body = [c \in Calls |-> AbsentBody]
    /\ revoked = {}

-----------------------------------------------------------------------------
(* Judgements shared by the operations.                                    *)

Stopped(r) == root[r].stop # "none"
GroupStopped(c) == group[GroupOf[c]] = "stopped"

\* The call holds its billing root: its provider execution may still run.
Active(k) == \/ k.state \in {"dispatched", "uncertain"}
             \/ k.state = "finalized" /\ k.open

\* The call holds a lease of the instance at time t.
Leased(k, t) == (k.state = "reserved" \/ Active(k)) /\ k.until > t

count_active_leases(t) == Cardinality({d \in Calls : Leased(call[d], t)})

Unverifiable(c, b) == ~b.ref /\ b.request = "redacted"

LegacySources(c, b) == IF b.ref \/ b.request = "content" THEN SourcesOf[c] ELSE {}

source_closure_blocked(c, b) == LegacySources(c, b) \cap revoked # {}

E16LiveByFirstRead(c, b) == b.ref

\* call_sources_live_in_tx: no fallback for a lost reference in the E16 mode.
E16Live(c, b) == b.ref /\ b.request = "content" /\ SourcesOf[c] \cap revoked = {}

\* Why content derived from the sources of call c may not be used.
SourceBlock(c, b) ==
    CASE KindOf[c] = "e16" /\ ~E16Live(c, b)               -> "e16_source_unavailable"
      [] KindOf[c] # "e16" /\ Unverifiable(c, b)           -> "budget_sources_unverifiable"
      [] KindOf[c] # "e16" /\ source_closure_blocked(c, b) -> "source_revoked"
      [] OTHER                                             -> "none"

fence_call(c, e) == call[c].state # "absent" /\ call[c].epoch = e

\* UNIQUE(usage_record_id)
UsageFree(c, ch) == \A d \in Calls \ {c} : call[d].charge.usage # ch.usage

ClockReadings == 0..now

-----------------------------------------------------------------------------
(* Opening a root, stopping a root or a group.                             *)

authorize_root_budget(r) ==
    /\ ~root[r].authorized
    /\ root' = [root EXCEPT ![r].authorized = TRUE]
    /\ UNCHANGED <<now, group, call, body, revoked>>

stop_root_budget(r) ==
    /\ root[r].authorized /\ ~Stopped(r)
    /\ root' = [root EXCEPT ![r].stop = "operator"]
    /\ UNCHANGED <<now, group, call, body, revoked>>

\* A group that does not exist yet is created stopped.
stop_dispatch_group(g) ==
    /\ root[GroupRoot[g]].authorized
    /\ group[g] # "stopped"
    /\ group' = [group EXCEPT ![g] = "stopped"]
    /\ UNCHANGED <<now, root, call, body, revoked>>

-----------------------------------------------------------------------------
(* Reserving, fencing again and dispatching.                               *)

\* Every check of a new reservation, for a caller whose clock reads t while
\* management jobs hold j leases.
Reservable(c, t, j) ==
    LET r == RootOf(c) IN
    /\ SourcesOf[c] \cap revoked = {}
    /\ root[r].authorized
    /\ ~Stopped(r)
    /\ CostOf[c] <= PerCallCap[r]
    /\ root[r].spent + root[r].reserved + CostOf[c] <= MaxInt
    /\ root[r].spent + root[r].reserved + CostOf[c] <= TotalLimit[r]
    /\ ~GroupStopped(c)
    /\ count_active_leases(t) + j < MaxLeases

NewCall(t, d) == [state |-> "reserved", epoch |-> 1, until |-> t + d,
                  sent |-> FALSE, open |-> FALSE, charge |-> NoCharge]

NewBody == [AbsentBody EXCEPT !.ref = TRUE, !.request = "content"]

Hold(c) == [root EXCEPT ![RootOf(c)].reserved = @ + CostOf[c]]

EnsureGroup(c) == [group EXCEPT ![GroupOf[c]] = IF @ = "absent" THEN "open" ELSE @]

reserve_budget_call(c, t, d, j) ==
    /\ call[c].state = "absent"
    /\ Reservable(c, t, j)
    /\ root' = Hold(c)
    /\ group' = EnsureGroup(c)
    /\ call' = [call EXCEPT ![c] = NewCall(t, d)]
    /\ body' = [body EXCEPT ![c] = NewBody]
    /\ UNCHANGED <<now, revoked>>

\* Reserving an existing call again repairs a lost legacy reference, unless
\* the closure is blocked or the request has been redacted.
repair_budget_call_ref(c) ==
    /\ call[c].state # "absent"
    /\ KindOf[c] # "e16"
    /\ body[c].request = "content"
    /\ ~body[c].ref
    /\ SourcesOf[c] \cap revoked = {}
    /\ body' = [body EXCEPT ![c].ref = TRUE]
    /\ UNCHANGED <<now, root, group, call, revoked>>

Refenceable(k, e, t) == /\ k.state = "reserved"
                        /\ k.epoch = e
                        /\ t > k.until
                        /\ e < MaxEpoch

Refenced(k, t, d) == [k EXCEPT !.epoch = @ + 1, !.until = t + d]

refence_reserved_budget_call(c, e, t, d) ==
    /\ Refenceable(call[c], e, t)
    /\ call' = [call EXCEPT ![c] = Refenced(@, t, d)]
    /\ UNCHANGED <<now, root, group, body, revoked>>

\* Another call of the root may still be executing.
RootBusyDispatched(c) ==
    \E d \in Calls \ {c} : RootOf(d) = RootOf(c)
                         /\ call[d].state \in {"dispatched", "uncertain"}

RootBusy(c) == \E d \in Calls \ {c} : RootOf(d) = RootOf(c) /\ Active(call[d])

\* The refusal a dispatch of call c, whose row would be k with artifacts b,
\* meets at time t: the first one in the order the code checks.
DispatchRefusal(c, k, b, t) ==
    IF SourceBlock(c, b) = "e16_source_unavailable" THEN "e16_source_unavailable"
    ELSE IF t > k.until THEN "lease_expired"
    ELSE IF Stopped(RootOf(c)) THEN "root_stopped"
    ELSE IF GroupStopped(c) THEN "dispatch_group_stopped"
    ELSE IF SourceBlock(c, b) # "none" THEN SourceBlock(c, b)
    ELSE IF RootBusy(c) THEN "root_concurrency_limit"
    ELSE "none"

Dispatched(k) == [k EXCEPT !.state = "dispatched", !.sent = TRUE, !.open = TRUE]

begin_budget_dispatch(c, e, t) ==
    /\ fence_call(c, e)
    /\ call[c].state = "reserved"
    /\ DispatchRefusal(c, call[c], body[c], t) = "none"
    /\ call' = [call EXCEPT ![c] = Dispatched(@)]
    /\ UNCHANGED <<now, root, group, body, revoked>>

Refund(c) == [root EXCEPT ![RootOf(c)].reserved = @ - CostOf[c]]
Refundable(c) == root[RootOf(c)].reserved >= CostOf[c]

release_undispatched_budget_call(c, e) ==
    /\ fence_call(c, e)
    /\ call[c].state = "reserved"
    /\ Refundable(c)
    /\ root' = Refund(c)
    /\ call' = [call EXCEPT ![c].state = "released"]
    /\ UNCHANGED <<now, group, body, revoked>>

cancel_budget_call(c, e) ==
    /\ fence_call(c, e)
    /\ \/ /\ call[c].state = "reserved"
          /\ Refundable(c)
          /\ root' = Refund(c)
          /\ call' = [call EXCEPT ![c].state = "cancelled"]
       \/ /\ call[c].state = "dispatched"
          /\ call' = [call EXCEPT ![c].state = "uncertain"]
          /\ UNCHANGED root
    /\ UNCHANGED <<now, group, body, revoked>>

mark_budget_call_uncertain(c, e) ==
    /\ fence_call(c, e)
    /\ call[c].state = "dispatched"
    /\ call' = [call EXCEPT ![c].state = "uncertain"]
    /\ UNCHANGED <<now, root, group, body, revoked>>

-----------------------------------------------------------------------------
(* Charging.                                                               *)

Overflows(c, ch) == root[RootOf(c)].spent + ch.amount > MaxInt
Overruns(c, ch) == ch.amount > CostOf[c]

StopForgotten(old, why) == old
StopLatest(old, why) == why
StopFirst(old, why) == IF old = "none" THEN why ELSE old

\* apply_charge and preserve_accounting_overflow, on the root.
BookedRoot(c, ch) ==
    IF Overflows(c, ch)
    THEN [root EXCEPT ![RootOf(c)].stop = StopFirst(@, "cost_accounting_overflow")]
    ELSE [root EXCEPT ![RootOf(c)].spent = @ + ch.amount,
                      ![RootOf(c)].reserved = @ - CostOf[c],
                      ![RootOf(c)].stop = IF Overruns(c, ch)
                                          THEN StopFirst(@, "cost_overrun") ELSE @]

BookedCallDespiteOverflow(c, ch) ==
    [call[c] EXCEPT !.state = "finalized", !.charge = ch]

\* The same, on the call.  An overflow keeps the charge and books nothing.
BookedCall(c, ch) ==
    [call[c] EXCEPT !.state = IF Overflows(c, ch) THEN "uncertain" ELSE "finalized",
                    !.charge = ch]

apply_charge(c, ch) ==
    /\ ch.priced
    /\ UsageFree(c, ch)
    /\ Overflows(c, ch) \/ Refundable(c)
    /\ root' = BookedRoot(c, ch)

finalize_budget_call(c, e, t, ch) ==
    /\ fence_call(c, e)
    /\ call[c].state = "dispatched"
    /\ t <= call[c].until
    /\ apply_charge(c, ch)
    /\ call' = [call EXCEPT ![c] = BookedCall(c, ch)]
    /\ UNCHANGED <<now, group, body, revoked>>

\* Admin only: no fence and no lease.
reconcile_budget_call_cost(c, ch) ==
    /\ call[c].state \in {"dispatched", "uncertain"}
    /\ apply_charge(c, ch)
    /\ call' = [call EXCEPT ![c] = BookedCall(c, ch)]
    /\ UNCHANGED <<now, group, body, revoked>>

\* A registered in-process execution: zero cost, its response and its close
\* in one commit.
settle_registered_execution_call(c, e, t, ch) ==
    /\ KindOf[c] = "registered"
    /\ ch.amount = 0
    /\ fence_call(c, e)
    /\ body[c].response = "none"
    /\ call[c].state = "dispatched"
    /\ t <= call[c].until
    /\ apply_charge(c, ch)
    /\ call' = [call EXCEPT ![c] = [BookedCall(c, ch) EXCEPT !.open = FALSE]]
    /\ body' = [body EXCEPT ![c].response = "content",
                            ![c].verdict = IF Stopped(RootOf(c)) THEN "root_stopped"
                                           ELSE IF GroupStopped(c) THEN "dispatch_group_stopped"
                                           ELSE "usable"]
    /\ UNCHANGED <<now, group, revoked>>

-----------------------------------------------------------------------------
(* Settling a model call after the provider's answer.                      *)

\* What already made the call ineligible when the answer arrived.
PreexistingBlock(c, t) ==
    IF SourceBlock(c, body[c]) # "none" THEN SourceBlock(c, body[c])
    ELSE IF t > call[c].until THEN "lease_expired"
    ELSE IF Stopped(RootOf(c)) THEN "root_stopped"
    ELSE IF GroupStopped(c) THEN "dispatch_group_stopped"
    ELSE "usable"

\* The verdict on the response, in the order of precedence of the code.
Verdict(c, t, ch, forced) ==
    IF ~ch.priced THEN "charge_pricing_identity_mismatch"
    ELSE IF forced THEN "forced"
    ELSE IF Overflows(c, ch) THEN "cost_accounting_overflow"
    ELSE IF Overruns(c, ch) THEN "cost_overrun"
    ELSE PreexistingBlock(c, t)

Withheld(c, t, ch, forced) == SourceBlock(c, body[c]) # "none"

\* In the E16 mode the request and the response are redacted too.
SettledBody(c, t, ch, forced) ==
    LET withheld == Withheld(c, t, ch, forced)
        gone == KindOf[c] = "e16" /\ withheld
    IN [body[c] EXCEPT !.request = IF gone THEN "redacted" ELSE @,
                       !.transport = IF withheld THEN "redacted" ELSE "content",
                       !.response = IF gone THEN "redacted" ELSE "content",
                       !.verdict = Verdict(c, t, ch, forced)]

\* A charge in another pricing identity is kept on the call, now uncertain,
\* and booked nowhere (preserve_charge_identity_mismatch).
settle_model_budget_call(c, e, t, ch, forced) ==
    /\ KindOf[c] # "registered"
    /\ fence_call(c, e)
    /\ body[c].response = "none"
    /\ call[c].state = "dispatched"
    /\ \/ /\ apply_charge(c, ch)
          /\ call' = [call EXCEPT ![c] = BookedCall(c, ch)]
       \/ /\ ~ch.priced
          /\ UsageFree(c, ch)
          /\ call' = [call EXCEPT ![c].state = "uncertain", ![c].charge = ch]
          /\ UNCHANGED root
    /\ body' = [body EXCEPT ![c] = SettledBody(c, t, ch, forced)]
    /\ UNCHANGED <<now, group, revoked>>

close_budget_call_execution(c) ==
    /\ call[c].sent /\ call[c].open
    /\ call[c].state \in {"dispatched", "uncertain", "finalized"}
    /\ call' = [call EXCEPT ![c].open = FALSE]
    /\ UNCHANGED <<now, root, group, body, revoked>>

-----------------------------------------------------------------------------
(* Revocation, as far as the ledger sees it.                               *)

\* begin_revoke commits the tombstone of a source.
revoke_source(s) ==
    /\ s \notin revoked
    /\ revoked' = revoked \cup {s}
    /\ UNCHANGED <<now, root, group, call, body>>

redacted_artifact(a) == IF a = "content" THEN "redacted" ELSE a

\* The reason a response keeps once its content is redacted: in the E16 mode
\* one that outranks the sources stays.
RedactedVerdict(c, v) ==
    IF v = "none" THEN "none"
    ELSE IF KindOf[c] # "e16" THEN "source_revoked"
    ELSE IF v \in {"charge_pricing_identity_mismatch", "forced",
                   "cost_accounting_overflow", "cost_overrun"} THEN v
    ELSE "e16_source_unavailable"

\* The cleanup reaches the call; accounting is left alone.
redact_budget_call_content(c) ==
    /\ SourcesOf[c] \cap revoked # {}
    /\ body[c].request = "content"
    /\ body' = [body EXCEPT ![c].request = redacted_artifact(@),
                            ![c].transport = redacted_artifact(@),
                            ![c].response = redacted_artifact(@),
                            ![c].verdict = RedactedVerdict(c, @)]
    /\ UNCHANGED <<now, root, group, call, revoked>>

\* The reference object of a call is lost or deleted.
lose_budget_call_ref(c) ==
    /\ body[c].ref
    /\ body' = [body EXCEPT ![c].ref = FALSE]
    /\ UNCHANGED <<now, root, group, call, revoked>>

Tick == /\ now < MaxTime
        /\ now' = now + 1
        /\ UNCHANGED <<root, group, call, body, revoked>>

-----------------------------------------------------------------------------
Fenced(c, e, t) ==
    \/ \E d \in LeaseTerms : refence_reserved_budget_call(c, e, t, d)
    \/ begin_budget_dispatch(c, e, t)
    \/ release_undispatched_budget_call(c, e)
    \/ cancel_budget_call(c, e)
    \/ mark_budget_call_uncertain(c, e)
    \/ \E ch \in Charges :
          \/ finalize_budget_call(c, e, t, ch)
          \/ settle_registered_execution_call(c, e, t, ch)
          \/ \E forced \in BOOLEAN : settle_model_budget_call(c, e, t, ch, forced)

Next ==
    \/ Tick
    \/ \E r \in Roots : authorize_root_budget(r) \/ stop_root_budget(r)
    \/ \E g \in Groups : stop_dispatch_group(g)
    \/ \E s \in Sources : revoke_source(s)
    \/ \E c \in Calls :
          \/ \E t \in ClockReadings, d \in LeaseTerms, j \in JobLeases :
                reserve_budget_call(c, t, d, j)
          \/ repair_budget_call_ref(c)
          \/ \E e \in 1..MaxEpoch, t \in ClockReadings : Fenced(c, e, t)
          \/ \E ch \in Charges : reconcile_budget_call_cost(c, ch)
          \/ close_budget_call_execution(c)
          \/ redact_budget_call_content(c)
          \/ lose_budget_call_ref(c)

Spec == Init /\ [][Next]_vars
-----------------------------------------------------------------------------
(* Safety.                                                                 *)

\* A billing root executes one call at a time: across reservations, fences,
\* late settlements, Admin reconciliation and closes there are never two calls
\* of one root whose provider execution may still be running
\* (begin_budget_dispatch, concurrency_limit = 1).
OneActiveCallPerRoot ==
    \A c, d \in Calls :
        c # d /\ RootOf(c) = RootOf(d) => ~(Active(call[c]) /\ Active(call[d]))

\* What a root has spent and holds reserved stays within its authorized limit
\* until the moment a charge above its reservation stops the root.
CommittedWithinLimit ==
    \A r \in Roots :
        Stopped(r) \/ root[r].spent + root[r].reserved <= TotalLimit[r]

\* Money is only given back for a call whose request never left: a released or
\* cancelled call was never dispatched, and no charge is recorded on it.
RefundedNeverSent ==
    \A c \in Calls : call[c].state \in {"released", "cancelled"} =>
        ~call[c].sent /\ call[c].charge = NoCharge

\* Once the cleanup of a revoked source has redacted a model call's request,
\* the row never again shows model output, however late the settlement comes
\* and even if the call's source reference has been lost.  (A registered
\* execution stores digests only and is judged again when its receipt is
\* issued.)
RedactedShowsNoOutput ==
    \A c \in Calls :
        KindOf[c] # "registered" /\ body[c].request = "redacted" =>
            body[c].transport # "content" /\ body[c].verdict # "usable"

\* The books are append-only: spent never shrinks, a finalized charge is never
\* changed, an ended call never comes back, a committed stop keeps its first
\* reason.
BooksAreFinal ==
    [][ /\ \A r \in Roots : /\ root'[r].spent >= root[r].spent
                            /\ Stopped(r) => root'[r].stop = root[r].stop
        /\ \A c \in Calls :
              call[c].state \in {"finalized", "released", "cancelled"} =>
                  /\ call'[c].state = call[c].state
                  /\ call'[c].charge = call[c].charge ]_vars

\* A model response becomes usable, and its transport body readable, only over
\* sources none of which had been revoked when it was settled.
OutputOnlyOverLiveSources ==
    [][ \A c \in Calls :
           KindOf[c] # "registered" /\ SourcesOf[c] \cap revoked # {} =>
               /\ body'[c].verdict = "usable" => body[c].verdict = "usable"
               /\ body'[c].transport = "content" => body[c].transport = "content" ]_vars

CallsOf(r) == {c \in Calls : RootOf(c) = r}

Charged(r) == {c \in CallsOf(r) : call[c].state = "finalized"}
Holding(r) == {c \in CallsOf(r) : call[c].state \in {"reserved", "dispatched", "uncertain"}}

ChargeOf == [c \in Calls |-> call[c].charge.amount]

\* The two totals of a root always equal what its calls say: `spent` is the sum
\* of the finalized charges, `reserved` the sum of the reservations of calls
\* that are neither charged nor given back.
LedgerMatchesCalls ==
    \A r \in Roots : /\ root[r].spent = SumFunctionOnSet(ChargeOf, Charged(r))
                     /\ root[r].reserved = SumFunctionOnSet(CostOf, Holding(r))

\* What every reachable ledger satisfies at once: rows are well typed, a root has
\* at most one call in flight however many callers dispatch for it, money given
\* back was never sent, and a redacted call shows no output.
LedgerSafe ==
    /\ TypeOK
    /\ OneActiveCallPerRoot
    /\ RefundedNeverSent
    /\ RedactedShowsNoOutput
=============================================================================
