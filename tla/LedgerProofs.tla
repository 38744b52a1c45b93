---------------------------- MODULE LedgerProofs ----------------------------
(***************************************************************************)
(* The money of the system, for any bounds: the root budget ledger, and    *)
(* the broker that pays for model calls through it.                        *)
(***************************************************************************)
EXTENDS ModelBroker, Induction

-----------------------------------------------------------------------------
(***************************************************************************)
(* Proofs about the root budget ledger, for every set of roots, groups,    *)
(* calls and sources, every limit, cost and charge.  Each step is summed   *)
(* up as a move of at most one call row, as a move of the totals of the    *)
(* roots, and as a move of the artifacts of a call; the invariants and the *)
(* finality of the books follow from the moves.                            *)
(***************************************************************************)

USE DEF RootOf, StopReasons, CallStates, BlockReasons, Artifacts, Kinds

\* The records the actions write are well typed.
LEMMA RecordTypes ==
    /\ AbsentCall \in CallRecord
    /\ AbsentBody \in BodyRecord
    /\ NewBody \in BodyRecord
<1>1. AbsentCall \in CallRecord
  BY DEF AbsentCall, CallRecord
<1>2. AbsentBody \in BodyRecord
  BY DEF AbsentBody, BodyRecord
<1>3. NewBody \in BodyRecord
  BY DEF AbsentBody, NewBody, BodyRecord
<1> QED BY <1>1, <1>2, <1>3

LEMMA NewCallType ==
    ASSUME NEW t \in Nat, NEW d \in Nat PROVE NewCall(t, d) \in CallRecord
  BY DEF NewCall, CallRecord

LEMMA AmountsAreNatural == Amounts \subseteq Nat
  BY AmountAssumption

\* What a typed state says of one call and of its root.
LEMMA RowTypes ==
    ASSUME TypeOK, NEW c \in Calls
    PROVE  /\ RootOf(c) \in Roots /\ root[RootOf(c)] \in RootRecord
           /\ call[c] \in CallRecord /\ body[c] \in BodyRecord
           /\ GroupOf[c] \in Groups /\ CostOf[c] \in Nat
<1>1. RootOf(c) \in Roots /\ GroupOf[c] \in Groups
  BY ShapeAssumption
<1>2. CostOf[c] \in Nat
  BY MoneyAssumption
<1> QED BY <1>1, <1>2 DEF TypeOK

LEMMA ChargeAmount ==
    ASSUME NEW ch \in Charges PROVE ch.amount \in Nat
<1>1. ch.amount \in Amounts
  BY DEF Charges
<1> QED BY <1>1, AmountsAreNatural

\* Booking a charge keeps roots and calls well typed: the CHECK on
\* reserved_micros keeps the difference a natural number.
LEMMA BookingTypes ==
    ASSUME TypeOK, NEW c \in Calls, NEW ch \in Charges,
           Overflows(c, ch) \/ Refundable(c)
    PROVE  /\ BookedRoot(c, ch) \in [Roots -> RootRecord]
           /\ BookedCall(c, ch) \in CallRecord
<1> DEFINE r == RootOf(c)
<1>1. /\ r \in Roots /\ root[r] \in RootRecord
      /\ call[c] \in CallRecord /\ CostOf[c] \in Nat /\ ch.amount \in Nat
  BY RowTypes, ChargeAmount
<1>2. BookedCall(c, ch) \in CallRecord
  BY <1>1 DEF BookedCall, CallRecord
<1>3. CASE Overflows(c, ch)
  <2>1. BookedRoot(c, ch) \in [Roots -> RootRecord]
    BY <1>3, <1>1 DEF BookedRoot, RootRecord, StopFirst, TypeOK
  <2> QED BY <1>2, <2>1
<1>4. CASE ~Overflows(c, ch)
  <2> DEFINE stop == IF Overruns(c, ch) THEN StopFirst(root[r].stop, "cost_overrun")
                     ELSE root[r].stop
             new == [root[r] EXCEPT !.spent = root[r].spent + ch.amount,
                                    !.reserved = root[r].reserved - CostOf[c],
                                    !.stop = stop]
  <2>1. /\ root[r].spent + ch.amount \in Nat
        /\ root[r].reserved - CostOf[c] \in Nat
        /\ stop \in StopReasons
    BY <1>1, <1>4 DEF RootRecord, Refundable, StopFirst
  <2> HIDE DEF stop
  <2>2. new \in RootRecord
    BY <1>1, <2>1 DEF RootRecord
  <2>3. BookedRoot(c, ch) = [root EXCEPT ![r] = new]
    BY <1>1, <1>4 DEF BookedRoot, TypeOK, stop
  <2> HIDE DEF new
  <2>4. BookedRoot(c, ch) \in [Roots -> RootRecord]
    BY <2>2, <2>3 DEF TypeOK
  <2> QED BY <1>2, <2>4
<1> QED BY <1>3, <1>4

\* Giving a reservation back keeps the root well typed.
LEMMA RefundType ==
    ASSUME TypeOK, NEW c \in Calls, Refundable(c)
    PROVE  Refund(c) \in [Roots -> RootRecord]
  BY RowTypes DEF Refundable, Refund, RootRecord, TypeOK

\* Holding a reservation, and opening its group, too.
LEMMA HoldType ==
    ASSUME TypeOK, NEW c \in Calls
    PROVE  /\ Hold(c) \in [Roots -> RootRecord]
           /\ EnsureGroup(c) \in [Groups -> {"absent", "open", "stopped"}]
<1>1. /\ RootOf(c) \in Roots /\ root[RootOf(c)] \in RootRecord
      /\ GroupOf[c] \in Groups /\ CostOf[c] \in Nat
  BY RowTypes
<1>2. root[RootOf(c)].reserved + CostOf[c] \in Nat
  BY <1>1 DEF RootRecord
<1>3. [root[RootOf(c)] EXCEPT !.reserved = @ + CostOf[c]] \in RootRecord
  BY <1>1, <1>2 DEF RootRecord
<1>4. Hold(c) \in [Roots -> RootRecord]
  BY <1>1, <1>3 DEF Hold, TypeOK
<1> QED BY <1>1, <1>4 DEF EnsureGroup, TypeOK

\* Changing columns of one call row within their domains.
LEMMA CallColumnTypes ==
    ASSUME NEW k \in CallRecord
    PROVE  /\ \A x \in CallStates : [k EXCEPT !.state = x] \in CallRecord
           /\ [k EXCEPT !.open = FALSE] \in CallRecord
           /\ \A ch \in Charges :
                 [k EXCEPT !.state = "uncertain", !.charge = ch] \in CallRecord
           /\ Dispatched(k) \in CallRecord
           /\ \A t, d \in Nat : Refenced(k, t, d) \in CallRecord
<1>1. \A x \in CallStates : [k EXCEPT !.state = x] \in CallRecord
  BY DEF CallRecord
<1>2. [k EXCEPT !.open = FALSE] \in CallRecord
  BY DEF CallRecord
<1>3. ASSUME NEW ch \in Charges
      PROVE  [k EXCEPT !.state = "uncertain", !.charge = ch] \in CallRecord
  BY DEF CallRecord
<1>4. Dispatched(k) \in CallRecord
  BY DEF CallRecord, Dispatched
<1>5. ASSUME NEW t \in Nat, NEW d \in Nat PROVE Refenced(k, t, d) \in CallRecord
  <2>1. k.epoch + 1 \in Nat /\ t + d \in Nat
    BY DEF CallRecord
  <2> QED BY <2>1 DEF CallRecord, Refenced
<1> QED BY <1>1, <1>2, <1>3, <1>4, <1>5

\* The verdicts a settlement can record are block reasons or "usable".
LEMMA VerdictType ==
    ASSUME NEW c \in Calls, NEW t, NEW ch, NEW forced
    PROVE  Verdict(c, t, ch, forced) \in {"usable"} \cup BlockReasons
  BY DEF Verdict, PreexistingBlock, SourceBlock

LEMMA SettledBodyType ==
    ASSUME TypeOK, NEW c \in Calls, NEW t, NEW ch, NEW forced
    PROVE  SettledBody(c, t, ch, forced) \in BodyRecord
<1>1. body[c] \in BodyRecord
  BY DEF TypeOK
<1> QED BY <1>1, VerdictType DEF SettledBody, BodyRecord

\* Initially and after every step every row has its declared columns.
LEMMA TypeInit == Init => TypeOK
  BY RecordTypes DEF Init, TypeOK, RootRecord

\* A step of any caller, whatever fence, clock or job count it presents; the
\* steps of Next are some of these.
LedgerWrite ==
    \/ Tick
    \/ \E r \in Roots : authorize_root_budget(r) \/ stop_root_budget(r)
    \/ \E g \in Groups : stop_dispatch_group(g)
    \/ \E s \in Sources : revoke_source(s)
    \/ \E c \in Calls :
          \/ \E t \in Nat, d \in LeaseTerms, j \in Nat : reserve_budget_call(c, t, d, j)
          \/ repair_budget_call_ref(c)
          \/ \E e \in Nat, t \in Nat : Fenced(c, e, t)
          \/ \E ch \in Charges : reconcile_budget_call_cost(c, ch)
          \/ close_budget_call_execution(c)
          \/ redact_budget_call_content(c)
          \/ lose_budget_call_ref(c)

LEMMA NextIsLedgerWrite == TypeOK /\ Next => LedgerWrite
<1>1. TypeOK => ClockReadings \subseteq Nat
  BY DEF ClockReadings, TypeOK
<1>2. 1..MaxEpoch \subseteq Nat /\ JobLeases \subseteq Nat
  BY LeaseAssumption
<1> QED BY <1>1, <1>2 DEF Next, LedgerWrite

LEMMA WriteKeepsTypes == TypeOK /\ [LedgerWrite]_vars => TypeOK'
<1> SUFFICES ASSUME TypeOK, [LedgerWrite]_vars PROVE TypeOK'
  OBVIOUS
<1>1. CASE UNCHANGED vars
  BY <1>1 DEF TypeOK, vars
<1>2. CASE Tick
  BY <1>2 DEF Tick, TypeOK
<1>3. ASSUME NEW r \in Roots, authorize_root_budget(r) \/ stop_root_budget(r)
      PROVE TypeOK'
  <2>1. /\ root[r] \in RootRecord
        /\ [root[r] EXCEPT !.authorized = TRUE] \in RootRecord
        /\ [root[r] EXCEPT !.stop = "operator"] \in RootRecord
    BY DEF TypeOK, RootRecord
  <2> QED BY <1>3, <2>1 DEF authorize_root_budget, stop_root_budget, TypeOK
<1>4. ASSUME NEW g \in Groups, stop_dispatch_group(g) PROVE TypeOK'
  BY <1>4 DEF stop_dispatch_group, TypeOK
<1>5. ASSUME NEW s \in Sources, revoke_source(s) PROVE TypeOK'
  BY <1>5 DEF revoke_source, TypeOK
<1>6. ASSUME NEW d \in LeaseTerms PROVE d \in Nat
  BY LeaseAssumption
<1>7. ASSUME NEW c \in Calls, NEW t \in Nat, NEW d \in LeaseTerms,
             NEW j \in Nat, reserve_budget_call(c, t, d, j)
      PROVE TypeOK'
  <2>1. NewCall(t, d) \in CallRecord /\ NewBody \in BodyRecord
    BY RecordTypes, NewCallType, <1>6
  <2> QED BY <1>7, <2>1, HoldType DEF reserve_budget_call, TypeOK
<1>8. ASSUME NEW c \in Calls, repair_budget_call_ref(c) \/ lose_budget_call_ref(c)
      PROVE TypeOK'
  <2>1. body[c] \in BodyRecord
    BY RowTypes
  <2>2. /\ [body[c] EXCEPT !.ref = TRUE] \in BodyRecord
        /\ [body[c] EXCEPT !.ref = FALSE] \in BodyRecord
    BY <2>1 DEF BodyRecord
  <2> QED BY <1>8, <2>2 DEF repair_budget_call_ref, lose_budget_call_ref, TypeOK
<1>9. ASSUME NEW c \in Calls, NEW e, NEW t \in Nat,
             NEW d \in LeaseTerms, refence_reserved_budget_call(c, e, t, d)
      PROVE TypeOK'
  <2>1. Refenced(call[c], t, d) \in CallRecord
    BY <1>6, RowTypes, CallColumnTypes
  <2> QED BY <1>9, <2>1 DEF refence_reserved_budget_call, TypeOK
<1>10. ASSUME NEW c \in Calls, NEW e, NEW t, begin_budget_dispatch(c, e, t)
       PROVE TypeOK'
  <2>1. Dispatched(call[c]) \in CallRecord
    BY RowTypes, CallColumnTypes
  <2> QED BY <1>10, <2>1 DEF begin_budget_dispatch, TypeOK
<1>11. ASSUME NEW c \in Calls
       PROVE  \A x \in CallStates : [call[c] EXCEPT !.state = x] \in CallRecord
  BY RowTypes, CallColumnTypes
<1>12. ASSUME NEW c \in Calls, NEW e,
              \/ release_undispatched_budget_call(c, e)
              \/ cancel_budget_call(c, e)
              \/ mark_budget_call_uncertain(c, e)
       PROVE TypeOK'
  <2>1. \E x \in CallStates : call' = [call EXCEPT ![c].state = x]
    BY <1>12 DEF release_undispatched_budget_call, cancel_budget_call,
                 mark_budget_call_uncertain
  <2>2. call' \in [Calls -> CallRecord]
    BY <2>1, <1>11 DEF TypeOK
  <2>3. root' \in [Roots -> RootRecord]
    BY <1>12, RefundType DEF release_undispatched_budget_call, cancel_budget_call,
                             mark_budget_call_uncertain, TypeOK
  <2> QED BY <1>12, <2>2, <2>3 DEF release_undispatched_budget_call,
             cancel_budget_call, mark_budget_call_uncertain, TypeOK
<1>13. ASSUME NEW c \in Calls, NEW e, NEW t, NEW ch \in Charges,
              \/ finalize_budget_call(c, e, t, ch)
              \/ reconcile_budget_call_cost(c, ch)
       PROVE TypeOK'
  BY <1>13, BookingTypes
     DEF finalize_budget_call, reconcile_budget_call_cost, apply_charge, TypeOK
<1>14. ASSUME NEW c \in Calls, NEW e, NEW t, NEW ch \in Charges,
              settle_registered_execution_call(c, e, t, ch)
       PROVE TypeOK'
  <2>1. /\ root' \in [Roots -> RootRecord]
        /\ [BookedCall(c, ch) EXCEPT !.open = FALSE] \in CallRecord
    BY <1>14, BookingTypes, CallColumnTypes DEF settle_registered_execution_call, apply_charge
  <2>2. ASSUME NEW v \in {"usable"} \cup BlockReasons
        PROVE  [body[c] EXCEPT !.response = "content", !.verdict = v] \in BodyRecord
    BY RowTypes DEF BodyRecord
  <2>3. body' \in [Calls -> BodyRecord]
    <3>1. \E v \in {"usable"} \cup BlockReasons :
             body' = [body EXCEPT ![c].response = "content", ![c].verdict = v]
      BY <1>14 DEF settle_registered_execution_call
    <3> QED BY <3>1, <2>2 DEF TypeOK
  <2> QED BY <1>14, <2>1, <2>3 DEF settle_registered_execution_call, TypeOK
<1>15. ASSUME NEW c \in Calls, NEW e, NEW t, NEW ch \in Charges, NEW forced \in BOOLEAN,
              settle_model_budget_call(c, e, t, ch, forced)
       PROVE TypeOK'
  <2>1. body' \in [Calls -> BodyRecord]
    BY <1>15, SettledBodyType DEF settle_model_budget_call, TypeOK
  <2>2. CASE apply_charge(c, ch) /\ call' = [call EXCEPT ![c] = BookedCall(c, ch)]
    BY <1>15, <2>1, <2>2, BookingTypes DEF settle_model_budget_call, apply_charge, TypeOK
  <2>3. CASE call' = [call EXCEPT ![c].state = "uncertain", ![c].charge = ch] /\ UNCHANGED root
    <3>1. [call[c] EXCEPT !.state = "uncertain", !.charge = ch] \in CallRecord
      BY RowTypes, CallColumnTypes
    <3> QED BY <1>15, <2>1, <2>3, <3>1 DEF settle_model_budget_call, TypeOK
  <2> QED BY <1>15, <2>2, <2>3 DEF settle_model_budget_call
<1>16. ASSUME NEW c \in Calls, close_budget_call_execution(c) PROVE TypeOK'
  <2>1. [call[c] EXCEPT !.open = FALSE] \in CallRecord
    BY RowTypes, CallColumnTypes
  <2> QED BY <1>16, <2>1 DEF close_budget_call_execution, TypeOK
<1>17. ASSUME NEW c \in Calls, redact_budget_call_content(c) PROVE TypeOK'
  <2> DEFINE new == [body[c] EXCEPT !.request = redacted_artifact(body[c].request),
                                    !.transport = redacted_artifact(body[c].transport),
                                    !.response = redacted_artifact(body[c].response),
                                    !.verdict = RedactedVerdict(c, body[c].verdict)]
  <2>1. /\ body[c] \in BodyRecord
        /\ \A x \in Artifacts : redacted_artifact(x) \in Artifacts
        /\ \A v : RedactedVerdict(c, v) \in {"none", "usable"} \cup BlockReasons
    BY RowTypes DEF redacted_artifact, RedactedVerdict
  <2>2. new \in BodyRecord
    BY <2>1 DEF BodyRecord
  <2> QED BY <1>17, <2>2 DEF redact_budget_call_content, TypeOK
<1> QED
  BY <1>1, <1>2, <1>3, <1>4, <1>5, <1>7, <1>8, <1>9, <1>10, <1>12, <1>13,
     <1>14, <1>15, <1>16, <1>17
     DEF LedgerWrite, Fenced

LEMMA TypeStep == TypeOK /\ [Next]_vars => TypeOK'
  BY NextIsLedgerWrite, WriteKeepsTypes

\* Every reachable ledger is well typed; in particular the amounts reserved on
\* a root never become negative.
THEOREM TypeCorrect == Spec => []TypeOK
  BY TypeInit, TypeStep, PTL DEF Spec

HIDE DEF RootOf, StopReasons, CallStates, BlockReasons, Artifacts, Kinds

-----------------------------------------------------------------------------
(* Moves of a call row.                                                    *)

Unsent(k) == ~k.sent /\ k.charge = NoCharge

SameMoney(k, m) == m.sent = k.sent /\ m.charge = k.charge

Created(k, m) == k.state = "absent" /\ m.state = "reserved" /\ Unsent(m)

Held(k, m) == /\ k.state = "reserved"
              /\ m.state \in {"reserved", "released", "cancelled"}
              /\ SameMoney(k, m)

Sent(k, m) == k.state = "reserved" /\ m.state = "dispatched" /\ m.sent

Answered(k, m) == /\ k.state \in {"dispatched", "uncertain"}
                  /\ m.state \in {"uncertain", "finalized"}
                  /\ m.sent = k.sent /\ (m.open => k.open)
                  /\ m.state = "finalized" => m.charge \in Charges

Closed(k, m) == /\ k.state \in {"dispatched", "uncertain", "finalized"}
                /\ m.state = k.state /\ SameMoney(k, m) /\ ~m.open

\* Call c, alone, has moved; it was sent only while its root was free.
CallMoved(c) ==
    /\ \A d \in Calls \ {c} : call'[d] = call[d]
    /\ \/ Created(call[c], call'[c])
       \/ Held(call[c], call'[c])
       \/ Sent(call[c], call'[c]) /\ ~RootBusy(c)
       \/ Answered(call[c], call'[c])
       \/ Closed(call[c], call'[c])

LEMMA BookedMove ==
    ASSUME TypeOK, NEW c \in Calls, NEW ch \in Charges, call[c].state \in {"dispatched", "uncertain"},
           call' = [call EXCEPT ![c] = BookedCall(c, ch)]
    PROVE  CallMoved(c)
<1>1. call[c] \in CallRecord /\ call \in [Calls -> CallRecord]
  BY DEF TypeOK
<1>2. call'[c] = BookedCall(c, ch) /\ \A d \in Calls \ {c} : call'[d] = call[d]
  BY <1>1
<1>3. /\ call'[c].state \in {"uncertain", "finalized"} /\ call'[c].charge = ch
      /\ call'[c].sent = call[c].sent /\ call'[c].open = call[c].open
  BY <1>1, <1>2 DEF BookedCall, CallRecord
<1> QED BY <1>2, <1>3 DEF CallMoved, Answered

\* Every step of the ledger leaves the calls alone or moves one of them.
LEMMA WriteMovesOneCall ==
    ASSUME TypeOK, [LedgerWrite]_vars
    PROVE  call' = call \/ \E c \in Calls : CallMoved(c)
<1>0. call \in [Calls -> CallRecord]
  BY DEF TypeOK
<1>1. CASE UNCHANGED vars \/ Tick
  BY <1>1 DEF vars, Tick
<1>2. ASSUME NEW r \in Roots, authorize_root_budget(r) \/ stop_root_budget(r) PROVE call' = call
  BY <1>2 DEF authorize_root_budget, stop_root_budget
<1>3. ASSUME NEW g \in Groups, stop_dispatch_group(g) PROVE call' = call
  BY <1>3 DEF stop_dispatch_group
<1>4. ASSUME NEW s \in Sources, revoke_source(s) PROVE call' = call
  BY <1>4 DEF revoke_source
<1>5. ASSUME NEW c \in Calls, NEW t, NEW d, NEW j, reserve_budget_call(c, t, d, j)
      PROVE CallMoved(c)
  BY <1>0, <1>5 DEF reserve_budget_call, NewCall, CallMoved, Created, Unsent
<1>6. ASSUME NEW c \in Calls, \/ repair_budget_call_ref(c) \/ lose_budget_call_ref(c)
                              \/ redact_budget_call_content(c)
      PROVE call' = call
  BY <1>6 DEF repair_budget_call_ref, lose_budget_call_ref, redact_budget_call_content
<1>7. ASSUME NEW c \in Calls, NEW e, NEW t, NEW d, refence_reserved_budget_call(c, e, t, d)
      PROVE CallMoved(c)
  BY <1>0, <1>7 DEF refence_reserved_budget_call, Refenceable, Refenced, CallMoved, Held,
                    SameMoney, CallRecord
<1>8. ASSUME NEW c \in Calls, NEW e, NEW t, begin_budget_dispatch(c, e, t)
      PROVE CallMoved(c)
  <2>1. ~RootBusy(c)
    BY <1>8 DEF begin_budget_dispatch, DispatchRefusal
  <2>2. Sent(call[c], call'[c])
    BY <1>0, <1>8 DEF begin_budget_dispatch, Dispatched, Sent, CallRecord
  <2> QED BY <1>0, <1>8, <2>1, <2>2 DEF begin_budget_dispatch, CallMoved
<1>9. ASSUME NEW c \in Calls, NEW e, release_undispatched_budget_call(c, e)
      PROVE CallMoved(c)
  BY <1>0, <1>9 DEF release_undispatched_budget_call, CallMoved, Held, SameMoney, CallRecord
<1>10. ASSUME NEW c \in Calls, NEW e, cancel_budget_call(c, e) PROVE CallMoved(c)
  <2>1. CASE call[c].state = "reserved"
    BY <1>0, <1>10, <2>1 DEF cancel_budget_call, CallMoved, Held, SameMoney, CallRecord
  <2>2. CASE call[c].state = "dispatched"
    BY <1>0, <1>10, <2>2 DEF cancel_budget_call, CallMoved, Answered, CallRecord
  <2> QED BY <1>10, <2>1, <2>2 DEF cancel_budget_call
<1>11. ASSUME NEW c \in Calls, NEW e, mark_budget_call_uncertain(c, e) PROVE CallMoved(c)
  BY <1>0, <1>11 DEF mark_budget_call_uncertain, CallMoved, Answered, CallRecord
<1>12. ASSUME NEW c \in Calls, NEW e, NEW t, NEW ch \in Charges,
              finalize_budget_call(c, e, t, ch) \/ reconcile_budget_call_cost(c, ch)
       PROVE CallMoved(c)
  BY <1>12, BookedMove DEF finalize_budget_call, reconcile_budget_call_cost
<1>13. ASSUME NEW c \in Calls, NEW e, NEW t, NEW ch \in Charges,
              settle_registered_execution_call(c, e, t, ch)
       PROVE CallMoved(c)
  BY <1>0, <1>13 DEF settle_registered_execution_call, BookedCall, CallMoved, Answered, CallRecord
<1>14. ASSUME NEW c \in Calls, NEW e, NEW t, NEW ch \in Charges, NEW forced,
              settle_model_budget_call(c, e, t, ch, forced)
       PROVE CallMoved(c)
  <2>1. CASE call' = [call EXCEPT ![c] = BookedCall(c, ch)]
    BY <1>14, <2>1, BookedMove DEF settle_model_budget_call
  <2>2. CASE call' = [call EXCEPT ![c].state = "uncertain", ![c].charge = ch]
    BY <1>0, <1>14, <2>2 DEF settle_model_budget_call, CallMoved, Answered, CallRecord
  <2> QED BY <1>14, <2>1, <2>2 DEF settle_model_budget_call
<1>15. ASSUME NEW c \in Calls, close_budget_call_execution(c) PROVE CallMoved(c)
  BY <1>0, <1>15 DEF close_budget_call_execution, CallMoved, Closed, SameMoney, CallRecord
<1> QED
  BY <1>1, <1>2, <1>3, <1>4, <1>5, <1>6, <1>7, <1>8, <1>9, <1>10, <1>11, <1>12,
     <1>13, <1>14, <1>15
     DEF LedgerWrite, Fenced

LEMMA StepMovesOneCall ==
    ASSUME TypeOK, [Next]_vars
    PROVE  call' = call \/ \E c \in Calls : CallMoved(c)
  BY NextIsLedgerWrite, WriteMovesOneCall

-----------------------------------------------------------------------------
(* Moves of the totals of a root.                                          *)

Committed(x) == x.spent + x.reserved

\* From row x to row y of root r: nothing spent is taken back, a stop keeps its
\* reason, and what is committed grows only within the limit or with a stop.
RootMove(r, x, y) ==
    /\ y.spent >= x.spent
    /\ x.stop # "none" => y.stop = x.stop
    /\ \/ y.stop # "none"
       \/ Committed(y) <= Committed(x)
       \/ Committed(y) <= TotalLimit[r]

LEMMA SameRoot ==
    ASSUME NEW r \in Roots, NEW x \in RootRecord PROVE RootMove(r, x, x)
<1>1. x.spent \in Nat /\ x.reserved \in Nat
  BY DEF RootRecord
<1> QED BY <1>1 DEF RootMove, Committed

\* A charge within its reservation does not raise what is committed; one above
\* it, or one that overflows, stops the root.
LEMMA BookedRootMoves ==
    ASSUME TypeOK, NEW c \in Calls, NEW ch \in Charges, apply_charge(c, ch), NEW r \in Roots
    PROVE  RootMove(r, root[r], root'[r])
<1> DEFINE q == RootOf(c)
<1>1. /\ q \in Roots /\ root[q] \in RootRecord /\ CostOf[c] \in Nat /\ ch.amount \in Nat
      /\ root \in [Roots -> RootRecord] /\ root[r] \in RootRecord
  BY RowTypes, ChargeAmount DEF TypeOK
<1>2. CASE r # q
  <2>1. root'[r] = root[r]
    BY <1>1, <1>2 DEF apply_charge, BookedRoot
  <2> QED BY <1>1, <2>1, SameRoot
<1>3. CASE r = q /\ Overflows(c, ch)
  <2>1. root'[r] = [root[r] EXCEPT !.stop = StopFirst(root[r].stop, "cost_accounting_overflow")]
    BY <1>1, <1>3 DEF apply_charge, BookedRoot
  <2>2. /\ root'[r].spent = root[r].spent
        /\ root'[r].stop = StopFirst(root[r].stop, "cost_accounting_overflow")
        /\ root[r].spent \in Nat
    BY <1>1, <2>1 DEF RootRecord
  <2> QED BY <2>2 DEF RootMove, StopFirst
<1>4. CASE r = q /\ ~Overflows(c, ch)
  <2> DEFINE stop == IF Overruns(c, ch) THEN StopFirst(root[r].stop, "cost_overrun")
                     ELSE root[r].stop
  <2>1. root'[r] = [root[r] EXCEPT !.spent = root[r].spent + ch.amount,
                                   !.reserved = root[r].reserved - CostOf[c],
                                   !.stop = stop]
    BY <1>1, <1>4 DEF apply_charge, BookedRoot
  <2> HIDE DEF stop
  <2>2. /\ root'[r].spent = root[r].spent + ch.amount
        /\ root'[r].reserved = root[r].reserved - CostOf[c]
        /\ root'[r].stop = stop
        /\ root[r].spent \in Nat /\ root[r].reserved \in Nat
    BY <1>1, <2>1 DEF RootRecord
  <2>3. CASE Overruns(c, ch)
    <3>1. stop # "none" /\ (root[r].stop # "none" => stop = root[r].stop)
      BY <2>3 DEF stop, StopFirst
    <3> QED BY <1>1, <2>2, <3>1 DEF RootMove
  <2>4. CASE ~Overruns(c, ch)
    <3>1. stop = root[r].stop
      BY <2>4 DEF stop
    <3>2. Committed(root'[r]) <= Committed(root[r])
      BY <1>1, <2>2, <2>4 DEF Committed, Overruns
    <3> QED BY <1>1, <2>2, <3>1, <3>2 DEF RootMove
  <2> QED BY <2>3, <2>4
<1> QED BY <1>2, <1>3, <1>4

\* Giving a reservation back lowers what is committed.
LEMMA RefundMoves ==
    ASSUME TypeOK, NEW c \in Calls, root' = Refund(c), NEW r \in Roots
    PROVE  RootMove(r, root[r], root'[r])
<1>1. /\ RootOf(c) \in Roots /\ CostOf[c] \in Nat
      /\ root \in [Roots -> RootRecord] /\ root[r] \in RootRecord
  BY RowTypes DEF TypeOK
<1>2. CASE r # RootOf(c)
  <2>1. root'[r] = root[r]
    BY <1>1, <1>2 DEF Refund
  <2> QED BY <1>1, <2>1, SameRoot
<1>3. CASE r = RootOf(c)
  <2>1. root'[r] = [root[r] EXCEPT !.reserved = root[r].reserved - CostOf[c]]
    BY <1>1, <1>3 DEF Refund
  <2>2. /\ root'[r].spent = root[r].spent /\ root'[r].stop = root[r].stop
        /\ root'[r].reserved = root[r].reserved - CostOf[c]
        /\ root[r].spent \in Nat /\ root[r].reserved \in Nat
    BY <1>1, <2>1 DEF RootRecord
  <2> QED BY <1>1, <2>2 DEF RootMove, Committed
<1> QED BY <1>2, <1>3

\* A new reservation stays within the limit.
LEMMA ReserveMoves ==
    ASSUME TypeOK, NEW c \in Calls, NEW t, NEW d, NEW j, reserve_budget_call(c, t, d, j),
           NEW r \in Roots
    PROVE  RootMove(r, root[r], root'[r])
<1>1. /\ RootOf(c) \in Roots /\ CostOf[c] \in Nat
      /\ root \in [Roots -> RootRecord] /\ root[r] \in RootRecord
  BY RowTypes DEF TypeOK
<1>2. CASE r # RootOf(c)
  <2>1. root'[r] = root[r]
    BY <1>1, <1>2 DEF reserve_budget_call, Hold
  <2> QED BY <1>1, <2>1, SameRoot
<1>3. CASE r = RootOf(c)
  <2>1. root'[r] = [root[r] EXCEPT !.reserved = root[r].reserved + CostOf[c]]
    BY <1>1, <1>3 DEF reserve_budget_call, Hold
  <2>2. /\ root'[r].spent = root[r].spent /\ root'[r].stop = root[r].stop
        /\ root'[r].reserved = root[r].reserved + CostOf[c]
        /\ root[r].spent \in Nat /\ root[r].reserved \in Nat
    BY <1>1, <2>1 DEF RootRecord
  <2>3. root[r].spent + root[r].reserved + CostOf[c] <= TotalLimit[r]
    BY <1>3 DEF reserve_budget_call, Reservable
  <2>4. TotalLimit[r] \in Nat
    BY MoneyAssumption
  <2> QED BY <1>1, <2>2, <2>3, <2>4 DEF RootMove, Committed
<1> QED BY <1>2, <1>3

\* Every step of the ledger moves the totals of every root that way.
LEMMA StepMovesRoots ==
    ASSUME TypeOK, [Next]_vars, NEW r \in Roots
    PROVE  RootMove(r, root[r], root'[r])
<1>0. root \in [Roots -> RootRecord] /\ root[r] \in RootRecord
  BY DEF TypeOK
<1>1. CASE UNCHANGED root
  BY <1>0, <1>1, SameRoot
<1>2. ASSUME NEW q \in Roots, authorize_root_budget(q) \/ stop_root_budget(q)
      PROVE RootMove(r, root[r], root'[r])
  <2>1. CASE r # q
    <3>1. root'[r] = root[r]
      BY <1>0, <1>2, <2>1 DEF authorize_root_budget, stop_root_budget
    <3> QED BY <1>1, <1>0, <3>1, SameRoot
  <2>2. CASE r = q
    <3>1. /\ root'[r].spent = root[r].spent /\ root'[r].reserved = root[r].reserved
          /\ root[r].spent \in Nat /\ root[r].reserved \in Nat
          /\ root[r].stop # "none" => root'[r].stop = root[r].stop
      BY <1>0, <1>2, <2>2 DEF authorize_root_budget, stop_root_budget, Stopped, RootRecord
    <3> QED BY <3>1 DEF RootMove, Committed
  <2> QED BY <2>1, <2>2
<1>3. ASSUME NEW c \in Calls, NEW e,
             \/ release_undispatched_budget_call(c, e)
             \/ cancel_budget_call(c, e)
      PROVE RootMove(r, root[r], root'[r])
  BY <1>1, <1>3, RefundMoves DEF release_undispatched_budget_call, cancel_budget_call
<1>4. ASSUME NEW c \in Calls, NEW e, NEW t, NEW ch \in Charges, NEW forced,
             \/ finalize_budget_call(c, e, t, ch)
             \/ reconcile_budget_call_cost(c, ch)
             \/ settle_registered_execution_call(c, e, t, ch)
             \/ settle_model_budget_call(c, e, t, ch, forced)
      PROVE RootMove(r, root[r], root'[r])
  BY <1>1, <1>4, BookedRootMoves DEF finalize_budget_call, reconcile_budget_call_cost,
     settle_registered_execution_call, settle_model_budget_call
<1>5. ASSUME NEW c \in Calls, NEW e, NEW t, NEW d,
             \/ refence_reserved_budget_call(c, e, t, d)
             \/ begin_budget_dispatch(c, e, t)
             \/ mark_budget_call_uncertain(c, e)
             \/ repair_budget_call_ref(c) \/ lose_budget_call_ref(c)
             \/ redact_budget_call_content(c)
             \/ close_budget_call_execution(c)
      PROVE UNCHANGED root
  BY <1>5 DEF refence_reserved_budget_call, begin_budget_dispatch, mark_budget_call_uncertain,
     repair_budget_call_ref, lose_budget_call_ref, redact_budget_call_content,
     close_budget_call_execution
<1>6. ASSUME NEW g, NEW s,
             UNCHANGED vars \/ Tick \/ stop_dispatch_group(g) \/ revoke_source(s)
      PROVE UNCHANGED root
  BY <1>6 DEF vars, Tick, stop_dispatch_group, revoke_source
<1> QED
  BY <1>1, <1>2, <1>3, <1>4, <1>5, <1>6, ReserveMoves DEF Next, Fenced

-----------------------------------------------------------------------------
(* The invariants.                                                         *)

\* The refund invariant, strengthened to every call that has not been sent.
HeldIsUnsent ==
    \A c \in Calls : call[c].state \in {"absent", "reserved", "released", "cancelled"} =>
        Unsent(call[c])

LedgerInv == TypeOK /\ OneActiveCallPerRoot /\ HeldIsUnsent /\ CommittedWithinLimit

LEMMA LedgerInit == Init => LedgerInv
<1> SUFFICES ASSUME Init PROVE LedgerInv
  OBVIOUS
<1>1. TypeOK
  BY TypeInit
<1>2. OneActiveCallPerRoot
  BY DEF Init, OneActiveCallPerRoot, Active, AbsentCall
<1>3. HeldIsUnsent
  BY DEF Init, HeldIsUnsent, Unsent, AbsentCall
<1>4. CommittedWithinLimit
  <2>1. ASSUME NEW r \in Roots PROVE root[r].spent + root[r].reserved <= TotalLimit[r]
    BY MoneyAssumption DEF Init
  <2> QED BY <2>1 DEF CommittedWithinLimit
<1> QED BY <1>1, <1>2, <1>3, <1>4 DEF LedgerInv

\* Only a dispatch makes a call active, and it found the root free.
LEMMA OneActiveStep ==
    ASSUME OneActiveCallPerRoot, NEW c \in Calls, CallMoved(c)
    PROVE  OneActiveCallPerRoot'
<1>1. \A d \in Calls \ {c} : call'[d] = call[d]
  BY DEF CallMoved
<1>2. Active(call'[c]) => Active(call[c]) \/ ~RootBusy(c)
  BY DEF CallMoved, Active, Created, Held, Sent, Answered, Closed
<1>3. ASSUME NEW d \in Calls \ {c}, RootOf(c) = RootOf(d),
             Active(call'[c]), Active(call'[d])
      PROVE FALSE
  BY <1>1, <1>2, <1>3 DEF RootBusy, OneActiveCallPerRoot
<1>4. ASSUME NEW d \in Calls \ {c}, NEW b \in Calls \ {c}, d # b, RootOf(d) = RootOf(b)
      PROVE ~(Active(call'[d]) /\ Active(call'[b]))
  BY <1>1, <1>4 DEF OneActiveCallPerRoot
<1> QED BY <1>3, <1>4 DEF OneActiveCallPerRoot, Active

LEMMA HeldStep ==
    ASSUME HeldIsUnsent, NEW c \in Calls, CallMoved(c)
    PROVE  HeldIsUnsent'
<1>1. \A d \in Calls \ {c} : call'[d] = call[d]
  BY DEF CallMoved
<1>2. call'[c].state \in {"absent", "reserved", "released", "cancelled"} => Unsent(call'[c])
  BY DEF CallMoved, HeldIsUnsent, Unsent, SameMoney, Created, Held, Sent, Answered, Closed
<1> QED BY <1>1, <1>2 DEF HeldIsUnsent, Unsent

LEMMA LimitStep ==
    ASSUME TypeOK, TypeOK', CommittedWithinLimit, [Next]_vars
    PROVE  CommittedWithinLimit'
<1> SUFFICES ASSUME NEW r \in Roots
             PROVE  root'[r].stop # "none" \/ root'[r].spent + root'[r].reserved <= TotalLimit[r]
  BY DEF CommittedWithinLimit, Stopped
<1>1. RootMove(r, root[r], root'[r])
  BY StepMovesRoots
<1>2. root[r].stop # "none" \/ Committed(root[r]) <= TotalLimit[r]
  BY DEF CommittedWithinLimit, Stopped, Committed
<1>3. Committed(root[r]) \in Nat /\ Committed(root'[r]) \in Nat /\ TotalLimit[r] \in Nat
  BY MoneyAssumption DEF TypeOK, RootRecord, Committed
<1>4. root'[r].stop # "none" \/ Committed(root'[r]) <= TotalLimit[r]
  BY <1>1, <1>2, <1>3 DEF RootMove
<1> QED BY <1>4 DEF Committed

LEMMA LedgerStep == LedgerInv /\ [Next]_vars => LedgerInv'
<1> SUFFICES ASSUME LedgerInv, [Next]_vars PROVE LedgerInv'
  OBVIOUS
<1>1. TypeOK /\ TypeOK'
  BY TypeStep DEF LedgerInv
<1>2. CommittedWithinLimit'
  BY <1>1, LimitStep DEF LedgerInv
<1>3. CASE call' = call
  BY <1>1, <1>2, <1>3 DEF LedgerInv, OneActiveCallPerRoot, HeldIsUnsent, Active, Unsent
<1>4. ASSUME NEW c \in Calls, CallMoved(c) PROVE LedgerInv'
  BY <1>1, <1>2, <1>4, OneActiveStep, HeldStep DEF LedgerInv
<1> QED BY <1>1, <1>3, <1>4, StepMovesOneCall

LEMMA LedgerInvariant == Spec => []LedgerInv
  BY LedgerInit, LedgerStep, PTL DEF Spec

\* One provider execution per billing root, for any number of calls, groups and
\* roots and every order of dispatch, settlement, reconciliation and close.
THEOREM OneExecutionPerRoot == Spec => []OneActiveCallPerRoot
<1>1. LedgerInv => OneActiveCallPerRoot
  BY DEF LedgerInv
<1> QED BY <1>1, LedgerInvariant, PTL

\* A root that has not been stopped never commits more than its limit.
THEOREM LimitIsKept == Spec => []CommittedWithinLimit
<1>1. LedgerInv => CommittedWithinLimit
  BY DEF LedgerInv
<1> QED BY <1>1, LedgerInvariant, PTL

\* A reservation is given back only for a call that was never sent or charged.
THEOREM RefundsAreSound == Spec => []RefundedNeverSent
<1>1. LedgerInv => RefundedNeverSent
  BY DEF LedgerInv, HeldIsUnsent, RefundedNeverSent, Unsent
<1> QED BY <1>1, LedgerInvariant, PTL

\* The books are append-only: every step keeps what has been spent, the first
\* stop reason, and the outcome and the charge of an ended call.
THEOREM BooksAreAppendOnly == Spec => BooksAreFinal
<1> DEFINE Final ==
       /\ \A r \in Roots : /\ root'[r].spent >= root[r].spent
                           /\ Stopped(r) => root'[r].stop = root[r].stop
       /\ \A c \in Calls :
             call[c].state \in {"finalized", "released", "cancelled"} =>
                 /\ call'[c].state = call[c].state
                 /\ call'[c].charge = call[c].charge
<1>1. ASSUME TypeOK, [Next]_vars PROVE Final
  <2>1. \A r \in Roots : /\ root'[r].spent >= root[r].spent
                         /\ Stopped(r) => root'[r].stop = root[r].stop
    BY <1>1, StepMovesRoots DEF RootMove, Stopped
  <2>2. ASSUME NEW c \in Calls, call[c].state \in {"finalized", "released", "cancelled"}
        PROVE  call'[c].state = call[c].state /\ call'[c].charge = call[c].charge
    <3>1. CASE call' = call
      BY <3>1
    <3>2. ASSUME NEW d \in Calls, CallMoved(d)
          PROVE  call'[c].state = call[c].state /\ call'[c].charge = call[c].charge
      BY <2>2, <3>2 DEF CallMoved, Created, Held, Sent, Answered, Closed, SameMoney
    <3> QED BY <1>1, <3>1, <3>2, StepMovesOneCall
  <2> QED BY <2>1, <2>2
<1>2. TypeOK /\ [Next]_vars => [Final]_vars
  BY <1>1
<1> QED BY <1>2, TypeCorrect, PTL DEF Spec, BooksAreFinal

-----------------------------------------------------------------------------
(* The content of revoked sources: output over a revoked source is         *)
(* withheld, and a redacted call never shows output again.                 *)

USE DEF Kinds, Artifacts

\* The row of a call that exists keeps its request, in the clear or redacted; a
\* model call is redacted only for a revoked source.  Without the second part a
\* late settlement could find the reference in place and the sources live.
RequestKept(c) == call[c].state # "absent" => body[c].request # "none"

NoOutput(b) == b.transport # "content" /\ b.verdict # "usable"

RedactionSound(c) ==
    KindOf[c] # "registered" /\ body[c].request = "redacted" =>
        /\ NoOutput(body[c])
        /\ KindOf[c] = "model" => SourcesOf[c] \cap revoked # {}

ContentInv == TypeOK /\ \A c \in Calls : RequestKept(c) /\ RedactionSound(c)

-----------------------------------------------------------------------------
\* A call whose request has been redacted is blocked by its sources, whether its
\* reference is still there or not: an unreadable closure is not an empty one.
LEMMA RedactedIsBlocked ==
    ASSUME NEW c \in Calls, KindOf[c] # "registered", RedactionSound(c),
           body[c].request = "redacted"
    PROVE  SourceBlock(c, body[c]) # "none"
<1>1. CASE KindOf[c] = "e16"
  <2>1. ~E16Live(c, body[c])
    BY DEF E16Live
  <2> QED BY <1>1, <2>1 DEF SourceBlock
<1>2. CASE KindOf[c] = "model"
  <2>1. SourcesOf[c] \cap revoked # {}
    BY <1>2 DEF RedactionSound
  <2>2. CASE body[c].ref
    <3>1. source_closure_blocked(c, body[c])
      BY <2>1, <2>2 DEF source_closure_blocked, LegacySources
    <3> QED BY <1>2, <3>1 DEF SourceBlock
  <2>3. CASE ~body[c].ref
    <3>1. Unverifiable(c, body[c])
      BY <2>3 DEF Unverifiable
    <3> QED BY <1>2, <3>1 DEF SourceBlock
  <2> QED BY <2>2, <2>3
<1> QED BY <1>1, <1>2, ShapeAssumption

\* So is a call that exists and names a revoked source.
LEMMA RevokedIsBlocked ==
    ASSUME TypeOK, NEW c \in Calls, KindOf[c] # "registered", RequestKept(c),
           call[c].state # "absent", SourcesOf[c] \cap revoked # {}
    PROVE  SourceBlock(c, body[c]) # "none"
<1>1. body[c].request \in {"content", "redacted"}
  BY RowTypes DEF RequestKept, BodyRecord
<1>2. CASE KindOf[c] = "e16"
  <2>1. ~E16Live(c, body[c])
    BY DEF E16Live
  <2> QED BY <1>2, <2>1 DEF SourceBlock
<1>3. CASE KindOf[c] # "e16"
  <2>1. source_closure_blocked(c, body[c]) \/ Unverifiable(c, body[c])
    BY <1>1 DEF source_closure_blocked, LegacySources, Unverifiable
  <2> QED BY <1>3, <2>1 DEF SourceBlock
<1> QED BY <1>2, <1>3

\* Over blocked sources a settlement withholds the output whatever the verdict.
LEMMA BlockedIsWithheld ==
    ASSUME TypeOK, NEW c \in Calls, NEW t, NEW ch, NEW forced, SourceBlock(c, body[c]) # "none"
    PROVE  NoOutput(SettledBody(c, t, ch, forced))
<1>1. body[c] \in BodyRecord
  BY RowTypes
<1>2. SourceBlock(c, body[c]) # "usable"
  BY DEF SourceBlock
<1>3. Verdict(c, t, ch, forced) # "usable"
  BY <1>2 DEF Verdict, PreexistingBlock
<1>4. SettledBody(c, t, ch, forced).transport = "redacted"
  BY <1>1 DEF SettledBody, Withheld, BodyRecord
<1>5. SettledBody(c, t, ch, forced).verdict = Verdict(c, t, ch, forced)
  BY <1>1 DEF SettledBody, BodyRecord
<1> QED BY <1>3, <1>4, <1>5 DEF NoOutput

\* The request column after a settlement.
LEMMA SettledRequest ==
    ASSUME TypeOK, NEW c \in Calls, NEW t, NEW ch, NEW forced
    PROVE  LET b == SettledBody(c, t, ch, forced) IN
           \/ b.request = body[c].request
           \/ b.request = "redacted" /\ KindOf[c] = "e16" /\ SourceBlock(c, body[c]) # "none"
<1>1. body[c] \in BodyRecord
  BY RowTypes
<1>2. CASE KindOf[c] = "e16" /\ Withheld(c, t, ch, forced)
  BY <1>1, <1>2 DEF SettledBody, Withheld, BodyRecord
<1>3. CASE ~(KindOf[c] = "e16" /\ Withheld(c, t, ch, forced))
  BY <1>1, <1>3 DEF SettledBody, BodyRecord
<1> QED BY <1>2, <1>3

-----------------------------------------------------------------------------
(* Moves of the artifact columns.                                          *)

SameContent(b, m) ==
    m.request = b.request /\ m.transport = b.transport /\ m.verdict = b.verdict

\* What one step may do to the artifacts of call c.
BodyMoved(c) ==
    \/ SameContent(body[c], body'[c])
    \/ call[c].state = "absent" /\ body'[c].request = "content" /\ NoOutput(body'[c])
    \/ KindOf[c] = "registered" /\ body'[c].request = body[c].request
    \/ /\ call[c].state # "absent"
       /\ KindOf[c] # "registered"
       /\ \E t, ch, forced : body'[c] = SettledBody(c, t, ch, forced)
    \/ /\ SourcesOf[c] \cap revoked # {}
       /\ body'[c].request = "redacted" /\ NoOutput(body'[c])

LEMMA RedactMoves ==
    ASSUME TypeOK, NEW c \in Calls, redact_budget_call_content(c)
    PROVE  BodyMoved(c)
<1> DEFINE v == RedactedVerdict(c, body[c].verdict)
           a == redacted_artifact(body[c].transport)
<1>1. body[c] \in BodyRecord /\ body \in [Calls -> BodyRecord]
  BY DEF TypeOK
<1>2. v # "usable" /\ a # "content" /\ redacted_artifact("content") = "redacted"
  BY DEF RedactedVerdict, redacted_artifact
<1>3. body'[c].request = "redacted" /\ body'[c].transport = a /\ body'[c].verdict = v
  BY <1>1, <1>2 DEF redact_budget_call_content, BodyRecord
<1> HIDE DEF v, a
<1> QED BY <1>2, <1>3 DEF BodyMoved, NoOutput, redact_budget_call_content

\* Every step of the ledger moves the artifacts of every call that way, keeps
\* tombstones, and creates no call without its request.
LEMMA StepMovesBody ==
    ASSUME TypeOK, [Next]_vars, NEW c \in Calls
    PROVE  /\ BodyMoved(c)
           /\ revoked \subseteq revoked'
           /\ call[c].state = "absent" =>
                 call'[c].state = "absent" \/ body'[c].request = "content"
<1> DEFINE Goal == /\ BodyMoved(c) /\ revoked \subseteq revoked'
                   /\ call[c].state = "absent" =>
                         call'[c].state = "absent" \/ body'[c].request = "content"
<1>0. /\ call \in [Calls -> CallRecord] /\ body \in [Calls -> BodyRecord]
      /\ call[c] \in CallRecord /\ body[c] \in BodyRecord
  BY DEF TypeOK
<1>1. CASE UNCHANGED <<call, body>> /\ revoked \subseteq revoked'
  BY <1>1 DEF BodyMoved, SameContent
<1>2. ASSUME NEW r, NEW g, NEW s,
             \/ UNCHANGED vars \/ Tick \/ stop_dispatch_group(g) \/ revoke_source(s)
             \/ authorize_root_budget(r) \/ stop_root_budget(r)
      PROVE UNCHANGED <<call, body>> /\ revoked \subseteq revoked'
  BY <1>2 DEF vars, Tick, stop_dispatch_group, revoke_source, authorize_root_budget,
              stop_root_budget
\* A step on another call leaves this one alone.
<1>3. ASSUME NEW d \in Calls, d # c, UNCHANGED revoked,
             \/ UNCHANGED body \/ \E b : body' = [body EXCEPT ![d] = b],
             \/ UNCHANGED call \/ \E k : call' = [call EXCEPT ![d] = k]
      PROVE Goal
  <2>1. body'[c] = body[c] /\ call'[c] = call[c]
    BY <1>0, <1>3
  <2> QED BY <1>3, <2>1 DEF BodyMoved, SameContent
<1>4. ASSUME NEW d \in Calls, NEW t, NEW e, NEW j, reserve_budget_call(d, t, e, j) PROVE Goal
  <2>1. CASE d # c
    BY <1>3, <1>4, <2>1 DEF reserve_budget_call
  <2>2. CASE d = c
    BY <1>0, <1>4, <2>2 DEF reserve_budget_call, NewBody, AbsentBody, BodyMoved, NoOutput
  <2> QED BY <2>1, <2>2
<1>5. ASSUME NEW d \in Calls, repair_budget_call_ref(d) \/ lose_budget_call_ref(d) PROVE Goal
  <2>1. /\ SameContent(body[c], body'[c]) /\ UNCHANGED <<call, revoked>>
    BY <1>0, <1>5 DEF repair_budget_call_ref, lose_budget_call_ref, SameContent, BodyRecord
  <2> QED BY <2>1 DEF BodyMoved
<1>6. ASSUME NEW d \in Calls, redact_budget_call_content(d) PROVE Goal
  <2>1. CASE d # c
    <3>1. body'[c] = body[c] /\ UNCHANGED <<call, revoked>>
      BY <1>0, <1>6, <2>1 DEF redact_budget_call_content
    <3> QED BY <3>1 DEF BodyMoved, SameContent
  <2>2. CASE d = c
    BY <1>6, <2>2, RedactMoves DEF redact_budget_call_content
  <2> QED BY <2>1, <2>2
<1>7. ASSUME NEW d \in Calls, call[d].state # "absent", UNCHANGED <<body, revoked>>,
             \A b \in Calls \ {d} : call'[b] = call[b]
      PROVE Goal
  BY <1>7 DEF BodyMoved, SameContent
<1>8. ASSUME NEW d \in Calls, NEW e, NEW t, NEW x, NEW ch,
             \/ refence_reserved_budget_call(d, e, t, x)
             \/ begin_budget_dispatch(d, e, t)
             \/ release_undispatched_budget_call(d, e)
             \/ cancel_budget_call(d, e)
             \/ mark_budget_call_uncertain(d, e)
             \/ finalize_budget_call(d, e, t, ch)
             \/ reconcile_budget_call_cost(d, ch)
             \/ close_budget_call_execution(d)
      PROVE Goal
  <2>1. call[d].state # "absent" /\ UNCHANGED <<body, revoked>>
    BY <1>8 DEF refence_reserved_budget_call, Refenceable, begin_budget_dispatch,
       release_undispatched_budget_call, cancel_budget_call, mark_budget_call_uncertain,
       finalize_budget_call, reconcile_budget_call_cost, close_budget_call_execution
  <2>2. \A b \in Calls \ {d} : call'[b] = call[b]
    BY <1>0, <1>8 DEF refence_reserved_budget_call, begin_budget_dispatch,
       release_undispatched_budget_call, cancel_budget_call, mark_budget_call_uncertain,
       finalize_budget_call, reconcile_budget_call_cost, close_budget_call_execution
  <2> QED BY <1>7, <2>1, <2>2
<1>9. ASSUME NEW d \in Calls, NEW e, NEW t, NEW ch, settle_registered_execution_call(d, e, t, ch)
      PROVE Goal
  <2>1. CASE d # c
    <3>1. body'[c] = body[c] /\ call'[c] = call[c] /\ UNCHANGED revoked
      BY <1>0, <1>9, <2>1 DEF settle_registered_execution_call
    <3> QED BY <3>1 DEF BodyMoved, SameContent
  <2>2. CASE d = c
    <3>1. /\ KindOf[c] = "registered" /\ call[c].state # "absent" /\ UNCHANGED revoked
          /\ body'[c].request = body[c].request
      BY <1>0, <1>9, <2>2 DEF settle_registered_execution_call, BodyRecord
    <3> QED BY <3>1 DEF BodyMoved
  <2> QED BY <2>1, <2>2
<1>10. ASSUME NEW d \in Calls, NEW e, NEW t, NEW ch, NEW forced,
              settle_model_budget_call(d, e, t, ch, forced)
       PROVE Goal
  <2>1. CASE d # c
    <3>1. body'[c] = body[c] /\ call'[c] = call[c] /\ UNCHANGED revoked
      BY <1>0, <1>10, <2>1 DEF settle_model_budget_call
    <3> QED BY <3>1 DEF BodyMoved, SameContent
  <2>2. CASE d = c
    <3>1. /\ KindOf[c] # "registered" /\ call[c].state # "absent" /\ UNCHANGED revoked
          /\ body'[c] = SettledBody(c, t, ch, forced)
      BY <1>0, <1>10, <2>2 DEF settle_model_budget_call
    <3> QED BY <3>1 DEF BodyMoved
  <2> QED BY <2>1, <2>2
<1> QED
  BY <1>1, <1>2, <1>4, <1>5, <1>6, <1>8, <1>9, <1>10 DEF Next, Fenced

-----------------------------------------------------------------------------
LEMMA ContentInit == Init => ContentInv
<1> SUFFICES ASSUME Init PROVE ContentInv
  OBVIOUS
<1>1. ASSUME NEW c \in Calls PROVE RequestKept(c) /\ RedactionSound(c)
  BY DEF Init, AbsentCall, AbsentBody, RequestKept, RedactionSound
<1> QED BY <1>1, TypeInit DEF ContentInv

LEMMA ContentStep == ContentInv /\ [Next]_vars => ContentInv'
<1> SUFFICES ASSUME ContentInv, [Next]_vars PROVE ContentInv'
  OBVIOUS
<1>1. TypeOK /\ TypeOK'
  BY TypeStep DEF ContentInv
<1>2. ASSUME NEW c \in Calls PROVE RequestKept(c)' /\ RedactionSound(c)'
  <2>1. /\ BodyMoved(c) /\ revoked \subseteq revoked'
        /\ call[c].state = "absent" =>
              call'[c].state = "absent" \/ body'[c].request = "content"
    BY <1>1, StepMovesBody
  <2>2. RequestKept(c) /\ RedactionSound(c)
    BY DEF ContentInv
  <2>3. SourcesOf[c] \cap revoked # {} => SourcesOf[c] \cap revoked' # {}
    BY <2>1
  <2>4. CASE SameContent(body[c], body'[c])
    <3>1. RequestKept(c)'
      BY <2>1, <2>2, <2>4 DEF SameContent, RequestKept
    <3>2. RedactionSound(c)'
      BY <2>2, <2>3, <2>4 DEF SameContent, RedactionSound, NoOutput
    <3> QED BY <3>1, <3>2
  <2>5. CASE call[c].state = "absent" /\ body'[c].request = "content" /\ NoOutput(body'[c])
    BY <2>5 DEF RequestKept, RedactionSound
  <2>6. CASE KindOf[c] = "registered" /\ body'[c].request = body[c].request
    BY <2>1, <2>2, <2>6 DEF RequestKept, RedactionSound
  <2>7. ASSUME call[c].state # "absent", KindOf[c] # "registered",
               NEW t, NEW ch, NEW forced, body'[c] = SettledBody(c, t, ch, forced)
        PROVE  RequestKept(c)' /\ RedactionSound(c)'
    <3>1. \/ body'[c].request = body[c].request
          \/ body'[c].request = "redacted" /\ KindOf[c] = "e16" /\ SourceBlock(c, body[c]) # "none"
      BY <1>1, <2>7, SettledRequest
    <3>2. RequestKept(c)'
      BY <2>2, <2>7, <3>1 DEF RequestKept
    <3>3. ASSUME body'[c].request = "redacted"
          PROVE  SourceBlock(c, body[c]) # "none"
      BY <2>2, <2>7, <3>1, <3>3, RedactedIsBlocked
    <3>4. body'[c].request = "redacted" => NoOutput(body'[c])
      BY <1>1, <2>7, <3>3, BlockedIsWithheld
    <3>5. body'[c].request = "redacted" /\ KindOf[c] = "model" => SourcesOf[c] \cap revoked # {}
      BY <2>2, <2>7, <3>1 DEF RedactionSound
    <3> QED BY <2>3, <3>2, <3>4, <3>5 DEF RedactionSound, NoOutput
  <2>8. CASE /\ SourcesOf[c] \cap revoked # {}
             /\ body'[c].request = "redacted" /\ NoOutput(body'[c])
    BY <2>3, <2>8 DEF RequestKept, RedactionSound, NoOutput
  <2> QED BY <2>1, <2>4, <2>5, <2>6, <2>7, <2>8 DEF BodyMoved
<1> QED BY <1>1, <1>2 DEF ContentInv

LEMMA ContentInvariant == Spec => []ContentInv
  BY ContentInit, ContentStep, PTL DEF Spec

\* A model call whose request the cleanup has redacted never shows output again,
\* however late its settlement comes and even if its reference was lost.
THEOREM RedactionIsFinal == Spec => []RedactedShowsNoOutput
<1>1. ContentInv => RedactedShowsNoOutput
  BY DEF ContentInv, RedactionSound, NoOutput, RedactedShowsNoOutput
<1> QED BY <1>1, ContentInvariant, PTL

\* No step makes a response usable, or a transport body readable, over a source
\* that had been revoked before the step.
THEOREM OutputNeedsLiveSources == Spec => OutputOnlyOverLiveSources
<1> DEFINE Live == \A c \in Calls :
              KindOf[c] # "registered" /\ SourcesOf[c] \cap revoked # {} =>
                  /\ body'[c].verdict = "usable" => body[c].verdict = "usable"
                  /\ body'[c].transport = "content" => body[c].transport = "content"
<1>1. ASSUME ContentInv, [Next]_vars PROVE Live
  <2> SUFFICES ASSUME NEW c \in Calls, KindOf[c] # "registered", SourcesOf[c] \cap revoked # {}
               PROVE  SameContent(body[c], body'[c]) \/ NoOutput(body'[c])
    BY DEF SameContent, NoOutput
  <2>1. TypeOK /\ RequestKept(c) /\ BodyMoved(c)
    BY <1>1, StepMovesBody DEF ContentInv
  <2>2. ASSUME call[c].state # "absent", NEW t, NEW ch, NEW forced,
               body'[c] = SettledBody(c, t, ch, forced)
        PROVE  NoOutput(body'[c])
    BY <2>1, <2>2, RevokedIsBlocked, BlockedIsWithheld
  <2> QED BY <2>1, <2>2 DEF BodyMoved
<1>2. ContentInv /\ [Next]_vars => [Live]_vars
  BY <1>1
<1> QED BY <1>2, ContentInvariant, PTL DEF Spec, OutputOnlyOverLiveSources

\* The ledger, for every set of roots, calls and sources: whatever order callers,
\* settlements, operators and cleanup take, no two calls of a root are in flight,
\* no refunded call was sent and no redacted call shows output.
THEOREM LedgerIsSafe == Spec => []LedgerSafe
  BY TypeCorrect, OneExecutionPerRoot, RefundsAreSound, RedactionIsFinal, PTL
     DEF LedgerSafe

-----------------------------------------------------------------------------
(* The totals of a root are the sums over its calls.                       *)

Holds(k) == k.state \in {"reserved", "dispatched", "uncertain"}
IsCharged(k) == k.state = "finalized"

\* Row m counts in the sums as row k does.
SameEntry(k, m) ==
    /\ Holds(m) <=> Holds(k)
    /\ IsCharged(m) <=> IsCharged(k)
    /\ IsCharged(k) => m.charge = k.charge

\* From row x to row y of a root: `spent` and `reserved` have grown by that much.
Grown(x, y, spent, reserved) ==
    y.spent = x.spent + spent /\ y.reserved = x.reserved + reserved

\* Call c moves alone, and the totals of its root move with it.
EntryMoved(c) ==
    LET k == call[c]
        m == call'[c]
        x == root[RootOf(c)]
        y == root'[RootOf(c)]
    IN \/ SameEntry(k, m) /\ Grown(x, y, 0, 0)
       \/ k.state = "absent" /\ m.state = "reserved" /\ Grown(x, y, 0, CostOf[c])
       \/ Holds(k) /\ m.state \in {"released", "cancelled"} /\ Grown(x, y, 0, -CostOf[c])
       \/ Holds(k) /\ IsCharged(m) /\ Grown(x, y, m.charge.amount, -CostOf[c])

BalanceMoved(c) ==
    /\ \A d \in Calls \ {c} : call'[d] = call[d]
    /\ \A r \in Roots \ {RootOf(c)} : Grown(root[r], root'[r], 0, 0)
    /\ EntryMoved(c)

BalanceKept ==
    /\ call' = call
    /\ \A r \in Roots : Grown(root[r], root'[r], 0, 0)

LEMMA RootSums ==
    ASSUME TypeOK, NEW r \in Roots
    PROVE  /\ root[r] \in RootRecord /\ root[r].spent \in Nat /\ root[r].reserved \in Nat
           /\ Grown(root[r], root[r], 0, 0)
<1>1. root[r] \in RootRecord
  BY DEF TypeOK
<1>2. root[r].spent \in Nat /\ root[r].reserved \in Nat
  BY <1>1 DEF RootRecord
<1> QED BY <1>1, <1>2 DEF Grown

\* Booking a charge moves the call and its root together, also on an overflow,
\* which books nothing.
LEMMA BookedBalance ==
    ASSUME TypeOK, NEW c \in Calls, NEW ch \in Charges, apply_charge(c, ch),
           Holds(call[c]), NEW m, call' = [call EXCEPT ![c] = m],
           m.state = BookedCall(c, ch).state, m.charge = ch
    PROVE  BalanceMoved(c)
<1> DEFINE q == RootOf(c)
<1>1. /\ q \in Roots /\ root[q] \in RootRecord /\ CostOf[c] \in Nat /\ ch.amount \in Nat
      /\ root \in [Roots -> RootRecord] /\ call \in [Calls -> CallRecord]
  BY RowTypes, ChargeAmount DEF TypeOK
<1>2. call'[c] = m /\ \A d \in Calls \ {c} : call'[d] = call[d]
  BY <1>1
<1>3. \A r \in Roots \ {q} : root'[r] = root[r]
  BY <1>1 DEF apply_charge, BookedRoot
<1>4. \A r \in Roots \ {q} : Grown(root[r], root'[r], 0, 0)
  BY <1>3, RootSums
<1>5. root[q].spent \in Nat /\ root[q].reserved \in Nat
  BY <1>1, RootSums
<1>6. m.state = IF Overflows(c, ch) THEN "uncertain" ELSE "finalized"
  <2>1. call[c] \in CallRecord
    BY <1>1
  <2> QED BY <2>1 DEF BookedCall, CallRecord
<1>7. CASE Overflows(c, ch)
  <2>1. root'[q] = [root[q] EXCEPT !.stop = StopFirst(root[q].stop, "cost_accounting_overflow")]
    BY <1>1, <1>7 DEF apply_charge, BookedRoot
  <2>2. root'[q].spent = root[q].spent /\ root'[q].reserved = root[q].reserved
    BY <1>1, <2>1 DEF RootRecord
  <2>3. Grown(root[q], root'[q], 0, 0)
    BY <1>5, <2>2 DEF Grown
  <2>4. SameEntry(call[c], m)
    BY <1>6, <1>7 DEF SameEntry, Holds, IsCharged
  <2> QED BY <1>2, <1>4, <2>3, <2>4 DEF BalanceMoved, EntryMoved
<1>8. CASE ~Overflows(c, ch)
  <2> DEFINE stop == IF Overruns(c, ch) THEN StopFirst(root[q].stop, "cost_overrun")
                     ELSE root[q].stop
  <2>1. root'[q] = [root[q] EXCEPT !.spent = root[q].spent + ch.amount,
                                   !.reserved = root[q].reserved - CostOf[c],
                                   !.stop = stop]
    BY <1>1, <1>8 DEF apply_charge, BookedRoot
  <2> HIDE DEF stop
  <2>2. /\ root'[q].spent = root[q].spent + ch.amount
        /\ root'[q].reserved = root[q].reserved - CostOf[c]
    BY <1>1, <2>1 DEF RootRecord
  <2>3. Grown(root[q], root'[q], ch.amount, -CostOf[c])
    BY <1>1, <1>5, <2>2 DEF Grown
  <2>4. IsCharged(m)
    BY <1>6, <1>8 DEF IsCharged
  <2> QED BY <1>2, <1>4, <2>3, <2>4 DEF BalanceMoved, EntryMoved
<1> QED BY <1>7, <1>8

LEMMA RefundBalance ==
    ASSUME TypeOK, NEW c \in Calls, call[c].state = "reserved", root' = Refund(c),
           NEW x \in {"released", "cancelled"}, call' = [call EXCEPT ![c].state = x]
    PROVE  BalanceMoved(c)
<1> DEFINE q == RootOf(c)
<1>1. /\ q \in Roots /\ root[q] \in RootRecord /\ CostOf[c] \in Nat
      /\ root \in [Roots -> RootRecord] /\ call \in [Calls -> CallRecord]
  BY RowTypes DEF TypeOK
<1>2. call'[c].state = x /\ \A d \in Calls \ {c} : call'[d] = call[d]
  BY <1>1 DEF CallRecord
<1>3. \A r \in Roots \ {q} : Grown(root[r], root'[r], 0, 0)
  BY <1>1, RootSums DEF Refund
<1>4. Grown(root[q], root'[q], 0, -CostOf[c])
  <2>1. root'[q] = [root[q] EXCEPT !.reserved = root[q].reserved - CostOf[c]]
    BY <1>1 DEF Refund
  <2>2. root'[q].spent = root[q].spent /\ root'[q].reserved = root[q].reserved - CostOf[c]
    BY <1>1, <2>1 DEF RootRecord
  <2> QED BY <1>1, <2>2, RootSums DEF Grown
<1> QED BY <1>2, <1>3, <1>4 DEF BalanceMoved, EntryMoved, Holds

LEMMA HoldBalance ==
    ASSUME TypeOK, NEW c \in Calls, NEW t, NEW d, NEW j, reserve_budget_call(c, t, d, j)
    PROVE  BalanceMoved(c)
<1> DEFINE q == RootOf(c)
<1>1. /\ q \in Roots /\ root[q] \in RootRecord /\ CostOf[c] \in Nat
      /\ root \in [Roots -> RootRecord] /\ call \in [Calls -> CallRecord]
  BY RowTypes DEF TypeOK
<1>2. /\ call[c].state = "absent" /\ call'[c].state = "reserved"
      /\ \A b \in Calls \ {c} : call'[b] = call[b]
  BY <1>1 DEF reserve_budget_call, NewCall
<1>3. \A r \in Roots \ {q} : Grown(root[r], root'[r], 0, 0)
  BY <1>1, RootSums DEF reserve_budget_call, Hold
<1>4. Grown(root[q], root'[q], 0, CostOf[c])
  <2>1. root'[q] = [root[q] EXCEPT !.reserved = root[q].reserved + CostOf[c]]
    BY <1>1 DEF reserve_budget_call, Hold
  <2>2. root'[q].spent = root[q].spent /\ root'[q].reserved = root[q].reserved + CostOf[c]
    BY <1>1, <2>1 DEF RootRecord
  <2> QED BY <1>1, <2>2, RootSums DEF Grown
<1> QED BY <1>2, <1>3, <1>4 DEF BalanceMoved, EntryMoved

\* A step that leaves the totals alone and changes columns of one call that do
\* not count.
LEMMA EntryKept ==
    ASSUME TypeOK, NEW c \in Calls, UNCHANGED root,
           \A d \in Calls \ {c} : call'[d] = call[d], SameEntry(call[c], call'[c])
    PROVE  BalanceMoved(c)
<1>1. RootOf(c) \in Roots
  BY RowTypes
<1>2. \A r \in Roots : Grown(root[r], root'[r], 0, 0)
  BY RootSums
<1> QED BY <1>1, <1>2 DEF BalanceMoved, EntryMoved

\* Every step moves the books of at most one call, with those of its root.
LEMMA StepMovesBalance ==
    ASSUME TypeOK, [Next]_vars
    PROVE  BalanceKept \/ \E c \in Calls : BalanceMoved(c)
<1>0. call \in [Calls -> CallRecord] /\ root \in [Roots -> RootRecord]
  BY DEF TypeOK
<1>1. ASSUME UNCHANGED <<root, call>> PROVE BalanceKept
  BY <1>1, RootSums DEF BalanceKept
<1>2. ASSUME NEW r \in Roots, authorize_root_budget(r) \/ stop_root_budget(r)
      PROVE BalanceKept
  <2>1. call' = call
    BY <1>2 DEF authorize_root_budget, stop_root_budget
  <2>2. ASSUME NEW q \in Roots
        PROVE  root'[q].spent = root[q].spent /\ root'[q].reserved = root[q].reserved
    <3>1. root[r] \in RootRecord
      BY <1>0
    <3> QED BY <1>0, <1>2, <3>1 DEF authorize_root_budget, stop_root_budget, RootRecord
  <2> QED BY <2>1, <2>2, RootSums DEF BalanceKept, Grown
<1>3. ASSUME NEW g, NEW s, NEW c,
             \/ UNCHANGED vars \/ Tick \/ stop_dispatch_group(g) \/ revoke_source(s)
             \/ repair_budget_call_ref(c) \/ lose_budget_call_ref(c)
             \/ redact_budget_call_content(c)
      PROVE BalanceKept
  BY <1>1, <1>3 DEF vars, Tick, stop_dispatch_group, revoke_source, repair_budget_call_ref,
                    lose_budget_call_ref, redact_budget_call_content
<1>4. ASSUME NEW c \in Calls, NEW e, NEW t, NEW d,
             \/ refence_reserved_budget_call(c, e, t, d)
             \/ begin_budget_dispatch(c, e, t)
             \/ mark_budget_call_uncertain(c, e)
             \/ close_budget_call_execution(c)
      PROVE BalanceMoved(c)
  <2>0. call[c] \in CallRecord
    BY <1>0
  <2>1. UNCHANGED root /\ \A b \in Calls \ {c} : call'[b] = call[b]
    BY <1>0, <1>4 DEF refence_reserved_budget_call, begin_budget_dispatch,
       mark_budget_call_uncertain, close_budget_call_execution
  <2>2. SameEntry(call[c], call'[c])
    <3>1. CASE refence_reserved_budget_call(c, e, t, d)
      BY <1>0, <2>0, <3>1 DEF refence_reserved_budget_call, Refenceable, Refenced, SameEntry, Holds,
                              IsCharged, CallRecord
    <3>2. CASE begin_budget_dispatch(c, e, t)
      BY <1>0, <2>0, <3>2 DEF begin_budget_dispatch, Dispatched, SameEntry, Holds, IsCharged, CallRecord
    <3>3. CASE mark_budget_call_uncertain(c, e)
      BY <1>0, <2>0, <3>3 DEF mark_budget_call_uncertain, SameEntry, Holds, IsCharged, CallRecord
    <3>4. CASE close_budget_call_execution(c)
      BY <1>0, <2>0, <3>4 DEF close_budget_call_execution, SameEntry, Holds, IsCharged, CallRecord
    <3> QED BY <1>4, <3>1, <3>2, <3>3, <3>4
  <2> QED BY <2>1, <2>2, EntryKept
<1>5. ASSUME NEW c \in Calls, NEW e, release_undispatched_budget_call(c, e)
      PROVE BalanceMoved(c)
  BY <1>5, RefundBalance DEF release_undispatched_budget_call
<1>6. ASSUME NEW c \in Calls, NEW e, cancel_budget_call(c, e) PROVE BalanceMoved(c)
  <2>1. CASE call[c].state = "reserved"
    BY <1>6, <2>1, RefundBalance DEF cancel_budget_call
  <2>2. CASE call[c].state = "dispatched"
    <3>0. call[c] \in CallRecord
      BY <1>0
    <3>1. UNCHANGED root /\ \A b \in Calls \ {c} : call'[b] = call[b]
      BY <1>0, <1>6, <2>2 DEF cancel_budget_call
    <3>2. SameEntry(call[c], call'[c])
      BY <1>0, <3>0, <1>6, <2>2 DEF cancel_budget_call, SameEntry, Holds, IsCharged, CallRecord
    <3> QED BY <3>1, <3>2, EntryKept
  <2> QED BY <1>6, <2>1, <2>2 DEF cancel_budget_call
<1>7. ASSUME NEW c \in Calls, NEW ch \in Charges
      PROVE  /\ BookedCall(c, ch).charge = ch
             /\ [BookedCall(c, ch) EXCEPT !.open = FALSE].charge = ch
             /\ [BookedCall(c, ch) EXCEPT !.open = FALSE].state = BookedCall(c, ch).state
  <2>1. call[c] \in CallRecord
    BY <1>0
  <2> QED BY <2>1 DEF BookedCall, CallRecord
<1>8. ASSUME NEW c \in Calls, NEW e, NEW t, NEW ch \in Charges,
             \/ finalize_budget_call(c, e, t, ch)
             \/ reconcile_budget_call_cost(c, ch)
      PROVE BalanceMoved(c)
  <2>1. /\ apply_charge(c, ch) /\ Holds(call[c])
        /\ call' = [call EXCEPT ![c] = BookedCall(c, ch)]
    BY <1>8 DEF finalize_budget_call, reconcile_budget_call_cost, Holds
  <2> DEFINE m == BookedCall(c, ch)
  <2>2. m.state = BookedCall(c, ch).state /\ m.charge = ch /\ call' = [call EXCEPT ![c] = m]
    BY <1>7, <2>1
  <2> HIDE DEF m
  <2> QED BY <2>1, <2>2, BookedBalance
<1>9. ASSUME NEW c \in Calls, NEW e, NEW t, NEW ch \in Charges,
             settle_registered_execution_call(c, e, t, ch)
      PROVE BalanceMoved(c)
  <2> DEFINE m == [BookedCall(c, ch) EXCEPT !.open = FALSE]
  <2>1. /\ apply_charge(c, ch) /\ Holds(call[c]) /\ call' = [call EXCEPT ![c] = m]
    BY <1>9 DEF settle_registered_execution_call, Holds
  <2>2. m.state = BookedCall(c, ch).state /\ m.charge = ch
    BY <1>7
  <2> HIDE DEF m
  <2> QED BY <2>1, <2>2, BookedBalance
<1>10. ASSUME NEW c \in Calls, NEW e, NEW t, NEW ch \in Charges, NEW forced,
              settle_model_budget_call(c, e, t, ch, forced)
       PROVE BalanceMoved(c)
  <2>1. CASE apply_charge(c, ch) /\ call' = [call EXCEPT ![c] = BookedCall(c, ch)]
    <3> DEFINE m == BookedCall(c, ch)
    <3>1. m.state = BookedCall(c, ch).state /\ m.charge = ch /\ call' = [call EXCEPT ![c] = m]
      BY <1>7, <2>1
    <3>2. Holds(call[c])
      BY <1>10 DEF settle_model_budget_call, Holds
    <3> HIDE DEF m
    <3> QED BY <2>1, <3>1, <3>2, BookedBalance
  <2>2. CASE /\ call' = [call EXCEPT ![c].state = "uncertain", ![c].charge = ch]
             /\ UNCHANGED root
    <3>0. call[c] \in CallRecord
      BY <1>0
    <3>1. UNCHANGED root /\ \A b \in Calls \ {c} : call'[b] = call[b]
      BY <1>0, <2>2
    <3>2. SameEntry(call[c], call'[c])
      BY <1>0, <3>0, <1>10, <2>2 DEF settle_model_budget_call, SameEntry, Holds, IsCharged, CallRecord
    <3> QED BY <3>1, <3>2, EntryKept
  <2> QED BY <1>10, <2>1, <2>2 DEF settle_model_budget_call
<1> QED
  BY <1>2, <1>3, <1>4, <1>5, <1>6, <1>8, <1>9, <1>10, HoldBalance DEF Next, Fenced

\* The calls that exist are finitely many: each step adds at most one.
Known == {c \in Calls : call[c].state # "absent"}

BalanceInv == TypeOK /\ IsFiniteSet(Known) /\ LedgerMatchesCalls

LEMMA ChargesAreNatural ==
    ASSUME NEW k \in CallRecord PROVE k.charge.amount \in Nat
<1>1. k.charge \in Charges \cup {NoCharge}
  BY DEF CallRecord
<1> QED BY <1>1, ChargeAmount DEF NoCharge

LEMMA CountedIsKnown ==
    ASSUME IsFiniteSet(Known), NEW r \in Roots
    PROVE  /\ Charged(r) \subseteq Known /\ IsFiniteSet(Charged(r))
           /\ Holding(r) \subseteq Known /\ IsFiniteSet(Holding(r))
<1>1. Charged(r) \subseteq Known /\ Holding(r) \subseteq Known
  BY DEF Charged, Holding, CallsOf, Known
<1> QED BY <1>1, FS_Subset

LEMMA BalanceInit == Init => BalanceInv
<1> SUFFICES ASSUME Init PROVE BalanceInv
  OBVIOUS
<1>1. TypeOK
  BY TypeInit
<1>2. Known = {}
  BY DEF Init, Known, AbsentCall
<1>3. \A r \in Roots : Charged(r) = {} /\ Holding(r) = {}
  BY DEF Init, Charged, Holding, CallsOf, AbsentCall
<1>4. \A r \in Roots : root[r].spent = 0 /\ root[r].reserved = 0
  BY DEF Init
<1> QED BY <1>1, <1>2, <1>3, <1>4, SumOfNone, FS_EmptySet DEF BalanceInv, LedgerMatchesCalls

LEMMA KnownStep ==
    ASSUME IsFiniteSet(Known), NEW c \in Calls, \A d \in Calls \ {c} : call'[d] = call[d]
    PROVE  IsFiniteSet(Known')
<1>1. IsFiniteSet(Known \cup {c})
  BY FS_AddElement
<1>2. Known' \subseteq Known \cup {c}
  BY DEF Known
<1> QED BY <1>1, <1>2, FS_Subset

\* Roots other than that of the call that moved count the same calls.
LEMMA OtherRootsBalance ==
    ASSUME TypeOK, IsFiniteSet(Known), LedgerMatchesCalls, NEW c \in Calls,
           \A d \in Calls \ {c} : call'[d] = call[d], NEW r \in Roots,
           RootOf(c) # r \/ SameEntry(call[c], call'[c]), Grown(root[r], root'[r], 0, 0)
    PROVE  /\ root'[r].spent = SumFunctionOnSet(ChargeOf', Charged(r)')
           /\ root'[r].reserved = SumFunctionOnSet(CostOf, Holding(r)')
<1>1. \A d \in CallsOf(r) : SameEntry(call[d], call'[d])
  <2>1. \A d \in Calls : SameEntry(call[d], call[d])
    BY DEF SameEntry
  <2> QED BY <2>1 DEF CallsOf
<1>2. Charged(r)' = Charged(r) /\ Holding(r)' = Holding(r)
  BY <1>1 DEF Charged, Holding, CallsOf, SameEntry, Holds, IsCharged
<1>3. \A x \in Charged(r) : ChargeOf'[x] = ChargeOf[x]
  BY <1>1 DEF Charged, CallsOf, ChargeOf, SameEntry, IsCharged
<1>4. IsFiniteSet(Charged(r))
  BY CountedIsKnown
<1>5. SumFunctionOnSet(ChargeOf', Charged(r)) = SumFunctionOnSet(ChargeOf, Charged(r))
  BY <1>3, <1>4, SumSame
<1>6. root'[r].spent = root[r].spent /\ root'[r].reserved = root[r].reserved
  BY RootSums DEF Grown
<1> QED BY <1>2, <1>5, <1>6 DEF LedgerMatchesCalls

\* The root of a call that is reserved, given back or charged gains or loses
\* exactly what the call stands for.
LEMMA OwnRootBalance ==
    ASSUME TypeOK, TypeOK', IsFiniteSet(Known), LedgerMatchesCalls, NEW c \in Calls,
           \A d \in Calls \ {c} : call'[d] = call[d], EntryMoved(c)
    PROVE  /\ root'[RootOf(c)].spent = SumFunctionOnSet(ChargeOf', Charged(RootOf(c))')
           /\ root'[RootOf(c)].reserved = SumFunctionOnSet(CostOf, Holding(RootOf(c))')
<1> DEFINE q == RootOf(c)
           k == call[c]
           m == call'[c]
           S == Charged(q)
           H == Holding(q)
<1>0. /\ q \in Roots /\ c \in CallsOf(q) /\ CostOf[c] \in Nat
      /\ IsFiniteSet(S) /\ IsFiniteSet(H) /\ IsFiniteSet(Known')
      /\ root[q].spent \in Nat /\ root[q].reserved \in Nat
      /\ root[q].spent = SumFunctionOnSet(ChargeOf, S)
      /\ root[q].reserved = SumFunctionOnSet(CostOf, H)
  BY RowTypes, RootSums, CountedIsKnown, KnownStep DEF CallsOf, LedgerMatchesCalls
<1>1. /\ \A x \in Calls : CostOf[x] \in Nat
      /\ \A x \in Calls : ChargeOf'[x] = call'[x].charge.amount /\ ChargeOf'[x] \in Nat
  <2>1. \A x \in Calls : CostOf[x] \in Nat
    BY MoneyAssumption
  <2>2. \A x \in Calls : call'[x].charge.amount \in Nat
    BY ChargesAreNatural DEF TypeOK
  <2> QED BY <2>1, <2>2 DEF ChargeOf
<1>2. \A d \in Calls \ {c} : (d \in S' <=> d \in S) /\ (d \in H' <=> d \in H)
  BY DEF Charged, Holding, CallsOf
<1>3. \A x \in S \ {c} : ChargeOf'[x] = ChargeOf[x]
  BY DEF Charged, CallsOf, ChargeOf
<1>4. /\ (c \in S <=> IsCharged(k)) /\ (c \in H <=> Holds(k))
      /\ (c \in S' <=> IsCharged(m)) /\ (c \in H' <=> Holds(m))
  BY <1>0 DEF Charged, Holding, CallsOf, IsCharged, Holds
<1>5. S \subseteq Calls /\ H \subseteq Calls /\ S' \subseteq Calls /\ H' \subseteq Calls
  BY DEF Charged, Holding, CallsOf
<1>6. CASE SameEntry(k, m) /\ Grown(root[q], root'[q], 0, 0)
  BY <1>0, <1>6, OtherRootsBalance
<1>7. ASSUME c \notin S, S' = S
      PROVE  SumFunctionOnSet(ChargeOf', S') = SumFunctionOnSet(ChargeOf, S)
  BY <1>0, <1>3, <1>7, SumSame
<1>8. ASSUME c \in H, c \notin H'
      PROVE  SumFunctionOnSet(CostOf, H') = SumFunctionOnSet(CostOf, H) - CostOf[c]
  <2>1. H' = H \ {c}
    BY <1>2, <1>5, <1>8
  <2>2. \A x \in H : CostOf[x] \in Nat
    BY <1>1, <1>5
  <2>3. /\ SumFunctionOnSet(CostOf, H) = CostOf[c] + SumFunctionOnSet(CostOf, H \ {c})
        /\ SumFunctionOnSet(CostOf, H \ {c}) \in Nat
    BY <1>0, <1>8, <2>2, SumWithout
  <2> QED BY <1>0, <2>1, <2>3
<1>9. CASE k.state = "absent" /\ m.state = "reserved" /\ Grown(root[q], root'[q], 0, CostOf[c])
  <2>1. c \notin S /\ c \notin S' /\ c \notin H /\ c \in H'
    BY <1>4, <1>9 DEF IsCharged, Holds
  <2>2. S' = S /\ H' = H \cup {c}
    BY <1>2, <1>5, <2>1
  <2>3. SumFunctionOnSet(CostOf, H') = SumFunctionOnSet(CostOf, H) + CostOf[c]
    <3> DEFINE T == H'
    <3>1. T = H \cup {c} /\ \A x \in T : CostOf[x] \in Nat
      BY <1>1, <1>5, <2>2
    <3> HIDE DEF T, H
    <3>2. SumFunctionOnSet(CostOf, T) = SumFunctionOnSet(CostOf, H) + CostOf[c]
      BY <1>0, <2>1, <3>1, SumGains
    <3> QED BY <3>2 DEF T
  <2> QED BY <1>0, <1>7, <1>9, <2>1, <2>2, <2>3 DEF Grown
<1>10. CASE Holds(k) /\ m.state \in {"released", "cancelled"} /\ Grown(root[q], root'[q], 0, -CostOf[c])
  <2>1. c \notin S /\ c \notin S' /\ c \in H /\ c \notin H'
    BY <1>4, <1>10 DEF IsCharged, Holds
  <2>2. S' = S
    BY <1>2, <1>5, <2>1
  <2> QED BY <1>0, <1>7, <1>8, <1>10, <2>1, <2>2 DEF Grown
<1>11. CASE Holds(k) /\ IsCharged(m) /\ Grown(root[q], root'[q], m.charge.amount, -CostOf[c])
  <2>1. c \notin S /\ c \in S' /\ c \in H /\ c \notin H'
    BY <1>4, <1>11 DEF IsCharged, Holds
  <2>2. S' = S \cup {c}
    BY <1>2, <1>5, <2>1
  <2>3. SumFunctionOnSet(ChargeOf', S') = SumFunctionOnSet(ChargeOf, S) + ChargeOf'[c]
    <3> DEFINE T == S'
               e == ChargeOf'
    <3>1. T = S \cup {c} /\ (\A x \in T : e[x] \in Nat) /\ \A x \in S : ChargeOf[x] = e[x]
      BY <1>1, <1>3, <1>5, <2>1, <2>2
    <3> HIDE DEF T, S, e
    <3>2. SumFunctionOnSet(e, T) = SumFunctionOnSet(ChargeOf, S) + e[c]
      BY <1>0, <2>1, <3>1, SumGains
    <3> QED BY <3>2 DEF T, e
  <2> QED BY <1>0, <1>1, <1>8, <1>11, <2>1, <2>3 DEF Grown
<1> QED BY <1>6, <1>9, <1>10, <1>11 DEF EntryMoved

LEMMA BalanceStep == BalanceInv /\ [Next]_vars => BalanceInv'
<1> SUFFICES ASSUME BalanceInv, [Next]_vars PROVE BalanceInv'
  OBVIOUS
<1>0. TypeOK /\ TypeOK' /\ IsFiniteSet(Known) /\ LedgerMatchesCalls
  BY TypeStep DEF BalanceInv
<1>1. CASE BalanceKept
  <2>1. \A r \in Roots : root'[r].spent = root[r].spent /\ root'[r].reserved = root[r].reserved
    BY <1>0, <1>1, RootSums DEF BalanceKept, Grown
  <2> QED BY <1>0, <1>1, <2>1 DEF BalanceInv, BalanceKept, Known, LedgerMatchesCalls, ChargeOf,
                                   Charged, Holding, CallsOf
<1>2. ASSUME NEW c \in Calls, BalanceMoved(c) PROVE BalanceInv'
  <2>1. IsFiniteSet(Known')
    BY <1>0, <1>2, KnownStep DEF BalanceMoved
  <2>2. ASSUME NEW r \in Roots
        PROVE  /\ root'[r].spent = SumFunctionOnSet(ChargeOf', Charged(r)')
               /\ root'[r].reserved = SumFunctionOnSet(CostOf, Holding(r)')
    BY <1>0, <1>2, OtherRootsBalance, OwnRootBalance DEF BalanceMoved
  <2>3. LedgerMatchesCalls'
    BY <2>2 DEF LedgerMatchesCalls
  <2> QED BY <1>0, <2>1, <2>3 DEF BalanceInv
<1> QED BY <1>0, <1>1, <1>2, StepMovesBalance

LEMMA BalanceInvariant == Spec => []BalanceInv
  BY BalanceInit, BalanceStep, PTL DEF Spec

\* What a root has spent and holds is, after every step and for any number of
\* calls, the sum of what its calls were charged and hold.
THEOREM BooksBalance == Spec => []LedgerMatchesCalls
<1>1. BalanceInv => LedgerMatchesCalls
  BY DEF BalanceInv
<1> QED BY <1>1, BalanceInvariant, PTL

\* So the money of every call that is held can be given back or booked: the CHECK
\* on reserved_micros, which would abort the settlement of a paid call, never
\* fails.
HeldIsCovered == \A c \in Calls : Holds(call[c]) => Refundable(c)

THEOREM RefundsNeverFail == Spec => []HeldIsCovered
<1>1. BalanceInv => HeldIsCovered
  <2> SUFFICES ASSUME BalanceInv, NEW c \in Calls, Holds(call[c]) PROVE Refundable(c)
    BY DEF HeldIsCovered
  <2> DEFINE H == Holding(RootOf(c))
  <2>1. /\ RootOf(c) \in Roots /\ CostOf[c] \in Nat /\ IsFiniteSet(H)
        /\ root[RootOf(c)].reserved = SumFunctionOnSet(CostOf, H)
    BY RowTypes, CountedIsKnown DEF BalanceInv, LedgerMatchesCalls
  <2>2. c \in H /\ \A x \in H : CostOf[x] \in Nat
    BY MoneyAssumption DEF Holding, CallsOf, Holds
  <2> HIDE DEF H
  <2>3. /\ SumFunctionOnSet(CostOf, H) = CostOf[c] + SumFunctionOnSet(CostOf, H \ {c})
        /\ SumFunctionOnSet(CostOf, H \ {c}) \in Nat
    BY <2>1, <2>2, SumWithout
  <2> QED BY <2>1, <2>3 DEF Refundable
<1> QED BY <1>1, BalanceInvariant, PTL

-----------------------------------------------------------------------------
(***************************************************************************)
(* The safety of the broker over its ledger, and that the two implement    *)
(* PaidCall, for any number of workers, calls, roots, crashes and leases.  *)
(* A step moves at most one call row (RowMoved) and leaves what earlier    *)
(* steps have settled (Steady); what a worker remembers of the ledger is   *)
(* therefore still true when it acts on it (Sound).                        *)
(***************************************************************************)

USE DEF RootOf, StopReasons, CallStates, BlockReasons, Artifacts, Kinds, Steps, Answers, Results

-----------------------------------------------------------------------------
(* The records a worker holds.                                             *)

LEMMA IdleWorkerType == IdleWorker \in WorkerRecord
<1>1. (CHOOSE c \in Calls : TRUE) \in Calls
  BY BrokerAssumption
<1>2. /\ AbsentCall \in CallRecord /\ AbsentBody \in BodyRecord
      /\ NoCharge \in Charges \cup {NoCharge}
  BY RecordTypes
<1> QED BY <1>1, <1>2 DEF IdleWorker, WorkerRecord

LEMMA WorkerTypes ==
    ASSUME BTypeOK, NEW w \in Workers
    PROVE  /\ worker[w] \in WorkerRecord /\ worker[w].call \in Calls
           /\ worker[w].epoch \in Nat /\ worker[w].t \in Nat
           /\ worker[w].charge \in Charges \cup {NoCharge}
           /\ worker[w].seen \in CallRecord /\ worker[w].content \in BodyRecord
<1>1. worker[w] \in WorkerRecord
  BY DEF BTypeOK
<1> QED BY <1>1 DEF WorkerRecord

LEMMA EnteringType ==
    ASSUME BTypeOK, NEW c \in Calls, NEW s \in Steps
    PROVE  Entering(c, s) \in WorkerRecord /\ Entering(c, s).at = s /\ Entering(c, s).result = "none"
<1>1. IdleWorker \in WorkerRecord /\ now \in Nat /\ IdleWorker.result = "none"
  BY IdleWorkerType DEF BTypeOK, TypeOK, IdleWorker
<1> QED BY <1>1 DEF Entering, WorkerRecord

LEMMA ReplayingType ==
    ASSUME BTypeOK, NEW c \in Calls
    PROVE  /\ Replaying(c) \in WorkerRecord
           /\ Replaying(c).at = "replay" /\ Replaying(c).result = "none" /\ Replaying(c).call = c
           /\ Replaying(c).seen = call[c] /\ Replaying(c).content = body[c]
<1>1. /\ IdleWorker \in WorkerRecord /\ IdleWorker.result = "none"
      /\ call[c] \in CallRecord /\ body[c] \in BodyRecord
  BY IdleWorkerType, RowTypes DEF BTypeOK, IdleWorker
<1> QED BY <1>1 DEF Replaying, WorkerRecord

-----------------------------------------------------------------------------
(* What a step does to the ledger.                                         *)

Early == {"absent", "reserved"}

\* Call c, alone, has moved.  A session may create, refuse and send in one step.
RowMoved(c) ==
    /\ \A d \in Calls \ {c} : call'[d] = call[d]
    /\ \/ /\ call[c].state \in Early /\ Unsent(call'[c])
          /\ call'[c].state \in {"reserved", "released", "cancelled"}
       \/ call[c].state \in Early /\ call'[c].state = "dispatched" /\ call'[c].sent /\ ~RootBusy(c)
       \/ Answered(call[c], call'[c])
       \/ Closed(call[c], call'[c])

RowsMoved == call' = call \/ \E c \in Calls : RowMoved(c)

\* The artifacts of a call change without an answer: no response appears and
\* nothing becomes usable.
Quiet(b, n) ==
    /\ n.response # "none" => b.response # "none"
    /\ n.verdict = "usable" => b.verdict = "usable" /\ n.response = b.response

QuietBodies == \A c \in Calls : Quiet(body[c], body'[c])

LEMMA CallMovedIsRowMoved ==
    ASSUME HeldIsUnsent, NEW c \in Calls, CallMoved(c) PROVE RowMoved(c)
<1>1. ASSUME Held(call[c], call'[c]) PROVE Unsent(call'[c])
  BY <1>1 DEF Held, HeldIsUnsent, Unsent, SameMoney
<1> QED BY <1>1 DEF CallMoved, RowMoved, Early, Created, Held, Sent

LEMMA WriteMovesRows ==
    ASSUME TypeOK, HeldIsUnsent, [LedgerWrite]_vars PROVE TypeOK' /\ RowsMoved
  BY WriteKeepsTypes, WriteMovesOneCall, CallMovedIsRowMoved DEF RowsMoved

LEMMA SameBodies == ASSUME body' = body PROVE QuietBodies
  BY DEF QuietBodies, Quiet

LEMMA OneQuietBody ==
    ASSUME TypeOK, NEW c \in Calls, NEW b, Quiet(body[c], b), body' = [body EXCEPT ![c] = b]
    PROVE  QuietBodies
<1>1. \A d \in Calls : body'[d] = IF d = c THEN b ELSE body[d]
  BY DEF TypeOK
<1>2. \A d \in Calls : Quiet(body[d], body[d])
  BY DEF Quiet
<1> QED BY <1>1, <1>2 DEF QuietBodies

LEMMA EnvironmentWrites ==
    ASSUME BTypeOK, Environment
    PROVE  LedgerWrite /\ QuietBodies /\ UNCHANGED <<worker, process, crashes, wire>>
<1>0. TypeOK /\ now \in Nat /\ 0 \in Nat /\ \A c \in Calls : call[c].epoch \in Nat
  BY DEF BTypeOK, TypeOK, CallRecord
<1>1. ASSUME Tick PROVE LedgerWrite /\ QuietBodies
  BY <1>1, SameBodies DEF LedgerWrite, Tick
<1>2. ASSUME NEW r \in Roots, authorize_root_budget(r) \/ stop_root_budget(r) PROVE LedgerWrite /\ QuietBodies
  BY <1>2, SameBodies DEF LedgerWrite, authorize_root_budget, stop_root_budget
<1>3. ASSUME NEW g \in Groups, stop_dispatch_group(g) PROVE LedgerWrite /\ QuietBodies
  BY <1>3, SameBodies DEF LedgerWrite, stop_dispatch_group
<1>4. ASSUME NEW s \in Sources, revoke_source(s) PROVE LedgerWrite /\ QuietBodies
  BY <1>4, SameBodies DEF LedgerWrite, revoke_source
<1>5. ASSUME NEW c \in Calls, NEW ch \in Charges, reconcile_budget_call_cost(c, ch)
      PROVE LedgerWrite /\ QuietBodies
  BY <1>5, SameBodies DEF LedgerWrite, reconcile_budget_call_cost
<1>6. ASSUME NEW c \in Calls, NEW d \in LeaseTerms, reserve_budget_call(c, now, d, 0)
      PROVE LedgerWrite /\ QuietBodies
  <2>1. Quiet(body[c], NewBody)
    BY DEF Quiet, NewBody, AbsentBody
  <2>2. QuietBodies
    BY <1>0, <1>6, <2>1, OneQuietBody DEF reserve_budget_call
  <2> QED BY <1>0, <1>6, <2>2 DEF LedgerWrite
<1>7. ASSUME NEW c \in Calls, cancel_budget_call(c, call[c].epoch) PROVE LedgerWrite /\ QuietBodies
  <2>1. Fenced(c, call[c].epoch, 0)
    BY <1>7 DEF Fenced
  <2>2. body' = body
    BY <1>7 DEF cancel_budget_call
  <2> QED BY <1>0, <2>1, <2>2, SameBodies DEF LedgerWrite
<1>8. ASSUME NEW c \in Calls, close_budget_call_execution(c) PROVE LedgerWrite /\ QuietBodies
  BY <1>8, SameBodies DEF LedgerWrite, close_budget_call_execution
<1>9. ASSUME NEW c \in Calls, redact_budget_call_content(c) PROVE LedgerWrite /\ QuietBodies
  <2> DEFINE b == [body[c] EXCEPT !.request = redacted_artifact(body[c].request),
                                  !.transport = redacted_artifact(body[c].transport),
                                  !.response = redacted_artifact(body[c].response),
                                  !.verdict = RedactedVerdict(c, body[c].verdict)]
  <2>1. body[c] \in BodyRecord
    BY <1>0, RowTypes
  <2>2. b.response = redacted_artifact(body[c].response) /\ b.verdict = RedactedVerdict(c, body[c].verdict)
    BY <2>1 DEF BodyRecord
  <2>3. b.verdict # "usable"
    BY <2>2 DEF RedactedVerdict
  <2>4. Quiet(body[c], b)
    BY <2>2, <2>3 DEF Quiet, redacted_artifact
  <2>5. body' = [body EXCEPT ![c] = b]
    BY <1>0, <1>9 DEF redact_budget_call_content, TypeOK
  <2> HIDE DEF b
  <2> QED BY <1>0, <1>9, <2>4, <2>5, OneQuietBody DEF LedgerWrite
<1>10. ASSUME NEW c \in Calls, lose_budget_call_ref(c) PROVE LedgerWrite /\ QuietBodies
  <2>1. Quiet(body[c], [body[c] EXCEPT !.ref = FALSE])
    BY <1>0, RowTypes DEF Quiet, BodyRecord
  <2>2. body' = [body EXCEPT ![c] = [body[c] EXCEPT !.ref = FALSE]]
    BY <1>10 DEF lose_budget_call_ref
  <2> QED BY <1>0, <1>10, <2>1, <2>2, OneQuietBody DEF LedgerWrite
<1> QED BY <1>1, <1>2, <1>3, <1>4, <1>5, <1>6, <1>7, <1>8, <1>9, <1>10 DEF Environment

\* A close and a mark of a worker.
LEMMA CloseWrites ==
    ASSUME NEW c \in Calls, CloseIfOpen(c) PROVE [LedgerWrite]_vars /\ QuietBodies
<1>1. ASSUME close_budget_call_execution(c) PROVE LedgerWrite /\ QuietBodies
  BY <1>1, SameBodies DEF LedgerWrite, close_budget_call_execution
<1>2. ASSUME UNCHANGED ledger PROVE UNCHANGED vars /\ QuietBodies
  BY <1>2, SameBodies DEF ledger, vars
<1> QED BY <1>1, <1>2 DEF CloseIfOpen

LEMMA MarkWrites ==
    ASSUME NEW c \in Calls, NEW e \in Nat, MarkIfDispatched(c, e) PROVE [LedgerWrite]_vars /\ QuietBodies
<1>1. ASSUME mark_budget_call_uncertain(c, e) PROVE LedgerWrite /\ QuietBodies
  <2>1. Fenced(c, e, 0)
    BY <1>1 DEF Fenced
  <2>2. body' = body /\ 0 \in Nat
    BY <1>1 DEF mark_budget_call_uncertain
  <2> QED BY <2>1, <2>2, SameBodies DEF LedgerWrite
<1>2. ASSUME UNCHANGED ledger PROVE UNCHANGED vars /\ QuietBodies
  BY <1>2, SameBodies DEF ledger, vars
<1> QED BY <1>1, <1>2 DEF MarkIfDispatched

LEMMA SettleWrites ==
    ASSUME NEW c \in Calls, NEW e \in Nat, NEW t \in Nat, NEW ch \in Charges, NEW forced \in BOOLEAN,
           settle_model_budget_call(c, e, t, ch, forced)
    PROVE  LedgerWrite
<1>1. Fenced(c, e, t)
  BY DEF Fenced
<1> QED BY <1>1 DEF LedgerWrite

-----------------------------------------------------------------------------
(* The session.                                                            *)

\* A session may repair the reference of a call; it shows nothing new.
LEMMA SessionBodyQuiet ==
    ASSUME TypeOK, NEW c \in Calls
    PROVE  SessionBody(c) \in BodyRecord /\ Quiet(body[c], SessionBody(c))
<1>1. body[c] \in BodyRecord /\ NewBody \in BodyRecord
  BY RowTypes, RecordTypes
<1>2. Quiet(body[c], NewBody) /\ Quiet(body[c], body[c])
  BY DEF Quiet, NewBody, AbsentBody
<1>3. [body[c] EXCEPT !.ref = TRUE] \in BodyRecord /\ Quiet(body[c], [body[c] EXCEPT !.ref = TRUE])
  BY <1>1 DEF Quiet, BodyRecord
<1> QED BY <1>1, <1>2, <1>3 DEF SessionBody

\* The row a session brings to the dispatch gate: if it is reserved, the call
\* was new or reserved, and was never sent.
LEMMA SessionRow ==
    ASSUME TypeOK, HeldIsUnsent, NEW c \in Calls, NEW t \in Nat, NEW d \in LeaseTerms
    PROVE  /\ SessionCall(c, t, d) \in CallRecord
           /\ NewDispatch(SessionCall(c, t, d)) =>
                 call[c].state \in Early /\ Unsent(SessionCall(c, t, d))
<1>0. d \in Nat /\ call[c] \in CallRecord
  BY RowTypes, LeaseAssumption
<1> DEFINE k == Admitted(c, t, d)
<1>1. k \in CallRecord
  BY <1>0, NewCallType DEF Admitted
<1>2. k.state = "reserved" => call[c].state \in Early /\ Unsent(k)
  <2>1. CASE Present(c)
    BY <2>1 DEF Admitted, Early, HeldIsUnsent
  <2>2. CASE ~Present(c)
    BY <2>2 DEF Admitted, Present, Early, NewCall, Unsent
  <2> QED BY <2>1, <2>2
<1> HIDE DEF k
<1>3. /\ Refenced(k, t, d) \in CallRecord /\ Refenced(k, t, d).state = k.state
      /\ Unsent(k) => Unsent(Refenced(k, t, d))
  <2>1. Refenced(k, t, d) \in CallRecord
    BY <1>0, <1>1, CallColumnTypes
  <2>2. /\ Refenced(k, t, d).state = k.state /\ Refenced(k, t, d).sent = k.sent
        /\ Refenced(k, t, d).charge = k.charge
    BY <1>1 DEF Refenced, CallRecord
  <2> QED BY <2>1, <2>2 DEF Unsent
<1>4. SessionCall(c, t, d) \in {k, Refenced(k, t, d)}
  BY DEF SessionCall, k
<1> QED BY <1>1, <1>2, <1>3, <1>4 DEF NewDispatch

LEMMA SessionReplays ==
    ASSUME BTypeOK, HeldIsUnsent, NEW w \in Workers, session_replay(w)
    PROVE  TypeOK' /\ RowsMoved /\ QuietBodies
<1> DEFINE c == worker[w].call
<1>1. TypeOK /\ c \in Calls /\ worker[w].t \in Nat
  BY WorkerTypes DEF BTypeOK
<1>2. SessionBody(c) \in BodyRecord /\ Quiet(body[c], SessionBody(c))
  BY <1>1, SessionBodyQuiet
<1>3. body' = body \/ body' = [body EXCEPT ![c] = SessionBody(c)]
  BY DEF session_replay
<1>4. QuietBodies
  BY <1>1, <1>2, <1>3, SameBodies, OneQuietBody
<1>5. body' \in [Calls -> BodyRecord]
  BY <1>1, <1>2, <1>3 DEF TypeOK
<1> QED BY <1>1, <1>4, <1>5 DEF session_replay, TypeOK, RowsMoved

LEMMA SessionReleases ==
    ASSUME BTypeOK, HeldIsUnsent, NEW w \in Workers, NEW d \in LeaseTerms, NEW j, session_release(w, d, j)
    PROVE  TypeOK' /\ RowsMoved /\ QuietBodies
<1> DEFINE c == worker[w].call
           k == SessionCall(c, worker[w].t, d)
<1>1. TypeOK /\ c \in Calls /\ worker[w].t \in Nat
  BY WorkerTypes DEF BTypeOK
<1>2. /\ k \in CallRecord /\ SessionBody(c) \in BodyRecord /\ Quiet(body[c], SessionBody(c))
      /\ NewDispatch(k) => call[c].state \in Early /\ Unsent(k)
  BY <1>1, SessionRow, SessionBodyQuiet
<1>3. /\ NewDispatch(k) /\ (Present(c) => Refundable(c))
      /\ root' = IF Present(c) THEN Refund(c) ELSE root
      /\ group' = EnsureGroup(c)
      /\ call' = [call EXCEPT ![c] = [k EXCEPT !.state = "released"]]
      /\ body' = [body EXCEPT ![c] = SessionBody(c)]
      /\ UNCHANGED <<now, revoked>>
  BY DEF session_release
<1> HIDE DEF c, k
<1>4. root' \in [Roots -> RootRecord] /\ group' \in [Groups -> {"absent", "open", "stopped"}]
  BY <1>1, <1>3, RefundType, HoldType DEF TypeOK
<1>5. /\ [k EXCEPT !.state = "released"] \in CallRecord
      /\ [k EXCEPT !.state = "released"].state = "released" /\ Unsent([k EXCEPT !.state = "released"])
  BY <1>2, <1>3 DEF CallRecord, Unsent
<1>6. TypeOK'
  BY <1>1, <1>2, <1>3, <1>4, <1>5 DEF TypeOK
<1>7. RowMoved(c)
  BY <1>1, <1>2, <1>3, <1>5 DEF RowMoved, TypeOK
<1> QED BY <1>1, <1>2, <1>3, <1>6, <1>7, OneQuietBody DEF RowsMoved

LEMMA SessionDispatches ==
    ASSUME BTypeOK, HeldIsUnsent, NEW w \in Workers, NEW d \in LeaseTerms, NEW j, session_dispatch(w, d, j)
    PROVE  /\ TypeOK' /\ RowsMoved /\ QuietBodies
           /\ call[worker[w].call].state \in Early /\ call'[worker[w].call].sent
           /\ SessionCall(worker[w].call, worker[w].t, d).epoch \in Nat
<1> DEFINE c == worker[w].call
           k == SessionCall(c, worker[w].t, d)
<1>1. TypeOK /\ c \in Calls /\ worker[w].t \in Nat
  BY WorkerTypes DEF BTypeOK
<1>2. /\ k \in CallRecord /\ SessionBody(c) \in BodyRecord /\ Quiet(body[c], SessionBody(c))
      /\ NewDispatch(k) => call[c].state \in Early /\ Unsent(k)
  BY <1>1, SessionRow, SessionBodyQuiet
<1>3. /\ NewDispatch(k)
      /\ DispatchRefusal(c, k, SessionBody(c), worker[w].t) = "none"
      /\ root' = IF Present(c) THEN root ELSE Hold(c)
      /\ group' = EnsureGroup(c)
      /\ call' = [call EXCEPT ![c] = Dispatched(k)]
      /\ body' = [body EXCEPT ![c] = SessionBody(c)]
      /\ UNCHANGED <<now, revoked>>
  BY DEF session_dispatch
<1> HIDE DEF c, k
<1>4. root' \in [Roots -> RootRecord] /\ group' \in [Groups -> {"absent", "open", "stopped"}]
  BY <1>1, <1>3, HoldType DEF TypeOK
<1>5. /\ Dispatched(k) \in CallRecord
      /\ Dispatched(k).state = "dispatched" /\ Dispatched(k).sent /\ k.epoch \in Nat
  BY <1>2 DEF CallRecord, Dispatched
<1>6. ~RootBusy(c)
  BY <1>3 DEF DispatchRefusal
<1>7. TypeOK'
  BY <1>1, <1>2, <1>3, <1>4, <1>5 DEF TypeOK
<1>8. RowMoved(c) /\ call'[c].sent
  BY <1>1, <1>2, <1>3, <1>5, <1>6 DEF RowMoved, TypeOK
<1> QED BY <1>1, <1>2, <1>3, <1>5, <1>7, <1>8, OneQuietBody DEF RowsMoved, c, k

-----------------------------------------------------------------------------
(* The invariant.                                                          *)

Past(k) == k.state \notin Early

FinalizedIsCharged == \A c \in Calls : call[c].state = "finalized" => call[c].charge # NoCharge

\* A stored response is that of an execution, and a usable one can be read.
ResponseIsSent ==
    \A c \in Calls : /\ body[c].response # "none" => wire[c] = 1
                     /\ body[c].verdict = "usable" => body[c].response = "content"

PaidUp(c) == /\ call[c].state = "finalized" /\ call[c].charge # NoCharge
             /\ wire[c] = 1 /\ ~call[c].open

\* What a replaying worker has read is still so.
Replayed(x) ==
    /\ Past(call[x.call])
    /\ x.content.response # "none" => wire[x.call] = 1
    /\ x.seen.state = "finalized" => call[x.call].state = "finalized"
    /\ x.at = "replay_judge" \/ ~x.seen.open => ~call[x.call].open

\* What a worker relies on at each of its steps.
Sound(x) ==
    /\ x.at = "transport" => wire[x.call] = 0 /\ call[x.call].sent
    /\ x.at \in {"failed", "settle", "settle_failed"} => wire[x.call] = 1
    /\ x.at = "settle" => x.charge \in Charges
    /\ x.at \in {"replay", "replay_judge"} => Replayed(x)
    /\ x.at = "recheck" => PaidUp(x.call)
    /\ x.result = "completed" => x.at = "idle" /\ PaidUp(x.call)

\* Two workers are never at the provider for one call.
OneTransportPerCall ==
    \A v, w \in Workers :
        v # w /\ worker[v].at = "transport" /\ worker[w].at = "transport" => worker[v].call # worker[w].call

BrokerInv ==
    /\ BTypeOK /\ OneActiveCallPerRoot /\ HeldIsUnsent /\ FinalizedIsCharged
    /\ ResponseIsSent /\ SentAtMostOnce /\ OneTransportPerCall
    /\ \A w \in Workers : Sound(worker[w])

LEMMA BrokerInit == BInit => BrokerInv
<1> SUFFICES ASSUME BInit PROVE BrokerInv
  OBVIOUS
<1>1. TypeOK /\ OneActiveCallPerRoot /\ HeldIsUnsent
  BY LedgerInit DEF BInit, LedgerInv
<1>2. BTypeOK
  BY <1>1, IdleWorkerType, BrokerAssumption DEF BInit, BTypeOK
<1>3. \A w \in Workers : worker[w].at = "idle" /\ worker[w].result = "none"
  BY DEF BInit, IdleWorker
<1>4. \A w \in Workers : Sound(worker[w])
  BY <1>3 DEF Sound
<1>5. FinalizedIsCharged /\ ResponseIsSent /\ SentAtMostOnce
  BY DEF BInit, Init, FinalizedIsCharged, ResponseIsSent, SentAtMostOnce, AbsentCall, AbsentBody
<1>6. OneTransportPerCall
  BY <1>3 DEF OneTransportPerCall
<1> QED BY <1>1, <1>2, <1>4, <1>5, <1>6 DEF BrokerInv

-----------------------------------------------------------------------------
(* What earlier steps have settled stays.                                  *)

Steady ==
    \A c \in Calls :
        /\ call[c].sent => call'[c].sent
        /\ Past(call[c]) => Past(call'[c]) /\ (~call[c].open => ~call'[c].open)
        /\ call[c].state = "finalized" =>
              call'[c].state = "finalized" /\ call'[c].charge = call[c].charge

LEMMA ChargesAreNotNone == NoCharge \notin Charges
  BY ShapeAssumption DEF NoCharge, Charges

LEMMA MovedRows ==
    ASSUME OneActiveCallPerRoot, HeldIsUnsent, FinalizedIsCharged, RowsMoved
    PROVE  Steady /\ OneActiveCallPerRoot' /\ HeldIsUnsent' /\ FinalizedIsCharged'
<1>1. CASE call' = call
  BY <1>1 DEF Steady, OneActiveCallPerRoot, HeldIsUnsent, FinalizedIsCharged, Active, Unsent, Past
<1>2. ASSUME NEW c \in Calls, RowMoved(c)
      PROVE  Steady /\ OneActiveCallPerRoot' /\ HeldIsUnsent' /\ FinalizedIsCharged'
  <2>1. \A d \in Calls \ {c} : call'[d] = call[d]
    BY <1>2 DEF RowMoved
  <2>2. Active(call'[c]) => Active(call[c]) \/ ~RootBusy(c)
    BY <1>2 DEF RowMoved, Active, Answered, Closed
  <2>3. ASSUME NEW d \in Calls \ {c}, RootOf(c) = RootOf(d), Active(call'[c]), Active(call'[d])
        PROVE FALSE
    BY <2>1, <2>2, <2>3 DEF RootBusy, OneActiveCallPerRoot
  <2>4. OneActiveCallPerRoot'
    BY <2>1, <2>3 DEF OneActiveCallPerRoot, Active
  <2>5. HeldIsUnsent'
    BY <1>2, <2>1 DEF RowMoved, HeldIsUnsent, Unsent, Answered, Closed
  <2>6. call'[c].state = "finalized" => call'[c].charge # NoCharge
    BY <1>2, ChargesAreNotNone DEF RowMoved, FinalizedIsCharged, Answered, Closed, SameMoney
  <2>7. FinalizedIsCharged'
    BY <2>1, <2>6 DEF FinalizedIsCharged
  <2>8. /\ call[c].sent => call'[c].sent
        /\ Past(call[c]) => Past(call'[c]) /\ (~call[c].open => ~call'[c].open)
        /\ call[c].state = "finalized" =>
              call'[c].state = "finalized" /\ call'[c].charge = call[c].charge
    BY <1>2 DEF RowMoved, HeldIsUnsent, Unsent, Early, Past, Answered, Closed, SameMoney
  <2>9. Steady
    BY <2>1, <2>8 DEF Steady, Past
  <2> QED BY <2>4, <2>5, <2>7, <2>9
<1> QED BY <1>1, <1>2 DEF RowsMoved

\* A worker that does not move, on a call the step does not execute.
LEMMA SoundStays ==
    ASSUME Steady, NEW v \in Workers, worker[v].call \in Calls, Sound(worker[v]), worker'[v] = worker[v],
           \/ wire'[worker[v].call] = wire[worker[v].call]
           \/ wire'[worker[v].call] = 1 /\ worker[v].at # "transport"
    PROVE  Sound(worker[v])'
<1> DEFINE x == worker[v]
<1>1. PaidUp(x.call) => PaidUp(x.call)'
  BY DEF PaidUp, Steady, Past, Early
<1>2. Replayed(x) => Replayed(x)'
  BY DEF Replayed, Steady, Past, Early
<1>3. call[x.call].sent => call'[x.call].sent
  BY DEF Steady
<1> QED BY <1>1, <1>2, <1>3 DEF Sound

-----------------------------------------------------------------------------
(* Steps of a worker.                                                      *)

LEMMA QuietResponses ==
    ASSUME ResponseIsSent, QuietBodies, wire' = wire PROVE ResponseIsSent'
  BY DEF ResponseIsSent, QuietBodies, Quiet

\* Only worker w has moved.
Alone(w) == /\ worker' \in [Workers -> WorkerRecord]
            /\ \A v \in Workers \ {w} : worker'[v] = worker[v]

LEMMA WorkerSet ==
    ASSUME BTypeOK, NEW w \in Workers, NEW y \in WorkerRecord, worker' = [worker EXCEPT ![w] = y]
    PROVE  Alone(w) /\ worker'[w] = y
  BY DEF BTypeOK, Alone

LEMMA Returns ==
    ASSUME BTypeOK, NEW w \in Workers, NEW r \in Results, Return(w, r)
    PROVE  Alone(w) /\ worker'[w].at = "idle" /\ worker'[w].call = worker[w].call /\ worker'[w].result = r
<1> DEFINE y == [IdleWorker EXCEPT !.call = worker[w].call, !.result = r]
<1>1. IdleWorker \in WorkerRecord /\ worker[w].call \in Calls
  BY IdleWorkerType, WorkerTypes
<1>2. y \in WorkerRecord /\ y.at = IdleWorker.at /\ y.call = worker[w].call /\ y.result = r
  BY <1>1 DEF WorkerRecord
<1>3. IdleWorker.at = "idle"
  BY DEF IdleWorker
<1>4. worker' = [worker EXCEPT ![w] = y]
  BY DEF Return
<1> HIDE DEF y
<1> QED BY <1>2, <1>3, <1>4, WorkerSet

LEMMA Goes ==
    ASSUME BTypeOK, NEW w \in Workers, NEW s \in Steps, Goto(w, s)
    PROVE  /\ Alone(w) /\ worker'[w].at = s /\ worker'[w].call = worker[w].call
           /\ worker'[w].result = worker[w].result /\ worker'[w].charge = worker[w].charge
           /\ worker'[w].seen = worker[w].seen /\ worker'[w].content = worker[w].content
<1> DEFINE y == [worker[w] EXCEPT !.at = s]
<1>1. worker[w] \in WorkerRecord /\ worker \in [Workers -> WorkerRecord]
  BY DEF BTypeOK
<1>2. /\ y \in WorkerRecord /\ y.at = s /\ y.call = worker[w].call /\ y.result = worker[w].result
      /\ y.charge = worker[w].charge /\ y.seen = worker[w].seen /\ y.content = worker[w].content
  BY <1>1 DEF WorkerRecord
<1>3. worker' = [worker EXCEPT ![w] = y]
  BY <1>1 DEF Goto
<1> HIDE DEF y
<1> QED BY <1>2, <1>3, WorkerSet

\* A step of one worker that executes nothing keeps the invariant, if the worker
\* itself stays sound and goes to the provider only for a call never sent.
LEMMA WorkerMoves ==
    ASSUME BrokerInv, NEW w \in Workers, Alone(w), UNCHANGED <<process, crashes, wire>>,
           TypeOK', RowsMoved, ResponseIsSent', Sound(worker[w])',
           worker'[w].at = "transport" => call[worker'[w].call].state \in Early
    PROVE  BrokerInv'
<1>1. BTypeOK'
  BY DEF BrokerInv, BTypeOK, Alone
<1>2. Steady /\ OneActiveCallPerRoot' /\ HeldIsUnsent' /\ FinalizedIsCharged'
  BY MovedRows DEF BrokerInv
<1>3. SentAtMostOnce'
  BY <1>2 DEF BrokerInv, SentAtMostOnce, Steady
<1>4. ASSUME NEW v \in Workers PROVE Sound(worker[v])'
  <2>1. CASE v = w
    BY <2>1
  <2>2. CASE v # w
    <3>1. worker'[v] = worker[v] /\ Sound(worker[v]) /\ worker[v].call \in Calls
      BY <2>2, WorkerTypes DEF BrokerInv, Alone
    <3>2. wire'[worker[v].call] = wire[worker[v].call]
      OBVIOUS
    <3> QED BY <1>2, <3>1, <3>2, SoundStays
  <2> QED BY <2>1, <2>2
<1>5. ASSUME NEW v \in Workers, v # w, worker'[v].at = "transport", worker'[w].at = "transport"
      PROVE  worker'[v].call # worker'[w].call
  <2>1. worker[v].at = "transport" /\ worker'[v].call = worker[v].call /\ call[worker[v].call].sent
    BY <1>5 DEF BrokerInv, Alone, Sound
  <2>2. worker[v].call \in Calls
    BY WorkerTypes DEF BrokerInv
  <2>3. call[worker[v].call].state \notin Early
    BY <2>1, <2>2 DEF BrokerInv, HeldIsUnsent, Unsent, Early
  <2> QED BY <1>5, <2>1, <2>3
<1>6. OneTransportPerCall'
  BY <1>5 DEF OneTransportPerCall, BrokerInv, Alone
<1> QED BY <1>1, <1>2, <1>3, <1>4, <1>6 DEF BrokerInv

\* A step that leaves the ledger and the provider alone.
LEMMA SameLedger ==
    ASSUME BrokerInv, UNCHANGED <<ledger, process, crashes, wire>>
    PROVE  TypeOK' /\ RowsMoved /\ ResponseIsSent' /\ UNCHANGED <<process, crashes, wire>>
<1>1. UNCHANGED vars
  BY DEF ledger, vars
<1> QED BY <1>1 DEF vars, BrokerInv, BTypeOK, TypeOK, RowsMoved, ResponseIsSent

\* A write that shows no new response.
LEMMA QuietWrite ==
    ASSUME BrokerInv, [LedgerWrite]_vars, QuietBodies, wire' = wire
    PROVE  TypeOK' /\ RowsMoved /\ ResponseIsSent'
  BY WriteMovesRows, QuietResponses DEF BrokerInv, BTypeOK

LEMMA LookupStep ==
    ASSUME BrokerInv, NEW w \in Workers, NEW c \in Calls, lookup(w, c) \/ bound_lookup(w, c)
    PROVE  BrokerInv'
<1>0. BTypeOK
  BY DEF BrokerInv
<1>1. TypeOK' /\ RowsMoved /\ ResponseIsSent' /\ UNCHANGED <<process, crashes, wire>>
  BY SameLedger DEF lookup, bound_lookup
<1>2. ASSUME NEW s \in {"session", "bound_close"}, worker' = [worker EXCEPT ![w] = Entering(c, s)]
      PROVE BrokerInv'
  <2>2. Entering(c, s) \in WorkerRecord /\ Entering(c, s).at = s /\ Entering(c, s).result = "none"
    BY <1>0, EnteringType
  <2>3. Alone(w) /\ worker'[w] = Entering(c, s)
    BY <1>0, <1>2, <2>2, WorkerSet
  <2>4. Sound(worker[w])'
    BY <2>2, <2>3 DEF Sound
  <2> QED BY <1>1, <2>2, <2>3, <2>4, WorkerMoves
<1>3. ASSUME call[c].state \notin Early, worker' = [worker EXCEPT ![w] = Replaying(c)], call' = call
      PROVE BrokerInv'
  <2>2. /\ Replaying(c) \in WorkerRecord
        /\ Replaying(c).at = "replay" /\ Replaying(c).result = "none" /\ Replaying(c).call = c
        /\ Replaying(c).seen = call[c] /\ Replaying(c).content = body[c]
    BY <1>0, ReplayingType
  <2>3. Alone(w) /\ worker'[w] = Replaying(c)
    BY <1>0, <1>3, <2>2, WorkerSet
  <2>4. body[c].response # "none" => wire[c] = 1
    BY DEF BrokerInv, ResponseIsSent
  <2>5. Replayed(worker[w])'
    BY <1>1, <1>3, <2>2, <2>3, <2>4 DEF Replayed, Past
  <2>6. Sound(worker[w])'
    BY <2>2, <2>3, <2>5 DEF Sound
  <2> QED BY <1>1, <2>2, <2>3, <2>6, WorkerMoves
<1> QED BY <1>2, <1>3 DEF lookup, bound_lookup, Early, ledger

LEMMA SessionStep ==
    ASSUME BrokerInv, NEW w \in Workers, NEW d \in LeaseTerms, NEW j \in JobLeases,
           session_refused(w, d, j) \/ session_release(w, d, j) \/ session_dispatch(w, d, j)
    PROVE  BrokerInv'
<1>0. BTypeOK /\ HeldIsUnsent /\ worker[w].call \in Calls /\ worker \in [Workers -> WorkerRecord]
  BY WorkerTypes DEF BrokerInv, BTypeOK
<1>1. ASSUME session_refused(w, d, j) PROVE BrokerInv'
  <2>1. TypeOK' /\ RowsMoved /\ ResponseIsSent' /\ UNCHANGED <<process, crashes, wire>>
    BY <1>1, SameLedger DEF session_refused
  <2>2. Alone(w) /\ worker'[w].at = "idle" /\ worker'[w].result = "rejected"
    BY <1>0, <1>1, Returns DEF session_refused
  <2> QED BY <2>1, <2>2, WorkerMoves DEF Sound
<1>2. ASSUME session_release(w, d, j) PROVE BrokerInv'
  <2>1. TypeOK' /\ RowsMoved /\ QuietBodies /\ UNCHANGED <<process, crashes, wire>>
    BY <1>0, <1>2, SessionReleases DEF session_release
  <2>2. ResponseIsSent'
    BY <2>1, QuietResponses DEF BrokerInv
  <2>3. Alone(w) /\ worker'[w].at = "idle" /\ worker'[w].result = "rejected"
    BY <1>0, <1>2, Returns DEF session_release
  <2> QED BY <2>1, <2>2, <2>3, WorkerMoves DEF Sound
<1>3. ASSUME session_dispatch(w, d, j) PROVE BrokerInv'
  <2> DEFINE c == worker[w].call
             y == [worker[w] EXCEPT !.epoch = SessionCall(c, worker[w].t, d).epoch, !.at = "transport"]
  <2>1. /\ TypeOK' /\ RowsMoved /\ QuietBodies /\ UNCHANGED <<process, crashes, wire>>
        /\ call[c].state \in Early /\ call'[c].sent /\ SessionCall(c, worker[w].t, d).epoch \in Nat
    BY <1>0, <1>3, SessionDispatches DEF session_dispatch
  <2>2. ResponseIsSent'
    BY <2>1, QuietResponses DEF BrokerInv
  <2>3. y \in WorkerRecord /\ y.at = "transport" /\ y.call = c /\ y.result = worker[w].result
    <3> DEFINE e == SessionCall(c, worker[w].t, d).epoch
    <3>1. worker[w] \in WorkerRecord /\ e \in Nat
      BY <1>0, <2>1
    <3> HIDE DEF e
    <3>2. y = [worker[w] EXCEPT !.epoch = e, !.at = "transport"]
      BY DEF e
    <3> HIDE DEF y
    <3> QED BY <3>1, <3>2 DEF WorkerRecord
  <2>4. worker' = [worker EXCEPT ![w] = y]
    BY <1>0, <1>3 DEF session_dispatch
  <2> HIDE DEF y
  <2>5. Alone(w) /\ worker'[w] = y
    BY <1>0, <2>3, <2>4, WorkerSet
  <2>6. worker[w].result # "completed" /\ wire[c] = 0
    <3>1. ~call[c].sent /\ wire[c] \in Nat
      BY <1>0, <2>1 DEF HeldIsUnsent, Unsent, Early, BTypeOK
    <3> QED BY <1>0, <1>3, <3>1 DEF BrokerInv, Sound, SentAtMostOnce, session_dispatch, At
  <2>7. Sound(worker[w])'
    BY <2>1, <2>3, <2>5, <2>6 DEF Sound
  <2> QED BY <2>1, <2>2, <2>3, <2>5, <2>7, WorkerMoves
<1> QED BY <1>1, <1>2, <1>3

LEMMA SessionReplayStep ==
    ASSUME BrokerInv, NEW w \in Workers, session_replay(w) PROVE BrokerInv'
<1> DEFINE c == worker[w].call
<1>0. BTypeOK /\ HeldIsUnsent /\ c \in Calls
  BY WorkerTypes DEF BrokerInv
<1>1. TypeOK' /\ RowsMoved /\ QuietBodies /\ UNCHANGED <<process, crashes, wire, call>>
  BY <1>0, SessionReplays DEF session_replay
<1>2. ResponseIsSent'
  BY <1>1, QuietResponses DEF BrokerInv
<1>4. /\ Replaying(c) \in WorkerRecord
      /\ Replaying(c).at = "replay" /\ Replaying(c).result = "none" /\ Replaying(c).call = c
      /\ Replaying(c).seen = call[c] /\ Replaying(c).content = body[c]
  BY <1>0, ReplayingType
<1>5. Alone(w) /\ worker'[w] = Replaying(c)
  BY <1>0, <1>4, WorkerSet DEF session_replay
<1>6. body[c].response # "none" => wire[c] = 1
  BY <1>0 DEF BrokerInv, ResponseIsSent
<1>7. Past(call[c])
  BY DEF session_replay, Present, NewDispatch, Past, Early
<1>8. Replayed(worker[w])'
  BY <1>1, <1>4, <1>5, <1>6, <1>7 DEF Replayed, Past
<1>9. Sound(worker[w])'
  BY <1>4, <1>5, <1>8 DEF Sound
<1> QED BY <1>1, <1>2, <1>4, <1>5, <1>9, WorkerMoves

\* What the invariant says of one worker.
LEMMA WorkerFacts ==
    ASSUME BrokerInv, NEW w \in Workers
    PROVE  /\ BTypeOK /\ TypeOK /\ HeldIsUnsent /\ Sound(worker[w])
           /\ worker[w].call \in Calls /\ worker[w].epoch \in Nat /\ worker[w].t \in Nat
           /\ worker[w].at # "idle" => worker[w].result # "completed"
  BY WorkerTypes DEF BrokerInv, BTypeOK, Sound

\* The ways a close leaves the call: it is closed.
LEMMA ClosedAfter ==
    ASSUME TypeOK, NEW c \in Calls, CloseIfOpen(c)
    PROVE  ~call'[c].open /\ call'[c].state = call[c].state
<1>1. ASSUME close_budget_call_execution(c) PROVE ~call'[c].open /\ call'[c].state = call[c].state
  <2>1. call[c] \in CallRecord /\ call' = [call EXCEPT ![c] = [call[c] EXCEPT !.open = FALSE]]
    BY <1>1 DEF close_budget_call_execution, TypeOK
  <2> QED BY <2>1 DEF TypeOK, CallRecord
<1> QED BY <1>1 DEF CloseIfOpen, ledger

LEMMA CloseStep ==
    ASSUME BrokerInv, NEW w \in Workers, bound_close(w) \/ close(w) PROVE BrokerInv'
<1> DEFINE c == worker[w].call
<1>0. /\ BTypeOK /\ TypeOK /\ c \in Calls /\ worker \in [Workers -> WorkerRecord] /\ worker[w] \in WorkerRecord
      /\ worker[w].result # "completed"
  BY WorkerFacts, WorkerTypes DEF BTypeOK, bound_close, close, At
<1>1. CloseIfOpen(c) /\ UNCHANGED <<process, crashes, wire>>
  BY DEF bound_close, close
<1>2. TypeOK' /\ RowsMoved /\ ResponseIsSent'
  BY <1>0, <1>1, CloseWrites, QuietWrite
<1>3. Alone(w) /\ worker'[w].at \in {"session", "verify"} /\ worker'[w].result # "completed"
  <2>1. CASE bound_close(w)
    BY <1>0, <2>1, Goes DEF bound_close
  <2>2. CASE close(w)
    <3> DEFINE y == [worker[w] EXCEPT !.at = "verify", !.content = body[c]]
    <3>1. body[c] \in BodyRecord
      BY <1>0, RowTypes
    <3>2. y \in WorkerRecord /\ y.at = "verify" /\ y.result = worker[w].result
      BY <1>0, <3>1 DEF WorkerRecord
    <3>3. worker' = [worker EXCEPT ![w] = y]
      BY <1>0, <2>2 DEF close
    <3> HIDE DEF y
    <3> QED BY <1>0, <3>2, <3>3, WorkerSet
  <2> QED BY <2>1, <2>2
<1>4. Sound(worker[w])'
  BY <1>3 DEF Sound
<1> QED BY <1>1, <1>2, <1>3, <1>4, WorkerMoves

LEMMA ReplayStoredStep ==
    ASSUME BrokerInv, NEW w \in Workers, replay_stored(w) PROVE BrokerInv'
<1> DEFINE c == worker[w].call
<1>0. /\ BTypeOK /\ TypeOK /\ c \in Calls /\ worker[w].result # "completed"
      /\ Replayed(worker[w]) /\ worker[w].at = "replay"
  BY WorkerFacts DEF replay_stored, At, Sound
<1>1. /\ IF worker[w].seen.open THEN CloseIfOpen(c) ELSE UNCHANGED ledger
      /\ UNCHANGED <<process, crashes, wire>>
  BY DEF replay_stored
<1>2. TypeOK' /\ RowsMoved /\ ResponseIsSent'
  BY <1>0, <1>1, CloseWrites, QuietWrite, SameLedger
<1>3. ~call'[c].open
  <2>1. CASE worker[w].seen.open
    BY <1>0, <1>1, <2>1, ClosedAfter
  <2>2. CASE ~worker[w].seen.open
    BY <1>0, <1>1, <2>2 DEF Replayed, ledger
  <2> QED BY <2>1, <2>2
<1>4. Steady
  BY <1>2, MovedRows DEF BrokerInv
<1>5. /\ Alone(w) /\ worker'[w].at = "replay_judge" /\ worker'[w].call = c
      /\ worker'[w].result # "completed"
      /\ worker'[w].seen = worker[w].seen /\ worker'[w].content = worker[w].content
  BY <1>0, Goes DEF replay_stored
<1>6. Replayed(worker[w])'
  BY <1>0, <1>1, <1>3, <1>4, <1>5 DEF Replayed, Steady, Past
<1>7. Sound(worker[w])'
  BY <1>5, <1>6 DEF Sound
<1> QED BY <1>1, <1>2, <1>5, <1>7, WorkerMoves

\* A step that only returns: a completed response needs a paid call.
LEMMA ReturnStep ==
    ASSUME BrokerInv, NEW w \in Workers, NEW r \in Results, Return(w, r),
           UNCHANGED <<ledger, process, crashes, wire>>, r = "completed" => PaidUp(worker[w].call)
    PROVE  BrokerInv'
<1>1. TypeOK' /\ RowsMoved /\ ResponseIsSent' /\ UNCHANGED <<process, crashes, wire>> /\ call' = call
  BY SameLedger DEF ledger
<1>2. Alone(w) /\ worker'[w].at = "idle" /\ worker'[w].call = worker[w].call /\ worker'[w].result = r
  BY WorkerFacts, Returns
<1>3. Sound(worker[w])'
  BY <1>1, <1>2 DEF Sound, PaidUp
<1> QED BY <1>1, <1>2, <1>3, WorkerMoves

\* A step that only goes on, to a step that relies on nothing.
LEMMA GotoStep ==
    ASSUME BrokerInv, NEW w \in Workers, NEW s \in {"verify"}, Goto(w, s), worker[w].at # "idle",
           UNCHANGED <<ledger, process, crashes, wire>>
    PROVE  BrokerInv'
<1>1. TypeOK' /\ RowsMoved /\ ResponseIsSent' /\ UNCHANGED <<process, crashes, wire>>
  BY SameLedger
<1>2. Alone(w) /\ worker'[w].at = s /\ worker'[w].result # "completed"
  BY WorkerFacts, Goes
<1>3. Sound(worker[w])'
  BY <1>2 DEF Sound
<1> QED BY <1>1, <1>2, <1>3, WorkerMoves

LEMMA ReplayStep ==
    ASSUME BrokerInv, NEW w \in Workers, replay_judge(w) \/ replay_unanswered(w) PROVE BrokerInv'
<1> DEFINE c == worker[w].call
           x == worker[w]
<1>0. UNCHANGED <<ledger, process, crashes, wire>> /\ c \in Calls
  BY WorkerFacts DEF replay_judge, replay_unanswered
<1>1. CASE replay_unanswered(w)
  <2>1. \E r \in {"uncertain", "error", "rejected"} : Return(w, r)
    BY <1>1 DEF replay_unanswered
  <2> QED BY <1>0, <2>1, ReturnStep
<1>2. CASE replay_judge(w)
  <2>1. Replayed(x) /\ x.at = "replay_judge"
    BY <1>2, WorkerFacts DEF replay_judge, At, Sound
  <2>2. ASSUME x.content.response = "content", x.seen.state = "finalized" PROVE PaidUp(c)
    BY <1>0, <2>1, <2>2 DEF Replayed, PaidUp, BrokerInv, FinalizedIsCharged
  <2>3. \/ \E r \in {"rejected", "error"} : Return(w, r)
        \/ Return(w, "completed") /\ x.content.response = "content" /\ x.seen.state = "finalized"
        \/ Goto(w, "verify")
    BY <1>2 DEF replay_judge
  <2> QED BY <1>0, <2>1, <2>2, <2>3, ReturnStep, GotoStep
<1> QED BY <1>1, <1>2

LEMMA VerifyStep ==
    ASSUME BrokerInv, NEW w \in Workers,
           verify_persisted_response(w) \/ \E current \in BOOLEAN : recheck_authority(w, current)
    PROVE  BrokerInv'
<1> DEFINE c == worker[w].call
<1>0. UNCHANGED <<ledger, process, crashes, wire>> /\ c \in Calls /\ worker[w].result # "completed"
  BY WorkerFacts DEF verify_persisted_response, recheck_authority, At
<1>1. ASSUME Verified(c, worker[w].content), worker[w].content.verdict = "usable" PROVE PaidUp(c)
  BY <1>0, <1>1 DEF Verified, PaidUp, BrokerInv, FinalizedIsCharged, ResponseIsSent
<1>2. CASE verify_persisted_response(w)
  <2>1. \/ \E r \in {"rejected", "error"} : Return(w, r)
        \/ Return(w, "completed") /\ PaidUp(c)
        \/ Goto(w, "recheck") /\ PaidUp(c)
    <3> DEFINE b == worker[w].content
    <3>1. IF Verified(c, b) /\ b.verdict = "usable" /\ c \in BoundCalls
          THEN Goto(w, "recheck")
          ELSE Return(w, IF ~Verified(c, b) THEN "error"
                         ELSE IF b.verdict = "usable" THEN "completed"
                         ELSE "rejected")
      BY <1>2 DEF verify_persisted_response
    <3>2. CASE ~Verified(c, b)
      <4>1. Return(w, "error")
        BY <3>1, <3>2
      <4> QED BY <4>1
    <3>3. CASE Verified(c, b) /\ b.verdict # "usable"
      BY <3>1, <3>3
    <3>4. CASE Verified(c, b) /\ b.verdict = "usable"
      BY <1>1, <3>1, <3>4
    <3> QED BY <3>2, <3>3, <3>4
  <2>2. ASSUME Goto(w, "recheck"), PaidUp(c) PROVE BrokerInv'
    <3>1. TypeOK' /\ RowsMoved /\ ResponseIsSent' /\ UNCHANGED <<process, crashes, wire>> /\ call' = call
      BY <1>0, SameLedger DEF ledger
    <3>2. Alone(w) /\ worker'[w].at = "recheck" /\ worker'[w].call = c /\ worker'[w].result # "completed"
      BY <1>0, <2>2, WorkerFacts, Goes
    <3>3. Sound(worker[w])'
      BY <2>2, <3>1, <3>2 DEF Sound, PaidUp
    <3> QED BY <3>1, <3>2, <3>3, WorkerMoves
  <2> QED BY <1>0, <2>1, <2>2, ReturnStep
<1>3. ASSUME NEW current \in BOOLEAN, recheck_authority(w, current) PROVE BrokerInv'
  <2>1. PaidUp(c)
    BY <1>3, WorkerFacts DEF recheck_authority, At, Sound
  <2>2. \E r \in {"completed", "rejected"} : Return(w, r)
    BY <1>3 DEF recheck_authority
  <2> QED BY <1>0, <2>1, <2>2, ReturnStep
<1> QED BY <1>2, <1>3

\* The provider runs the request of a worker: the only one for this call.
LEMMA ExecuteStep ==
    ASSUME BrokerInv, NEW w \in Workers, NEW answer \in Answers, NEW ch \in Charges \cup {NoCharge},
           transport_execute(w, answer, ch)
    PROVE  BrokerInv'
<1> DEFINE c == worker[w].call
           s == IF answer \in {"error", "invalid"} THEN "failed" ELSE "settle"
           y == [worker[w] EXCEPT !.answer = answer, !.charge = ch, !.at = s]
<1>0. /\ BTypeOK /\ TypeOK /\ c \in Calls /\ worker \in [Workers -> WorkerRecord] /\ worker[w] \in WorkerRecord
      /\ worker[w].result # "completed" /\ worker[w].at = "transport" /\ wire[c] = 0 /\ call[c].sent
      /\ wire \in [Calls -> Nat]
  BY WorkerFacts DEF BTypeOK, transport_execute, At, Sound
<1>1. /\ wire' = [wire EXCEPT ![c] = @ + 1] /\ worker' = [worker EXCEPT ![w] = y]
      /\ s = "settle" => ch \in Charges
      /\ UNCHANGED <<ledger, process, crashes>>
  BY <1>0 DEF transport_execute
<1>2. wire'[c] = 1 /\ \A d \in Calls \ {c} : wire'[d] = wire[d]
  BY <1>0, <1>1
<1>3. y \in WorkerRecord /\ y.at = s /\ y.call = c /\ y.charge = ch /\ y.result = worker[w].result
  BY <1>0 DEF WorkerRecord
<1> HIDE DEF y
<1>4. Alone(w) /\ worker'[w] = y
  BY <1>0, <1>1, <1>3, WorkerSet
<1>5. UNCHANGED vars
  BY <1>1 DEF ledger, vars
<1>6. BTypeOK'
  BY <1>0, <1>1, <1>4, <1>5 DEF BTypeOK, TypeOK, vars, Alone
<1>7. /\ OneActiveCallPerRoot' /\ HeldIsUnsent' /\ FinalizedIsCharged' /\ ResponseIsSent' /\ Steady
  <2>1. call' = call /\ body' = body
    BY <1>5 DEF vars
  <2>2. ResponseIsSent'
    BY <1>2, <2>1 DEF BrokerInv, ResponseIsSent
  <2> QED BY <2>1, <2>2, MovedRows DEF BrokerInv, RowsMoved
<1>8. SentAtMostOnce'
  BY <1>0, <1>2, <1>5 DEF BrokerInv, SentAtMostOnce, vars
<1>9. Sound(worker[w])'
  BY <1>0, <1>1, <1>2, <1>3, <1>4 DEF Sound
<1>10. ASSUME NEW v \in Workers PROVE Sound(worker[v])'
  <2>1. CASE v = w
    BY <1>9, <2>1
  <2>2. CASE v # w
    <3>1. worker'[v] = worker[v] /\ Sound(worker[v]) /\ worker[v].call \in Calls
      BY <1>4, <2>2, WorkerFacts DEF Alone
    <3>2. worker[v].at = "transport" => worker[v].call # c
      BY <1>0, <2>2 DEF BrokerInv, OneTransportPerCall
    <3> QED BY <1>2, <1>7, <3>1, <3>2, SoundStays
  <2> QED BY <2>1, <2>2
<1>11. OneTransportPerCall'
  BY <1>3, <1>4 DEF BrokerInv, OneTransportPerCall, Alone
<1> QED BY <1>6, <1>7, <1>8, <1>10, <1>11 DEF BrokerInv

\* The provider has failed, or its answer could not be settled.
LEMMA FailStep ==
    ASSUME BrokerInv, NEW w \in Workers, transport_failed(w) \/ settle_failed(w) PROVE BrokerInv'
<1>0. BTypeOK /\ worker[w].call \in Calls /\ worker[w].epoch \in Nat
  BY WorkerFacts
<1>1. MarkIfDispatched(worker[w].call, worker[w].epoch) /\ UNCHANGED <<process, crashes, wire>>
  BY DEF transport_failed, settle_failed
<1>2. TypeOK' /\ RowsMoved /\ ResponseIsSent'
  BY <1>0, <1>1, MarkWrites, QuietWrite
<1>3. \E r \in {"uncertain", "error"} : Return(w, r)
  BY DEF transport_failed, settle_failed
<1>4. Alone(w) /\ worker'[w].at = "idle" /\ worker'[w].result # "completed"
  BY <1>0, <1>3, Returns
<1> QED BY <1>1, <1>2, <1>4, WorkerMoves DEF Sound

\* A usable verdict is given only to a response that is kept.
LEMMA SettledReadable ==
    ASSUME TypeOK, NEW c \in Calls, NEW t, NEW ch, NEW forced,
           SettledBody(c, t, ch, forced).verdict = "usable"
    PROVE  SettledBody(c, t, ch, forced).response = "content"
<1>1. body[c] \in BodyRecord
  BY RowTypes
<1>2. SettledBody(c, t, ch, forced).verdict = Verdict(c, t, ch, forced)
  BY <1>1 DEF SettledBody, BodyRecord
<1>3. ~Withheld(c, t, ch, forced)
  BY <1>2 DEF Verdict, PreexistingBlock, Withheld, SourceBlock
<1> QED BY <1>1, <1>3 DEF SettledBody, BodyRecord

LEMMA SettleStep ==
    ASSUME BrokerInv, NEW w \in Workers, \/ \E t \in worker[w].t..now : settle(w, t)
                                         \/ settle_refused(w)
    PROVE  BrokerInv'
<1> DEFINE c == worker[w].call
           ch == worker[w].charge
           f == Forced(worker[w].answer)
<1>0. /\ BTypeOK /\ TypeOK /\ c \in Calls /\ worker[w].epoch \in Nat /\ worker[w].t \in Nat
      /\ worker[w].result # "completed" /\ wire[c] = 1 /\ ch \in Charges /\ now \in Nat /\ f \in BOOLEAN
  BY WorkerFacts DEF settle, settle_refused, At, Sound, TypeOK, Forced
<1>1. ASSUME NEW t \in worker[w].t..now, settle(w, t) PROVE BrokerInv'
  <2>1. /\ settle_model_budget_call(c, worker[w].epoch, t, ch, f) /\ t \in Nat
        /\ Goto(w, "close") /\ UNCHANGED <<process, crashes, wire>>
    BY <1>0, <1>1 DEF settle
  <2>2. TypeOK' /\ RowsMoved
    BY <1>0, <2>1, SettleWrites, WriteMovesRows DEF BrokerInv
  <2>3. body' = [body EXCEPT ![c] = SettledBody(c, t, ch, f)]
    BY <2>1 DEF settle_model_budget_call
  <2>4. body'[c] = SettledBody(c, t, ch, f) /\ \A d \in Calls \ {c} : body'[d] = body[d]
    BY <1>0, <2>3 DEF TypeOK
  <2>5. body'[c].verdict = "usable" => body'[c].response = "content"
    BY <1>0, <2>4, SettledReadable
  <2>6. ResponseIsSent'
    BY <1>0, <2>1, <2>4, <2>5 DEF BrokerInv, ResponseIsSent
  <2>7. Alone(w) /\ worker'[w].at = "close" /\ worker'[w].result # "completed"
    BY <1>0, <2>1, Goes
  <2>8. Sound(worker[w])'
    BY <2>7 DEF Sound
  <2> QED BY <2>1, <2>2, <2>6, <2>7, <2>8, WorkerMoves
<1>2. CASE settle_refused(w)
  <2>1. TypeOK' /\ RowsMoved /\ ResponseIsSent' /\ UNCHANGED <<process, crashes, wire>>
    BY <1>2, SameLedger DEF settle_refused
  <2>2. CASE Return(w, "error")
    BY <1>2, <2>2, ReturnStep DEF settle_refused
  <2>3. CASE Goto(w, "settle_failed")
    <3>1. Alone(w) /\ worker'[w].at = "settle_failed" /\ worker'[w].call = c /\ worker'[w].result # "completed"
      BY <1>0, <2>3, Goes
    <3>2. Sound(worker[w])'
      BY <1>0, <2>1, <3>1 DEF Sound
    <3> QED BY <2>1, <3>1, <3>2, WorkerMoves
  <2> QED BY <1>2, <2>2, <2>3 DEF settle_refused
<1> QED BY <1>1, <1>2

-----------------------------------------------------------------------------
(* Crashes, the recovery and the environment.                              *)

\* A step of nobody's: the workers stay where they are, or are all gone.
LEMMA OutsideStep ==
    ASSUME BrokerInv, TypeOK', RowsMoved, ResponseIsSent', wire' = wire,
           process' \in {"up", "down", "recovering"}, crashes' \in 0..MaxCrashes,
           worker' = worker \/ worker' = [w \in Workers |-> IdleWorker]
    PROVE  BrokerInv'
<1>1. BTypeOK'
  BY IdleWorkerType DEF BrokerInv, BTypeOK
<1>2. Steady /\ OneActiveCallPerRoot' /\ HeldIsUnsent' /\ FinalizedIsCharged'
  BY MovedRows DEF BrokerInv
<1>3. SentAtMostOnce'
  BY <1>2 DEF BrokerInv, SentAtMostOnce, Steady
<1>4. CASE worker' = worker
  <2>1. ASSUME NEW v \in Workers PROVE Sound(worker[v])'
    BY <1>2, <1>4, WorkerFacts, SoundStays
  <2>2. OneTransportPerCall'
    BY <1>4 DEF BrokerInv, OneTransportPerCall
  <2> QED BY <1>1, <1>2, <1>3, <2>1, <2>2 DEF BrokerInv
<1>5. CASE worker' = [w \in Workers |-> IdleWorker]
  <2>1. \A w \in Workers : worker'[w].at = "idle" /\ worker'[w].result = "none"
    BY <1>5 DEF IdleWorker
  <2>2. (\A w \in Workers : Sound(worker[w])') /\ OneTransportPerCall'
    BY <2>1 DEF Sound, OneTransportPerCall
  <2> QED BY <1>1, <1>2, <1>3, <2>2 DEF BrokerInv
<1> QED BY <1>4, <1>5

LEMMA BrokerInvStep == BrokerInv /\ [BNext]_bvars => BrokerInv'
<1> SUFFICES ASSUME BrokerInv, [BNext]_bvars PROVE BrokerInv'
  OBVIOUS
<1>0. /\ BTypeOK /\ process \in {"up", "down", "recovering"} /\ crashes \in 0..MaxCrashes
      /\ MaxCrashes \in Nat
  BY BrokerAssumption DEF BrokerInv, BTypeOK
<1>1. CASE UNCHANGED bvars
  <2>1. UNCHANGED <<ledger, worker, process, crashes, wire>>
    BY <1>1 DEF bvars, ledger
  <2> QED BY <1>0, <2>1, SameLedger, OutsideStep
<1>2. CASE Environment
  <2>1. [LedgerWrite]_vars /\ QuietBodies /\ UNCHANGED <<worker, process, crashes, wire>>
    BY <1>0, <1>2, EnvironmentWrites
  <2> QED BY <1>0, <2>1, QuietWrite, OutsideStep
<1>3. CASE crash
  <2>1. /\ UNCHANGED <<ledger, wire>> /\ worker' = [w \in Workers |-> IdleWorker]
        /\ process' = "down" /\ crashes' = crashes + 1 /\ crashes < MaxCrashes
    BY <1>3 DEF crash
  <2>2. UNCHANGED vars
    BY <2>1 DEF ledger, vars
  <2>3. TypeOK' /\ RowsMoved /\ ResponseIsSent'
    BY <2>1, <2>2, QuietWrite, SameBodies DEF vars
  <2> QED BY <1>0, <2>1, <2>3, OutsideStep
<1>4. CASE restart \/ serve
  <2>1. UNCHANGED <<ledger, worker, crashes, wire>> /\ process' \in {"up", "recovering"}
    BY <1>4 DEF restart, serve
  <2>2. UNCHANGED vars
    BY <2>1 DEF ledger, vars
  <2>3. TypeOK' /\ RowsMoved /\ ResponseIsSent'
    BY <2>1, <2>2, QuietWrite, SameBodies DEF vars
  <2> QED BY <1>0, <2>1, <2>3, OutsideStep
<1>5. ASSUME NEW c \in Calls, recover_settled_open_execution(c) PROVE BrokerInv'
  <2>1. CloseIfOpen(c) /\ UNCHANGED <<worker, process, crashes, wire>>
    BY <1>5 DEF recover_settled_open_execution, CloseIfOpen
  <2>2. TypeOK' /\ RowsMoved /\ ResponseIsSent'
    BY <2>1, CloseWrites, QuietWrite
  <2> QED BY <1>0, <2>1, <2>2, OutsideStep
<1>6. ASSUME NEW w \in Workers, BrokerStep(w) PROVE BrokerInv'
  <2>1. CASE \E c \in Calls : lookup(w, c) \/ bound_lookup(w, c)
    BY <2>1, LookupStep
  <2>2. CASE \E d \in LeaseTerms, j \in JobLeases :
               session_refused(w, d, j) \/ session_release(w, d, j) \/ session_dispatch(w, d, j)
    BY <2>2, SessionStep
  <2>3. CASE session_replay(w)
    BY <2>3, SessionReplayStep
  <2>4. CASE replay_stored(w) \/ replay_judge(w) \/ replay_unanswered(w)
    BY <2>4, ReplayStoredStep, ReplayStep
  <2>5. CASE \E answer \in Answers, ch \in Charges \cup {NoCharge} : transport_execute(w, answer, ch)
    BY <2>5, ExecuteStep
  <2>6. CASE transport_failed(w) \/ bound_close(w)
    BY <2>6, FailStep, CloseStep
  <2>7. CASE Settling(w)
    BY <2>7, SettleStep, FailStep, CloseStep, VerifyStep DEF Settling
  <2> QED BY <1>6, <2>1, <2>2, <2>3, <2>4, <2>5, <2>6, <2>7 DEF BrokerStep
<1> QED BY <1>1, <1>2, <1>3, <1>4, <1>5, <1>6 DEF BNext, Recovery

LEMMA BrokerInvariant == BSpec => []BrokerInv
  BY BrokerInit, BrokerInvStep, PTL DEF BSpec

\* For any number of workers, calls and crashes: the provider sees a request at
\* most once and only under a committed dispatch, two workers are at the provider
\* for one root only if an Admin has charged and closed one of the calls, and a
\* response reported as completed is that of one execution, charged and closed.
THEOREM BrokerIsSafe == BSpec => []BrokerSafe
<1>1. ASSUME BrokerInv PROVE OneTransportPerRoot
  <2> SUFFICES ASSUME NEW v \in Workers, NEW w \in Workers, v # w,
                      worker[v].at = "transport", worker[w].at = "transport",
                      RootOf(worker[v].call) = RootOf(worker[w].call)
               PROVE  \E x \in {v, w} : ~Active(call[worker[x].call])
    BY DEF OneTransportPerRoot
  <2>1. worker[v].call \in Calls /\ worker[w].call \in Calls /\ worker[v].call # worker[w].call
    BY <1>1, WorkerFacts DEF BrokerInv, OneTransportPerCall
  <2> QED BY <1>1, <2>1 DEF BrokerInv, OneActiveCallPerRoot
<1>2. ASSUME BrokerInv PROVE CompletedIsPaid
  BY <1>2 DEF BrokerInv, Sound, PaidUp, CompletedIsPaid
<1>3. BrokerInv => BrokerSafe
  BY <1>1, <1>2 DEF BrokerInv, BrokerSafe
<1> QED BY <1>3, BrokerInvariant, PTL

-----------------------------------------------------------------------------
(* The refinement.                                                         *)

Phase == [c \in Calls |-> PhaseOf(c)]

\* A move of a call row is a move of its money, or none.
LEMMA RowsMoveMoney ==
    ASSUME BrokerInv, RowsMoved, TypeOK', wire' = wire
    PROVE  [Paid!Next]_<<Phase, wire>>
<1>0. TypeOK
  BY DEF BrokerInv, BTypeOK
<1>1. CASE call' = call
  BY <1>1 DEF Phase, PhaseOf
<1>2. ASSUME NEW c \in Calls, RowMoved(c) PROVE [Paid!Next]_<<Phase, wire>>
  <2>1. \A d \in Calls \ {c} : PhaseOf(d)' = PhaseOf(d)
    BY <1>2 DEF RowMoved, PhaseOf
  <2>2. Phase' = [Phase EXCEPT ![c] = PhaseOf(c)']
    BY <2>1 DEF Phase
  <2>3. Phase[c] = PhaseOf(c)
    BY DEF Phase
  <2>4. \/ PhaseOf(c)' = PhaseOf(c)
        \/ PhaseOf(c) = "none" /\ PhaseOf(c)' = "held"
        \/ PhaseOf(c) \in {"none", "held"} /\ PhaseOf(c)' \in {"void", "committed"}
        \/ PhaseOf(c) = "committed" /\ PhaseOf(c)' = "charged"
    BY <1>2 DEF RowMoved, Early, Answered, Closed, PhaseOf
  <2>5. CASE PhaseOf(c)' = PhaseOf(c)
    BY <2>2, <2>3, <2>5 DEF Phase
  <2>6. CASE PhaseOf(c)' # PhaseOf(c)
    <3>1. \/ Paid!Hold(c) \/ Paid!Void(c) \/ Paid!Commit(c) \/ Paid!Charge(c)
      BY <2>2, <2>3, <2>4, <2>6
         DEF Paid!Hold, Paid!Void, Paid!Commit, Paid!Charge, Paid!Move, Phase
    <3> QED BY <3>1 DEF Paid!Next
  <2> QED BY <2>5, <2>6
<1> QED BY <1>1, <1>2 DEF RowsMoved

\* Every step of the broker is a step of PaidCall, or leaves it alone.
LEMMA BrokerStepIsPaid ==
    ASSUME BrokerInv, BrokerInv', [BNext]_bvars
    PROVE  [Paid!Next]_<<Phase, wire>>
<1>0. TypeOK /\ TypeOK' /\ HeldIsUnsent
  BY DEF BrokerInv, BTypeOK
<1>1. ASSUME RowsMoved, wire' = wire PROVE [Paid!Next]_<<Phase, wire>>
  BY <1>0, <1>1, RowsMoveMoney
<1>2. ASSUME NEW w \in Workers, NEW answer, NEW ch, transport_execute(w, answer, ch)
      PROVE  Paid!Next
  <2> DEFINE c == worker[w].call
  <2>1. /\ c \in Calls /\ wire[c] = 0 /\ call[c].sent /\ wire \in [Calls -> Nat]
        /\ wire' = [wire EXCEPT ![c] = @ + 1] /\ call' = call
    BY <1>2, WorkerFacts DEF transport_execute, At, Sound, ledger, BTypeOK
  <2>2. call[c].state \in {"dispatched", "uncertain", "finalized"}
    BY <1>0, <2>1 DEF HeldIsUnsent, Unsent, TypeOK, CallRecord
  <2>3. Phase[c] \in {"committed", "charged"} /\ Phase' = Phase
    BY <2>1, <2>2 DEF Phase, PhaseOf
  <2>4. Paid!Execute(c)
    BY <2>1, <2>3 DEF Paid!Execute, Phase
  <2> QED BY <2>1, <2>4 DEF Paid!Next
<1>3. ASSUME UNCHANGED ledger PROVE RowsMoved
  BY <1>3 DEF ledger, RowsMoved
<1>4. ASSUME NEW c \in Calls, CloseIfOpen(c) PROVE RowsMoved
  BY <1>0, <1>4, CloseWrites, WriteMovesRows
<1>5. ASSUME NEW c \in Calls, NEW e \in Nat, MarkIfDispatched(c, e) PROVE RowsMoved
  BY <1>0, <1>5, MarkWrites, WriteMovesRows
<1>6. CASE Environment
  <2>1. [LedgerWrite]_vars /\ wire' = wire
    BY <1>6, EnvironmentWrites DEF BrokerInv
  <2> QED BY <1>0, <1>1, <2>1, WriteMovesRows
<1>7. CASE crash \/ restart \/ serve \/ UNCHANGED bvars
  <2>1. UNCHANGED ledger /\ wire' = wire
    BY <1>7 DEF crash, restart, serve, bvars, ledger
  <2> QED BY <1>1, <1>3, <2>1
<1>8. ASSUME NEW c \in Calls, recover_settled_open_execution(c) PROVE [Paid!Next]_<<Phase, wire>>
  BY <1>1, <1>4, <1>8 DEF recover_settled_open_execution, CloseIfOpen
<1>9. ASSUME NEW w \in Workers, BrokerStep(w) PROVE [Paid!Next]_<<Phase, wire>>
  <2>0. BTypeOK /\ worker[w].call \in Calls /\ worker[w].epoch \in Nat /\ Sound(worker[w])
    BY WorkerFacts
  <2>1. ASSUME NEW c \in Calls, lookup(w, c) \/ bound_lookup(w, c) PROVE RowsMoved /\ wire' = wire
    BY <1>3, <2>1 DEF lookup, bound_lookup
  <2>2. ASSUME NEW d \in LeaseTerms, NEW j \in JobLeases,
               session_refused(w, d, j) \/ session_release(w, d, j) \/ session_dispatch(w, d, j)
        PROVE  RowsMoved /\ wire' = wire
    BY <1>0, <1>3, <2>0, <2>2, SessionReleases, SessionDispatches
       DEF session_refused, session_release, session_dispatch
  <2>3. CASE session_replay(w)
    BY <1>0, <1>1, <2>0, <2>3, SessionReplays DEF session_replay
  <2>4. ASSUME replay_judge(w) \/ replay_unanswered(w) \/ settle_refused(w) \/ verify_persisted_response(w)
               \/ \E current \in BOOLEAN : recheck_authority(w, current)
        PROVE  RowsMoved /\ wire' = wire
    BY <1>3, <2>4 DEF replay_judge, replay_unanswered, settle_refused, verify_persisted_response, recheck_authority
  <2>5. ASSUME bound_close(w) \/ close(w) \/ replay_stored(w) PROVE RowsMoved /\ wire' = wire
    BY <1>3, <1>4, <2>0, <2>5 DEF bound_close, close, replay_stored
  <2>6. ASSUME transport_failed(w) \/ settle_failed(w) PROVE RowsMoved /\ wire' = wire
    BY <1>5, <2>0, <2>6 DEF transport_failed, settle_failed
  <2>7. ASSUME NEW t \in worker[w].t..now, settle(w, t) PROVE RowsMoved /\ wire' = wire
    <3>1. /\ t \in Nat /\ worker[w].charge \in Charges /\ Forced(worker[w].answer) \in BOOLEAN
          /\ settle_model_budget_call(worker[w].call, worker[w].epoch, t, worker[w].charge, Forced(worker[w].answer))
          /\ wire' = wire
      BY <1>0, <2>0, <2>7, WorkerFacts DEF settle, At, Sound, Forced, TypeOK
    <3>2. LedgerWrite
      BY <2>0, <3>1, SettleWrites
    <3> QED BY <1>0, <3>1, <3>2, WriteMovesRows
  <2> QED BY <1>1, <1>2, <1>9, <2>1, <2>2, <2>3, <2>4, <2>5, <2>6, <2>7 DEF BrokerStep, Settling
<1> QED BY <1>6, <1>7, <1>8, <1>9 DEF BNext, Recovery

\* A step of a worker moves no other.
LEMMA StepIsAlone ==
    ASSUME BTypeOK, NEW v \in Workers, BrokerStep(v) PROVE \A w \in Workers \ {v} : worker'[w] = worker[w]
<1>0. worker \in [Workers -> WorkerRecord]
  BY DEF BTypeOK
<1>1. ASSUME NEW r, Return(v, r) PROVE \A w \in Workers \ {v} : worker'[w] = worker[w]
  BY <1>0, <1>1 DEF Return
<1>2. ASSUME NEW s, Goto(v, s) PROVE \A w \in Workers \ {v} : worker'[w] = worker[w]
  BY <1>0, <1>2 DEF Goto
<1>3. ASSUME NEW c, lookup(v, c) \/ bound_lookup(v, c) PROVE \A w \in Workers \ {v} : worker'[w] = worker[w]
  BY <1>0, <1>3 DEF lookup, bound_lookup
<1>4. ASSUME NEW d, NEW j, session_refused(v, d, j) \/ session_release(v, d, j)
      PROVE \A w \in Workers \ {v} : worker'[w] = worker[w]
  BY <1>1, <1>4 DEF session_refused, session_release
<1>5. ASSUME NEW d, NEW j, session_dispatch(v, d, j) PROVE \A w \in Workers \ {v} : worker'[w] = worker[w]
  BY <1>0, <1>5 DEF session_dispatch
<1>6. ASSUME session_replay(v) PROVE \A w \in Workers \ {v} : worker'[w] = worker[w]
  BY <1>0, <1>6 DEF session_replay
<1>7. ASSUME NEW answer, NEW ch, transport_execute(v, answer, ch)
      PROVE \A w \in Workers \ {v} : worker'[w] = worker[w]
  BY <1>0, <1>7 DEF transport_execute
<1>8. ASSUME close(v) PROVE \A w \in Workers \ {v} : worker'[w] = worker[w]
  BY <1>0, <1>8 DEF close
<1>9. ASSUME replay_judge(v) \/ verify_persisted_response(v) \/ settle_refused(v)
      PROVE \A w \in Workers \ {v} : worker'[w] = worker[w]
  BY <1>1, <1>2, <1>9 DEF replay_judge, verify_persisted_response, settle_refused
<1>10. ASSUME NEW current, \/ bound_close(v) \/ replay_stored(v) \/ replay_unanswered(v)
                           \/ transport_failed(v) \/ settle_failed(v) \/ recheck_authority(v, current)
       PROVE \A w \in Workers \ {v} : worker'[w] = worker[w]
  BY <1>1, <1>2, <1>10 DEF bound_close, replay_stored, replay_unanswered, transport_failed, settle_failed, recheck_authority
<1>11. ASSUME NEW t, settle(v, t) PROVE \A w \in Workers \ {v} : worker'[w] = worker[w]
  BY <1>2, <1>11 DEF settle
<1> QED BY <1>3, <1>4, <1>5, <1>6, <1>7, <1>8, <1>9, <1>10, <1>11 DEF BrokerStep, Settling

\* The broker over its ledger implements PaidCall, for any number of workers,
\* calls and crashes: money is given back only for a call the provider never saw,
\* and a call is executed and charged at most once.
THEOREM BrokerImplementsPaidCall == BSpec => PaidCallOnce
<1>1. BInit => Paid!Init
  BY DEF BInit, Init, Paid!Init, PhaseOf, AbsentCall
<1>2. BrokerInv /\ BrokerInv' /\ [BNext]_bvars => [Paid!Next]_<<Phase, wire>>
  BY BrokerStepIsPaid
<1> QED BY <1>1, <1>2, BrokerInvariant, PTL DEF BSpec, PaidCallOnce, Paid!Spec, Phase

\* An unbound response leaves as completed only in a step in which the ledger
\* still holds it usable and readable: one that the cleanup has redacted since the
\* worker read it is not returned.
THEOREM OnlyUsableResponsesLeave == BSpec => CompletedStillUsable
<1> DEFINE Leaves ==
       \A w \in Workers :
           LET c == worker[w].call IN
           c \notin BoundCalls /\ worker[w].at = "verify" /\ worker'[w].result = "completed" =>
               body[c].verdict = "usable" /\ body[c].response = "content"
<1>1. ASSUME BrokerInv, [BNext]_bvars PROVE Leaves
  <2> SUFFICES ASSUME NEW w \in Workers, worker[w].at = "verify", worker'[w].result = "completed"
               PROVE  body[worker[w].call].verdict = "usable" /\ body[worker[w].call].response = "content"
    OBVIOUS
  <2>0. BTypeOK /\ worker[w].call \in Calls /\ worker[w].result # "completed"
    BY <1>1, WorkerFacts
  <2>1. worker'[w] # worker[w]
    BY <2>0
  <2>2. IdleWorker.result # "completed"
    BY DEF IdleWorker
  <2>3. ~(\/ UNCHANGED bvars \/ Environment \/ crash \/ Recovery)
    BY <2>1, <2>2 DEF bvars, Environment, crash, Recovery, restart, serve, recover_settled_open_execution
  <2>4. PICK v \in Workers : BrokerStep(v)
    BY <1>1, <2>3 DEF BNext
  <2>5. v = w
    <3> QED BY <1>1, <2>0, <2>1, <2>4, StepIsAlone DEF Alone
  <2>6. verify_persisted_response(w)
    BY <2>4, <2>5 DEF BrokerStep, Settling, lookup, bound_lookup, bound_close, session_refused, session_release,
       session_dispatch, session_replay, replay_stored, replay_judge, replay_unanswered, transport_execute,
       transport_failed, settle, settle_refused, settle_failed, close, recheck_authority, At
  <2>7. Verified(worker[w].call, worker[w].content) /\ worker[w].content.verdict = "usable"
    <3> DEFINE c == worker[w].call
               b == worker[w].content
    <3>1. CASE ~Verified(c, b)
      <4>1. Return(w, "error")
        BY <2>6, <3>1 DEF verify_persisted_response
      <4> QED BY <2>0, <4>1, Returns
    <3>2. CASE Verified(c, b) /\ b.verdict # "usable"
      <4>1. Return(w, "rejected")
        BY <2>6, <3>2 DEF verify_persisted_response
      <4> QED BY <2>0, <4>1, Returns
    <3> QED BY <3>1, <3>2
  <2>8. body[worker[w].call].verdict = "usable"
    BY <2>7 DEF Verified
  <2> QED BY <1>1, <2>0, <2>8 DEF BrokerInv, ResponseIsSent
<1>2. BrokerInv /\ [BNext]_bvars => [Leaves]_bvars
  BY <1>1
<1> QED BY <1>2, BrokerInvariant, PTL DEF BSpec, CompletedStillUsable

=============================================================================
