--------------------------- MODULE MCModelBroker ---------------------------
(***************************************************************************)
(* TLC instances of ModelBroker: one call that meets a crash, one whose    *)
(* lease runs out, and two calls of a root, one of them bound.             *)
(***************************************************************************)
EXTENDS ModelBroker, TLC

CONSTANTS c1, c2, g1, r1, s1

VARIABLE part

MCGroupRoot == [g \in Groups |-> r1]
MCGroupOf == [c \in Calls |-> g1]
MCSourcesOf == [c \in Calls |-> {s1}]
MCKinds == [c \in Calls |-> "model"]
MCCost == [c \in Calls |-> 1]
MCLimit == [r \in Roots |-> 2]
MCCap == [r \in Roots |-> 1]

MCInit ==
    /\ part \in {"crash", "leases", "bound"}
    /\ BInit

Untouched(c) == call'[c] = call[c] /\ body'[c] = body[c]

\* One call meets everything at one time; one meets the clock, Admins and
\* callers, and two meet an
\* Admin and a revocation.
MCNext ==
    /\ UNCHANGED part
    /\ \/ \E w \in Workers : BrokerStep(w)
       \/ part = "crash" /\ (Environment \/ crash \/ Recovery)
       \/ /\ \/ \E r \in Roots : authorize_root_budget(r)
             \/ \E c \in Calls, ch \in Charges : reconcile_budget_call_cost(c, ch)
             \/ \E c \in Calls : close_budget_call_execution(c)
             \/ \E s \in Sources : revoke_source(s)
             \/ part = "leases" /\ (Tick \/ reserve_budget_call(c1, now, 1, 0) \/ cancel_budget_call(c1, call[c1].epoch))
          /\ UNCHANGED <<worker, process, crashes, wire>>
    /\ part = "crash" => UNCHANGED now
    /\ part # "bound" => Untouched(c2) /\ \A w \in Workers : worker'[w].call = c1

MCSpec == MCInit /\ [][MCNext]_<<bvars, part>> /\ BFairness

\* A response leaves only while the ledger holds it usable, and a settled call is
\* closed in the end.
BrokerFinishes ==
    /\ CompletedStillUsable
    /\ SettledIsClosed
=============================================================================
