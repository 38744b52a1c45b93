---------------------------- MODULE Exploration ----------------------------
(***************************************************************************)
(* The persistent coordinator of an exploration world (evo-engine          *)
(* exploration.rs).  A request decides the next action of the world,       *)
(* claims its dispatch in one transaction, pays for the optimization step  *)
(* outside any, and settles the dispatch in another: one node, its cost    *)
(* spent.  A call may be cut off anywhere and made again; two calls may    *)
(* work on one claim.                                                      *)
(*                                                                         *)
(* The prefix of a world changes exactly when a node is added, so a        *)
(* decision's prefix digest is the number of nodes it was taken on.        *)
(***************************************************************************)
EXTENDS Elastic, FiniteSetsExt, TLC

CONSTANTS
    Budget,         \* the root budget the world is registered with
    Callers,
    Copies          \* requests built for the same step of the world

Requests == (1..MAX_NODES + 1) \X Copies

ASSUME ExplorationShape == Budget \in Nat /\ Copies # {}

VARIABLES
    world,          \* the world's record, None before it is registered
    facts,          \* dispatch facts, by the number of their action
    history,        \* requests a deterministic diagnostic is recorded for
    standing,       \* the sources of the world stand at its watermark
    readable,       \* nothing of the world is redacted
    call            \* what each caller is doing

explorationVars == <<world, facts, history, standing, readable, call>>

NewWorld == [nodes |-> <<>>, remaining |-> Budget, branch |-> 0, focus |-> 0, waits |-> <<>>]

Fact == [state : {"claimed", "observed", "uncertain"}, request : Requests, on : Nat,
         action : [kind : {"widen", "deepen"}, seq : Nat, branch : Nat, depth : Nat, parent : Nat, cost : Nat],
         node : Nat]

ExplorationTypeOK ==
    /\ standing \in BOOLEAN /\ readable \in BOOLEAN /\ history \subseteq Requests
    /\ world = None => facts = <<>>
    /\ world # None => /\ Len(world.nodes) <= MAX_NODES /\ world.remaining \in 0..Budget
                       /\ world.focus \in 0..MAX_NODES
                       /\ \A s \in DOMAIN world.waits : world.waits[s] \in 1..MAX_NODES
    /\ \A s \in DOMAIN facts : facts[s] \in Fact /\ facts[s].action.seq = s
    /\ \A c \in Callers : call[c] # None => /\ call[c].at \in {"looked", "decided", "dispatched"}
                                            /\ call[c].request \in Requests

ExplorationInit ==
    /\ world = None /\ facts = <<>> /\ history = {}
    /\ standing = TRUE /\ readable = TRUE
    /\ call = [c \in Callers |-> None]

Nodes == world.nodes
Open == {s \in DOMAIN facts : facts[s].state = "claimed"}
Settled == DOMAIN facts \ Open
Of(request) == {s \in DOMAIN facts : facts[s].request = request}

\* check_world_live over a record that can still be read.
WorldReads == world # None /\ readable
WorldLive == WorldReads /\ standing

Calling(at, q, a, on, resumes) == [at |-> at, request |-> q, action |-> a, on |-> on, resumes |-> resumes]

-----------------------------------------------------------------------------
(* Registration.                                                           *)

register_world ==
    /\ world = None /\ standing
    /\ world' = NewWorld
    /\ UNCHANGED <<facts, history, standing, readable, call>>

\* Where the node of a dispatch belongs.
node_follows_action(i, a) ==
    /\ Nodes[i].parent = a.parent /\ Nodes[i].branch = a.branch /\ Nodes[i].depth = a.depth
    /\ a.parent # 0 => a.parent < i /\ Nodes[a.parent].branch = a.branch /\ Nodes[a.parent].depth + 1 = a.depth

CostOf(seqs) == MapThenSumSet(LAMBDA s : facts[s].action.cost, seqs)

\* registered_budget: the budget the world was registered with, from its facts; a
\* second registration is accepted exactly when the facts account for it.
registered_budget(budget) ==
    /\ \A s \in Open : facts[s].node = 0
    /\ \A s \in Settled : facts[s].node \in DOMAIN Nodes /\ node_follows_action(facts[s].node, facts[s].action)
    /\ \A s, t \in Settled : facts[s].node = facts[t].node => s = t
    /\ Cardinality(Settled) = Len(Nodes)
    /\ world.remaining + CostOf(Settled) = budget

\* A deterministic diagnostic of the input a request carries.
record_history(q) ==
    /\ WorldLive /\ q \notin history
    /\ history' = history \cup {q}
    /\ UNCHANGED <<world, facts, standing, readable, call>>

-----------------------------------------------------------------------------
(* run_next.                                                               *)

\* Nothing bound to the request has ended yet.
dispatch_for_request(q) == Of(q) \subseteq Open

\* A request that finds its own claim resumes its decision.
look(c, q) ==
    /\ call[c] = None /\ WorldLive
    /\ dispatch_for_request(q)
    /\ call' = [call EXCEPT ![c] =
         IF Of(q) = {} THEN Calling("looked", q, None, 0, FALSE)
         ELSE LET f == facts[CHOOSE s \in Of(q) : TRUE] IN Calling("decided", q, f.action, f.on, TRUE)]
    /\ UNCHANGED <<world, facts, history, standing, readable>>

Leave(c) == call' = [call EXCEPT ![c] = None]

\* decide_next reads the world in a session of its own; it fails on a prefix that
\* does not validate, and stops when nothing can be afforded.
decide_next(c) ==
    /\ call[c] # None /\ call[c].at = "looked"
    /\ LET decision == IF WorldLive /\ PrefixValid(Nodes) THEN decide_elastic(world) ELSE {} IN
       \/ decision = {} /\ Leave(c)
       \/ \E a \in decision :
            call' = [call EXCEPT ![c] = Calling("decided", @.request, a, Len(Nodes), FALSE)]
    /\ UNCHANGED <<world, facts, history, standing, readable>>

\* guard_dispatch_inputs: the action is still offered, the request was built for
\* this step, and a fact that is there already says the same.
guard_dispatch_inputs(job) ==
    /\ job.action \in derive_legal_actions(Nodes)
    /\ job.request[1] = Len(Nodes) + 1
    /\ job.action.seq \in DOMAIN facts =>
         LET f == facts[job.action.seq] IN
         f.request = job.request /\ f.action = job.action /\ f.on = job.on

NewFact(job) == [state |-> "claimed", request |-> job.request, on |-> job.on, action |-> job.action, node |-> 0]

\* A fact that is there is taken up again; a new one is stored with its world.
with_claim(job) ==
    IF job.action.seq \in DOMAIN facts THEN facts ELSE (job.action.seq :> NewFact(job)) @@ facts

\* The claim is committed before anything is paid for.  A recorded diagnostic of
\* the same input is answered first, whatever is claimed already.
claim_dispatch(c) ==
    LET job == call[c]
        s   == job.action.seq
        go  == /\ WorldLive /\ job.request \notin history /\ guard_dispatch_inputs(job)
               /\ s \in DOMAIN facts => facts[s].state = "claimed"
               /\ s \notin DOMAIN facts => world.remaining >= job.action.cost
    IN /\ call[c] # None /\ call[c].at = "decided"
       /\ IF go THEN /\ call' = [call EXCEPT ![c].at = "dispatched"]
                     /\ facts' = with_claim(job)
          ELSE Leave(c) /\ UNCHANGED facts
       /\ UNCHANGED <<world, history, standing, readable>>

\* Another caller of the same request may have settled it meanwhile.
still_claimed(s) == facts[s].state = "claimed"

DispatchOutcomes == {<<"valid", q>> : q \in Qualities} \cup {<<"hard", 0>>, <<"uncertain", 0>>}

\* What the step produced, and the gate said of it; uncertain when the sources moved
\* or the step was decided on another prefix.
settlement_for(job, outcome) ==
    IF ~standing \/ Len(Nodes) # job.on THEN <<"uncertain", 0>> ELSE outcome

settle(c) ==
    LET job == call[c]
        s   == job.action.seq
    IN /\ call[c] # None /\ call[c].at = "dispatched"
       /\ Leave(c)
       /\ \/ /\ WorldReads /\ still_claimed(s)
             /\ \E outcome \in DispatchOutcomes :
                  LET ended == settlement_for(job, outcome) IN
                  /\ world' = Advance(world, job.action, ended[1], ended[2])
                  /\ facts' = [facts EXCEPT ![s].node = Len(Nodes) + 1,
                                            ![s].state = IF ended[1] = "uncertain" THEN "uncertain" ELSE "observed"]
          \/ ~(WorldReads /\ still_claimed(s)) /\ UNCHANGED <<world, facts>>
       /\ UNCHANGED <<history, standing, readable>>

\* The process stops, a port is missing, capacity or the store refuses.
give_up(c) ==
    /\ call[c] # None
    /\ Leave(c)
    /\ UNCHANGED <<world, facts, history, standing, readable>>

\* A source is revoked, and cleanup redacts what depends on it.
exploration_revoke ==
    /\ world # None /\ standing
    /\ standing' = FALSE
    /\ UNCHANGED <<world, facts, history, readable, call>>

exploration_cleanup ==
    /\ ~standing /\ readable
    /\ readable' = FALSE
    /\ UNCHANGED <<world, facts, history, standing, call>>

CallStep(c) == decide_next(c) \/ claim_dispatch(c) \/ settle(c)

ExplorationNext ==
    \/ register_world \/ exploration_revoke \/ exploration_cleanup
    \/ \E q \in Requests : record_history(q)
    \/ \E c \in Callers : CallStep(c) \/ give_up(c) \/ \E q \in Requests : look(c, q)

ExplorationSpec == ExplorationInit /\ [][ExplorationNext]_explorationVars

-----------------------------------------------------------------------------
(* Properties.                                                             *)

\* The registered budget is found again from the facts, whatever was cut off or run
\* twice: registering the same world again is never refused, and never accepted
\* with another budget.
RegistrationRecoverable == world # None => registered_budget(Budget)

\* Every reachable prefix passes the check all later decisions begin with.
PrefixStaysValid == world # None => PrefixValid(Nodes)

\* No opportunity starves: the overdue go first, the one that waited longest before
\* the others, one new opportunity comes in a round at most, and so only the roots
\* that were offered with an opportunity are ever taken ahead of it.
NoOpportunityStarves ==
    world # None =>
      \A a \in legal_candidates(world) : Waited(world, a) <= FAIRNESS_WAIT_ROUNDS + Max2(0, Cardinality(Roots) - 2)

\* One dispatch is open at a time, and it was decided on the prefix it will extend:
\* what a request pays for can be recorded.
OneOpenDispatch ==
    /\ Cardinality(Open) <= 1
    /\ \A s \in Open : facts[s].on = Len(Nodes)

\* A node and a settled dispatch are never written again, by whoever comes late.
SettledStands ==
    [][world # None =>
         /\ SubSeq(world'.nodes, 1, Len(world.nodes)) = world.nodes
         /\ \A s \in Settled : facts'[s] = facts[s]]_explorationVars

\* The request of an open claim is made again, and not given up every time.
OpenRequests == {facts[s].request : s \in Open}

Resume(c) == \E q \in OpenRequests : look(c, q)
Rejoin(c) == call[c] # None /\ call[c].request \in OpenRequests /\ claim_dispatch(c)

ExplorationFairness(c) ==
    WF_explorationVars(CallStep(c)) /\ SF_explorationVars(Resume(c)) /\ SF_explorationVars(Rejoin(c)) /\ SF_explorationVars(settle(c))

\* An open dispatch is settled, as long as its request is made again, its sources
\* stand and no diagnostic of its input is recorded.
ClaimEnds == (Open # {}) ~> (Open = {} \/ ~standing \/ OpenRequests \cap history # {})

\* What holds of an explored world in every state: its registered budget can be
\* rebuilt, its prefix is valid, no opportunity starves, and one dispatch is open.
ExplorationSafe ==
    /\ ExplorationTypeOK
    /\ RegistrationRecoverable
    /\ PrefixStaysValid
    /\ NoOpportunityStarves
    /\ OneOpenDispatch
=============================================================================
