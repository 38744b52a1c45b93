----------------------------- MODULE ReplayRun -----------------------------
(***************************************************************************)
(* An offline replay (evo-engine replay.rs): a policy is played against a  *)
(* sealed world of recorded transitions, one batch of actions a round.     *)
(*                                                                         *)
(* A world is a record: its catalog of actions, what was observed of each  *)
(* (rec), its registered roots (None for a world of the old version), the  *)
(* contexts whose successors are all in the catalog (exhausted), and what  *)
(* the registration granted.  Which candidate the policy ranks first is    *)
(* left open here (Elastic models the ranking), so a round may take every  *)
(* batch the batch rules allow.                                            *)
(***************************************************************************)
EXTENDS Common, FiniteSetsExt

CONSTANTS
    ReplayWorlds,       \* the worlds a replay may load
    ReplayProfiles,     \* [width, probes, recoveries]: simulation profiles
    R_MAX_NODES, R_MAX_DEPTH,
    R_MAX_REPAIR,       \* repair dispatches of one episode, and failed repairs of one line
    R_BASELINE          \* quality of the approved parent

\* What the validation of a sealed world and of a profile has established.
ASSUME ReplayShape ==
    /\ R_MAX_NODES \in Nat /\ R_MAX_DEPTH \in Nat /\ R_MAX_REPAIR \in Nat /\ R_BASELINE \in Int
    /\ \A w \in ReplayWorlds :
         /\ IsFiniteSet(w.catalog) /\ w.grant \in Nat /\ w.recoveries \in Nat
         /\ \A a \in w.catalog :
              /\ a.seq \in Nat \ {0} /\ a.branch \in Nat \ {0} /\ a.depth \in 1..R_MAX_DEPTH
              /\ a.kind \in {"widen", "deepen", "recover"} /\ a.cost \in Nat \cup {None}
         /\ \A a, b \in w.catalog : a.seq = b.seq => a = b
         /\ \A s \in DOMAIN w.rec :
              /\ \E a \in w.catalog : a.seq = s
              /\ w.rec[s].outcome \in {"observed", "censored", "oos"} /\ w.rec[s].quality \in Int
    /\ \A p \in ReplayProfiles : p.width \in {1, 2, 4} /\ p.probes \in 1..R_MAX_NODES
                                 /\ p.recoveries \in 0..p.probes

\* Why a replay ended.
Terminals == {"failed", "censored", "out_of_support", "world_exhausted", "policy_stop", "budget_exhausted"}

ASSUME ReplayAbsent == None \notin Terminals

VARIABLE replay

NodeOf(r, n) == CHOOSE x \in r.nodes : x.seq = n
HasNode(r, n) == \E x \in r.nodes : x.seq = n

-----------------------------------------------------------------------------
(* Which actions a round may take.                                         *)

RevealedContexts(r) == {r.world.baseline} \cup {x.next : x \in r.nodes}

\* Actions not yet selected whose context has been revealed.
available_actions(r) ==
    {a \in r.world.catalog : a.seq \notin r.selected /\ a.ctx \in RevealedContexts(r)}

\* An old world never froze a root balance: the catalog's known bounds stand for it.
replay_runtime_budget(r) ==
    [nodes |-> r.profile.probes - r.probes,
     recoveries |-> (IF r.world.roots = None THEN r.profile.recoveries
                     ELSE Min({r.world.recoveries, r.profile.recoveries})) - r.recovered,
     micros |-> IF r.world.roots # None THEN r.world.grant - r.spent
                ELSE SumFunctionOnSet([a \in available_actions(r) |-> IF a.cost = None THEN 0 ELSE a.cost],
                                      available_actions(r))]

Repairable(x) == x.status = "repairable"

\* Repairs of the episode of a failed node dispatched so far.
Repairs(r, episode) == Cardinality({x \in r.nodes : x.repairs = episode /\ episode # None})

\* legal_candidates, of a repair: the target failed in that episode, its
\* environment was reset, and neither its line nor its episode is used up.
repair_open(r, a) ==
    HasNode(r, a.target) /\ LET x == NodeOf(r, a.target) IN
      /\ Repairable(x) /\ x.reset /\ x.episode = a.episode
      /\ x.failures < R_MAX_REPAIR /\ Repairs(r, x.episode) < R_MAX_REPAIR

\* legal_candidates, of the place the action would have in the tree.
successor_open(r, a) ==
    CASE a.kind = "widen"   -> a.depth = 1 /\ \A x \in r.nodes : x.branch # a.branch
      [] a.kind = "deepen"  -> HasNode(r, a.target) /\ LET x == NodeOf(r, a.target) IN
                                 /\ x.branch = a.branch /\ x.depth + 1 = a.depth /\ x.status = "valid"
                                 /\ \A y \in r.nodes : y.parent # a.target
      [] a.kind = "recover" -> HasNode(r, a.target) /\ LET x == NodeOf(r, a.target) IN
                                 x.branch = a.branch /\ x.depth + 1 = a.depth

replay_candidates(r) ==
    LET budget == replay_runtime_budget(r) IN
    {a \in available_actions(r) :
       /\ a.depth <= R_MAX_DEPTH /\ budget.nodes > 0 /\ Cardinality(r.nodes) < R_MAX_NODES
       /\ a.cost # None /\ a.cost <= budget.micros
       /\ a.kind = "recover" => budget.recoveries > 0 /\ repair_open(r, a)
       /\ successor_open(r, a)}

excluded_parent(r, x) == x.status = "valid" /\ \A y \in r.nodes : y.parent # x.seq

\* first_core_exclusion_v3: the diagnosis of a stopped policy, written apart
\* from the filter, names the first reason an action was left out.
first_core_exclusion(r, a) ==
    LET budget == replay_runtime_budget(r) IN
    CASE a.depth > R_MAX_DEPTH -> "depth"
      [] a.depth <= R_MAX_DEPTH /\ (budget.nodes = 0 \/ Cardinality(r.nodes) >= R_MAX_NODES) -> "node"
      [] OTHER ->
         IF a.cost = None THEN "no_cost"
         ELSE IF a.cost > budget.micros THEN "balance"
         ELSE IF /\ a.kind = "recover"
                 /\ ~ (budget.recoveries > 0 /\ \E x \in r.nodes :
                         /\ x.seq = a.target /\ x.failures < R_MAX_REPAIR
                         /\ x.status = "repairable" /\ x.episode = a.episode /\ x.reset
                         /\ Repairs(r, x.episode) < R_MAX_REPAIR)
              THEN "recovery"
         ELSE IF \/ a.kind = "widen" /\ (a.depth # 1 \/ \E x \in r.nodes : x.branch = a.branch)
                 \/ a.kind # "widen" /\ ~ \E x \in r.nodes :
                      /\ x.seq = a.target /\ x.branch = a.branch /\ x.depth + 1 = a.depth
                      /\ a.kind = "deepen" => excluded_parent(r, x)
              THEN "structure"
         ELSE "none"

Episodes(batch) == {a.episode : a \in {a \in batch : a.kind = "recover"}}
CostOf(batch) == SumFunctionOnSet([a \in batch |-> a.cost], batch)
Recovers(batch) == {a \in batch : a.kind = "recover"}

\* Batch slots share one prefix: an episode is reserved before its outcome is known.
one_repair_an_episode(batch) == Cardinality(Recovers(batch)) = Cardinality(Episodes(batch))

affordable_together(budget, batch) == CostOf(batch) <= budget.micros

\* decide_elastic of some width: one action a branch and one repair an
\* episode, together within what is left.
decide_batches(r) ==
    LET budget == replay_runtime_budget(r) IN
    {b \in SUBSET replay_candidates(r) :
       /\ b # {} /\ Cardinality(b) <= Min({r.profile.width, budget.nodes})
       /\ Cardinality(r.nodes) + Cardinality(b) <= R_MAX_NODES
       /\ \A a, c \in b : a.branch = c.branch => a = c
       /\ one_repair_an_episode(b) /\ Cardinality(Recovers(b)) <= budget.recoveries
       /\ affordable_together(budget, b)}

-----------------------------------------------------------------------------
(* What a batch reveals.                                                   *)

\* lookup_transition: what was recorded of an action, None when nothing was.
lookup_transition(r, a) == IF a.seq \in DOMAIN r.world.rec THEN r.world.rec[a.seq] ELSE None

\* Observed or censored: a probe of history that was paid for then.
Historical(r, batch) ==
    {a \in batch : lookup_transition(r, a) # None /\ lookup_transition(r, a).outcome # "oos"}

ObservedOf(r, batch) == {a \in Historical(r, batch) : lookup_transition(r, a).outcome = "observed"}

CensoredOf(r, batch) ==
    {a \in Historical(r, batch) : \/ lookup_transition(r, a).outcome = "censored"
                                  \/ lookup_transition(r, a).status = "uncertain"}

\* node_from_transition.
node_from_transition(r, a) ==
    LET t == lookup_transition(r, a)
        up == IF a.kind = "widen" THEN R_BASELINE
              ELSE LET p == NodeOf(r, a.target) IN
                   Max({R_BASELINE, p.best} \cup IF p.status = "valid" THEN {p.quality} ELSE {})
    IN [seq |-> a.seq, branch |-> a.branch, depth |-> a.depth,
        parent |-> IF a.kind = "widen" THEN 0 ELSE a.target,
        status |-> t.status, quality |-> t.quality, next |-> t.next,
        episode |-> t.episode, reset |-> t.reset,
        best |-> IF t.status = "valid" THEN Max({up, t.quality}) ELSE up,
        repairs |-> IF a.kind = "recover" THEN NodeOf(r, a.target).episode ELSE None,
        failures |-> (IF a.kind = "widen" THEN 0 ELSE NodeOf(r, a.target).failures)
                     + (IF a.kind = "recover" /\ t.status = "repairable" THEN 1 ELSE 0)]

Repeat(value, n) == [k \in 1..n |-> value]

selected_by(r, batch) == {a.seq : a \in batch}

\* The whole batch stands at what it reached together.
probe_points(r, known, best) == Repeat(best, Cardinality(known))

\* Mistake: an uncertain result is taken for an observation.
terminal_of_outcomes(r, batch) ==
    IF \E a \in Historical(r, batch) : lookup_transition(r, a).outcome = "censored" THEN "censored"
    ELSE IF Historical(r, batch) # batch THEN "out_of_support" ELSE None

\* A censored member ends the replay, and so does one without a record.
batch_terminal(r, batch) ==
    IF CensoredOf(r, batch) # {} THEN "censored"
    ELSE IF Historical(r, batch) # batch THEN "out_of_support" ELSE None

\* reveal_batch: every outcome of the batch at once.
reveal_batch(r, batch) ==
    LET known == Historical(r, batch)
        seen  == ObservedOf(r, batch)
        best  == Max({r.best} \cup {lookup_transition(r, a).quality :
                                     a \in {a \in seen : lookup_transition(r, a).status = "valid"}})
    IN [r EXCEPT !.selected = @ \cup selected_by(r, batch),
                 !.nodes = @ \cup {node_from_transition(r, a) : a \in seen},
                 !.recovered = @ + Cardinality(Recovers(seen)),
                 !.spent = @ + CostOf(known),
                 !.probes = @ + Cardinality(known),
                 !.best = best,
                 !.probe_curve = @ \o probe_points(r, known, best),
                 !.round_curve = IF known = {} THEN @ ELSE Append(@, best),
                 !.sizes = IF known = {} THEN @ ELSE Append(@, Cardinality(known)),
                 !.terminal = batch_terminal(r, batch)]

-----------------------------------------------------------------------------
(* Why a policy that finds nothing to do stopped.                          *)

\* Roots and nodes that could go on and have no record left to go on with.
Unopened(r) ==
    {root \in r.world.roots :
       ~ \E a \in r.world.catalog :
           /\ a.kind = "widen" /\ a.slot = root.slot /\ a.seq \in r.selected
           /\ Historical(r, {a}) # {}}

CanDeepen(r, x) == x.status = "valid" /\ \A y \in r.nodes : y.parent # x.seq
CanRecover(r, x) == Repairable(x) /\ Repairs(r, x.episode) < R_MAX_REPAIR /\ x.failures < R_MAX_REPAIR

Successors(r, x) ==
    {a \in r.world.catalog :
       /\ a.seq \notin r.selected /\ a.ctx = x.next /\ a.branch = x.branch /\ a.depth = x.depth + 1
       /\ a.target = x.seq
       /\ (a.kind = "deepen" /\ CanDeepen(r, x)) \/ (a.kind = "recover" /\ CanRecover(r, x))}

MissingContexts(r) ==
    {r.world.baseline : root \in {root \in Unopened(r) :
        ~ \E a \in r.world.catalog : a.kind = "widen" /\ a.slot = root.slot /\ a.seq \notin r.selected}}
      \cup {x.next : x \in {x \in r.nodes :
        x.depth < R_MAX_DEPTH /\ (CanDeepen(r, x) \/ CanRecover(r, x)) /\ Successors(r, x) = {}}}

\* empty_legal_frontier_v3: a stop is the policy's own only when the record
\* covers everything that could have come next.
empty_legal_frontier(r) ==
    IF Cardinality(r.nodes) >= R_MAX_NODES THEN "policy_stop"
    ELSE IF r.world.roots = None THEN "out_of_support"
    ELSE IF MissingContexts(r) \ r.world.exhausted # {} THEN "out_of_support"
    ELSE IF MissingContexts(r) # {} THEN "world_exhausted" ELSE "policy_stop"

\* PrefixViewV2::validate, of what a later decision depends on.
prefix_valid(r) ==
    \A x \in r.nodes :
      /\ x.parent = 0 => x.depth = 1
      /\ x.parent # 0 => /\ x.parent < x.seq /\ HasNode(r, x.parent)
                         /\ LET p == NodeOf(r, x.parent) IN p.branch = x.branch /\ p.depth + 1 = x.depth
      /\ x.failures <= R_MAX_REPAIR
      /\ LET up == IF x.parent = 0 THEN R_BASELINE ELSE NodeOf(r, x.parent).best
         IN x.best = IF x.status = "valid" THEN Max({up, x.quality}) ELSE up

\* score_completed_trajectory, the scorer of completed trajectories: as many
\* points as probes and rounds, rising, and one value for a whole batch.
trajectory_shape(r) ==
    LET Rises(s)  == \A k \in 1..(Len(s) - 1) : s[k] <= s[k + 1]
        Before(k) == SumFunctionOnSet(r.sizes, 1..(k - 1))
    IN /\ Len(r.probe_curve) = r.probes /\ r.probes <= r.profile.probes
       /\ Len(r.round_curve) = Len(r.sizes) /\ Len(r.round_curve) <= r.profile.probes
       /\ Rises(r.probe_curve) /\ Rises(r.round_curve)
       /\ \A k \in DOMAIN r.sizes :
            /\ r.sizes[k] \in 1..r.profile.width
            /\ \A i \in (Before(k) + 1)..(Before(k) + r.sizes[k]) : r.probe_curve[i] = r.round_curve[k]

-----------------------------------------------------------------------------
(* The replay.                                                             *)

Complete(r) == r.terminal \in {"policy_stop", "budget_exhausted"}

replay_init ==
    replay \in {[world |-> w, profile |-> p, selected |-> {}, nodes |-> {}, recovered |-> 0,
                 spent |-> 0, probes |-> 0, best |-> R_BASELINE, probe_curve |-> <<>>,
                 round_curve |-> <<>>, sizes |-> <<>>, terminal |-> None] :
                w \in ReplayWorlds, p \in ReplayProfiles}

\* A prefix a decision refuses fails the world: it is counted, never scored.
replay_fails ==
    /\ replay.terminal = None /\ replay.probes < replay.profile.probes
    /\ ~prefix_valid(replay)
    /\ replay' = [replay EXCEPT !.terminal = "failed"]

replay_exhausts ==
    /\ replay.terminal = None /\ replay.probes = replay.profile.probes
    /\ replay' = [replay EXCEPT !.terminal = "budget_exhausted"]

replay_stops ==
    /\ replay.terminal = None /\ replay.probes < replay.profile.probes
    /\ prefix_valid(replay) /\ replay_candidates(replay) = {}
    /\ replay' = [replay EXCEPT !.terminal = empty_legal_frontier(replay)]

replay_dispatches ==
    /\ replay.terminal = None /\ replay.probes < replay.profile.probes /\ prefix_valid(replay)
    /\ \E batch \in decide_batches(replay) : replay' = reveal_batch(replay, batch)

replay_next == replay_fails \/ replay_exhausts \/ replay_stops \/ replay_dispatches

ReplaySpec == replay_init /\ [][replay_next]_replay

-----------------------------------------------------------------------------
(* Properties.                                                             *)

ReplayTypeOK ==
    /\ replay.world \in ReplayWorlds /\ replay.profile \in ReplayProfiles
    /\ replay.selected \subseteq {a.seq : a \in replay.world.catalog}
    /\ replay.probes \in 0..R_MAX_NODES /\ replay.spent \in Nat /\ replay.recovered \in Nat
    /\ replay.terminal \in Terminals \cup {None}

\* The budget rebuilt at every round (replay_runtime_budget) subtracts what
\* whole batches spent: nothing it subtracts ever passes what was granted, so
\* no replay dies of an underflow it caused itself.
ReplayWithinGrant ==
    /\ replay.probes <= replay.profile.probes
    /\ replay.world.roots # None => /\ replay.spent <= replay.world.grant
                                    /\ replay.recovered <= replay.world.recoveries
    /\ replay.recovered <= replay.profile.recoveries

\* The filter of the decision and the diagnosis of a stop (legal_candidates,
\* first_core_exclusion_v3) are two programs for one rule: they agree on every
\* action of every round, or the replay is refused as "filter drift".
FiltersAgree ==
    \A a \in available_actions(replay) :
      (a \in replay_candidates(replay)) <=> (first_core_exclusion(replay, a) = "none")

\* However batches are cut and branches share an episode, an episode is
\* repaired as often as the caps allow and no more.
RepairsWithinEpisode ==
    \A e \in {x.repairs : x \in replay.nodes} \ {None} : Repairs(replay, e) <= R_MAX_REPAIR

\* A replay that counts as complete support rests on what was really
\* observed: no action of it is censored, uncertain or unrecorded, and a
\* policy that stopped of itself had its registered roots and the next step of
\* every open node in front of it.
CompleteIsSupported ==
    Complete(replay) =>
      /\ \A a \in replay.world.catalog : a.seq \in replay.selected =>
           /\ a.seq \in DOMAIN replay.world.rec
           /\ replay.world.rec[a.seq].outcome = "observed" /\ replay.world.rec[a.seq].status # "uncertain"
      /\ replay.terminal = "policy_stop" /\ Cardinality(replay.nodes) < R_MAX_NODES =>
           /\ replay.world.roots # None
           /\ \A root \in replay.world.roots : \E a \in replay.world.catalog : a.kind = "widen" /\ a.slot = root.slot
           /\ \A x \in replay.nodes : (x.depth < R_MAX_DEPTH /\ CanDeepen(replay, x)) =>
                \E a \in replay.world.catalog : a.kind = "deepen" /\ a.target = x.seq

\* The curves of a complete replay are the ones the scorer of completed
\* trajectories accepts: a batch never shows the order within it.
CurvesAreScorable == Complete(replay) => trajectory_shape(replay)

\* What holds of a replay in every state: it stays within its grant, the filters of
\* a decision agree, repairs stay within their episode, and a complete replay rests
\* on recorded transitions and can be scored.
ReplaySafe ==
    /\ ReplayTypeOK
    /\ ReplayWithinGrant
    /\ FiltersAgree
    /\ RepairsWithinEpisode
    /\ CompleteIsSupported
    /\ CurvesAreScorable
=============================================================================
