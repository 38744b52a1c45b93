------------------------------ MODULE Elastic ------------------------------
(***************************************************************************)
(* The elastic exploration policy (evo-core strategy.rs): which action a   *)
(* world takes next, as a function of the nodes it has revealed, what is   *)
(* left of its budget and how long each opportunity has waited.            *)
(*                                                                         *)
(* A world is a record [nodes, remaining, branch, focus, waits].  A node   *)
(* is numbered by its place.  Qualities and gains are small integers.      *)
(* Repair actions are left out: no dispatch writes a repairable failure.   *)
(***************************************************************************)
EXTENDS Common, Integers

CONSTANTS
    Roots,          \* root opportunities: [seq, branch, cost]
    SuccessorCost,
    Baseline,       \* quality of the approved parent
    Qualities,      \* qualities an observation may have
    MAX_NODES,
    MAX_DEPTH,
    FAIRNESS_WAIT_ROUNDS,
    MAX_FOCUS_ACTIONS,
    STAGNATION_WINDOW,
    STAGNATION_ABS_GAIN,
    SIGNIFICANT_GAIN,
    GAIN_CLAMP      \* how far a gain moves the value of an action

ASSUME ElasticShape ==
    /\ \A r \in Roots : r.seq \in 1..99 /\ r.branch \in Nat \ {0} /\ r.cost \in Nat \ {0}
    /\ \A r, s \in Roots : (r.seq = s.seq \/ r.branch = s.branch) => r = s
    /\ SuccessorCost \in Nat \ {0} /\ Baseline \in Nat /\ Qualities \subseteq Nat
    /\ MAX_NODES \in Nat \ {0} /\ MAX_DEPTH \in Nat \ {0}
    /\ FAIRNESS_WAIT_ROUNDS \in Nat \ {0} /\ MAX_FOCUS_ACTIONS \in Nat \ {0}
    /\ STAGNATION_WINDOW \in 1..2 /\ STAGNATION_ABS_GAIN < SIGNIFICANT_GAIN
    /\ GAIN_CLAMP \in Nat

\* Where the numbers of the actions that follow a node start.
SUCCESSOR_SEQ == 100

Max2(a, b) == IF a > b THEN a ELSE b
Clamp(g) == IF g > GAIN_CLAMP THEN GAIN_CLAMP ELSE IF g < -GAIN_CLAMP THEN -GAIN_CLAMP ELSE g

IsValid(n) == n.status = "valid"

Widen(r) == [kind |-> "widen", seq |-> r.seq, branch |-> r.branch, depth |-> 1,
             parent |-> 0, cost |-> r.cost]

Deepen(nodes, i) ==
    [kind |-> "deepen", seq |-> SUCCESSOR_SEQ + 2 * i, branch |-> nodes[i].branch,
     depth |-> nodes[i].depth + 1, parent |-> i, cost |-> SuccessorCost]

Expanded(nodes) == {nodes[i].parent : i \in DOMAIN nodes}

\* Roots whose branch is not begun, and the successor of a valid node that has none.
derive_legal_actions(nodes) ==
    {Widen(r) : r \in {r \in Roots : \A i \in DOMAIN nodes : nodes[i].branch # r.branch}}
      \cup {Deepen(nodes, i) : i \in {i \in DOMAIN nodes :
              nodes[i].depth < MAX_DEPTH /\ IsValid(nodes[i]) /\ i \notin Expanded(nodes)}}

\* What may be afforded: the opportunities of a round.
legal_candidates(world) ==
    {a \in derive_legal_actions(world.nodes) :
       Len(world.nodes) < MAX_NODES /\ a.depth <= MAX_DEPTH /\ a.cost <= world.remaining}

LastGain(n) == IF n.gains = <<>> THEN 0 ELSE n.gains[Len(n.gains)]

action_value(world, a) ==
    IF a.kind = "widen" THEN Baseline
    ELSE world.nodes[a.parent].quality + Clamp(LastGain(world.nodes[a.parent]))

\* compare_ranked: the higher value, then the cheaper, then the earlier number.
Before(world, a, b) ==
    LET va == action_value(world, a)
        vb == action_value(world, b)
    IN \/ va > vb
       \/ va = vb /\ a.cost < b.cost
       \/ va = vb /\ a.cost = b.cost /\ a.seq < b.seq

First(world, actions) == CHOOSE a \in actions : \A b \in actions \ {a} : Before(world, a, b)

Waited(world, a) == IF a.seq \in DOMAIN world.waits THEN world.waits[a.seq] ELSE 0

Overdue(world, actions) == {a \in actions : Waited(world, a) >= FAIRNESS_WAIT_ROUNDS}

\* The one that has waited longest, the lower number between equals.
longest_overdue(world, overdue) ==
    CHOOSE a \in overdue : \A b \in overdue \ {a} :
      \/ Waited(world, a) > Waited(world, b)
      \/ Waited(world, a) = Waited(world, b) /\ a.seq < b.seq

\* The newest node of the current branch.
CurrentNode(world) ==
    LET own == {i \in DOMAIN world.nodes : world.nodes[i].branch = world.branch}
    IN world.nodes[CHOOSE i \in own : \A j \in own : j <= i]

Stagnated(world) ==
    LET gains == CurrentNode(world).gains IN
    /\ Len(gains) >= STAGNATION_WINDOW
    /\ \A k \in (Len(gains) - STAGNATION_WINDOW + 1)..Len(gains) :
         gains[k] \in (-STAGNATION_ABS_GAIN)..STAGNATION_ABS_GAIN

\* select_first over the candidates of a round, of which there is one at least.
select_first(world, candidates) ==
    LET roots        == {a \in candidates : a.kind = "widen"}
        overdue      == Overdue(world, candidates)
        alternatives == {a \in candidates : a.branch # world.branch}
        successors   == {a \in candidates : a.branch = world.branch /\ a.kind = "deepen"}
        unfocused    == world.focus >= MAX_FOCUS_ACTIONS
    IN CASE world.nodes = <<>> -> CHOOSE a \in roots : \A b \in roots : a.seq <= b.seq
         [] world.nodes # <<>> /\ overdue # {} -> longest_overdue(world, overdue)
         [] world.nodes # <<>> /\ overdue = {} ->
              IF alternatives # {} /\ (unfocused \/ Stagnated(world))
              THEN First(world, IF Stagnated(world) /\ alternatives \cap roots # {}
                                THEN alternatives \cap roots ELSE alternatives)
              ELSE IF ~unfocused /\ LastGain(CurrentNode(world)) >= SIGNIFICANT_GAIN /\ successors # {}
              THEN First(world, successors)
              ELSE First(world, candidates)

\* decide_elastic of width one: the action to dispatch, none when it stops.
decide_elastic(world) ==
    LET candidates == legal_candidates(world) IN
    IF candidates = {} THEN {} ELSE {select_first(world, candidates)}

\* Every opportunity but the one taken has waited one round more; what is no
\* opportunity now does not wait.
update_waits(world, taken) ==
    LET open == {a.seq : a \in legal_candidates(world)}
        kept == (open \ {taken.seq}) \cup ({taken.seq} \cap open \cap DOMAIN world.waits)
    IN [s \in kept |->
          IF s = taken.seq THEN world.waits[s]
          ELSE IF s \in DOMAIN world.waits THEN world.waits[s] + 1 ELSE 1]

-----------------------------------------------------------------------------
(* What a dispatch adds to a world.                                        *)

\* What the gain of a valid node is measured against.
PreviousQuality(nodes, a) ==
    IF a.parent = 0 THEN Baseline
    ELSE IF IsValid(nodes[a.parent]) THEN nodes[a.parent].quality ELSE nodes[a.parent].best

\* inherited_best_micros.
inherited_best(nodes, a) ==
    IF a.parent = 0 THEN Baseline
    ELSE LET p == nodes[a.parent] IN
         Max2(Baseline, IF IsValid(p) THEN Max2(p.quality, p.best) ELSE p.best)

\* The last two gains of the line.
Gains(nodes, a, status, quality) ==
    LET before == IF a.parent = 0 THEN <<>> ELSE nodes[a.parent].gains
        after  == IF status = "valid" THEN Append(before, quality - PreviousQuality(nodes, a)) ELSE before
    IN IF Len(after) > 2 THEN Tail(after) ELSE after

NewNode(nodes, a, status, quality) ==
    [branch |-> a.branch, parent |-> a.parent, depth |-> a.depth, status |-> status,
     quality |-> quality,
     best |-> IF status = "valid" THEN Max2(quality, inherited_best(nodes, a)) ELSE inherited_best(nodes, a),
     gains |-> Gains(nodes, a, status, quality)]

\* Mistake: an uncertain step gives back a cost that was never set aside.
spent_given_back(world, a, status) ==
    IF status = "uncertain" THEN world.remaining + a.cost ELSE Max2(0, world.remaining - a.cost)

\* saturating_sub: whatever the step ended in.
Spent(world, a, status) == Max2(0, world.remaining - a.cost)

\* The world after a dispatch of a ended: one node, one round.
Advance(world, a, status, quality) ==
    [nodes     |-> Append(world.nodes, NewNode(world.nodes, a, status, quality)),
     remaining |-> Spent(world, a, status),
     branch    |-> a.branch,
     focus     |-> IF world.branch = a.branch THEN world.focus + 1 ELSE 1,
     waits     |-> update_waits(world, a)]

\* PrefixViewV2::validate: what every later decision refuses to work without.
PrefixValid(nodes) ==
    \A i \in DOMAIN nodes :
      LET n == nodes[i] IN
      /\ n.depth <= MAX_DEPTH /\ Len(n.gains) <= 2
      /\ n.parent = 0 => n.depth = 1
      /\ n.parent # 0 => /\ n.parent < i
                         /\ nodes[n.parent].branch = n.branch /\ n.depth = nodes[n.parent].depth + 1
      /\ LET up == IF n.parent = 0 THEN Baseline ELSE nodes[n.parent].best
         IN n.best = IF IsValid(n) THEN Max2(up, n.quality) ELSE up
=============================================================================
