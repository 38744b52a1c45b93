---------------------------- MODULE MCRootBudget ----------------------------
(***************************************************************************)
(* TLC instances of RootBudget.                                            *)
(***************************************************************************)
EXTENDS RootBudget, TLC

CONSTANTS c1, c2, g1, r1, s1

\* Two calls of one root and group; the first is derived from a source.
MCGroupRoot == [g \in Groups |-> r1]
MCGroupOf == [c \in Calls |-> g1]
MCSourcesOf == (c1 :> {s1} @@ c2 :> {})
MCKinds == (c1 :> "e16" @@ c2 :> "registered")
MCCost == (c1 :> 1 @@ c2 :> 2)
MCLimit == [r \in Roots |-> 3]
MCCap == [r \in Roots |-> 2]

UsageSymmetry == Permutations(UsageIds)
=============================================================================
