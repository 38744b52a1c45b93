--------------------------- MODULE MCManagementJob ---------------------------
(* Pairs of requests, and how much goes wrong around them.                 *)
EXTENDS ManagementJob, TLC

CONSTANTS J1, J2

Pair(a, b) == (J1 :> a) @@ (J2 :> b)

\* Two registrations of one holdout; an export and its publication; the other
\* operations, each next to one that holds or waits for the slot.
Pairs == {Pair("current", "current"), Pair("prepare", "publish"), Pair("replay", "status"),
          Pair("world", "meta"), Pair("ticket", "probe")}

\* The inputs of evaluations and of meta.start depend on no run.
FromRuns == {"current", "replay", "world", "probe", "prepare", "publish"}

\* Crashes, revocations, cancellations, leases that ran out, renewals that failed
\* and facts committed by somebody else.
Disturbances ==
    crashes + (IF revoked THEN 1 ELSE 0)
      + Cardinality({j \in Jobs : job[j].cancel}) + Cardinality({j \in Jobs : job[j].lease = "expired"})
      + Cardinality({t \in Jobs \X Slots : task[t].stop}) + Cardinality({o \in Producers : fact[o] = "other"})

\* Two disturbances of the first three pairs, one of the others, whose operations
\* share their steps with the first.
Allowed == IF operation[J1] \in {"world", "ticket"} THEN 1 ELSE 2

\* Slots are alike: the second one is used while the first is taken.
FirstSlotFirst == \A j \in Jobs : task[<<j, 2>>] = Idle /\ task'[<<j, 2>>] # Idle => task'[<<j, 1>>] # Idle

MCNext == Next /\ Disturbances' <= Allowed /\ FirstSlotFirst

MCSpec == Init /\ [][MCNext]_vars
FairMCSpec == MCSpec /\ WF_vars(recover_pending) /\ \A t \in Jobs \X Slots : WF_vars(TaskStep(t))

-----------------------------------------------------------------------------
\* What a record says is never taken back, and every job ends.
RecordIsFinal ==
    /\ RecordOnlyGrows
    /\ JobEnds

-----------------------------------------------------------------------------
\* The pairs two comments of the code are checked with.
TracePair == {Pair("prepare", "publish")}
ReaderPair == {Pair("replay", "status")}
=============================================================================
