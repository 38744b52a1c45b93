----------------------------- MODULE MCRecovery -----------------------------
(***************************************************************************)
(* Instances of the modules that play back or bring back what was stored:  *)
(* replays of recorded worlds, the store of worlds, pools and reports, the *)
(* backup and restore of a deployment, and the workspace a configuration   *)
(* is laid out in.  A behaviour is of one of them (part), and the others   *)
(* stay where they begin.                                                  *)
(***************************************************************************)
EXTENDS Replays, Restore, ConfigWorkspace, TLC

VARIABLE part

recoveryVars == <<replay, rvars, restoreVars, wvars, part>>

-----------------------------------------------------------------------------
(* Replay: worlds with their roots registered and all recorded, with gaps, *)
(* and one of the old version.                                             *)

RAction(seq, branch, depth, kind, target, ctx, cost, episode) ==
    [seq |-> seq, branch |-> branch, depth |-> depth, kind |-> kind, target |-> target,
     slot |-> IF kind = "widen" THEN branch ELSE 0, ctx |-> ctx, cost |-> cost, episode |-> episode]

RSeen(status, quality, next, episode) ==
    [outcome |-> "observed", status |-> status, quality |-> quality, next |-> next,
     episode |-> episode, reset |-> TRUE]

RGap(outcome) ==
    [outcome |-> outcome, status |-> "none", quality |-> 0, next |-> 0, episode |-> None, reset |-> FALSE]

\* Two branches that fail in one episode, a third that is valid and deepened.
RCatalog ==
    {RAction(1, 1, 1, "widen", 0, 0, 1, None), RAction(2, 2, 1, "widen", 0, 0, 1, None),
     RAction(3, 3, 1, "widen", 0, 0, 2, None),
     RAction(4, 1, 2, "recover", 1, 1, 2, "e1"), RAction(5, 2, 2, "recover", 2, 2, 1, "e1"),
     RAction(6, 3, 2, "deepen", 3, 3, 1, None), RAction(7, 3, 2, "deepen", 3, 3, 1, None),
     RAction(8, 3, 3, "deepen", 6, 6, None, None)}

RRec ==
    1 :> RSeen("repairable", 0, 1, "e1") @@ 2 :> RSeen("repairable", 0, 2, "e1")
      @@ 3 :> RSeen("valid", 2, 3, None) @@ 4 :> RSeen("valid", 3, 4, None)
      @@ 5 :> RSeen("repairable", 0, 5, "e2") @@ 6 :> RSeen("valid", 1, 6, None)

RRoots == {[slot |-> b] : b \in 1..3}

MCReplayWorlds ==
    {[catalog |-> RCatalog, rec |-> rec, roots |-> roots, baseline |-> 0, exhausted |-> ex,
      grant |-> 5, recoveries |-> 2] :
        rec \in {RRec, [RRec EXCEPT ![6] = RSeen("uncertain", 0, 6, None)],
                 [RRec EXCEPT ![3] = RGap("censored")], [RRec EXCEPT ![4] = RGap("oos")],
                 [s \in DOMAIN RRec \ {3} |-> RRec[s]]},
        roots \in {RRoots, RRoots \cup {[slot |-> 4]}, None},
        ex \in {{}, {0, 4, 5, 6}}}
      \cup
    {[catalog |-> {RAction(2, 1, 1, "widen", 0, 0, 1, None), RAction(1, 1, 2, "deepen", 2, 1, 1, None)},
      rec |-> 1 :> RSeen("valid", 2, 2, None) @@ 2 :> RSeen("valid", 1, 1, None),
      roots |-> {[slot |-> 1]}, baseline |-> 0, exhausted |-> {}, grant |-> 5, recoveries |-> 1]}

MCReplayProfiles == {[width |-> w, probes |-> p, recoveries |-> 2] : w \in {1, 2, 4}, p \in {3, 5}}

-----------------------------------------------------------------------------
(* The store: two worlds of a pool, the second with its baseline only.     *)
(* Two admins collect one world, or the pool is collected and played.      *)

MCROwn(w) == IF w = "train" THEN <<"b1", "o1", "o2">> ELSE <<"b2">>

MCRStarts == <<"s1", "s2">>

\* The runs of one world are recorded in order, those of the pool in any; the later
\* start is stored before the one that sorts first, and the admins are alike.
CollectNext ==
    \/ start_again("s2") \/ ("s2" \in rstarts /\ start_again("s1"))
    \/ record_run("b1") \/ ("b1" \in rruns /\ record_run("o1")) \/ ("o1" \in rruns /\ record_run("o2"))
    \/ revoke_run("o1")
    \/ \E a \in RAdmins : \/ (a = "a2" => rcopy["a1"] # None) /\ (prepare_world(a, "train") \/ copy_world(a, "train"))
                          \/ \E r \in RRuns : (a = "a2" => r = "o2") /\ extend_copy(a, r)
                          \/ collect_draft(a)
    \/ seal_world("train") \/ \E r \in RRuns : collect_transition("train", r)

PoolNext ==
    \/ \E r \in RRuns : record_run(r) \/ revoke_run(r)
    \/ \E a \in RAdmins : (\E w \in RWorlds : prepare_world(a, w)) \/ collect_draft(a)
    \/ \E w \in RWorlds : seal_world(w) \/ \E r \in RRuns : collect_transition(w, r)
    \/ register_pool
    \/ \E k \in RWorkers : play_pool(k) \/ store_report(k) \/ player_crash(k)

StoreNext ==
    \/ part = "collect" /\ CollectNext
    \/ part = "pool" /\ PoolNext
    \/ replay_cleanup

-----------------------------------------------------------------------------
(* Backup and restore: blobs stored and removed while two backups race for *)
(* one destination; a restore started by two processes while the anchor    *)
(* works on; and restores repeated around crashes.                         *)

MCRevocable == "n1" :> {"s1", "s2"} @@ "n2" :> {"s1"}

Restoring == {"backups", "races", "repeats"}

BlobWork == \E b \in RBlobs : put_blob(b) \/ cite_blob(b) \/ remove_blob(b)
\* Chains grow in "repeats", namespaces appear in "races".
ControlWork == \/ live_start \/ live_stop
               \/ part # "repeats" /\ bump_watermark("n1", "s1")
               \/ part = "repeats" /\ \E s \in Revocable["n1"] : bump_watermark("n1", s)
               \/ part = "races" /\ \E s \in Revocable["n2"] : bump_watermark("n2", s)
Consumption == \E n \in Spaces, f \in Consumable : consume(n, f)
Serving(p) == serve_stop(p) \/ \E s \in Revocable["n1"] : serve_revoke(p, "n1", s)

\* Starts about the time the restored directory appears.
StartNear(p, given) == (script.at = "verified" \/ dir # None) /\ rsia_start(p, given)

RestoreNext ==
    \/ part = "backups" /\ (ControlWork \/ Consumption \/ BlobWork \/ \E b \in Backups : backup_next(b))
    \/ part # "backups" /\ (ControlWork \/ script_next \/ backup_next("b1"))
    \/ part = "races" /\ Consumption
    \/ part = "races" /\ \E p \in Starters :
          starter_step(p) \/ Serving(p) \/ \E given \in BOOLEAN : StartNear(p, given)
    \/ part = "repeats" /\ (\/ spend \/ remove_directory \/ put_back_admission
                            \/ starter_step("p1") \/ Serving("p1") \/ start_dies("p1")
                            \/ \E given \in BOOLEAN : StartNear("p1", given))

Started(p) == part = "races" \/ (part = "repeats" /\ p = "p1")

-----------------------------------------------------------------------------
(* The workspace: a root with one member of its own and one in a           *)
(* subdirectory.                                                           *)

MCWParent == "sub" :> "root" @@ "f1" :> "root" @@ "f2" :> "sub"
MCWOrder == <<"root", "f1", "sub", "f2">>

\* The second workspace finds what happened to the first, and is left alone.
WorkspacePart ==
    /\ workspace_next
    /\ serial = 2 => meddled' = meddled /\ crashes' = crashes

-----------------------------------------------------------------------------

MCInit ==
    /\ part \in {"replay", "collect", "pool", "workspace"} \cup Restoring
    /\ replay_init /\ replay_store_init /\ restore_init /\ workspace_init
    /\ part # "replay" => replay.profile.width = 1 /\ replay.profile.probes = 3 /\ replay.world.recoveries = 1

MCNext ==
    /\ UNCHANGED part
    /\ \/ part = "replay" /\ replay_next /\ UNCHANGED <<rvars, restoreVars, wvars>>
       \/ part \in {"collect", "pool"} /\ StoreNext /\ UNCHANGED <<replay, restoreVars, wvars>>
       \/ part \in Restoring /\ RestoreNext /\ UNCHANGED <<replay, rvars, wvars>>
       \/ part = "workspace" /\ WorkspacePart /\ UNCHANGED <<replay, rvars, restoreVars>>

\* A replay and a workspace go on, a revocation is cleaned up after; a process that
\* started goes on, and the operator starts the restored directory again, naming
\* the anchor.
RecoverySpec ==
    /\ MCInit /\ [][MCNext]_recoveryVars
    /\ WF_replay(part = "replay" /\ replay_next)
    /\ WF_rvars(part \in {"collect", "pool"} /\ replay_cleanup)
    /\ \A p \in Starters : /\ WF_restoreVars(Started(p) /\ starter_step(p))
                           /\ SF_restoreVars(Started(p) /\ StartNear(p, TRUE))
    /\ WF_wvars(part = "workspace" /\ WorkspaceSteps)

\* What no step does: lose what was collected, write over revoked runs, replace a
\* backup, touch a directory nobody admitted, remove a file of somebody else or use
\* a poisoned permit.
RecoveryStands ==
    /\ CollectedGrows
    /\ WrittenOnLiveRuns
    /\ BackupStands
    /\ UntouchedUntilAdmitted
    /\ KeepsForeignFiles
    /\ RemovesOnlyItsOwn
    /\ PoisonedForGood

\* A replay ends in a report, whatever its catalog leaves unrecorded.
ReplayEnds == part = "replay" ~> replay.terminal # None

\* What was begun ends: the replay is reported, what rests on a revoked run is
\* redacted, a matching restore is admitted, and the permit returns.
RecoveryEnds ==
    /\ ReplayEnds
    /\ RevokedIsRedacted
    /\ RestoreIsAdmitted
    /\ PermitReturns
=============================================================================
