------------------------------ MODULE Restore ------------------------------
(***************************************************************************)
(* Backup, restore and the gate every start passes (evo-storage            *)
(* lifecycle.rs, scripts/restore_backup.py, evo-engine startup_gate.rs,    *)
(* data_directory_lock.rs and the start order of apps/rsia main.rs).       *)
(*                                                                         *)
(* The deployment whose backup is taken keeps working: it revokes,         *)
(* spends, stores and removes blobs.  Its database is the trusted anchor.  *)
(* A restore copies a backup, replays the revocations that came later and  *)
(* publishes a directory with a receipt.  No process may serve it before   *)
(* it has been compared with the anchor and admitted.                      *)
(*                                                                         *)
(* A database is abstracted to what a restore must not take back: the      *)
(* chain of revocations of each namespace (a watermark is its length and   *)
(* digest, so the chain itself; a namespace has one from its first         *)
(* revocation), the protected objects of each namespace, the root budget   *)
(* tables, and the blobs its objects name.                                 *)
(***************************************************************************)
EXTENDS Common

CONSTANTS
    Spaces,         \* namespaces
    Revocable,      \* the sources each namespace may revoke
    Consumable,     \* protected objects a namespace may hold
    RBlobs,         \* blob digests
    Backups,        \* backups asked for, all of one destination
    Starters,       \* processes started on the restored directory
    RWrites,        \* bound: commits of the live deployment
    StartBound,        \* bound: starts of the live deployment
    RRestores,      \* bound: restores published
    RCrashes,       \* bound: starts that die
    RServed         \* bound: commits of the restored deployment

Chains == Seq(UNION {Revocable[n] : n \in Spaces})
Watermarks == UNION {[base -> Chains] : base \in SUBSET Spaces}
RestoreDbs == [revs : [Spaces -> Chains], consumed : [Spaces -> SUBSET Consumable], spent : Nat, cites : SUBSET RBlobs]
Admissions == [receipt : Nat, saw : RestoreDbs]
Directories == [db : RestoreDbs, receipt : Nat, marks : Watermarks \cup {None}, admission : Admissions \cup {None}]

ASSUME RestoreBounds == {RWrites, StartBound, RRestores, RCrashes, RServed} \subseteq Nat

ASSUME RestoreAbsent ==
    /\ None \notin Starters /\ None \notin RestoreDbs /\ None \notin Admissions /\ None \notin Directories

VARIABLES
    live,       \* the live deployment: database, blob files, its lock
    backup,     \* where each backup stands, and what it has copied
    published,  \* the directory at the backup destination
    script,     \* the restore script
    dir,        \* the directory it publishes
    dirLock,    \* who holds its .rsia.lock
    starter,    \* the processes started on it
    stray,      \* an admission record taken out of a removed directory
    rcount      \* what the bounds count

restoreVars == <<live, backup, published, script, dir, dirLock, starter, stray, rcount>>

EmptyDb == [revs |-> [n \in Spaces |-> <<>>], consumed |-> [n \in Spaces |-> {}], spent |-> 0, cites |-> {}]
IdleBackup == [at |-> "idle", db |-> EmptyDb, files |-> {}]
IdleScript == [at |-> "idle", delta |-> EmptyDb.revs, db |-> EmptyDb, first |-> None, anchor |-> None]
IdleStarter == [at |-> "idle", given |-> FALSE, receipt |-> 0, read |-> None, saw |-> None]

restore_init ==
    /\ live = [db |-> EmptyDb, files |-> {}, locked |-> FALSE]
    /\ backup = [b \in Backups |-> IdleBackup] /\ published = None
    /\ script = IdleScript /\ dir = None /\ dirLock = None
    /\ starter = [p \in Starters |-> IdleStarter] /\ stray = None
    /\ rcount = [writes |-> 0, starts |-> 0, restores |-> 0, crashes |-> 0, served |-> 0]

Counted(f) == rcount' = [rcount EXCEPT ![f] = @ + 1]

-----------------------------------------------------------------------------
(* The facts a restore must not take back.                                 *)

\* The namespaces that have a watermark.
Marked(db) == {n \in Spaces : db.revs[n] # <<>>}

\* read_control_plane_facts: protected objects count in marked namespaces
\* only, the root budget tables as a whole.
read_control_plane_facts(db) ==
    [revs |-> [n \in Marked(db) |-> db.revs[n]], consumed |-> [n \in Marked(db) |-> db.consumed[n]], spent |-> db.spent]

ChainPrefix(s, t) == Len(s) <= Len(t) /\ SubSeq(t, 1, Len(s)) = s

-----------------------------------------------------------------------------
(* The live deployment.                                                    *)

\* Mistake: both locks are given back before the blobs are copied.
HeldForVacuum == \E b \in Backups : backup[b].at = "locked"
\* A backup that runs holds the only connection and the blob lock.
Held == \E b \in Backups : backup[b].at \in {"locked", "vacuumed", "copied"}

LiveWrite(d) == /\ live.locked /\ ~Held /\ rcount.writes < RWrites
                /\ live' = [live EXCEPT !.db = d]
                /\ Counted("writes")
                /\ UNCHANGED <<backup, published, script, dir, dirLock, starter, stray>>

live_start == /\ ~live.locked /\ rcount.starts < StartBound
              /\ live' = [live EXCEPT !.locked = TRUE]
              /\ Counted("starts")
              /\ UNCHANGED <<backup, published, script, dir, dirLock, starter, stray>>

\* The process ends; a backup it was taking ends with it.
live_stop == /\ live.locked
             /\ live' = [live EXCEPT !.locked = FALSE]
             /\ backup' = [b \in Backups |-> IF backup[b].at = "published" THEN backup[b] ELSE IdleBackup]
             /\ UNCHANGED <<published, script, dir, dirLock, starter, stray, rcount>>

bump_watermark(n, s) == /\ \A i \in 1..Len(live.db.revs[n]) : live.db.revs[n][i] # s
                        /\ LiveWrite([live.db EXCEPT !.revs[n] = Append(@, s)])

consume(n, f) == f \notin live.db.consumed[n] /\ LiveWrite([live.db EXCEPT !.consumed[n] = @ \cup {f}])

spend == LiveWrite([live.db EXCEPT !.spent = @ + 1])

BlobWrite(cites, files) == /\ live.locked /\ ~Held
                           /\ live' = [live EXCEPT !.db.cites = cites, !.files = files]
                           /\ UNCHANGED <<backup, published, script, dir, dirLock, starter, stray, rcount>>

put_blob(b) == b \notin live.files /\ BlobWrite(live.db.cites, live.files \cup {b})

cite_blob(b) == b \in live.files \ live.db.cites /\ BlobWrite(live.db.cites \cup {b}, live.files)

\* The reference and the file go under the blob lock, which a backup holds.
remove_blob(b) == b \in live.files /\ BlobWrite(live.db.cites \ {b}, live.files \ {b})

-----------------------------------------------------------------------------
(* backup_consistent: a private copy, published under a name nobody has.   *)

BackupStep(b, e) == /\ backup' = [backup EXCEPT ![b] = e]
                    /\ UNCHANGED <<live, published, script, dir, dirLock, starter, stray, rcount>>

backup_start(b) == /\ backup[b].at = "idle" /\ live.locked /\ published = None
                   /\ BackupStep(b, [IdleBackup EXCEPT !.at = "begun"])

backup_lock(b) == /\ backup[b].at = "begun" /\ ~Held
                  /\ BackupStep(b, [backup[b] EXCEPT !.at = "locked"])

\* Every namespace in use needs a watermark, and there must be one.
NamespacesInUse(db) == {n \in Spaces : db.consumed[n] # {} \/ db.revs[n] # <<>>}
load_backup_watermarks(db) == NamespacesInUse(db) # {} /\ NamespacesInUse(db) \subseteq Marked(db)

vacuum_into(b) == /\ backup[b].at = "locked"
                  /\ BackupStep(b, IF load_backup_watermarks(live.db)
                                   THEN [backup[b] EXCEPT !.at = "vacuumed", !.db = live.db] ELSE IdleBackup)

copy_backup_blobs(b) == /\ backup[b].at = "vacuumed"
                        /\ BackupStep(b, [backup[b] EXCEPT !.at = "copied", !.files = live.files])

\* The locks go when the copy is complete.
backup_unlock(b) == /\ backup[b].at = "copied"
                    /\ BackupStep(b, [backup[b] EXCEPT !.at = "ready"])

publish_backup_directory(b) ==
    /\ backup[b].at = "ready"
    /\ IF published = None
       THEN /\ published' = [db |-> backup[b].db, files |-> backup[b].files]
            /\ backup' = [backup EXCEPT ![b].at = "published"]
       ELSE /\ backup' = [backup EXCEPT ![b] = IdleBackup]
            /\ UNCHANGED published
    /\ UNCHANGED <<live, script, dir, dirLock, starter, stray, rcount>>

-----------------------------------------------------------------------------
(* restore_backup.py.  The anchor is read twice; it may work on meanwhile. *)

ScriptStep(e) == /\ script' = e
                 /\ UNCHANGED <<live, backup, published, dir, dirLock, starter, stray, rcount>>

\* The operator exports the revocations after the backup.
make_delta == /\ script.at = "idle" /\ published # None /\ dir = None
              /\ rcount.restores < RRestores
              /\ ScriptStep([IdleScript EXCEPT !.at = "delta", !.delta = live.db.revs])

\* protected_facts of the namespaces of the backup.
protected_facts(db, base) == [consumed |-> [n \in base |-> db.consumed[n]], spent |-> db.spent]

verify_delta(db, delta) ==
    /\ protected_facts(live.db, Marked(db)) = protected_facts(db, Marked(db))
    /\ \A n \in Marked(db) : ChainPrefix(db.revs[n], live.db.revs[n]) /\ delta[n] = live.db.revs[n]

\* What the two readings are compared by: control_plane_digest.
AnchorSnapshot(base) == [revs |-> [n \in base |-> live.db.revs[n]], facts |-> protected_facts(live.db, base)]

verify_first == /\ script.at = "delta"
                /\ IF verify_delta(published.db, script.delta)
                   THEN ScriptStep([script EXCEPT !.at = "copied", !.db = published.db,
                                                  !.first = AnchorSnapshot(Marked(published.db))])
                   ELSE ScriptStep(IdleScript)

verify_again == /\ script.at = "copied"
                /\ IF /\ verify_delta(script.db, script.delta)
                      /\ AnchorSnapshot(Marked(script.db)) = script.first
                   THEN ScriptStep([script EXCEPT !.at = "verified", !.anchor = [n \in Marked(script.db) |-> live.db.revs[n]]])
                   ELSE ScriptStep(IdleScript)

replay_delta(db, delta) ==
    [db EXCEPT !.revs = [n \in Spaces |-> IF n \in Marked(db) THEN delta[n] ELSE db.revs[n]]]

\* The receipt carries the watermarks of the second reading; its time makes
\* the receipts of two restores differ.
publish_exclusive ==
    /\ script.at = "verified"
    /\ script' = IdleScript
    /\ IF dir = None
       THEN /\ dir' = [db |-> replay_delta(script.db, script.delta), receipt |-> rcount.restores + 1,
                       marks |-> script.anchor, admission |-> None]
            /\ Counted("restores")
       ELSE UNCHANGED <<dir, rcount>>
    /\ UNCHANGED <<live, backup, published, dirLock, starter, stray>>

-----------------------------------------------------------------------------
(* mount_gate: evaluate, take the lock, evaluate again under it.           *)

Step(p, e) == starter' = [starter EXCEPT ![p] = e]
NoStart(p) == /\ Step(p, IdleStarter)
              /\ dirLock' = IF dirLock = p THEN None ELSE dirLock

rsia_start(p, given) ==
    /\ starter[p].at = "idle"
    /\ Step(p, [IdleStarter EXCEPT !.at = "first", !.given = given])
    /\ UNCHANGED <<live, backup, published, script, dir, dirLock, stray, rcount>>

\* What a start without a verification may rest on.
Receipt == IF dir = None THEN 0 ELSE dir.receipt
Normal(p) == Receipt = 0 /\ ~starter[p].given

AdmittedPreviously(p) == Receipt # 0 /\ dir.admission # None /\ dir.admission.receipt = Receipt /\ ~starter[p].given

\* Receipt and admission, the lock of the anchor, then the facts of the
\* directory; the facts of the anchor are read after them.
evaluate(p) ==
    /\ starter[p].at \in {"first", "second"}
    /\ IF Normal(p) \/ AdmittedPreviously(p)
       THEN /\ Step(p, [starter[p] EXCEPT !.at = IF starter[p].at = "first" THEN "lock" ELSE "boot", !.receipt = 0])
            /\ UNCHANGED dirLock
       ELSE IF Receipt # 0 /\ dir.admission = None /\ starter[p].given /\ ~live.locked
       THEN /\ Step(p, [starter[p] EXCEPT !.at = IF starter[p].at = "first" THEN "compare" ELSE "recompare",
                                          !.receipt = Receipt,
                                          !.read = [facts |-> read_control_plane_facts(dir.db), marks |-> dir.marks]])
            /\ UNCHANGED dirLock
       ELSE NoStart(p)
    /\ UNCHANGED <<live, backup, published, script, dir, stray, rcount>>

compare_facts(data, anchor, marks) ==
    /\ DOMAIN data.revs # {}
    /\ data.revs = anchor.revs
    /\ data.revs = marks
    /\ data.consumed = anchor.consumed
    /\ data.spent = anchor.spent

verify_restored(p) ==
    /\ starter[p].at \in {"compare", "recompare"}
    /\ LET r == starter[p].read IN
       IF compare_facts(r.facts, read_control_plane_facts(live.db), r.marks)
       THEN /\ Step(p, [starter[p] EXCEPT !.at = IF @ = "compare" THEN "lock" ELSE "boot", !.read = None,
                                          !.saw = live.db])
            /\ UNCHANGED dirLock
       ELSE NoStart(p)
    /\ UNCHANGED <<live, backup, published, script, dir, stray, rcount>>

\* The directory is made where there is none.
acquire_data_lock(p) ==
    /\ starter[p].at = "lock"
    /\ IF dirLock = None
       THEN /\ dirLock' = p
            /\ Step(p, [starter[p] EXCEPT !.at = "second", !.saw = None])
            /\ dir' = IF dir = None THEN [db |-> EmptyDb, receipt |-> 0, marks |-> None, admission |-> None] ELSE dir
       ELSE NoStart(p) /\ UNCHANGED dir
    /\ UNCHANGED <<live, backup, published, script, stray, rcount>>

\* Mistake: the start settles open calls before it is admitted.
bootstrap_settling(p) == /\ starter[p].at = "boot"
                         /\ Step(p, [starter[p] EXCEPT !.at = "admit"])
                         /\ dir' = [dir EXCEPT !.db.spent = @ + 1]
                         /\ UNCHANGED <<live, backup, published, script, dirLock, stray, rcount>>
\* bootstrap registers the host surface, no fact a restore compares.
bootstrap(p) == /\ starter[p].at = "boot"
                /\ Step(p, [starter[p] EXCEPT !.at = "admit"])
                /\ UNCHANGED <<live, backup, published, script, dir, dirLock, stray, rcount>>

\* A hard link, which fails where the name is taken.
admit(p) ==
    /\ starter[p].at = "admit"
    /\ IF starter[p].saw = None
       THEN Step(p, [starter[p] EXCEPT !.at = "serve"]) /\ UNCHANGED <<dir, dirLock>>
       ELSE IF dir.admission = None
       THEN /\ dir' = [dir EXCEPT !.admission = [receipt |-> starter[p].receipt, saw |-> starter[p].saw]]
            /\ Step(p, [starter[p] EXCEPT !.at = "serve"])
            /\ UNCHANGED dirLock
       ELSE NoStart(p) /\ UNCHANGED dir
    /\ UNCHANGED <<live, backup, published, script, stray, rcount>>

\* Recovery and service work on the directory.
serve_revoke(p, n, s) ==
    /\ starter[p].at = "serve" /\ rcount.served < RServed
    /\ \A i \in 1..Len(dir.db.revs[n]) : dir.db.revs[n][i] # s
    /\ dir' = [dir EXCEPT !.db.revs[n] = Append(@, s)]
    /\ Counted("served")
    /\ UNCHANGED <<live, backup, published, script, dirLock, starter, stray>>

serve_stop(p) == /\ starter[p].at = "serve"
                 /\ NoStart(p)
                 /\ UNCHANGED <<live, backup, published, script, dir, stray, rcount>>

start_dies(p) == /\ starter[p].at # "idle" /\ rcount.crashes < RCrashes
                 /\ NoStart(p)
                 /\ Counted("crashes")
                 /\ UNCHANGED <<live, backup, published, script, dir, stray>>

-----------------------------------------------------------------------------
(* The operator.                                                           *)

\* A directory nobody uses is removed before the next restore.
remove_directory == /\ dir # None /\ dirLock = None /\ rcount.restores < RRestores
                    /\ \A p \in Starters : starter[p].at = "idle"
                    /\ dir' = None
                    /\ stray' = IF dir.admission = None THEN stray ELSE dir.admission
                    /\ UNCHANGED <<live, backup, published, script, dirLock, starter, rcount>>

\* The admission of the removed directory is put into the restored one.
put_back_admission == /\ dir # None /\ stray # None /\ Receipt # 0 /\ dir.admission = None
                      /\ dirLock = None
                      /\ dir' = [dir EXCEPT !.admission = stray]
                      /\ UNCHANGED <<live, backup, published, script, dirLock, starter, stray, rcount>>

live_next == \/ live_start \/ live_stop \/ spend
             \/ \E n \in Spaces : \E s \in Revocable[n] : bump_watermark(n, s)
             \/ \E n \in Spaces, f \in Consumable : consume(n, f)
             \/ \E b \in RBlobs : put_blob(b) \/ cite_blob(b) \/ remove_blob(b)

backup_next(b) == \/ backup_start(b) \/ backup_lock(b) \/ vacuum_into(b) \/ copy_backup_blobs(b)
                  \/ backup_unlock(b) \/ publish_backup_directory(b)

script_next == make_delta \/ verify_first \/ verify_again \/ publish_exclusive

starter_step(p) == evaluate(p) \/ verify_restored(p) \/ acquire_data_lock(p) \/ bootstrap(p) \/ admit(p)

restore_next ==
    \/ live_next \/ script_next \/ remove_directory \/ put_back_admission
    \/ \E b \in Backups : backup_next(b)
    \/ \E p \in Starters :
          \/ starter_step(p) \/ serve_stop(p) \/ start_dies(p)
          \/ \E given \in BOOLEAN : rsia_start(p, given)
          \/ \E n \in Spaces : \E s \in Revocable[n] : serve_revoke(p, n, s)

RestoreSpec == restore_init /\ [][restore_next]_restoreVars

-----------------------------------------------------------------------------
(* Properties.                                                             *)

RestoreTypeOK ==
    /\ live \in [db : RestoreDbs, files : SUBSET RBlobs, locked : BOOLEAN]
    /\ published = None \/ published \in [db : RestoreDbs, files : SUBSET RBlobs]
    /\ dir = None \/ dir.db \in RestoreDbs
    /\ dirLock \in Starters \cup {None}
    /\ \A p \in Starters : starter[p].at \in {"idle", "first", "compare", "lock", "second", "recompare", "boot", "admit", "serve"}

\* A published backup is whole: it holds the bytes of every blob its
\* database names, though the deployment stored and removed blobs while the
\* backup was taken, and each of its namespaces has the watermark a restore
\* will need.
BackupIsWhole ==
    published # None => published.db.cites \subseteq published.files /\ load_backup_watermarks(published.db)

\* Two backups that race for one destination: the one that is there stays.
BackupStands == [][published # None => published' = published]_restoreVars

\* A process that serves a restored directory serves one that holds every
\* revocation, every protected object and every expense that the anchor
\* held when the directory was admitted, as far as the namespace had a
\* watermark by then: nothing revoked comes back and nothing spent is given
\* back, however starts, crashes, second restores and the anchor's own work
\* fell.
NothingTakenBack ==
    \A p \in Starters : starter[p].at = "serve" /\ dir.receipt # 0 =>
        /\ dir.admission # None
        /\ dir.admission.receipt = dir.receipt
        /\ \A n \in Spaces :
              /\ ChainPrefix(dir.admission.saw.revs[n], dir.db.revs[n])
              /\ dir.admission.saw.revs[n] # <<>> => dir.admission.saw.consumed[n] \subseteq dir.db.consumed[n]
        /\ dir.admission.saw.spent <= dir.db.spent

\* Two processes never work on one directory.
OneServer == Cardinality({p \in Starters : starter[p].at \in {"boot", "admit", "serve"}}) <= 1

\* A restored directory nobody admitted keeps its facts: no start recovers
\* or serves it first.
UntouchedUntilAdmitted ==
    [][dir # None /\ Receipt # 0 /\ dir.admission = None /\ dir' # None => dir'.db = dir.db]_restoreVars

\* A restore that matches an anchor that has come to rest is admitted in
\* the end, whatever starts died before: verification can be run again.
RestoreIsAdmitted ==
    (/\ dir # None /\ Receipt # 0 /\ dir.admission = None
     /\ ~live.locked /\ rcount.starts = StartBound
     /\ script.anchor = None
     /\ dir.marks = read_control_plane_facts(live.db).revs
     /\ read_control_plane_facts(published.db).consumed = read_control_plane_facts(live.db).consumed
     /\ published.db.spent = live.db.spent)
        ~> (dir = None \/ dir.admission # None)

\* What holds of backup and restore in every state: a published backup is whole,
\* nothing revoked or spent comes back with a restored directory, and one process
\* works on it.
RestoreSafe ==
    /\ RestoreTypeOK
    /\ BackupIsWhole
    /\ NothingTakenBack
    /\ OneServer
=============================================================================
