--------------------------- MODULE RecoveryProofs ---------------------------
(***************************************************************************)
(* Restoring a store, the start gate, the owned configuration workspace,   *)
(* and replays with the store they are played from, for any bounds.        *)
(***************************************************************************)
EXTENDS Restore, ConfigWorkspace, Replays, Induction, SequenceTheorems

-----------------------------------------------------------------------------
(***************************************************************************)
(* Backup, restore and the start gate, for any namespaces, blobs, backups, *)
(* starting processes and bounds.                                          *)
(***************************************************************************)

(* The invariant.                                                          *)

BackupPlaces == {"idle", "begun", "locked", "vacuumed", "copied", "ready", "published"}
BackupRow == [at : BackupPlaces, db : RestoreDbs, files : SUBSET RBlobs]

\* What a backup has copied, given the files of the deployment: while it holds
\* the locks the files its database names are still there.
BackupSound(q, files) ==
    /\ q.at \in {"vacuumed", "copied", "ready"} => load_backup_watermarks(q.db)
    /\ q.at = "vacuumed" => q.db.cites \subseteq files
    /\ q.at \in {"copied", "ready"} => q.db.cites \subseteq q.files

LiveRow == [db : RestoreDbs, files : SUBSET RBlobs, locked : BOOLEAN]

BackupsSound ==
    /\ live \in LiveRow /\ live.db.cites \subseteq live.files
    /\ backup \in [Backups -> BackupRow]
    /\ \A b \in Backups : BackupSound(backup[b], live.files)
    /\ published = None \/ published \in [db : RestoreDbs, files : SUBSET RBlobs]
    /\ BackupIsWhole

ConsumedSets == UNION {[base -> SUBSET Consumable] : base \in SUBSET Spaces}
ScriptRow == [at : {"idle", "delta", "copied", "verified"}, delta : [Spaces -> Chains], db : RestoreDbs,
              first : [revs : Watermarks, facts : [consumed : ConsumedSets, spent : Nat]] \cup {None},
              anchor : Watermarks \cup {None}]
CountRow == [writes : Nat, starts : Nat, restores : Nat, crashes : Nat, served : Nat]

ScriptSound ==
    /\ script \in ScriptRow /\ rcount \in CountRow
    /\ script.at \in {"delta", "copied", "verified"} => published # None

\* What was seen of the anchor is still in the directory.
Kept(saw, db) ==
    /\ \A n \in Spaces : /\ ChainPrefix(saw.revs[n], db.revs[n])
                         /\ saw.revs[n] # <<>> => saw.consumed[n] \subseteq db.consumed[n]
    /\ saw.spent <= db.spent

Admitted(d) == d.admission # None /\ d.admission.receipt = d.receipt

\* A directory, given the receipts issued so far.
DirOk(d, issued) ==
    /\ d \in Directories /\ d.receipt <= issued
    /\ d.admission # None => d.receipt # 0 /\ d.admission.receipt <= d.receipt
    /\ Admitted(d) => Kept(d.admission.saw, d.db)

\* An admission taken out of a removed directory is of an earlier receipt.
StrayOk(a, d, issued) ==
    a # None => a \in Admissions /\ a.receipt <= issued /\ (d # None /\ d.receipt # 0 => a.receipt < d.receipt)

DirSound ==
    /\ dirLock \in Starters \cup {None} /\ (dirLock # None => dir # None)
    /\ dir # None => DirOk(dir, rcount.restores)
    /\ StrayOk(stray, dir, rcount.restores)

StarterPlaces == {"idle", "first", "compare", "lock", "second", "recompare", "boot", "admit", "serve"}
Facts == [revs : Watermarks, consumed : ConsumedSets, spent : Nat]
StarterRow == [at : StarterPlaces, given : BOOLEAN, receipt : Nat,
               read : [facts : Facts, marks : Watermarks \cup {None}] \cup {None}, saw : RestoreDbs \cup {None}]

Holding == {"second", "recompare", "boot", "admit", "serve"}

\* What a process that holds the lock of the directory knows of it.
StarterSound(p, q, d, lock) ==
    /\ q.at \in Holding => lock = p
    /\ q.at = "second" => q.saw = None
    /\ q.at = "recompare" => /\ q.receipt = d.receipt /\ d.receipt # 0 /\ d.admission = None
                             /\ q.read = [facts |-> read_control_plane_facts(d.db), marks |-> d.marks]
    /\ q.at \in {"boot", "admit"} /\ q.saw = None /\ d.receipt # 0 => Admitted(d)
    /\ q.at \in {"boot", "admit"} /\ q.saw # None =>
          q.receipt = d.receipt /\ d.receipt # 0 /\ d.admission = None /\ Kept(q.saw, d.db)
    /\ q.at = "serve" /\ d.receipt # 0 => Admitted(d)

StartersSound ==
    /\ starter \in [Starters -> StarterRow]
    /\ \A p \in Starters : StarterSound(p, starter[p], dir, dirLock)

RestoreInv == BackupsSound /\ ScriptSound /\ DirSound /\ StartersSound

LEMMA RestoreInvIsSafe == RestoreInv => RestoreSafe
<1> SUFFICES ASSUME RestoreInv PROVE RestoreSafe
  OBVIOUS
<1>1. RestoreTypeOK
  <2>1. dir = None \/ dir.db \in RestoreDbs
    BY DEF RestoreInv, DirSound, DirOk, Directories
  <2> QED BY <2>1 DEF RestoreInv, BackupsSound, LiveRow, DirSound, StartersSound, StarterRow, StarterPlaces, RestoreTypeOK
<1>2. BackupIsWhole
  BY DEF RestoreInv, BackupsSound
<1>3. NothingTakenBack
  <2> SUFFICES ASSUME NEW p \in Starters, starter[p].at = "serve", dir.receipt # 0
               PROVE  Admitted(dir) /\ Kept(dir.admission.saw, dir.db)
    BY DEF NothingTakenBack, Admitted, Kept
  <2>1. dirLock = p /\ Admitted(dir)
    BY DEF RestoreInv, StartersSound, StarterSound, Holding
  <2>2. DirOk(dir, rcount.restores)
    BY <2>1, RestoreAbsent DEF RestoreInv, DirSound
  <2> QED BY <2>1, <2>2 DEF DirOk
<1>4. OneServer
  <2> DEFINE S == {p \in Starters : starter[p].at \in {"boot", "admit", "serve"}}
  <2>1. \A p \in S : p = dirLock
    BY DEF RestoreInv, StartersSound, StarterSound, Holding
  <2>2. S \subseteq {dirLock}
    BY <2>1
  <2> HIDE DEF S
  <2>3. Cardinality({dirLock}) = 1 /\ IsFiniteSet({dirLock})
    BY FS_Singleton
  <2>4. Cardinality(S) <= 1
    BY <2>2, <2>3, FS_Subset
  <2> QED BY <2>4 DEF OneServer, S
<1> QED BY <1>1, <1>2, <1>3, <1>4 DEF RestoreSafe

LEMMA EmptyIsDb == EmptyDb \in RestoreDbs /\ EmptyDb.cites = {} /\ EmptyDb.revs \in [Spaces -> Chains]
<1>1. <<>> \in Chains
  BY DEF Chains
<1> QED BY <1>1 DEF EmptyDb, RestoreDbs

LEMMA RestoreInvInit == restore_init => RestoreInv
<1> SUFFICES ASSUME restore_init PROVE RestoreInv
  OBVIOUS
<1> USE DEF restore_init
<1>0. EmptyDb \in RestoreDbs /\ EmptyDb.cites = {} /\ EmptyDb.revs \in [Spaces -> Chains]
  BY EmptyIsDb
<1>1. BackupsSound
  BY <1>0 DEF BackupsSound, LiveRow, BackupRow, BackupPlaces, BackupSound, IdleBackup, BackupIsWhole
<1>2. ScriptSound
  <2> HIDE DEF EmptyDb
  <2> QED BY <1>0 DEF ScriptSound, ScriptRow, CountRow, IdleScript
<1>3. DirSound
  BY DEF DirSound, StrayOk
<1>4. StartersSound
  BY DEF StartersSound, StarterRow, StarterPlaces, StarterSound, IdleStarter, Holding
<1> QED BY <1>1, <1>2, <1>3, <1>4 DEF RestoreInv

-----------------------------------------------------------------------------
(* The deployment and its backups.                                         *)

LEMMA IdleBackupSound == IdleBackup \in BackupRow /\ IdleBackup.at = "idle" /\ \A files : BackupSound(IdleBackup, files)
  BY EmptyIsDb DEF IdleBackup, BackupRow, BackupPlaces, BackupSound

LEMMA BackupMoves ==
    ASSUME BackupsSound, NEW b \in Backups, NEW q \in BackupRow, BackupSound(q, live.files),
           backup' = [backup EXCEPT ![b] = q], UNCHANGED <<live, published>>
    PROVE  BackupsSound'
<1>1. backup' \in [Backups -> BackupRow] /\ \A c \in Backups : backup'[c] = IF c = b THEN q ELSE backup[c]
  BY DEF BackupsSound
<1>2. \A c \in Backups : BackupSound(backup'[c], live'.files)
  BY <1>1 DEF BackupsSound
<1> QED BY <1>1, <1>2 DEF BackupsSound, BackupIsWhole

\* The database or the files change only while no backup holds the locks.
LEMMA LiveMoves ==
    ASSUME BackupsSound, NEW r \in LiveRow, r.db.cites \subseteq r.files, live' = r, ~Held, UNCHANGED <<backup, published>>
    PROVE  BackupsSound'
<1>1. \A c \in Backups : BackupSound(backup'[c], live'.files)
  BY DEF BackupsSound, BackupSound, Held
<1> QED BY <1>1 DEF BackupsSound, BackupIsWhole

LEMMA BackupsStay ==
    ASSUME BackupsSound, UNCHANGED <<live, backup, published>>
    PROVE  BackupsSound'
BY DEF BackupsSound, BackupIsWhole

LEMMA BackupsKept ==
    ASSUME BackupsSound, restore_next
    PROVE  BackupsSound'
<1>0. live \in LiveRow /\ live.db \in RestoreDbs /\ live.db.cites \subseteq live.files
  BY DEF BackupsSound, LiveRow
<1>1. ASSUME NEW d \in RestoreDbs, d.cites = live.db.cites, LiveWrite(d) PROVE BackupsSound'
  <2> DEFINE r == [live EXCEPT !.db = d]
  <2>1. r \in LiveRow /\ r.db = d /\ r.files = live.files
    BY <1>0 DEF LiveRow
  <2>2. live' = r /\ ~Held /\ UNCHANGED <<backup, published>>
    BY <1>1 DEF LiveWrite
  <2> HIDE DEF r
  <2> QED BY <1>0, <1>1, <2>1, <2>2, LiveMoves
<1>2. ASSUME NEW n \in Spaces, NEW s \in Revocable[n], bump_watermark(n, s) PROVE BackupsSound'
  <2> DEFINE d == [live.db EXCEPT !.revs[n] = Append(@, s)]
  <2>1. live.db.revs \in [Spaces -> Chains] /\ Append(live.db.revs[n], s) \in Chains
    <3>1. live.db.revs \in [Spaces -> Chains]
      BY <1>0 DEF RestoreDbs
    <3>2. s \in UNION {Revocable[m] : m \in Spaces} /\ live.db.revs[n] \in Chains
      BY <3>1
    <3> QED BY <3>1, <3>2 DEF Chains
  <2>2. d \in RestoreDbs /\ d.cites = live.db.cites
    BY <1>0, <2>1 DEF RestoreDbs
  <2>3. LiveWrite(d)
    BY <1>2 DEF bump_watermark
  <2> HIDE DEF d
  <2> QED BY <1>1, <2>2, <2>3
<1>3. ASSUME NEW n \in Spaces, NEW f \in Consumable, consume(n, f) PROVE BackupsSound'
  <2> DEFINE d == [live.db EXCEPT !.consumed[n] = @ \cup {f}]
  <2>2. d \in RestoreDbs /\ d.cites = live.db.cites
    BY <1>0 DEF RestoreDbs
  <2>3. LiveWrite(d)
    BY <1>3 DEF consume
  <2> HIDE DEF d
  <2> QED BY <1>1, <2>2, <2>3
<1>4. ASSUME spend PROVE BackupsSound'
  <2> DEFINE d == [live.db EXCEPT !.spent = @ + 1]
  <2>1. live.db.spent + 1 \in Nat
    BY <1>0 DEF RestoreDbs
  <2>2. d \in RestoreDbs /\ d.cites = live.db.cites
    BY <1>0, <2>1 DEF RestoreDbs
  <2>3. LiveWrite(d)
    BY <1>4 DEF spend
  <2> HIDE DEF d
  <2> QED BY <1>1, <2>2, <2>3
<1>5. ASSUME NEW c \in SUBSET RBlobs, NEW files \in SUBSET RBlobs, c \subseteq files, BlobWrite(c, files) PROVE BackupsSound'
  <2> DEFINE r == [live EXCEPT !.db.cites = c, !.files = files]
  <2>1. r \in LiveRow /\ r.db.cites = c /\ r.files = files
    BY <1>0 DEF LiveRow, RestoreDbs
  <2>2. live' = r /\ ~Held /\ UNCHANGED <<backup, published>>
    BY <1>5 DEF BlobWrite
  <2> HIDE DEF r
  <2> QED BY <1>5, <2>1, <2>2, LiveMoves
<1>6. ASSUME NEW b \in RBlobs, put_blob(b) \/ cite_blob(b) \/ remove_blob(b) PROVE BackupsSound'
  <2>1. live.db.cites \in SUBSET RBlobs /\ live.files \in SUBSET RBlobs
    BY <1>0 DEF LiveRow, RestoreDbs
  <2>2. CASE put_blob(b)
    <3>1. BlobWrite(live.db.cites, live.files \cup {b}) /\ live.db.cites \subseteq live.files \cup {b} /\ live.files \cup {b} \in SUBSET RBlobs
      BY <1>0, <2>1, <2>2 DEF put_blob
    <3> QED BY <1>5, <2>1, <3>1
  <2>3. CASE cite_blob(b)
    <3>1. BlobWrite(live.db.cites \cup {b}, live.files) /\ live.db.cites \cup {b} \subseteq live.files /\ live.db.cites \cup {b} \in SUBSET RBlobs
      BY <1>0, <2>1, <2>3 DEF cite_blob
    <3> QED BY <1>5, <2>1, <3>1
  <2>4. CASE remove_blob(b)
    <3>1. /\ BlobWrite(live.db.cites \ {b}, live.files \ {b}) /\ live.db.cites \ {b} \subseteq live.files \ {b}
          /\ live.db.cites \ {b} \in SUBSET RBlobs /\ live.files \ {b} \in SUBSET RBlobs
      BY <1>0, <2>1, <2>4 DEF remove_blob
    <3> QED BY <1>5, <3>1
  <2> QED BY <1>6, <2>2, <2>3, <2>4
<1>7. CASE live_start
  <2> DEFINE r == [live EXCEPT !.locked = TRUE]
  <2>1. live' = r /\ r \in LiveRow /\ r.db = live.db /\ r.files = live.files /\ UNCHANGED <<backup, published>>
    BY <1>0, <1>7 DEF live_start, LiveRow
  <2> HIDE DEF r
  <2> QED BY <2>1 DEF BackupsSound, BackupIsWhole
<1>8. CASE live_stop
  <2> DEFINE r == [live EXCEPT !.locked = FALSE]
  <2>1. live' = r /\ r \in LiveRow /\ r.db = live.db /\ r.files = live.files /\ UNCHANGED published
    BY <1>0, <1>8 DEF live_stop, LiveRow
  <2>2. ASSUME NEW c \in Backups PROVE backup'[c] \in BackupRow /\ BackupSound(backup'[c], live'.files)
    BY <1>8, <2>1, IdleBackupSound DEF live_stop, BackupsSound
  <2>3. backup' \in [Backups -> BackupRow]
    BY <1>8, <2>2 DEF live_stop
  <2> HIDE DEF r
  <2> QED BY <2>1, <2>2, <2>3 DEF BackupsSound, BackupIsWhole
<1>9. ASSUME NEW b \in Backups, NEW q \in BackupRow, BackupStep(b, q), BackupSound(q, live.files) PROVE BackupsSound'
  BY <1>9, BackupMoves DEF BackupStep
<1>10. ASSUME NEW b \in Backups PROVE backup[b] \in BackupRow /\ BackupSound(backup[b], live.files)
  BY DEF BackupsSound
<1>11. ASSUME NEW b \in Backups, backup_start(b) \/ backup_lock(b) PROVE BackupsSound'
  <2>1. PICK old \in {IdleBackup, backup[b]}, at \in {"begun", "locked"} : BackupStep(b, [old EXCEPT !.at = at])
    BY <1>11 DEF backup_start, backup_lock
  <2> DEFINE q == [old EXCEPT !.at = at]
  <2>2. old \in BackupRow
    BY <1>10, IdleBackupSound
  <2>3. q \in BackupRow /\ q.at \in {"begun", "locked"}
    BY <2>2 DEF BackupRow, BackupPlaces
  <2> HIDE DEF q
  <2>4. BackupSound(q, live.files)
    BY <2>3 DEF BackupSound
  <2> QED BY <1>9, <2>1, <2>3, <2>4 DEF q
<1>12. ASSUME NEW b \in Backups, vacuum_into(b) PROVE BackupsSound'
  <2> DEFINE q == [backup[b] EXCEPT !.at = "vacuumed", !.db = live.db]
  <2>1. CASE load_backup_watermarks(live.db)
    <3>1. q \in BackupRow /\ q.at = "vacuumed" /\ q.db = live.db /\ BackupStep(b, q)
      BY <1>0, <1>10, <1>12, <2>1 DEF vacuum_into, BackupRow, BackupPlaces
    <3> HIDE DEF q
    <3>2. BackupSound(q, live.files)
      BY <1>0, <2>1, <3>1 DEF BackupSound
    <3> QED BY <1>9, <3>1, <3>2
  <2>2. CASE ~load_backup_watermarks(live.db)
    <3>1. BackupStep(b, IdleBackup)
      BY <1>12, <2>2 DEF vacuum_into
    <3> QED BY <1>9, <3>1, IdleBackupSound
  <2> QED BY <2>1, <2>2
<1>13. ASSUME NEW b \in Backups, copy_backup_blobs(b) PROVE BackupsSound'
  <2> DEFINE q == [backup[b] EXCEPT !.at = "copied", !.files = live.files]
  <2>1. /\ q \in BackupRow /\ q.at = "copied" /\ q.db = backup[b].db /\ q.files = live.files /\ BackupStep(b, q)
        /\ backup[b].at = "vacuumed"
    BY <1>0, <1>10, <1>13 DEF copy_backup_blobs, BackupRow, BackupPlaces, LiveRow
  <2> HIDE DEF q
  <2>2. BackupSound(q, live.files)
    BY <1>10, <2>1 DEF BackupSound
  <2> QED BY <1>9, <2>1, <2>2
<1>14. ASSUME NEW b \in Backups, backup_unlock(b) PROVE BackupsSound'
  <2> DEFINE q == [backup[b] EXCEPT !.at = "ready"]
  <2>1. /\ q \in BackupRow /\ q.at = "ready" /\ q.db = backup[b].db /\ q.files = backup[b].files /\ BackupStep(b, q)
        /\ backup[b].at = "copied"
    BY <1>10, <1>14 DEF backup_unlock, BackupRow, BackupPlaces
  <2> HIDE DEF q
  <2>2. BackupSound(q, live.files)
    BY <1>10, <2>1 DEF BackupSound
  <2> QED BY <1>9, <2>1, <2>2
<1>15. ASSUME NEW b \in Backups, publish_backup_directory(b) PROVE BackupsSound'
  <2>1. CASE published = None
    <3> DEFINE q == [backup[b] EXCEPT !.at = "published"]
               out == [db |-> backup[b].db, files |-> backup[b].files]
    <3>1. q \in BackupRow /\ q.at = "published" /\ backup' = [backup EXCEPT ![b] = q] /\ published' = out /\ UNCHANGED live
          /\ backup[b].at = "ready"
      BY <1>10, <1>15, <2>1 DEF publish_backup_directory, BackupRow, BackupPlaces
    <3>2. out \in [db : RestoreDbs, files : SUBSET RBlobs] /\ out.db = backup[b].db /\ out.files = backup[b].files
      BY <1>10 DEF BackupRow
    <3> HIDE DEF q, out
    <3>3. out.db.cites \subseteq out.files /\ load_backup_watermarks(out.db)
      BY <1>10, <3>1, <3>2 DEF BackupSound
    <3>4. BackupIsWhole'
      BY <3>1, <3>3 DEF BackupIsWhole, load_backup_watermarks, NamespacesInUse, Marked
    <3>5. BackupSound(q, live.files)
      BY <3>1 DEF BackupSound
    <3>6. backup' \in [Backups -> BackupRow] /\ \A c \in Backups : backup'[c] = IF c = b THEN q ELSE backup[c]
      BY <3>1 DEF BackupsSound
    <3>7. \A c \in Backups : BackupSound(backup'[c], live'.files)
      BY <1>10, <3>1, <3>5, <3>6
    <3> QED BY <3>1, <3>2, <3>4, <3>6, <3>7 DEF BackupsSound
  <2>2. CASE published # None
    <3>1. backup' = [backup EXCEPT ![b] = IdleBackup] /\ UNCHANGED <<live, published>>
      BY <1>15, <2>2 DEF publish_backup_directory
    <3> QED BY <3>1, IdleBackupSound, BackupMoves
  <2> QED BY <2>1, <2>2
<1>16. CASE script_next \/ remove_directory \/ put_back_admission
  <2>1. UNCHANGED <<live, backup, published>>
    BY <1>16 DEF script_next, make_delta, verify_first, verify_again, publish_exclusive, ScriptStep, remove_directory, put_back_admission
  <2> QED BY <2>1, BackupsStay
<1>17. ASSUME NEW p \in Starters, starter_step(p) \/ serve_stop(p) \/ start_dies(p) PROVE BackupsSound'
  <2>1. UNCHANGED <<live, backup, published>>
    BY <1>17 DEF starter_step, evaluate, verify_restored, acquire_data_lock, bootstrap, admit, serve_stop, start_dies
  <2> QED BY <2>1, BackupsStay
<1>18. ASSUME NEW p \in Starters, (\E given \in BOOLEAN : rsia_start(p, given)) \/ \E n \in Spaces : \E s \in Revocable[n] : serve_revoke(p, n, s)
       PROVE BackupsSound'
  <2>1. UNCHANGED <<live, backup, published>>
    BY <1>18 DEF rsia_start, serve_revoke
  <2> QED BY <2>1, BackupsStay
<1>19. CASE live_next
  BY <1>19, <1>2, <1>3, <1>4, <1>6, <1>7, <1>8 DEF live_next
<1>20. ASSUME NEW b \in Backups, backup_next(b) PROVE BackupsSound'
  BY <1>20, <1>11, <1>12, <1>13, <1>14, <1>15 DEF backup_next
<1> QED BY restore_next, <1>16, <1>17, <1>18, <1>19, <1>20 DEF restore_next

-----------------------------------------------------------------------------
(* The script.                                                             *)

LEMMA FactsTyped ==
    ASSUME NEW db \in RestoreDbs, NEW base \in SUBSET Spaces
    PROVE  /\ Marked(db) \in SUBSET Spaces
           /\ [n \in base |-> db.revs[n]] \in Watermarks
           /\ protected_facts(db, base) \in [consumed : ConsumedSets, spent : Nat]
           /\ read_control_plane_facts(db) \in Facts
<1>1. db.revs \in [Spaces -> Chains] /\ db.consumed \in [Spaces -> SUBSET Consumable] /\ db.spent \in Nat
  BY DEF RestoreDbs
<1>2. ASSUME NEW B \in SUBSET Spaces PROVE [n \in B |-> db.revs[n]] \in Watermarks /\ [n \in B |-> db.consumed[n]] \in ConsumedSets
  <2>1. [n \in B |-> db.revs[n]] \in [B -> Chains] /\ [n \in B |-> db.consumed[n]] \in [B -> SUBSET Consumable]
    BY <1>1
  <2> QED BY <2>1 DEF Watermarks, ConsumedSets
<1>3. Marked(db) \in SUBSET Spaces
  BY DEF Marked
<1> QED BY <1>1, <1>2, <1>3 DEF protected_facts, read_control_plane_facts, Facts

LEMMA IdleScriptRow == IdleScript \in ScriptRow /\ IdleScript.at = "idle"
<1> HIDE DEF EmptyDb
<1> QED BY EmptyIsDb DEF IdleScript, ScriptRow

LEMMA ReplayedIsDb ==
    ASSUME NEW db \in RestoreDbs, NEW delta \in [Spaces -> Chains]
    PROVE  replay_delta(db, delta) \in RestoreDbs
<1>1. db.revs \in [Spaces -> Chains]
  BY DEF RestoreDbs
<1>2. [n \in Spaces |-> IF n \in Marked(db) THEN delta[n] ELSE db.revs[n]] \in [Spaces -> Chains]
  BY <1>1
<1> QED BY <1>2 DEF replay_delta, RestoreDbs

LEMMA CountsStay ==
    ASSUME rcount \in CountRow, NEW f \in {"writes", "starts", "restores", "crashes", "served"}, Counted(f)
    PROVE  rcount' \in CountRow /\ rcount'.restores = (IF f = "restores" THEN rcount.restores + 1 ELSE rcount.restores)
<1>1. \A x \in Nat : x + 1 \in Nat
  OBVIOUS
<1> QED BY <1>1 DEF Counted, CountRow


LEMMA ScriptKept ==
    ASSUME RestoreInv, restore_next
    PROVE  ScriptSound' /\ rcount'.restores \in Nat /\ rcount.restores <= rcount'.restores
<1> USE DEF RestoreInv
<1>0. /\ script \in ScriptRow /\ rcount \in CountRow /\ rcount.restores \in Nat
      /\ live.db \in RestoreDbs /\ (published # None => published.db \in RestoreDbs)
      /\ (script.at \in {"delta", "copied", "verified"} => published # None)
      /\ (published # None => published' # None)
  <2>1. published # None => published' # None
    <3>1. CASE UNCHANGED published
      BY <3>1
    <3>2. CASE \E b \in Backups : publish_backup_directory(b)
      BY <3>2 DEF publish_backup_directory
    <3> QED BY restore_next, <3>1, <3>2 DEF restore_next, live_next, live_start, live_stop, spend, bump_watermark, consume, LiveWrite, put_blob, cite_blob,
              remove_blob, BlobWrite, script_next, make_delta, verify_first, verify_again, publish_exclusive, ScriptStep,
              remove_directory, put_back_admission, backup_next, backup_start, backup_lock, vacuum_into, copy_backup_blobs,
              backup_unlock, BackupStep, starter_step, evaluate, verify_restored, acquire_data_lock, bootstrap, admit,
              serve_stop, start_dies, rsia_start, serve_revoke
  <2> QED BY <2>1 DEF ScriptSound, CountRow, BackupsSound, LiveRow
<1>1. ASSUME UNCHANGED <<script, rcount>> PROVE ScriptSound' /\ rcount'.restores \in Nat /\ rcount.restores <= rcount'.restores
  BY <1>0, <1>1 DEF ScriptSound
<1>2. ASSUME NEW f \in {"writes", "starts", "restores", "crashes", "served"}, Counted(f), UNCHANGED script
      PROVE ScriptSound' /\ rcount'.restores \in Nat /\ rcount.restores <= rcount'.restores
  BY <1>0, <1>2, CountsStay DEF ScriptSound
<1>3. ASSUME NEW e \in ScriptRow, ScriptStep(e), e.at # "idle" => published # None
      PROVE ScriptSound' /\ rcount'.restores \in Nat /\ rcount.restores <= rcount'.restores
  BY <1>0, <1>3 DEF ScriptSound, ScriptStep
<1>4. CASE make_delta
  <2> DEFINE e == [IdleScript EXCEPT !.at = "delta", !.delta = live.db.revs]
  <2>1. live.db.revs \in [Spaces -> Chains]
    BY <1>0 DEF RestoreDbs
  <2>2. e \in ScriptRow /\ ScriptStep(e) /\ published # None
    BY <1>4, <2>1, IdleScriptRow DEF make_delta, ScriptRow
  <2> HIDE DEF e
  <2> QED BY <1>3, <2>2
<1>5. CASE verify_first
  <2> DEFINE e == [script EXCEPT !.at = "copied", !.db = published.db, !.first = AnchorSnapshot(Marked(published.db))]
  <2>1. published # None /\ published.db \in RestoreDbs
    BY <1>0, <1>5 DEF verify_first
  <2>2. AnchorSnapshot(Marked(published.db)) \in [revs : Watermarks, facts : [consumed : ConsumedSets, spent : Nat]]
    <3>1. Marked(published.db) \in SUBSET Spaces
      BY DEF Marked
    <3> QED BY <1>0, <3>1, FactsTyped DEF AnchorSnapshot
  <2>3. e \in ScriptRow
    BY <1>0, <2>1, <2>2 DEF ScriptRow
  <2>4. ScriptStep(e) \/ ScriptStep(IdleScript)
    BY <1>5 DEF verify_first
  <2> HIDE DEF e
  <2> QED BY <1>3, <2>1, <2>3, <2>4, IdleScriptRow
<1>6. CASE verify_again
  <2> DEFINE e == [script EXCEPT !.at = "verified", !.anchor = [n \in Marked(script.db) |-> live.db.revs[n]]]
  <2>1. published # None
    BY <1>0, <1>6 DEF verify_again
  <2>2. [n \in Marked(script.db) |-> live.db.revs[n]] \in Watermarks
    <3>1. Marked(script.db) \in SUBSET Spaces
      BY DEF Marked
    <3> QED BY <1>0, <3>1, FactsTyped
  <2>3. e \in ScriptRow
    BY <1>0, <2>2 DEF ScriptRow
  <2>4. ScriptStep(e) \/ ScriptStep(IdleScript)
    BY <1>6 DEF verify_again
  <2> HIDE DEF e
  <2> QED BY <1>3, <2>1, <2>3, <2>4, IdleScriptRow
<1>7. CASE publish_exclusive
  <2>1. script' = IdleScript /\ (Counted("restores") \/ UNCHANGED rcount)
    BY <1>7 DEF publish_exclusive
  <2>2. ScriptSound' /\ rcount' \in CountRow
    BY <1>0, <2>1, IdleScriptRow, CountsStay DEF ScriptSound
  <2> QED BY <1>0, <2>1, <2>2, CountsStay DEF CountRow
<1>8. CASE live_next
  <2>1. UNCHANGED script /\ (UNCHANGED rcount \/ Counted("writes") \/ Counted("starts"))
    BY <1>8 DEF live_next, live_start, live_stop, spend, bump_watermark, consume, LiveWrite, put_blob, cite_blob, remove_blob, BlobWrite
  <2> QED BY <1>1, <1>2, <2>1
<1>9. ASSUME NEW b \in Backups, backup_next(b) PROVE UNCHANGED <<script, rcount>>
  BY <1>9 DEF backup_next, backup_start, backup_lock, vacuum_into, copy_backup_blobs, backup_unlock, BackupStep, publish_backup_directory
<1>10. ASSUME NEW p \in Starters, starter_step(p) \/ serve_stop(p) \/ \E given \in BOOLEAN : rsia_start(p, given) PROVE UNCHANGED <<script, rcount>>
  BY <1>10 DEF starter_step, evaluate, verify_restored, acquire_data_lock, bootstrap, admit, serve_stop, rsia_start
<1>11. ASSUME NEW p \in Starters, start_dies(p) \/ \E n \in Spaces : \E s \in Revocable[n] : serve_revoke(p, n, s)
       PROVE UNCHANGED script /\ (Counted("crashes") \/ Counted("served"))
  BY <1>11 DEF start_dies, serve_revoke
<1>12. CASE remove_directory \/ put_back_admission
  BY <1>1, <1>12 DEF remove_directory, put_back_admission
<1> QED BY restore_next, <1>1, <1>2, <1>4, <1>5, <1>6, <1>7, <1>8, <1>9, <1>10, <1>11, <1>12 DEF restore_next, script_next

-----------------------------------------------------------------------------
(* The directory.                                                          *)

LEMMA PrefixOfItself == ASSUME NEW A, NEW s \in Seq(A) PROVE ChainPrefix(s, s)
  BY DEF ChainPrefix

LEMMA PrefixGrows ==
    ASSUME NEW A, NEW s \in Seq(A), NEW t \in Seq(A), NEW x \in A, ChainPrefix(s, t)
    PROVE  ChainPrefix(s, Append(t, x))
<1>1. Len(Append(t, x)) = Len(t) + 1 /\ Len(s) \in Nat /\ Len(t) \in Nat /\ Len(s) <= Len(t)
  BY DEF ChainPrefix
<1>2. SubSeq(Append(t, x), 1, Len(s)) = SubSeq(t, 1, Len(s))
  BY <1>1
<1> QED BY <1>1, <1>2 DEF ChainPrefix

\* A further revocation takes nothing back.
LEMMA RevokingKeeps ==
    ASSUME NEW saw \in RestoreDbs, NEW db \in RestoreDbs, Kept(saw, db), NEW n \in Spaces, NEW s \in Revocable[n]
    PROVE  LET d == [db EXCEPT !.revs[n] = Append(@, s)] IN d \in RestoreDbs /\ Kept(saw, d)
<1> DEFINE U == UNION {Revocable[m] : m \in Spaces}
           d == [db EXCEPT !.revs[n] = Append(@, s)]
<1>1. db.revs \in [Spaces -> Seq(U)] /\ saw.revs \in [Spaces -> Seq(U)] /\ s \in U
  BY DEF RestoreDbs, Chains
<1>2. d.revs = [db.revs EXCEPT ![n] = Append(db.revs[n], s)] /\ d.consumed = db.consumed /\ d.spent = db.spent
  BY DEF RestoreDbs
<1> HIDE DEF U
<1>3. Append(db.revs[n], s) \in Seq(U)
  BY <1>1
<1>4. d \in RestoreDbs
  <2>1. Append(db.revs[n], s) \in Chains
    BY <1>3 DEF Chains, U
  <2> QED BY <2>1 DEF RestoreDbs
<1> HIDE DEF d
<1>5. ASSUME NEW m \in Spaces PROVE ChainPrefix(saw.revs[m], d.revs[m])
  <2>1. CASE m = n
    <3>1. d.revs[m] = Append(db.revs[n], s) /\ ChainPrefix(saw.revs[n], db.revs[n])
      BY <1>1, <1>2, <2>1 DEF Kept
    <3> QED BY <1>1, <2>1, <3>1, PrefixGrows
  <2>2. CASE m # n
    BY <1>1, <1>2, <2>2 DEF Kept
  <2> QED BY <2>1, <2>2
<1>6. Kept(saw, d)
  BY <1>2, <1>5 DEF Kept
<1> QED BY <1>4, <1>6 DEF d

\* What is compared equal with the anchor is kept.
LEMMA ComparedIsKept ==
    ASSUME NEW saw \in RestoreDbs, NEW db \in RestoreDbs, NEW marks,
           compare_facts(read_control_plane_facts(db), read_control_plane_facts(saw), marks)
    PROVE  Kept(saw, db)
<1> DEFINE U == UNION {Revocable[m] : m \in Spaces}
<1>1. db.revs \in [Spaces -> Seq(U)] /\ saw.revs \in [Spaces -> Seq(U)] /\ db.spent \in Nat /\ saw.spent \in Nat
  BY DEF RestoreDbs, Chains
<1> HIDE DEF U
<1>2. /\ [n \in Marked(db) |-> db.revs[n]] = [n \in Marked(saw) |-> saw.revs[n]]
      /\ [n \in Marked(db) |-> db.consumed[n]] = [n \in Marked(saw) |-> saw.consumed[n]]
      /\ db.spent = saw.spent
  BY DEF compare_facts, read_control_plane_facts
<1>3. Marked(db) = Marked(saw)
  <2>1. DOMAIN [n \in Marked(db) |-> db.revs[n]] = Marked(db) /\ DOMAIN [n \in Marked(saw) |-> saw.revs[n]] = Marked(saw)
    OBVIOUS
  <2> QED BY <1>2, <2>1
<1>4. ASSUME NEW n \in Marked(saw) PROVE db.revs[n] = saw.revs[n] /\ db.consumed[n] = saw.consumed[n]
  <2>1. [m \in Marked(db) |-> db.revs[m]][n] = db.revs[n] /\ [m \in Marked(saw) |-> saw.revs[m]][n] = saw.revs[n]
    BY <1>3
  <2>2. [m \in Marked(db) |-> db.consumed[m]][n] = db.consumed[n] /\ [m \in Marked(saw) |-> saw.consumed[m]][n] = saw.consumed[n]
    BY <1>3
  <2> QED BY <1>2, <2>1, <2>2
<1>5. ASSUME NEW n \in Spaces PROVE db.revs[n] = saw.revs[n] /\ (saw.revs[n] # <<>> => saw.consumed[n] \subseteq db.consumed[n])
  <2>1. CASE n \in Marked(saw)
    BY <1>4, <2>1
  <2>2. CASE n \notin Marked(saw)
    BY <1>3, <2>2 DEF Marked
  <2> QED BY <2>1, <2>2
<1>6. ASSUME NEW n \in Spaces PROVE ChainPrefix(saw.revs[n], db.revs[n])
  BY <1>1, <1>5, PrefixOfItself
<1> QED BY <1>1, <1>2, <1>5, <1>6 DEF Kept

LEMMA DirStays ==
    ASSUME DirSound, UNCHANGED <<dir, stray>>, dirLock' \in {dirLock, None}, rcount.restores \in Nat,
           rcount'.restores \in Nat, rcount.restores <= rcount'.restores
    PROVE  DirSound'
<1>1. dir # None => DirOk(dir', rcount'.restores)
  <2> SUFFICES ASSUME dir # None PROVE DirOk(dir', rcount'.restores)
    OBVIOUS
  <2>1. DirOk(dir, rcount.restores) /\ dir.receipt \in Nat
    BY DEF DirSound, DirOk, Directories
  <2> QED BY <2>1 DEF DirOk
<1>2. StrayOk(stray', dir', rcount'.restores)
  <2>1. stray # None => stray.receipt \in Nat
    BY DEF DirSound, StrayOk, Admissions
  <2> QED BY <2>1 DEF DirSound, StrayOk
<1> QED BY <1>1, <1>2 DEF DirSound

LEMMA DirKept ==
    ASSUME RestoreInv, restore_next
    PROVE  DirSound'
<1> USE DEF RestoreInv
<1>0. rcount.restores \in Nat /\ rcount'.restores \in Nat /\ rcount.restores <= rcount'.restores /\ rcount \in CountRow /\ script \in ScriptRow
  BY ScriptKept DEF ScriptSound, CountRow
<1>1. ASSUME UNCHANGED <<dir, stray>>, dirLock' \in {dirLock, None} PROVE DirSound'
  BY <1>0, <1>1, DirStays
<1>2. CASE publish_exclusive
  <2> DEFINE d == [db |-> replay_delta(script.db, script.delta), receipt |-> rcount.restores + 1,
                   marks |-> script.anchor, admission |-> None]
  <2>1. CASE dir # None
    BY <1>1, <1>2, <2>1 DEF publish_exclusive
  <2>2. CASE dir = None
    <3>1. dir' = d /\ Counted("restores") /\ UNCHANGED <<stray, dirLock>>
      BY <1>2, <2>2 DEF publish_exclusive
    <3>2. rcount'.restores = rcount.restores + 1 /\ rcount.restores + 1 \in Nat
      BY <1>0, <3>1, CountsStay
    <3>3. script.db \in RestoreDbs /\ script.delta \in [Spaces -> Chains] /\ script.anchor \in Watermarks \cup {None}
      BY <1>0 DEF ScriptRow
    <3>4. replay_delta(script.db, script.delta) \in RestoreDbs
      BY <3>3, ReplayedIsDb
    <3>5. d \in Directories /\ d.receipt = rcount.restores + 1 /\ d.admission = None
      BY <3>2, <3>3, <3>4 DEF Directories
    <3> HIDE DEF d
    <3>6. DirOk(d, rcount'.restores)
      BY <1>0, <3>2, <3>5 DEF DirOk, Admitted
    <3>7. StrayOk(stray, d, rcount'.restores)
      <4>1. stray # None => stray.receipt \in Nat
        BY DEF DirSound, StrayOk, Admissions
      <4> QED BY <1>0, <3>2, <3>5, <4>1 DEF DirSound, StrayOk
    <3>8. dirLock = None
      BY <2>2 DEF DirSound
    <3> QED BY <3>1, <3>6, <3>7, <3>8 DEF DirSound
  <2> QED BY <2>1, <2>2
<1>3. ASSUME NEW p \in Starters, acquire_data_lock(p) PROVE DirSound'
  <2> DEFINE d == [db |-> EmptyDb, receipt |-> 0, marks |-> None, admission |-> None]
  <2>0. UNCHANGED <<stray, rcount>>
    BY <1>3 DEF acquire_data_lock
  <2>1. CASE dirLock # None
    BY <1>1, <1>3, <2>1 DEF acquire_data_lock, NoStart
  <2>2. CASE dirLock = None /\ dir # None
    <3>1. dirLock' = p /\ dir' = dir
      BY <1>3, <2>2 DEF acquire_data_lock
    <3>2. StrayOk(stray', dir', rcount'.restores) /\ DirOk(dir', rcount'.restores)
      BY <2>0, <2>2, <3>1 DEF DirSound
    <3> QED BY <2>2, <3>1, <3>2 DEF DirSound
  <2>3. CASE dirLock = None /\ dir = None
    <3>1. dirLock' = p /\ dir' = d
      BY <1>3, <2>3 DEF acquire_data_lock
    <3>2. d \in Directories /\ d.receipt = 0 /\ d.admission = None
      <4> HIDE DEF EmptyDb
      <4> QED BY EmptyIsDb DEF Directories
    <3> HIDE DEF d
    <3>3. DirOk(d, rcount'.restores)
      BY <1>0, <3>2 DEF DirOk, Admitted
    <3>4. StrayOk(stray', d, rcount'.restores)
      BY <2>0, <3>2 DEF DirSound, StrayOk
    <3>5. d # None
      BY <3>2, RestoreAbsent
    <3> QED BY <3>1, <3>3, <3>4, <3>5 DEF DirSound
  <2> QED BY <2>1, <2>2, <2>3
<1>4. ASSUME NEW p \in Starters, starter[p].at \in Holding
      PROVE  dirLock = p /\ dir # None /\ DirOk(dir, rcount.restores) /\ dir \in Directories /\ StarterSound(p, starter[p], dir, dirLock)
             /\ starter[p] \in StarterRow
  <2>1. dirLock = p /\ StarterSound(p, starter[p], dir, dirLock) /\ starter[p] \in StarterRow
    BY <1>4 DEF StartersSound, StarterSound
  <2>2. dir # None
    BY <2>1, RestoreAbsent DEF DirSound
  <2> QED BY <2>1, <2>2 DEF DirSound, DirOk
<1>5. ASSUME NEW p \in Starters, admit(p) PROVE DirSound'
  <2> DEFINE a == [receipt |-> starter[p].receipt, saw |-> starter[p].saw]
             d == [dir EXCEPT !.admission = a]
  <2>0. UNCHANGED <<stray, rcount>>
    BY <1>5 DEF admit
  <2>1. CASE UNCHANGED dir
    <3>1. dirLock' \in {dirLock, None}
      BY <1>5 DEF admit, NoStart
    <3> QED BY <1>1, <2>0, <2>1, <3>1
  <2>2. CASE starter[p].saw # None /\ dir' = d /\ UNCHANGED dirLock
    <3>1. starter[p].at = "admit" /\ starter[p].at \in Holding
      BY <1>5 DEF admit, Holding
    <3>2. /\ dir \in Directories /\ dir # None /\ DirOk(dir, rcount.restores) /\ starter[p] \in StarterRow
          /\ starter[p].receipt = dir.receipt /\ dir.receipt # 0 /\ Kept(starter[p].saw, dir.db)
      BY <1>4, <2>2, <3>1 DEF StarterSound
    <3>3. a \in Admissions /\ a.receipt = dir.receipt /\ a.saw = starter[p].saw
      BY <2>2, <3>2 DEF StarterRow, Admissions
    <3> HIDE DEF a
    <3>4. d \in Directories /\ d.admission = a /\ d.receipt = dir.receipt /\ d.db = dir.db
      BY <3>2, <3>3 DEF Directories
    <3> HIDE DEF d
    <3>5. d # None /\ dir.receipt \in Nat
      BY <3>2, <3>4, RestoreAbsent DEF Directories
    <3>6. DirOk(d, rcount.restores)
      BY <3>2, <3>3, <3>4, <3>5 DEF DirOk, Admitted
    <3>7. StrayOk(stray, d, rcount.restores)
      BY <3>2, <3>4 DEF DirSound, StrayOk
    <3> QED BY <2>0, <2>2, <3>5, <3>6, <3>7 DEF DirSound
  <2> QED BY <1>5, <2>1, <2>2 DEF admit
<1>6. ASSUME NEW p \in Starters, NEW n \in Spaces, NEW s \in Revocable[n], serve_revoke(p, n, s) PROVE DirSound'
  <2> DEFINE b == [dir.db EXCEPT !.revs[n] = Append(@, s)]  d == [dir EXCEPT !.db = b]
  <2>0. UNCHANGED <<stray, dirLock>> /\ rcount' \in CountRow /\ rcount'.restores = rcount.restores
    BY <1>0, <1>6, CountsStay DEF serve_revoke
  <2>1. starter[p].at = "serve" /\ starter[p].at \in Holding
    BY <1>6 DEF serve_revoke, Holding
  <2>2. dir \in Directories /\ dir # None /\ DirOk(dir, rcount.restores) /\ dir.db \in RestoreDbs
    BY <1>4, <2>1 DEF Directories
  <2>3. dir' = d
    BY <1>6, <2>2 DEF serve_revoke, Directories, RestoreDbs
  <2>4. b \in RestoreDbs
    <3>1. dir.db.revs \in [Spaces -> Chains]
      BY <2>2 DEF RestoreDbs
    <3>2. Append(dir.db.revs[n], s) \in Chains
      <4>1. s \in UNION {Revocable[m] : m \in Spaces} /\ dir.db.revs[n] \in Chains
        BY <3>1
      <4> QED BY <4>1 DEF Chains
    <3> QED BY <2>2, <3>1, <3>2 DEF RestoreDbs
  <2>5. Admitted(dir) => Kept(dir.admission.saw, b)
    <3> SUFFICES ASSUME Admitted(dir) PROVE Kept(dir.admission.saw, b)
      OBVIOUS
    <3>1. dir.admission \in Admissions
      BY <2>2 DEF Admitted, Directories
    <3>2. dir.admission.saw \in RestoreDbs /\ Kept(dir.admission.saw, dir.db)
      BY <2>2, <3>1 DEF DirOk, Admissions
    <3> QED BY <2>2, <3>2, RevokingKeeps
  <2> HIDE DEF b
  <2>6. d \in Directories /\ d.db = b /\ d.admission = dir.admission /\ d.receipt = dir.receipt
    BY <2>2, <2>4 DEF Directories
  <2> HIDE DEF d
  <2>7. DirOk(d, rcount.restores)
    BY <2>2, <2>5, <2>6 DEF DirOk, Admitted
  <2>8. StrayOk(stray, d, rcount.restores)
    BY <2>2, <2>6 DEF DirSound, StrayOk
  <2>9. d # None
    BY <2>6, RestoreAbsent
  <2> QED BY <2>0, <2>3, <2>7, <2>8, <2>9 DEF DirSound
<1>7. CASE remove_directory
  <2>1. dir # None /\ dir' = None /\ dirLock = None /\ dirLock' = None /\ stray' \in {stray, dir.admission} /\ UNCHANGED rcount
    BY <1>7 DEF remove_directory
  <2>2. DirOk(dir, rcount.restores) /\ StrayOk(stray, dir, rcount.restores) /\ dir.receipt \in Nat
    BY <2>1 DEF DirSound, DirOk, Directories
  <2>3. StrayOk(stray', None, rcount.restores)
    <3>1. CASE stray' = stray
      BY <2>2, <3>1 DEF StrayOk
    <3>2. CASE stray' = dir.admission /\ dir.admission # None
      <4>1. dir.admission \in Admissions /\ dir.admission.receipt \in Nat
        BY <2>2, <3>2 DEF DirOk, Directories, Admissions
      <4> QED BY <1>0, <2>2, <3>2, <4>1 DEF DirOk, StrayOk
    <3>3. CASE stray' = None
      BY <3>3 DEF StrayOk
    <3> QED BY <2>1, <3>1, <3>2, <3>3
  <2> QED BY <2>1, <2>3 DEF DirSound
<1>8. CASE put_back_admission
  <2> DEFINE d == [dir EXCEPT !.admission = stray]
  <2>1. dir # None /\ dir' = d /\ stray # None /\ dir.receipt # 0 /\ UNCHANGED <<stray, dirLock, rcount>>
    BY <1>8 DEF put_back_admission, Receipt
  <2>2. DirOk(dir, rcount.restores) /\ StrayOk(stray, dir, rcount.restores) /\ dir \in Directories
    BY <2>1 DEF DirSound, DirOk
  <2>3. stray \in Admissions /\ stray.receipt < dir.receipt /\ stray.receipt \in Nat /\ dir.receipt \in Nat
    BY <2>1, <2>2 DEF StrayOk, Admissions, Directories
  <2>4. d \in Directories /\ d.admission = stray /\ d.receipt = dir.receipt
    BY <2>2, <2>3 DEF Directories
  <2> HIDE DEF d
  <2>5. DirOk(d, rcount.restores)
    BY <2>1, <2>2, <2>3, <2>4 DEF DirOk, Admitted
  <2>6. StrayOk(stray, d, rcount.restores)
    BY <2>1, <2>2, <2>4 DEF StrayOk
  <2>7. d # None
    BY <2>4, RestoreAbsent
  <2> QED BY <2>1, <2>5, <2>6, <2>7 DEF DirSound
<1>9. CASE live_next
  BY <1>1, <1>9 DEF live_next, live_start, live_stop, spend, bump_watermark, consume, LiveWrite, put_blob, cite_blob, remove_blob, BlobWrite
<1>10. ASSUME NEW b \in Backups, backup_next(b) PROVE DirSound'
  BY <1>1, <1>10 DEF backup_next, backup_start, backup_lock, vacuum_into, copy_backup_blobs, backup_unlock, BackupStep, publish_backup_directory
<1>11. ASSUME NEW p \in Starters, evaluate(p) \/ verify_restored(p) \/ bootstrap(p) \/ serve_stop(p) \/ start_dies(p) \/ \E given \in BOOLEAN : rsia_start(p, given)
       PROVE DirSound'
  BY <1>1, <1>11 DEF evaluate, verify_restored, bootstrap, serve_stop, start_dies, rsia_start, NoStart
<1>12. CASE make_delta \/ verify_first \/ verify_again
  BY <1>1, <1>12 DEF make_delta, verify_first, verify_again, ScriptStep
<1> QED BY restore_next, <1>2, <1>3, <1>5, <1>6, <1>7, <1>8, <1>9, <1>10, <1>11, <1>12 DEF restore_next, script_next, starter_step

-----------------------------------------------------------------------------
(* The processes.                                                          *)

\* What a process knows of the directory stands while it holds the lock.
Undisturbed(v) == dirLock = v => dirLock' = v /\ dir' = dir

LEMMA StarterStays ==
    ASSUME NEW v \in Starters, NEW q, StarterSound(v, q, dir, dirLock), Undisturbed(v)
    PROVE  StarterSound(v, q, dir', dirLock')
<1>1. CASE q.at \in Holding
  BY <1>1 DEF StarterSound, Undisturbed
<1>2. CASE q.at \notin Holding
  BY <1>2 DEF StarterSound, Holding
<1> QED BY <1>1, <1>2

LEMMA StarterMoves ==
    ASSUME StartersSound, NEW p \in Starters, NEW q \in StarterRow, starter' = [starter EXCEPT ![p] = q],
           StarterSound(p, q, dir', dirLock'), \A v \in Starters : v # p => Undisturbed(v)
    PROVE  StartersSound'
<1>1. starter' \in [Starters -> StarterRow] /\ \A v \in Starters : starter'[v] = IF v = p THEN q ELSE starter[v]
  BY DEF StartersSound
<1>2. ASSUME NEW v \in Starters PROVE StarterSound(v, starter'[v], dir', dirLock')
  <2>1. CASE v = p
    BY <1>1, <2>1
  <2>2. CASE v # p
    <3>1. StarterSound(v, starter[v], dir, dirLock) /\ Undisturbed(v) /\ starter'[v] = starter[v]
      BY <1>1, <2>2 DEF StartersSound
    <3> QED BY <3>1, StarterStays
  <2> QED BY <2>1, <2>2
<1> QED BY <1>1, <1>2 DEF StartersSound

LEMMA StartersStay ==
    ASSUME StartersSound, UNCHANGED starter, \A v \in Starters : Undisturbed(v)
    PROVE  StartersSound'
<1>1. ASSUME NEW v \in Starters PROVE StarterSound(v, starter'[v], dir', dirLock')
  <2>1. StarterSound(v, starter[v], dir, dirLock) /\ Undisturbed(v)
    BY DEF StartersSound
  <2> QED BY <2>1, StarterStays
<1> QED BY <1>1 DEF StartersSound

LEMMA IdleStarterRow == IdleStarter \in StarterRow /\ IdleStarter.at = "idle" /\ IdleStarter.saw = None
  BY DEF IdleStarter, StarterRow, StarterPlaces

\* A start that ends lets others be.
LEMMA NoStartKeeps ==
    ASSUME StartersSound, NEW p \in Starters, NoStart(p), UNCHANGED dir
    PROVE  StartersSound'
<1>1. StarterSound(p, IdleStarter, dir', dirLock')
  BY IdleStarterRow DEF StarterSound, Holding
<1>2. \A v \in Starters : v # p => Undisturbed(v)
  BY DEF NoStart, Undisturbed
<1> QED BY <1>1, <1>2, IdleStarterRow, StarterMoves DEF NoStart, Step

LEMMA StartersKept ==
    ASSUME RestoreInv, restore_next
    PROVE  StartersSound'
<1> USE DEF RestoreInv
<1>0. ASSUME NEW p \in Starters PROVE starter[p] \in StarterRow /\ StarterSound(p, starter[p], dir, dirLock)
  BY DEF StartersSound
<1>1. ASSUME UNCHANGED <<starter, dir, dirLock>> PROVE StartersSound'
  BY <1>1, StartersStay DEF Undisturbed
<1>2. ASSUME UNCHANGED <<starter, dirLock>>, dirLock = None PROVE StartersSound'
  BY <1>2, StartersStay, RestoreAbsent DEF Undisturbed
<1>3. ASSUME NEW p \in Starters, NEW q \in StarterRow, Step(p, q), UNCHANGED <<dir, dirLock>>, StarterSound(p, q, dir, dirLock)
      PROVE StartersSound'
  <2>1. \A v \in Starters : v # p => Undisturbed(v)
    BY <1>3 DEF Undisturbed
  <2> QED BY <1>3, <2>1, StarterMoves DEF Step
<1>4. ASSUME NEW p \in Starters, NEW given \in BOOLEAN, rsia_start(p, given) PROVE StartersSound'
  <2> DEFINE q == [IdleStarter EXCEPT !.at = "first", !.given = given]
  <2>1. q \in StarterRow /\ q.at = "first"
    BY IdleStarterRow DEF StarterRow, StarterPlaces
  <2>2. Step(p, q) /\ UNCHANGED <<dir, dirLock>>
    BY <1>4 DEF rsia_start
  <2> HIDE DEF q
  <2>3. StarterSound(p, q, dir, dirLock)
    BY <2>1 DEF StarterSound, Holding
  <2> QED BY <1>3, <2>1, <2>2, <2>3
<1>5. ASSUME NEW p \in Starters, starter[p].at \in Holding
      PROVE  dirLock = p /\ dir # None /\ dir \in Directories /\ DirOk(dir, rcount.restores)
  BY <1>0, <1>5, RestoreAbsent DEF StarterSound, DirSound, DirOk
<1>6. ASSUME NEW p \in Starters, evaluate(p) PROVE StartersSound'
  <2> DEFINE o == starter[p]
             q == [o EXCEPT !.at = IF o.at = "first" THEN "lock" ELSE "boot", !.receipt = 0]
             row == [facts |-> read_control_plane_facts(dir.db), marks |-> dir.marks]
             r == [o EXCEPT !.at = IF o.at = "first" THEN "compare" ELSE "recompare", !.receipt = Receipt, !.read = row]
  <2>0. o \in StarterRow /\ o.at \in {"first", "second"} /\ StarterSound(p, o, dir, dirLock) /\ UNCHANGED dir
    BY <1>0, <1>6 DEF evaluate
  <2>1. CASE NoStart(p)
    BY <2>0, <2>1, NoStartKeeps
  <2>2. CASE Step(p, q) /\ UNCHANGED dirLock /\ (Normal(p) \/ AdmittedPreviously(p))
    <3>1. q \in StarterRow /\ q.at = (IF o.at = "first" THEN "lock" ELSE "boot") /\ q.saw = o.saw
      BY <2>0 DEF StarterRow, StarterPlaces
    <3>2. o.at = "second" => dirLock = p /\ dir # None /\ o.saw = None
      BY <1>5, <2>0 DEF StarterSound, Holding
    <3>3. o.at = "second" /\ dir.receipt # 0 => Admitted(dir)
      BY <2>2, <3>2 DEF Normal, AdmittedPreviously, Receipt, Admitted
    <3> HIDE DEF q, o
    <3>4. StarterSound(p, q, dir, dirLock)
      BY <2>0, <3>1, <3>2, <3>3 DEF StarterSound, Holding
    <3> QED BY <1>3, <2>0, <2>2, <3>1, <3>4
  <2>3. CASE Step(p, r) /\ UNCHANGED dirLock /\ Receipt # 0 /\ dir.admission = None
    <3>1. dir # None /\ dir \in Directories /\ Receipt = dir.receipt
      BY <2>3 DEF Receipt, DirSound, DirOk
    <3>2. row \in [facts : Facts, marks : Watermarks \cup {None}] /\ dir.receipt \in Nat
      <4>1. dir.db \in RestoreDbs /\ dir.marks \in Watermarks \cup {None} /\ dir.receipt \in Nat
        BY <3>1 DEF Directories
      <4>2. read_control_plane_facts(dir.db) \in Facts
        BY <4>1, FactsTyped
      <4> QED BY <4>1, <4>2
    <3> HIDE DEF row
    <3>3. /\ r \in StarterRow /\ r.at = (IF o.at = "first" THEN "compare" ELSE "recompare") /\ r.receipt = dir.receipt
          /\ r.read = row
      BY <2>0, <3>1, <3>2 DEF StarterRow, StarterPlaces
    <3>4. o.at = "second" => dirLock = p
      BY <2>0 DEF StarterSound, Holding
    <3> HIDE DEF r, o
    <3>5. StarterSound(p, r, dir, dirLock)
      BY <2>0, <2>3, <3>1, <3>3, <3>4 DEF StarterSound, Holding, row
    <3> QED BY <1>3, <2>0, <2>3, <3>3, <3>5
  <2> QED BY <1>6, <2>1, <2>2, <2>3 DEF evaluate
<1>7. ASSUME NEW p \in Starters, verify_restored(p) PROVE StartersSound'
  <2> DEFINE o == starter[p]
             q == [o EXCEPT !.at = IF o.at = "compare" THEN "lock" ELSE "boot", !.read = None, !.saw = live.db]
  <2>0. o \in StarterRow /\ o.at \in {"compare", "recompare"} /\ StarterSound(p, o, dir, dirLock) /\ UNCHANGED dir
    BY <1>0, <1>7 DEF verify_restored
  <2>1. CASE NoStart(p)
    BY <2>0, <2>1, NoStartKeeps
  <2>2. CASE Step(p, q) /\ UNCHANGED dirLock /\ compare_facts(o.read.facts, read_control_plane_facts(live.db), o.read.marks)
    <3>1. live.db \in RestoreDbs
      BY DEF BackupsSound, LiveRow
    <3>2. q \in StarterRow /\ q.at = (IF o.at = "compare" THEN "lock" ELSE "boot") /\ q.saw = live.db /\ q.receipt = o.receipt
      BY <2>0, <3>1 DEF StarterRow, StarterPlaces
    <3>3. q.saw # None
      BY <3>1, <3>2, RestoreAbsent
    <3>4. o.at = "recompare" => /\ dirLock = p /\ o.receipt = dir.receipt /\ dir.receipt # 0 /\ dir.admission = None
                                /\ Kept(live.db, dir.db)
      <4> SUFFICES ASSUME o.at = "recompare" PROVE /\ dirLock = p /\ o.receipt = dir.receipt /\ dir.receipt # 0 /\ dir.admission = None
                                                   /\ Kept(live.db, dir.db)
        OBVIOUS
      <4>1. /\ dirLock = p /\ o.receipt = dir.receipt /\ dir.receipt # 0 /\ dir.admission = None
            /\ o.read = [facts |-> read_control_plane_facts(dir.db), marks |-> dir.marks]
        BY <2>0 DEF StarterSound, Holding
      <4>2. dir.db \in RestoreDbs
        BY <1>5 DEF Holding, Directories
      <4>3. o.read.facts = read_control_plane_facts(dir.db)
        BY <4>1
      <4>4. compare_facts(read_control_plane_facts(dir.db), read_control_plane_facts(live.db), o.read.marks)
        BY <2>2, <4>3
      <4>5. Kept(live.db, dir.db)
        BY <3>1, <4>2, <4>4, ComparedIsKept
      <4> QED BY <4>1, <4>5
    <3> HIDE DEF q, o
    <3>5. StarterSound(p, q, dir, dirLock)
      BY <2>0, <3>2, <3>3, <3>4 DEF StarterSound, Holding
    <3> QED BY <1>3, <2>0, <2>2, <3>2, <3>5
  <2> QED BY <1>7, <2>1, <2>2 DEF verify_restored
<1>8. ASSUME NEW p \in Starters, acquire_data_lock(p) PROVE StartersSound'
  <2> DEFINE q == [starter[p] EXCEPT !.at = "second", !.saw = None]
  <2>1. CASE dirLock # None
    BY <1>8, <2>1, NoStartKeeps DEF acquire_data_lock
  <2>2. CASE dirLock = None
    <3>1. q \in StarterRow /\ q.at = "second" /\ q.saw = None
      BY <1>0 DEF StarterRow, StarterPlaces
    <3>2. dirLock' = p /\ starter' = [starter EXCEPT ![p] = q]
      BY <1>8, <2>2 DEF acquire_data_lock, Step
    <3> HIDE DEF q
    <3>3. StarterSound(p, q, dir', dirLock')
      BY <3>1, <3>2 DEF StarterSound, Holding
    <3>4. \A v \in Starters : v # p => Undisturbed(v)
      BY <2>2, RestoreAbsent DEF Undisturbed
    <3> QED BY <3>1, <3>2, <3>3, <3>4, StarterMoves
  <2> QED BY <2>1, <2>2
<1>9. ASSUME NEW p \in Starters, bootstrap(p) PROVE StartersSound'
  <2> DEFINE o == starter[p]  q == [o EXCEPT !.at = "admit"]
  <2>0. o \in StarterRow /\ o.at = "boot" /\ StarterSound(p, o, dir, dirLock) /\ Step(p, q) /\ UNCHANGED <<dir, dirLock>>
    BY <1>0, <1>9 DEF bootstrap
  <2>1. q \in StarterRow /\ q.at = "admit" /\ q.saw = o.saw /\ q.receipt = o.receipt
    BY <2>0 DEF StarterRow, StarterPlaces
  <2> HIDE DEF q, o
  <2>2. StarterSound(p, q, dir, dirLock)
    BY <2>0, <2>1 DEF StarterSound, Holding
  <2> QED BY <1>3, <2>0, <2>1, <2>2
<1>10. ASSUME NEW p \in Starters, admit(p) PROVE StartersSound'
  <2> DEFINE o == starter[p]  q == [o EXCEPT !.at = "serve"]
             a == [receipt |-> o.receipt, saw |-> o.saw]
  <2>0. o \in StarterRow /\ o.at = "admit" /\ StarterSound(p, o, dir, dirLock)
    BY <1>0, <1>10 DEF admit
  <2>1. q \in StarterRow /\ q.at = "serve" /\ dirLock = p /\ dir \in Directories
    BY <1>5, <2>0 DEF StarterRow, StarterPlaces, Holding
  <2>2. CASE o.saw = None
    <3>1. Step(p, q) /\ UNCHANGED <<dir, dirLock>>
      BY <1>10, <2>2 DEF admit
    <3> HIDE DEF q, o
    <3>2. StarterSound(p, q, dir, dirLock)
      BY <2>0, <2>1, <2>2 DEF StarterSound, Holding
    <3> QED BY <1>3, <2>1, <3>1, <3>2
  <2>3. CASE o.saw # None /\ dir.admission = None
    <3>1. dir' = [dir EXCEPT !.admission = a] /\ starter' = [starter EXCEPT ![p] = q] /\ UNCHANGED dirLock
      BY <1>10, <2>3 DEF admit, Step
    <3>2. a \in Admissions /\ a.receipt = o.receipt /\ o.receipt = dir.receipt
      BY <2>0, <2>3 DEF StarterRow, Admissions, StarterSound
    <3> HIDE DEF a, q, o
    <3>3. dir'.admission = a /\ dir'.receipt = dir.receipt /\ a # None
      BY <2>1, <3>1, <3>2, RestoreAbsent DEF Directories
    <3>4. StarterSound(p, q, dir', dirLock')
      BY <2>1, <3>1, <3>2, <3>3 DEF StarterSound, Holding, Admitted
    <3>5. \A v \in Starters : v # p => Undisturbed(v)
      BY <2>1 DEF Undisturbed
    <3> QED BY <2>1, <3>1, <3>4, <3>5, StarterMoves
  <2>4. CASE o.saw # None /\ dir.admission # None
    BY <1>10, <2>4, NoStartKeeps DEF admit
  <2> QED BY <2>2, <2>3, <2>4
<1>11. ASSUME NEW p \in Starters, NEW n \in Spaces, NEW s \in Revocable[n], serve_revoke(p, n, s) PROVE StartersSound'
  <2>0. starter[p].at = "serve" /\ StarterSound(p, starter[p], dir, dirLock) /\ UNCHANGED <<starter, dirLock>>
    BY <1>0, <1>11 DEF serve_revoke
  <2>1. dirLock = p /\ dir \in Directories
    BY <1>5, <2>0 DEF Holding
  <2>2. dir'.receipt = dir.receipt /\ dir'.admission = dir.admission
    BY <1>11, <2>1 DEF serve_revoke, Directories
  <2>3. StarterSound(p, starter'[p], dir', dirLock')
    BY <2>0, <2>2 DEF StarterSound, Holding, Admitted
  <2>4. \A v \in Starters : v # p => Undisturbed(v)
    BY <2>1 DEF Undisturbed
  <2>5. ASSUME NEW v \in Starters, v # p PROVE StarterSound(v, starter'[v], dir', dirLock')
    BY <1>0, <2>0, <2>4, <2>5, StarterStays
  <2> QED BY <2>0, <2>3, <2>5 DEF StartersSound
<1>12. ASSUME NEW p \in Starters, serve_stop(p) \/ start_dies(p) PROVE StartersSound'
  BY <1>12, NoStartKeeps DEF serve_stop, start_dies
<1>13. CASE remove_directory \/ put_back_admission
  BY <1>2, <1>13 DEF remove_directory, put_back_admission
<1>14. CASE publish_exclusive
  <2>1. CASE dir = None
    BY <1>2, <1>14, <2>1 DEF publish_exclusive, DirSound
  <2>2. CASE dir # None
    BY <1>1, <1>14, <2>2 DEF publish_exclusive
  <2> QED BY <2>1, <2>2
<1>15. CASE live_next
  BY <1>1, <1>15 DEF live_next, live_start, live_stop, spend, bump_watermark, consume, LiveWrite, put_blob, cite_blob, remove_blob, BlobWrite
<1>16. ASSUME NEW b \in Backups, backup_next(b) PROVE StartersSound'
  BY <1>1, <1>16 DEF backup_next, backup_start, backup_lock, vacuum_into, copy_backup_blobs, backup_unlock, BackupStep, publish_backup_directory
<1>17. CASE make_delta \/ verify_first \/ verify_again
  BY <1>1, <1>17 DEF make_delta, verify_first, verify_again, ScriptStep
<1> QED BY restore_next, <1>4, <1>6, <1>7, <1>8, <1>9, <1>10, <1>11, <1>12, <1>13, <1>14, <1>15, <1>16, <1>17
        DEF restore_next, script_next, starter_step

LEMMA RestoreInvNext == RestoreInv /\ [restore_next]_restoreVars => RestoreInv'
<1> SUFFICES ASSUME RestoreInv, [restore_next]_restoreVars PROVE RestoreInv'
  OBVIOUS
<1>1. CASE restore_next
  BY <1>1, BackupsKept, ScriptKept, DirKept, StartersKept DEF RestoreInv
<1>2. CASE UNCHANGED restoreVars
  BY <1>2 DEF restoreVars, RestoreInv, BackupsSound, BackupIsWhole, ScriptSound, DirSound, StartersSound
<1> QED BY <1>1, <1>2

\* In every state of backup and restore a published backup is whole, nothing
\* the anchor revoked or spent comes back with a directory that is served, and
\* one process works on it (backup_consistent, restore_backup.py, mount_gate),
\* for any namespaces, blobs, backups, starting processes and bounds.
THEOREM RestoreIsSafe == RestoreSpec => []RestoreSafe
<1>1. restore_init => RestoreInv
  BY RestoreInvInit
<1>2. RestoreInv /\ [restore_next]_restoreVars => RestoreInv'
  BY RestoreInvNext
<1>3. RestoreInv => RestoreSafe
  BY RestoreInvIsSafe
<1> QED BY <1>1, <1>2, <1>3, PTL DEF RestoreSpec

-----------------------------------------------------------------------------
(* What no step does.                                                      *)

FirstStays == published # None => published' = published
UntouchedStep == dir # None /\ Receipt # 0 /\ dir.admission = None /\ dir' # None => dir'.db = dir.db

LEMMA NothingTouched ==
    ASSUME RestoreInv, restore_next
    PROVE  FirstStays /\ UntouchedStep
<1> USE DEF RestoreInv
<1>1. ASSUME UNCHANGED <<published, dir>> PROVE FirstStays /\ UntouchedStep
  BY <1>1 DEF FirstStays, UntouchedStep
<1>2. ASSUME UNCHANGED published, dir = None \/ dir' = None PROVE FirstStays /\ UntouchedStep
  BY <1>2 DEF FirstStays, UntouchedStep
<1>3. ASSUME UNCHANGED published, NEW a, dir # None, dir' = [dir EXCEPT !.admission = a] PROVE FirstStays /\ UntouchedStep
  <2>1. dir \in Directories
    BY <1>3 DEF DirSound, DirOk
  <2>2. dir'.db = dir.db
    BY <1>3, <2>1 DEF Directories
  <2> QED BY <1>3, <2>2 DEF FirstStays, UntouchedStep
<1>4. ASSUME NEW b \in Backups, backup_next(b) PROVE FirstStays /\ UntouchedStep
  <2>1. UNCHANGED dir /\ (published # None => published' = published)
    BY <1>4 DEF backup_next, backup_start, backup_lock, vacuum_into, copy_backup_blobs, backup_unlock, BackupStep, publish_backup_directory
  <2> QED BY <2>1 DEF FirstStays, UntouchedStep
<1>5. ASSUME NEW p \in Starters, admit(p) \/ acquire_data_lock(p) PROVE FirstStays /\ UntouchedStep
  <2>1. CASE dir = None
    BY <1>2, <1>5, <2>1 DEF admit, acquire_data_lock
  <2>2. CASE dir # None
    BY <1>1, <1>3, <1>5, <2>2 DEF admit, acquire_data_lock
  <2> QED BY <2>1, <2>2
<1>6. ASSUME NEW p \in Starters, NEW n \in Spaces, NEW s \in Revocable[n], serve_revoke(p, n, s) PROVE FirstStays /\ UntouchedStep
  <2>1. dir.receipt # 0 => dir.admission # None
    BY <1>6 DEF serve_revoke, StartersSound, StarterSound, Admitted
  <2>2. UNCHANGED published
    BY <1>6 DEF serve_revoke
  <2> QED BY <2>1, <2>2 DEF FirstStays, UntouchedStep, Receipt
<1>7. CASE remove_directory
  BY <1>2, <1>7 DEF remove_directory
<1>8. CASE put_back_admission
  BY <1>3, <1>8 DEF put_back_admission
<1>9. CASE publish_exclusive
  BY <1>1, <1>2, <1>9 DEF publish_exclusive
<1>10. CASE live_next
  BY <1>1, <1>10 DEF live_next, live_start, live_stop, spend, bump_watermark, consume, LiveWrite, put_blob, cite_blob, remove_blob, BlobWrite
<1>11. CASE make_delta \/ verify_first \/ verify_again
  BY <1>1, <1>11 DEF make_delta, verify_first, verify_again, ScriptStep
<1>12. ASSUME NEW p \in Starters, evaluate(p) \/ verify_restored(p) \/ bootstrap(p) \/ serve_stop(p) \/ start_dies(p) \/ \E given \in BOOLEAN : rsia_start(p, given)
       PROVE FirstStays /\ UntouchedStep
  BY <1>1, <1>12 DEF evaluate, verify_restored, bootstrap, serve_stop, start_dies, rsia_start
<1> QED BY restore_next, <1>4, <1>5, <1>6, <1>7, <1>8, <1>9, <1>10, <1>11, <1>12 DEF restore_next, script_next, starter_step

\* Of two backups that race for one destination the one that is there stays,
\* and a restored directory nobody admitted keeps its facts
\* (publish_backup_directory, mount_gate).
THEOREM RestoreStands == RestoreSpec => BackupStands /\ UntouchedUntilAdmitted
<1>1. restore_init => RestoreInv
  BY RestoreInvInit
<1>2. RestoreInv /\ [restore_next]_restoreVars => RestoreInv'
  BY RestoreInvNext
<1>3. RestoreInv /\ [restore_next]_restoreVars => [FirstStays]_restoreVars /\ [UntouchedStep]_restoreVars
  BY NothingTouched
<1> QED BY <1>1, <1>2, <1>3, PTL DEF RestoreSpec, BackupStands, UntouchedUntilAdmitted, FirstStays, UntouchedStep

-----------------------------------------------------------------------------
(***************************************************************************)
(* The owned configuration workspace, for any layout and any bounds.       *)
(***************************************************************************)

(* The disk.                                                               *)

WKids == Entries \cup {"stray"}
InodeRow == [kind : {"none", "dir", "file"}, by : Nat, content : {None, "original", "other"},
             mode : {None, "700", "600", "400"}, links : Int, kids : [WKids -> WLinks]]

\* What a name may lead to: an inode that was made, and below a root never a
\* directory of somebody else.
KidOk(k, ino, next) == k # None => k < next /\ (ino[k].kind = "file" \/ ino[k].by # 0)

DiskSound ==
    /\ inode \in [1..WInodes -> InodeRow] /\ nextInode \in 1..(WInodes + 1)
    /\ top \in [1..WNames -> WLinks] /\ \A n \in 1..WNames : top[n] # None => top[n] < nextInode
    /\ \A i \in 1..WInodes : i < nextInode \/ inode[i].links = 0
    /\ \A i \in 1..WInodes : \A e \in WKids : KidOk(inode[i].kids[e], inode, nextInode)

\* An inode that was made stays what it is and whose it is; one that was not has
\* no links.
DiskStep ==
    /\ nextInode' \in Nat /\ nextInode <= nextInode'
    /\ \A i \in 1..WInodes : i < nextInode => inode'[i].by = inode[i].by /\ inode'[i].kind = inode[i].kind
    /\ \A i \in 1..WInodes : i < nextInode' \/ inode'[i].links = inode[i].links

\* The rows of a new state of the disk, inode by inode.
LEMMA DiskMoves ==
    ASSUME DiskSound, inode' \in [1..WInodes -> InodeRow], nextInode' \in 1..(WInodes + 1), DiskStep,
           top' \in [1..WNames -> WLinks], \A n \in 1..WNames : top'[n] # None => top'[n] < nextInode',
           \A i \in 1..WInodes : \A e \in WKids :
              inode'[i].kids[e] = inode[i].kids[e] \/ KidOk(inode'[i].kids[e], inode', nextInode')
    PROVE  DiskSound'
<1>1. ASSUME NEW i \in 1..WInodes, NEW e \in WKids PROVE KidOk(inode'[i].kids[e], inode', nextInode')
  <2>1. CASE inode'[i].kids[e] = inode[i].kids[e] /\ inode[i].kids[e] # None
    <3> DEFINE k == inode[i].kids[e]
    <3>1. k \in 1..WInodes /\ KidOk(k, inode, nextInode)
      BY <2>1 DEF DiskSound, InodeRow, WLinks
    <3> HIDE DEF k
    <3>2. KidOk(k, inode', nextInode')
      BY <3>1 DEF KidOk, DiskStep, DiskSound
    <3> QED BY <2>1, <3>2 DEF k
  <2>2. CASE inode'[i].kids[e] = None
    BY <2>2 DEF KidOk
  <2> QED BY <2>1, <2>2
<1>2. \A i \in 1..WInodes : i < nextInode' \/ inode'[i].links = 0
  <2>1. nextInode \in Nat /\ nextInode' \in Nat /\ nextInode <= nextInode' /\ WInodes \in Nat
    BY WorkspaceShape DEF DiskSound, DiskStep
  <2>2. ASSUME NEW i \in 1..WInodes, ~(i < nextInode') PROVE ~(i < nextInode)
    BY <2>1, <2>2
  <2> QED BY <2>2 DEF DiskSound, DiskStep
<1> QED BY <1>1, <1>2 DEF DiskSound

LEMMA DiskStays == ASSUME DiskSound, UNCHANGED wdisk PROVE DiskSound' /\ DiskStep
<1>1. nextInode \in Nat /\ nextInode <= nextInode
  BY WorkspaceShape DEF DiskSound
<1> QED BY <1>1 DEF DiskSound, DiskStep, wdisk

NoKids == [e \in WKids |-> None]

LEMMA NoInodeRow == 1 \in Int /\ NoInode \in InodeRow /\ NoInode.by = 0 /\ NoInode.kids = NoKids
  BY DEF NoInode, InodeRow, WKids, WLinks, NoKids

\* A new inode under one name.
LEMMA MakeKeeps ==
    ASSUME DiskSound, NEW n \in WNodes, NEW row \in InodeRow, Make(n, row), row.kids = NoKids,
           row.links = 1,
           row.kind = "file" \/ row.by # 0, ws.name \in 1..WNames, n # Root => DirOf(n) \in 1..WInodes /\ DirOf(n) < nextInode
    PROVE  /\ DiskSound' /\ DiskStep
           /\ \A i \in 1..WInodes : ~(inode'[i].links < inode[i].links)
           /\ nextInode \in 1..WInodes /\ nextInode' = nextInode + 1 /\ inode'[nextInode].by = row.by
           /\ (n = Root => top' = [top EXCEPT ![ws.name] = nextInode])
           /\ (n # Root => top' = top)
<1>1. nextInode \in 1..WInodes /\ nextInode \in Nat /\ WInodes \in Nat /\ nextInode' = nextInode + 1 /\ nextInode' \in 1..(WInodes + 1)
  BY WorkspaceShape DEF Make, DiskSound
<1>2. CASE n = Root
  <2>1. inode' = [inode EXCEPT ![nextInode] = row] /\ top' = [top EXCEPT ![ws.name] = nextInode]
    BY <1>2 DEF Make
  <2>2. /\ inode' \in [1..WInodes -> InodeRow] /\ inode'[nextInode] = row
        /\ \A i \in 1..WInodes : i # nextInode => inode'[i] = inode[i]
    BY <1>1, <2>1 DEF DiskSound
  <2>3. DiskStep
    BY <1>1, <2>2 DEF DiskStep
  <2>7. \A i \in 1..WInodes : ~(inode'[i].links < inode[i].links)
    <3>1. inode[nextInode].links = 0 /\ \A i \in 1..WInodes : inode[i].links \in Int
      BY <1>1 DEF DiskSound, InodeRow
    <3> QED BY <1>1, <2>2, <3>1
  <2>4. top' \in [1..WNames -> WLinks] /\ \A m \in 1..WNames : top'[m] # None => top'[m] < nextInode'
    <3>1. \A m \in 1..WNames : top[m] \in WLinks /\ top'[m] = IF m = ws.name THEN nextInode ELSE top[m]
      BY <2>1 DEF DiskSound
    <3>2. \A m \in 1..WNames : top[m] # None => top[m] \in Nat /\ top[m] < nextInode
      BY <1>1 DEF DiskSound, WLinks
    <3>3. top' \in [1..WNames -> WLinks]
      BY <1>1, <2>1 DEF DiskSound, WLinks
    <3> QED BY <1>1, <3>1, <3>2, <3>3
  <2>5. \A i \in 1..WInodes : \A e \in WKids : inode'[i].kids[e] = inode[i].kids[e] \/ KidOk(inode'[i].kids[e], inode', nextInode')
    BY <2>2 DEF KidOk, NoKids
  <2>6. DiskSound'
    BY <1>1, <2>2, <2>3, <2>4, <2>5, DiskMoves
  <2> QED BY <1>1, <1>2, <2>1, <2>2, <2>3, <2>6, <2>7
<1>3. CASE n # Root
  <2> DEFINE d == DirOf(n)
             r == [inode[d] EXCEPT !.kids[n] = nextInode]
  <2>0. n \in WKids
    BY <1>3 DEF WNodes, WKids
  <2>1. d \in 1..WInodes /\ d # nextInode /\ d < nextInode
    BY <1>1, <1>3 DEF DiskSound
  <2>2. inode' = [inode EXCEPT ![nextInode] = row, ![d] = r] /\ top' = top
    BY <1>3, <2>1 DEF Make
  <2>3. r \in InodeRow /\ r.by = inode[d].by /\ r.kind = inode[d].kind /\ r.kids = [inode[d].kids EXCEPT ![n] = nextInode]
        /\ r.links = inode[d].links /\ inode[d].kids \in [WKids -> WLinks]
    BY <1>1, <2>0, <2>1 DEF DiskSound, InodeRow, WLinks
  <2> HIDE DEF r, d
  <2>4. /\ inode' \in [1..WInodes -> InodeRow] /\ inode'[nextInode] = row /\ inode'[d] = r
        /\ \A i \in 1..WInodes : i # nextInode /\ i # d => inode'[i] = inode[i]
    BY <1>1, <2>1, <2>2, <2>3 DEF DiskSound
  <2>5. DiskStep
    BY <1>1, <2>3, <2>4 DEF DiskStep
  <2>10. \A i \in 1..WInodes : ~(inode'[i].links < inode[i].links)
    <3>1. inode[nextInode].links = 0 /\ \A i \in 1..WInodes : inode[i].links \in Int
      BY <1>1 DEF DiskSound, InodeRow
    <3> QED BY <1>1, <2>1, <2>3, <2>4, <3>1
  <2>6. KidOk(nextInode, inode', nextInode')
    BY <1>1, <2>4 DEF KidOk
  <2>7. \A i \in 1..WInodes : \A e \in WKids : inode'[i].kids[e] = inode[i].kids[e] \/ KidOk(inode'[i].kids[e], inode', nextInode')
    <3>1. \A e \in WKids : r.kids[e] = inode[d].kids[e] \/ r.kids[e] = nextInode
      BY <2>3
    <3>2. \A e \in WKids : KidOk(row.kids[e], inode', nextInode')
      BY DEF KidOk, NoKids
    <3> QED BY <2>4, <2>6, <3>1, <3>2
  <2>8. top' \in [1..WNames -> WLinks] /\ \A m \in 1..WNames : top'[m] # None => top'[m] < nextInode'
    <3>1. \A m \in 1..WNames : top[m] # None => top[m] \in Nat /\ top[m] < nextInode
      BY <1>1 DEF DiskSound, WLinks
    <3> QED BY <1>1, <2>2, <3>1 DEF DiskSound
  <2>9. DiskSound'
    BY <1>1, <2>4, <2>5, <2>7, <2>8, DiskMoves
  <2> QED BY <1>1, <1>3, <2>2, <2>4, <2>5, <2>9, <2>10
<1> QED BY <1>2, <1>3

\* One row changes: not whose it is, and no new name appears in it.
LEMMA RowChanges ==
    ASSUME DiskSound, NEW i \in 1..WInodes, NEW r \in InodeRow, inode' = [inode EXCEPT ![i] = r],
           r.by = inode[i].by, r.kind = inode[i].kind, i < nextInode \/ r.links = inode[i].links,
           \A e \in WKids : r.kids[e] = inode[i].kids[e] \/ r.kids[e] = None, UNCHANGED <<nextInode, top>>
    PROVE  DiskSound' /\ DiskStep /\ \A j \in 1..WInodes : inode'[j].by = inode[j].by
<1>1. inode' \in [1..WInodes -> InodeRow] /\ \A j \in 1..WInodes : inode'[j] = IF j = i THEN r ELSE inode[j]
  BY DEF DiskSound
<1>2. DiskStep
  <2>1. nextInode \in Nat /\ nextInode <= nextInode
    BY WorkspaceShape DEF DiskSound
  <2> QED BY <1>1, <2>1 DEF DiskStep, DiskSound
<1>3. \A j \in 1..WInodes : \A e \in WKids : inode'[j].kids[e] = inode[j].kids[e] \/ KidOk(inode'[j].kids[e], inode', nextInode')
  BY <1>1 DEF KidOk
<1>4. DiskSound'
  BY <1>1, <1>2, <1>3, DiskMoves DEF DiskSound
<1> QED BY <1>1, <1>2, <1>4

LEMMA UnlinkKeeps ==
    ASSUME DiskSound, NEW n \in WNodes, Unlink(n), ws.name \in 1..WNames,
           n # Root => DirOf(n) \in 1..WInodes /\ Found(n) \in 1..WInodes /\ Found(n) < nextInode
    PROVE  /\ DiskSound' /\ DiskStep
           /\ (n = Root => inode' = inode /\ top' = [top EXCEPT ![ws.name] = None])
           /\ (n # Root => top' = top /\ \A i \in 1..WInodes : i # Found(n) => inode'[i].links = inode[i].links)
<1>1. CASE n = Root
  <2>1. inode' = inode /\ nextInode' = nextInode /\ top' = [top EXCEPT ![ws.name] = None]
    BY <1>1 DEF Unlink
  <2>2. DiskStep
    <3>1. nextInode \in Nat /\ nextInode <= nextInode
      BY WorkspaceShape DEF DiskSound
    <3> QED BY <2>1, <3>1 DEF DiskStep, DiskSound
  <2>3. top' \in [1..WNames -> WLinks] /\ \A m \in 1..WNames : top'[m] # None => top'[m] < nextInode'
    <3>1. \A m \in 1..WNames : top[m] \in WLinks /\ top'[m] = IF m = ws.name THEN None ELSE top[m]
      BY <2>1 DEF DiskSound
    <3>2. top' \in [1..WNames -> WLinks]
      BY <2>1 DEF DiskSound, WLinks
    <3> QED BY <2>1, <3>1, <3>2 DEF DiskSound
  <2>4. DiskSound'
    BY <2>1, <2>2, <2>3, DiskMoves DEF DiskSound
  <2> QED BY <1>1, <2>1, <2>2, <2>4
<1>2. CASE n # Root
  <2> DEFINE d == DirOf(n)  f == Found(n)
             mid == [inode EXCEPT ![f].links = @ - 1]
  <2>0. n \in WKids /\ d \in 1..WInodes /\ f \in 1..WInodes /\ f < nextInode
    BY <1>2 DEF WNodes, WKids
  <2>1. inode' = [mid EXCEPT ![d].kids[n] = None] /\ UNCHANGED <<nextInode, top>>
    BY <1>2 DEF Unlink
  <2> HIDE DEF d, f
  <2>2. /\ mid \in [1..WInodes -> InodeRow]
        /\ \A i \in 1..WInodes : mid[i].by = inode[i].by /\ mid[i].kind = inode[i].kind /\ mid[i].kids = inode[i].kids
                                 /\ (i # f => mid[i].links = inode[i].links)
    BY <2>0 DEF DiskSound, InodeRow
  <2> HIDE DEF mid
  <2>3. /\ inode' \in [1..WInodes -> InodeRow]
        /\ \A i \in 1..WInodes : inode'[i].by = mid[i].by /\ inode'[i].kind = mid[i].kind /\ inode'[i].links = mid[i].links
                                 /\ \A e \in WKids : inode'[i].kids[e] = mid[i].kids[e] \/ inode'[i].kids[e] = None
    <3> DEFINE r == [mid[d] EXCEPT !.kids[n] = None]
    <3>1. inode' = [mid EXCEPT ![d] = r]
      BY <2>0, <2>1, <2>2
    <3>2. r \in InodeRow /\ r.by = mid[d].by /\ r.kind = mid[d].kind /\ r.links = mid[d].links
          /\ r.kids = [mid[d].kids EXCEPT ![n] = None] /\ mid[d].kids \in [WKids -> WLinks]
      BY <2>0, <2>2 DEF InodeRow, WLinks
    <3> HIDE DEF r
    <3>3. \A e \in WKids : r.kids[e] = mid[d].kids[e] \/ r.kids[e] = None
      BY <3>2
    <3>4. inode' \in [1..WInodes -> InodeRow] /\ \A i \in 1..WInodes : inode'[i] = IF i = d THEN r ELSE mid[i]
      BY <2>0, <2>2, <3>1, <3>2
    <3> QED BY <3>2, <3>3, <3>4
  <2>4. DiskStep
    <3>1. nextInode \in Nat /\ nextInode <= nextInode
      BY WorkspaceShape DEF DiskSound
    <3> QED BY <2>0, <2>1, <2>2, <2>3, <3>1 DEF DiskStep, DiskSound
  <2>5. \A j \in 1..WInodes : \A e \in WKids : inode'[j].kids[e] = inode[j].kids[e] \/ KidOk(inode'[j].kids[e], inode', nextInode')
    BY <2>2, <2>3 DEF KidOk
  <2>6. DiskSound'
    BY <2>1, <2>3, <2>4, <2>5, DiskMoves DEF DiskSound
  <2> QED BY <1>2, <2>1, <2>2, <2>3, <2>4, <2>6 DEF f
<1> QED BY <1>1, <1>2

\* A new inode takes the place of what a name in a directory led to.
NewFile(row) == row \in InodeRow /\ row.kind = "file" /\ row.kids = NoKids
SameRows(mid) ==
    /\ mid \in [1..WInodes -> InodeRow]
    /\ \A i \in 1..WInodes : /\ mid[i].by = inode[i].by /\ mid[i].kind = inode[i].kind /\ mid[i].kids = inode[i].kids
                             /\ (i < nextInode \/ mid[i].links = inode[i].links)
Swaps(d, e, row, mid) ==
    /\ nextInode <= WInodes /\ nextInode' = nextInode + 1 /\ UNCHANGED top
    /\ inode' = [mid EXCEPT ![d].kids[e] = nextInode, ![nextInode] = row]

LEMMA SwapKeeps ==
    ASSUME DiskSound, NEW d \in 1..WInodes, d < nextInode, NEW e \in WKids, NEW row, NewFile(row), NEW mid, SameRows(mid), Swaps(d, e, row, mid)
    PROVE  DiskSound' /\ DiskStep
<1> USE DEF NewFile, SameRows, Swaps
<1>12. nextInode \in Nat /\ WInodes \in Nat /\ WNames \in Nat /\ 1 <= nextInode
  BY WorkspaceShape DEF DiskSound
<1> DEFINE r == [mid[d] EXCEPT !.kids[e] = nextInode]
<1>0. nextInode \in 1..WInodes /\ d # nextInode
  BY <1>12
<1>1. inode' = [mid EXCEPT ![d] = r, ![nextInode] = row]
  BY <1>0
<1>2. r \in InodeRow /\ r.by = mid[d].by /\ r.kind = mid[d].kind
        /\ r.kids = [mid[d].kids EXCEPT ![e] = nextInode] /\ mid[d].kids \in [WKids -> WLinks]
  BY <1>0 DEF InodeRow, WLinks
<1> HIDE DEF r
<1>3. \A x \in WKids : r.kids[x] = mid[d].kids[x] \/ r.kids[x] = nextInode
  BY <1>2
<1>4. /\ inode' \in [1..WInodes -> InodeRow] /\ inode'[nextInode] = row /\ inode'[d] = r
      /\ \A i \in 1..WInodes : i # d /\ i # nextInode => inode'[i] = mid[i]
  BY <1>0, <1>1, <1>2
<1>5. DiskStep
  BY <1>12, <1>2, <1>4 DEF DiskStep
<1>6. KidOk(nextInode, inode', nextInode')
  BY <1>12, <1>4 DEF KidOk
<1>7. \A i \in 1..WInodes : \A x \in WKids : inode'[i].kids[x] = inode[i].kids[x] \/ KidOk(inode'[i].kids[x], inode', nextInode')
  <2>1. \A x \in WKids : KidOk(row.kids[x], inode', nextInode')
    BY DEF KidOk, NoKids
  <2> SUFFICES ASSUME NEW i \in 1..WInodes, NEW x \in WKids
               PROVE  inode'[i].kids[x] = inode[i].kids[x] \/ KidOk(inode'[i].kids[x], inode', nextInode')
    OBVIOUS
  <2>2. CASE i = nextInode
    BY <1>4, <2>1, <2>2
  <2>3. CASE i = d /\ i # nextInode
    <3>1. r.kids[x] = inode[i].kids[x] \/ r.kids[x] = nextInode
      BY <1>3, <2>3
    <3> QED BY <1>4, <1>6, <2>3, <3>1
  <2>4. CASE i # d /\ i # nextInode
    BY <1>4, <2>4
  <2> QED BY <2>2, <2>3, <2>4
<1>8. top' \in [1..WNames -> WLinks] /\ \A m \in 1..WNames : top'[m] # None => top'[m] < nextInode'
  <2>1. \A m \in 1..WNames : top[m] # None => top[m] \in Nat /\ top[m] < nextInode
    BY <1>12 DEF DiskSound, WLinks
  <2> QED BY <1>12, <2>1 DEF DiskSound
<1>9. nextInode' \in 1..(WInodes + 1)
  BY <1>12
<1> QED BY <1>4, <1>5, <1>7, <1>8, <1>9, DiskMoves

\* What another process does.
LEMMA MeddleKeeps ==
    ASSUME DiskSound, meddle
    PROVE  /\ DiskSound' /\ DiskStep
           /\ \A n \in 1..WNames : top[n] # None => top'[n] = top[n]
           /\ \A n \in 1..WNames : top'[n] # top[n] => inode'[top'[n]].by = 0 /\ top'[n] # None
<1>0. nextInode \in Nat /\ WInodes \in Nat /\ WNames \in Nat /\ 1 <= nextInode
  BY WorkspaceShape DEF DiskSound
<1>1. ASSUME NEW n \in 1..WNames, top[n] = None, nextInode <= WInodes, top' = [top EXCEPT ![n] = nextInode], nextInode' = nextInode + 1,
             inode' = [inode EXCEPT ![nextInode] = [NoInode EXCEPT !.kind = "dir", !.mode = "700", !.links = 1]]
      PROVE  /\ DiskSound' /\ DiskStep
             /\ \A m \in 1..WNames : top[m] # None => top'[m] = top[m]
             /\ \A m \in 1..WNames : top'[m] # top[m] => inode'[top'[m]].by = 0 /\ top'[m] # None
  <2> DEFINE row == [NoInode EXCEPT !.kind = "dir", !.mode = "700", !.links = 1]
  <2>0. nextInode \in 1..WInodes
    BY <1>0, <1>1
  <2>1. row \in InodeRow /\ row.by = 0 /\ row.kids = NoKids /\ nextInode \in 1..WInodes
    <3>1. row \in InodeRow /\ row.by = 0 /\ row.kids = NoKids
      BY NoInodeRow DEF InodeRow
    <3> QED BY <2>0, <3>1
  <2> HIDE DEF row
  <2>2. /\ inode' \in [1..WInodes -> InodeRow] /\ inode'[nextInode] = row /\ \A i \in 1..WInodes : i # nextInode => inode'[i] = inode[i]
    BY <1>1, <2>1 DEF DiskSound, row
  <2>3. DiskStep
    BY <1>0, <1>1, <2>2 DEF DiskStep
  <2>4. \A m \in 1..WNames : top'[m] = IF m = n THEN nextInode ELSE top[m]
    BY <1>1 DEF DiskSound
  <2>5. top' \in [1..WNames -> WLinks] /\ \A m \in 1..WNames : top'[m] # None => top'[m] < nextInode'
    <3>1. \A m \in 1..WNames : top[m] # None => top[m] \in Nat /\ top[m] < nextInode
      BY <1>0 DEF DiskSound, WLinks
    <3>2. top' \in [1..WNames -> WLinks]
      BY <1>1, <2>1 DEF DiskSound, WLinks
    <3> QED BY <1>0, <1>1, <2>4, <3>1, <3>2
  <2>6. \A i \in 1..WInodes : \A e \in WKids : inode'[i].kids[e] = inode[i].kids[e] \/ KidOk(inode'[i].kids[e], inode', nextInode')
    BY <2>1, <2>2 DEF KidOk, NoKids
  <2>7. DiskSound'
    <3>1. nextInode' \in 1..(WInodes + 1)
      BY <1>0, <1>1
    <3> QED BY <2>2, <2>3, <2>5, <2>6, <3>1, DiskMoves
  <2> QED BY <1>1, <2>1, <2>2, <2>3, <2>4, <2>7, WorkspaceAbsent
<1>3. ASSUME NEW d \in Reachable PROVE d \in 1..WInodes /\ d < nextInode
  BY <1>3 DEF Reachable, DiskSound, WLinks
<1>4. CASE \E n \in 1..WNames : top[n] = None /\ nextInode <= WInodes
             /\ top' = [top EXCEPT ![n] = nextInode] /\ nextInode' = nextInode + 1
             /\ inode' = [inode EXCEPT ![nextInode] = [NoInode EXCEPT !.kind = "dir", !.mode = "700", !.links = 1]]
  BY <1>1, <1>4
<1>5. ASSUME NEW d \in Reachable, NEW e \in Entries, inode[d].kids[e] # None, nextInode <= WInodes,
             inode' = [inode EXCEPT ![inode[d].kids[e]].links = @ - 1, ![d].kids[e] = nextInode,
                                       ![nextInode] = [NoInode EXCEPT !.kind = "file", !.content = "other", !.mode = inode[inode[d].kids[e]].mode, !.links = 1]],
             nextInode' = nextInode + 1, UNCHANGED top
      PROVE  DiskSound' /\ DiskStep
  <2> DEFINE k == inode[d].kids[e]
             row == [NoInode EXCEPT !.kind = "file", !.content = "other", !.mode = inode[k].mode, !.links = 1]
             mid == [inode EXCEPT ![k].links = @ - 1]
  <2>0. d \in 1..WInodes /\ d < nextInode /\ e \in WKids
    BY <1>3, <1>5 DEF WKids
  <2>1. k \in 1..WInodes /\ k < nextInode
    BY <1>5, <2>0 DEF DiskSound, InodeRow, WLinks, KidOk
  <2>2. inode' = [mid EXCEPT ![d].kids[e] = nextInode, ![nextInode] = row]
    BY <1>5
  <2> HIDE DEF k
  <2>3. row \in InodeRow /\ row.kind = "file" /\ row.kids = NoKids
    <3>1. inode[k].mode \in {None, "700", "600", "400"}
      BY <2>1 DEF DiskSound, InodeRow
    <3> QED BY <3>1, NoInodeRow DEF InodeRow
  <2>4. mid \in [1..WInodes -> InodeRow]
        /\ \A i \in 1..WInodes : /\ mid[i].by = inode[i].by /\ mid[i].kind = inode[i].kind /\ mid[i].kids = inode[i].kids
                                 /\ (i < nextInode \/ mid[i].links = inode[i].links)
    BY <2>1 DEF DiskSound, InodeRow
  <2> HIDE DEF row, mid
  <2>5. NewFile(row) /\ SameRows(mid) /\ Swaps(d, e, row, mid)
    BY <1>5, <2>2, <2>3, <2>4 DEF NewFile, SameRows, Swaps
  <2> QED BY <2>0, <2>5, SwapKeeps
<1>6. ASSUME NEW i \in 1..(nextInode - 1), \/ inode' = [inode EXCEPT ![i].content = "other"]
                                           \/ inode' = [inode EXCEPT ![i].links = @ + 1], UNCHANGED <<nextInode, top>>
      PROVE  DiskSound' /\ DiskStep
  <2>1. i \in 1..WInodes /\ i < nextInode
    BY <1>0, <1>6 DEF DiskSound
  <2>2. PICK r \in InodeRow : inode' = [inode EXCEPT ![i] = r] /\ r.by = inode[i].by /\ r.kind = inode[i].kind /\ r.kids = inode[i].kids
    <3>1. CASE inode' = [inode EXCEPT ![i].content = "other"]
      <4> DEFINE r == [inode[i] EXCEPT !.content = "other"]
      <4>1. inode' = [inode EXCEPT ![i] = r] /\ r \in InodeRow /\ r.by = inode[i].by /\ r.kind = inode[i].kind /\ r.kids = inode[i].kids
        BY <2>1, <3>1 DEF DiskSound, InodeRow
      <4> HIDE DEF r
      <4> QED BY <4>1
    <3>2. CASE inode' = [inode EXCEPT ![i].links = @ + 1]
      <4> DEFINE r == [inode[i] EXCEPT !.links = @ + 1]
      <4>1. inode' = [inode EXCEPT ![i] = r] /\ r \in InodeRow /\ r.by = inode[i].by /\ r.kind = inode[i].kind /\ r.kids = inode[i].kids
        BY <2>1, <3>2 DEF DiskSound, InodeRow
      <4> HIDE DEF r
      <4> QED BY <4>1
    <3> QED BY <1>6, <3>1, <3>2
  <2> QED BY <1>6, <2>1, <2>2, RowChanges
<1>7. ASSUME NEW d \in Reachable, nextInode <= WInodes,
             inode' = [inode EXCEPT ![d].kids["stray"] = nextInode, ![nextInode] = [NoInode EXCEPT !.kind = "file", !.links = 1]],
             nextInode' = nextInode + 1, UNCHANGED top
      PROVE  DiskSound' /\ DiskStep
  <2> DEFINE row == [NoInode EXCEPT !.kind = "file", !.links = 1]  mid == inode
  <2>0. d \in 1..WInodes /\ d < nextInode /\ "stray" \in WKids
    BY <1>3, <1>7 DEF WKids
  <2>1. row \in InodeRow /\ row.kind = "file" /\ row.kids = NoKids
    BY NoInodeRow DEF InodeRow
  <2>2. mid \in [1..WInodes -> InodeRow] /\ \A i \in 1..WInodes : mid[i] = inode[i]
    BY DEF DiskSound
  <2>3. inode' = [mid EXCEPT ![d].kids["stray"] = nextInode, ![nextInode] = row]
    BY <1>7
  <2> HIDE DEF row, mid
  <2>4. NewFile(row) /\ SameRows(mid) /\ Swaps(d, "stray", row, mid)
    BY <1>7, <2>1, <2>2, <2>3 DEF NewFile, SameRows, Swaps
  <2> QED BY <2>0, <2>4, SwapKeeps
<1>8. ASSUME UNCHANGED top PROVE (\A n \in 1..WNames : top[n] # None => top'[n] = top[n]) /\ \A n \in 1..WNames : top'[n] = top[n]
  BY <1>8
<1> QED BY <1>4, <1>5, <1>6, <1>7, <1>8 DEF meddle


-----------------------------------------------------------------------------
(* The workspace.                                                          *)

\* What it knows are inodes of its own; the name of a subdirectory may lead to a
\* file of somebody else, never to a directory of somebody else.
KnownOk(known, s, ino, next) ==
    \A n \in WNodes : known[n] # None =>
        /\ known[n] < next
        /\ n \in WFiles \cup {Root} => ino[known[n]].by = s
        /\ ino[known[n]].kind = "dir" => ino[known[n]].by # 0

\* How far populate has come.
PlaceOk(q) ==
    /\ q.fds \subseteq WDirs \cup {Root} /\ \A n \in q.fds : q.known[n] # None
    /\ q.at # "cleanup" => q.step \in 1..Len(WOrder) /\ ~q.failed
    /\ q.at # "cleanup" => \A k \in 1..Len(WOrder) : k < q.step =>
          q.known[WOrder[k]] # None /\ (WOrder[k] \in WFiles => q.reader[WOrder[k]] # None)
    /\ q.at \in {"open", "write", "preopen", "seal", "next", "ready"} => q.known[WOrder[q.step]] # None
    /\ q.at \in {"seal", "next", "ready"} /\ WOrder[q.step] \in WFiles => q.reader[WOrder[q.step]] # None
    /\ q.at \in {"mkdir", "stat", "open"} => WOrder[q.step] \notin WFiles
    /\ q.at \in {"file", "write", "preopen", "seal"} => WOrder[q.step] \in WFiles
    /\ q.at \in {"write", "preopen", "seal"} => q.writer \in 1..WInodes
    /\ q.at = "mkdir" /\ q.step = 1 => q.made = <<>>
    /\ q.at = "ready" => q.step = Len(WOrder)

\* The root that was just made is under its name.
StatOk(q, tops, ino) ==
    q.at = "stat" /\ WOrder[q.step] = Root => tops[q.name] # None /\ ino[tops[q.name]].by = q.serial

\* The root is still to be removed, or could not be.
OwnTop(q) == q.failed \/ \E k \in 1..Len(q.made) : q.made[k] = Root

WorkOk(q) ==
    /\ q \in WorkspaceRow /\ q.serial = serial
    /\ PlaceOk(q) /\ KnownOk(q.known, q.serial, inode, nextInode) /\ StatOk(q, top, inode)

PermitSound ==
    /\ permit \in {"free", "active", "poisoned"} /\ (permit = "active" <=> ws # None)
    /\ serial \in 0..WSpaces /\ (ws # None => serial # 0)
    /\ meddled \in Nat /\ crashes \in Nat

WorkSound == ws # None => WorkOk(ws)

TopsSound ==
    \A n \in 1..WNames : top[n] # None =>
        \/ inode[top[n]].by = 0 \/ crashes > 0 \/ permit = "poisoned"
        \/ ws # None /\ n = ws.name /\ OwnTop(ws)

SnapsSound ==
    /\ snaps \subseteq Snapshot /\ IsFiniteSet(snaps)
    /\ \A s \in snaps : /\ s.serial <= serial /\ s.nth = 0 /\ (s.ok => s.original)
                        /\ (ws # None /\ ~ws.read => s.serial # ws.serial)

WorkspaceInv == DiskSound /\ PermitSound /\ WorkSound /\ TopsSound /\ SnapsSound

\* preflight_layout bounds what is open at any time.
LEMMA DescriptorsBounded ==
    ASSUME NEW fds \in SUBSET (WDirs \cup {Root}), NEW readers \in SUBSET WFiles, NEW w \in {0, 1}
    PROVE  1 + Cardinality(fds) + Cardinality(readers) + w <= preflight_layout
<1> DEFINE D == {f \in WFiles : Depth(f) = 1}
           g == [f \in D |-> WParent[f]]
<1>1. IsFiniteSet(WFiles) /\ IsFiniteSet(WDirs) /\ IsFiniteSet(D) /\ IsFiniteSet(readers) /\ D \subseteq WFiles
  BY WorkspaceLayout, FS_Subset
<1>2. g \in Surjection(D, WDirs)
  <2>1. \A f \in D : WParent[f] \in WDirs
    BY WorkspaceShape DEF Depth
  <2>2. \A d \in WDirs : \E f \in D : WParent[f] = d
    BY WorkspaceLayout DEF Depth, Entries
  <2> QED BY <2>1, <2>2 DEF Surjection
<1> HIDE DEF D, g
<1>3. Cardinality(WDirs) <= Cardinality(D)
  BY <1>1, <1>2, FS_Surjection
<1>4. Cardinality(readers) <= Cardinality(WFiles)
  BY <1>1, FS_Subset
<1>5. IsFiniteSet(WDirs \cup {Root}) /\ Cardinality(WDirs \cup {Root}) <= Cardinality(WDirs) + 1
  <2>1. Root \notin WDirs
    BY WorkspaceLayout DEF Entries
  <2>2. IsFiniteSet(WDirs \cup {Root}) /\ Cardinality(WDirs \cup {Root}) = Cardinality(WDirs) + 1 /\ Cardinality(WDirs) \in Nat
    BY <1>1, <2>1, FS_AddElement, FS_CardinalityType
  <2> QED BY <2>2
<1>6. IsFiniteSet(fds) /\ Cardinality(fds) <= Cardinality(WDirs \cup {Root})
  BY <1>5, FS_Subset
<1>7. /\ Cardinality(fds) \in Nat /\ Cardinality(readers) \in Nat /\ Cardinality(WDirs) \in Nat /\ Cardinality(D) \in Nat
      /\ Cardinality(WFiles) \in Nat /\ Cardinality(WDirs \cup {Root}) \in Nat
  BY <1>1, <1>5, <1>6, FS_CardinalityType
<1>8. preflight_layout = 1 + 1 + Cardinality(D) + Cardinality(WFiles) + 1
  BY DEF preflight_layout, D
<1> QED BY <1>3, <1>4, <1>5, <1>6, <1>7, <1>8

LEMMA WorkspaceInvIsSafe == WorkspaceInv => WorkspaceSafe
<1> SUFFICES ASSUME WorkspaceInv PROVE WorkspaceSafe
  OBVIOUS
<1>1. WorkspaceTypeOK
  <2>1. ws # None => ValidWorkspace
    <3> SUFFICES ASSUME ws # None PROVE ValidWorkspace
      OBVIOUS
    <3>1. ws \in WorkspaceRow /\ ws.serial = serial /\ PlaceOk(ws)
      BY DEF WorkspaceInv, WorkSound, WorkOk
    <3>2. ws.fds \in SUBSET (WDirs \cup {Root})
      BY <3>1 DEF PlaceOk
    <3> DEFINE R == {f \in WFiles : ws.reader[f] # None}
               w == IF ws.writer = None THEN 0 ELSE 1
    <3>3. R \in SUBSET WFiles /\ w \in {0, 1}
      OBVIOUS
    <3>4. LiveDescriptors = 1 + Cardinality(ws.fds) + Cardinality(R) + w
      BY DEF LiveDescriptors
    <3> HIDE DEF R, w
    <3>5. LiveDescriptors <= preflight_layout
      BY <3>2, <3>3, <3>4, DescriptorsBounded
    <3> QED BY <3>1, <3>5 DEF ValidWorkspace, WorkspaceRow, WLinks
  <2> QED BY <2>1 DEF WorkspaceInv, PermitSound, SnapsSound, WorkspaceTypeOK
<1>2. SnapshotIsOriginal /\ ReadAtMostOnce
  BY DEF WorkspaceInv, SnapsSound, SnapshotIsOriginal, ReadAtMostOnce
<1>3. FreeMeansGone
  <2> SUFFICES ASSUME permit = "free", crashes = 0, NEW n \in 1..WNames, top[n] # None PROVE inode[top[n]].by = 0
    BY DEF FreeMeansGone, Reachable
  <2>1. ws = None /\ ~(crashes > 0)
    BY DEF WorkspaceInv, PermitSound
  <2> QED BY <2>1 DEF WorkspaceInv, TopsSound
<1> QED BY <1>1, <1>2, <1>3 DEF WorkspaceSafe

LEMMA WorkspaceInvInit == workspace_init => WorkspaceInv
<1> SUFFICES ASSUME workspace_init PROVE WorkspaceInv
  OBVIOUS
<1> USE DEF workspace_init
<1>1. DiskSound
  <2>1. \A e \in WKids : NoInode.kids[e] = None
    BY NoInodeRow DEF NoKids
  <2>2. inode \in [1..WInodes -> InodeRow] /\ nextInode \in 1..(WInodes + 1) /\ top \in [1..WNames -> WLinks]
    BY NoInodeRow, WorkspaceShape DEF WLinks
  <2>3. \A i \in 1..WInodes : inode[i] = NoInode
    OBVIOUS
  <2>4. \A n \in 1..WNames : top[n] = None
    OBVIOUS
  <2>5. NoInode.links = 0
    BY DEF NoInode
  <2> QED BY <2>1, <2>2, <2>3, <2>4, <2>5 DEF DiskSound, KidOk
<1>2. PermitSound
  BY WorkspaceShape DEF PermitSound
<1>3. WorkSound /\ TopsSound
  BY DEF WorkSound, TopsSound
<1>4. SnapsSound
  BY FS_EmptySet DEF SnapsSound
<1> QED BY <1>1, <1>2, <1>3, <1>4 DEF WorkspaceInv

-----------------------------------------------------------------------------
(* What every step preserves.                                              *)

LEMMA KnownStays ==
    ASSUME DiskSound, DiskStep, NEW known \in [WNodes -> WLinks], NEW s, KnownOk(known, s, inode, nextInode)
    PROVE  KnownOk(known, s, inode', nextInode')
<1> SUFFICES ASSUME NEW n \in WNodes, known[n] # None
             PROVE  /\ known[n] < nextInode'
                    /\ n \in WFiles \cup {Root} => inode'[known[n]].by = s
                    /\ inode'[known[n]].kind = "dir" => inode'[known[n]].by # 0
  BY DEF KnownOk
<1> DEFINE k == known[n]
<1>1. k \in 1..WInodes /\ k < nextInode /\ nextInode \in Nat
  BY DEF WLinks, KnownOk, DiskSound
<1>2. inode'[k].by = inode[k].by /\ inode'[k].kind = inode[k].kind
  BY <1>1 DEF DiskStep
<1>3. nextInode <= nextInode' /\ nextInode' \in Nat
  BY <1>1 DEF DiskStep
<1>4. k < nextInode'
  BY <1>1, <1>3
<1>5. /\ n \in WFiles \cup {Root} => inode[k].by = s
      /\ inode[k].kind = "dir" => inode[k].by # 0
  BY DEF KnownOk
<1> QED BY <1>2, <1>4, <1>5

LEMMA TopsStay ==
    ASSUME DiskSound, DiskStep, TopsSound, top' = top, UNCHANGED <<permit, crashes>>, ws # None,
           NEW n, ws' = n, n # None, n.name = ws.name, OwnTop(ws) => OwnTop(n)
    PROVE  TopsSound'
<1> SUFFICES ASSUME NEW m \in 1..WNames, top[m] # None
             PROVE  inode'[top[m]].by = 0 \/ crashes > 0 \/ permit = "poisoned" \/ (m = n.name /\ OwnTop(n))
  BY DEF TopsSound
<1>1. top[m] \in 1..WInodes /\ top[m] < nextInode
  BY DEF DiskSound, WLinks
<1>2. inode'[top[m]].by = inode[top[m]].by
  BY <1>1 DEF DiskStep
<1> QED BY <1>2 DEF TopsSound

\* The state moves on, the permit and the snapshots stay.
LEMMA WorkGoes ==
    ASSUME WorkspaceInv, ws # None, NEW n \in WorkspaceRow, ws' = n, n.serial = ws.serial, n.read = ws.read,
           PlaceOk(n), KnownOk(n.known, n.serial, inode', nextInode'), StatOk(n, top', inode'),
           UNCHANGED <<permit, snaps, serial, meddled, crashes>>, DiskSound', TopsSound'
    PROVE  WorkspaceInv'
<1>1. n # None /\ ws.serial = serial
  BY WorkspaceAbsent DEF WorkspaceInv, WorkSound, WorkOk
<1>2. WorkSound'
  BY <1>1 DEF WorkSound, WorkOk
<1>3. PermitSound'
  BY <1>1 DEF WorkspaceInv, PermitSound
<1>4. SnapsSound'
  BY <1>1 DEF WorkspaceInv, SnapsSound
<1> QED BY <1>2, <1>3, <1>4 DEF WorkspaceInv

\* A step that leaves the disk and what is known and made.
LEMMA WorkWalks ==
    ASSUME WorkspaceInv, ws # None, NEW n \in WorkspaceRow, Moves(n), UNCHANGED wdisk, n.serial = ws.serial, n.read = ws.read,
           PlaceOk(n), n.known = ws.known, n.name = ws.name, n.made = ws.made, n.failed = ws.failed, StatOk(n, top, inode)
    PROVE  WorkspaceInv'
<1>1. DiskSound' /\ DiskStep
  BY DiskStays DEF WorkspaceInv
<1>2. ws \in WorkspaceRow /\ KnownOk(ws.known, ws.serial, inode, nextInode)
  BY DEF WorkspaceInv, WorkSound, WorkOk
<1>3. KnownOk(n.known, n.serial, inode', nextInode') /\ StatOk(n, top', inode')
  BY <1>2 DEF wdisk
<1>4. n # None /\ ws' = n /\ UNCHANGED <<permit, snaps, serial, meddled, crashes>> /\ top' = top
  BY WorkspaceAbsent DEF Moves, wdisk
<1>5. OwnTop(ws) => OwnTop(n)
  BY DEF OwnTop
<1>6. TopsSound'
  BY <1>1, <1>4, <1>5, TopsStay DEF WorkspaceInv
<1> QED BY <1>1, <1>3, <1>4, <1>6, WorkGoes

LEMMA FailingKeeps ==
    ASSUME WorkspaceInv, ws # None, Failing
    PROVE  WorkspaceInv'
<1> DEFINE n == [ws EXCEPT !.at = "cleanup", !.writer = None]
<1>1. ws \in WorkspaceRow /\ PlaceOk(ws)
  BY DEF WorkspaceInv, WorkSound, WorkOk
<1>2. /\ n \in WorkspaceRow /\ n.at = "cleanup" /\ n.serial = ws.serial /\ n.read = ws.read /\ n.known = ws.known
      /\ n.name = ws.name /\ n.made = ws.made /\ n.failed = ws.failed /\ n.fds = ws.fds
  BY <1>1 DEF WorkspaceRow, WPlaces, WLinks
<1>3. Moves(n) /\ UNCHANGED wdisk
  BY DEF Failing, fail, Moves
<1> HIDE DEF n
<1>4. PlaceOk(n) /\ StatOk(n, top, inode)
  BY <1>1, <1>2 DEF PlaceOk, StatOk
<1> QED BY <1>2, <1>3, <1>4, WorkWalks

\* The entry populate is at, its directory and what its name leads to.
LEMMA CurrentOk ==
    ASSUME WorkspaceInv, ws # None, ws.at # "cleanup"
    PROVE  /\ Current \in WNodes /\ ws.step \in 1..Len(WOrder) /\ Len(WOrder) \in Nat /\ ~ws.failed
           /\ (Current = Root <=> ws.step = 1)
           /\ (Current # Root => DirOf(Current) \in 1..WInodes /\ DirOf(Current) < nextInode /\ Current \in WKids)
           /\ Found(Current) \in WLinks
           /\ (Found(Current) # None => Found(Current) < nextInode)
           /\ (Found(Current) # None /\ Current # Root => KidOk(Found(Current), inode, nextInode))
<1>1. ws \in WorkspaceRow /\ PlaceOk(ws) /\ KnownOk(ws.known, ws.serial, inode, nextInode) /\ DiskSound
  BY DEF WorkspaceInv, WorkSound, WorkOk
<1>2. ws.step \in 1..Len(WOrder) /\ ~ws.failed /\ Len(WOrder) \in Nat /\ WOrder \in Seq(WNodes) /\ 1 \in 1..Len(WOrder) /\ WOrder[1] = Root
  <2>1. WOrder \in Seq(WNodes) /\ WOrder # <<>>
    BY WorkspaceLayout
  <2>2. Len(WOrder) \in Nat /\ Len(WOrder) # 0
    BY <2>1
  <2> QED BY <1>1, <2>1, <2>2, WorkspaceLayout DEF PlaceOk
<1>3. Current \in WNodes /\ Current = WOrder[ws.step]
  BY <1>2 DEF Current
<1>4. Current = Root <=> ws.step = 1
  BY <1>2, <1>3, WorkspaceLayout
<1>5. ASSUME Current # Root PROVE DirOf(Current) \in 1..WInodes /\ DirOf(Current) < nextInode /\ Current \in WKids
  <2>1. ws.step \in 2..Len(WOrder)
    BY <1>2, <1>4, <1>5
  <2>2. PICK j \in 1..(ws.step - 1) : WOrder[j] = WParent[Current]
    BY <1>3, <2>1, WorkspaceLayout
  <2>3. j \in 1..Len(WOrder) /\ j < ws.step
    BY <1>2, <2>1, <2>2
  <2>4. ws.known[WParent[Current]] # None /\ WParent[Current] \in WNodes
    BY <1>1, <1>2, <2>2, <2>3 DEF PlaceOk
  <2>5. Current \in WKids
    BY <1>3, <1>5 DEF WNodes, WKids
  <2> QED BY <1>1, <2>4, <2>5 DEF DirOf, KnownOk, WorkspaceRow, WLinks
<1>6. CASE Current = Root
  <2>1. Found(Current) = top[ws.name] /\ ws.name \in 1..WNames
    BY <1>1, <1>6 DEF Found, WorkspaceRow
  <2>2. top[ws.name] \in WLinks /\ (top[ws.name] # None => top[ws.name] < nextInode)
    BY <1>1, <2>1 DEF DiskSound
  <2> QED BY <1>2, <1>3, <1>4, <1>6, <2>1, <2>2
<1>7. CASE Current # Root
  <2> DEFINE d == DirOf(Current)
  <2>1. Found(Current) = inode[d].kids[Current] /\ d \in 1..WInodes /\ Current \in WKids
    BY <1>5, <1>7 DEF Found
  <2> HIDE DEF d
  <2>2. inode[d].kids[Current] \in WLinks /\ KidOk(inode[d].kids[Current], inode, nextInode)
    BY <1>1, <2>1 DEF DiskSound, InodeRow
  <2> QED BY <1>2, <1>3, <1>4, <1>5, <1>7, <2>1, <2>2 DEF KidOk
<1> QED BY <1>6, <1>7

\* Only the root name of the workspace comes or goes.
LEMMA TopsGo ==
    ASSUME DiskSound, DiskStep, TopsSound, UNCHANGED <<permit, crashes>>, ws # None,
           NEW n, ws' = n, n # None, OwnTop(ws) => OwnTop(n) /\ n.name = ws.name,
           \A m \in 1..WNames : top'[m] # top[m] => top'[m] = None \/ (m = n.name /\ OwnTop(n))
    PROVE  TopsSound'
<1> SUFFICES ASSUME NEW m \in 1..WNames, top'[m] # None
             PROVE  inode'[top'[m]].by = 0 \/ crashes > 0 \/ permit = "poisoned" \/ (m = n.name /\ OwnTop(n))
  BY DEF TopsSound
<1>1. CASE top'[m] # top[m]
  BY <1>1
<1>2. CASE top'[m] = top[m]
  <2>1. top[m] \in 1..WInodes /\ top[m] < nextInode
    BY <1>2 DEF DiskSound, WLinks
  <2>2. inode'[top[m]].by = inode[top[m]].by
    BY <2>1 DEF DiskStep
  <2> QED BY <1>2, <2>2 DEF TopsSound
<1> QED BY <1>1, <1>2

LEMMA CreateKeeps ==
    ASSUME WorkspaceInv, NEW c \in WCallers, NEW name \in 1..WNames, create(c, name)
    PROVE  WorkspaceInv'
<1> DEFINE n == NewState(c, name)
<1>0. serial \in Nat /\ serial + 1 \in Nat /\ WSpaces \in Nat /\ serial + 1 \in 0..WSpaces /\ serial + 1 # 0 /\ 1 \in Nat
  BY WorkspaceShape DEF WorkspaceInv, PermitSound, create
<1>1. 1 \in 1..Len(WOrder) /\ WOrder[1] = Root /\ Root \notin WFiles
  <2>1. WOrder \in Seq(WNodes) /\ WOrder # <<>>
    BY WorkspaceLayout
  <2>2. Len(WOrder) \in Nat /\ Len(WOrder) # 0
    BY <2>1
  <2> QED BY <2>2, WorkspaceLayout DEF Entries
<1>2. /\ n \in WorkspaceRow /\ n.serial = serial + 1 /\ n.at = "mkdir" /\ n.step = 1 /\ n.made = <<>> /\ n.fds = {}
      /\ n.failed = FALSE /\ n.read = FALSE /\ n.known = [x \in WNodes |-> None] /\ n.name = name
  <2>1. <<>> \in Seq(WNodes)
    OBVIOUS
  <2>2. [x \in WNodes |-> None] \in [WNodes -> WLinks] /\ [f \in WFiles |-> None] \in [WFiles -> WLinks] /\ None \in WLinks
    BY DEF WLinks
  <2>3. n \in WorkspaceRow
    BY <1>0, <2>1, <2>2 DEF NewState, WorkspaceRow, WPlaces
  <2> QED BY <2>3 DEF NewState
<1>3. ws' = n /\ serial' = serial + 1 /\ permit' = "active" /\ permit = "free" /\ ws = None /\ UNCHANGED <<wdisk, snaps, meddled, crashes>>
  BY DEF create, acquire
<1> HIDE DEF n
<1>4. n # None
  BY <1>2, WorkspaceAbsent
<1>5. DiskSound' /\ top' = top /\ inode' = inode
  BY <1>3, DiskStays DEF WorkspaceInv, wdisk
<1>6. PlaceOk(n)
  <2>1. \A k \in 1..Len(WOrder) : ~(k < 1)
    OBVIOUS
  <2> QED BY <1>1, <1>2, <2>1 DEF PlaceOk
<1>7. KnownOk(n.known, n.serial, inode', nextInode') /\ StatOk(n, top', inode')
  BY <1>2 DEF KnownOk, StatOk
<1>8. WorkSound'
  BY <1>2, <1>3, <1>6, <1>7 DEF WorkSound, WorkOk
<1>9. PermitSound'
  BY <1>0, <1>3, <1>4 DEF WorkspaceInv, PermitSound
<1>10. TopsSound'
  BY <1>3, <1>4, <1>5 DEF WorkspaceInv, TopsSound
<1>11. SnapsSound'
  <2>1. \A s \in snaps : s.serial \in Nat /\ s.serial <= serial /\ s.serial <= serial + 1 /\ s.serial # serial + 1
    BY <1>0 DEF WorkspaceInv, SnapsSound, Snapshot
  <2> QED BY <1>2, <1>3, <2>1 DEF WorkspaceInv, SnapsSound
<1> QED BY <1>5, <1>8, <1>9, <1>10, <1>11 DEF WorkspaceInv

\* An entry is made: its directory, its row and the list of what was made.
LEMMA MadeOk ==
    ASSUME WorkspaceInv, ws # None, NEW x \in WNodes
    PROVE  /\ Append(ws.made, x) \in Seq(WNodes)
           /\ \E k \in 1..Len(Append(ws.made, x)) : Append(ws.made, x)[k] = x
           /\ (\E k \in 1..Len(ws.made) : ws.made[k] = Root) => \E k \in 1..Len(Append(ws.made, x)) : Append(ws.made, x)[k] = Root
<1> DEFINE s == ws.made
<1>1. s \in Seq(WNodes)
  BY DEF WorkspaceInv, WorkSound, WorkOk, WorkspaceRow
<1> HIDE DEF s
<1>2. /\ Append(s, x) \in Seq(WNodes) /\ Len(Append(s, x)) = Len(s) + 1 /\ Append(s, x)[Len(s) + 1] = x /\ Len(s) \in Nat
      /\ \A k \in 1..Len(s) : Append(s, x)[k] = s[k]
  BY <1>1
<1>3. Len(s) + 1 \in 1..Len(Append(s, x)) /\ 1..Len(s) \subseteq 1..Len(Append(s, x))
  BY <1>2
<1> QED BY <1>2, <1>3 DEF s

\* What a step of this process may do to names and links: see RemovesOnlyItsOwn
\* and KeepsForeignFiles.
Gentle ==
    /\ \A m \in 1..WNames : (top[m] # None /\ top'[m] = None) => ws # None /\ inode[top[m]].by = ws.serial
    /\ \A i \in 1..WInodes : inode[i].by # 0 \/ ~(inode'[i].links < inode[i].links)

LEMMA StillIsGentle == ASSUME DiskSound, UNCHANGED wdisk PROVE Gentle
<1>1. \A i \in 1..WInodes : inode[i].links \in Int
  BY DEF DiskSound, InodeRow
<1> QED BY <1>1 DEF Gentle, wdisk

\* populate makes its current entry.
Made(n, kind, mode) ==
    /\ Make(Current, [NoInode EXCEPT !.kind = kind, !.by = ws.serial, !.mode = mode, !.links = 1]) /\ Moves(n)
    /\ n \in WorkspaceRow /\ n.serial = ws.serial /\ n.read = ws.read /\ n.failed = ws.failed /\ n.name = ws.name /\ n.step = ws.step
    /\ n.made = Append(ws.made, Current) /\ PlaceOk(n)
    /\ n.known = ws.known \/ (n.known = [ws.known EXCEPT ![Current] = nextInode] /\ n.at # "stat")

LEMMA MadeKeeps ==
    ASSUME WorkspaceInv, ws # None, ws.at # "cleanup", NEW n, NEW kind \in {"dir", "file"}, NEW mode \in {"700", "600"}, Made(n, kind, mode)
    PROVE  WorkspaceInv' /\ Gentle
<1> DEFINE row == [NoInode EXCEPT !.kind = kind, !.by = ws.serial, !.mode = mode, !.links = 1]
<1>0. /\ DiskSound /\ TopsSound /\ PermitSound /\ ws \in WorkspaceRow /\ ws.serial = serial /\ ws.serial \in Nat /\ ws.serial # 0
      /\ KnownOk(ws.known, ws.serial, inode, nextInode) /\ ws.name \in 1..WNames /\ ws.known \in [WNodes -> WLinks]
  BY DEF WorkspaceInv, WorkSound, WorkOk, PermitSound, WorkspaceRow
<1>1. /\ Current \in WNodes /\ ws.step \in 1..Len(WOrder) /\ ~ws.failed /\ (Current = Root <=> ws.step = 1)
      /\ (Current # Root => DirOf(Current) \in 1..WInodes /\ DirOf(Current) < nextInode)
  BY CurrentOk
<1>2. row \in InodeRow /\ row.by = ws.serial /\ row.kids = NoKids /\ row.links = 1
  BY <1>0, NoInodeRow DEF InodeRow
<1>3. Make(Current, row) /\ Moves(n)
  BY DEF Made
<1> HIDE DEF row
<1>4. /\ DiskSound' /\ DiskStep /\ \A i \in 1..WInodes : ~(inode'[i].links < inode[i].links)
      /\ nextInode \in 1..WInodes /\ nextInode' = nextInode + 1 /\ inode'[nextInode].by = ws.serial
      /\ (Current = Root => top' = [top EXCEPT ![ws.name] = nextInode])
      /\ (Current # Root => top' = top)
  BY <1>0, <1>1, <1>2, <1>3, MakeKeeps
<1>5. nextInode # None /\ nextInode < nextInode' /\ nextInode \in WLinks
  BY <1>4, WorkspaceAbsent, WorkspaceShape DEF WLinks
<1>6. \A m \in 1..WNames : top'[m] # top[m] => Current = Root /\ m = ws.name /\ top'[m] = nextInode
  BY <1>0, <1>4 DEF DiskSound
<1>7. n # None /\ ws' = n /\ UNCHANGED <<permit, snaps, serial, meddled, crashes>> /\ n.name = ws.name /\ n.made = Append(ws.made, Current)
      /\ n \in WorkspaceRow /\ n.serial = ws.serial /\ n.read = ws.read /\ PlaceOk(n) /\ n.failed = ws.failed
  BY WorkspaceAbsent DEF Made, Moves
<1>8. (Current = Root => OwnTop(n)) /\ (OwnTop(ws) => OwnTop(n))
  BY <1>1, <1>7, MadeOk DEF OwnTop
<1>9. TopsSound'
  BY <1>0, <1>4, <1>6, <1>7, <1>8, TopsGo
<1>10. Gentle
  BY <1>4, <1>5, <1>6 DEF Gentle
<1>11. KnownOk(n.known, n.serial, inode', nextInode')
  <2>1. KnownOk(ws.known, ws.serial, inode', nextInode')
    BY <1>0, <1>4, KnownStays
  <2>2. CASE n.known = [ws.known EXCEPT ![Current] = nextInode]
    <3>1. \A x \in WNodes : n.known[x] = IF x = Current THEN nextInode ELSE ws.known[x]
      BY <1>0, <2>2
    <3> QED BY <1>0, <1>4, <1>5, <1>7, <2>1, <3>1 DEF KnownOk
  <2> QED BY <1>7, <2>1, <2>2 DEF Made
<1>12. StatOk(n, top', inode')
  <2> SUFFICES ASSUME n.at = "stat", WOrder[n.step] = Root PROVE top'[n.name] # None /\ inode'[top'[n.name]].by = n.serial
    BY DEF StatOk
  <2>1. WOrder[n.step] = Root => Current = Root
    BY DEF Made, Current
  <2> QED BY <1>0, <1>4, <1>5, <1>7, <2>1 DEF DiskSound
<1>13. WorkspaceInv'
  BY <1>4, <1>7, <1>9, <1>11, <1>12, WorkGoes
<1> QED BY <1>10, <1>13

LEMMA MkdirKeeps == ASSUME WorkspaceInv, mkdirat PROVE WorkspaceInv' /\ Gentle
<1> DEFINE n == [ws EXCEPT !.at = "stat", !.made = Append(@, Current)]
<1>0. ws # None /\ ws.at = "mkdir"
  BY DEF mkdirat
<1>1. ws \in WorkspaceRow /\ PlaceOk(ws)
  BY <1>0 DEF WorkspaceInv, WorkSound, WorkOk
<1>2. Append(ws.made, Current) \in Seq(WNodes)
  BY <1>0, CurrentOk, MadeOk
<1>3. /\ n \in WorkspaceRow /\ n.serial = ws.serial /\ n.read = ws.read /\ n.failed = ws.failed /\ n.name = ws.name /\ n.step = ws.step
      /\ n.made = Append(ws.made, Current) /\ n.known = ws.known /\ n.reader = ws.reader /\ n.fds = ws.fds /\ n.at = "stat"
  BY <1>1, <1>2 DEF WorkspaceRow, WPlaces
<1>4. Make(Current, [NoInode EXCEPT !.kind = "dir", !.by = ws.serial, !.mode = "700", !.links = 1]) /\ Moves(n)
  BY DEF mkdirat
<1> HIDE DEF n
<1>5. PlaceOk(n)
  BY <1>0, <1>1, <1>3 DEF PlaceOk
<1>6. Made(n, "dir", "700")
  BY <1>3, <1>4, <1>5 DEF Made
<1> QED BY <1>0, <1>6, MadeKeeps

LEMMA MkdirUnknownKeeps == ASSUME WorkspaceInv, mkdirat_unknown PROVE WorkspaceInv' /\ Gentle
<1> DEFINE n == [ws EXCEPT !.at = "cleanup", !.made = Append(@, Root)]
<1>0. ws # None /\ ws.at = "mkdir" /\ Current = Root
  BY DEF mkdirat_unknown
<1>1. ws \in WorkspaceRow /\ PlaceOk(ws)
  BY <1>0 DEF WorkspaceInv, WorkSound, WorkOk
<1>2. Append(ws.made, Root) \in Seq(WNodes)
  BY <1>0, CurrentOk, MadeOk
<1>3. /\ n \in WorkspaceRow /\ n.serial = ws.serial /\ n.read = ws.read /\ n.failed = ws.failed /\ n.name = ws.name /\ n.step = ws.step
      /\ n.made = Append(ws.made, Current) /\ n.known = ws.known /\ n.reader = ws.reader /\ n.fds = ws.fds /\ n.at = "cleanup"
  BY <1>0, <1>1, <1>2 DEF WorkspaceRow, WPlaces
<1>4. Make(Current, [NoInode EXCEPT !.kind = "dir", !.by = ws.serial, !.mode = "700", !.links = 1]) /\ Moves(n)
  BY <1>0 DEF mkdirat_unknown
<1> HIDE DEF n
<1>5. PlaceOk(n)
  BY <1>0, <1>1, <1>3 DEF PlaceOk
<1>6. Made(n, "dir", "700")
  BY <1>3, <1>4, <1>5 DEF Made
<1> QED BY <1>0, <1>6, MadeKeeps

LEMMA CreateMemberKeeps == ASSUME WorkspaceInv, create_member PROVE WorkspaceInv' /\ Gentle
<1> DEFINE n == [ws EXCEPT !.at = "write", !.made = Append(@, Current), !.known[Current] = nextInode, !.writer = nextInode]
<1>0. ws # None /\ ws.at = "file"
  BY DEF create_member
<1>1. ws \in WorkspaceRow /\ PlaceOk(ws) /\ DiskSound
  BY <1>0 DEF WorkspaceInv, WorkSound, WorkOk
<1>2. Append(ws.made, Current) \in Seq(WNodes) /\ Current \in WNodes /\ Current = WOrder[ws.step]
  BY <1>0, CurrentOk, MadeOk DEF Current
<1>3. CASE Found(Current) # None
  <2>1. Failing
    BY <1>3 DEF create_member
  <2> QED BY <1>0, <1>1, <2>1, FailingKeeps, StillIsGentle DEF Failing
<1>4. CASE Found(Current) = None
  <2>1. Make(Current, [NoInode EXCEPT !.kind = "file", !.by = ws.serial, !.mode = "600", !.links = 1]) /\ Moves(n)
    BY <1>4 DEF create_member
  <2>2. nextInode \in 1..WInodes /\ nextInode # None /\ nextInode \in WLinks
    BY <1>1, <2>1, WorkspaceAbsent, WorkspaceShape DEF Make, DiskSound, WLinks
  <2>3. /\ n \in WorkspaceRow /\ n.serial = ws.serial /\ n.read = ws.read /\ n.failed = ws.failed /\ n.name = ws.name /\ n.step = ws.step
        /\ n.made = Append(ws.made, Current) /\ n.known = [ws.known EXCEPT ![Current] = nextInode] /\ n.reader = ws.reader /\ n.fds = ws.fds
        /\ n.at = "write" /\ n.writer = nextInode /\ ws.known \in [WNodes -> WLinks]
    BY <1>1, <1>2, <2>2 DEF WorkspaceRow, WPlaces
  <2> HIDE DEF n
  <2>4. \A x \in WNodes : n.known[x] = IF x = Current THEN nextInode ELSE ws.known[x]
    BY <2>3
  <2>5. PlaceOk(n)
    <3>1. \A k \in 1..Len(WOrder) : WOrder[k] \in WNodes
      BY WorkspaceLayout
    <3>2. \A x \in WNodes : ws.known[x] # None => n.known[x] # None
      BY <2>2, <2>4
    <3>3. ws.fds \subseteq WNodes
      BY <1>1 DEF WorkspaceRow
    <3> QED BY <1>0, <1>1, <1>2, <2>2, <2>3, <2>4, <3>1, <3>2, <3>3 DEF PlaceOk
  <2>6. Made(n, "file", "600")
    BY <2>1, <2>3, <2>5 DEF Made
  <2> QED BY <1>0, <2>6, MadeKeeps
<1> QED BY <1>3, <1>4

LEMMA MkdirExistsKeeps == ASSUME WorkspaceInv, mkdirat_exists PROVE WorkspaceInv' /\ Gentle
<1> DEFINE n == [ws EXCEPT !.tries = @ + 1, !.name = @ + 1]
           again == Current = Root /\ ws.tries < WNames /\ ws.name < WNames
<1>0. ws # None /\ ws.at = "mkdir"
  BY DEF mkdirat_exists
<1>1. ws \in WorkspaceRow /\ PlaceOk(ws) /\ DiskSound /\ TopsSound /\ KnownOk(ws.known, ws.serial, inode, nextInode)
  BY <1>0 DEF WorkspaceInv, WorkSound, WorkOk
<1>2. CASE ~again
  <2>1. Failing
    BY <1>2 DEF mkdirat_exists
  <2> QED BY <1>0, <1>1, <2>1, FailingKeeps, StillIsGentle DEF Failing
<1>3. CASE again
  <2>1. Moves(n) /\ UNCHANGED wdisk
    BY <1>3 DEF mkdirat_exists
  <2>2. WNames \in Nat /\ ws.name \in 1..WNames /\ ws.tries \in Nat
    BY <1>1, WorkspaceShape DEF WorkspaceRow
  <2>3. ws.name + 1 \in 1..WNames /\ ws.tries + 1 \in Nat
    BY <1>3, <2>2
  <2>4. /\ n \in WorkspaceRow /\ n.serial = ws.serial /\ n.read = ws.read /\ n.failed = ws.failed /\ n.step = ws.step /\ n.made = ws.made
        /\ n.known = ws.known /\ n.reader = ws.reader /\ n.fds = ws.fds /\ n.at = "mkdir"
    BY <1>0, <1>1, <2>3 DEF WorkspaceRow
  <2> HIDE DEF n
  <2>5. PlaceOk(n) /\ StatOk(n, top', inode')
    BY <1>0, <1>1, <2>4 DEF PlaceOk, StatOk
  <2>6. ~OwnTop(ws)
    <3>1. ws.made = <<>> /\ ~ws.failed
      BY <1>0, <1>1, <1>3, CurrentOk DEF PlaceOk
    <3> QED BY <3>1 DEF OwnTop
  <2>7. DiskSound' /\ DiskStep /\ Gentle
    BY <1>1, <2>1, DiskStays, StillIsGentle
  <2>8. n # None /\ ws' = n /\ UNCHANGED <<permit, snaps, serial, meddled, crashes>> /\ UNCHANGED <<inode, nextInode, top>>
    BY <2>1, <2>4, WorkspaceAbsent DEF Moves, wdisk
  <2>9. TopsSound'
    BY <1>0, <1>1, <2>6, <2>7, <2>8, TopsGo
  <2> QED BY <1>0, <1>1, <2>4, <2>5, <2>7, <2>8, <2>9, WorkGoes
<1> QED BY <1>2, <1>3

LEMMA StatKeeps == ASSUME WorkspaceInv, stat_directory PROVE WorkspaceInv' /\ Gentle
<1> DEFINE n == [ws EXCEPT !.at = "open", !.known[Current] = Found(Current)]
<1>0. ws # None /\ ws.at = "stat"
  BY DEF stat_directory
<1>1. ws \in WorkspaceRow /\ PlaceOk(ws) /\ DiskSound /\ TopsSound /\ KnownOk(ws.known, ws.serial, inode, nextInode) /\ StatOk(ws, top, inode)
  BY <1>0 DEF WorkspaceInv, WorkSound, WorkOk
<1>2. CASE Found(Current) = None
  <2>1. Failing
    BY <1>2 DEF stat_directory
  <2> QED BY <1>0, <1>1, <2>1, FailingKeeps, StillIsGentle DEF Failing
<1>3. CASE Found(Current) # None
  <2> DEFINE f == Found(Current)
  <2>1. Moves(n) /\ UNCHANGED wdisk
    BY <1>3 DEF stat_directory
  <2>2. /\ Current \in WNodes /\ f \in 1..WInodes /\ f \in WLinks /\ f < nextInode
        /\ (Current # Root => KidOk(f, inode, nextInode)) /\ Current = WOrder[ws.step]
    BY <1>0, <1>3, CurrentOk DEF WLinks, Current
  <2>3. Current = Root => inode[f].by = ws.serial
    BY <1>0, <1>1, <2>2 DEF StatOk, Found
  <2>12. Current \notin WFiles
    BY <1>0, <1>1, <2>2 DEF PlaceOk
  <2>13. ws.serial # 0
    BY <1>0 DEF WorkspaceInv, PermitSound, WorkSound, WorkOk
  <2>4. /\ n \in WorkspaceRow /\ n.serial = ws.serial /\ n.read = ws.read /\ n.failed = ws.failed /\ n.step = ws.step /\ n.made = ws.made
        /\ n.known = [ws.known EXCEPT ![Current] = f] /\ n.reader = ws.reader /\ n.fds = ws.fds /\ n.at = "open" /\ n.name = ws.name
        /\ ws.known \in [WNodes -> WLinks]
    BY <1>0, <1>1, <2>2 DEF WorkspaceRow, WPlaces
  <2> HIDE DEF n, f
  <2>5. \A x \in WNodes : n.known[x] = IF x = Current THEN f ELSE ws.known[x]
    BY <2>2, <2>4
  <2>6. f # None
    BY <1>3 DEF f
  <2>7. PlaceOk(n) /\ StatOk(n, top', inode')
    <3>1. \A k \in 1..Len(WOrder) : WOrder[k] \in WNodes
      BY WorkspaceLayout
    <3>2. \A x \in WNodes : ws.known[x] # None => n.known[x] # None
      BY <2>5, <2>6
    <3>3. ws.fds \subseteq WNodes
      BY <1>1 DEF WorkspaceRow
    <3> QED BY <1>0, <1>1, <2>2, <2>4, <2>5, <2>6, <3>1, <3>2, <3>3 DEF PlaceOk, StatOk
  <2>8. KnownOk(n.known, n.serial, inode', nextInode')
    <3>1. KnownOk(n.known, n.serial, inode, nextInode)
      BY <1>1, <2>2, <2>3, <2>4, <2>5, <2>12, <2>13 DEF KnownOk, KidOk
    <3> QED BY <2>1, <3>1 DEF wdisk
  <2>9. DiskSound' /\ DiskStep /\ Gentle
    BY <1>1, <2>1, DiskStays, StillIsGentle
  <2>10. n # None /\ ws' = n /\ UNCHANGED <<permit, snaps, serial, meddled, crashes>> /\ UNCHANGED <<inode, nextInode, top>>
    BY <2>1, <2>4, WorkspaceAbsent DEF Moves, wdisk
  <2>11. TopsSound'
    <3>1. OwnTop(ws) => OwnTop(n)
      BY <2>4 DEF OwnTop
    <3> QED BY <1>0, <1>1, <2>4, <2>9, <2>10, <3>1, TopsGo
  <2> QED BY <1>0, <2>4, <2>7, <2>8, <2>9, <2>10, <2>11, WorkGoes
<1> QED BY <1>2, <1>3

LEMMA OpenKeeps == ASSUME WorkspaceInv, open_directory PROVE WorkspaceInv' /\ Gentle
<1> DEFINE n == [ws EXCEPT !.at = "next", !.fds = @ \cup {Current}]
<1>0. ws # None /\ ws.at = "open" /\ (Failing \/ (Moves(n) /\ UNCHANGED wdisk))
  BY DEF open_directory
<1>1. ws \in WorkspaceRow /\ PlaceOk(ws) /\ DiskSound
  BY <1>0 DEF WorkspaceInv, WorkSound, WorkOk
<1>2. CASE Failing
  BY <1>0, <1>1, <1>2, FailingKeeps, StillIsGentle DEF Failing
<1>3. CASE Moves(n) /\ UNCHANGED wdisk
  <2>1. Current \in WNodes /\ Current = WOrder[ws.step]
    BY <1>0, CurrentOk DEF Current
  <2>2. /\ n \in WorkspaceRow /\ n.serial = ws.serial /\ n.read = ws.read /\ n.failed = ws.failed /\ n.step = ws.step /\ n.made = ws.made
        /\ n.known = ws.known /\ n.reader = ws.reader /\ n.fds = ws.fds \cup {Current} /\ n.at = "next" /\ n.name = ws.name
    BY <1>0, <1>1, <2>1 DEF WorkspaceRow, WPlaces
  <2> HIDE DEF n
  <2>3. Current \in WDirs \cup {Root} /\ ws.known[Current] # None
    BY <1>0, <1>1, <2>1 DEF PlaceOk, WNodes, Entries
  <2>4. PlaceOk(n) /\ StatOk(n, top, inode)
    BY <1>0, <1>1, <2>1, <2>2, <2>3 DEF PlaceOk, StatOk
  <2> QED BY <1>0, <1>1, <1>3, <2>2, <2>4, WorkWalks, StillIsGentle
<1> QED BY <1>0, <1>2, <1>3

LEMMA PreopenKeeps == ASSUME WorkspaceInv, preopen PROVE WorkspaceInv' /\ Gentle
<1> DEFINE n == [ws EXCEPT !.at = "seal", !.reader[Current] = Found(Current)]
<1>0. ws # None /\ ws.at = "preopen" /\ (Failing \/ (Moves(n) /\ UNCHANGED wdisk /\ Found(Current) # None))
  BY DEF preopen
<1>1. ws \in WorkspaceRow /\ PlaceOk(ws) /\ DiskSound
  BY <1>0 DEF WorkspaceInv, WorkSound, WorkOk
<1>2. CASE Failing
  BY <1>0, <1>1, <1>2, FailingKeeps, StillIsGentle DEF Failing
<1>3. CASE Moves(n) /\ UNCHANGED wdisk /\ Found(Current) # None
  <2>1. Current \in WNodes /\ Current = WOrder[ws.step] /\ Found(Current) \in WLinks
    BY <1>0, CurrentOk DEF Current
  <2>2. Current \in WFiles
    BY <1>0, <1>1, <2>1 DEF PlaceOk
  <2>3. /\ n \in WorkspaceRow /\ n.serial = ws.serial /\ n.read = ws.read /\ n.failed = ws.failed /\ n.step = ws.step /\ n.made = ws.made
        /\ n.known = ws.known /\ n.reader = [ws.reader EXCEPT ![Current] = Found(Current)] /\ n.fds = ws.fds /\ n.at = "seal" /\ n.name = ws.name
        /\ n.writer = ws.writer /\ ws.reader \in [WFiles -> WLinks]
    BY <1>0, <1>1, <2>1, <2>2 DEF WorkspaceRow, WPlaces
  <2> HIDE DEF n
  <2>4. n.reader[Current] # None /\ \A f \in WFiles : ws.reader[f] # None => n.reader[f] # None
    BY <1>3, <2>2, <2>3
  <2>5. PlaceOk(n) /\ StatOk(n, top, inode)
    BY <1>0, <1>1, <2>1, <2>3, <2>4 DEF PlaceOk, StatOk
  <2> QED BY <1>0, <1>1, <1>3, <2>3, <2>5, WorkWalks, StillIsGentle
<1> QED BY <1>0, <1>2, <1>3

LEMMA NextEntryKeeps == ASSUME WorkspaceInv, next_entry PROVE WorkspaceInv' /\ Gentle
<1>0. ws # None /\ ws.at = "next" /\ UNCHANGED wdisk
  BY DEF next_entry
<1>1. ws \in WorkspaceRow /\ PlaceOk(ws) /\ DiskSound
  BY <1>0 DEF WorkspaceInv, WorkSound, WorkOk
<1>2. ws.step \in 1..Len(WOrder) /\ Len(WOrder) \in Nat
  BY <1>0, CurrentOk
<1>3. CASE ws.step = Len(WOrder)
  <2> DEFINE n == [ws EXCEPT !.at = "ready"]
  <2>1. Moves(n)
    BY <1>3 DEF next_entry
  <2>2. /\ n \in WorkspaceRow /\ n.serial = ws.serial /\ n.read = ws.read /\ n.failed = ws.failed /\ n.step = ws.step /\ n.made = ws.made
        /\ n.known = ws.known /\ n.reader = ws.reader /\ n.fds = ws.fds /\ n.at = "ready" /\ n.name = ws.name
    BY <1>1 DEF WorkspaceRow, WPlaces
  <2> HIDE DEF n
  <2>3. PlaceOk(n) /\ StatOk(n, top, inode)
    BY <1>0, <1>1, <1>3, <2>2 DEF PlaceOk, StatOk
  <2> QED BY <1>0, <1>1, <2>1, <2>2, <2>3, WorkWalks, StillIsGentle
<1>4. CASE ws.step # Len(WOrder)
  <2> DEFINE p == IF WOrder[ws.step + 1] \in WFiles THEN "file" ELSE "mkdir"
             n == [ws EXCEPT !.step = @ + 1, !.at = p]
  <2>1. Moves(n)
    BY <1>4 DEF next_entry
  <2>2. ws.step + 1 \in Nat /\ ws.step + 1 \in 1..Len(WOrder) /\ ws.step + 1 # 1
    BY <1>2, <1>4
  <2>3. p \in {"file", "mkdir"} /\ p \in WPlaces /\ (p = "file" <=> WOrder[ws.step + 1] \in WFiles)
    BY DEF WPlaces
  <2> HIDE DEF p
  <2>4. /\ n \in WorkspaceRow /\ n.serial = ws.serial /\ n.read = ws.read /\ n.failed = ws.failed /\ n.step = ws.step + 1 /\ n.made = ws.made
        /\ n.known = ws.known /\ n.reader = ws.reader /\ n.fds = ws.fds /\ n.at = p /\ n.name = ws.name
    BY <1>1, <2>2, <2>3 DEF WorkspaceRow
  <2> HIDE DEF n
  <2>5. \A k \in 1..Len(WOrder) : k < ws.step + 1 => k < ws.step \/ k = ws.step
    BY <1>2
  <2>6. PlaceOk(n) /\ StatOk(n, top, inode)
    BY <1>0, <1>1, <2>2, <2>3, <2>4, <2>5 DEF PlaceOk, StatOk
  <2> QED BY <1>0, <1>1, <2>1, <2>4, <2>6, WorkWalks, StillIsGentle
<1> QED BY <1>3, <1>4

\* One row of the disk changes in content or mode alone.
LEMMA RowWalks ==
    ASSUME WorkspaceInv, ws # None, NEW i \in 1..WInodes, NEW r \in InodeRow, inode' = [inode EXCEPT ![i] = r], UNCHANGED <<nextInode, top>>,
           r.by = inode[i].by, r.kind = inode[i].kind, r.links = inode[i].links, r.kids = inode[i].kids,
           NEW n \in WorkspaceRow, Moves(n), n.serial = ws.serial, n.read = ws.read, PlaceOk(n), n.at # "stat",
           n.known = ws.known, n.name = ws.name, n.made = ws.made, n.failed = ws.failed
    PROVE  WorkspaceInv' /\ Gentle
<1>1. DiskSound /\ TopsSound /\ ws \in WorkspaceRow /\ KnownOk(ws.known, ws.serial, inode, nextInode) /\ ws.known \in [WNodes -> WLinks]
  BY DEF WorkspaceInv, WorkSound, WorkOk, WorkspaceRow
<1>2. DiskSound' /\ DiskStep
  BY <1>1, RowChanges
<1>3. \A j \in 1..WInodes : inode'[j].links = inode[j].links /\ inode[j].links \in Int
  BY <1>1 DEF DiskSound, InodeRow
<1>4. Gentle
  BY <1>3 DEF Gentle
<1>5. n # None /\ ws' = n /\ UNCHANGED <<permit, snaps, serial, meddled, crashes>> /\ top' = top
  BY WorkspaceAbsent DEF Moves
<1>6. OwnTop(ws) => OwnTop(n)
  BY DEF OwnTop
<1>7. TopsSound'
  BY <1>1, <1>2, <1>5, <1>6, TopsGo
<1>8. KnownOk(n.known, n.serial, inode', nextInode') /\ StatOk(n, top', inode')
  BY <1>1, <1>2, KnownStays DEF StatOk
<1> QED BY <1>2, <1>4, <1>5, <1>7, <1>8, WorkGoes

LEMMA WriteKeeps == ASSUME WorkspaceInv, write_original PROVE WorkspaceInv' /\ Gentle
<1> DEFINE n == [ws EXCEPT !.at = "preopen"]
           i == ws.writer
           r == [inode[i] EXCEPT !.content = "original"]
<1>0. ws # None /\ ws.at = "write" /\ Moves(n) /\ UNCHANGED <<nextInode, top>>
  BY DEF write_original
<1>1. ws \in WorkspaceRow /\ PlaceOk(ws) /\ DiskSound
  BY <1>0 DEF WorkspaceInv, WorkSound, WorkOk
<1>2. i \in 1..WInodes
  BY <1>0, <1>1 DEF PlaceOk
<1>3. inode' = [inode EXCEPT ![i] = r]
  BY <1>1, <1>2 DEF write_original, DiskSound
<1>4. /\ n \in WorkspaceRow /\ n.serial = ws.serial /\ n.read = ws.read /\ n.failed = ws.failed /\ n.step = ws.step /\ n.made = ws.made
      /\ n.known = ws.known /\ n.reader = ws.reader /\ n.fds = ws.fds /\ n.at = "preopen" /\ n.name = ws.name /\ n.writer = ws.writer
  BY <1>1 DEF WorkspaceRow, WPlaces
<1> HIDE DEF n, i
<1>5. r \in InodeRow /\ r.by = inode[i].by /\ r.kind = inode[i].kind /\ r.links = inode[i].links /\ r.kids = inode[i].kids
  BY <1>1, <1>2 DEF DiskSound, InodeRow
<1> HIDE DEF r
<1>6. PlaceOk(n)
  BY <1>0, <1>1, <1>4 DEF PlaceOk
<1> QED BY <1>0, <1>2, <1>3, <1>4, <1>5, <1>6, RowWalks

LEMMA SealKeeps == ASSUME WorkspaceInv, seal_member PROVE WorkspaceInv' /\ Gentle
<1> DEFINE n == [ws EXCEPT !.at = "next", !.writer = None]
           i == ws.writer
           r == [inode[i] EXCEPT !.mode = "400"]
<1>0. ws # None /\ ws.at = "seal" /\ (Failing \/ (Moves(n) /\ UNCHANGED <<nextInode, top>> /\ inode' = [inode EXCEPT ![i].mode = "400"]))
  BY DEF seal_member
<1>1. ws \in WorkspaceRow /\ PlaceOk(ws) /\ DiskSound
  BY <1>0 DEF WorkspaceInv, WorkSound, WorkOk
<1>8. CASE Failing
  BY <1>0, <1>1, <1>8, FailingKeeps, StillIsGentle DEF Failing
<1>9. CASE Moves(n) /\ UNCHANGED <<nextInode, top>> /\ inode' = [inode EXCEPT ![i].mode = "400"]
  <2>2. i \in 1..WInodes
    BY <1>0, <1>1 DEF PlaceOk
  <2>3. inode' = [inode EXCEPT ![i] = r]
    BY <1>1, <1>9, <2>2 DEF DiskSound
  <2>4. /\ n \in WorkspaceRow /\ n.serial = ws.serial /\ n.read = ws.read /\ n.failed = ws.failed /\ n.step = ws.step /\ n.made = ws.made
        /\ n.known = ws.known /\ n.reader = ws.reader /\ n.fds = ws.fds /\ n.at = "next" /\ n.name = ws.name
    BY <1>1 DEF WorkspaceRow, WPlaces, WLinks
  <2> HIDE DEF n, i
  <2>5. r \in InodeRow /\ r.by = inode[i].by /\ r.kind = inode[i].kind /\ r.links = inode[i].links /\ r.kids = inode[i].kids
    BY <1>1, <2>2 DEF DiskSound, InodeRow
  <2> HIDE DEF r
  <2>6. PlaceOk(n)
    BY <1>0, <1>1, <2>4 DEF PlaceOk
  <2> QED BY <1>0, <1>9, <2>2, <2>3, <2>4, <2>5, <2>6, RowWalks
<1> QED BY <1>0, <1>8, <1>9

LEMMA FinishKeeps == ASSUME WorkspaceInv, finish PROVE WorkspaceInv' /\ Gentle
<1> DEFINE n == [ws EXCEPT !.at = "cleanup"]
<1>0. ws # None /\ Moves(n) /\ UNCHANGED wdisk
  BY DEF finish, Moves
<1>1. ws \in WorkspaceRow /\ PlaceOk(ws) /\ DiskSound
  BY <1>0 DEF WorkspaceInv, WorkSound, WorkOk
<1>2. /\ n \in WorkspaceRow /\ n.serial = ws.serial /\ n.read = ws.read /\ n.failed = ws.failed /\ n.made = ws.made
      /\ n.known = ws.known /\ n.fds = ws.fds /\ n.at = "cleanup" /\ n.name = ws.name
  BY <1>1 DEF WorkspaceRow, WPlaces
<1> HIDE DEF n
<1>3. PlaceOk(n) /\ StatOk(n, top, inode)
  BY <1>1, <1>2 DEF PlaceOk, StatOk
<1> QED BY <1>0, <1>1, <1>2, <1>3, WorkWalks, StillIsGentle

LEMMA SyscallKeeps == ASSUME WorkspaceInv, syscall_fails PROVE WorkspaceInv' /\ Gentle
<1>1. ws # None /\ Failing /\ DiskSound
  BY DEF syscall_fails, WorkspaceInv
<1> QED BY <1>1, FailingKeeps, StillIsGentle DEF Failing

LEMMA ReadKeeps == ASSUME WorkspaceInv, read_once PROVE WorkspaceInv' /\ Gentle
<1> DEFINE n == [ws EXCEPT !.read = TRUE]
           before == {s \in snaps : s.serial = ws.serial}
           ok == \A f \in WFiles : check_regular(ws.reader[f], f, "400") /\ bounded_read(ws.reader[f])
           original == \A f \in WFiles : ws.reader[f] # None /\ inode[ws.reader[f]].by = ws.serial /\ inode[ws.reader[f]].content = "original"
           snap == [serial |-> ws.serial, nth |-> Cardinality(before), ok |-> ok, original |-> original]
<1>0. ws # None /\ ws.at = "ready" /\ ws.read # TRUE /\ ws' = n /\ UNCHANGED <<wdisk, permit, serial, meddled, crashes>>
  BY DEF read_once, read_allowed
<1>1. snaps' = snaps \cup {snap}
  BY DEF read_once
<1>2. ws \in WorkspaceRow /\ PlaceOk(ws) /\ DiskSound /\ KnownOk(ws.known, ws.serial, inode, nextInode) /\ ws.serial = serial /\ ws.serial \in 1..WSpaces
  <2>1. WSpaces \in Nat
    BY WorkspaceShape
  <2> QED BY <1>0, <2>1 DEF WorkspaceInv, WorkSound, WorkOk, PermitSound
<1>3. ok => original
  <2> SUFFICES ASSUME ok, NEW f \in WFiles PROVE ws.reader[f] # None /\ inode[ws.reader[f]].by = ws.serial /\ inode[ws.reader[f]].content = "original"
    OBVIOUS
  <2>1. f \in WNodes
    BY DEF WNodes, Entries
  <2>2. PICK k \in 1..Len(WOrder) : WOrder[k] = f
    BY <2>1, WorkspaceLayout
  <2>3. ws.step = Len(WOrder) /\ Len(WOrder) \in Nat
    BY <1>0, <1>2, CurrentOk DEF PlaceOk
  <2>4. k < ws.step \/ k = ws.step
    BY <2>2, <2>3
  <2>5. ws.reader[f] # None
    BY <1>0, <1>2, <2>2, <2>4 DEF PlaceOk
  <2>6. ws.reader[f] = ws.known[f] /\ inode[ws.reader[f]].content = "original"
    BY DEF check_regular, bounded_read
  <2> QED BY <1>2, <2>1, <2>5, <2>6 DEF KnownOk
<1>4. ok \in BOOLEAN /\ original \in BOOLEAN
  BY Zenon
<1>5. before = {} /\ Cardinality(before) = 0
  <2>1. before = {}
    BY <1>0 DEF WorkspaceInv, SnapsSound
  <2> HIDE DEF before
  <2> QED BY <2>1, FS_EmptySet
<1>6. n \in WorkspaceRow /\ n.serial = ws.serial /\ n.name = ws.name /\ n.made = ws.made /\ n.failed = ws.failed /\ n.known = ws.known
      /\ n.reader = ws.reader /\ n.fds = ws.fds /\ n.at = ws.at /\ n.step = ws.step /\ n.writer = ws.writer /\ n.read = TRUE
  BY <1>2 DEF WorkspaceRow
<1> HIDE DEF n, before, ok, original
<1>7. snap \in Snapshot /\ snap.serial = serial /\ snap.nth = 0 /\ (snap.ok => snap.original)
  BY <1>2, <1>3, <1>4, <1>5 DEF Snapshot
<1> HIDE DEF snap
<1>8. n # None
  BY <1>6, WorkspaceAbsent
<1>9. DiskSound' /\ Gentle /\ UNCHANGED <<inode, nextInode, top>>
  BY <1>0, <1>2, DiskStays, StillIsGentle DEF wdisk
<1>10. WorkSound'
  <2>1. PlaceOk(n)
    BY <1>0, <1>2, <1>6 DEF PlaceOk
  <2>2. KnownOk(n.known, n.serial, inode', nextInode') /\ StatOk(n, top', inode')
    BY <1>0, <1>2, <1>6, <1>9 DEF StatOk
  <2> QED BY <1>0, <1>2, <1>6, <2>1, <2>2 DEF WorkSound, WorkOk
<1>11. TopsSound'
  <2>1. OwnTop(n) <=> OwnTop(ws)
    BY <1>6 DEF OwnTop
  <2> QED BY <1>0, <1>6, <1>8, <1>9, <2>1 DEF WorkspaceInv, TopsSound
<1>12. SnapsSound'
  <2>1. snaps' \subseteq Snapshot /\ IsFiniteSet(snaps')
    BY <1>1, <1>7, FS_AddElement DEF WorkspaceInv, SnapsSound
  <2>2. serial <= serial
    BY <1>2
  <2> QED BY <1>0, <1>1, <1>6, <1>7, <2>1, <2>2 DEF WorkspaceInv, SnapsSound
<1>13. PermitSound'
  BY <1>0, <1>8 DEF WorkspaceInv, PermitSound
<1> QED BY <1>9, <1>10, <1>11, <1>12, <1>13 DEF WorkspaceInv

-----------------------------------------------------------------------------
(* Cleanup.                                                                *)

\* A set of places in a sequence that is not empty has a last one.
LEMMA LastPlace ==
    ASSUME NEW l \in Nat, NEW pool \in SUBSET (1..l), pool # {}
    PROVE  \E k \in pool : \A j \in pool : j <= k
<1> DEFINE T == {l - k : k \in pool}
<1>1. T \in SUBSET Nat /\ T # {}
  <2>1. \A k \in pool : l - k \in Nat
    OBVIOUS
  <2>2. PICK k \in pool : TRUE
    OBVIOUS
  <2>3. l - k \in T
    BY <2>2
  <2> QED BY <2>1, <2>3
<1>2. PICK x \in T : \A y \in T : x <= y
  BY <1>1, LeastNatural
<1>3. PICK k \in pool : x = l - k
  OBVIOUS
<1>4. ASSUME NEW j \in pool PROVE j <= k
  <2>1. l - k <= l - j
    BY <1>2, <1>3
  <2>2. j \in Int /\ k \in Int
    OBVIOUS
  <2> QED BY <2>1, <2>2
<1> QED BY <1>4

LEMMA NextRemovedOk ==
    ASSUME ws.made \in Seq(WNodes), ws.made # <<>>
    PROVE  NextRemoved \in 1..Len(ws.made)
<1> DEFINE files == {k \in 1..Len(ws.made) : ws.made[k] \in WFiles}
           pool == IF files # {} THEN files ELSE 1..Len(ws.made)
<1>1. Len(ws.made) \in Nat /\ Len(ws.made) # 0
  OBVIOUS
<1>2. pool \in SUBSET (1..Len(ws.made)) /\ pool # {}
  BY <1>1
<1>3. NextRemoved = CHOOSE k \in pool : \A j \in pool : j <= k
  BY DEF NextRemoved
<1> HIDE DEF pool
<1>4. \E k \in pool : \A j \in pool : j <= k
  BY <1>1, <1>2, LastPlace
<1>5. NextRemoved \in pool
  BY <1>3, <1>4, Zenon
<1> QED BY <1>2, <1>5

\* One element of a sequence is taken out, the others stay.
Without(s, k) == SubSeq(s, 1, k - 1) \o SubSeq(s, k + 1, Len(s))

LEMMA WithoutKeeps ==
    ASSUME NEW S, NEW s \in Seq(S), NEW k \in 1..Len(s)
    PROVE  /\ Without(s, k) \in Seq(S)
           /\ \A j \in 1..Len(s) : j # k => \E i \in 1..Len(Without(s, k)) : Without(s, k)[i] = s[j]
<1> DEFINE a == SubSeq(s, 1, k - 1)  b == SubSeq(s, k + 1, Len(s))
<1>0. Len(s) \in Nat /\ k \in Nat /\ k - 1 \in Nat /\ Len(s) - k \in Nat
  OBVIOUS
<1>1. a \in Seq(S) /\ Len(a) = k - 1 /\ \A i \in 1..(k - 1) : a[i] = s[i]
  <2>1. a \in Seq(S)
    BY <1>0
  <2>2. Len(a) = k - 1
    BY <1>0
  <2> QED BY <1>0, <2>1, <2>2
<1>2. b \in Seq(S) /\ Len(b) = Len(s) - k /\ \A i \in 1..(Len(s) - k) : b[i] = s[k + i]
  <2>1. b \in Seq(S)
    BY <1>0
  <2>2. Len(b) = Len(s) - k
    BY <1>0
  <2> QED BY <1>0, <2>1, <2>2
<1>3. Without(s, k) = a \o b
  BY DEF Without
<1> HIDE DEF a, b
<1>4. /\ a \o b \in Seq(S) /\ Len(a \o b) = Len(s) - 1
      /\ \A i \in 1..(k - 1) : (a \o b)[i] = a[i]
      /\ \A i \in 1..(Len(s) - k) : (a \o b)[k - 1 + i] = b[i]
  <2>1. a \o b \in Seq(S) /\ Len(a \o b) = Len(a) + Len(b)
    <3>1. a \in Seq(S) /\ b \in Seq(S)
      BY <1>1, <1>2
    <3>2. a \o b \in Seq(S)
      BY <3>1
    <3> QED BY <3>1, <3>2
  <2>2. Len(a) + Len(b) = Len(s) - 1
    BY <1>0, <1>1, <1>2
  <2>3. \A i \in 1..(k - 1) : (a \o b)[i] = a[i]
    BY <1>0, <1>1, <1>2
  <2>4. ASSUME NEW i \in 1..(Len(s) - k) PROVE (a \o b)[k - 1 + i] = b[i]
    <3>1. k - 1 + i \in 1..(Len(a) + Len(b)) /\ ~(k - 1 + i <= Len(a)) /\ (k - 1 + i) - Len(a) = i
      BY <1>0, <1>1, <1>2
    <3> QED BY <1>1, <1>2, <3>1
  <2> QED BY <2>1, <2>2, <2>3, <2>4
<1>5. ASSUME NEW j \in 1..Len(s), j # k PROVE \E i \in 1..Len(a \o b) : (a \o b)[i] = s[j]
  <2>1. CASE j < k
    <3>1. j \in 1..(k - 1) /\ j \in 1..Len(a \o b)
      BY <1>0, <1>4, <2>1
    <3> QED BY <1>1, <1>4, <3>1
  <2>2. CASE j > k
    <3>1. j - k \in 1..(Len(s) - k) /\ k - 1 + (j - k) \in 1..Len(a \o b) /\ k + (j - k) = j
      BY <1>0, <1>4, <2>2
    <3> QED BY <1>2, <1>4, <3>1
  <2> QED BY <1>0, <1>5, <2>1, <2>2
<1> QED BY <1>3, <1>4, <1>5

\* What is unlinked was made by the workspace.
LEMMA RemovalIsOwn ==
    ASSUME WorkspaceInv, ws # None, NEW x \in WNodes, Removable(x), Unlink(x)
    PROVE  /\ DiskSound' /\ DiskStep /\ Gentle
           /\ \A m \in 1..WNames : top'[m] # top[m] => top'[m] = None
           /\ (x = Root => top'[ws.name] = None)
<1>1. /\ DiskSound /\ ws \in WorkspaceRow /\ PlaceOk(ws) /\ KnownOk(ws.known, ws.serial, inode, nextInode) /\ ws.serial # 0
      /\ ws.name \in 1..WNames /\ ws.known \in [WNodes -> WLinks]
  BY DEF WorkspaceInv, WorkSound, WorkOk, WorkspaceRow, PermitSound
<1>2. /\ ws.known[x] # None /\ Found(x) = ws.known[x] /\ Found(x) \in 1..WInodes /\ Found(x) < nextInode
      /\ inode[Found(x)].kind = (IF x \in WFiles THEN "file" ELSE "dir")
  BY <1>1 DEF Removable, remove_known, KnownOk, WLinks
<1>3. inode[Found(x)].by # 0 /\ (x = Root => inode[Found(x)].by = ws.serial)
  BY <1>1, <1>2 DEF KnownOk
<1>4. x # Root => DirOf(x) \in 1..WInodes
  <2> SUFFICES ASSUME x # Root PROVE DirOf(x) \in 1..WInodes
    OBVIOUS
  <2>1. WParent[x] \in ws.fds /\ x \in Entries
    BY DEF Removable, WNodes
  <2>2. WParent[x] \in WNodes /\ ws.known[WParent[x]] # None
    BY <1>1, <2>1 DEF PlaceOk, WNodes, Entries
  <2> QED BY <1>1, <2>2 DEF DirOf, WLinks
<1>5. /\ DiskSound' /\ DiskStep
      /\ (x = Root => inode' = inode /\ top' = [top EXCEPT ![ws.name] = None])
      /\ (x # Root => top' = top /\ \A i \in 1..WInodes : i # Found(x) => inode'[i].links = inode[i].links)
  BY <1>1, <1>2, <1>4, UnlinkKeeps
<1>6. \A i \in 1..WInodes : inode[i].links \in Int
  BY <1>1 DEF DiskSound, InodeRow
<1>7. CASE x = Root
  <2>1. inode' = inode /\ \A m \in 1..WNames : top'[m] = IF m = ws.name THEN None ELSE top[m]
    BY <1>1, <1>5, <1>7 DEF DiskSound
  <2>2. Found(x) = top[ws.name]
    BY <1>7 DEF Found
  <2>3. Gentle
    BY <1>3, <1>6, <1>7, <2>1, <2>2 DEF Gentle
  <2> QED BY <1>1, <1>5, <2>1, <2>3
<1>8. CASE x # Root
  <2>1. Gentle
    BY <1>3, <1>5, <1>6, <1>8 DEF Gentle
  <2> QED BY <1>5, <1>8, <2>1
<1> QED BY <1>7, <1>8

LEMMA CleanupEntryKeeps == ASSUME WorkspaceInv, cleanup_entry PROVE WorkspaceInv' /\ Gentle
<1> DEFINE k == NextRemoved
           x == ws.made[k]
           rest == Without(ws.made, k)
           bad == ws.failed \/ ~Removable(x)
           n == [ws EXCEPT !.made = rest, !.reader = [f \in WFiles |-> None], !.fds = @ \ {x}, !.failed = bad]
<1>0. ws # None /\ ws.at = "cleanup" /\ ws.made # <<>>
  BY DEF cleanup_entry
<1>1. /\ ws \in WorkspaceRow /\ PlaceOk(ws) /\ DiskSound /\ TopsSound /\ KnownOk(ws.known, ws.serial, inode, nextInode)
      /\ ws.made \in Seq(WNodes) /\ ws.known \in [WNodes -> WLinks] /\ ws.name \in 1..WNames
  BY <1>0 DEF WorkspaceInv, WorkSound, WorkOk, WorkspaceRow
<1>2. k \in 1..Len(ws.made)
  BY <1>0, <1>1, NextRemovedOk
<1>3. (IF Removable(x) THEN Unlink(x) ELSE UNCHANGED wdisk) /\ Moves(n)
  BY DEF cleanup_entry, Without
<1> HIDE DEF k
<1>4. x \in WNodes /\ rest \in Seq(WNodes) /\ \A j \in 1..Len(ws.made) : j # k => \E i \in 1..Len(rest) : rest[i] = ws.made[j]
  BY <1>1, <1>2, WithoutKeeps
<1>5. bad \in BOOLEAN /\ (bad <=> ws.failed \/ ~Removable(x))
  BY Zenon
<1> HIDE DEF x, rest, bad
<1>6. /\ n \in WorkspaceRow /\ n.serial = ws.serial /\ n.read = ws.read /\ n.failed = bad /\ n.made = rest
      /\ n.known = ws.known /\ n.fds = ws.fds \ {x} /\ n.at = "cleanup" /\ n.name = ws.name
  <2>1. [f \in WFiles |-> None] \in [WFiles -> WLinks]
    BY DEF WLinks
  <2> QED BY <1>0, <1>1, <1>4, <1>5, <2>1 DEF WorkspaceRow
<1> HIDE DEF n
<1>7. PlaceOk(n) /\ StatOk(n, top', inode')
  BY <1>0, <1>1, <1>6 DEF PlaceOk, StatOk
<1>8. /\ DiskSound' /\ DiskStep /\ Gentle
      /\ \A m \in 1..WNames : top'[m] # top[m] => top'[m] = None
      /\ (x = Root /\ Removable(x) => top'[ws.name] = None)
  <2>1. CASE Removable(x)
    BY <1>0, <1>3, <1>4, <2>1, RemovalIsOwn
  <2>2. CASE ~Removable(x)
    BY <1>1, <1>3, <2>2, DiskStays, StillIsGentle DEF wdisk
  <2> QED BY <2>1, <2>2
<1>9. n # None /\ ws' = n /\ UNCHANGED <<permit, snaps, serial, meddled, crashes>>
  BY <1>3, <1>6, WorkspaceAbsent DEF Moves
<1>10. TopsSound'
  <2>1. CASE OwnTop(ws) => OwnTop(n)
    BY <1>0, <1>1, <1>6, <1>8, <1>9, <2>1, TopsGo
  <2>2. CASE OwnTop(ws) /\ ~OwnTop(n)
    <3>1. ~bad /\ ~ws.failed /\ Removable(x)
      BY <1>5, <1>6, <2>2 DEF OwnTop
    <3>2. PICK j \in 1..Len(ws.made) : ws.made[j] = Root
      BY <2>2, <3>1 DEF OwnTop
    <3>3. j = k
      BY <1>4, <1>6, <2>2, <3>2 DEF OwnTop
    <3>4. x = Root
      BY <3>2, <3>3 DEF x
    <3>5. top'[ws.name] = None
      BY <1>8, <3>1, <3>4
    <3> SUFFICES ASSUME NEW m \in 1..WNames, top'[m] # None
                 PROVE  inode'[top'[m]].by = 0 \/ crashes > 0 \/ permit = "poisoned" \/ (m = n.name /\ OwnTop(n))
      BY <1>9 DEF TopsSound
    <3>6. top'[m] = top[m] /\ m # ws.name
      BY <1>8, <3>5
    <3>7. top[m] \in 1..WInodes /\ top[m] < nextInode
      BY <1>1, <3>6 DEF DiskSound, WLinks
    <3>8. inode'[top[m]].by = inode[top[m]].by
      BY <1>8, <3>7 DEF DiskStep
    <3> QED BY <1>1, <3>6, <3>8 DEF TopsSound
  <2> QED BY <2>1, <2>2
<1>11. KnownOk(n.known, n.serial, inode', nextInode')
  BY <1>1, <1>6, <1>8, KnownStays
<1> QED BY <1>0, <1>6, <1>7, <1>8, <1>9, <1>10, <1>11, WorkGoes

LEMMA CleanupDoneKeeps == ASSUME WorkspaceInv, cleanup_done PROVE WorkspaceInv' /\ Gentle
<1>0. /\ ws # None /\ ws.made = <<>> /\ permit' = resolve(ws.failed) /\ ws' = None
      /\ UNCHANGED <<wdisk, snaps, serial, meddled, crashes>> /\ UNCHANGED <<inode, nextInode, top>>
  BY DEF cleanup_done, wdisk
<1>1. DiskSound' /\ Gentle /\ permit = "active"
  BY <1>0, DiskStays, StillIsGentle DEF WorkspaceInv, PermitSound
<1>2. permit' \in {"free", "poisoned"} /\ (ws.failed => permit' = "poisoned")
  BY <1>0 DEF resolve
<1>3. OwnTop(ws) => ws.failed
  BY <1>0 DEF OwnTop
<1>4. TopsSound'
  BY <1>0, <1>1, <1>2, <1>3 DEF WorkspaceInv, TopsSound
<1>5. WorkSound' /\ PermitSound' /\ SnapsSound'
  BY <1>0, <1>2 DEF WorkspaceInv, WorkSound, PermitSound, SnapsSound
<1> QED BY <1>1, <1>4, <1>5 DEF WorkspaceInv

LEMMA ProcessDiesKeeps == ASSUME WorkspaceInv, process_dies PROVE WorkspaceInv' /\ Gentle
<1>0. /\ permit' = "free" /\ ws' = None /\ UNCHANGED <<wdisk, snaps, serial, meddled>> /\ UNCHANGED <<inode, nextInode, top>>
      /\ crashes' = crashes + 1 /\ crashes \in Nat
  BY DEF process_dies, wdisk, WorkspaceInv, PermitSound
<1>1. DiskSound' /\ Gentle /\ crashes' > 0 /\ crashes' \in Nat
  BY <1>0, DiskStays, StillIsGentle DEF WorkspaceInv
<1>2. TopsSound'
  BY <1>1 DEF TopsSound
<1>3. WorkSound' /\ PermitSound' /\ SnapsSound'
  BY <1>0, <1>1 DEF WorkspaceInv, WorkSound, PermitSound, SnapsSound
<1> QED BY <1>1, <1>2, <1>3 DEF WorkspaceInv

LEMMA MeddlingKeeps ==
    ASSUME WorkspaceInv, meddle
    PROVE  WorkspaceInv' /\ \A m \in 1..WNames : top[m] # None => top'[m] # None
<1>0. UNCHANGED <<permit, ws, snaps, serial, crashes>> /\ meddled' = meddled + 1 /\ DiskSound /\ TopsSound
  BY DEF meddle, WorkspaceInv
<1>1. /\ DiskSound' /\ DiskStep
      /\ \A m \in 1..WNames : top[m] # None => top'[m] = top[m]
      /\ \A m \in 1..WNames : top'[m] # top[m] => inode'[top'[m]].by = 0 /\ top'[m] # None
  BY <1>0, MeddleKeeps
<1>2. TopsSound'
  <2> SUFFICES ASSUME NEW m \in 1..WNames, top'[m] # None
               PROVE  inode'[top'[m]].by = 0 \/ crashes > 0 \/ permit = "poisoned" \/ (ws # None /\ m = ws.name /\ OwnTop(ws))
    BY <1>0 DEF TopsSound
  <2>1. CASE top'[m] # top[m]
    BY <1>1, <2>1
  <2>2. CASE top'[m] = top[m]
    <3>1. top[m] \in 1..WInodes /\ top[m] < nextInode
      BY <1>0, <2>2 DEF DiskSound, WLinks
    <3>2. inode'[top[m]].by = inode[top[m]].by
      BY <1>1, <3>1 DEF DiskStep
    <3> QED BY <1>0, <2>2, <3>2 DEF TopsSound
  <2> QED BY <2>1, <2>2
<1>3. WorkSound'
  <2> SUFFICES ASSUME ws # None PROVE WorkOk(ws)'
    BY <1>0 DEF WorkSound
  <2>1. /\ ws \in WorkspaceRow /\ PlaceOk(ws) /\ KnownOk(ws.known, ws.serial, inode, nextInode) /\ StatOk(ws, top, inode)
        /\ ws.known \in [WNodes -> WLinks] /\ ws.name \in 1..WNames /\ ws.serial = serial
    BY DEF WorkspaceInv, WorkSound, WorkOk, WorkspaceRow
  <2>2. KnownOk(ws.known, ws.serial, inode', nextInode')
    BY <1>0, <1>1, <2>1, KnownStays
  <2>3. StatOk(ws, top', inode')
    <3> SUFFICES ASSUME ws.at = "stat", WOrder[ws.step] = Root PROVE top'[ws.name] # None /\ inode'[top'[ws.name]].by = ws.serial
      BY DEF StatOk
    <3>1. top[ws.name] # None /\ inode[top[ws.name]].by = ws.serial
      BY <2>1 DEF StatOk
    <3>2. top'[ws.name] = top[ws.name] /\ top[ws.name] \in 1..WInodes /\ top[ws.name] < nextInode
      BY <1>0, <1>1, <2>1, <3>1 DEF DiskSound, WLinks
    <3> QED BY <1>1, <3>1, <3>2 DEF DiskStep
  <2> QED BY <1>0, <2>1, <2>2, <2>3 DEF WorkOk
<1>4. PermitSound' /\ SnapsSound'
  BY <1>0 DEF WorkspaceInv, PermitSound, SnapsSound
<1> QED BY <1>1, <1>2, <1>3, <1>4 DEF WorkspaceInv

-----------------------------------------------------------------------------
(* The theorems.                                                           *)

LEMMA WorkspaceInvNext == WorkspaceInv /\ [workspace_next]_wvars => WorkspaceInv'
<1> SUFFICES ASSUME WorkspaceInv, [workspace_next]_wvars PROVE WorkspaceInv'
  OBVIOUS
<1>1. CASE \E c \in WCallers : \E n \in 1..WNames : create(c, n)
  BY <1>1, CreateKeeps
<1>2. CASE Populate
  BY <1>2, MkdirKeeps, MkdirExistsKeeps, MkdirUnknownKeeps, StatKeeps, OpenKeeps, CreateMemberKeeps, WriteKeeps, PreopenKeeps, SealKeeps,
     NextEntryKeeps, SyscallKeeps DEF Populate
<1>3. CASE finish \/ cleanup_entry \/ cleanup_done
  BY <1>3, FinishKeeps, CleanupEntryKeeps, CleanupDoneKeeps
<1>4. CASE read_once \/ meddle \/ process_dies
  BY <1>4, ReadKeeps, MeddlingKeeps, ProcessDiesKeeps
<1>5. CASE UNCHANGED wvars
  <2>1. UNCHANGED <<inode, nextInode, top, permit, ws, snaps, serial, meddled, crashes>>
    BY <1>5 DEF wvars
  <2>2. DiskSound' /\ PermitSound' /\ SnapsSound'
    BY <2>1 DEF WorkspaceInv, DiskSound, PermitSound, SnapsSound
  <2>3. WorkSound' /\ TopsSound'
    BY <2>1 DEF WorkspaceInv, WorkSound, WorkOk, TopsSound
  <2> QED BY <2>2, <2>3 DEF WorkspaceInv
<1> QED BY <1>1, <1>2, <1>3, <1>4, <1>5 DEF workspace_next, WorkspaceSteps

\* A reader is given the bytes of the case, from the inodes the workspace made,
\* and once; no more descriptors are open than preflight allowed for; and a free
\* permit means that nothing the process made is left under /tmp, whatever another
\* process did meanwhile (OwnedConfigWorkspace).
THEOREM WorkspaceIsSafe == WorkspaceSpec => []WorkspaceSafe
<1>1. workspace_init => WorkspaceInv
  BY WorkspaceInvInit
<1>2. WorkspaceInv /\ [workspace_next]_wvars => WorkspaceInv'
  BY WorkspaceInvNext
<1>3. WorkspaceInv => WorkspaceSafe
  BY WorkspaceInvIsSafe
<1> QED BY <1>1, <1>2, <1>3, PTL DEF WorkspaceSpec

LEMMA OwnStepsAreGentle ==
    ASSUME WorkspaceInv, [workspace_next]_wvars
    PROVE  Gentle \/ meddle
<1>0. DiskSound
  BY DEF WorkspaceInv
<1>1. CASE \E c \in WCallers : \E n \in 1..WNames : create(c, n)
  <2>1. UNCHANGED wdisk
    BY <1>1 DEF create
  <2> QED BY <1>0, <2>1, StillIsGentle
<1>2. CASE Populate
  BY <1>2, MkdirKeeps, MkdirExistsKeeps, MkdirUnknownKeeps, StatKeeps, OpenKeeps, CreateMemberKeeps, WriteKeeps, PreopenKeeps, SealKeeps,
     NextEntryKeeps, SyscallKeeps DEF Populate
<1>3. CASE finish \/ cleanup_entry \/ cleanup_done
  BY <1>3, FinishKeeps, CleanupEntryKeeps, CleanupDoneKeeps
<1>4. CASE read_once \/ process_dies
  BY <1>4, ReadKeeps, ProcessDiesKeeps
<1>5. CASE UNCHANGED wvars
  <2>1. UNCHANGED wdisk
    BY <1>5 DEF wvars, wdisk
  <2> QED BY <1>0, <2>1, StillIsGentle
<1> QED BY <1>1, <1>2, <1>3, <1>4, <1>5 DEF workspace_next, WorkspaceSteps

\* The permit of a poisoned process comes back only with another process.
LEMMA PoisonStays ==
    ASSUME WorkspaceInv, [workspace_next]_wvars
    PROVE  permit = "poisoned" => (permit' = "poisoned" \/ crashes' # crashes)
<1> SUFFICES ASSUME permit = "poisoned" PROVE permit' = "poisoned" \/ crashes' # crashes
  OBVIOUS
<1>1. ws = None /\ crashes \in Nat
  BY DEF WorkspaceInv, PermitSound
<1>2. ASSUME NEW c \in WCallers, NEW n \in 1..WNames PROVE ~create(c, n)
  BY DEF create, acquire
<1>3. ~Populate /\ ~finish /\ ~cleanup_entry /\ ~cleanup_done /\ ~read_once
  <2>1. ~Populate
    BY <1>1 DEF Populate, mkdirat, mkdirat_exists, mkdirat_unknown, stat_directory, open_directory, create_member, write_original, preopen,
       seal_member, next_entry, syscall_fails
  <2> QED BY <1>1, <2>1 DEF finish, cleanup_entry, cleanup_done, read_once
<1>4. CASE meddle
  BY <1>4 DEF meddle
<1>5. CASE process_dies
  BY <1>1, <1>5 DEF process_dies
<1>6. CASE UNCHANGED wvars
  BY <1>6 DEF wvars
<1> QED BY <1>2, <1>3, <1>4, <1>5, <1>6 DEF workspace_next, WorkspaceSteps

\* Cleanup removes a root name only while it leads to an inode of this workspace,
\* never unlinks a file that somebody else put under one of its names, and a
\* poisoned process makes no other workspace (remove_known, Permit::resolve).
THEOREM WorkspaceKeepsToItself == WorkspaceSpec => RemovesOnlyItsOwn /\ KeepsForeignFiles /\ PoisonedForGood
<1>1. ASSUME WorkspaceInv, [workspace_next]_wvars
      PROVE  \A n \in 1..WNames : (top[n] # None /\ top'[n] = None) => ws # None /\ inode[top[n]].by = ws.serial
  <2>1. CASE Gentle
    BY <2>1 DEF Gentle
  <2>2. CASE meddle
    BY <1>1, <2>2, MeddlingKeeps
  <2> QED BY <1>1, <2>1, <2>2, OwnStepsAreGentle
<1>2. ASSUME WorkspaceInv, [workspace_next]_wvars
      PROVE  \A i \in 1..WInodes : (inode[i].by = 0 /\ inode'[i].links < inode[i].links) => meddled' # meddled
  <2>1. CASE Gentle
    BY <2>1 DEF Gentle
  <2>2. CASE meddle
    <3>1. meddled' = meddled + 1 /\ meddled \in Nat
      BY <1>2, <2>2 DEF meddle, WorkspaceInv, PermitSound
    <3> QED BY <3>1
  <2> QED BY <1>2, <2>1, <2>2, OwnStepsAreGentle
<1>3. ASSUME WorkspaceInv, [workspace_next]_wvars
      PROVE  permit = "poisoned" => (permit' = "poisoned" \/ crashes' # crashes)
  BY <1>3, PoisonStays
<1>4. workspace_init => WorkspaceInv
  BY WorkspaceInvInit
<1>5. WorkspaceInv /\ [workspace_next]_wvars => WorkspaceInv'
  BY WorkspaceInvNext
<1>6. WorkspaceSpec => RemovesOnlyItsOwn
  BY <1>1, <1>4, <1>5, PTL DEF WorkspaceSpec, RemovesOnlyItsOwn
<1>7. WorkspaceSpec => KeepsForeignFiles
  BY <1>2, <1>4, <1>5, PTL DEF WorkspaceSpec, KeepsForeignFiles
<1>8. WorkspaceSpec => PoisonedForGood
  BY <1>3, <1>4, <1>5, PTL DEF WorkspaceSpec, PoisonedForGood
<1> QED BY <1>6, <1>7, <1>8

-----------------------------------------------------------------------------
(***************************************************************************)
(* One replay of a sealed world, for any worlds, profiles and limits.      *)
(***************************************************************************)

\* A finite set of integers has a largest member.
LEMMA LargestMember ==
    ASSUME NEW S, IsFiniteSet(S), S \subseteq Int, S # {}
    PROVE  Max(S) \in S /\ \A y \in S : Max(S) >= y
<1> DEFINE HasTop(T) == \E x \in T : \A y \in T : x >= y
           N == {n \in Nat : \A T \in SUBSET S : T # {} /\ Cardinality(T) <= n => HasTop(T)}
<1>1. \A T \in SUBSET S : IsFiniteSet(T) /\ Cardinality(T) \in Nat
  BY FS_Subset, FS_CardinalityType
<1>2. 0 \in N
  <2>1. \A T \in SUBSET S : Cardinality(T) <= 0 => T = {}
    BY <1>1, FS_EmptySet
  <2> QED BY <2>1
<1>3. ASSUME NEW n \in N PROVE n + 1 \in N
  <2>1. ASSUME NEW T \in SUBSET S, T # {}, Cardinality(T) <= n + 1 PROVE HasTop(T)
    <3>1. PICK c \in T : TRUE
      BY <2>1
    <3>2. T \ {c} \in SUBSET S /\ Cardinality(T \ {c}) = Cardinality(T) - 1
      BY <1>1, FS_RemoveElement
    <3>3. Cardinality(T \ {c}) <= n
      BY <1>1, <2>1, <3>2
    <3>4. CASE T \ {c} = {}
      <4>1. \A y \in T : c >= y
        BY <3>4
      <4> QED BY <4>1
    <3>5. CASE T \ {c} # {}
      <4>1. PICK x \in T \ {c} : \A y \in T \ {c} : x >= y
        BY <3>2, <3>3, <3>5
      <4>2. c \in Int /\ x \in Int /\ T \subseteq Int
        BY <4>1
      <4>3. CASE x >= c
        BY <4>1, <4>3
      <4>4. CASE c > x
        <5>1. \A y \in T : c >= y
          BY <4>1, <4>2, <4>4
        <5> QED BY <5>1
      <4> QED BY <4>2, <4>3, <4>4
    <3> QED BY <3>4, <3>5
  <2>2. n + 1 \in Nat
    OBVIOUS
  <2> QED BY <2>1, <2>2
<1>4. N = Nat
  <2>1. N \in SUBSET Nat
    OBVIOUS
  <2> HIDE DEF N
  <2> QED BY <1>2, <1>3, <2>1, AllNaturals
<1>5. HasTop(S)
  <2>1. Cardinality(S) \in N /\ Cardinality(S) <= Cardinality(S)
    BY <1>1, <1>4
  <2> QED BY <2>1
<1> QED BY <1>5 DEF Max

LEMMA SmallerOfTwo ==
    ASSUME NEW a \in Int, NEW b \in Int
    PROVE  Min({a, b}) \in Int /\ Min({a, b}) <= a /\ Min({a, b}) <= b
<1>1. \E x \in {a, b} : \A y \in {a, b} : x =< y
  <2>1. CASE a <= b
    BY <2>1
  <2>2. CASE b <= a
    BY <2>2
  <2> QED BY <2>1, <2>2
<1> QED BY <1>1 DEF Min

LEMMA OneMore ==
    ASSUME NEW S, IsFiniteSet(S), NEW x, NEW U, U = S \cup {x}
    PROVE  IsFiniteSet(U) /\ Cardinality(U) \in Nat /\ Cardinality(U) <= Cardinality(S) + 1
<1>1. Cardinality(S) \in Nat
  BY FS_CardinalityType
<1>2. IsFiniteSet(S \cup {x}) /\ (Cardinality(S \cup {x}) = Cardinality(S) \/ Cardinality(S \cup {x}) = Cardinality(S) + 1)
  BY FS_AddElement, Zenon
<1> QED BY <1>1, <1>2

LEMMA FiniteUnion ==
    ASSUME NEW S, IsFiniteSet(S), NEW T, IsFiniteSet(T), NEW U, U = S \cup T
    PROVE  IsFiniteSet(U)
  BY FS_Union, Zenon

\* The sum over a part of a set is at most the sum over the set.
LEMMA SumOfPart ==
    ASSUME NEW f, NEW S, IsFiniteSet(S), \A x \in S : f[x] \in Nat, NEW T, T \subseteq S
    PROVE  /\ SumFunctionOnSet(f, T) \in Nat /\ SumFunctionOnSet(f, S) \in Nat
           /\ SumFunctionOnSet(f, T) <= SumFunctionOnSet(f, S)
<1> DEFINE Sum(U) == SumFunctionOnSet(f, U)
           N == {n \in Nat : \A U \in SUBSET S : Cardinality(U) <= n => Sum(U) \in Nat /\ (T \subseteq U => Sum(T) <= Sum(U))}
<1>1. \A U \in SUBSET S : IsFiniteSet(U) /\ Cardinality(U) \in Nat
  BY FS_Subset, FS_CardinalityType
<1>2. \A U \in SUBSET S : \A c \in U : Sum(U) \in Nat /\ Sum(U \ {c}) \in Nat /\ Sum(U) = f[c] + Sum(U \ {c})
  <2> SUFFICES ASSUME NEW U \in SUBSET S, NEW c \in U
               PROVE  Sum(U) \in Nat /\ Sum(U \ {c}) \in Nat /\ Sum(U) = f[c] + Sum(U \ {c})
    OBVIOUS
  <2>1. IsFiniteSet(U) /\ \A x \in U : f[x] \in Nat
    BY <1>1
  <2> QED BY <2>1, SumWithout
<1>3. Sum({}) = 0
  BY SumOfNone
<1> HIDE DEF Sum
<1>a. ASSUME NEW U \in SUBSET S PROVE Sum(U) \in Nat
  <2>1. CASE U = {}
    BY <1>3, <2>1
  <2>2. CASE U # {}
    <3>1. PICK c \in U : TRUE
      BY <2>2
    <3> QED BY <1>2, <3>1
  <2> QED BY <2>1, <2>2
<1>4. 0 \in N
  <2>1. \A U \in SUBSET S : Cardinality(U) <= 0 => U = {}
    BY <1>1, FS_EmptySet
  <2>2. T \subseteq {} => T = {}
    OBVIOUS
  <2> QED BY <1>3, <2>1, <2>2
<1>5. ASSUME NEW n \in N PROVE n + 1 \in N
  <2>1. ASSUME NEW U \in SUBSET S, Cardinality(U) <= n + 1 PROVE Sum(U) \in Nat /\ (T \subseteq U => Sum(T) <= Sum(U))
    <3>1. Sum(U) \in Nat
      BY <1>a
    <3>2. CASE U = T
      BY <3>1, <3>2
    <3>3. CASE T \subseteq U /\ U # T
      <4>1. PICK c \in U : c \notin T
        BY <3>3
      <4>2. U \ {c} \in SUBSET S /\ Cardinality(U \ {c}) = Cardinality(U) - 1 /\ T \subseteq U \ {c}
        BY <1>1, <3>3, <4>1, FS_RemoveElement
      <4>3. Cardinality(U \ {c}) <= n
        BY <1>1, <2>1, <4>2
      <4>4. Sum(T) <= Sum(U \ {c}) /\ Sum(U \ {c}) \in Nat
        BY <4>2, <4>3
      <4>5. Sum(U) = f[c] + Sum(U \ {c}) /\ f[c] \in Nat
        BY <1>2, <4>1
      <4>6. Sum(T) \in Nat
        BY <1>a
      <4> QED BY <3>1, <4>4, <4>5, <4>6
    <3> QED BY <3>1, <3>2, <3>3
  <2>2. n + 1 \in Nat
    OBVIOUS
  <2> QED BY <2>1, <2>2
<1>6. N = Nat
  <2>1. N \in SUBSET Nat
    OBVIOUS
  <2> HIDE DEF N
  <2> QED BY <1>4, <1>5, <2>1, AllNaturals
<1>7. Cardinality(S) \in N /\ Cardinality(T) \in N /\ Cardinality(S) <= Cardinality(S) /\ Cardinality(T) <= Cardinality(T)
  BY <1>1, <1>6
<1> QED BY <1>7 DEF Sum

-----------------------------------------------------------------------------
(* The invariant.                                                          *)

ReplayFields == {"world", "profile", "selected", "nodes", "recovered", "spent", "probes", "best",
                 "probe_curve", "round_curve", "sizes", "terminal"}

SeqsOf(w) == {a.seq : a \in w.catalog}

\* A node is of one selected action, and the only one of it.
NodesSound(r) ==
    /\ IsFiniteSet(r.nodes)
    /\ \A x \in r.nodes : x.seq \in r.selected
    /\ \A x, y \in r.nodes : x.seq = y.seq => x = y

\* What the budget subtracts is within what was granted.
GrantSound(r) ==
    /\ r.probes \in Nat /\ r.spent \in Nat /\ r.recovered \in Nat
    /\ r.probes <= r.profile.probes /\ r.recovered <= r.profile.recoveries
    /\ r.world.roots # None => r.spent <= r.world.grant /\ r.recovered <= r.world.recoveries

RepairsSound(r) == \A e : e # None => Repairs(r, e) <= R_MAX_REPAIR

Supported(w, selected) ==
    \A a \in w.catalog : a.seq \in selected =>
      /\ a.seq \in DOMAIN w.rec
      /\ w.rec[a.seq].outcome = "observed" /\ w.rec[a.seq].status # "uncertain"

\* What a stop of the policy had in front of it.
StopSound(r) ==
    Cardinality(r.nodes) < R_MAX_NODES =>
      /\ r.world.roots # None
      /\ \A root \in r.world.roots : \E a \in r.world.catalog : a.kind = "widen" /\ a.slot = root.slot
      /\ \A x \in r.nodes : (x.depth < R_MAX_DEPTH /\ CanDeepen(r, x)) =>
           \E a \in r.world.catalog : a.kind = "deepen" /\ a.target = x.seq

SupportSound(r) ==
    /\ r.terminal \in {None, "policy_stop", "budget_exhausted"} => Supported(r.world, r.selected)
    /\ r.terminal = "policy_stop" => StopSound(r)

\* A curve rises, and to no more than the best there is.
Curve(s, best) ==
    /\ s \in Seq(Int)
    /\ \A i \in 1..Len(s) : s[i] <= best
    /\ \A i \in 1..(Len(s) - 1) : s[i] <= s[i + 1]

SizesBefore(sizes, k) == SumFunctionOnSet(sizes, 1..(k - 1))

\* The probes of round k stand together.
RoundSound(probe, round, sizes, k) ==
    \A i \in (SizesBefore(sizes, k) + 1)..(SizesBefore(sizes, k) + sizes[k]) : probe[i] = round[k]

CurvesSound(r) ==
    /\ r.best \in Int /\ Curve(r.probe_curve, r.best) /\ Curve(r.round_curve, r.best)
    /\ r.sizes \in Seq(Nat)
    /\ Len(r.probe_curve) = r.probes /\ Len(r.round_curve) = Len(r.sizes) /\ Len(r.sizes) <= r.probes
    /\ SumFunctionOnSet(r.sizes, 1..Len(r.sizes)) = r.probes
    /\ \A k \in 1..Len(r.sizes) :
         r.sizes[k] \in 1..r.profile.width /\ RoundSound(r.probe_curve, r.round_curve, r.sizes, k)

RunShape(r) ==
    /\ DOMAIN r = ReplayFields /\ r = [f \in ReplayFields |-> r[f]]
    /\ r.world \in ReplayWorlds /\ r.profile \in ReplayProfiles
    /\ r.selected \subseteq SeqsOf(r.world) /\ r.terminal \in Terminals \cup {None}

RunInv(r) ==
    /\ RunShape(r) /\ NodesSound(r) /\ GrantSound(r) /\ RepairsSound(r) /\ SupportSound(r) /\ CurvesSound(r)

LEMMA RunLimits ==
    ASSUME NEW r, RunShape(r)
    PROVE  /\ R_MAX_NODES \in Nat /\ R_MAX_DEPTH \in Nat /\ R_MAX_REPAIR \in Nat /\ R_BASELINE \in Int
           /\ IsFiniteSet(r.world.catalog) /\ r.world.grant \in Nat /\ r.world.recoveries \in Nat
           /\ \A a \in r.world.catalog :
                /\ a.depth \in 1..R_MAX_DEPTH
                /\ a.kind \in {"widen", "deepen", "recover"} /\ a.cost \in Nat \cup {None}
           /\ \A a, b \in r.world.catalog : a.seq = b.seq => a = b
           /\ \A s \in DOMAIN r.world.rec :
                r.world.rec[s].outcome \in {"observed", "censored", "oos"} /\ r.world.rec[s].quality \in Int
           /\ r.profile.width \in Nat /\ r.profile.probes \in Nat /\ r.profile.probes <= R_MAX_NODES
           /\ r.profile.recoveries \in Nat
<1>1. r.world \in ReplayWorlds /\ r.profile \in ReplayProfiles
  BY DEF RunShape
<1>2. /\ r.profile.width \in Nat /\ r.profile.probes \in Nat /\ r.profile.probes <= R_MAX_NODES
      /\ r.profile.recoveries \in Nat
  BY <1>1, ReplayShape
<1> QED BY <1>1, <1>2, ReplayShape

LEMMA NodeIsItself ==
    ASSUME NEW r, NodesSound(r), NEW x \in r.nodes
    PROVE  HasNode(r, x.seq) /\ NodeOf(r, x.seq) = x
<1>1. \A y \in r.nodes : y.seq = x.seq => y = x
  BY DEF NodesSound
<1> QED BY <1>1 DEF HasNode, NodeOf

LEMMA NodeIsThere ==
    ASSUME NEW r, NEW n, HasNode(r, n)
    PROVE  NodeOf(r, n) \in r.nodes /\ NodeOf(r, n).seq = n
  BY DEF HasNode, NodeOf

\* The budget of a round.
LEMMA BudgetIsSound ==
    ASSUME NEW r, RunShape(r), GrantSound(r)
    PROVE  LET b == replay_runtime_budget(r) IN
           /\ b.nodes \in Nat /\ b.nodes = r.profile.probes - r.probes
           /\ b.recoveries \in Int /\ b.recoveries <= r.profile.recoveries - r.recovered
           /\ r.world.roots # None => b.recoveries <= r.world.recoveries - r.recovered /\ b.micros = r.world.grant - r.spent
           /\ b.micros \in Int
<1> DEFINE b == replay_runtime_budget(r)
           A == available_actions(r)
           c == [a \in A |-> IF a.cost = None THEN 0 ELSE a.cost]
           rec == IF r.world.roots = None THEN r.profile.recoveries ELSE Min({r.world.recoveries, r.profile.recoveries})
           mic == IF r.world.roots # None THEN r.world.grant - r.spent ELSE SumFunctionOnSet(c, A)
<1>1. b.nodes = r.profile.probes - r.probes /\ b.recoveries = rec - r.recovered /\ b.micros = mic
  BY DEF replay_runtime_budget
<1>2. A \subseteq r.world.catalog
  BY DEF available_actions
<1>3. IsFiniteSet(A) /\ \A a \in A : c[a] \in Nat
  BY <1>2, RunLimits, FS_Subset
<1>4. SumFunctionOnSet(c, A) \in Nat
  <2> HIDE DEF c, A
  <2>1. A \subseteq A
    OBVIOUS
  <2> QED BY <1>3, <2>1, SumOfPart
<1>5. /\ rec \in Int /\ rec <= r.profile.recoveries /\ (r.world.roots # None => rec <= r.world.recoveries)
  <2>1. r.profile.recoveries \in Int /\ r.world.recoveries \in Int /\ r.profile.recoveries <= r.profile.recoveries
    BY RunLimits
  <2>2. /\ Min({r.world.recoveries, r.profile.recoveries}) \in Int
        /\ Min({r.world.recoveries, r.profile.recoveries}) <= r.world.recoveries
        /\ Min({r.world.recoveries, r.profile.recoveries}) <= r.profile.recoveries
    BY <2>1, SmallerOfTwo
  <2> QED BY <2>1, <2>2
<1>6. /\ r.profile.probes \in Nat /\ r.profile.recoveries \in Nat /\ r.world.recoveries \in Nat /\ r.world.grant \in Nat
      /\ r.probes \in Nat /\ r.spent \in Nat /\ r.recovered \in Nat /\ r.probes <= r.profile.probes
  BY RunLimits DEF GrantSound
<1>7. mic \in Int /\ (r.world.roots # None => mic = r.world.grant - r.spent)
  BY <1>4, <1>6
<1> HIDE DEF b, rec, mic
<1>8. b.nodes \in Nat
  BY <1>1, <1>6
<1>9. /\ b.recoveries \in Int /\ b.recoveries <= r.profile.recoveries - r.recovered
      /\ r.world.roots # None => b.recoveries <= r.world.recoveries - r.recovered
  BY <1>1, <1>5, <1>6
<1> QED BY <1>1, <1>7, <1>8, <1>9 DEF b

-----------------------------------------------------------------------------
(* Two programs for one rule.                                              *)

LEMMA RepairRule ==
    ASSUME NEW r, NodesSound(r), NEW a
    PROVE  repair_open(r, a) <=>
             \E x \in r.nodes : /\ x.seq = a.target /\ x.failures < R_MAX_REPAIR
                                /\ x.status = "repairable" /\ x.episode = a.episode /\ x.reset
                                /\ Repairs(r, x.episode) < R_MAX_REPAIR
<1>1. ASSUME repair_open(r, a) PROVE NodeOf(r, a.target) \in r.nodes /\ NodeOf(r, a.target).seq = a.target
  BY <1>1, NodeIsThere DEF repair_open
<1>2. ASSUME NEW x \in r.nodes, x.seq = a.target PROVE HasNode(r, a.target) /\ NodeOf(r, a.target) = x
  BY <1>2, NodeIsItself
<1> QED BY <1>1, <1>2 DEF repair_open, Repairable

LEMMA PlaceRule ==
    ASSUME NEW r, NodesSound(r), NEW a, a.kind \in {"widen", "deepen", "recover"}
    PROVE  successor_open(r, a) <=>
             /\ ~(a.kind = "widen" /\ (a.depth # 1 \/ \E x \in r.nodes : x.branch = a.branch))
             /\ ~(a.kind # "widen" /\ ~ \E x \in r.nodes :
                    /\ x.seq = a.target /\ x.branch = a.branch /\ x.depth + 1 = a.depth
                    /\ a.kind = "deepen" => excluded_parent(r, x))
<1>1. ASSUME HasNode(r, a.target) PROVE NodeOf(r, a.target) \in r.nodes /\ NodeOf(r, a.target).seq = a.target
  BY <1>1, NodeIsThere
<1>2. ASSUME NEW x \in r.nodes, x.seq = a.target PROVE HasNode(r, a.target) /\ NodeOf(r, a.target) = x
  BY <1>2, NodeIsItself
<1>3. CASE a.kind = "widen"
  BY <1>3 DEF successor_open
<1>4. CASE a.kind = "deepen"
  BY <1>1, <1>2, <1>4 DEF successor_open, excluded_parent
<1>5. CASE a.kind = "recover"
  BY <1>1, <1>2, <1>5 DEF successor_open
<1> QED BY <1>3, <1>4, <1>5

LEMMA OneRule ==
    ASSUME NEW r, RunShape(r), NodesSound(r), GrantSound(r), NEW a \in available_actions(r)
    PROVE  (a \in replay_candidates(r)) <=> (first_core_exclusion(r, a) = "none")
<1> DEFINE b == replay_runtime_budget(r)
           n == Cardinality(r.nodes)
           open == \E x \in r.nodes :
                         /\ x.seq = a.target /\ x.failures < R_MAX_REPAIR
                         /\ x.status = "repairable" /\ x.episode = a.episode /\ x.reset
                         /\ Repairs(r, x.episode) < R_MAX_REPAIR
           misplaced == \/ a.kind = "widen" /\ (a.depth # 1 \/ \E x \in r.nodes : x.branch = a.branch)
                        \/ a.kind # "widen" /\ ~ \E x \in r.nodes :
                              /\ x.seq = a.target /\ x.branch = a.branch /\ x.depth + 1 = a.depth
                              /\ a.kind = "deepen" => excluded_parent(r, x)
<1>1. b.nodes \in Nat /\ b.micros \in Int /\ b.recoveries \in Int
  BY BudgetIsSound
<1>2. a \in r.world.catalog /\ a.depth \in Int /\ a.depth <= R_MAX_DEPTH /\ a.kind \in {"widen", "deepen", "recover"} /\ a.cost \in Nat \cup {None}
      /\ R_MAX_DEPTH \in Int /\ R_MAX_NODES \in Int
  BY RunLimits DEF available_actions
<1>3. n \in Nat
  BY FS_CardinalityType DEF NodesSound
<1>4. repair_open(r, a) <=> open
  BY RepairRule
<1>5. successor_open(r, a) <=> ~misplaced
  BY <1>2, PlaceRule
<1>6. (a \in replay_candidates(r)) <=>
        /\ a.depth <= R_MAX_DEPTH /\ b.nodes > 0 /\ n < R_MAX_NODES
        /\ a.cost # None /\ a.cost <= b.micros
        /\ a.kind = "recover" => b.recoveries > 0 /\ repair_open(r, a)
        /\ successor_open(r, a)
  BY DEF replay_candidates
<1>7. first_core_exclusion(r, a) =
        CASE a.depth > R_MAX_DEPTH -> "depth"
          [] a.depth <= R_MAX_DEPTH /\ (b.nodes = 0 \/ n >= R_MAX_NODES) -> "node"
          [] OTHER -> IF a.cost = None THEN "no_cost"
                      ELSE IF a.cost > b.micros THEN "balance"
                      ELSE IF a.kind = "recover" /\ ~(b.recoveries > 0 /\ open) THEN "recovery"
                      ELSE IF misplaced THEN "structure"
                      ELSE "none"
  BY DEF first_core_exclusion
<1> HIDE DEF b, n, open, misplaced
<1>8. ~(a.depth > R_MAX_DEPTH) /\ (b.nodes > 0 <=> ~(b.nodes = 0)) /\ (n < R_MAX_NODES <=> ~(n >= R_MAX_NODES))
  BY <1>1, <1>2, <1>3
<1>9. a.cost # None => (a.cost <= b.micros <=> ~(a.cost > b.micros))
  BY <1>1, <1>2
<1>10. CASE b.nodes = 0 \/ n >= R_MAX_NODES
  <2>1. first_core_exclusion(r, a) = "node"
    BY <1>2, <1>7, <1>8, <1>10
  <2> QED BY <1>6, <1>8, <1>10, <2>1
<1>11. CASE ~(b.nodes = 0 \/ n >= R_MAX_NODES)
  <2>1. first_core_exclusion(r, a) =
                      IF a.cost = None THEN "no_cost"
                      ELSE IF a.cost > b.micros THEN "balance"
                      ELSE IF a.kind = "recover" /\ ~(b.recoveries > 0 /\ open) THEN "recovery"
                      ELSE IF misplaced THEN "structure"
                      ELSE "none"
    BY <1>7, <1>8, <1>11
  <2> QED BY <1>2, <1>4, <1>5, <1>6, <1>8, <1>9, <1>11, <2>1
<1> QED BY <1>10, <1>11

-----------------------------------------------------------------------------
(* A batch.                                                                *)

LEMMA BatchFacts ==
    ASSUME NEW r, RunShape(r), NodesSound(r), GrantSound(r), NEW b \in decide_batches(r)
    PROVE  /\ b \subseteq r.world.catalog /\ b \subseteq replay_candidates(r) /\ IsFiniteSet(b) /\ Cardinality(b) \in Nat
           /\ \A a \in b : a.seq \notin r.selected /\ a.cost \in Nat /\ a.seq \in SeqsOf(r.world)
           /\ Cardinality(b) <= r.profile.width /\ Cardinality(b) <= r.profile.probes - r.probes
           /\ Cardinality(Recovers(b)) <= replay_runtime_budget(r).recoveries
           /\ CostOf(b) <= replay_runtime_budget(r).micros
           /\ one_repair_an_episode(b)
<1> DEFINE g == replay_runtime_budget(r)
<1>1. b \subseteq replay_candidates(r) /\ replay_candidates(r) \subseteq available_actions(r) /\ available_actions(r) \subseteq r.world.catalog
  BY DEF decide_batches, replay_candidates, available_actions
<1>2. IsFiniteSet(b) /\ Cardinality(b) \in Nat
  BY <1>1, RunLimits, FS_Subset, FS_CardinalityType
<1>3. /\ Cardinality(b) <= Min({r.profile.width, g.nodes})
      /\ one_repair_an_episode(b) /\ Cardinality(Recovers(b)) <= g.recoveries
      /\ CostOf(b) <= g.micros
  BY DEF decide_batches, affordable_together
<1>4. g.nodes \in Nat /\ g.nodes = r.profile.probes - r.probes /\ r.profile.width \in Nat
  BY BudgetIsSound, RunLimits
<1> HIDE DEF g
<1>5. Cardinality(b) <= r.profile.width /\ Cardinality(b) <= g.nodes
  <2>1. /\ Min({r.profile.width, g.nodes}) \in Int
        /\ Min({r.profile.width, g.nodes}) <= r.profile.width /\ Min({r.profile.width, g.nodes}) <= g.nodes
    <3>1. r.profile.width \in Int /\ g.nodes \in Int
      BY <1>4
    <3> QED BY <3>1, SmallerOfTwo, Zenon
  <2> QED BY <1>2, <1>3, <1>4, <2>1
<1>6. ASSUME NEW a \in b PROVE a.seq \notin r.selected /\ a.cost \in Nat /\ a.seq \in SeqsOf(r.world)
  <2>1. a \in r.world.catalog /\ a.cost # None /\ a.seq \notin r.selected
    BY <1>1 DEF replay_candidates, available_actions
  <2> QED BY <2>1, RunLimits DEF SeqsOf
<1> QED BY <1>1, <1>2, <1>3, <1>4, <1>5, <1>6 DEF g

LEMMA HistoryIsPart ==
    ASSUME NEW r, NEW b
    PROVE  Historical(r, b) \subseteq b /\ ObservedOf(r, b) \subseteq Historical(r, b)
  BY DEF Historical, ObservedOf

BestAfter(r, b) == Max({r.best} \cup {lookup_transition(r, a).quality :
                           a \in {a \in ObservedOf(r, b) : lookup_transition(r, a).status = "valid"}})
NewNodes(r, b) == {node_from_transition(r, a) : a \in ObservedOf(r, b)}

\* The fields of a replay after a batch.
LEMMA RevealFields ==
    ASSUME NEW r, RunShape(r), NEW b
    PROVE  LET s == reveal_batch(r, b)
               known == Historical(r, b)
               seen == ObservedOf(r, b)
               best == BestAfter(r, b)
           IN /\ DOMAIN s = ReplayFields /\ s = [f \in ReplayFields |-> s[f]]
              /\ s.world = r.world /\ s.profile = r.profile /\ s.selected = r.selected \cup {a.seq : a \in b}
              /\ s.nodes = r.nodes \cup NewNodes(r, b)
              /\ s.recovered = r.recovered + Cardinality(Recovers(seen))
              /\ s.spent = r.spent + CostOf(known) /\ s.probes = r.probes + Cardinality(known)
              /\ s.best = best /\ s.probe_curve = r.probe_curve \o Repeat(best, Cardinality(known))
              /\ s.round_curve = (IF known = {} THEN r.round_curve ELSE Append(r.round_curve, best))
              /\ s.sizes = (IF known = {} THEN r.sizes ELSE Append(r.sizes, Cardinality(known)))
              /\ s.terminal = batch_terminal(r, b)
  BY DEF RunShape, reveal_batch, ReplayFields, selected_by, probe_points, NewNodes, BestAfter

LEMMA NodeFields ==
    ASSUME NEW r, NEW a
    PROVE  /\ node_from_transition(r, a).seq = a.seq
           /\ node_from_transition(r, a).repairs = IF a.kind = "recover" THEN NodeOf(r, a.target).episode ELSE None
  BY DEF node_from_transition

LEMMA RevealShape ==
    ASSUME NEW r, RunInv(r), NEW b \in decide_batches(r)
    PROVE  RunShape(reveal_batch(r, b))
<1> DEFINE s == reveal_batch(r, b)
<1>0. RunShape(r) /\ NodesSound(r) /\ GrantSound(r)
  BY DEF RunInv
<1>1. /\ DOMAIN s = ReplayFields /\ s = [f \in ReplayFields |-> s[f]]
      /\ s.world = r.world /\ s.profile = r.profile /\ s.selected = r.selected \cup {a.seq : a \in b}
      /\ s.terminal = batch_terminal(r, b)
  BY <1>0, RevealFields
<1>2. s.selected \subseteq SeqsOf(s.world)
  BY <1>0, <1>1, BatchFacts DEF RunShape
<1>3. s.terminal \in Terminals \cup {None}
  BY <1>1 DEF batch_terminal, Terminals
<1> QED BY <1>0, <1>1, <1>2, <1>3 DEF RunShape

LEMMA RevealNodes ==
    ASSUME NEW r, RunInv(r), NEW b \in decide_batches(r)
    PROVE  NodesSound(reveal_batch(r, b))
<1> DEFINE s == reveal_batch(r, b)
           seen == ObservedOf(r, b)
           F == [a \in seen |-> node_from_transition(r, a)]
           New == NewNodes(r, b)
<1>0. RunShape(r) /\ NodesSound(r) /\ GrantSound(r)
  BY DEF RunInv
<1>1. s.nodes = r.nodes \cup New /\ s.selected = r.selected \cup {a.seq : a \in b}
  BY <1>0, RevealFields
<1>2. seen \subseteq b /\ b \subseteq r.world.catalog /\ IsFiniteSet(seen)
  BY <1>0, BatchFacts, HistoryIsPart, FS_Subset
<1>3. F \in Surjection(seen, New)
  BY DEF Surjection, NewNodes
<1>4. IsFiniteSet(New)
  BY <1>2, <1>3, FS_Surjection
<1>5. \A x \in New : \E a \in seen : x = node_from_transition(r, a) /\ x.seq = a.seq
  BY NodeFields DEF NewNodes
<1> HIDE DEF s, seen, New
<1>6. IsFiniteSet(s.nodes)
  <2>1. IsFiniteSet(r.nodes)
    BY <1>0 DEF NodesSound
  <2> QED BY <1>1, <1>4, <2>1, FiniteUnion
<1>7. \A x \in s.nodes : x.seq \in s.selected
  BY <1>0, <1>1, <1>2, <1>5 DEF NodesSound
<1>8. \A x \in New : x.seq \notin r.selected
  BY <1>0, <1>2, <1>5, BatchFacts
<1>9. \A x, y \in New : x.seq = y.seq => x = y
  <2> SUFFICES ASSUME NEW x \in New, NEW y \in New, x.seq = y.seq PROVE x = y
    OBVIOUS
  <2>1. PICK a \in seen : x = node_from_transition(r, a) /\ x.seq = a.seq
    BY <1>5
  <2>2. PICK c \in seen : y = node_from_transition(r, c) /\ y.seq = c.seq
    BY <1>5
  <2>3. a = c
    BY <1>0, <1>2, <2>1, <2>2, RunLimits
  <2> QED BY <2>1, <2>2, <2>3
<1>10. \A x, y \in s.nodes : x.seq = y.seq => x = y
  BY <1>0, <1>1, <1>8, <1>9 DEF NodesSound
<1> QED BY <1>6, <1>7, <1>10 DEF NodesSound, s

LEMMA PartCosts ==
    ASSUME NEW b, IsFiniteSet(b), \A a \in b : a.cost \in Nat, NEW c, c \subseteq b
    PROVE  CostOf(c) \in Nat /\ CostOf(b) \in Nat /\ CostOf(c) <= CostOf(b)
<1> DEFINE f == [a \in b |-> a.cost]
           e == [a \in c |-> a.cost]
<1>1. \A a \in b : f[a] \in Nat
  OBVIOUS
<1>2. IsFiniteSet(c) /\ \A a \in c : e[a] = f[a]
  BY FS_Subset
<1>3. CostOf(b) = SumFunctionOnSet(f, b) /\ CostOf(c) = SumFunctionOnSet(e, c)
  BY DEF CostOf
<1> HIDE DEF e, f
<1>4. SumFunctionOnSet(e, c) = SumFunctionOnSet(f, c)
  BY <1>2, SumSame
<1> QED BY <1>1, <1>3, <1>4, SumOfPart

LEMMA RevealGrant ==
    ASSUME NEW r, RunInv(r), NEW b \in decide_batches(r)
    PROVE  GrantSound(reveal_batch(r, b))
<1> DEFINE s == reveal_batch(r, b)
           known == Historical(r, b)
           seen == ObservedOf(r, b)
           g == replay_runtime_budget(r)
<1>0. RunShape(r) /\ NodesSound(r) /\ GrantSound(r)
  BY DEF RunInv
<1>1. /\ s.world = r.world /\ s.profile = r.profile
      /\ s.recovered = r.recovered + Cardinality(Recovers(seen))
      /\ s.spent = r.spent + CostOf(known) /\ s.probes = r.probes + Cardinality(known)
  BY <1>0, RevealFields
<1>2. seen \subseteq known /\ known \subseteq b
  BY HistoryIsPart
<1>3. /\ IsFiniteSet(b) /\ Cardinality(b) \in Nat /\ \A a \in b : a.cost \in Nat
      /\ Cardinality(b) <= r.profile.probes - r.probes
      /\ Cardinality(Recovers(b)) <= g.recoveries /\ CostOf(b) <= g.micros
  BY <1>0, BatchFacts
<1>4. Cardinality(known) \in Nat /\ Cardinality(known) <= Cardinality(b)
  BY <1>2, <1>3, FS_Subset, FS_CardinalityType
<1>5. Recovers(seen) \subseteq Recovers(b) /\ Recovers(b) \subseteq b
  BY <1>2 DEF Recovers
<1>6. /\ Cardinality(Recovers(seen)) \in Nat /\ Cardinality(Recovers(b)) \in Nat
      /\ Cardinality(Recovers(seen)) <= Cardinality(Recovers(b))
  BY <1>3, <1>5, FS_Subset, FS_CardinalityType
<1>7. CostOf(known) \in Nat /\ CostOf(b) \in Nat /\ CostOf(known) <= CostOf(b)
  BY <1>2, <1>3, PartCosts
<1>8. /\ g.recoveries \in Int /\ g.recoveries <= r.profile.recoveries - r.recovered
      /\ r.world.roots # None => g.recoveries <= r.world.recoveries - r.recovered /\ g.micros = r.world.grant - r.spent
  BY <1>0, BudgetIsSound
<1>9. /\ r.probes \in Nat /\ r.spent \in Nat /\ r.recovered \in Nat
      /\ r.profile.probes \in Nat /\ r.profile.recoveries \in Nat /\ r.world.recoveries \in Nat /\ r.world.grant \in Nat
  BY <1>0, RunLimits DEF GrantSound
<1> HIDE DEF s, known, seen, g
<1>10. s.probes \in Nat /\ s.probes <= s.profile.probes
  BY <1>1, <1>3, <1>4, <1>9
<1>11. /\ s.recovered \in Nat /\ s.recovered <= s.profile.recoveries
       /\ s.world.roots # None => s.recovered <= s.world.recoveries
  BY <1>1, <1>3, <1>6, <1>8, <1>9
<1>12. s.spent \in Nat /\ (s.world.roots # None => s.spent <= s.world.grant)
  BY <1>1, <1>3, <1>7, <1>8, <1>9
<1> QED BY <1>10, <1>11, <1>12 DEF GrantSound, s

LEMMA RevealRepairs ==
    ASSUME NEW r, RunInv(r), NEW b \in decide_batches(r)
    PROVE  RepairsSound(reveal_batch(r, b))
<1> DEFINE s == reveal_batch(r, b)
           seen == ObservedOf(r, b)
           New == NewNodes(r, b)
<1>0. RunShape(r) /\ NodesSound(r) /\ GrantSound(r) /\ RepairsSound(r)
  BY DEF RunInv
<1>1. s.nodes = r.nodes \cup New
  BY <1>0, RevealFields
<1>2. seen \subseteq b /\ b \subseteq replay_candidates(r) /\ IsFiniteSet(b) /\ one_repair_an_episode(b)
  BY <1>0, BatchFacts, HistoryIsPart
<1>3. ASSUME NEW a \in Recovers(b), NEW c \in Recovers(b), a.episode = c.episode PROVE a = c
  <2> DEFINE f == [x \in Recovers(b) |-> x.episode]
  <2>1. IsFiniteSet(Recovers(b))
    BY <1>2, FS_Subset DEF Recovers
  <2>2. f \in Surjection(Recovers(b), Episodes(b))
    BY DEF Surjection, Episodes, Recovers
  <2>3. f \in Injection(Recovers(b), Episodes(b))
    BY <1>2, <2>1, <2>2, FS_Surjection DEF one_repair_an_episode
  <2> QED BY <1>3, <2>3 DEF Injection, IsInjective
<1>4. \A a \in Recovers(b) : repair_open(r, a)
  BY <1>2 DEF Recovers, replay_candidates
<1>5. \A a \in Recovers(b) : NodeOf(r, a.target).episode = a.episode /\ Repairs(r, a.episode) < R_MAX_REPAIR
  BY <1>4 DEF repair_open
<1>6. \A x \in New : x.repairs # None => \E a \in Recovers(b) : x = node_from_transition(r, a) /\ x.repairs = a.episode
  <2> SUFFICES ASSUME NEW a \in seen, node_from_transition(r, a).repairs # None
               PROVE  a \in Recovers(b) /\ node_from_transition(r, a).repairs = a.episode
    BY DEF NewNodes
  <2>1. a.kind = "recover" /\ node_from_transition(r, a).repairs = NodeOf(r, a.target).episode
    BY NodeFields
  <2> QED BY <1>2, <1>5, <2>1 DEF Recovers
<1> HIDE DEF s, seen, New
<1> SUFFICES ASSUME NEW e, e # None PROVE Repairs(s, e) <= R_MAX_REPAIR
  BY DEF RepairsSound, s
<1> DEFINE Old == {x \in r.nodes : x.repairs = e /\ e # None}
           Now == {x \in s.nodes : x.repairs = e /\ e # None}
<1>7. /\ IsFiniteSet(Old) /\ Cardinality(Old) \in Nat /\ Repairs(r, e) = Cardinality(Old) /\ Repairs(s, e) = Cardinality(Now)
      /\ Cardinality(Old) <= R_MAX_REPAIR /\ R_MAX_REPAIR \in Nat
  BY <1>0, FS_Subset, FS_CardinalityType, RunLimits DEF NodesSound, Repairs, RepairsSound
<1>8. CASE \E a \in Recovers(b) : a.episode = e
  <2>1. PICK a \in Recovers(b) : a.episode = e
    BY <1>8
  <2>2. Now \subseteq Old \cup {node_from_transition(r, a)}
    BY <1>1, <1>3, <1>6, <2>1
  <2>3. /\ IsFiniteSet(Old \cup {node_from_transition(r, a)})
        /\ Cardinality(Old \cup {node_from_transition(r, a)}) <= Cardinality(Old) + 1
    <3> HIDE DEF Old
    <3> QED BY <1>7, OneMore, Zenon
  <2>4. Cardinality(Now) <= Cardinality(Old \cup {node_from_transition(r, a)}) /\ Cardinality(Now) \in Nat
        /\ Cardinality(Old \cup {node_from_transition(r, a)}) \in Nat
    BY <2>2, <2>3, FS_Subset, FS_CardinalityType
  <2>5. Cardinality(Old) < R_MAX_REPAIR
    BY <1>5, <1>7, <2>1
  <2> HIDE DEF Old, Now
  <2> QED BY <1>7, <2>3, <2>4, <2>5
<1>9. CASE ~ \E a \in Recovers(b) : a.episode = e
  <2>1. Now \subseteq Old
    BY <1>1, <1>6, <1>9
  <2>2. Cardinality(Now) <= Cardinality(Old) /\ Cardinality(Now) \in Nat
    BY <1>7, <2>1, FS_Subset, FS_CardinalityType
  <2> QED BY <1>7, <2>2
<1> QED BY <1>8, <1>9

LEMMA RevealSupport ==
    ASSUME NEW r, RunInv(r), r.terminal = None, NEW b \in decide_batches(r)
    PROVE  SupportSound(reveal_batch(r, b))
<1> DEFINE s == reveal_batch(r, b)
<1>0. RunShape(r) /\ NodesSound(r) /\ GrantSound(r) /\ Supported(r.world, r.selected)
  BY DEF RunInv, SupportSound
<1>1. /\ s.world = r.world /\ s.selected = r.selected \cup {a.seq : a \in b}
      /\ s.terminal = batch_terminal(r, b)
  BY <1>0, RevealFields
<1>2. s.terminal \in {"censored", "out_of_support", None} /\ None \notin Terminals
  BY <1>1, ReplayAbsent DEF batch_terminal
<1>3. s.terminal # "policy_stop" /\ s.terminal # "budget_exhausted"
  BY <1>2 DEF Terminals
<1>4. b \subseteq r.world.catalog
  BY <1>0, BatchFacts
<1>5. ASSUME s.terminal = None, NEW a \in b
      PROVE  /\ a.seq \in DOMAIN r.world.rec
             /\ r.world.rec[a.seq].outcome = "observed" /\ r.world.rec[a.seq].status # "uncertain"
  <2>1. CensoredOf(r, b) = {} /\ Historical(r, b) = b
    BY <1>1, <1>2, <1>5 DEF batch_terminal, Terminals
  <2>2. a \in Historical(r, b) /\ lookup_transition(r, a) # None /\ lookup_transition(r, a).outcome # "oos"
    BY <2>1 DEF Historical
  <2>3. a.seq \in DOMAIN r.world.rec /\ lookup_transition(r, a) = r.world.rec[a.seq]
    BY <2>2 DEF lookup_transition
  <2>4. r.world.rec[a.seq].outcome # "censored" /\ r.world.rec[a.seq].status # "uncertain"
    BY <2>1, <2>2, <2>3 DEF CensoredOf
  <2> QED BY <1>0, <2>2, <2>3, <2>4, RunLimits
<1>6. ASSUME s.terminal = None PROVE Supported(s.world, s.selected)
  <2> SUFFICES ASSUME NEW a \in r.world.catalog, a.seq \in s.selected
               PROVE  /\ a.seq \in DOMAIN r.world.rec
                      /\ r.world.rec[a.seq].outcome = "observed" /\ r.world.rec[a.seq].status # "uncertain"
    BY <1>1 DEF Supported
  <2>1. CASE a.seq \in r.selected
    BY <1>0, <2>1 DEF Supported
  <2>2. CASE \E c \in b : a.seq = c.seq
    <3>1. PICK c \in b : a.seq = c.seq
      BY <2>2
    <3>2. a = c
      BY <1>0, <1>4, <3>1, RunLimits
    <3> QED BY <1>5, <1>6, <3>2
  <2> QED BY <1>1, <2>1, <2>2
<1> HIDE DEF s
<1> QED BY <1>3, <1>6 DEF SupportSound, s


-----------------------------------------------------------------------------
(* The curves.                                                             *)

LEMMA CurveGoesOn ==
    ASSUME NEW s, NEW old \in Int, NEW best \in Int, old <= best, Curve(s, old),
           NEW t \in Seq(Int), NEW n \in Nat, Len(t) = Len(s) + n,
           \A i \in 1..Len(s) : t[i] = s[i],
           \A i \in (Len(s) + 1)..(Len(s) + n) : t[i] = best
    PROVE  Curve(t, best)
<1> DEFINE m == Len(s)
<1>1. /\ m \in Nat /\ s \in Seq(Int) /\ \A i \in 1..m : s[i] \in Int /\ s[i] <= old
      /\ \A i \in 1..(m - 1) : s[i] <= s[i + 1]
  BY DEF Curve
<1>2. Len(t) = m + n /\ (\A i \in 1..m : t[i] = s[i]) /\ (\A i \in (m + 1)..(m + n) : t[i] = best)
  OBVIOUS
<1> HIDE DEF m
<1>3. ASSUME NEW i \in 1..Len(t) PROVE t[i] \in Int /\ t[i] <= best
  <2>0. i \in 1..(m + n)
    BY <1>2
  <2>1. CASE i \in 1..m
    <3>1. t[i] = s[i] /\ s[i] \in Int /\ s[i] <= old
      BY <1>1, <1>2, <2>1
    <3> QED BY <3>1
  <2>2. CASE i \in (m + 1)..(m + n)
    BY <1>2, <2>2
  <2> QED BY <1>1, <2>0, <2>1, <2>2
<1>4. ASSUME NEW i \in 1..(Len(t) - 1) PROVE t[i] <= t[i + 1]
  <2>a. Len(t) \in Nat
    OBVIOUS
  <2>0. i \in 1..Len(t) /\ i + 1 \in 1..Len(t)
    BY <2>a
  <2>b. i + 1 <= m + n /\ i \in Nat /\ i >= 1
    BY <1>2, <2>0
  <2>1. CASE i \in 1..(m - 1)
    <3>1. i \in 1..m /\ i + 1 \in 1..m
      BY <1>1, <2>1
    <3> QED BY <1>1, <1>2, <2>1, <3>1
  <2>2. CASE i + 1 \in (m + 1)..(m + n)
    BY <1>2, <1>3, <2>0, <2>2
  <2> QED BY <1>1, <2>b, <2>1, <2>2
<1> QED BY <1>3, <1>4 DEF Curve

\* The sequence t is s with n times v behind it.
GoesOn(t, s, v, n) ==
    /\ t \in Seq(Int) /\ Len(t) = Len(s) + n
    /\ \A i \in 1..Len(s) : t[i] = s[i]
    /\ \A i \in (Len(s) + 1)..(Len(s) + n) : t[i] = v

LEMMA RepeatedAtEnd ==
    ASSUME NEW s \in Seq(Int), NEW v \in Int, NEW n \in Nat
    PROVE  GoesOn(s \o Repeat(v, n), s, v, n)
<1> DEFINE u == Repeat(v, n)
<1>1. u \in Seq(Int) /\ Len(u) = n /\ \A k \in 1..n : u[k] = v
  <2>1. u = [k \in 1..n |-> v] /\ u \in [1..n -> Int]
    BY DEF Repeat
  <2>2. u \in Seq(Int)
    BY <2>1 DEF Seq
  <2>3. DOMAIN u = 1..n
    BY <2>1
  <2>4. Len(u) = n
    BY <2>2, <2>3, LenProperties
  <2> QED BY <2>1, <2>2, <2>4
<1> HIDE DEF u
<1>2. /\ s \o u \in Seq(Int) /\ Len(s \o u) = Len(s) + Len(u)
      /\ \A k \in 1..(Len(s) + Len(u)) : (s \o u)[k] = IF k <= Len(s) THEN s[k] ELSE u[k - Len(s)]
  BY <1>1, ConcatProperties
<1>3. Len(s) \in Nat
  OBVIOUS
<1>4. ASSUME NEW k \in 1..Len(s) PROVE (s \o u)[k] = s[k]
  BY <1>1, <1>2, <1>3
<1>5. ASSUME NEW k \in (Len(s) + 1)..(Len(s) + n) PROVE (s \o u)[k] = v
  <2>1. k \in 1..(Len(s) + Len(u)) /\ ~(k <= Len(s)) /\ k - Len(s) \in 1..n
    BY <1>1, <1>3
  <2> QED BY <1>1, <1>2, <2>1
<1> QED BY <1>1, <1>2, <1>4, <1>5 DEF u, GoesOn

LEMMA BestRises ==
    ASSUME NEW r, RunInv(r), NEW b \in decide_batches(r)
    PROVE  BestAfter(r, b) \in Int /\ r.best <= BestAfter(r, b)
<1> DEFINE V == {a \in ObservedOf(r, b) : lookup_transition(r, a).status = "valid"}
           Q == {lookup_transition(r, a).quality : a \in V}
           f == [a \in V |-> lookup_transition(r, a).quality]
<1>0. RunShape(r) /\ NodesSound(r) /\ GrantSound(r) /\ r.best \in Int
  BY DEF RunInv, CurvesSound
<1>1. V \subseteq b /\ V \subseteq Historical(r, b)
  BY HistoryIsPart
<1>2. IsFiniteSet(V)
  BY <1>0, <1>1, BatchFacts, FS_Subset
<1>3. f \in Surjection(V, Q)
  BY DEF Surjection
<1>4. IsFiniteSet(Q)
  BY <1>2, <1>3, FS_Surjection
<1>5. \A a \in V : lookup_transition(r, a).quality \in Int
  <2> SUFFICES ASSUME NEW a \in V PROVE lookup_transition(r, a).quality \in Int
    OBVIOUS
  <2>1. a.seq \in DOMAIN r.world.rec /\ lookup_transition(r, a) = r.world.rec[a.seq]
    BY <1>1 DEF Historical, lookup_transition
  <2> QED BY <1>0, <2>1, RunLimits
<1>6. Q \subseteq Int
  BY <1>5
<1> DEFINE S == {r.best} \cup Q
<1>7. BestAfter(r, b) = Max(S)
  BY DEF BestAfter
<1>8. IsFiniteSet(S) /\ S \subseteq Int /\ S # {} /\ r.best \in S
  <2> HIDE DEF Q
  <2>1. IsFiniteSet({r.best})
    BY FS_Singleton
  <2> QED BY <1>0, <1>4, <1>6, <2>1, FiniteUnion
<1> HIDE DEF S
<1>9. Max(S) \in S /\ \A y \in S : Max(S) >= y
  BY <1>8, LargestMember
<1>10. Max(S) \in Int /\ r.best <= Max(S)
  BY <1>0, <1>8, <1>9
<1> QED BY <1>7, <1>10

LEMMA UpToIsFinite == ASSUME NEW n \in Int PROVE IsFiniteSet(1..n)
<1>1. 1 \in Int
  OBVIOUS
<1> QED BY <1>1, FS_Interval, Zenon

LEMMA SumUpTo ==
    ASSUME NEW f, NEW n \in Nat \ {0}, \A x \in 1..n : f[x] \in Nat
    PROVE  /\ SumFunctionOnSet(f, 1..n) \in Nat /\ SumFunctionOnSet(f, 1..(n - 1)) \in Nat
           /\ SumFunctionOnSet(f, 1..n) = f[n] + SumFunctionOnSet(f, 1..(n - 1))
<1> DEFINE S == 1..n
           T == 1..(n - 1)
<1>1. T = S \ {n} /\ n \in S
  OBVIOUS
<1>2. IsFiniteSet(S)
  BY UpToIsFinite
<1>3. \A x \in S : f[x] \in Nat
  OBVIOUS
<1> HIDE DEF S, T
<1>4. /\ SumFunctionOnSet(f, S) \in Nat /\ SumFunctionOnSet(f, S \ {n}) \in Nat
      /\ SumFunctionOnSet(f, S) = f[n] + SumFunctionOnSet(f, S \ {n})
  BY <1>1, <1>2, <1>3, SumWithout, Zenon
<1> QED BY <1>1, <1>4 DEF S, T

\* What was counted before a round and in it is within what was counted.
LEMMA RoundsWithin ==
    ASSUME NEW sizes \in Seq(Nat), NEW k \in 1..Len(sizes)
    PROVE  /\ SizesBefore(sizes, k) \in Nat /\ sizes[k] \in Nat
           /\ SumFunctionOnSet(sizes, 1..Len(sizes)) \in Nat
           /\ SizesBefore(sizes, k) + sizes[k] <= SumFunctionOnSet(sizes, 1..Len(sizes))
<1> DEFINE S == 1..Len(sizes)
<1>0. Len(sizes) \in Nat /\ k \in Nat
  OBVIOUS
<1>1. IsFiniteSet(S) /\ \A x \in S : sizes[x] \in Nat
  <2>1. IsFiniteSet(S)
    BY <1>0, UpToIsFinite
  <2> QED BY <2>1
<1>2. 1..k \subseteq S /\ k \in S
  BY <1>0
<1>3. /\ SumFunctionOnSet(sizes, 1..k) \in Nat /\ SumFunctionOnSet(sizes, 1..(k - 1)) \in Nat
      /\ SumFunctionOnSet(sizes, 1..k) = sizes[k] + SumFunctionOnSet(sizes, 1..(k - 1))
  <2>1. k \in Nat \ {0} /\ \A x \in 1..k : sizes[x] \in Nat
    BY <1>0, <1>1, <1>2
  <2> QED BY <2>1, SumUpTo
<1>5. SumFunctionOnSet(sizes, 1..k) <= SumFunctionOnSet(sizes, S) /\ SumFunctionOnSet(sizes, S) \in Nat
  <2> DEFINE T == 1..k
  <2>1. T \subseteq S
    BY <1>2
  <2> HIDE DEF S, T
  <2>2. SumFunctionOnSet(sizes, T) <= SumFunctionOnSet(sizes, S) /\ SumFunctionOnSet(sizes, S) \in Nat
    BY <1>1, <2>1, SumOfPart
  <2> QED BY <2>2 DEF T
<1>7. sizes[k] \in Nat
  BY <1>1, <1>2
<1> QED BY <1>3, <1>5, <1>7 DEF SizesBefore

LEMMA RevealCurves ==
    ASSUME NEW r, RunInv(r), NEW b \in decide_batches(r)
    PROVE  CurvesSound(reveal_batch(r, b))
<1> DEFINE s == reveal_batch(r, b)
           known == Historical(r, b)
           n == Cardinality(known)
           best == BestAfter(r, b)
           L == Len(r.sizes)
<1>0. RunShape(r) /\ NodesSound(r) /\ GrantSound(r) /\ CurvesSound(r)
  BY DEF RunInv
<1>1. best \in Int /\ r.best <= best /\ r.best \in Int
  BY <1>0, BestRises DEF CurvesSound
<1>2. /\ s.profile = r.profile /\ s.probes = r.probes + n /\ s.best = best
      /\ s.probe_curve = r.probe_curve \o Repeat(best, n)
      /\ s.round_curve = (IF known = {} THEN r.round_curve ELSE Append(r.round_curve, best))
      /\ s.sizes = (IF known = {} THEN r.sizes ELSE Append(r.sizes, n))
  BY <1>0, RevealFields
<1>3. IsFiniteSet(known) /\ n \in Nat /\ (known = {} <=> n = 0) /\ n <= r.profile.width /\ r.profile.width \in Nat
  <2>1. IsFiniteSet(known) /\ n <= Cardinality(b) /\ n \in Nat
    BY <1>0, BatchFacts, HistoryIsPart, FS_Subset, FS_CardinalityType
  <2>2. Cardinality(b) <= r.profile.width /\ Cardinality(b) \in Nat /\ r.profile.width \in Nat
    BY <1>0, BatchFacts, RunLimits
  <2>3. known = {} <=> n = 0
    BY <2>1, FS_EmptySet
  <2> QED BY <2>1, <2>2, <2>3
<1>4. /\ Curve(r.probe_curve, r.best) /\ Curve(r.round_curve, r.best)
      /\ r.probe_curve \in Seq(Int) /\ r.round_curve \in Seq(Int) /\ r.sizes \in Seq(Nat)
      /\ L \in Nat /\ r.probes \in Nat
      /\ Len(r.probe_curve) = r.probes /\ Len(r.round_curve) = L /\ L <= r.probes
      /\ SumFunctionOnSet(r.sizes, 1..L) = r.probes
      /\ \A k \in 1..L : r.sizes[k] \in 1..r.profile.width /\ RoundSound(r.probe_curve, r.round_curve, r.sizes, k)
  BY <1>0 DEF CurvesSound, Curve, GrantSound
<1> HIDE DEF s, known, n, best, L
<1>5. /\ s.probe_curve \in Seq(Int) /\ Len(s.probe_curve) = r.probes + n
      /\ \A i \in 1..r.probes : s.probe_curve[i] = r.probe_curve[i]
      /\ \A i \in (r.probes + 1)..(r.probes + n) : s.probe_curve[i] = best
  <2> DEFINE c == r.probe_curve
             d == s.probe_curve
  <2>1. c \in Seq(Int) /\ best \in Int /\ n \in Nat /\ d = c \o Repeat(best, n) /\ Len(c) = r.probes
    BY <1>1, <1>2, <1>3, <1>4
  <2> HIDE DEF c, d
  <2>2. /\ d \in Seq(Int) /\ Len(d) = Len(c) + n
        /\ \A i \in 1..Len(c) : d[i] = c[i]
        /\ \A i \in (Len(c) + 1)..(Len(c) + n) : d[i] = best
    <3>1. GoesOn(c \o Repeat(best, n), c, best, n)
      BY <2>1, RepeatedAtEnd
    <3>2. GoesOn(d, c, best, n)
      BY <2>1, <3>1
    <3> QED BY <3>2 DEF GoesOn
  <2> QED BY <2>1, <2>2 DEF c, d
<1>6. Curve(s.probe_curve, best)
  BY <1>1, <1>3, <1>4, <1>5, CurveGoesOn
<1>7. ASSUME NEW k \in 1..L
      PROVE  /\ SizesBefore(r.sizes, k) \in Nat /\ r.sizes[k] \in Nat
             /\ SizesBefore(r.sizes, k) + r.sizes[k] <= r.probes
  BY <1>4, RoundsWithin DEF L
<1>8. CASE known = {}
  <2>1. n = 0 /\ s.round_curve = r.round_curve /\ s.sizes = r.sizes /\ s.probes = r.probes /\ Len(s.probe_curve) = r.probes
    BY <1>2, <1>3, <1>4, <1>5, <1>8
  <2>2. Curve(s.round_curve, best)
    <3> DEFINE c == r.round_curve
    <3>1. c \in Seq(Int) /\ Len(c) \in Nat /\ 0 \in Nat /\ Len(c) = Len(c) + 0 /\ Curve(c, r.best)
      BY <1>4
    <3>2. \A i \in (Len(c) + 1)..(Len(c) + 0) : c[i] = best
      BY <3>1
    <3> HIDE DEF c
    <3>3. Curve(c, best)
      BY <1>1, <3>1, <3>2, CurveGoesOn
    <3> QED BY <2>1, <3>3 DEF c
  <2>3. ASSUME NEW k \in 1..L PROVE RoundSound(s.probe_curve, s.round_curve, s.sizes, k)
    <3> SUFFICES ASSUME NEW i \in (SizesBefore(r.sizes, k) + 1)..(SizesBefore(r.sizes, k) + r.sizes[k])
                 PROVE  s.probe_curve[i] = r.round_curve[k]
      BY <2>1 DEF RoundSound
    <3>1. i \in 1..r.probes
      <4>1. /\ SizesBefore(r.sizes, k) \in Nat /\ r.sizes[k] \in Nat /\ r.probes \in Nat
            /\ SizesBefore(r.sizes, k) + r.sizes[k] <= r.probes
        BY <1>4, <1>7
      <4> QED BY <4>1
    <3>2. r.probe_curve[i] = r.round_curve[k]
      BY <1>4 DEF RoundSound
    <3> QED BY <1>5, <3>1, <3>2
  <2> QED BY <1>1, <1>2, <1>4, <1>6, <2>1, <2>2, <2>3 DEF CurvesSound, L, s
<1>9. CASE known # {}
  <2>1. n >= 1 /\ s.round_curve = Append(r.round_curve, best) /\ s.sizes = Append(r.sizes, n)
    BY <1>2, <1>3, <1>9
  <2>2. /\ s.round_curve \in Seq(Int) /\ Len(s.round_curve) = L + 1
        /\ \A i \in 1..L : s.round_curve[i] = r.round_curve[i]
        /\ s.round_curve[L + 1] = best
    BY <1>1, <1>4, <2>1
  <2>3. /\ s.sizes \in Seq(Nat) /\ Len(s.sizes) = L + 1
        /\ \A i \in 1..L : s.sizes[i] = r.sizes[i]
        /\ s.sizes[L + 1] = n
    BY <1>3, <1>4, <2>1 DEF L
  <2>4. Curve(s.round_curve, best)
    <3> DEFINE c == r.round_curve
               d == s.round_curve
    <3>1. /\ d \in Seq(Int) /\ Len(c) \in Nat /\ 1 \in Nat /\ Len(d) = Len(c) + 1 /\ Curve(c, r.best)
          /\ (\A i \in 1..Len(c) : d[i] = c[i]) /\ d[Len(c) + 1] = best
      BY <1>4, <2>2
    <3> HIDE DEF c, d
    <3>2. \A i \in (Len(c) + 1)..(Len(c) + 1) : d[i] = best
      BY <3>1
    <3>3. Curve(d, best)
      BY <1>1, <3>1, <3>2, CurveGoesOn
    <3> QED BY <3>3 DEF d
  <2>5. ASSUME NEW k \in 1..(L + 1) PROVE SizesBefore(s.sizes, k) = SizesBefore(r.sizes, k)
    <3> DEFINE S == 1..(k - 1)
    <3>1. \A x \in S : s.sizes[x] = r.sizes[x]
      BY <1>4, <2>3
    <3>2. k - 1 \in Int
      BY <1>4
    <3>3. IsFiniteSet(S)
      BY <3>2, UpToIsFinite
    <3> HIDE DEF S
    <3>4. SumFunctionOnSet(s.sizes, S) = SumFunctionOnSet(r.sizes, S)
      BY <3>1, <3>3, SumSame
    <3> QED BY <3>4 DEF SizesBefore, S
  <2>6. SizesBefore(r.sizes, L + 1) = r.probes
    <3>1. 1..(L + 1 - 1) = 1..L
      BY <1>4
    <3> QED BY <1>4, <3>1 DEF SizesBefore
  <2>7. SumFunctionOnSet(s.sizes, 1..(L + 1)) = r.probes + n
    <3>1. L + 1 \in Nat \ {0} /\ \A x \in 1..(L + 1) : s.sizes[x] \in Nat
      BY <1>4, <2>3
    <3>2. SumFunctionOnSet(s.sizes, 1..(L + 1)) = s.sizes[L + 1] + SizesBefore(s.sizes, L + 1)
      BY <3>1, SumUpTo DEF SizesBefore
    <3>3. SizesBefore(s.sizes, L + 1) = r.probes
      <4>1. L + 1 \in 1..(L + 1)
        BY <1>4
      <4> QED BY <2>5, <2>6, <4>1
    <3> QED BY <1>3, <1>4, <2>3, <3>2, <3>3
  <2>8. ASSUME NEW k \in 1..(L + 1)
        PROVE  s.sizes[k] \in 1..r.profile.width /\ RoundSound(s.probe_curve, s.round_curve, s.sizes, k)
    <3>1. CASE k \in 1..L
      <4>1. s.sizes[k] = r.sizes[k] /\ s.round_curve[k] = r.round_curve[k] /\ SizesBefore(s.sizes, k) = SizesBefore(r.sizes, k)
        BY <2>2, <2>3, <2>5, <3>1
      <4>2. ASSUME NEW i \in (SizesBefore(r.sizes, k) + 1)..(SizesBefore(r.sizes, k) + r.sizes[k])
            PROVE  s.probe_curve[i] = s.round_curve[k]
        <5>1. i \in 1..r.probes
          <6>1. /\ SizesBefore(r.sizes, k) \in Nat /\ r.sizes[k] \in Nat /\ r.probes \in Nat
                /\ SizesBefore(r.sizes, k) + r.sizes[k] <= r.probes
            BY <1>4, <1>7, <3>1
          <6> QED BY <6>1
        <5>2. r.probe_curve[i] = r.round_curve[k]
          BY <1>4, <3>1 DEF RoundSound
        <5> QED BY <1>5, <4>1, <5>1, <5>2
      <4>3. r.sizes[k] \in 1..r.profile.width
        BY <1>4, <3>1
      <4> QED BY <4>1, <4>2, <4>3 DEF RoundSound
    <3>2. CASE k = L + 1
      <4>1. s.sizes[k] = n /\ s.round_curve[k] = best /\ SizesBefore(s.sizes, k) = r.probes
        BY <2>2, <2>3, <2>5, <2>6, <3>2
      <4>2. n \in 1..r.profile.width
        BY <1>3, <2>1
      <4> QED BY <1>5, <4>1, <4>2 DEF RoundSound
    <3> QED BY <1>4, <3>1, <3>2
  <2>9. L + 1 <= r.probes + n
    BY <1>3, <1>4, <2>1
  <2> QED BY <1>1, <1>2, <1>5, <1>6, <2>2, <2>3, <2>4, <2>7, <2>8, <2>9 DEF CurvesSound, s
<1> QED BY <1>8, <1>9

-----------------------------------------------------------------------------
(* The steps.                                                              *)

\* A replay that ends changes nothing else.
LEMMA EndFields ==
    ASSUME NEW r, RunShape(r), NEW t \in Terminals
    PROVE  LET s == [r EXCEPT !.terminal = t] IN
           /\ RunShape(s) /\ s.terminal = t
           /\ s.world = r.world /\ s.profile = r.profile /\ s.selected = r.selected /\ s.nodes = r.nodes
           /\ s.recovered = r.recovered /\ s.spent = r.spent /\ s.probes = r.probes /\ s.best = r.best
           /\ s.probe_curve = r.probe_curve /\ s.round_curve = r.round_curve /\ s.sizes = r.sizes
  BY DEF RunShape, ReplayFields

LEMMA EndKeeps ==
    ASSUME NEW r, RunInv(r), r.terminal = None, NEW t \in Terminals, t = "policy_stop" => StopSound(r)
    PROVE  RunInv([r EXCEPT !.terminal = t])
<1> DEFINE s == [r EXCEPT !.terminal = t]
<1>0. RunShape(r) /\ Supported(r.world, r.selected)
  BY DEF RunInv, SupportSound
<1>1. /\ RunShape(s) /\ s.terminal = t
      /\ s.world = r.world /\ s.profile = r.profile /\ s.selected = r.selected /\ s.nodes = r.nodes
      /\ s.recovered = r.recovered /\ s.spent = r.spent /\ s.probes = r.probes /\ s.best = r.best
      /\ s.probe_curve = r.probe_curve /\ s.round_curve = r.round_curve /\ s.sizes = r.sizes
  BY <1>0, EndFields
<1> HIDE DEF s
<1>2. NodesSound(s) /\ GrantSound(s)
  BY <1>1 DEF RunInv, NodesSound, GrantSound
<1>3. RepairsSound(s)
  BY <1>1 DEF RunInv, RepairsSound, Repairs
<1>4. SupportSound(s)
  <2>1. StopSound(r) => StopSound(s)
    BY <1>1 DEF StopSound, CanDeepen
  <2> QED BY <1>0, <1>1, <2>1 DEF SupportSound
<1>5. CurvesSound(s)
  BY <1>1 DEF RunInv, CurvesSound
<1> QED BY <1>1, <1>2, <1>3, <1>4, <1>5 DEF RunInv, s

\* A policy that stops of itself: no context that could go on is missing.
LEMMA FrontierIsSound ==
    ASSUME NEW r, RunInv(r)
    PROVE  empty_legal_frontier(r) \in Terminals /\ (empty_legal_frontier(r) = "policy_stop" => StopSound(r))
<1>1. empty_legal_frontier(r) \in {"policy_stop", "out_of_support", "world_exhausted"}
  BY DEF empty_legal_frontier
<1>2. Cardinality(r.nodes) \in Nat /\ R_MAX_NODES \in Nat
  BY FS_CardinalityType, RunLimits DEF RunInv, NodesSound
<1>3. ASSUME empty_legal_frontier(r) = "policy_stop", Cardinality(r.nodes) < R_MAX_NODES
      PROVE  r.world.roots # None /\ MissingContexts(r) = {}
  <2>1. ~(Cardinality(r.nodes) >= R_MAX_NODES)
    BY <1>2, <1>3
  <2> QED BY <1>3, <2>1 DEF empty_legal_frontier
<1>4. ASSUME MissingContexts(r) = {}, NEW root \in r.world.roots
      PROVE  \E a \in r.world.catalog : a.kind = "widen" /\ a.slot = root.slot
  <2>1. CASE root \in Unopened(r)
    BY <1>4, <2>1 DEF MissingContexts
  <2>2. CASE root \notin Unopened(r)
    BY <2>2 DEF Unopened
  <2> QED BY <2>1, <2>2
<1>5. ASSUME MissingContexts(r) = {}, NEW x \in r.nodes, x.depth < R_MAX_DEPTH, CanDeepen(r, x)
      PROVE  \E a \in r.world.catalog : a.kind = "deepen" /\ a.target = x.seq
  <2>1. Successors(r, x) # {}
    BY <1>5 DEF MissingContexts
  <2>2. PICK a \in r.world.catalog : a.target = x.seq /\ ((a.kind = "deepen" /\ CanDeepen(r, x)) \/ (a.kind = "recover" /\ CanRecover(r, x)))
    BY <2>1 DEF Successors
  <2>3. ~CanRecover(r, x)
    BY <1>5 DEF CanDeepen, CanRecover, Repairable
  <2> QED BY <2>2, <2>3
<1>6. empty_legal_frontier(r) = "policy_stop" => StopSound(r)
  BY <1>3, <1>4, <1>5 DEF StopSound
<1> QED BY <1>1, <1>6 DEF Terminals

LEMMA RunInvNext == RunInv(replay) /\ [replay_next]_replay => RunInv(replay')
<1> SUFFICES ASSUME RunInv(replay), replay_next PROVE RunInv(replay')
  OBVIOUS
<1>1. CASE replay_fails
  <2>1. "failed" \in Terminals /\ "failed" # "policy_stop"
    BY DEF Terminals
  <2> QED BY <1>1, <2>1, EndKeeps DEF replay_fails
<1>2. CASE replay_exhausts
  <2>1. "budget_exhausted" \in Terminals /\ "budget_exhausted" # "policy_stop"
    BY DEF Terminals
  <2> QED BY <1>2, <2>1, EndKeeps DEF replay_exhausts
<1>3. CASE replay_stops
  BY <1>3, FrontierIsSound, EndKeeps DEF replay_stops
<1>4. CASE replay_dispatches
  <2>1. PICK b \in decide_batches(replay) : replay' = reveal_batch(replay, b)
    BY <1>4 DEF replay_dispatches
  <2>2. replay.terminal = None
    BY <1>4 DEF replay_dispatches
  <2> QED BY <2>1, <2>2, RevealShape, RevealNodes, RevealGrant, RevealRepairs, RevealSupport, RevealCurves DEF RunInv
<1> QED BY <1>1, <1>2, <1>3, <1>4 DEF replay_next

LEMMA RunInvInit == replay_init => RunInv(replay)
<1> SUFFICES ASSUME replay_init PROVE RunInv(replay)
  OBVIOUS
<1>1. PICK w \in ReplayWorlds, p \in ReplayProfiles :
        replay = [world |-> w, profile |-> p, selected |-> {}, nodes |-> {}, recovered |-> 0,
                  spent |-> 0, probes |-> 0, best |-> R_BASELINE, probe_curve |-> <<>>,
                  round_curve |-> <<>>, sizes |-> <<>>, terminal |-> None]
  BY DEF replay_init
<1>2. RunShape(replay)
  BY <1>1 DEF RunShape, ReplayFields
<1>3. /\ replay.nodes = {} /\ replay.selected = {} /\ replay.recovered = 0 /\ replay.spent = 0 /\ replay.probes = 0
      /\ replay.best = R_BASELINE /\ replay.probe_curve = <<>> /\ replay.round_curve = <<>> /\ replay.sizes = <<>>
      /\ replay.terminal = None
  BY <1>1
<1>4. NodesSound(replay)
  BY <1>3, FS_EmptySet DEF NodesSound
<1>5. GrantSound(replay)
  BY <1>2, <1>3, RunLimits DEF GrantSound
<1>6. RepairsSound(replay)
  <2>1. R_MAX_REPAIR \in Nat
    BY <1>2, RunLimits
  <2>2. \A e : {x \in replay.nodes : x.repairs = e /\ e # None} = {}
    BY <1>3
  <2>3. \A e : Repairs(replay, e) = 0
    BY <2>2, FS_EmptySet DEF Repairs
  <2> QED BY <2>1, <2>3 DEF RepairsSound
<1>7. SupportSound(replay)
  BY <1>3, ReplayAbsent DEF SupportSound, Supported, Terminals
<1>8. CurvesSound(replay)
  <2>1. R_BASELINE \in Int
    BY <1>2, RunLimits
  <2>2. <<>> \in Seq(Int) /\ <<>> \in Seq(Nat) /\ Len(<<>>) = 0 /\ 1..0 = {}
    OBVIOUS
  <2>3. SumFunctionOnSet(replay.sizes, 1..Len(replay.sizes)) = 0
    BY <1>3, <2>2, SumOfNone
  <2> QED BY <1>3, <2>1, <2>2, <2>3 DEF CurvesSound, Curve
<1> QED BY <1>2, <1>4, <1>5, <1>6, <1>7, <1>8 DEF RunInv

LEMMA RunInvIsSafe == RunInv(replay) => ReplaySafe
<1> SUFFICES ASSUME RunInv(replay) PROVE ReplaySafe
  OBVIOUS
<1>0. RunShape(replay) /\ NodesSound(replay) /\ GrantSound(replay) /\ RepairsSound(replay) /\ SupportSound(replay) /\ CurvesSound(replay)
  BY DEF RunInv
<1>1. ReplayTypeOK
  <2>1. replay.probes \in 0..R_MAX_NODES
    BY <1>0, RunLimits DEF GrantSound
  <2> QED BY <1>0, <2>1 DEF ReplayTypeOK, RunShape, GrantSound, SeqsOf
<1>2. ReplayWithinGrant
  BY <1>0 DEF ReplayWithinGrant, GrantSound
<1>3. FiltersAgree
  BY <1>0, OneRule DEF FiltersAgree
<1>4. RepairsWithinEpisode
  BY <1>0 DEF RepairsWithinEpisode, RepairsSound
<1>5. CompleteIsSupported
  BY <1>0 DEF CompleteIsSupported, Complete, SupportSound, Supported, StopSound
<1>6. CurvesAreScorable
  <2>1. /\ DOMAIN replay.sizes = 1..Len(replay.sizes) /\ replay.probes \in Nat /\ Len(replay.sizes) \in Nat
        /\ replay.profile.probes \in Nat /\ replay.probes <= replay.profile.probes
    BY <1>0, RunLimits DEF CurvesSound, GrantSound
  <2>2. Len(replay.round_curve) <= replay.profile.probes
    BY <1>0, <2>1 DEF CurvesSound
  <2> QED BY <1>0, <2>1, <2>2 DEF CurvesAreScorable, trajectory_shape, CurvesSound, Curve, RoundSound, SizesBefore
<1> QED BY <1>1, <1>2, <1>3, <1>4, <1>5, <1>6 DEF ReplaySafe

\* A replay stays within its grant, its two filters agree, no episode is repaired
\* more often than its cap, a complete replay rests on observations, and its curves
\* are those the scorer accepts.
THEOREM ReplayIsSafe == ReplaySpec => []ReplaySafe
<1>1. replay_init => RunInv(replay)
  BY RunInvInit
<1>2. RunInv(replay) /\ [replay_next]_replay => RunInv(replay)'
  BY RunInvNext
<1>3. RunInv(replay) => ReplaySafe
  BY RunInvIsSafe
<1> QED BY <1>1, <1>2, <1>3, PTL DEF ReplaySpec

-----------------------------------------------------------------------------
(***************************************************************************)
(* Recorded worlds, their pool and its report, for any worlds, runs,       *)
(* admins, workers and originals.                                          *)
(***************************************************************************)

\* What a world rests on: its baseline, then observations of its own, none twice.
Content(w, runs) ==
    /\ runs \in Seq(RRuns) /\ Len(runs) >= 1 /\ runs[1] = ROwn(w)[1]
    /\ RunSet(runs) \subseteq RunSet(ROwn(w))
    /\ \A i, j \in DOMAIN runs : runs[i] = runs[j] => i = j

EdgesIn(edges, w) == {e \in edges : e[1] = w}

\* A stored world has its edges, and the original it named is there.
WorldSound(w, x, edges, runs, starts, mk) ==
    /\ x = None => EdgesIn(edges, w) = {}
    /\ x # None => x \in StoredWorld /\ x.mark <= mk
    /\ x # None /\ x.state = "redacted" => x.runs = <<>>
    /\ x # None /\ x.state # "redacted" =>
          /\ Content(w, x.runs) /\ RunSet(x.runs) \subseteq runs
          /\ x.proof = "chain" \/ x.proof \in starts
          /\ EdgesIn(edges, w) = world_edges(w, x.runs, x.proof)

CopySound(x, mk) == x # None => x \in CopiedWorld /\ Content(x.id, x.runs) /\ x.mark <= mk

StoreInv ==
    /\ rmark \in 0..RevokeBound /\ rruns \subseteq RRuns /\ rdead \subseteq rruns /\ rstarts \subseteq StartSet
    /\ rpool \in PoolState /\ (rreport # None => ValidReport(rreport))
    /\ DOMAIN rworld = RWorlds /\ rworld = [w \in RWorlds |-> rworld[w]]
    /\ DOMAIN rcopy = RAdmins /\ rcopy = [a \in RAdmins |-> rcopy[a]]
    /\ \A w \in RWorlds : WorldSound(w, rworld[w], redges, rruns, rstarts, rmark)
    /\ \A a \in RAdmins : CopySound(rcopy[a], rmark)

LEMMA StoreShape ==
    /\ RevokeBound \in Nat
    /\ \A w \in RWorlds : ROwn(w) \in Seq(RRuns) /\ Len(ROwn(w)) \in Nat /\ Len(ROwn(w)) >= 1
    /\ \A w \in RWorlds : w # POOL /\ w # REPORT
    /\ None \notin StoredWorld /\ None \notin CopiedWorld /\ None \notin StartSet \cup {"chain"}
  BY ReplayStoreShape, ReplayStoreAbsent

\* The first original there is.
LEMMA FirstProof ==
    ASSUME rstarts \subseteq StartSet
    PROVE  first_proof = "chain" \/ first_proof \in rstarts
<1>1. CASE rstarts = {}
  BY <1>1 DEF first_proof
<1>2. CASE rstarts # {}
  <2> DEFINE D == {i \in DOMAIN RStarts : RStarts[i] \in rstarts}
             P(i) == RStarts[i] \in rstarts /\ \A j \in 1..(i - 1) : RStarts[j] \notin rstarts
  <2>1. RStarts \in Seq(StartSet)
    BY ReplayStoreShape
  <2>2. DOMAIN RStarts = 1..Len(RStarts) /\ Len(RStarts) \in Nat
    BY <2>1
  <2>3. D \in SUBSET Nat /\ D # {}
    BY <1>2, <2>2 DEF StartSet
  <2>4. PICK i \in D : \A j \in D : i <= j
    BY <2>3, LeastNatural
  <2>5. i \in DOMAIN RStarts /\ P(i)
    BY <2>2, <2>4
  <2>6. RStarts[CHOOSE k \in DOMAIN RStarts : P(k)] \in rstarts
    BY <2>5
  <2> QED BY <1>2, <2>6 DEF first_proof
<1> QED BY <1>1, <1>2

LEMMA RootProof ==
    ASSUME NEW proof \in StartSet \cup {"chain"}, proof = "chain" \/ proof \in rstarts
    PROVE  root_proof(proof) = proof
  BY StoreShape DEF root_proof

LEMMA NewProof ==
    ASSUME rstarts \subseteq StartSet
    PROVE  /\ root_proof(None) \in StartSet \cup {"chain"}
           /\ root_proof(None) = "chain" \/ root_proof(None) \in rstarts
  BY FirstProof DEF root_proof

\* An observation that is not there yet.
LEMMA ContentExtends ==
    ASSUME NEW w \in RWorlds, NEW runs, Content(w, runs), NEW r \in RunSet(ROwn(w)), r \notin RunSet(runs)
    PROVE  /\ Content(w, Append(runs, r)) /\ RunSet(Append(runs, r)) = RunSet(runs) \cup {r}
           /\ IsPrefixOf(runs, Append(runs, r))
<1> DEFINE s == Append(runs, r)  n == Len(runs)
<1>1. runs \in Seq(RRuns) /\ n \in Nat /\ n >= 1 /\ DOMAIN runs = 1..n
  BY DEF Content
<1>2. r \in RRuns
  BY DEF RRuns, RunSet
<1>3. /\ s \in Seq(RRuns) /\ Len(s) = n + 1 /\ DOMAIN s = 1..(n + 1)
      /\ \A i \in 1..n : s[i] = runs[i]
      /\ s[n + 1] = r
  BY <1>1, <1>2
<1> HIDE DEF s
<1>4. RunSet(s) = RunSet(runs) \cup {r}
  <2>1. ASSUME NEW i \in 1..(n + 1) PROVE s[i] \in RunSet(runs) \cup {r}
    <3>1. i \in 1..n \/ i = n + 1
      BY <1>1
    <3> QED BY <1>1, <1>3, <3>1 DEF RunSet
  <2>2. ASSUME NEW i \in 1..n PROVE runs[i] \in RunSet(s)
    <3>1. i \in 1..(n + 1)
      BY <1>1
    <3> QED BY <1>3, <3>1 DEF RunSet
  <2>3. r \in RunSet(s)
    <3>1. n + 1 \in 1..(n + 1)
      BY <1>1
    <3> QED BY <1>3, <3>1 DEF RunSet
  <2> QED BY <1>1, <1>3, <2>1, <2>2, <2>3 DEF RunSet
<1>5. ASSUME NEW i \in 1..(n + 1), NEW j \in 1..(n + 1), s[i] = s[j] PROVE i = j
  <2>1. (i \in 1..n \/ i = n + 1) /\ (j \in 1..n \/ j = n + 1)
    BY <1>1
  <2>2. \A k \in 1..n : runs[k] # r
    BY <1>1 DEF RunSet
  <2>3. \A k, l \in 1..n : runs[k] = runs[l] => k = l
    BY <1>1 DEF Content
  <2> QED BY <1>3, <1>5, <2>1, <2>2, <2>3
<1>6. s[1] = ROwn(w)[1]
  <2>1. 1 \in 1..n
    BY <1>1
  <2> QED BY <1>3, <2>1 DEF Content
<1>7. Content(w, s)
  <2>1. RunSet(s) \subseteq RunSet(ROwn(w))
    BY <1>4 DEF Content
  <2>2. Len(s) >= 1
    BY <1>1, <1>3
  <2> QED BY <1>3, <1>5, <1>6, <2>1, <2>2 DEF Content
<1>8. IsPrefixOf(runs, s)
  BY <1>1, <1>3 DEF IsPrefixOf
<1> QED BY <1>4, <1>7, <1>8 DEF s

-----------------------------------------------------------------------------
(* Steps: one lemma for each action, on the invariant and on what a step   *)
(* may do to what is stored.                                               *)

\* The step of CollectedGrows.
Grows ==
    \A w \in RWorlds : rworld[w] # None =>
         \/ rworld'[w].state = "redacted"
         \/ /\ IsPrefixOf(rworld[w].runs, rworld'[w].runs)
            /\ rworld[w].state = "sealed" => rworld'[w] = rworld[w]
            /\ rworld[w].state = "redacted" => FALSE

\* The step of WrittenOnLiveRuns.
OnLive ==
    /\ \A w \in RWorlds : (rworld'[w] # rworld[w] /\ rworld'[w].state # "redacted") =>
            RunSet(rworld'[w].runs) \subseteq rruns \ rdead
    /\ (rreport = None /\ rreport' # None) =>
            \A w \in RWorlds : rreport'.of[w] = rworld[w].runs /\ Rests(w) # {} /\ Rests(w) \subseteq rruns \ rdead

LEMMA RunsPrefix == ASSUME NEW s \in Seq(RRuns) PROVE IsPrefixOf(s, s)
  BY DEF IsPrefixOf

LEMMA WorldStays ==
    ASSUME NEW w, NEW x, NEW edges, NEW edges2, NEW runs, NEW runs2, NEW starts, NEW starts2,
           NEW mk \in Nat, NEW mk2 \in Nat, WorldSound(w, x, edges, runs, starts, mk),
           EdgesIn(edges2, w) = EdgesIn(edges, w), runs \subseteq runs2, starts \subseteq starts2, mk <= mk2
    PROVE  WorldSound(w, x, edges2, runs2, starts2, mk2)
<1>1. x # None => x.mark \in Nat /\ x.mark <= mk2
  BY DEF WorldSound, StoredWorld
<1> QED BY <1>1 DEF WorldSound

LEMMA CopyStays ==
    ASSUME NEW x, NEW mk \in Nat, NEW mk2 \in Nat, CopySound(x, mk), mk <= mk2
    PROVE  CopySound(x, mk2)
<1>1. x # None => x.mark \in Nat /\ x.mark <= mk2
  BY DEF CopySound, CopiedWorld
<1> QED BY <1>1 DEF CopySound

\* A step that leaves the worlds and the report alone.
LEMMA StillGrows ==
    ASSUME StoreInv, UNCHANGED rworld, UNCHANGED rreport
    PROVE  Grows /\ OnLive
<1>1. ASSUME NEW w \in RWorlds, rworld[w] # None, rworld[w].state # "redacted"
      PROVE  IsPrefixOf(rworld[w].runs, rworld[w].runs)
  BY <1>1, RunsPrefix DEF StoreInv, WorldSound, Content
<1> QED BY <1>1 DEF Grows, OnLive

LEMMA MarkIsNat == ASSUME rmark \in 0..RevokeBound PROVE rmark \in Nat
  BY StoreShape

\* A step after which every world and every copy is still sound.
LEMMA StoreKept ==
    ASSUME StoreInv,
           rmark' \in 0..RevokeBound, rmark <= rmark', rruns \subseteq rruns', rruns' \subseteq RRuns,
           rdead' \subseteq rruns', rstarts \subseteq rstarts', rstarts' \subseteq StartSet,
           rpool' \in PoolState, rreport' # None => ValidReport(rreport'),
           UNCHANGED rworld, UNCHANGED rcopy, \A w \in RWorlds : EdgesIn(redges', w) = EdgesIn(redges, w)
    PROVE  StoreInv'
<1>1. rmark \in Nat /\ rmark' \in Nat
  BY StoreShape DEF StoreInv
<1>2. \A w \in RWorlds : WorldSound(w, rworld[w], redges', rruns', rstarts', rmark')
  BY <1>1, WorldStays DEF StoreInv
<1>3. \A a \in RAdmins : CopySound(rcopy[a], rmark')
  BY <1>1, CopyStays DEF StoreInv
<1> QED BY <1>2, <1>3 DEF StoreInv

LEMMA StartKeeps == ASSUME StoreInv, NEW s, start_again(s) PROVE StoreInv' /\ Grows /\ OnLive
<1>1. rmark <= rmark
  BY MarkIsNat DEF StoreInv
<1> QED BY <1>1, StoreKept, StillGrows DEF start_again, StoreInv

LEMMA RecordKeeps == ASSUME StoreInv, NEW r, record_run(r) PROVE StoreInv' /\ Grows /\ OnLive
<1>1. rmark <= rmark
  BY MarkIsNat DEF StoreInv
<1> QED BY <1>1, StoreKept, StillGrows DEF record_run, StoreInv

LEMMA RevokeKeeps == ASSUME StoreInv, NEW r, revoke_run(r) PROVE StoreInv' /\ Grows /\ OnLive
<1>1. rmark <= rmark' /\ rmark' \in 0..RevokeBound
  BY MarkIsNat, StoreShape DEF StoreInv, revoke_run
<1> QED BY <1>1, StoreKept, StillGrows DEF revoke_run, StoreInv

LEMMA RegisterKeeps == ASSUME StoreInv, register_pool PROVE StoreInv' /\ Grows /\ OnLive
<1>1. rmark <= rmark
  BY MarkIsNat DEF StoreInv
<1>2. \A w \in RWorlds : EdgesIn(redges', w) = EdgesIn(redges, w)
  BY StoreShape DEF EdgesIn, register_pool
<1>3. rpool' \in PoolState
  BY DEF register_pool, PoolState
<1> QED BY <1>1, <1>2, <1>3, StoreKept, StillGrows DEF register_pool, StoreInv

LEMMA PlayKeeps == ASSUME StoreInv, NEW k, play_pool(k) \/ player_crash(k) PROVE StoreInv' /\ Grows /\ OnLive
<1>1. rmark <= rmark
  BY MarkIsNat DEF StoreInv
<1> QED BY <1>1, StoreKept, StillGrows DEF play_pool, player_crash, StoreInv

LEMMA RedactPoolKeeps == ASSUME StoreInv, redact_pool PROVE StoreInv' /\ Grows /\ OnLive
<1>1. rmark <= rmark
  BY MarkIsNat DEF StoreInv
<1>3. rpool' \in PoolState
  BY DEF redact_pool, PoolState
<1> QED BY <1>1, <1>3, StoreKept, StillGrows DEF redact_pool, StoreInv

LEMMA ReportKeepsWorlds ==
    ASSUME StoreInv, UNCHANGED rworld PROVE Grows
<1>1. ASSUME NEW w \in RWorlds, rworld[w] # None, rworld[w].state # "redacted"
      PROVE  IsPrefixOf(rworld[w].runs, rworld[w].runs)
  BY <1>1, RunsPrefix DEF StoreInv, WorldSound, Content
<1> QED BY <1>1 DEF Grows

LEMMA RedactReportKeeps == ASSUME StoreInv, redact_report PROVE StoreInv' /\ Grows /\ OnLive
<1>1. rmark <= rmark
  BY MarkIsNat DEF StoreInv
<1>2. ValidReport(rreport')
  BY DEF redact_report, ValidReport
<1>3. StoreInv'
  BY <1>1, <1>2, StoreKept DEF redact_report, StoreInv
<1>4. Grows
  BY ReportKeepsWorlds DEF redact_report
<1>5. OnLive
  BY DEF redact_report, OnLive
<1> QED BY <1>3, <1>4, <1>5

\* A world that loads rests on live runs, and on one at least.
LEMMA LoadedRests ==
    ASSUME StoreInv, NEW w \in RWorlds, world_loads(w) \/ collecting_loads(w)
    PROVE  /\ rworld[w] # None /\ Rests(w) # {} /\ Rests(w) \subseteq rruns \ rdead
           /\ Content(w, rworld[w].runs)
<1>1. rworld[w] # None /\ rworld[w].state # "redacted" /\ observations_live(w, rworld[w])
  BY DEF world_loads, collecting_loads
<1>2. Content(w, rworld[w].runs)
  BY <1>1 DEF StoreInv, WorldSound
<1>3. Rests(w) = RunSet(rworld[w].runs)
  BY <1>1 DEF Rests
<1>4. RunSet(rworld[w].runs) \subseteq rruns \ rdead
  BY <1>1 DEF observations_live, run_live
<1>5. 1 \in DOMAIN rworld[w].runs
  BY <1>2 DEF Content
<1>6. RunSet(rworld[w].runs) # {}
  BY <1>5 DEF RunSet
<1> QED BY <1>1, <1>2, <1>3, <1>4, <1>6

LEMMA ReportKeeps == ASSUME StoreInv, NEW k, store_report(k) PROVE StoreInv' /\ Grows /\ OnLive
<1>1. rmark <= rmark
  BY MarkIsNat DEF StoreInv
<1>2. Grows
  BY ReportKeepsWorlds DEF store_report
<1>3. CASE pool_loads /\ rreport = None /\ replayed = rplayer[k].of
  <2>1. rreport' = [of |-> replayed] /\ redges' = redges \cup report_edges
    BY <1>3 DEF store_report
  <2>2. ValidReport(rreport')
    BY <2>1 DEF ValidReport, replayed
  <2>3. \A w \in RWorlds : EdgesIn(redges', w) = EdgesIn(redges, w)
    BY <2>1, StoreShape DEF EdgesIn, report_edges
  <2>4. StoreInv'
    BY <1>1, <2>2, <2>3, StoreKept DEF store_report, StoreInv
  <2>5. ASSUME NEW w \in RWorlds
        PROVE  rreport'.of[w] = rworld[w].runs /\ Rests(w) # {} /\ Rests(w) \subseteq rruns \ rdead
    BY <1>3, <2>1, LoadedRests DEF pool_loads, replayed
  <2>6. OnLive
    BY <2>5 DEF OnLive, store_report
  <2> QED BY <1>2, <2>4, <2>6
<1>4. CASE ~(pool_loads /\ rreport = None /\ replayed = rplayer[k].of)
  <2>1. UNCHANGED <<rreport, redges>>
    BY <1>4 DEF store_report
  <2> QED BY <1>1, <2>1, StoreKept, StillGrows DEF store_report, StoreInv
<1> QED BY <1>3, <1>4

\* A step that changes one copy.
LEMMA CopyKept ==
    ASSUME StoreInv, NEW a \in RAdmins, NEW x, CopySound(x, rmark),
           rcopy' = [rcopy EXCEPT ![a] = x],
           UNCHANGED <<rmark, rruns, rdead, rstarts, rworld, redges, rpool, rreport>>
    PROVE  StoreInv' /\ Grows /\ OnLive
<1>1. DOMAIN rcopy' = RAdmins /\ rcopy' = [b \in RAdmins |-> rcopy'[b]]
  BY DEF StoreInv
<1>2. \A b \in RAdmins : CopySound(rcopy'[b], rmark)
  BY DEF StoreInv
<1>3. StoreInv'
  BY <1>1, <1>2 DEF StoreInv
<1> QED BY <1>3, StillGrows

LEMMA PrepareKeeps ==
    ASSUME StoreInv, NEW a \in RAdmins, NEW w \in RWorlds, prepare_world(a, w) PROVE StoreInv' /\ Grows /\ OnLive
<1> DEFINE x == [id |-> w, runs |-> <<ROwn(w)[1]>>, mark |-> rmark, proof |-> root_proof(None)]
<1>1. rmark \in Nat
  BY MarkIsNat DEF StoreInv
<1>2. 1 \in DOMAIN ROwn(w) /\ ROwn(w)[1] \in RRuns
  BY StoreShape
<1>3. /\ <<ROwn(w)[1]>> \in Seq(RRuns) /\ Len(<<ROwn(w)[1]>>) = 1 /\ <<ROwn(w)[1]>>[1] = ROwn(w)[1]
      /\ DOMAIN <<ROwn(w)[1]>> = {1}
  BY <1>2
<1>4. Content(w, <<ROwn(w)[1]>>)
  BY <1>2, <1>3 DEF Content, RunSet
<1>5. root_proof(None) \in StartSet \cup {"chain"}
  BY NewProof DEF StoreInv
<1>6. x \in CopiedWorld /\ x.id = w /\ x.runs = <<ROwn(w)[1]>> /\ x.mark <= rmark
  BY <1>1, <1>3, <1>5 DEF CopiedWorld
<1>7. CopySound(x, rmark)
  BY <1>4, <1>6 DEF CopySound
<1> QED BY <1>7, CopyKept DEF prepare_world

LEMMA CopyWorldKeeps ==
    ASSUME StoreInv, NEW a \in RAdmins, NEW w \in RWorlds, copy_world(a, w) PROVE StoreInv' /\ Grows /\ OnLive
<1> DEFINE x == [id |-> w, runs |-> rworld[w].runs, mark |-> rworld[w].mark, proof |-> rworld[w].proof]
<1>1. rworld[w] \in StoredWorld /\ rworld[w].mark <= rmark /\ Content(w, rworld[w].runs)
  BY LoadedRests DEF copy_world, StoreInv, WorldSound
<1>2. x \in CopiedWorld /\ x.id = w /\ x.runs = rworld[w].runs /\ x.mark <= rmark
  BY <1>1 DEF CopiedWorld, StoredWorld
<1>3. CopySound(x, rmark)
  BY <1>1, <1>2 DEF CopySound
<1> QED BY <1>3, CopyKept DEF copy_world

LEMMA ExtendKeeps ==
    ASSUME StoreInv, NEW a \in RAdmins, NEW r, extend_copy(a, r) PROVE StoreInv' /\ Grows /\ OnLive
<1> DEFINE c == rcopy[a]
           x == [c EXCEPT !.runs = Append(@, r)]
<1>1. /\ c # None /\ c \in CopiedWorld /\ Content(c.id, c.runs) /\ c.mark <= rmark
      /\ r \in RunSet(ROwn(c.id)) /\ r \notin RunSet(c.runs)
  BY DEF extend_copy, StoreInv, CopySound
<1>2. c.id \in RWorlds
  BY <1>1 DEF CopiedWorld
<1>3. Content(c.id, Append(c.runs, r))
  BY <1>1, <1>2, ContentExtends
<1>4. x \in CopiedWorld /\ x.id = c.id /\ x.runs = Append(c.runs, r) /\ x.mark <= rmark
  BY <1>1, <1>3 DEF CopiedWorld, Content
<1>5. CopySound(x, rmark)
  BY <1>3, <1>4 DEF CopySound
<1>6. rcopy' = [rcopy EXCEPT ![a] = x]
  BY DEF extend_copy
<1> QED BY <1>5, <1>6, CopyKept DEF extend_copy

\* A step that changes one world, its edges and maybe a copy.
LEMMA WorldKept ==
    ASSUME StoreInv, NEW w \in RWorlds, NEW x,
           WorldSound(w, x, redges', rruns, rstarts, rmark),
           rworld' = [rworld EXCEPT ![w] = x], \A e \in redges' : e \in redges \/ e[1] = w, redges \subseteq redges',
           DOMAIN rcopy' = RAdmins, rcopy' = [b \in RAdmins |-> rcopy'[b]],
           \A b \in RAdmins : rcopy'[b] = None \/ rcopy'[b] = rcopy[b],
           UNCHANGED <<rmark, rruns, rdead, rstarts, rpool, rreport>>
    PROVE  StoreInv'
<1>1. DOMAIN rworld' = RWorlds /\ rworld' = [v \in RWorlds |-> rworld'[v]]
  BY DEF StoreInv
<1>2. rmark \in Nat /\ rmark <= rmark
  BY MarkIsNat DEF StoreInv
<1>3. \A v \in RWorlds : v # w => EdgesIn(redges', v) = EdgesIn(redges, v)
  BY DEF EdgesIn
<1>4. ASSUME NEW v \in RWorlds PROVE WorldSound(v, rworld'[v], redges', rruns, rstarts, rmark)
  <2>1. CASE v = w
    BY <2>1 DEF StoreInv
  <2>2. CASE v # w
    <3>1. rworld'[v] = rworld[v] /\ WorldSound(v, rworld[v], redges, rruns, rstarts, rmark)
      BY <2>2 DEF StoreInv
    <3> QED BY <1>2, <1>3, <2>2, <3>1, WorldStays
  <2> QED BY <2>1, <2>2
<1>5. \A b \in RAdmins : CopySound(rcopy'[b], rmark)
  BY DEF StoreInv, CopySound
<1> QED BY <1>1, <1>4, <1>5 DEF StoreInv

\* What a step that changes one world may do to it.
LEMMA WorldGrows ==
    ASSUME StoreInv, NEW w \in RWorlds, NEW x, rworld' = [rworld EXCEPT ![w] = x], UNCHANGED rreport,
           \/ x.state = "redacted"
           \/ /\ RunSet(x.runs) \subseteq rruns \ rdead
              /\ rworld[w] # None => rworld[w].state = "collecting" /\ IsPrefixOf(rworld[w].runs, x.runs)
    PROVE  Grows /\ OnLive
<1>1. rworld'[w] = x /\ \A v \in RWorlds : v # w => rworld'[v] = rworld[v]
  BY DEF StoreInv
<1>2. ASSUME NEW v \in RWorlds, rworld[v] # None, rworld[v].state # "redacted"
      PROVE  IsPrefixOf(rworld[v].runs, rworld[v].runs)
  BY <1>2, RunsPrefix DEF StoreInv, WorldSound, Content
<1>3. Grows
  BY <1>1, <1>2 DEF Grows
<1>4. OnLive
  BY <1>1 DEF OnLive
<1> QED BY <1>3, <1>4

LEMMA RedactWorldKeeps ==
    ASSUME StoreInv, NEW w \in RWorlds, redact_world(w) PROVE StoreInv' /\ Grows /\ OnLive
<1> DEFINE x == [rworld[w] EXCEPT !.state = "redacted", !.runs = <<>>]
<1>1. rworld[w] \in StoredWorld /\ rworld[w].mark <= rmark
  BY DEF redact_world, StoreInv, WorldSound
<1>0. <<>> \in Seq(RRuns)
  OBVIOUS
<1>2. x \in StoredWorld /\ x.state = "redacted" /\ x.runs = <<>> /\ x.mark = rworld[w].mark
  BY <1>0, <1>1 DEF StoredWorld
<1>3. x # None
  BY <1>2, StoreShape
<1>4. rworld' = [rworld EXCEPT ![w] = x] /\ redges' = redges /\ rcopy' = rcopy /\ UNCHANGED rreport
  BY DEF redact_world
<1> HIDE DEF x
<1>5. WorldSound(w, x, redges', rruns, rstarts, rmark)
  BY <1>1, <1>2, <1>3 DEF WorldSound
<1>6. StoreInv'
  <2>1. DOMAIN rcopy' = RAdmins /\ rcopy' = [b \in RAdmins |-> rcopy'[b]]
    BY <1>4 DEF StoreInv
  <2> QED BY <1>4, <1>5, <2>1, WorldKept DEF redact_world
<1>7. Grows /\ OnLive
  BY <1>2, <1>4, WorldGrows
<1> QED BY <1>6, <1>7

LEMMA SealWorldKeeps ==
    ASSUME StoreInv, NEW w \in RWorlds, seal_world(w) PROVE StoreInv' /\ Grows /\ OnLive
<1> DEFINE x == [rworld[w] EXCEPT !.state = "sealed"]
<1>1. /\ rworld[w] # None /\ rworld[w] \in StoredWorld /\ rworld[w].state = "collecting"
      /\ WorldSound(w, rworld[w], redges, rruns, rstarts, rmark)
  BY DEF seal_world, collecting_loads, StoreInv, WorldSound
<1>2. /\ x \in StoredWorld /\ x.state = "sealed" /\ x.runs = rworld[w].runs
      /\ x.mark = rworld[w].mark /\ x.proof = rworld[w].proof
  BY <1>1 DEF StoredWorld
<1>3. x # None
  BY <1>2, StoreShape
<1>4. rworld' = [rworld EXCEPT ![w] = x] /\ redges' = redges /\ rcopy' = rcopy /\ UNCHANGED rreport
  BY DEF seal_world
<1> HIDE DEF x
<1>5. WorldSound(w, x, redges', rruns, rstarts, rmark)
  BY <1>1, <1>2, <1>3, <1>4 DEF WorldSound
<1>6. StoreInv'
  <2>1. DOMAIN rcopy' = RAdmins /\ rcopy' = [b \in RAdmins |-> rcopy'[b]]
    BY <1>4 DEF StoreInv
  <2> QED BY <1>4, <1>5, <2>1, WorldKept DEF seal_world
<1>7. RunSet(x.runs) \subseteq rruns \ rdead /\ IsPrefixOf(rworld[w].runs, x.runs)
  <2>1. Rests(w) = RunSet(x.runs)
    BY <1>1, <1>2 DEF Rests
  <2> QED BY <1>2, <2>1, LoadedRests, RunsPrefix DEF seal_world, Content
<1>8. Grows /\ OnLive
  BY <1>1, <1>4, <1>7, WorldGrows
<1> QED BY <1>6, <1>8

\* A draft of sound content, the extension of what is stored, is put with its edges.
LEMMA DraftKeeps ==
    ASSUME StoreInv, NEW w \in RWorlds, NEW c, put_draft(w, c),
           Content(w, c.runs), c.mark \in Nat, c.mark <= rmark,
           RunSet(c.runs) \subseteq rruns \ rdead,
           c.proof \in StartSet \cup {"chain"}, c.proof = "chain" \/ c.proof \in rstarts,
           rworld[w] # None =>
             /\ rworld[w].state = "collecting" /\ IsPrefixOf(rworld[w].runs, c.runs) /\ c.proof = rworld[w].proof,
           DOMAIN rcopy' = RAdmins, rcopy' = [b \in RAdmins |-> rcopy'[b]],
           \A b \in RAdmins : rcopy'[b] = None \/ rcopy'[b] = rcopy[b],
           UNCHANGED <<rmark, rruns, rdead, rstarts, rpool, rreport>>
    PROVE  StoreInv' /\ Grows /\ OnLive
<1> DEFINE x == [state |-> "collecting", runs |-> c.runs, mark |-> c.mark, proof |-> c.proof]
           E == world_edges(w, c.runs, c.proof)
<1>1. /\ x \in StoredWorld /\ x.state = "collecting" /\ x.runs = c.runs
      /\ x.mark = c.mark /\ x.proof = c.proof
  BY DEF StoredWorld, Content
<1>2. x # None
  BY <1>1, StoreShape
<1>3. rworld' = [rworld EXCEPT ![w] = x] /\ redges' = redges \cup E
  BY DEF put_draft
<1> HIDE DEF x
<1>4. \A e \in E : e[1] = w
  BY DEF world_edges
<1>5. EdgesIn(redges, w) \subseteq E
  <2>1. CASE rworld[w] = None
    BY <2>1 DEF StoreInv, WorldSound
  <2>2. CASE rworld[w] # None
    <3>1. /\ EdgesIn(redges, w) = world_edges(w, rworld[w].runs, rworld[w].proof)
          /\ Content(w, rworld[w].runs)
      BY <2>2 DEF StoreInv, WorldSound
    <3>2. /\ DOMAIN rworld[w].runs = 1..Len(rworld[w].runs) /\ Len(rworld[w].runs) \in Nat
          /\ DOMAIN c.runs = 1..Len(c.runs) /\ Len(c.runs) \in Nat
      BY <3>1 DEF Content
    <3>3. RunSet(rworld[w].runs) \subseteq RunSet(c.runs)
      <4>1. IsPrefixOf(rworld[w].runs, c.runs)
        BY <2>2
      <4>2. ASSUME NEW i \in DOMAIN rworld[w].runs PROVE rworld[w].runs[i] \in RunSet(c.runs)
        <5>1. i \in DOMAIN c.runs /\ rworld[w].runs[i] = c.runs[i]
          BY <3>2, <4>1 DEF IsPrefixOf
        <5> QED BY <5>1 DEF RunSet
      <4> QED BY <4>2 DEF RunSet
    <3> QED BY <2>2, <3>1, <3>3 DEF world_edges
  <2> QED BY <2>1, <2>2
<1>6. EdgesIn(redges', w) = E
  <2> HIDE DEF E
  <2> QED BY <1>3, <1>4, <1>5 DEF EdgesIn
<1>7. WorldSound(w, x, redges', rruns, rstarts, rmark)
  <2>1. RunSet(x.runs) \subseteq rruns /\ (x.proof = "chain" \/ x.proof \in rstarts)
    BY <1>1
  <2>2. EdgesIn(redges', w) = world_edges(w, x.runs, x.proof)
    BY <1>1, <1>6
  <2>3. x.state # "redacted" /\ Content(w, x.runs) /\ x.mark <= rmark
    BY <1>1
  <2> QED BY <1>1, <1>2, <2>1, <2>2, <2>3 DEF WorldSound
<1>8. StoreInv'
  <2>1. (\A e \in redges' : e \in redges \/ e[1] = w) /\ redges \subseteq redges'
    <3> HIDE DEF E
    <3> QED BY <1>3, <1>4
  <2> QED BY <1>3, <1>7, <2>1, WorldKept
<1>9. Grows /\ OnLive
  <2>1. RunSet(x.runs) \subseteq rruns \ rdead /\ (rworld[w] # None => rworld[w].state = "collecting" /\ IsPrefixOf(rworld[w].runs, x.runs))
    BY <1>1
  <2> QED BY <1>3, <2>1, WorldGrows
<1> QED BY <1>8, <1>9

LEMMA CollectDraftKeeps ==
    ASSUME StoreInv, NEW a \in RAdmins, collect_draft(a) PROVE StoreInv' /\ Grows /\ OnLive
<1> DEFINE c == rcopy[a]
           w == c.id
<1>1. c # None /\ c \in CopiedWorld /\ Content(w, c.runs) /\ c.mark <= rmark
  BY DEF collect_draft, StoreInv, CopySound
<1>2. w \in RWorlds /\ c.mark \in Nat /\ c.proof \in StartSet \cup {"chain"}
  BY <1>1 DEF CopiedWorld
<1>3. /\ rworld[w] = None => c.proof = root_proof(None)
      /\ rworld[w] # None => collecting_loads(w) /\ collecting_extension(rworld[w], c)
      /\ observations_live(w, c) /\ put_draft(w, c)
      /\ rcopy' = [rcopy EXCEPT ![a] = None]
      /\ UNCHANGED <<rmark, rruns, rdead, rstarts, rpool, rreport, rplayer>>
  BY DEF collect_draft
<1>4. RunSet(c.runs) \subseteq rruns \ rdead
  BY <1>3 DEF observations_live, run_live
<1>5. rworld[w] # None =>
        /\ rworld[w].state = "collecting" /\ IsPrefixOf(rworld[w].runs, c.runs) /\ c.proof = rworld[w].proof
  BY <1>3 DEF collecting_loads, collecting_extension
<1>6. c.proof = "chain" \/ c.proof \in rstarts
  <2>1. CASE rworld[w] = None
    BY <1>3, <2>1, NewProof DEF StoreInv
  <2>2. CASE rworld[w] # None
    BY <1>2, <1>5, <2>2 DEF StoreInv, WorldSound
  <2> QED BY <2>1, <2>2
<1>7. DOMAIN rcopy' = RAdmins /\ rcopy' = [b \in RAdmins |-> rcopy'[b]] /\ \A b \in RAdmins : rcopy'[b] = None \/ rcopy'[b] = rcopy[b]
  BY <1>3 DEF StoreInv
<1> HIDE DEF c, w
<1> QED BY <1>1, <1>2, <1>3, <1>4, <1>5, <1>6, <1>7, DraftKeeps

LEMMA TransitionKeeps ==
    ASSUME StoreInv, NEW w \in RWorlds, NEW r, collect_transition(w, r) PROVE StoreInv' /\ Grows /\ OnLive
<1> DEFINE o == rworld[w]
           c == [o EXCEPT !.runs = Append(@, r)]
<1>1. /\ o # None /\ o \in StoredWorld /\ o.state = "collecting" /\ o.mark <= rmark
      /\ o.proof = "chain" \/ o.proof \in rstarts
  BY DEF collect_transition, collecting_loads, StoreInv, WorldSound
<1>2. Content(w, o.runs) /\ RunSet(o.runs) \subseteq rruns \ rdead
  BY LoadedRests DEF collect_transition, Rests
<1>3. c.runs = Append(o.runs, r) /\ c.mark = o.mark /\ c.proof = o.proof /\ o.mark \in Nat /\ o.proof \in StartSet \cup {"chain"}
  BY <1>1 DEF StoredWorld
<1>4. Content(w, c.runs) /\ RunSet(c.runs) = RunSet(o.runs) \cup {r} /\ IsPrefixOf(o.runs, c.runs)
  BY <1>2, <1>3, ContentExtends DEF collect_transition
<1>5. r \in rruns \ rdead
  BY DEF collect_transition, run_live
<1>6. put_draft(w, c) /\ UNCHANGED <<rmark, rruns, rdead, rstarts, rpool, rreport>> /\ rcopy' = rcopy
  BY DEF collect_transition
<1>7. DOMAIN rcopy' = RAdmins /\ rcopy' = [b \in RAdmins |-> rcopy'[b]] /\ \A b \in RAdmins : rcopy'[b] = None \/ rcopy'[b] = rcopy[b]
  BY <1>6 DEF StoreInv
<1> HIDE DEF c
<1>8. RunSet(c.runs) \subseteq rruns \ rdead
  BY <1>2, <1>4, <1>5
<1> QED BY <1>1, <1>3, <1>4, <1>6, <1>7, <1>8, DraftKeeps

LEMMA StoreInvNext == StoreInv /\ replay_store_next => StoreInv' /\ Grows /\ OnLive
<1> SUFFICES ASSUME StoreInv, replay_store_next PROVE StoreInv' /\ Grows /\ OnLive
  OBVIOUS
<1>1. CASE \E s \in StartSet : start_again(s)
  BY <1>1, StartKeeps
<1>2. CASE \E r \in RRuns : record_run(r) \/ revoke_run(r)
  BY <1>2, RecordKeeps, RevokeKeeps
<1>3. CASE \E a \in RAdmins : \E w \in RWorlds : prepare_world(a, w) \/ copy_world(a, w)
  BY <1>3, PrepareKeeps, CopyWorldKeeps
<1>4. CASE \E a \in RAdmins : (\E r \in RRuns : extend_copy(a, r)) \/ collect_draft(a)
  BY <1>4, ExtendKeeps, CollectDraftKeeps
<1>5. CASE \E w \in RWorlds : seal_world(w) \/ \E r \in RRuns : collect_transition(w, r)
  BY <1>5, SealWorldKeeps, TransitionKeeps
<1>6. CASE register_pool
  BY <1>6, RegisterKeeps
<1>7. CASE \E k \in RWorkers : play_pool(k) \/ store_report(k) \/ player_crash(k)
  BY <1>7, PlayKeeps, ReportKeeps
<1>8. CASE replay_cleanup
  BY <1>8, RedactWorldKeeps, RedactPoolKeeps, RedactReportKeeps DEF replay_cleanup
<1> QED BY <1>1, <1>2, <1>3, <1>4, <1>5, <1>6, <1>7, <1>8 DEF replay_store_next

LEMMA StoreInvStays == StoreInv /\ UNCHANGED rvars => StoreInv'
  BY DEF StoreInv, rvars

LEMMA StoreInvInit == replay_store_init => StoreInv
<1> SUFFICES ASSUME replay_store_init PROVE StoreInv
  OBVIOUS
<1>1. rmark \in 0..RevokeBound
  BY StoreShape DEF replay_store_init
<1>2. \A w \in RWorlds : WorldSound(w, rworld[w], redges, rruns, rstarts, rmark)
  BY DEF replay_store_init, WorldSound, EdgesIn
<1>3. \A a \in RAdmins : CopySound(rcopy[a], rmark)
  BY DEF replay_store_init, CopySound
<1> QED BY <1>1, <1>2, <1>3 DEF StoreInv, replay_store_init, PoolState

LEMMA StoreInvIsSafe == StoreInv => ReplayStoreTypeOK /\ SealedLoads
<1> SUFFICES ASSUME StoreInv PROVE ReplayStoreTypeOK /\ SealedLoads
  OBVIOUS
<1>1. ASSUME NEW w \in RWorlds, rworld[w] # None PROVE ValidWorld(w, rworld[w])
  <2>1. /\ rworld[w] \in StoredWorld /\ rworld[w].mark <= rmark /\ rmark \in Nat
        /\ WorldSound(w, rworld[w], redges, rruns, rstarts, rmark)
    BY <1>1, MarkIsNat DEF StoreInv, WorldSound
  <2>2. /\ rworld[w].state \in {"collecting", "sealed", "redacted"} /\ rworld[w].proof \in StartSet \cup {"chain"}
        /\ rworld[w].mark \in 0..rmark
    BY <2>1 DEF StoredWorld
  <2>3. rworld[w].state = "redacted" => rworld[w].runs = <<>>
    BY <1>1, <2>1 DEF WorldSound
  <2>4. rworld[w].state # "redacted" => Content(w, rworld[w].runs)
    BY <1>1, <2>1 DEF WorldSound
  <2> QED BY <2>2, <2>3, <2>4 DEF ValidWorld, Content
<1>2. ReplayStoreTypeOK
  BY <1>1 DEF ReplayStoreTypeOK, StoreInv
<1>3. ASSUME NEW w \in RWorlds, rworld[w] # None, rworld[w].state = "sealed", rworld[w].mark = rmark, Rests(w) \cap rdead = {}
      PROVE  world_loads(w)
  <2>1. /\ rworld[w] \in StoredWorld /\ RunSet(rworld[w].runs) \subseteq rruns
        /\ rworld[w].proof = "chain" \/ rworld[w].proof \in rstarts
        /\ EdgesIn(redges, w) = world_edges(w, rworld[w].runs, rworld[w].proof)
    BY <1>3 DEF StoreInv, WorldSound
  <2>2. rworld[w].proof \in StartSet \cup {"chain"}
    BY <2>1 DEF StoredWorld
  <2>3. rworld[w].proof = root_proof(rworld[w].proof)
    BY <2>1, <2>2, RootProof
  <2>4. EdgesOf(w) = world_edges(w, rworld[w].runs, rworld[w].proof)
    BY <2>1 DEF EdgesOf, EdgesIn
  <2>5. observations_live(w, rworld[w])
    BY <1>3, <2>1 DEF observations_live, run_live, Rests
  <2> QED BY <1>3, <2>3, <2>4, <2>5 DEF world_loads
<1>4. SealedLoads
  BY <1>3 DEF SealedLoads
<1> QED BY <1>2, <1>4

\* A sealed world loads as long as its runs are live: the edges the store holds
\* are exactly what it rests on, and the original it named is never lost.
THEOREM ReplayStoreIsSafe == ReplayStoreSpec => [](ReplayStoreTypeOK /\ SealedLoads)
<1>1. replay_store_init => StoreInv
  BY StoreInvInit
<1>2. StoreInv /\ [replay_store_next]_rvars => StoreInv'
  BY StoreInvNext, StoreInvStays
<1>3. StoreInv => ReplayStoreTypeOK /\ SealedLoads
  BY StoreInvIsSafe
<1> QED BY <1>1, <1>2, <1>3, PTL DEF ReplayStoreSpec

\* Collected worlds only grow at their end, sealed ones stand until a cleanup
\* redacts them, and what is written rests on runs that are live in the
\* session that writes it.
THEOREM ReplayStoreStands == ReplayStoreSpec => CollectedGrows /\ WrittenOnLiveRuns
<1>1. replay_store_init => StoreInv
  BY StoreInvInit
<1>2. StoreInv /\ [replay_store_next]_rvars => StoreInv'
  BY StoreInvNext, StoreInvStays
<1>3. StoreInv /\ [replay_store_next]_rvars => [Grows]_rvars /\ [OnLive]_rvars
  BY StoreInvNext
<1>4. ReplayStoreSpec => [][Grows]_rvars /\ [][OnLive]_rvars
  BY <1>1, <1>2, <1>3, PTL DEF ReplayStoreSpec
<1> QED BY <1>4, PTL DEF CollectedGrows, WrittenOnLiveRuns, Grows, OnLive

\* A replay and its store: what is played stays within its rules, and what it is
\* played from can be loaded as long as its runs stand.
THEOREM ReplaysAreSafe == ReplaySpec /\ ReplayStoreSpec => []ReplaysSafe
  BY ReplayIsSafe, ReplayStoreIsSafe, PTL DEF ReplaysSafe
=============================================================================
