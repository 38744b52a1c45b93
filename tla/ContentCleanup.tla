--------------------------- MODULE ContentCleanup ---------------------------
(***************************************************************************)
(* What the cleanup of a revoked source does to each kind of record it     *)
(* reaches (evo-storage lifecycle.rs, cleanup_node_content and below).     *)
(*                                                                         *)
(* Cleanup.tla follows the queue of a job; here the queue is only the set  *)
(* of nodes it holds, taken in any order and one to a transaction (a step  *)
(* with edge_page_limit 1), and the subject is the content: rows that are  *)
(* redacted, preserved, deleted or not recognised, blobs that records of   *)
(* several sources name, and directories of exports.  A transaction holds  *)
(* the blob lock and the only connection; files it has removed stay        *)
(* removed when it fails or the process dies before the commit.            *)
(***************************************************************************)
EXTENDS Common

CONSTANTS
    Records,        \* objects
    Purgeable,      \* the sources a user may revoke
    KindOf,         \* [Records -> RecordKinds]
    DerivedFrom,    \* [Records -> SUBSET Records]: the dependency edges written with a record
    Companion,      \* [Records -> Records \cup {None}]: the pool of a report, the ticket of a native judgment
    Blobs,
    Names,          \* [Records -> SUBSET Blobs]: the blob digests in the payload
    DamagedRecords, \* records whose stored wire is not the one their schema prescribes
    Late,           \* records not stored yet
    PurgeFaults     \* how often directories and blobs are linked, and transactions lost

\* E16 records that carry blob digests: import_source, staged_asset and
\* seed_install ("asset"), export_attempt.
BlobKinds == {"import", "asset", "export"}
E16Kinds == BlobKinds \cup {"result", "audit"}
FactKinds == {"ticket", "ordinary"}
RecordKinds == E16Kinds \cup FactKinds
               \cup {"run", "content", "world", "pool", "report", "current_report",
                     "evidence", "judgment", "native"}

ASSUME ContentShape ==
    /\ Purgeable \subseteq Records /\ Late \subseteq Records /\ DamagedRecords \subseteq Records
    /\ KindOf \in [Records -> RecordKinds]
    /\ DerivedFrom \in [Records -> SUBSET Records]
    /\ Companion \in [Records -> Records \cup {None}]
    /\ Names \in [Records -> SUBSET Blobs]
    /\ PurgeFaults \in Nat

VARIABLES
    record,         \* rows of objects and replay_worlds
    blobFile,       \* blobs on disk
    hardLinked,     \* blobs that have a second link
    exportTree,     \* published directories of exports
    refusedTree,    \* nodes with an event that names their directory
    purge,          \* revoke_cleanup_jobs and revoke_cleanup_frontier
    purgeFaults

contentVars == <<record, blobFile, hardLinked, exportTree, refusedTree, purge, purgeFaults>>

-----------------------------------------------------------------------------
\* What an E16 record says of itself, as e16_record_keeps_blobs_alive tells it
\* apart: registration in flight, in force, or neither.
Standing == {"prepared", "in_force", "ended"}

\* history: the ids, usage and amounts of the record, or what a redaction kept
\* of them; revoked: the mark of a delivery audit.
RecordRow == [body : {"absent", "stored", "redacted", "deleted"}, standing : Standing,
              history : BOOLEAN, revoked : BOOLEAN, sound : BOOLEAN]

PurgeJob == [state : {"none", "running", "failed", "complete"},
             queued : SUBSET Records, expanded : SUBSET Records]

ContentTypeOK ==
    /\ record \in [Records -> RecordRow]
    /\ blobFile \subseteq Blobs /\ hardLinked \subseteq Blobs
    /\ exportTree \in [Records -> {"none", "directory", "link"}]
    /\ refusedTree \subseteq Records
    /\ purge \in [Purgeable -> PurgeJob]
    /\ purgeFaults \in 0..PurgeFaults

Fresh(r) == [body |-> IF r \in Late THEN "absent" ELSE "stored",
             standing |-> IF KindOf[r] \in BlobKinds /\ r \in Late THEN "prepared" ELSE "in_force",
             history |-> TRUE, revoked |-> FALSE, sound |-> r \notin DamagedRecords]

ContentInit ==
    /\ record = [r \in Records |-> Fresh(r)]
    /\ blobFile = UNION {Names[r] : r \in Records \ Late}
    /\ hardLinked = {}
    /\ exportTree = [r \in Records |-> IF KindOf[r] = "export" /\ r \notin Late THEN "directory" ELSE "none"]
    /\ refusedTree = {}
    /\ purge = [s \in Purgeable |-> [state |-> "none", queued |-> {}, expanded |-> {}]]
    /\ purgeFaults = 0

\* r and all it is derived from.
Lineage ==
    [r \in Records |->
        LET up[i \in 0..Cardinality(Records)] ==
                IF i = 0 THEN {r} ELSE UNION {{x} \cup DerivedFrom[x] : x \in up[i - 1]}
        IN up[Cardinality(Records)]]

Revoked(s) == s \in Purgeable /\ purge[s].state # "none"
RecordJudged(r) == \A x \in Lineage[r] : ~Revoked(x) /\ record[x].body \notin {"redacted", "deleted"}

-----------------------------------------------------------------------------
(* Writers.  All of them judge the closure of what they write.             *)

register_record(r) ==
    /\ record[r].body = "absent"
    /\ \A x \in DerivedFrom[r] : record[x].body = "stored"
    /\ RecordJudged(r)
    /\ record' = [record EXCEPT ![r].body = "stored"]
    /\ UNCHANGED <<blobFile, hardLinked, exportTree, refusedTree, purge, purgeFaults>>

\* publish_registered_blob, publish_registered_local_export: the file and the
\* state that names it, under the blob lock.
settle_record(r) ==
    /\ record[r].body = "stored" /\ record[r].standing = "prepared"
    /\ RecordJudged(r)
    /\ record' = [record EXCEPT ![r].standing = "in_force"]
    /\ blobFile' = blobFile \cup Names[r]
    /\ exportTree' = [exportTree EXCEPT ![r] = IF KindOf[r] = "export" THEN "directory" ELSE @]
    /\ UNCHANGED <<hardLinked, refusedTree, purge, purgeFaults>>

\* The file was missing, the preparation failed, or the asset was aborted: the
\* row stays, and so do its edges.
end_record(r) ==
    /\ record[r].body = "stored" /\ KindOf[r] \in BlobKinds
    /\ record[r].standing = "prepared" \/ (record[r].standing = "in_force" /\ KindOf[r] = "asset")
    /\ RecordJudged(r)
    /\ record' = [record EXCEPT ![r].standing = "ended"]
    /\ UNCHANGED <<blobFile, hardLinked, exportTree, refusedTree, purge, purgeFaults>>

Fault == purgeFaults < PurgeFaults /\ purgeFaults' = purgeFaults + 1

link_tree(r) ==
    /\ exportTree[r] = "directory" /\ Fault
    /\ exportTree' = [exportTree EXCEPT ![r] = "link"]
    /\ UNCHANGED <<record, blobFile, hardLinked, refusedTree, purge>>

link_blob(b) ==
    /\ b \in blobFile \ hardLinked /\ Fault
    /\ hardLinked' = hardLinked \cup {b}
    /\ UNCHANGED <<record, blobFile, exportTree, refusedTree, purge>>

\* An operator undoes one of these, or puts a damaged row right.
repair ==
    /\ \/ \E r \in Records : /\ exportTree[r] = "link"
                             /\ exportTree' = [exportTree EXCEPT ![r] = "directory"]
                             /\ UNCHANGED <<record, hardLinked>>
       \/ \E b \in hardLinked : /\ hardLinked' = hardLinked \ {b}
                                /\ UNCHANGED <<record, exportTree>>
       \/ \E r \in Records : /\ record[r].body = "stored" /\ ~record[r].sound
                             /\ record' = [record EXCEPT ![r].sound = TRUE]
                             /\ UNCHANGED <<hardLinked, exportTree>>
    /\ UNCHANGED <<blobFile, refusedTree, purge, purgeFaults>>

purge_source(s) ==
    /\ purge[s].state = "none"
    /\ record[s].body = "stored"
    /\ purge' = [purge EXCEPT ![s].state = "running", ![s].queued = {s}]
    /\ UNCHANGED <<record, blobFile, hardLinked, exportTree, refusedTree, purgeFaults>>

-----------------------------------------------------------------------------
(* One node.  x holds the transaction: what it has made of the rows and    *)
(* the files, whether it failed the job, whether a statement failed.       *)

PurgeTx(s) == [record |-> record, blobFile |-> blobFile, exportTree |-> exportTree,
               refusedTree |-> refusedTree, error |-> FALSE, state |-> purge[s].state,
               queued |-> purge[s].queued, expanded |-> purge[s].expanded]

\* The outcomes of F after x.
Results(x, F(_)) == UNION {F(v) : v \in {x}}

mark_unknown_scope(x) == [x EXCEPT !.state = "failed"]

\* redacted_object_body and its kin: content goes, what reconciles usage,
\* delivery and cost stays; a redacted row is left alone.
redact_row(x, r) ==
    IF x.record[r].body = "redacted" THEN x ELSE [x EXCEPT !.record[r].body = "redacted"]

\* A run, a world or a record of the list: only a wire that is understood is
\* redacted.
redact_known(x, r) == IF x.record[r].sound THEN redact_row(x, r) ELSE mark_unknown_scope(x)

\* The calls of the evidence keep their amounts and digests, not their bodies.
redact_evaluation_resource_evidence(x, r) == redact_known(x, r)

\* A judgment that was derived from a frozen input: wire, version and identity
\* are recomputed from the row alone; the judgment stays, its binding goes.
formal_derived_cleanup_metadata(x, r) == x.record[r].sound
redact_formal_judgment_derived(x, r) ==
    IF formal_derived_cleanup_metadata(x, r) THEN redact_row(x, r) ELSE mark_unknown_scope(x)

\* A pool keeps its digest, its compatibility and its members.
redact_replay_pool(x, r) == redact_known(x, r)

\* replay_pool_from_cleanup_body: the manifest, from the pool or from what a
\* redaction kept of it.
replay_pool_from_cleanup_body(x, p) ==
    \/ x.record[p].body = "stored" /\ x.record[p].sound
    \/ x.record[p].body = "redacted" /\ x.record[p].history

\* redact_replay_store_envelope: a report is bound to its pool.
redact_replay_report(x, r) ==
    IF x.record[r].sound /\ replay_pool_from_cleanup_body(x, Companion[r])
    THEN redact_row(x, r) ELSE mark_unknown_scope(x)

\* A current report is read strictly, and bound in the same way.
redact_current_replay_report(x, r) == redact_replay_report(x, r)

\* formal_native_wire_known: a native judgment stands beside its ticket.
preserve_native(x, r) ==
    IF x.record[r].sound /\ x.record[Companion[r]].body = "stored" THEN x ELSE mark_unknown_scope(x)

-----------------------------------------------------------------------------
(* Blobs.                                                                  *)

Frontier(x) == x.queued \cup x.expanded
Outside(x, r) == r \notin Frontier(x)

\* An edge to a blob is written with an import source only.
live_edges(x, b) ==
    \E r \in Records : /\ KindOf[r] = "import" /\ b \in Names[r] /\ Outside(x, r)
                       /\ x.record[r].body = "stored"

e16_record_keeps_blobs_alive(x, r) == x.record[r].standing \in {"prepared", "in_force"}

\* Rows of the query of e16_payload_has_live_blob_reference.
PayloadReferrers(x, b) ==
    {r \in Records : KindOf[r] \in BlobKinds /\ x.record[r].body = "stored" /\ b \in Names[r] /\ Outside(x, r)}

\* A damaged row among them is an error, unless a live one is read first.
BlobAnswers(x, b) ==
    LET R == PayloadReferrers(x, b)
        keeps == {r \in R : x.record[r].sound /\ e16_record_keeps_blobs_alive(x, r)}
        damaged == {r \in R : ~x.record[r].sound}
    IN IF live_edges(x, b) THEN {"kept"}
       ELSE {a \in {"kept", "error", "free"} :
               /\ a = "kept" => keeps # {}
               /\ a = "error" => damaged # {} \/ (keeps = {} /\ b \in hardLinked \cap x.blobFile)
               /\ a = "free" => keeps = {} /\ damaged = {} /\ b \notin hardLinked \cap x.blobFile}

\* remove_e16_blob_if_unreferenced for each blob the record names, one after
\* the other: what went before an error is gone.
remove_blobs(x, B) ==
    LET Answers == {a \in [B -> {"kept", "error", "free"}] : \A b \in B : a[b] \in BlobAnswers(x, b)}
        Free(a) == {b \in B : a[b] = "free"}
    IN UNION {IF \E b \in B : a[b] = "error"
              THEN {[x EXCEPT !.blobFile = @ \ F, !.error = TRUE] : F \in SUBSET Free(a)}
              ELSE {[x EXCEPT !.blobFile = @ \ Free(a)]} : a \in Answers}

-----------------------------------------------------------------------------
\* remove_controlled_local_export: a directory that is not a plain one is an
\* unknown scope, and the event says so.
remove_export_tree(x, r) ==
    IF x.exportTree[r] = "link"
    THEN [mark_unknown_scope(x) EXCEPT !.refusedTree = @ \cup {r}]
    ELSE [x EXCEPT !.exportTree[r] = "none"]

\* has_failed_local_export, or an export that a cleanup has redacted already.
export_directory_rechecked(x, r) ==
    r \in x.refusedTree \/ (KindOf[r] = "export" /\ x.record[r].body = "redacted")

\* cleanup_e16_envelope
cleanup_e16_envelope(x, r, rechecked) ==
    IF ~x.record[r].sound THEN {mark_unknown_scope(x)}
    ELSE IF KindOf[r] = "audit" THEN {[x EXCEPT !.record[r].revoked = TRUE]}
    ELSE LET Removed(v) == remove_blobs(v, Names[r])
         IN Results(redact_row(IF KindOf[r] = "export" /\ ~rechecked THEN remove_export_tree(x, r) ELSE x, r),
                  Removed)

\* The lists of what is preserved and what is redacted; a row of neither is an
\* unknown scope, like one whose wire its redaction cannot read.
clean_stored(x, r, rechecked) ==
    CASE KindOf[r] \in E16Kinds  -> cleanup_e16_envelope(x, r, rechecked)
      [] KindOf[r] = "pool"      -> {redact_replay_pool(x, r)}
      [] KindOf[r] = "report"    -> {redact_replay_report(x, r)}
      [] KindOf[r] = "current_report" -> {redact_current_replay_report(x, r)}
      [] KindOf[r] = "evidence"  -> {redact_evaluation_resource_evidence(x, r)}
      [] KindOf[r] = "judgment"  -> {redact_formal_judgment_derived(x, r)}
      [] KindOf[r] = "native"    -> {preserve_native(x, r)}
      [] KindOf[r] \in FactKinds -> {IF x.record[r].sound THEN x ELSE mark_unknown_scope(x)}
      [] OTHER                   -> {redact_known(x, r)}

\* cleanup_node_content: the set of what it may make of x.  No queue holds a
\* blob: the dependents of a record are records.
clean_node(x, s, r) ==
    LET rechecked == export_directory_rechecked(x, r)
        unbound == rechecked /\ ~x.record[r].sound
        Rest(u) == CASE x.record[r].body = "stored"   -> clean_stored(u, r, rechecked)
                     [] x.record[r].body = "redacted" -> {redact_row(u, r)}
                     [] OTHER                         -> {u}
    IN IF r = s /\ KindOf[r] = "run" THEN {[x EXCEPT !.record[r].body = "deleted"]}
       ELSE IF unbound THEN {mark_unknown_scope(x)}
       ELSE Results(IF rechecked THEN remove_export_tree(x, r) ELSE x, Rest)

-----------------------------------------------------------------------------
(* A step.                                                                 *)

DependentsOf(x, R) == {d \in Records : x.record[d].body # "absent" /\ DerivedFrom[d] \cap R # {}}

\* INSERT OR IGNORE
QueueNodes(x, R) == [x EXCEPT !.queued = @ \cup (R \ Frontier(x))]

\* Mistake: a state outside those of a job.
retry_named(x, role) == IF x.state = "failed" /\ role = "Admin" THEN [x EXCEPT !.state = "retrying"] ELSE x

\* prepare_failed_cleanup_retry
retry_whole_frontier(x, role) ==
    IF x.state = "failed" /\ role = "Admin"
    THEN [x EXCEPT !.state = "running", !.queued = Frontier(x), !.expanded = {}]
    ELSE x

\* expand_frontier: the last page queues the dependents, the content follows.
expand_one(x, s, r) ==
    LET Cleaned(u) == clean_node(u, s, r)
    IN Results([QueueNodes(x, DependentsOf(x, {r})) EXCEPT !.queued = @ \ {r}, !.expanded = @ \cup {r}], Cleaned)

\* closure_is_open, or completion.
close_purge(x) ==
    LET late == DependentsOf(x, x.expanded) \ Frontier(x)
    IN IF x.state # "running" \/ x.queued # {} THEN x
       ELSE IF late # {} THEN QueueNodes(x, late)
       ELSE [x EXCEPT !.state = "complete"]

StepOutcomes(s, role) ==
    LET Expanded(x) == UNION {expand_one(x, s, r) : r \in x.queued}
    IN {IF x.error THEN x ELSE close_purge(x) : x \in Results(retry_whole_frontier(PurgeTx(s), role), Expanded)}

\* An error rolls the rows back and leaves the files as they are.
purge_step(s, role) ==
    /\ purge[s].state \in {"running", "failed"}
    /\ \E x \in StepOutcomes(s, role) :
       /\ blobFile' = x.blobFile
       /\ exportTree' = x.exportTree
       /\ IF x.error THEN UNCHANGED <<record, refusedTree, purge>>
          ELSE /\ record' = x.record
               /\ refusedTree' = x.refusedTree
               /\ purge' = [purge EXCEPT ![s] = [state |-> x.state, queued |-> x.queued, expanded |-> x.expanded]]
    /\ UNCHANGED <<hardLinked, purgeFaults>>

\* The process dies between the last removal and the commit.
purge_step_lost(s, role) ==
    /\ purge[s].state \in {"running", "failed"} /\ Fault
    /\ \E x \in StepOutcomes(s, role) :
       /\ <<x.blobFile, x.exportTree>> # <<blobFile, exportTree>>
       /\ blobFile' = x.blobFile
       /\ exportTree' = x.exportTree
    /\ UNCHANGED <<record, hardLinked, refusedTree, purge>>

PurgeRoles == {"Admin", "Worker"}

ContentNext ==
    \/ \E r \in Records : register_record(r) \/ settle_record(r) \/ end_record(r) \/ link_tree(r)
    \/ \E b \in Blobs : link_blob(b)
    \/ repair
    \/ \E s \in Purgeable : \/ purge_source(s)
                            \/ \E role \in PurgeRoles : purge_step(s, role) \/ purge_step_lost(s, role)

ContentSpec == ContentInit /\ [][ContentNext]_contentVars

-----------------------------------------------------------------------------
(* Properties.                                                             *)

Descendants(s) == {r \in Records : s \in Lineage[r]}

\* A record in force whose sources all stand finds its blobs on disk, however
\* many cleanups of records that name the same bytes have run or died
\* (remove_e16_blob_if_unreferenced).
InForceKeepsItsBlobs ==
    \A r \in Records :
        record[r].body = "stored" /\ record[r].standing = "in_force" /\ RecordJudged(r) => Names[r] \subseteq blobFile

\* A job that is complete has left no content of its source: rows are redacted
\* or preserved facts, exports have no directory, audits carry the mark
\* (cleanup_node_content, has_failed_local_export).
PurgedIsClean ==
    \A s \in Purgeable : purge[s].state = "complete" =>
        \A r \in Descendants(s) :
            /\ record[r].body = "stored" => KindOf[r] \in FactKinds \cup {"native", "audit"}
            /\ record[r].body # "absent" /\ KindOf[r] = "audit" => record[r].revoked
            /\ KindOf[r] = "export" => exportTree[r] = "none"

\* A blob on disk is named by a record that is still there: redaction drops the
\* last name and the file together, also when jobs of different sources clean
\* the records that share it (cleanup_e16_envelope).
NoOrphanBlob ==
    \A b \in blobFile : \E r \in Records : record[r].body = "stored" /\ b \in Names[r]

\* A revocation does not erase what was used, paid or delivered: every row but
\* the revoked run's keeps its facts through every cleanup that reaches it
\* (redacted_object_body, redact_replay_store_envelope).
HistoryStays == \A r \in Records : record[r].history

\* Only damage stops a job: whichever of two related records is cleaned first,
\* and by whichever job, the other one is still understood
\* (replay_pool_from_cleanup_body, formal_native_wire_known).
OnlyDamageBlocks ==
    [][\A s \in Purgeable : purge[s].state # "failed" /\ purge'[s].state = "failed" =>
          \E r \in Descendants(s) : ~record[r].sound \/ exportTree[r] = "link"]_contentVars

\* What holds of content in every state: records in force keep their blobs, a
\* completed job left nothing of its source, no blob is orphaned, and no history is
\* erased.
ContentSafe ==
    /\ ContentTypeOK
    /\ InForceKeepsItsBlobs
    /\ PurgedIsClean
    /\ NoOrphanBlob
    /\ HistoryStays
=============================================================================
