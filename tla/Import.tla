------------------------------- MODULE Import -------------------------------
(***************************************************************************)
(* Local import (evo-engine import.rs over the blob store of evo-storage). *)
(*                                                                         *)
(* A registration pins a list of files.  It writes its sources as Prepared *)
(* and the selection over them in one transaction, reads the files one by  *)
(* one outside any transaction, publishes the bytes of each as a blob and  *)
(* finishes the source, and closes the selection in a last transaction.    *)
(* execute derives the result from the blobs alone.  The material of a     *)
(* result is read between two equal snapshots of what it stands on.        *)
(*                                                                         *)
(* The lock of a service holds within one process: two of them may run the *)
(* same registration, and one may finish what another left.                *)
(***************************************************************************)
EXTENDS Common, Functions

CONSTANTS
    ImportProcs,        \* processes with a service of their own
    Imports,            \* registrations, each known by its request
    SourcesOf,          \* the files of a registration, in order
    ContentOf,          \* the content a source was registered with
    SizeOf,             \* the bytes of a content, the foreign one included
    EventsOf,           \* the events the readers find in a content
    ReadLimit,          \* MAX_TOTAL_READ_BYTES
    EventLimit,         \* IMPORT_EVENT_CAPACITY, for the whole deployment
    ImportChanges,      \* bound: changes of a file
    ImportRevocations,  \* bound: revocations
    ImportFaults        \* bound: crashes

ImportSources == UNION {{SourcesOf[i][n] : n \in DOMAIN SourcesOf[i]} : i \in Imports}
Contents == {ContentOf[s] : s \in ImportSources}
Unreadable == {"missing", "denied", "directory", "empty"}

ASSUME ImportShape ==
    /\ IsFiniteSet(Imports) /\ \A i \in Imports : SourcesOf[i] \in Seq(ImportSources) \ {<<>>}
    /\ \A i \in Imports : \A m, n \in DOMAIN SourcesOf[i] : SourcesOf[i][m] = SourcesOf[i][n] => m = n
    /\ \A i, j \in Imports : i # j => \A m \in DOMAIN SourcesOf[i], n \in DOMAIN SourcesOf[j] : SourcesOf[i][m] # SourcesOf[j][n]
    /\ \A c \in Contents : SizeOf[c] \in Nat \ {0} /\ EventsOf[c] \in Nat
    /\ SizeOf["foreign"] \in Nat \ {0}
    /\ {ReadLimit, EventLimit, ImportChanges, ImportRevocations, ImportFaults} \subseteq Nat

VARIABLES
    file,           \* what is at the path of each source
    selection,      \* [state, watermark] of each registration
    importSource,   \* [status, bytes] of each source
    blobs,          \* published contents
    importResult,   \* [state, events] of each registration
    importMark,     \* the revocation watermark of the namespace
    importRevoked,  \* sources with a tombstone
    delivered,      \* registrations whose material was handed out
    importWork,     \* what each process is doing
    fileChanges, importFaults

importVars == <<file, selection, importSource, blobs, importResult, importMark, importRevoked, delivered,
                importWork, fileChanges, importFaults>>
importRecords == <<selection, importSource, blobs, importResult, delivered>>
importWorld == <<file, importMark, importRevoked, fileChanges, importFaults>>

Statuses == {"Prepared", "Ready", "Missing", "PermissionDenied", "InvalidFile", "TooLarge", "ZeroRecords", "SourceChanged"}
ImportIdle == [at |-> "idle", import |-> None, n |-> 1, consumed |-> 0, size |-> 0, found |-> None, seen |-> FALSE, retried |-> FALSE]

ImportTypeOK ==
    /\ \A i \in Imports : selection[i].state \in {"absent", "prepared", "registered", "cleaned"} /\ selection[i].mark <= importMark
    /\ \A s \in ImportSources : importSource[s].status \in Statuses \cup {"absent", "cleaned"} /\ importSource[s].bytes \in Nat
    /\ \A i \in Imports : importResult[i].state \in {"absent", "Complete", "Partial", "Failed", "cleaned"}
    /\ blobs \subseteq Contents /\ importRevoked \subseteq ImportSources /\ delivered \subseteq Imports
    /\ \A p \in ImportProcs : importWork[p].n \in Nat \ {0} /\ importWork[p].consumed <= ReadLimit

ImportInit ==
    /\ file \in [ImportSources -> Contents \cup Unreadable \cup {"foreign"}]
    /\ selection = [i \in Imports |-> [state |-> "absent", mark |-> 0]]
    /\ importSource = [s \in ImportSources |-> [status |-> "absent", bytes |-> 0]]
    /\ importResult = [i \in Imports |-> [state |-> "absent", events |-> 0]]
    /\ blobs = {} /\ importMark = 0 /\ importRevoked = {} /\ delivered = {}
    /\ importWork = [p \in ImportProcs |-> ImportIdle] /\ fileChanges = 0 /\ importFaults = 0

-----------------------------------------------------------------------------
(* Where a process stands.                                                 *)

Sources(i) == {SourcesOf[i][n] : n \in DOMAIN SourcesOf[i]}
Source(p) == SourcesOf[importWork[p].import][importWork[p].n]
Remaining(p) == ReadLimit - importWork[p].consumed
FileSize(s) == IF file[s] = "empty" THEN 0 ELSE SizeOf[file[s]]

Returns(p) == importWork' = [importWork EXCEPT ![p] = ImportIdle]

\* The next source, or the closing transaction.
NextSource(p, bytes) ==
    importWork' = [importWork EXCEPT ![p] = [ImportIdle EXCEPT !.import = importWork[p].import, !.consumed = importWork[p].consumed + bytes,
        !.n = importWork[p].n + 1, !.at = IF importWork[p].n = Len(SourcesOf[importWork[p].import]) THEN "close" ELSE "source"]]

Finish(p, status) == importWork' = [importWork EXCEPT ![p].at = "finish", ![p].found = status]

\* validate_live_import_sources with load_and_validate_source_records: a selection
\* that is closed, the watermark it was made at, nothing revoked in its closure.
LiveSelection(i) ==
    /\ selection[i].state = "registered" /\ selection[i].mark = importMark
    /\ Sources(i) \cap importRevoked = {}

-----------------------------------------------------------------------------
(* register.                                                               *)

\* A prepared selection is taken up at its own watermark only; a new one needs
\* source ids that no tombstone carries.
register(p, i) ==
    /\ importWork[p].at = "idle"
    /\ \/ selection[i].state = "absent" /\ Sources(i) \cap importRevoked = {}
          /\ selection' = [selection EXCEPT ![i] = [state |-> "prepared", mark |-> importMark]]
          /\ importSource' = [s \in ImportSources |-> IF s \in Sources(i) THEN [status |-> "Prepared", bytes |-> 0] ELSE importSource[s]]
       \/ selection[i] = [state |-> "prepared", mark |-> importMark] /\ UNCHANGED <<selection, importSource>>
    /\ importWork' = [importWork EXCEPT ![p] = [ImportIdle EXCEPT !.at = "source", !.import = i]]
    /\ UNCHANGED <<blobs, importResult, delivered, importWorld>>

\* A finished source is kept and its bytes counted; a prepared one is looked at.
stat_source(p) ==
    LET s == Source(p) row == importSource[s] IN
    /\ importWork[p].at = "source"
    /\ IF row.status = "cleaned" THEN Returns(p)
       ELSE IF row.status # "Prepared" THEN NextSource(p, IF row.status \in {"Ready", "SourceChanged"} THEN row.bytes ELSE 0)
       ELSE IF file[s] = "missing" THEN Finish(p, "Missing")
       ELSE IF file[s] = "denied" THEN Finish(p, "PermissionDenied")
       ELSE IF file[s] = "directory" THEN Finish(p, "InvalidFile")
       ELSE importWork' = [importWork EXCEPT ![p].size = FileSize(s), ![p].found = "TooLarge",
                ![p].at = IF Remaining(p) = 0 \/ FileSize(s) > Remaining(p) THEN "finish" ELSE "read"]
    /\ UNCHANGED <<importRecords, importWorld>>

\* The bytes are read after the size was, and the file may have been replaced.
read_file_bounded(p) ==
    LET s == Source(p) IN
    /\ importWork[p].at = "read"
    /\ IF file[s] \in {"missing", "directory"} THEN Finish(p, "Missing")
       ELSE IF file[s] = "denied" THEN Finish(p, "PermissionDenied")
       ELSE IF FileSize(s) > Remaining(p) THEN Finish(p, "TooLarge")
       ELSE importWork' = [importWork EXCEPT ![p].size = FileSize(s), ![p].found =
                IF FileSize(s) = 0 THEN "ZeroRecords"
                ELSE IF file[s] # ContentOf[s] \/ FileSize(s) # importWork[p].size THEN "SourceChanged" ELSE "Ready",
              ![p].at = IF FileSize(s) # 0 /\ file[s] = ContentOf[s] /\ FileSize(s) = importWork[p].size THEN "preflight" ELSE "finish"]
    /\ UNCHANGED <<importRecords, importWorld>>

\* preflight_registered_blob_publish: whether the target is there is noted.
preflight_registered_blob_publish(p) ==
    /\ importWork[p].at = "preflight"
    /\ importWork' = [importWork EXCEPT ![p].at = "publish", ![p].seen = ContentOf[Source(p)] \in blobs]
    /\ UNCHANGED <<importRecords, importWorld>>

\* registered_blob_producer: the row is prepared, at the current watermark.
ProducerStands(p) ==
    LET s == Source(p) i == importWork[p].import IN
    s \notin importRevoked /\ importSource[s].status = "Prepared" /\ selection[i].mark = importMark

\* A publication that failed is accepted if another process finished the source.
Converges(p) == IF importSource[Source(p)].status = "Ready" THEN NextSource(p, importWork[p].size) ELSE Returns(p)

\* Mistake: the source is finished first and its bytes are left to a later run.
publish_later(p) ==
    /\ importWork[p].at = "publish" /\ Finish(p, "Ready")
    /\ UNCHANGED <<importRecords, importWorld>>

publish_preflighted_registered_blob(p) ==
    LET c == ContentOf[Source(p)] IN
    /\ importWork[p].at = "publish"
    /\ IF ~ProducerStands(p) \/ (importWork[p].seen /\ c \notin blobs) \/ (~importWork[p].seen /\ c \in blobs /\ importWork[p].retried)
       THEN Converges(p) /\ UNCHANGED blobs
       ELSE IF ~importWork[p].seen /\ c \in blobs
       THEN importWork' = [importWork EXCEPT ![p].at = "preflight", ![p].retried = TRUE] /\ UNCHANGED blobs
       ELSE blobs' = blobs \cup {c} /\ Finish(p, "Ready")
    /\ UNCHANGED <<selection, importSource, importResult, delivered, importWorld>>

\* The outcome a process would write for the source it read.
Outcome(p) ==
    [status |-> importWork[p].found,
     bytes |-> IF importWork[p].found \in {"Ready", "SourceChanged", "TooLarge"} THEN importWork[p].size ELSE 0]

Consumed(p) == IF importWork[p].found = "TooLarge" THEN 0 ELSE Outcome(p).bytes

\* Finished once: the same outcome again is accepted, another one refused.
finish_prepared_source(p) ==
    LET s == Source(p) i == importWork[p].import IN
    /\ importWork[p].at = "finish"
    /\ IF selection[i].mark # importMark \/ s \in importRevoked \/ selection[i].state = "cleaned"
          \/ importSource[s] \notin {[status |-> "Prepared", bytes |-> 0], Outcome(p)}
       THEN Returns(p) /\ UNCHANGED importSource
       ELSE importSource' = [importSource EXCEPT ![s] = Outcome(p)] /\ NextSource(p, Consumed(p))
    /\ UNCHANGED <<selection, blobs, importResult, delivered, importWorld>>

\* The closing transaction; a selection closed meanwhile is the answer.
close_registration(p) ==
    LET i == importWork[p].import IN
    /\ importWork[p].at = "close" /\ Returns(p)
    /\ selection' = [selection EXCEPT ![i].state = IF @ = "prepared" /\ selection[i].mark = importMark THEN "registered" ELSE @]
    /\ UNCHANGED <<importSource, blobs, importResult, delivered, importWorld>>

-----------------------------------------------------------------------------
(* execute.                                                                *)

execute(p, i) ==
    /\ importWork[p].at = "idle" /\ LiveSelection(i) /\ importResult[i].state = "absent"
    /\ importWork' = [importWork EXCEPT ![p] = [ImportIdle EXCEPT !.at = "blobs", !.import = i]]
    /\ UNCHANGED <<importRecords, importWorld>>

ReadySources(i) == {s \in Sources(i) : importSource[s].status = "Ready"}

\* read_blob of every ready source: one that is gone ends the attempt.
read_sources(p) ==
    LET i == importWork[p].import IN
    /\ importWork[p].at = "blobs"
    /\ IF \A s \in ReadySources(i) : ContentOf[s] \in blobs
       THEN importWork' = [importWork EXCEPT ![p].at = "store", ![p].found = ReadySources(i)]
       ELSE Returns(p)
    /\ UNCHANGED <<importRecords, importWorld>>

\* import_result_payload_v2, of what was read.
import_result_payload_v2(i, ready) ==
    [state |-> IF ready = {} THEN "Failed" ELSE IF ready = Sources(i) THEN "Complete" ELSE "Partial",
     events |-> SumFunctionOnSet([s \in ImportSources |-> EventsOf[ContentOf[s]]], ready)]

\* put_new_import_result_below_event_capacity, over all results there are.
EventsUsed == SumFunctionOnSet([i \in Imports |-> importResult[i].events], Imports)

BelowEventCapacity(delta) == EventsUsed + delta <= EventLimit

store_result(p) ==
    LET i == importWork[p].import
        result == import_result_payload_v2(i, importWork[p].found) IN
    /\ importWork[p].at = "store" /\ Returns(p)
    /\ importResult' = IF LiveSelection(i) /\ importResult[i].state = "absent" /\ BelowEventCapacity(result.events)
                       THEN [importResult EXCEPT ![i] = result] ELSE importResult
    /\ UNCHANGED <<selection, importSource, blobs, delivered, importWorld>>

-----------------------------------------------------------------------------
(* read_local_material.                                                    *)

\* load_local_material_snapshot: the result and everything it names, live.
Snapshot(i) == LiveSelection(i) /\ importResult[i].state \in {"Complete", "Partial", "Failed"}

read_material(p, i) ==
    /\ importWork[p].at = "idle" /\ Snapshot(i)
    /\ importWork' = [importWork EXCEPT ![p] = [ImportIdle EXCEPT !.at = "material", !.import = i]]
    /\ UNCHANGED <<importRecords, importWorld>>

\* reconstruct_local_import charges one byte more for each source; the readers
\* find what is stored, or nothing is handed out.
reconstruct_local_import(p) ==
    LET i == importWork[p].import
        charge == SumFunctionOnSet([s \in ImportSources |-> importSource[s].bytes + 1], ReadySources(i)) IN
    /\ importWork[p].at = "material"
    /\ IF ReadySources(i) # {} /\ charge <= ReadLimit /\ \A s \in ReadySources(i) : ContentOf[s] \in blobs
       THEN importWork' = [importWork EXCEPT ![p].at = "boundary"] ELSE Returns(p)
    /\ UNCHANGED <<importRecords, importWorld>>

\* The second snapshot is the first, or nothing is handed out.
read_local_material_at_boundary(p) ==
    LET i == importWork[p].import IN
    /\ importWork[p].at = "boundary" /\ Returns(p)
    /\ delivered' = IF Snapshot(i) THEN delivered \cup {i} ELSE delivered
    /\ UNCHANGED <<selection, importSource, blobs, importResult, importWorld>>

-----------------------------------------------------------------------------
(* The surroundings.                                                       *)

\* External: a file is replaced.
file_changes(s, c) ==
    /\ fileChanges < ImportChanges /\ file[s] # c
    /\ file' = [file EXCEPT ![s] = c] /\ fileChanges' = fileChanges + 1
    /\ UNCHANGED <<importMark, importRevoked, importFaults, importWork, importRecords>>

\* External: a source is revoked, or (None) something else of the namespace.
import_revoke(s) ==
    /\ importMark < ImportRevocations
    /\ (s # None => s \notin importRevoked /\ importSource[s].status # "absent")
    /\ importRevoked' = importRevoked \cup ({s} \ {None}) /\ importMark' = importMark + 1
    /\ UNCHANGED <<file, fileChanges, importFaults, importWork, importRecords>>

\* External: the cleanup of a revoked source takes what was derived from it, and
\* its blob unless a source that is prepared or ready holds the same content.
import_cleanup(s) ==
    LET i == CHOOSE j \in Imports : s \in Sources(j) IN
    /\ s \in importRevoked /\ importSource[s].status # "cleaned"
    /\ importSource' = [importSource EXCEPT ![s] = [status |-> "cleaned", bytes |-> 0]]
    /\ selection' = [selection EXCEPT ![i].state = "cleaned"]
    /\ importResult' = [importResult EXCEPT ![i] = IF @.state = "absent" THEN @ ELSE [state |-> "cleaned", events |-> 0]]
    /\ blobs' = IF \E t \in ImportSources \ {s} : ContentOf[t] = ContentOf[s] /\ importSource[t].status \in {"Prepared", "Ready"}
                THEN blobs ELSE blobs \ {ContentOf[s]}
    /\ UNCHANGED <<delivered, importWork, importWorld>>

ImportFault == importFaults < ImportFaults /\ importFaults' = importFaults + 1

\* External: a process dies; inside a publication the rename may have happened.
import_crash(p) ==
    /\ importWork[p].at # "idle" /\ ImportFault /\ Returns(p)
    /\ blobs' \in IF importWork[p].at = "publish" /\ ProducerStands(p) THEN {blobs, blobs \cup {ContentOf[Source(p)]}} ELSE {blobs}
    /\ UNCHANGED <<selection, importSource, importResult, delivered, file, importMark, importRevoked, fileChanges>>

ImportStep(p) ==
    \/ stat_source(p) \/ read_file_bounded(p) \/ preflight_registered_blob_publish(p)
    \/ publish_preflighted_registered_blob(p) \/ finish_prepared_source(p) \/ close_registration(p)
    \/ read_sources(p) \/ store_result(p) \/ reconstruct_local_import(p) \/ read_local_material_at_boundary(p)

ImportNext ==
    \/ \E p \in ImportProcs : ImportStep(p) \/ import_crash(p) \/ \E i \in Imports : register(p, i) \/ execute(p, i) \/ read_material(p, i)
    \/ \E s \in ImportSources : import_revoke(s) \/ import_cleanup(s) \/ \E c \in Contents \cup Unreadable \cup {"foreign"} : file_changes(s, c)
    \/ import_revoke(None)

\* A process goes on, and the caller of a registration asks again.
ImportFair == \A p \in ImportProcs : WF_importVars(ImportStep(p)) /\ \A i \in Imports : WF_importVars(selection[i].state = "prepared" /\ register(p, i))

ImportSpec == ImportInit /\ [][ImportNext]_importVars /\ ImportFair

-----------------------------------------------------------------------------
(* Properties.                                                             *)

\* The bytes of the sources that were read, and those of one registration together.
BytesRead(rows) == [s \in ImportSources |-> IF rows[s].status \in {"Ready", "SourceChanged"} THEN rows[s].bytes ELSE 0]
Total(rows, i) == SumFunctionOnSet(BytesRead(rows), Sources(i))

\* A source that is ready has its bytes in the store, whatever was cleaned next
\* to it (publish before finish, the live references of a shared blob).
ReadyHasBlob == \A s \in ImportSources : importSource[s].status = "Ready" /\ s \notin importRevoked => ContentOf[s] \in blobs

\* What was read for one registration is within the read limit, though two
\* processes counted it (consumed of finalize_prepared_sources).
WithinReadLimit == \A i \in Imports : Total(importSource, i) <= ReadLimit

\* A stored result tells its sources as they are: it is complete exactly when
\* every source is ready (execute over finished sources).
ResultIsOfSources ==
    \A i \in Imports : importResult[i].state \in {"Complete", "Partial", "Failed"} /\ Sources(i) \cap importRevoked = {} =>
        /\ selection[i].state = "registered"
        /\ (importResult[i].state = "Complete") = (ReadySources(i) = Sources(i))
        /\ (importResult[i].state = "Failed") = (ReadySources(i) = {})
        /\ \A s \in Sources(i) : importSource[s].status \notin {"Prepared", "cleaned"}

\* The events of all results stay within the capacity of the deployment
\* (put_new_import_result_below_event_capacity).
WithinEventCapacity == EventsUsed <= EventLimit

\* A finished source keeps its outcome and a stored result its content until the
\* cleanup takes them (finish_prepared_source, immutable results).
ImportFactsStand ==
    [][/\ \A s \in ImportSources : importSource[s].status \in Statuses \ {"Prepared"} => importSource'[s] = importSource[s] \/ importSource'[s].status = "cleaned"
       /\ \A i \in Imports : importResult[i].state # "absent" => importResult'[i] = importResult[i] \/ importResult'[i].state = "cleaned"]_importVars

\* Once the watermark has moved past a registration nothing of it is published,
\* finished, derived or handed out (the watermark in every transaction of import.rs).
NothingAfterRevocation ==
    [][\A i \in Imports : selection[i].mark < importMark /\ selection[i].state # "absent" =>
        /\ \A s \in Sources(i) : importSource'[s] = importSource[s] \/ importSource'[s].status = "cleaned"
        /\ importResult'[i] = importResult[i] \/ importResult'[i].state = "cleaned"
        /\ (i \in delivered' => i \in delivered)]_importVars

\* A registration that was begun is closed in the end, or the watermark moved
\* (a second process, or the caller again, takes up the prepared selection).
RegistrationEnds == \A i \in Imports : (selection[i].state = "prepared") ~> (selection[i].state \in {"registered", "cleaned"} \/ selection[i].mark < importMark)

\* What holds of imports in every state: ready sources have their blob, reads and
\* events stay within their limits, and a result is of the registered sources.
ImportSafe ==
    /\ ImportTypeOK
    /\ ReadyHasBlob
    /\ WithinReadLimit
    /\ ResultIsOfSources
    /\ WithinEventCapacity
=============================================================================
