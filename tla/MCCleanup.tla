----------------------------- MODULE MCCleanup -----------------------------
(***************************************************************************)
(* Instances of Cleanup, which follows the queue of a job, and of          *)
(* ContentCleanup, which follows what a job does to records.  A behaviour  *)
(* is of one small group of objects (part); the others are never written.  *)
(***************************************************************************)
EXTENDS Cleanup, ContentCleanup, TLC

VARIABLE part

cleanupVars == <<vars, contentVars, part>>

-----------------------------------------------------------------------------
(* Derivation graphs, by key.                                              *)

\* Late writers: 5 -> 1, 4 -> 5, 2 -> 4 (2 and 4 not judged again, before every
\* cursor), a call that names 1 without declaring it (reference 3); a historical
\* ticket 6 of 1, its report 7 and content 8 of the report; 9 has a schema the
\* cleanup does not know.
LateNodes == 1..9
LateSource == 1
\* Two sources: 13 is derived from both, 14 is an export of 13, 15 a world over 12;
\* an E16 call over 13 whose reference (16) has no edges.
SharedNodes == 11..16
\* A trace export of a run.
TraceNodes == 21..23

MCNodes == LateNodes \cup SharedNodes \cup TraceNodes
MCSources == {1, 11, 12, 21}
MCClass == (1 :> "run" @@ 2 :> "content" @@ 3 :> "ref" @@ 4 :> "content" @@ 5 :> "fact"
            @@ 6 :> "fact" @@ 7 :> "fact" @@ 8 :> "content" @@ 9 :> "unknown"
            @@ 11 :> "run" @@ 12 :> "content" @@ 13 :> "content" @@ 14 :> "export"
            @@ 15 :> "world" @@ 16 :> "ref"
            @@ 21 :> "run" @@ 22 :> "trace" @@ 23 :> "content")
MCUpstream == (2 :> {4} @@ 4 :> {5} @@ 5 :> {1} @@ 6 :> {1} @@ 8 :> {7} @@ 9 :> {8}
               @@ 13 :> {11, 12} @@ 14 :> {13} @@ 15 :> {12}
               @@ 22 :> {21} @@ 23 :> {21}
               @@ [n \in MCNodes |-> {}])
MCNamed == (1 :> {1} @@ 2 :> {13})
MCRef == (1 :> 3 @@ 2 :> 16)
MCMode == (1 :> "legacy" @@ 2 :> "e16")
MCReportOf == [n \in MCNodes |-> IF n = 6 THEN 7 ELSE 0]

QueueParts == {"late", "shared", "trace"}

Group == CASE part = "late" -> LateNodes [] part = "shared" -> SharedNodes [] OTHER -> TraceNodes

\* Pages of one row, and of one or two with late writers.
QueuePart ==
    \/ \E n \in Group : put_object(n) \/ seal_replay_world(n) \/ publish_export(n) \/ relink_export(n)
    \/ \E c \in Calls : RefOf[c] \in Group /\ (reserve_call(c) \/ repair_binding(c))
    \/ \E s \in Sources \cap Group :
          \/ begin_revoke(s)
          \/ \E role \in Roles, limit \in Limits :
                (limit = 1 \/ part = "late") /\ (cleanup_step(s, role, limit) \/ cleanup_step_lost(s, role, limit))

-----------------------------------------------------------------------------
(* Content: facts and replay material over a run, or the records of two    *)
(* imports of the same bytes.                                              *)

CONSTANTS run1, run2, world, pool, report, evidence, ticket, native, judgment, current,
          import1, import2, asset1, export1, audit1, bytes, package

FactSide == {run1, run2, world, pool, report, evidence, ticket, native, judgment, current}
ImportSide == {import1, import2, asset1, export1, audit1}

MCRecords == FactSide \cup ImportSide
MCPurgeable == {run1, run2, import1, import2}
MCBlobs == {bytes, package}

MCKindOf == [r \in MCRecords |->
    CASE r \in {run1, run2} -> "run" [] r = world -> "world" [] r = pool -> "pool" [] r = report -> "report"
      [] r = evidence -> "evidence" [] r = ticket -> "ticket" [] r = native -> "native"
      [] r = judgment -> "judgment" [] r = current -> "current_report"
      [] r \in {import1, import2} -> "import" [] r = asset1 -> "asset"
      [] r = export1 -> "export" [] r = audit1 -> "audit"]

MCDerivedFrom == [r \in MCRecords |->
    CASE r \in {world, evidence, ticket} -> {run1}
      [] r = pool -> {world} [] r = report -> {pool} [] r = current -> {pool, run2}
      [] r \in {native, judgment} -> {ticket}
      [] r = asset1 -> {import1}
      [] r = export1 -> {asset1, import2} [] r = audit1 -> {export1}
      [] OTHER -> {}]

MCCompanion == [r \in MCRecords |-> CASE r \in {report, current} -> pool [] r = native -> ticket [] OTHER -> None]

MCNames == [r \in MCRecords |->
    CASE r \in {import1, import2} -> {bytes}
      [] r = asset1 -> {bytes, package} [] r = export1 -> {package}
      [] OTHER -> {}]

Of(N) == N \subseteq (IF part = "facts" THEN FactSide ELSE ImportSide)

ContentPart ==
    \/ \E r \in Records : Of({r}) /\ \/ (r = audit1 => purgeFaults = 0) /\ register_record(r)
                                     \/ settle_record(r) \/ link_tree(r)
                                     \/ r = asset1 /\ end_record(r)
    \/ part = "imports" /\ \E b \in Blobs : link_blob(b)
    \/ repair
    \/ \E s \in Purgeable :
           Of({s}) /\ \/ (s = import2 => purge[import1].state # "none") /\ purge_source(s)
                      \/ \E role \in PurgeRoles : (role = "Worker" => s = run1) /\ (purge_step(s, role) \/ purge_step_lost(s, role))

-----------------------------------------------------------------------------

MCInit ==
    /\ part \in QueueParts \cup {"facts", "imports"}
    /\ Init /\ ContentInit

MCNext ==
    /\ UNCHANGED part
    /\ \/ part \in QueueParts /\ QueuePart /\ UNCHANGED contentVars
       \/ part \in {"facts", "imports"} /\ ContentPart /\ UNCHANGED vars

\* A worker keeps stepping a job that has begun; nothing is assumed of writers.
CleanupSpec == MCInit /\ [][MCNext]_cleanupVars /\ WF_vars(StepAs(LateSource, "Worker"))

\* The trace export alone.
TraceSpec == (MCInit /\ part = "trace") /\ [][MCNext]_cleanupVars

\* Jobs come to an end: that of the source with late writers, which only postpone
\* it, and those over content, which only damage makes fail.
CleanupEnds == CleanupEndsFor(LateSource) /\ OnlyDamageBlocks
=============================================================================
