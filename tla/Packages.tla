------------------------------ MODULE Packages ------------------------------
(***************************************************************************)
(* Packages, seeds and their local exports (evo-engine packages.rs and     *)
(* seeds.rs over the export directories of evo-storage).                   *)
(*                                                                         *)
(* A package, an update of a seed or a reset to its baseline becomes a     *)
(* staged asset.  A staged asset may be handed to a release candidate and  *)
(* exported into a directory of the deployment.  An export is prepared,    *)
(* then completed or aborted: the directory appears by a rename inside the *)
(* transaction that completes the attempt, so that a process that dies     *)
(* between the two leaves a directory and a prepared attempt, and the      *)
(* attempt has to be completed over it.                                    *)
(***************************************************************************)
EXTENDS Common

CONSTANTS
    Operators,          \* callers, each in a process of its own
    Assets,             \* request keys of staged assets
    Exports,            \* request keys of exports
    Candidates,         \* release candidates of the same material
    SeedContents,       \* contents a seed may have; the first is the baseline
    Baseline,
    StagedLimit,        \* MAX_STAGED_PACKAGES
    PackageRevocations, \* bound: revocations
    PackageFaults       \* bound: crashes

ASSUME PackageShape ==
    /\ Baseline \in SeedContents /\ StagedLimit \in Nat \ {0}
    /\ {PackageRevocations, PackageFaults} \subseteq Nat

VARIABLES
    dependency,     \* the dependency a package names is registered
    staged,         \* [state, origin, mark, candidate] of each asset
    seed,           \* [state, mark] of the installed seed
    export,         \* [state, asset, mark] of each attempt
    exportDir,      \* exports whose directory exists
    audited,        \* exports with a delivery audit
    sourceLive,     \* the source of all of this has no tombstone
    packageMark,    \* the revocation watermark
    operator,       \* what each caller is doing
    packageFaults

packageVars == <<dependency, staged, seed, export, exportDir, audited, sourceLive, packageMark, operator, packageFaults>>
packageRecords == <<staged, seed, export, exportDir, audited>>
packageWorld == <<dependency, sourceLive, packageMark, packageFaults>>

Live == {"Staged", "Quarantined"}
AtRest == [at |-> "idle", asset |-> None, export |-> None, candidate |-> None, seen |-> None]

PkgTypeOK ==
    /\ \A a \in Assets : staged[a].state \in Live \cup {"absent", "Aborted", "cleaned"} /\ staged[a].mark <= packageMark
    /\ \A e \in Exports : export[e].state \in {"absent", "prepared", "completed", "aborted", "cleaned"} /\ export[e].mark <= packageMark
    /\ seed.state \in {"absent", "Installed", "cleaned"}
    /\ exportDir \subseteq {e \in Exports : export[e].state # "absent"} /\ audited \subseteq Exports

PackagesInit ==
    /\ dependency \in BOOLEAN
    /\ staged = [a \in Assets |-> [state |-> "absent", origin |-> None, mark |-> 0, candidate |-> None]]
    /\ seed = [state |-> "absent", mark |-> 0]
    /\ export = [e \in Exports |-> [state |-> "absent", asset |-> None, mark |-> 0]]
    /\ exportDir = {} /\ audited = {} /\ sourceLive = TRUE /\ packageMark = 0
    /\ operator = [o \in Operators |-> AtRest] /\ packageFaults = 0

-----------------------------------------------------------------------------
(* Staging.                                                                *)

Rests(o) == operator' = [operator EXCEPT ![o] = AtRest]

\* admit_field over capacity_usage_v41.
admit_field == Cardinality({a \in Assets : staged[a].state \in Live}) < StagedLimit

Stage(a, state, origin) ==
    staged' = [staged EXCEPT ![a] = [state |-> state, origin |-> origin, mark |-> packageMark, candidate |-> None]]

\* stage_package: one transaction with its blob.  A dependency that is not
\* registered quarantines the package.
stage_package(o, a) ==
    /\ operator[o].at = "idle" /\ sourceLive /\ staged[a].state = "absent" /\ admit_field
    /\ Stage(a, IF dependency THEN "Staged" ELSE "Quarantined", "package")
    /\ UNCHANGED <<seed, export, exportDir, audited, operator, packageWorld>>

\* abort_staged asks for nothing but the state.
abort_staged(o, a) ==
    /\ operator[o].at = "idle" /\ staged[a].state \in Live
    /\ staged' = [staged EXCEPT ![a].state = "Aborted"]
    /\ UNCHANGED <<seed, export, exportDir, audited, operator, packageWorld>>

\* read_staged, the last of its two looks: the row it read first, at the current
\* watermark, over live sources.
read_staged(a) == staged[a].state \in Live /\ staged[a].mark = packageMark /\ sourceLive

-----------------------------------------------------------------------------
(* Seeds.                                                                  *)

\* classify, of baseline, local and upstream content under one identity.
classify(l, u) ==
    CASE l = u /\ l = Baseline -> "Unmodified"
      [] l = u /\ l # Baseline -> "IdenticalToUpstream"
      [] l = Baseline /\ u # Baseline -> "UpstreamNewer"
      [] l # Baseline /\ u = Baseline -> "LocallyEdited"
      [] OTHER -> "BothChanged"

\* What an installation stages: a newer upstream, or a confirmed resolution.
StagesUpdate(l, u, confirmed) == classify(l, u) = "UpstreamNewer" \/ (confirmed /\ classify(l, u) = "BothChanged")

\* What an installation needs: live sources, and for a repeated one the watermark of
\* the first.
InstallAllowed(l, u, confirmed) ==
    /\ sourceLive /\ seed.state \in {"absent", "Installed"}
    /\ (confirmed => classify(l, u) = "BothChanged")
    /\ (seed.state = "Installed" => seed.mark = packageMark)

\* install_inner: the installation and the update it stages in one transaction.
\* The baseline of an installed seed does not change; a stale one is refused.
install_seed(o, a, l, u, confirmed) ==
    /\ operator[o].at = "idle" /\ InstallAllowed(l, u, confirmed)
    /\ staged[a].state = "absent"
    /\ IF StagesUpdate(l, u, confirmed) THEN admit_field /\ Stage(a, "Staged", IF l = Baseline THEN "update" ELSE "resolution") ELSE UNCHANGED staged
    /\ seed' = [state |-> "Installed", mark |-> packageMark]
    /\ UNCHANGED <<export, exportDir, audited, operator, packageWorld>>

\* stage_reset_to_baseline reads the installation first ...
read_install(o, a) ==
    /\ operator[o].at = "idle" /\ seed.state = "Installed" /\ seed.mark = packageMark /\ sourceLive
    /\ operator' = [operator EXCEPT ![o] = [AtRest EXCEPT !.at = "reset", !.asset = a]]
    /\ UNCHANGED <<packageRecords, packageWorld>>

\* ... and stages the baseline in a transaction that counts nothing.
stage_reset_to_baseline(o) ==
    LET a == operator[o].asset IN
    /\ operator[o].at = "reset" /\ Rests(o)
    /\ IF sourceLive /\ seed.mark = packageMark /\ staged[a].state = "absent" THEN Stage(a, "Staged", "reset") ELSE UNCHANGED staged
    /\ UNCHANGED <<seed, export, exportDir, audited, packageWorld>>

-----------------------------------------------------------------------------
(* The handoff to a candidate.                                             *)

begin_handoff(o, a, c) ==
    /\ operator[o].at = "idle" /\ read_staged(a) /\ staged[a].state = "Staged" /\ staged[a].origin = "package"
    /\ operator' = [operator EXCEPT ![o] = [AtRest EXCEPT !.at = "handoff", !.asset = a, !.candidate = c, !.seen = staged[a]]]
    /\ UNCHANGED <<packageRecords, packageWorld>>

\* The row is the one that was read, and names no other candidate.
record_candidate_handoff(o) ==
    LET a == operator[o].asset IN
    /\ operator[o].at = "handoff" /\ Rests(o)
    /\ staged' = IF staged[a] = operator[o].seen /\ read_staged(a) /\ staged[a].candidate \in {None, operator[o].candidate}
                 THEN [staged EXCEPT ![a].candidate = operator[o].candidate] ELSE staged
    /\ UNCHANGED <<seed, export, exportDir, audited, packageWorld>>

-----------------------------------------------------------------------------
(* Exports.                                                                *)

begin_export(o, e, a) ==
    /\ operator[o].at = "idle" /\ export[e].state = "absent"
    /\ read_staged(a) /\ staged[a].state = "Staged" /\ staged[a].origin = "package"
    /\ operator' = [operator EXCEPT ![o] = [AtRest EXCEPT !.at = "prepare", !.asset = a, !.export = e, !.seen = staged[a]]]
    /\ UNCHANGED <<packageRecords, packageWorld>>

\* An attempt under a key is made once, at the watermark of its asset.
prepare_export(o) ==
    LET e == operator[o].export IN
    /\ operator[o].at = "prepare" /\ Rests(o)
    /\ export' = IF export[e].state = "absent" /\ packageMark = operator[o].seen.mark /\ sourceLive
                 THEN [export EXCEPT ![e] = [state |-> "prepared", asset |-> operator[o].asset, mark |-> packageMark]] ELSE export
    /\ UNCHANGED <<staged, seed, exportDir, audited, packageWorld>>

\* complete_export: the attempt and the asset it is of are read ...
begin_complete(o, e) ==
    /\ operator[o].at = "idle" /\ export[e].state = "prepared"
    /\ read_staged(export[e].asset) /\ staged[export[e].asset].state = "Staged"
    /\ operator' = [operator EXCEPT ![o] = [AtRest EXCEPT !.at = "snapshot", !.export = e]]
    /\ UNCHANGED <<packageRecords, packageWorld>>

\* ... then everything the attempt depends on is noted, the asset's row included,
\* and the attempt looked at again ...
snapshot_local_export_dependencies(o) ==
    LET e == operator[o].export IN
    /\ operator[o].at = "snapshot"
    /\ IF export[e].state = "prepared" /\ export[e].mark = packageMark /\ sourceLive
       THEN operator' = [operator EXCEPT ![o].at = "publish", ![o].seen = staged[export[e].asset]] ELSE Rests(o)
    /\ UNCHANGED <<packageRecords, packageWorld>>

\* Mistake: the publication does not look at the watermark again.
may_publish_prepared(o) == export[operator[o].export].state = "prepared" /\ staged[export[operator[o].export].asset] = operator[o].seen

\* ... and compared under the blob lock inside the write transaction.
MayPublish(o) ==
    LET e == operator[o].export IN
    /\ export[e].state = "prepared" /\ export[e].mark = packageMark /\ sourceLive
    /\ staged[export[e].asset] = operator[o].seen

\* The directory, the audit and the completed attempt; the same directory left
\* by a publication that died is taken over.
publish_registered_local_export(o) ==
    LET e == operator[o].export IN
    /\ operator[o].at = "publish" /\ Rests(o)
    /\ IF MayPublish(o)
       THEN exportDir' = exportDir \cup {e} /\ audited' = audited \cup {e} /\ export' = [export EXCEPT ![e].state = "completed"]
       ELSE UNCHANGED <<exportDir, audited, export>>
    /\ UNCHANGED <<staged, seed, packageWorld>>

\* abort_export reads the attempt and writes what it read as aborted.
begin_abort(o, e) ==
    /\ operator[o].at = "idle" /\ export[e].state = "prepared"
    /\ operator' = [operator EXCEPT ![o] = [AtRest EXCEPT !.at = "abort", !.export = e]]
    /\ UNCHANGED <<packageRecords, packageWorld>>

\* Mistake: the directory is not looked for.
abort_prepared(o) ==
    LET e == operator[o].export IN
    /\ operator[o].at = "abort" /\ Rests(o)
    /\ export' = IF export[e].state = "prepared" THEN [export EXCEPT ![e].state = "aborted"] ELSE export
    /\ UNCHANGED <<staged, seed, exportDir, audited, packageWorld>>

\* A published directory has to be recovered, not aborted.
abort_registered_local_export(o) ==
    LET e == operator[o].export IN
    /\ operator[o].at = "abort" /\ Rests(o)
    /\ export' = IF export[e].state = "prepared" /\ e \notin exportDir THEN [export EXCEPT ![e].state = "aborted"] ELSE export
    /\ UNCHANGED <<staged, seed, exportDir, audited, packageWorld>>

-----------------------------------------------------------------------------
(* The surroundings.                                                       *)

\* External: the dependency of the packages is registered or uninstalled.
dependency_changes == dependency' = ~dependency /\ packageFaults < PackageFaults /\ packageFaults' = packageFaults + 1
                      /\ UNCHANGED <<sourceLive, packageMark, operator, packageRecords>>

\* External: the source, or something else of the namespace, is revoked.
package_revoke(source) ==
    /\ packageMark < PackageRevocations /\ packageMark' = packageMark + 1
    /\ (source => sourceLive) /\ sourceLive' = (sourceLive /\ ~source)
    /\ UNCHANGED <<dependency, packageFaults, operator, packageRecords>>

\* External: the cleanup takes the rows and the directory of an export.
package_cleanup ==
    /\ ~sourceLive /\ \E a \in Assets : staged[a].state \in Live \cup {"Aborted"}
    /\ staged' = [a \in Assets |-> [staged[a] EXCEPT !.state = IF @ = "absent" THEN @ ELSE "cleaned"]]
    /\ export' = [e \in Exports |-> [export[e] EXCEPT !.state = IF @ = "absent" THEN @ ELSE "cleaned"]]
    /\ seed' = [seed EXCEPT !.state = IF @ = "absent" THEN @ ELSE "cleaned"]
    /\ exportDir' = {} /\ audited' = {}
    /\ UNCHANGED <<operator, packageWorld>>

\* External: a process dies; inside a publication the rename may have happened.
package_crash(o) ==
    /\ operator[o].at # "idle" /\ packageFaults < PackageFaults /\ packageFaults' = packageFaults + 1 /\ Rests(o)
    /\ exportDir' \in IF operator[o].at = "publish" /\ MayPublish(o) THEN {exportDir, exportDir \cup {operator[o].export}} ELSE {exportDir}
    /\ UNCHANGED <<staged, seed, export, audited, dependency, sourceLive, packageMark>>

OperatorStep(o) ==
    \/ stage_reset_to_baseline(o) \/ record_candidate_handoff(o) \/ prepare_export(o)
    \/ snapshot_local_export_dependencies(o) \/ publish_registered_local_export(o) \/ abort_registered_local_export(o)

PackagesNext ==
    \/ \E o \in Operators :
        \/ OperatorStep(o) \/ package_crash(o)
        \/ \E a \in Assets : \/ stage_package(o, a) \/ abort_staged(o, a) \/ read_install(o, a)
                             \/ \E c \in Candidates : begin_handoff(o, a, c)
                             \/ \E l, u \in SeedContents, confirmed \in BOOLEAN : install_seed(o, a, l, u, confirmed)
                             \/ \E e \in Exports : begin_export(o, e, a)
        \/ \E e \in Exports : begin_complete(o, e) \/ begin_abort(o, e)
    \/ dependency_changes \/ package_cleanup \/ \E source \in BOOLEAN : package_revoke(source)

\* A call that was made goes on; the owner of a prepared export with a directory
\* asks for its completion until it succeeds.
PackagesFair == \A o \in Operators : /\ WF_packageVars(OperatorStep(o))
                                     /\ \A e \in Exports : SF_packageVars(e \in exportDir /\ begin_complete(o, e))

PackagesSpec == PackagesInit /\ [][PackagesNext]_packageVars /\ PackagesFair

-----------------------------------------------------------------------------
(* Properties.                                                             *)

\* A completed export has its directory and its audit; an aborted one has
\* neither, whatever died in between (publish and abort under the blob lock).
ExportIsHonest ==
    \A e \in Exports : /\ (export[e].state = "completed" => e \in exportDir)
                       /\ (export[e].state = "completed") = (e \in audited)
                       /\ (export[e].state = "aborted" => e \notin exportDir)

\* An asset is handed to one candidate, and stays handed to it
\* (record_candidate_handoff between two operators).
OneCandidatePerAsset == [][\A a \in Assets : staged[a].candidate # None => staged'[a].candidate = staged[a].candidate]_packageVars

\* Once the watermark has moved nothing prepared before it is delivered and no
\* directory appears (the watermark of the attempt in the publishing transaction).
NothingDeliveredLate ==
    [][\A e \in Exports : export[e].state # "absent" /\ export[e].mark < packageMark =>
        (e \in exportDir' => e \in exportDir) /\ (export'[e].state = "completed" => export[e].state = "completed")]_packageVars

\* Local edits of a seed are kept: what is staged over them was confirmed
\* (classify in install_inner; an update is of a seed that was not edited).
EditsAreKept == [][\A o \in Operators, a \in Assets, l, u \in SeedContents :
                     install_seed(o, a, l, u, FALSE) /\ l # Baseline => staged' = staged]_packageVars

\* What packages and updates stage stays within the limit of the deployment,
\* whoever stages at the same time (admit_field in the staging transaction).
AdmittedWithinLimit == Cardinality({a \in Assets : staged[a].state \in Live /\ staged[a].origin # "reset"}) <= StagedLimit

\* A directory that was published by an attempt that died is recovered: the
\* attempt is completed, unless the watermark moved or the asset was withdrawn
\* ("published local export must be recovered, not aborted").
PublishedIsRecovered ==
    \A e \in Exports : (e \in exportDir /\ export[e].state = "prepared")
        ~> (export[e].state # "prepared" \/ export[e].mark < packageMark \/ staged[export[e].asset].state # "Staged")

\* What holds of packages in every state: the record of an export is true of its
\* directory, and no more assets are admitted than the limit allows.
PackagesSafe ==
    /\ PkgTypeOK
    /\ ExportIsHonest
    /\ AdmittedWithinLimit
=============================================================================
