-------------------------- MODULE MaterialsProofs ---------------------------
(***************************************************************************)
(* What the service is given to learn from, for any bounds: packages and   *)
(* exports, the execution of development tasks, and local import.          *)
(***************************************************************************)
EXTENDS Packages, Development, Import, Induction, SequenceTheorems

-----------------------------------------------------------------------------
(***************************************************************************)
(* Packages and exports, for any number of operators, assets, exports and  *)
(* revocations.                                                            *)
(***************************************************************************)

(* The invariant.                                                          *)

AssetStates == Live \cup {"absent", "Aborted", "cleaned"}
ExportStates == {"absent", "prepared", "completed", "aborted", "cleaned"}

AssetRow == [state : AssetStates, origin : {None, "package", "update", "resolution", "reset"},
             mark : Nat, candidate : Candidates \cup {None}]
ExportRow == [state : ExportStates, asset : Assets \cup {None}, mark : Nat]

OperatorRow == [at : {"idle", "reset", "handoff", "prepare", "snapshot", "publish", "abort"},
                asset : Assets \cup {None}, export : Exports \cup {None},
                candidate : Candidates \cup {None}, seen : AssetRow \cup {None}]

\* What a caller holds between the two transactions of its operation.
HoldsItsOwn(q) ==
    /\ q.at \in {"reset", "handoff", "prepare"} => q.asset \in Assets
    /\ q.at \in {"prepare", "snapshot", "publish", "abort"} => q.export \in Exports

OperatorsSound == operator \in [Operators -> OperatorRow] /\ \A o \in Operators : HoldsItsOwn(operator[o])

Counted(rows) == {a \in Assets : rows[a].state \in Live /\ rows[a].origin # "reset"}
Alive(rows) == {a \in Assets : rows[a].state \in Live}

\* An asset nobody staged has no candidate; only finitely many were staged.
PkgRowSound(r, m) == r.mark <= m /\ (r.state = "absent" => r.candidate = None)
WithinLimit(rows) == IsFiniteSet(Alive(rows)) /\ Cardinality(Counted(rows)) <= StagedLimit
AssetsSound ==
    /\ staged \in [Assets -> AssetRow] /\ packageMark \in Nat
    /\ \A a \in Assets : PkgRowSound(staged[a], packageMark)
    /\ WithinLimit(staged)

AttemptSound(r, isDir, isAudited, m) ==
    /\ r.mark <= m /\ (r.state = "prepared" => r.asset \in Assets)
    /\ (isDir => r.state # "absent")
    /\ (r.state = "completed" => isDir)
    /\ (r.state = "completed") = isAudited
    /\ (r.state = "aborted" => ~isDir)
ExportsSound ==
    /\ export \in [Exports -> ExportRow] /\ packageMark \in Nat
    /\ exportDir \subseteq Exports /\ audited \subseteq Exports
    /\ \A e \in Exports : AttemptSound(export[e], e \in exportDir, e \in audited, packageMark)

SeedSound == seed \in [state : {"absent", "Installed", "cleaned"}, mark : Nat]

PkgInv == OperatorsSound /\ AssetsSound /\ ExportsSound /\ SeedSound

LEMMA PkgInvIsSafe == PkgInv => PackagesSafe
<1> SUFFICES ASSUME PkgInv PROVE PackagesSafe
  OBVIOUS
<1>1. PkgTypeOK
  BY DEF PkgInv, AssetsSound, ExportsSound, SeedSound, PkgTypeOK, AssetRow, ExportRow, PkgRowSound, AttemptSound,
         AssetStates, ExportStates
<1>2. ExportIsHonest
  BY DEF PkgInv, ExportsSound, AttemptSound, ExportIsHonest
<1>3. AdmittedWithinLimit
  BY DEF PkgInv, AssetsSound, WithinLimit, Counted, AdmittedWithinLimit
<1> QED BY <1>1, <1>2, <1>3 DEF PackagesSafe

LEMMA PkgInvInit == PackagesInit => PkgInv
<1> SUFFICES ASSUME PackagesInit PROVE PkgInv
  OBVIOUS
<1> USE DEF PackagesInit
<1>1. OperatorsSound
  BY DEF OperatorsSound, OperatorRow, HoldsItsOwn, AtRest
<1>2. Alive(staged) = {} /\ Counted(staged) = {}
  BY DEF Alive, Counted, Live
<1>3. WithinLimit(staged)
  BY <1>2, FS_EmptySet, PackageShape DEF WithinLimit
<1>4. AssetsSound
  BY <1>3 DEF AssetsSound, AssetRow, AssetStates, PkgRowSound
<1>5. ExportsSound
  BY DEF ExportsSound, ExportRow, ExportStates, AttemptSound
<1>6. SeedSound
  BY DEF SeedSound
<1> QED BY <1>1, <1>4, <1>5, <1>6 DEF PkgInv

-----------------------------------------------------------------------------
(* The count.                                                              *)

LEMMA CountedIsAlive ==
    ASSUME NEW rows, IsFiniteSet(Alive(rows))
    PROVE  /\ Cardinality(Counted(rows)) \in Nat /\ Cardinality(Alive(rows)) \in Nat
           /\ IsFiniteSet(Counted(rows)) /\ Cardinality(Counted(rows)) <= Cardinality(Alive(rows))
<1>1. Counted(rows) \in SUBSET Alive(rows)
  BY DEF Counted, Alive
<1> QED BY <1>1, FS_Subset, FS_CardinalityType

\* No more assets than before count.
LEMMA NoneAdded ==
    ASSUME NEW rows, NEW new, WithinLimit(rows),
           Alive(new) \subseteq Alive(rows), Counted(new) \subseteq Counted(rows)
    PROVE  WithinLimit(new)
<1>1. IsFiniteSet(Alive(new))
  BY FS_Subset DEF WithinLimit
<1>2. IsFiniteSet(Counted(rows)) /\ Cardinality(Counted(rows)) \in Nat /\ Cardinality(Counted(rows)) <= StagedLimit
  BY CountedIsAlive DEF WithinLimit
<1>3. Cardinality(Counted(new)) <= Cardinality(Counted(rows)) /\ Cardinality(Counted(new)) \in Nat
  BY <1>1, <1>2, FS_Subset, CountedIsAlive
<1> QED BY <1>1, <1>2, <1>3, PackageShape DEF WithinLimit

\* One asset is staged that does not count, or was admitted.
LEMMA OneAdded ==
    ASSUME NEW rows, NEW new, NEW a, WithinLimit(rows),
           Alive(new) \subseteq Alive(rows) \cup {a},
           \/ Counted(new) \subseteq Counted(rows)
           \/ Counted(new) \subseteq Counted(rows) \cup {a} /\ Cardinality(Alive(rows)) < StagedLimit
    PROVE  WithinLimit(new)
<1>1. IsFiniteSet(Alive(rows) \cup {a})
  BY FS_AddElement DEF WithinLimit
<1>2. IsFiniteSet(Alive(new))
  BY <1>1, FS_Subset
<1>3. IsFiniteSet(Counted(rows)) /\ Cardinality(Counted(rows)) \in Nat /\ Cardinality(Counted(rows)) <= StagedLimit
      /\ Cardinality(Counted(rows)) <= Cardinality(Alive(rows)) /\ Cardinality(Alive(rows)) \in Nat
  BY CountedIsAlive DEF WithinLimit
<1>4. Cardinality(Counted(new)) \in Nat
  BY <1>2, CountedIsAlive
<1>5. CASE Counted(new) \subseteq Counted(rows)
  <2>1. Cardinality(Counted(new)) <= Cardinality(Counted(rows))
    BY <1>5, <1>3, FS_Subset
  <2> QED BY <2>1, <1>2, <1>3, <1>4, PackageShape DEF WithinLimit
<1>6. CASE Counted(new) \subseteq Counted(rows) \cup {a} /\ Cardinality(Alive(rows)) < StagedLimit
  <2>1. IsFiniteSet(Counted(rows) \cup {a}) /\ Cardinality(Counted(rows) \cup {a}) <= Cardinality(Counted(rows)) + 1
        /\ Cardinality(Counted(rows) \cup {a}) \in Nat
    BY <1>3, FS_AddElement
  <2>2. Cardinality(Counted(new)) <= Cardinality(Counted(rows) \cup {a})
    BY <1>6, <2>1, FS_Subset
  <2>3. Cardinality(Counted(new)) <= StagedLimit
    BY <2>1, <2>2, <1>3, <1>4, <1>6, PackageShape
  <2> QED BY <2>3, <1>2 DEF WithinLimit
<1> QED BY <1>5, <1>6

-----------------------------------------------------------------------------
(* Assets.                                                                 *)

LEMMA StageKeeps ==
    ASSUME AssetsSound, NEW a \in Assets, NEW state \in Live, NEW origin \in {"package", "update", "resolution", "reset"},
           Stage(a, state, origin), packageMark' = packageMark,
           origin = "reset" \/ admit_field
    PROVE  AssetsSound'
<1> DEFINE row == [state |-> state, origin |-> origin, mark |-> packageMark, candidate |-> None]
           new == [staged EXCEPT ![a] = row]
<1>1. row \in AssetRow /\ PkgRowSound(row, packageMark) /\ row.origin = origin /\ row.state = state
  BY DEF AssetsSound, AssetRow, AssetStates, PkgRowSound, Live
<1>2. staged' = new
  BY DEF Stage
<1> HIDE DEF row
<1>3. new \in [Assets -> AssetRow] /\ new[a] = row /\ \A b \in Assets : b # a => new[b] = staged[b]
  BY <1>1 DEF AssetsSound
<1> HIDE DEF new
<1>4. Alive(new) \subseteq Alive(staged) \cup {a}
  BY <1>3 DEF Alive
<1>5. \/ Counted(new) \subseteq Counted(staged)
      \/ Counted(new) \subseteq Counted(staged) \cup {a} /\ Cardinality(Alive(staged)) < StagedLimit
  <2>1. CASE origin = "reset"
    BY <2>1, <1>1, <1>3 DEF Counted
  <2>2. CASE admit_field
    BY <2>2, <1>3 DEF Counted, Alive, admit_field
  <2> QED BY <2>1, <2>2
<1>6. WithinLimit(new)
  BY <1>4, <1>5, OneAdded DEF AssetsSound
<1>7. \A b \in Assets : PkgRowSound(new[b], packageMark)
  BY <1>1, <1>3 DEF AssetsSound
<1> QED BY <1>2, <1>3, <1>6, <1>7 DEF AssetsSound

\* A row changes in a way that neither revives nor recounts it.
Ages(r, n) ==
    /\ n.state \in Live => r.state \in Live /\ n.origin = r.origin
    /\ n.mark = r.mark /\ (n.state = "absent" => r.state = "absent" /\ n.candidate = r.candidate)

LEMMA AgeKeeps ==
    ASSUME AssetsSound, staged' \in [Assets -> AssetRow],
           \A a \in Assets : Ages(staged[a], staged'[a]),
           packageMark' \in Nat, packageMark <= packageMark'
    PROVE  AssetsSound'
<1> DEFINE new == staged'
<1>1. Alive(new) \subseteq Alive(staged) /\ Counted(new) \subseteq Counted(staged)
  BY DEF Alive, Counted, Ages
<1>2. \A a \in Assets : PkgRowSound(new[a], packageMark')
  BY DEF Ages, PkgRowSound, AssetsSound, AssetRow
<1> HIDE DEF new
<1>3. WithinLimit(new)
  BY <1>1, NoneAdded DEF AssetsSound
<1> QED BY <1>2, <1>3 DEF AssetsSound, new

LEMMA RowsKept ==
    ASSUME AssetsSound, UNCHANGED staged, packageMark' \in Nat, packageMark <= packageMark'
    PROVE  AssetsSound'
<1>1. staged' \in [Assets -> AssetRow] /\ \A a \in Assets : Ages(staged[a], staged'[a])
  BY DEF AssetsSound, AssetRow, AssetStates, Ages
<1> QED BY <1>1, AgeKeeps

LEMMA AssetsKept ==
    ASSUME PkgInv, PackagesNext
    PROVE  AssetsSound'
<1> USE DEF PkgInv
<1>0. packageMark \in Nat /\ staged \in [Assets -> AssetRow]
  BY DEF AssetsSound
<1>1. ASSUME NEW o \in Operators, stage_reset_to_baseline(o) PROVE AssetsSound'
  <2> DEFINE a == operator[o].asset
  <2>1. a \in Assets
    BY <1>1 DEF stage_reset_to_baseline, OperatorsSound, HoldsItsOwn
  <2>2. packageMark' = packageMark
    BY <1>1 DEF stage_reset_to_baseline, packageWorld
  <2>3. CASE UNCHANGED staged
    BY <2>2, <2>3, <1>0, RowsKept
  <2>4. CASE Stage(a, "Staged", "reset")
    <3> "Staged" \in Live
      BY DEF Live
    <3> HIDE DEF a
    <3> QED BY <2>1, <2>2, <2>4, StageKeeps
  <2> QED BY <1>1, <2>3, <2>4 DEF stage_reset_to_baseline
<1>2. ASSUME NEW o \in Operators, record_candidate_handoff(o) PROVE AssetsSound'
  <2> DEFINE a == operator[o].asset  c == operator[o].candidate
  <2>1. a \in Assets /\ c \in Candidates \cup {None}
    BY <1>2 DEF record_candidate_handoff, OperatorsSound, HoldsItsOwn, OperatorRow
  <2>2. packageMark' = packageMark
    BY <1>2 DEF record_candidate_handoff, packageWorld
  <2>3. CASE staged' = staged
    BY <2>2, <2>3, <1>0, RowsKept
  <2>4. CASE staged' = [staged EXCEPT ![a].candidate = c] /\ read_staged(a)
    <3>1. staged[a] \in AssetRow /\ staged[a].state \in Live
      BY <2>1, <2>4, <1>0 DEF read_staged
    <3> DEFINE row == [staged[a] EXCEPT !.candidate = c]
    <3>2. row \in AssetRow /\ Ages(staged[a], row)
      BY <2>1, <3>1 DEF AssetRow, Ages, Live
    <3>3. staged' = [staged EXCEPT ![a] = row]
      BY <2>4
    <3> HIDE DEF row, a
    <3>4. staged' \in [Assets -> AssetRow] /\ \A b \in Assets : staged'[b] = IF b = a THEN row ELSE staged[b]
      BY <3>2, <3>3, <1>0
    <3>5. \A b \in Assets : Ages(staged[b], staged'[b])
      BY <3>2, <3>4 DEF Ages
    <3> QED BY <3>4, <3>5, <2>2, <1>0, AgeKeeps
  <2> QED BY <1>2, <2>3, <2>4 DEF record_candidate_handoff
<1>3. ASSUME NEW o \in Operators, NEW a \in Assets, stage_package(o, a) PROVE AssetsSound'
  <2>1. packageMark' = packageMark /\ admit_field
    BY <1>3 DEF stage_package, packageWorld
  <2> DEFINE s == IF dependency THEN "Staged" ELSE "Quarantined"
  <2>2. s \in Live /\ Stage(a, s, "package")
    BY <1>3 DEF stage_package, Live
  <2> HIDE DEF s
  <2> QED BY <2>1, <2>2, StageKeeps
<1>4. ASSUME NEW o \in Operators, NEW a \in Assets, abort_staged(o, a) PROVE AssetsSound'
  <2> DEFINE row == [staged[a] EXCEPT !.state = "Aborted"]
  <2>1. staged[a] \in AssetRow /\ staged[a].state \in Live /\ packageMark' = packageMark
    BY <1>0, <1>4 DEF abort_staged, packageWorld
  <2>2. row \in AssetRow /\ Ages(staged[a], row)
    BY <2>1 DEF AssetRow, AssetStates, Ages, Live
  <2>3. staged' = [staged EXCEPT ![a] = row]
    BY <1>4 DEF abort_staged
  <2> HIDE DEF row
  <2>4. staged' \in [Assets -> AssetRow] /\ \A b \in Assets : staged'[b] = IF b = a THEN row ELSE staged[b]
    BY <2>2, <2>3, <1>0
  <2>5. \A b \in Assets : Ages(staged[b], staged'[b])
    BY <2>2, <2>4 DEF Ages
  <2> QED BY <2>4, <2>5, <2>1, <1>0, AgeKeeps
<1>5. ASSUME NEW o \in Operators, NEW a \in Assets, NEW l \in SeedContents, NEW u \in SeedContents, NEW confirmed \in BOOLEAN,
             install_seed(o, a, l, u, confirmed)
      PROVE AssetsSound'
  <2>1. packageMark' = packageMark
    BY <1>5 DEF install_seed, packageWorld
  <2>2. CASE UNCHANGED staged
    BY <2>1, <2>2, <1>0, RowsKept
  <2> DEFINE origin == IF l = Baseline THEN "update" ELSE "resolution"
  <2>3. CASE admit_field /\ Stage(a, "Staged", origin)
    <3> "Staged" \in Live /\ origin \in {"package", "update", "resolution", "reset"}
      BY DEF Live
    <3> HIDE DEF origin
    <3> QED BY <2>1, <2>3, StageKeeps
  <2> QED BY <1>5, <2>2, <2>3 DEF install_seed
<1>6. ASSUME NEW source \in BOOLEAN, package_revoke(source) PROVE AssetsSound'
  <2>1. UNCHANGED staged /\ packageMark' = packageMark + 1
    BY <1>6 DEF package_revoke, packageRecords
  <2> QED BY <2>1, <1>0, RowsKept
<1>7. CASE package_cleanup
  <2>1. packageMark' = packageMark
    BY <1>7 DEF package_cleanup, packageWorld
  <2>2. staged' = [a \in Assets |-> [staged[a] EXCEPT !.state = IF @ = "absent" THEN @ ELSE "cleaned"]]
    BY <1>7 DEF package_cleanup
  <2>3. ASSUME NEW a \in Assets PROVE staged'[a] \in AssetRow /\ Ages(staged[a], staged'[a])
    <3>1. staged[a] \in AssetRow
      BY <1>0
    <3>2. CASE staged[a].state = "absent"
      <4>1. staged'[a] = staged[a]
        BY <2>2, <3>1, <3>2 DEF AssetRow
      <4> QED BY <3>1, <3>2, <4>1 DEF Ages
    <3>3. CASE staged[a].state # "absent"
      <4>1. staged'[a] = [staged[a] EXCEPT !.state = "cleaned"]
        BY <2>2, <3>1, <3>3 DEF AssetRow
      <4> QED BY <3>1, <4>1 DEF Ages, AssetRow, AssetStates, Live
    <3> QED BY <3>2, <3>3
  <2>4. staged' \in [Assets -> AssetRow]
    BY <2>2, <2>3
  <2> QED BY <2>1, <2>3, <2>4, <1>0, AgeKeeps
<1>8. CASE UNCHANGED <<staged, packageMark>>
  BY <1>8, <1>0, RowsKept
<1> QED
  BY PackagesNext, <1>1, <1>2, <1>3, <1>4, <1>5, <1>6, <1>7, <1>8
  DEF PackagesNext, OperatorStep, prepare_export, snapshot_local_export_dependencies, publish_registered_local_export,
      abort_registered_local_export, package_crash, read_install, begin_handoff, begin_export, begin_complete, begin_abort,
      dependency_changes, packageRecords, packageWorld

-----------------------------------------------------------------------------
(* Exports.                                                                *)

\* One attempt changes, and the rest of the records stay.
LEMMA AttemptKeeps ==
    ASSUME ExportsSound, NEW e \in Exports, NEW row \in ExportRow, export' = [export EXCEPT ![e] = row],
           packageMark' = packageMark, exportDir' \subseteq exportDir \cup {e}, exportDir \subseteq exportDir' \cup {e},
           audited' \subseteq audited \cup {e}, audited \subseteq audited' \cup {e},
           AttemptSound(row, e \in exportDir', e \in audited', packageMark)
    PROVE  ExportsSound'
<1>1. export' \in [Exports -> ExportRow] /\ export'[e] = row /\ \A d \in Exports : d # e => export'[d] = export[d]
  BY DEF ExportsSound
<1>2. exportDir' \subseteq Exports /\ audited' \subseteq Exports /\ packageMark' \in Nat
  BY DEF ExportsSound
<1>3. ASSUME NEW d \in Exports PROVE AttemptSound(export'[d], d \in exportDir', d \in audited', packageMark')
  <2>1. CASE d = e
    BY <2>1, <1>1
  <2>2. CASE d # e
    <3>1. export'[d] = export[d] /\ (d \in exportDir' <=> d \in exportDir) /\ (d \in audited' <=> d \in audited)
      BY <2>2, <1>1
    <3> QED BY <3>1 DEF ExportsSound, AttemptSound
  <2> QED BY <2>1, <2>2
<1> QED BY <1>1, <1>2, <1>3 DEF ExportsSound

LEMMA AttemptsKept ==
    ASSUME ExportsSound, UNCHANGED <<export, exportDir, audited>>, packageMark' \in Nat, packageMark <= packageMark'
    PROVE  ExportsSound'
<1>1. \A e \in Exports : export[e].mark \in Nat
  BY DEF ExportsSound, ExportRow
<1> QED BY <1>1 DEF ExportsSound, AttemptSound

LEMMA ExportsKept ==
    ASSUME PkgInv, PackagesNext
    PROVE  ExportsSound'
<1> USE DEF PkgInv
<1>0. packageMark \in Nat /\ export \in [Exports -> ExportRow] /\ exportDir \subseteq Exports /\ audited \subseteq Exports
      /\ \A e \in Exports : AttemptSound(export[e], e \in exportDir, e \in audited, packageMark)
  BY DEF ExportsSound
<1>1. ASSUME NEW o \in Operators, prepare_export(o) PROVE ExportsSound'
  <2> DEFINE e == operator[o].export
             row == [state |-> "prepared", asset |-> operator[o].asset, mark |-> packageMark]
  <2>1. e \in Exports /\ operator[o].asset \in Assets
    BY <1>1 DEF prepare_export, OperatorsSound, HoldsItsOwn
  <2>2. packageMark' = packageMark /\ exportDir' = exportDir /\ audited' = audited
    BY <1>1 DEF prepare_export, packageWorld
  <2>3. CASE export' = export
    BY <2>2, <2>3, <1>0, AttemptsKept
  <2>4. CASE export' = [export EXCEPT ![e] = row] /\ export[e].state = "absent"
    <3>1. row \in ExportRow
      BY <2>1, <1>0 DEF ExportRow, ExportStates
    <3>2. AttemptSound(row, e \in exportDir', e \in audited', packageMark)
      BY <2>1, <2>2, <2>4, <1>0 DEF AttemptSound
    <3>3. export' = [export EXCEPT ![e] = row]
      BY <2>4
    <3> HIDE DEF row, e
    <3> QED BY <2>1, <2>2, <3>1, <3>2, <3>3, AttemptKeeps
  <2> QED BY <1>1, <2>3, <2>4 DEF prepare_export
<1>2. ASSUME NEW o \in Operators, publish_registered_local_export(o) PROVE ExportsSound'
  <2> DEFINE e == operator[o].export
             row == [export[e] EXCEPT !.state = "completed"]
  <2>1. e \in Exports
    BY <1>2 DEF publish_registered_local_export, OperatorsSound, HoldsItsOwn
  <2>2. packageMark' = packageMark
    BY <1>2 DEF publish_registered_local_export, packageWorld
  <2>3. CASE ~MayPublish(o)
    BY <1>2, <2>2, <2>3, <1>0, AttemptsKept DEF publish_registered_local_export
  <2>4. CASE MayPublish(o)
    <3>1. exportDir' = exportDir \cup {e} /\ audited' = audited \cup {e} /\ export' = [export EXCEPT ![e] = row]
      BY <1>2, <2>4 DEF publish_registered_local_export
    <3>2. export[e] \in ExportRow
      BY <2>1, <1>0
    <3>3. row \in ExportRow /\ row.mark = export[e].mark /\ row.state = "completed"
      BY <3>2 DEF ExportRow, ExportStates
    <3>4. AttemptSound(row, e \in exportDir', e \in audited', packageMark)
      BY <2>1, <3>1, <3>3, <1>0 DEF AttemptSound
    <3> HIDE DEF row, e
    <3>5. exportDir' \subseteq exportDir \cup {e} /\ exportDir \subseteq exportDir' \cup {e}
          /\ audited' \subseteq audited \cup {e} /\ audited \subseteq audited' \cup {e}
      BY <3>1
    <3> QED BY <2>1, <2>2, <3>1, <3>3, <3>4, <3>5, AttemptKeeps
  <2> QED BY <2>3, <2>4
<1>3. ASSUME NEW o \in Operators, abort_registered_local_export(o) PROVE ExportsSound'
  <2> DEFINE e == operator[o].export
             row == [export[e] EXCEPT !.state = "aborted"]
  <2>1. e \in Exports
    BY <1>3 DEF abort_registered_local_export, OperatorsSound, HoldsItsOwn
  <2>2. packageMark' = packageMark /\ exportDir' = exportDir /\ audited' = audited
    BY <1>3 DEF abort_registered_local_export, packageWorld
  <2>3. CASE export' = export
    BY <2>2, <2>3, <1>0, AttemptsKept
  <2>4. CASE export' = [export EXCEPT ![e].state = "aborted"] /\ export[e].state = "prepared" /\ e \notin exportDir
    <3>1. export[e] \in ExportRow
      BY <2>1, <1>0
    <3>2. row \in ExportRow /\ row.mark = export[e].mark /\ row.state = "aborted"
      BY <3>1 DEF ExportRow, ExportStates
    <3>3. AttemptSound(row, e \in exportDir', e \in audited', packageMark)
      BY <2>1, <2>2, <2>4, <3>2, <1>0 DEF AttemptSound
    <3>4. export' = [export EXCEPT ![e] = row]
      BY <2>4
    <3> HIDE DEF row, e
    <3> QED BY <2>1, <2>2, <3>2, <3>3, <3>4, AttemptKeeps
  <2> QED BY <1>3, <2>3, <2>4 DEF abort_registered_local_export
<1>4. ASSUME NEW o \in Operators, package_crash(o) PROVE ExportsSound'
  <2> DEFINE e == operator[o].export
  <2>1. export' = export /\ audited' = audited /\ packageMark' = packageMark
    BY <1>4 DEF package_crash
  <2>2. CASE exportDir' = exportDir
    BY <2>1, <2>2, <1>0, AttemptsKept
  <2>3. CASE exportDir' = exportDir \cup {e} /\ operator[o].at = "publish" /\ MayPublish(o)
    <3>1. e \in Exports
      BY <2>3 DEF OperatorsSound, HoldsItsOwn
    <3> DEFINE row == export[e]
    <3>2. row \in ExportRow /\ row.state = "prepared"
      BY <2>3, <3>1, <1>0 DEF MayPublish
    <3>3. AttemptSound(row, e \in exportDir', e \in audited', packageMark)
      BY <2>1, <2>3, <3>1, <3>2, <1>0 DEF AttemptSound
    <3>4. export' = [export EXCEPT ![e] = row]
      BY <2>1, <3>1, <1>0
    <3> HIDE DEF row, e
    <3>5. exportDir' \subseteq exportDir \cup {e} /\ exportDir \subseteq exportDir' \cup {e}
      BY <2>3
    <3> QED BY <2>1, <3>1, <3>2, <3>3, <3>4, <3>5, AttemptKeeps
  <2> QED BY <1>4, <2>2, <2>3 DEF package_crash
<1>5. CASE package_cleanup
  <2>1. packageMark' = packageMark /\ exportDir' = {} /\ audited' = {}
        /\ export' = [e \in Exports |-> [export[e] EXCEPT !.state = IF @ = "absent" THEN @ ELSE "cleaned"]]
    BY <1>5 DEF package_cleanup, packageWorld
  <2>2. ASSUME NEW e \in Exports
        PROVE  export'[e] \in ExportRow /\ AttemptSound(export'[e], e \in exportDir', e \in audited', packageMark')
    <3>1. export[e] \in ExportRow /\ export[e].mark <= packageMark
      BY <1>0 DEF AttemptSound
    <3>2. export'[e] = [export[e] EXCEPT !.state = IF export[e].state = "absent" THEN export[e].state ELSE "cleaned"]
      BY <2>1
    <3>3. export'[e] \in ExportRow /\ export'[e].mark = export[e].mark /\ export'[e].state \in {"absent", "cleaned"}
      BY <3>1, <3>2 DEF ExportRow, ExportStates
    <3> QED BY <2>1, <3>1, <3>3 DEF AttemptSound
  <2> QED BY <2>1, <2>2, <1>0 DEF ExportsSound
<1>6. ASSUME NEW source \in BOOLEAN, package_revoke(source) PROVE ExportsSound'
  <2>1. UNCHANGED <<export, exportDir, audited>> /\ packageMark' = packageMark + 1
    BY <1>6 DEF package_revoke, packageRecords
  <2> QED BY <2>1, <1>0, AttemptsKept
<1>7. CASE UNCHANGED <<export, exportDir, audited, packageMark>>
  BY <1>7, <1>0, AttemptsKept
<1> USE DEF packageRecords, packageWorld
<1>8. ASSUME NEW o \in Operators, stage_reset_to_baseline(o) \/ record_candidate_handoff(o) \/ snapshot_local_export_dependencies(o)
      PROVE  ExportsSound'
  BY <1>7, <1>8 DEF stage_reset_to_baseline, record_candidate_handoff, snapshot_local_export_dependencies
<1>9. ASSUME NEW o \in Operators, NEW a \in Assets, stage_package(o, a) \/ abort_staged(o, a) \/ read_install(o, a)
      PROVE  ExportsSound'
  BY <1>7, <1>9 DEF stage_package, abort_staged, read_install
<1>10. ASSUME NEW o \in Operators, NEW a \in Assets, NEW c \in Candidates, begin_handoff(o, a, c) PROVE ExportsSound'
  BY <1>7, <1>10 DEF begin_handoff
<1>11. ASSUME NEW o \in Operators, NEW a \in Assets, NEW l \in SeedContents, NEW u \in SeedContents, NEW confirmed \in BOOLEAN,
             install_seed(o, a, l, u, confirmed)
      PROVE  ExportsSound'
  BY <1>7, <1>11 DEF install_seed
<1>12. ASSUME NEW o \in Operators, NEW a \in Assets, NEW e \in Exports, begin_export(o, e, a) PROVE ExportsSound'
  BY <1>7, <1>12 DEF begin_export
<1>13. ASSUME NEW o \in Operators, NEW e \in Exports, begin_complete(o, e) \/ begin_abort(o, e) PROVE ExportsSound'
  BY <1>7, <1>13 DEF begin_complete, begin_abort
<1>14. CASE dependency_changes
  BY <1>7, <1>14 DEF dependency_changes
<1> HIDE DEF PkgInv, packageRecords, packageWorld
<1> QED
  BY PackagesNext, <1>1, <1>2, <1>3, <1>4, <1>5, <1>6, <1>8, <1>9, <1>10, <1>11, <1>12, <1>13, <1>14
  DEF PackagesNext, OperatorStep

-----------------------------------------------------------------------------
(* Callers and the seed.                                                   *)

LEMMA OperatorMoves ==
    ASSUME OperatorsSound, NEW o \in Operators, NEW q \in OperatorRow, HoldsItsOwn(q), operator' = [operator EXCEPT ![o] = q]
    PROVE  OperatorsSound'
BY DEF OperatorsSound

LEMMA OperatorRests ==
    ASSUME OperatorsSound, NEW o \in Operators, Rests(o)
    PROVE  OperatorsSound'
<1> DEFINE q == AtRest
<1>1. q \in OperatorRow /\ HoldsItsOwn(q) /\ operator' = [operator EXCEPT ![o] = q]
  BY DEF AtRest, OperatorRow, HoldsItsOwn, Rests
<1> HIDE DEF q
<1> QED BY <1>1, OperatorMoves

LEMMA OperatorsKept ==
    ASSUME PkgInv, PackagesNext
    PROVE  OperatorsSound'
<1> USE DEF PkgInv
<1>0. staged \in [Assets -> AssetRow] /\ OperatorsSound
  BY DEF AssetsSound
<1>1. ASSUME NEW o \in Operators, NEW a \in Assets, read_install(o, a) PROVE OperatorsSound'
  <2> DEFINE q == [AtRest EXCEPT !.at = "reset", !.asset = a]
  <2>1. q \in OperatorRow /\ HoldsItsOwn(q) /\ operator' = [operator EXCEPT ![o] = q]
    BY <1>1 DEF read_install, AtRest, OperatorRow, HoldsItsOwn
  <2> HIDE DEF q
  <2> QED BY <2>1, <1>0, OperatorMoves
<1>2. ASSUME NEW o \in Operators, NEW a \in Assets, NEW c \in Candidates, begin_handoff(o, a, c) PROVE OperatorsSound'
  <2> DEFINE q == [AtRest EXCEPT !.at = "handoff", !.asset = a, !.candidate = c, !.seen = staged[a]]
  <2>1. q \in OperatorRow /\ HoldsItsOwn(q) /\ operator' = [operator EXCEPT ![o] = q]
    BY <1>0, <1>2 DEF begin_handoff, AtRest, OperatorRow, HoldsItsOwn
  <2> HIDE DEF q
  <2> QED BY <2>1, <1>0, OperatorMoves
<1>3. ASSUME NEW o \in Operators, NEW a \in Assets, NEW e \in Exports, begin_export(o, e, a) PROVE OperatorsSound'
  <2> DEFINE q == [AtRest EXCEPT !.at = "prepare", !.asset = a, !.export = e, !.seen = staged[a]]
  <2>1. q \in OperatorRow /\ HoldsItsOwn(q) /\ operator' = [operator EXCEPT ![o] = q]
    BY <1>0, <1>3 DEF begin_export, AtRest, OperatorRow, HoldsItsOwn
  <2> HIDE DEF q
  <2> QED BY <2>1, <1>0, OperatorMoves
<1>4. ASSUME NEW o \in Operators, NEW e \in Exports, begin_complete(o, e) PROVE OperatorsSound'
  <2> DEFINE q == [AtRest EXCEPT !.at = "snapshot", !.export = e]
  <2>1. q \in OperatorRow /\ HoldsItsOwn(q) /\ operator' = [operator EXCEPT ![o] = q]
    BY <1>4 DEF begin_complete, AtRest, OperatorRow, HoldsItsOwn
  <2> HIDE DEF q
  <2> QED BY <2>1, <1>0, OperatorMoves
<1>5. ASSUME NEW o \in Operators, NEW e \in Exports, begin_abort(o, e) PROVE OperatorsSound'
  <2> DEFINE q == [AtRest EXCEPT !.at = "abort", !.export = e]
  <2>1. q \in OperatorRow /\ HoldsItsOwn(q) /\ operator' = [operator EXCEPT ![o] = q]
    BY <1>5 DEF begin_abort, AtRest, OperatorRow, HoldsItsOwn
  <2> HIDE DEF q
  <2> QED BY <2>1, <1>0, OperatorMoves
<1>6. ASSUME NEW o \in Operators, snapshot_local_export_dependencies(o) PROVE OperatorsSound'
  <2> DEFINE e == operator[o].export
             q == [operator[o] EXCEPT !.at = "publish", !.seen = staged[export[e].asset]]
  <2>1. CASE Rests(o)
    BY <2>1, <1>0, OperatorRests
  <2>2. CASE operator' = [operator EXCEPT ![o].at = "publish", ![o].seen = staged[export[e].asset]] /\ export[e].state = "prepared"
    <3>1. operator[o] \in OperatorRow /\ e \in Exports /\ operator[o].export \in Exports
      BY <1>0, <1>6 DEF snapshot_local_export_dependencies, OperatorsSound, HoldsItsOwn
    <3>2. export[e].asset \in Assets
      BY <3>1, <2>2 DEF ExportsSound, AttemptSound
    <3>3. q \in OperatorRow /\ HoldsItsOwn(q)
      BY <3>1, <3>2, <1>0 DEF OperatorRow, HoldsItsOwn
    <3>4. operator' = [operator EXCEPT ![o] = q]
      BY <2>2
    <3> HIDE DEF q
    <3> QED BY <3>3, <3>4, <1>0, OperatorMoves
  <2> QED BY <1>6, <2>1, <2>2 DEF snapshot_local_export_dependencies
<1>7. ASSUME NEW o \in Operators, Rests(o) PROVE OperatorsSound'
  BY <1>7, <1>0, OperatorRests
<1>8. CASE UNCHANGED operator
  BY <1>8 DEF OperatorsSound
<1> QED
  BY PackagesNext, <1>1, <1>2, <1>3, <1>4, <1>5, <1>6, <1>7, <1>8
  DEF PackagesNext, OperatorStep, stage_package, abort_staged, install_seed, stage_reset_to_baseline, record_candidate_handoff,
      prepare_export, publish_registered_local_export, abort_registered_local_export, package_crash, package_cleanup, package_revoke,
      dependency_changes

LEMMA SeedKept ==
    ASSUME PkgInv, PackagesNext
    PROVE  SeedSound'
<1> USE DEF PkgInv, SeedSound
<1>1. ASSUME NEW o \in Operators, NEW a \in Assets, NEW l \in SeedContents, NEW u \in SeedContents, NEW confirmed \in BOOLEAN,
             install_seed(o, a, l, u, confirmed)
      PROVE  SeedSound'
  BY <1>1 DEF install_seed, AssetsSound
<1>2. CASE package_cleanup
  BY <1>2 DEF package_cleanup
<1>3. CASE UNCHANGED seed
  BY <1>3
<1> USE DEF packageRecords
<1>4. ASSUME NEW o \in Operators, OperatorStep(o) \/ package_crash(o) PROVE UNCHANGED seed
  BY <1>4 DEF OperatorStep, stage_reset_to_baseline, record_candidate_handoff, prepare_export, snapshot_local_export_dependencies,
              publish_registered_local_export, abort_registered_local_export, package_crash
<1>5. ASSUME NEW o \in Operators, NEW a \in Assets, stage_package(o, a) \/ abort_staged(o, a) \/ read_install(o, a)
      PROVE  UNCHANGED seed
  BY <1>5 DEF stage_package, abort_staged, read_install
<1>6. ASSUME NEW o \in Operators, NEW a \in Assets, NEW c \in Candidates, begin_handoff(o, a, c) PROVE UNCHANGED seed
  BY <1>6 DEF begin_handoff
<1>7. ASSUME NEW o \in Operators, NEW a \in Assets, NEW e \in Exports, begin_export(o, e, a) PROVE UNCHANGED seed
  BY <1>7 DEF begin_export
<1>8. ASSUME NEW o \in Operators, NEW e \in Exports, begin_complete(o, e) \/ begin_abort(o, e) PROVE UNCHANGED seed
  BY <1>8 DEF begin_complete, begin_abort
<1>9. CASE dependency_changes \/ \E source \in BOOLEAN : package_revoke(source)
  BY <1>9 DEF dependency_changes, package_revoke
<1> HIDE DEF PkgInv, SeedSound, packageRecords
<1> QED
  BY PackagesNext, <1>1, <1>2, <1>3, <1>4, <1>5, <1>6, <1>7, <1>8, <1>9 DEF PackagesNext

-----------------------------------------------------------------------------
(* The theorems.                                                           *)

LEMMA PkgInvNext == PkgInv /\ [PackagesNext]_packageVars => PkgInv'
<1>1. ASSUME PkgInv, PackagesNext PROVE PkgInv'
  BY <1>1, AssetsKept, ExportsKept, OperatorsKept, SeedKept DEF PkgInv
<1>2. ASSUME PkgInv, UNCHANGED packageVars PROVE PkgInv'
  BY <1>2 DEF PkgInv, packageVars, AssetsSound, ExportsSound, OperatorsSound, SeedSound
<1> QED BY <1>1, <1>2

LEMMA PackagesInvariant == PackagesSpec => []PkgInv
BY PkgInvInit, PkgInvNext, PTL DEF PackagesSpec

\* The record of an export is true of its directory and its audit, and what packages
\* and updates stage stays within MAX_STAGED_PACKAGES, whoever runs and dies
\* in between (packages.rs, publish_registered_local_export).
THEOREM PackagesAreSafe == PackagesSpec => []PackagesSafe
BY PackagesInvariant, PkgInvIsSafe, PTL

-----------------------------------------------------------------------------
(* What a step may not do.                                                 *)

CandidateStep == \A a \in Assets : staged[a].candidate # None => staged'[a].candidate = staged[a].candidate

LEMMA RowOverwritten ==
    ASSUME AssetsSound, NEW a \in Assets, NEW row, row.candidate = staged[a].candidate \/ staged[a].candidate = None,
           staged' = [staged EXCEPT ![a] = row]
    PROVE  CandidateStep
BY DEF AssetsSound, CandidateStep

LEMMA StageOverNothing ==
    ASSUME AssetsSound, NEW a \in Assets, NEW state, NEW origin, staged[a].state = "absent", Stage(a, state, origin)
    PROVE  CandidateStep
<1> DEFINE row == [state |-> state, origin |-> origin, mark |-> packageMark, candidate |-> None]
<1>1. staged' = [staged EXCEPT ![a] = row] /\ staged[a].candidate = None
  BY DEF Stage, AssetsSound, PkgRowSound
<1> HIDE DEF row
<1> QED BY <1>1, RowOverwritten

LEMMA CandidateKept ==
    ASSUME PkgInv, PackagesNext
    PROVE  CandidateStep
<1> USE DEF PkgInv
<1>0. staged \in [Assets -> AssetRow]
  BY DEF AssetsSound
<1>1. CASE UNCHANGED staged
  BY <1>1 DEF CandidateStep
<1>2. ASSUME NEW o \in Operators, stage_reset_to_baseline(o) PROVE CandidateStep
  <2>1. operator[o].asset \in Assets
    BY <1>2 DEF stage_reset_to_baseline, OperatorsSound, HoldsItsOwn
  <2>2. CASE staged[operator[o].asset].state = "absent" /\ Stage(operator[o].asset, "Staged", "reset")
    BY <2>1, <2>2, StageOverNothing
  <2> QED BY <1>1, <1>2, <2>2 DEF stage_reset_to_baseline
<1>3. ASSUME NEW o \in Operators, record_candidate_handoff(o) PROVE CandidateStep
  <2> DEFINE a == operator[o].asset  c == operator[o].candidate
  <2>1. a \in Assets
    BY <1>3 DEF record_candidate_handoff, OperatorsSound, HoldsItsOwn
  <2>2. CASE staged' = [staged EXCEPT ![a].candidate = c] /\ staged[a].candidate \in {None, c}
    <3> DEFINE row == [staged[a] EXCEPT !.candidate = c]
    <3>1. staged[a] \in AssetRow
      BY <2>1, <1>0
    <3>2. row.candidate = c /\ staged' = [staged EXCEPT ![a] = row]
      BY <2>2, <3>1 DEF AssetRow
    <3> HIDE DEF row
    <3> QED BY <2>1, <2>2, <3>2, RowOverwritten
  <2> QED BY <1>1, <1>3, <2>2 DEF record_candidate_handoff
<1>4. ASSUME NEW o \in Operators, NEW a \in Assets, stage_package(o, a) PROVE CandidateStep
  <2> DEFINE s == IF dependency THEN "Staged" ELSE "Quarantined"
  <2>1. staged[a].state = "absent" /\ Stage(a, s, "package")
    BY <1>4 DEF stage_package
  <2> HIDE DEF s
  <2> QED BY <2>1, StageOverNothing
<1>5. ASSUME NEW o \in Operators, NEW a \in Assets, abort_staged(o, a) PROVE CandidateStep
  <2> DEFINE row == [staged[a] EXCEPT !.state = "Aborted"]
  <2>1. row.candidate = staged[a].candidate /\ staged' = [staged EXCEPT ![a] = row]
    BY <1>0, <1>5 DEF abort_staged, AssetRow
  <2> HIDE DEF row
  <2> QED BY <2>1, RowOverwritten
<1>6. ASSUME NEW o \in Operators, NEW a \in Assets, NEW l \in SeedContents, NEW u \in SeedContents, NEW confirmed \in BOOLEAN,
             install_seed(o, a, l, u, confirmed)
      PROVE  CandidateStep
  <2> DEFINE origin == IF l = Baseline THEN "update" ELSE "resolution"
  <2>1. CASE staged[a].state = "absent" /\ Stage(a, "Staged", origin)
    <3> HIDE DEF origin
    <3> QED BY <2>1, StageOverNothing
  <2> QED BY <1>1, <1>6, <2>1 DEF install_seed
<1>7. CASE package_cleanup
  BY <1>0, <1>7 DEF package_cleanup, CandidateStep, AssetRow
<1> USE DEF packageRecords
<1>8. ASSUME NEW o \in Operators,
             \/ prepare_export(o) \/ snapshot_local_export_dependencies(o) \/ publish_registered_local_export(o)
             \/ abort_registered_local_export(o) \/ package_crash(o)
      PROVE  CandidateStep
  BY <1>1, <1>8 DEF prepare_export, snapshot_local_export_dependencies, publish_registered_local_export,
              abort_registered_local_export, package_crash
<1>9. ASSUME NEW o \in Operators, NEW a \in Assets,
             \/ read_install(o, a) \/ (\E c \in Candidates : begin_handoff(o, a, c)) \/ (\E e \in Exports : begin_export(o, e, a))
      PROVE  CandidateStep
  BY <1>1, <1>9 DEF read_install, begin_handoff, begin_export
<1>10. ASSUME NEW o \in Operators, NEW e \in Exports, begin_complete(o, e) \/ begin_abort(o, e) PROVE CandidateStep
  BY <1>1, <1>10 DEF begin_complete, begin_abort
<1>11. CASE dependency_changes \/ \E source \in BOOLEAN : package_revoke(source)
  BY <1>1, <1>11 DEF dependency_changes, package_revoke
<1> HIDE DEF PkgInv, packageRecords
<1> QED
  BY PackagesNext, <1>2, <1>3, <1>4, <1>5, <1>6, <1>7, <1>8, <1>9, <1>10, <1>11 DEF PackagesNext, OperatorStep

LateStep ==
    \A e \in Exports : export[e].state # "absent" /\ export[e].mark < packageMark =>
        (e \in exportDir' => e \in exportDir) /\ (export'[e].state = "completed" => export[e].state = "completed")

LEMMA NothingLate ==
    ASSUME PkgInv, PackagesNext
    PROVE  LateStep
<1> USE DEF PkgInv
<1>0. /\ export \in [Exports -> ExportRow] /\ packageMark \in Nat
      /\ \A e \in Exports : export[e].mark \in Nat
  BY DEF ExportsSound, ExportRow
<1>1. CASE UNCHANGED <<export, exportDir>>
  BY <1>1 DEF LateStep
<1>2. ASSUME NEW o \in Operators, prepare_export(o) PROVE LateStep
  <2>1. operator[o].export \in Exports /\ exportDir' = exportDir
    BY <1>2 DEF prepare_export, OperatorsSound, HoldsItsOwn
  <2>2. \A e \in Exports : export[e].state # "absent" => export'[e] = export[e]
    BY <1>0, <1>2, <2>1 DEF prepare_export
  <2> QED BY <2>1, <2>2 DEF LateStep
<1>3. ASSUME NEW o \in Operators, publish_registered_local_export(o) PROVE LateStep
  <2> DEFINE d == operator[o].export
  <2>1. d \in Exports
    BY <1>3 DEF publish_registered_local_export, OperatorsSound, HoldsItsOwn
  <2>2. \A e \in Exports : e # d => export'[e] = export[e] /\ (e \in exportDir' <=> e \in exportDir)
    BY <1>0, <1>3, <2>1 DEF publish_registered_local_export
  <2>3. export[d].mark # packageMark => UNCHANGED <<export, exportDir>>
    BY <1>3 DEF publish_registered_local_export, MayPublish
  <2> QED BY <1>0, <1>1, <2>2, <2>3 DEF LateStep
<1>4. ASSUME NEW o \in Operators, abort_registered_local_export(o) PROVE LateStep
  <2> DEFINE d == operator[o].export
  <2>1. d \in Exports /\ exportDir' = exportDir
    BY <1>4 DEF abort_registered_local_export, OperatorsSound, HoldsItsOwn
  <2>2. \A e \in Exports : export'[e].state # "completed" \/ export'[e] = export[e]
    BY <1>0, <1>4, <2>1 DEF abort_registered_local_export, ExportRow
  <2> QED BY <2>1, <2>2 DEF LateStep
<1>5. ASSUME NEW o \in Operators, package_crash(o) PROVE LateStep
  <2> DEFINE d == operator[o].export
  <2>1. export' = export /\ \A e \in Exports : e \in exportDir' => e \in exportDir \/ (e = d /\ export[d].mark = packageMark)
    BY <1>5 DEF package_crash, MayPublish
  <2> QED BY <1>0, <2>1 DEF LateStep
<1>6. CASE package_cleanup
  <2>1. exportDir' = {} /\ \A e \in Exports : export'[e].state \in {"absent", "cleaned"}
    BY <1>0, <1>6 DEF package_cleanup, ExportRow
  <2> QED BY <2>1 DEF LateStep
<1> USE DEF packageRecords
<1>7. ASSUME NEW o \in Operators, stage_reset_to_baseline(o) \/ record_candidate_handoff(o) \/ snapshot_local_export_dependencies(o)
      PROVE  LateStep
  BY <1>1, <1>7 DEF stage_reset_to_baseline, record_candidate_handoff, snapshot_local_export_dependencies
<1>8. ASSUME NEW o \in Operators, NEW a \in Assets,
             \/ stage_package(o, a) \/ abort_staged(o, a) \/ read_install(o, a)
             \/ (\E c \in Candidates : begin_handoff(o, a, c)) \/ (\E e \in Exports : begin_export(o, e, a))
      PROVE  LateStep
  BY <1>1, <1>8 DEF stage_package, abort_staged, read_install, begin_handoff, begin_export
<1>9. ASSUME NEW o \in Operators, NEW a \in Assets, NEW l \in SeedContents, NEW u \in SeedContents, NEW confirmed \in BOOLEAN,
             install_seed(o, a, l, u, confirmed)
      PROVE  LateStep
  BY <1>1, <1>9 DEF install_seed
<1>10. ASSUME NEW o \in Operators, NEW e \in Exports, begin_complete(o, e) \/ begin_abort(o, e) PROVE LateStep
  BY <1>1, <1>10 DEF begin_complete, begin_abort
<1>11. CASE dependency_changes \/ \E source \in BOOLEAN : package_revoke(source)
  BY <1>1, <1>11 DEF dependency_changes, package_revoke
<1> HIDE DEF PkgInv, packageRecords
<1> QED
  BY PackagesNext, <1>2, <1>3, <1>4, <1>5, <1>6, <1>7, <1>8, <1>9, <1>10, <1>11 DEF PackagesNext, OperatorStep

\* An asset stays with the candidate it was handed to, and nothing is delivered whose
\* attempt was prepared before the watermark moved (record_candidate_handoff,
\* publish_registered_local_export, with crashes and any interleaving of operators).
THEOREM DeliveriesStand == PackagesSpec => OneCandidatePerAsset /\ NothingDeliveredLate
<1>1. PkgInv /\ [PackagesNext]_packageVars
        => [\A a \in Assets : staged[a].candidate # None => staged'[a].candidate = staged[a].candidate]_packageVars
  BY CandidateKept DEF CandidateStep
<1>2. PkgInv /\ [PackagesNext]_packageVars
        => [\A e \in Exports : export[e].state # "absent" /\ export[e].mark < packageMark =>
             (e \in exportDir' => e \in exportDir) /\ (export'[e].state = "completed" => export[e].state = "completed")]_packageVars
  BY NothingLate DEF LateStep
<1> QED
  BY PackagesInvariant, <1>1, <1>2, PTL DEF PackagesSpec, OneCandidatePerAsset, NothingDeliveredLate

-----------------------------------------------------------------------------
(***************************************************************************)
(* Development execution, for any number of workers, jobs, tasks and       *)
(* attempts.                                                               *)
(***************************************************************************)

(* The invariant.                                                          *)

CallStates == {"absent", "reserved", "dispatched", "finalized", "uncertain", "released"}
CallRow == [state : CallStates, until : Nat, dispatches : Nat]

Places == {"idle", "claim", "attempt", "run", "existing", "reserve", "begin", "settle", "receipt", "grade", "close", "record", "persist"}
InRun == {"existing", "reserve", "begin", "settle", "receipt", "grade"}

WorkRow == [at : Places, job : Jobs \cup {None}, attempt : 1..PracticeAttempts, task : DevTasks, side : {1, 2},
            held : CallStates, now : Nat, done : Seq(Nat), stop : StopReasons \cup {None}]

\* What a worker relies on, given the set its registration is bound to, the
\* requests with tasks that were graded and the requests that were closed.
JobSound(q, bound) ==
    /\ q.at # "idle" => q.job \in Jobs
    /\ q.at \in {"claim", "attempt", "record", "persist"} => q.job \in PracticeSets
    /\ q.at \notin {"idle", "claim"} /\ q.job \in PracticeSets => bound = q.job

DoneSound(q, closed) ==
    /\ \A n \in DOMAIN q.done : <<q.job, n>> \in closed
    /\ q.at # "persist" => q.stop = None /\ q.attempt = Len(q.done) + 1
    /\ q.at = "persist" => ((q.stop = None) = (Len(q.done) = PracticeAttempts))

TasksSound(q, graded) ==
    /\ q.at \in InRun => \A u \in DevTasks : u < q.task => <<<<q.job, q.attempt>>, u>> \in graded
    /\ q.at = "close" => \A u \in DevTasks : <<<<q.job, q.attempt>>, u>> \in graded

WorkSound(q, bound, graded, closed) == JobSound(q, bound) /\ DoneSound(q, closed) /\ TasksSound(q, graded)

WorksSound ==
    /\ devWork \in [DevWorkers -> WorkRow]
    /\ \A w \in DevWorkers : WorkSound(devWork[w], binding, DOMAIN graderReceipt, DOMAIN runReceipt)

\* A row was sent at most once, and for the bound set.
DevRowSound(k, c, bound) ==
    /\ (c.state \in {"absent", "reserved", "released"} => c.dispatches = 0)
    /\ (c.state \in {"dispatched", "finalized", "uncertain"} => c.dispatches = 1)
    /\ (c.dispatches > 0 /\ k[1][1] \in PracticeSets => bound = k[1][1])

CallsSound ==
    /\ execCall \in [CallKeys -> CallRow]
    /\ \A k \in CallKeys : DevRowSound(k, execCall[k], binding)

ReceiptsSound ==
    /\ DOMAIN execReceipt \subseteq CallKeys /\ DOMAIN graderReceipt \subseteq Requests \X DevTasks
    /\ DOMAIN runReceipt \subseteq Requests
    /\ \A k \in DOMAIN execReceipt : execCall[k].state = "finalized"
    /\ \A r \in Requests, t \in DevTasks : <<r, t>> \in DOMAIN graderReceipt =>
          <<r, t, "parent">> \in DOMAIN execReceipt /\ <<r, t, "candidate">> \in DOMAIN execReceipt
    /\ \A r \in DOMAIN runReceipt : \A t \in DevTasks : <<r, t>> \in DOMAIN graderReceipt

SetsSound ==
    /\ binding \in PracticeSets \cup {None} /\ DOMAIN practiceSet \subseteq PracticeSets
    /\ SetIsEvidence

WorldSound ==
    /\ runner \in Runners /\ devScore \in DevScores /\ devClock \in 0..DevClockLimit
    /\ devLive \in BOOLEAN /\ devInputs \in BOOLEAN /\ devStopped \in BOOLEAN
    /\ devFaults \in 0..DevFaultLimit

DevInv == WorldSound /\ WorksSound /\ CallsSound /\ ReceiptsSound /\ SetsSound

LEMMA Tasks ==
    /\ DevTasks = 1..Cardinality(DevTasks) /\ Cardinality(DevTasks) \in Nat \ {0}
    /\ FirstTask = 1 /\ FirstTask \in DevTasks
    /\ LastTask = Cardinality(DevTasks)
<1>1. Cardinality(DevTasks) \in Nat /\ DevTasks = 1..Cardinality(DevTasks) /\ DevTasks # {}
  BY DevelopmentShape, FS_CardinalityType
<1> DEFINE n == Cardinality(DevTasks)
<1>2. n \in Nat \ {0} /\ DevTasks = 1..n
  BY <1>1
<1> HIDE DEF n
<1>3. \E t \in DevTasks : \A u \in DevTasks : t <= u
  BY <1>2
<1>4. FirstTask \in DevTasks /\ \A u \in DevTasks : FirstTask <= u
  BY <1>3, Zenon DEF FirstTask
<1>5. \E t \in DevTasks : \A u \in DevTasks : t >= u
  BY <1>2
<1>6. LastTask \in DevTasks /\ \A u \in DevTasks : LastTask >= u
  BY <1>5, Zenon DEF LastTask
<1>7. FirstTask = 1 /\ LastTask = n
  BY <1>2, <1>4, <1>6
<1> QED BY <1>1, <1>2, <1>4, <1>7 DEF n

LEMMA DevInvIsSafe == DevInv => DevelopmentSafe
<1> SUFFICES ASSUME DevInv PROVE DevelopmentSafe
  OBVIOUS
<1>1. DevTypeOK
  BY DEF DevInv, WorldSound, WorksSound, CallsSound, ReceiptsSound, SetsSound, DevTypeOK, WorkRow, Places, CallRow, CallStates
<1>2. ReceiptsClose
  <2>1. ASSUME NEW k \in DOMAIN execReceipt PROVE execCall[k].state = "finalized" /\ execCall[k].dispatches = 1
    BY DEF DevInv, ReceiptsSound, CallsSound, DevRowSound
  <2>2. ASSUME NEW p \in DOMAIN graderReceipt, NEW s \in {"parent", "candidate"} PROVE <<p[1], p[2], s>> \in DOMAIN execReceipt
    <3>1. p[1] \in Requests /\ p[2] \in DevTasks /\ p = <<p[1], p[2]>>
      BY DEF DevInv, ReceiptsSound
    <3> QED BY <3>1 DEF DevInv, ReceiptsSound
  <2> QED BY <2>1, <2>2 DEF DevInv, ReceiptsSound, ReceiptsClose
<1>3. SentIsNotReleased
  BY DEF DevInv, CallsSound, DevRowSound, SentIsNotReleased
<1>4. OneSetPerRegistration
  BY DEF DevInv, CallsSound, DevRowSound, OneSetPerRegistration
<1>5. SetIsEvidence
  BY DEF DevInv, SetsSound
<1> QED BY <1>1, <1>2, <1>3, <1>4, <1>5 DEF DevelopmentSafe

LEMMA IdleRow == DevIdle \in WorkRow /\ \A b, g, c : WorkSound(DevIdle, b, g, c)
<1>1. DevIdle \in WorkRow
  BY Tasks, DevelopmentShape DEF DevIdle, WorkRow, Places, CallStates
<1>2. DevIdle.at = "idle" /\ DevIdle.done = <<>> /\ DevIdle.stop = None /\ DevIdle.attempt = 1 /\ Len(<<>>) = 0 /\ DOMAIN <<>> = {}
  BY DEF DevIdle
<1>3. \A b : JobSound(DevIdle, b)
  BY <1>2 DEF JobSound
<1>4. \A c : DoneSound(DevIdle, c)
  BY <1>2 DEF DoneSound
<1>5. \A g : TasksSound(DevIdle, g)
  BY <1>2 DEF TasksSound, InRun
<1> QED BY <1>1, <1>3, <1>4, <1>5 DEF WorkSound

LEMMA DevInvInit == DevelopmentInit => DevInv
<1> SUFFICES ASSUME DevelopmentInit PROVE DevInv
  OBVIOUS
<1> USE DEF DevelopmentInit
<1>1. WorldSound
  <2>1. 0 \in 0..DevClockLimit /\ 0 \in 0..DevFaultLimit
    BY DevelopmentShape
  <2> QED BY <2>1, Zenon DEF WorldSound
<1>2. WorksSound
  BY IdleRow DEF WorksSound
<1>3. CallsSound
  BY DEF CallsSound, CallRow, CallStates, DevRowSound, AbsentCall
<1>4. DOMAIN execReceipt = {} /\ DOMAIN graderReceipt = {} /\ DOMAIN runReceipt = {} /\ DOMAIN practiceSet = {}
  OBVIOUS
<1>5. ReceiptsSound
  BY <1>4 DEF ReceiptsSound
<1>6. SetsSound
  BY <1>4 DEF SetsSound, SetIsEvidence
<1> QED BY <1>1, <1>2, <1>3, <1>5, <1>6 DEF DevInv

-----------------------------------------------------------------------------
(* What every step preserves.                                              *)

\* Evidence grows, and a bound registration stays bound.
Grows ==
    /\ DOMAIN graderReceipt \subseteq DOMAIN graderReceipt'
    /\ DOMAIN runReceipt \subseteq DOMAIN runReceipt'
    /\ (binding # None => binding' = binding)

LEMMA WorkStays ==
    ASSUME NEW q \in WorkRow, WorkSound(q, binding, DOMAIN graderReceipt, DOMAIN runReceipt), Grows
    PROVE  WorkSound(q, binding', DOMAIN graderReceipt', DOMAIN runReceipt')
<1>1. JobSound(q, binding')
  BY DevelopmentShape DEF WorkSound, JobSound, Grows
<1>2. DoneSound(q, DOMAIN runReceipt')
  BY DEF WorkSound, DoneSound, Grows
<1>3. TasksSound(q, DOMAIN graderReceipt')
  BY DEF WorkSound, TasksSound, Grows
<1> QED BY <1>1, <1>2, <1>3 DEF WorkSound

LEMMA WorkMoves ==
    ASSUME WorksSound, Grows, NEW w \in DevWorkers, NEW q \in WorkRow, devWork' = [devWork EXCEPT ![w] = q],
           WorkSound(q, binding', DOMAIN graderReceipt', DOMAIN runReceipt')
    PROVE  WorksSound'
<1>1. devWork' \in [DevWorkers -> WorkRow] /\ devWork'[w] = q /\ \A v \in DevWorkers : v # w => devWork'[v] = devWork[v]
  BY DEF WorksSound
<1>2. ASSUME NEW v \in DevWorkers PROVE WorkSound(devWork'[v], binding', DOMAIN graderReceipt', DOMAIN runReceipt')
  <2>1. CASE v = w
    BY <1>1, <2>1
  <2>2. CASE v # w
    <3>1. devWork[v] \in WorkRow /\ WorkSound(devWork[v], binding, DOMAIN graderReceipt, DOMAIN runReceipt)
      BY DEF WorksSound
    <3> QED BY <1>1, <2>2, <3>1, WorkStays
  <2> QED BY <2>1, <2>2
<1> QED BY <1>1, <1>2 DEF WorksSound

LEMMA WorksStay ==
    ASSUME WorksSound, Grows, UNCHANGED devWork
    PROVE  WorksSound'
<1>1. ASSUME NEW v \in DevWorkers PROVE WorkSound(devWork'[v], binding', DOMAIN graderReceipt', DOMAIN runReceipt')
  <2>1. devWork[v] \in WorkRow /\ WorkSound(devWork[v], binding, DOMAIN graderReceipt, DOMAIN runReceipt) /\ devWork'[v] = devWork[v]
    BY DEF WorksSound
  <2> QED BY <2>1, WorkStays
<1> QED BY <1>1 DEF WorksSound

LEMMA WorkIdles ==
    ASSUME WorksSound, Grows, NEW w \in DevWorkers, devWork' = [devWork EXCEPT ![w] = DevIdle]
    PROVE  WorksSound'
<1> DEFINE q == DevIdle
<1>1. q \in WorkRow /\ WorkSound(q, binding', DOMAIN graderReceipt', DOMAIN runReceipt') /\ devWork' = [devWork EXCEPT ![w] = q]
  BY IdleRow
<1> HIDE DEF q
<1> QED BY <1>1, WorkMoves

\* A worker that stops keeps what it finished.
LEMMA StopSound ==
    ASSUME NEW q \in WorkRow, NEW why \in StopReasons, NEW b, NEW g, NEW c, WorkSound(q, b, g, c),
           q.at \notin {"idle", "claim", "persist"}, q.job \in PracticeSets
    PROVE  LET n == [q EXCEPT !.at = "persist", !.stop = why] IN n \in WorkRow /\ WorkSound(n, b, g, c)
<1> DEFINE n == [q EXCEPT !.at = "persist", !.stop = why]
<1>1. n \in WorkRow /\ n.at = "persist" /\ n.stop = why /\ n.job = q.job /\ n.done = q.done /\ q.attempt \in 1..PracticeAttempts
  BY DEF WorkRow, Places
<1>8. Len(q.done) \in Nat
  <2>1. q.done \in Seq(Nat)
    BY DEF WorkRow
  <2> QED BY <2>1
<1>2. why # None
  BY DevelopmentShape
<1>3. q.attempt = Len(q.done) + 1
  BY DEF WorkSound, DoneSound
<1>4. Len(n.done) # PracticeAttempts
  BY <1>1, <1>3, <1>8, DevelopmentShape
<1> HIDE DEF n
<1>5. JobSound(n, b)
  BY <1>1 DEF WorkSound, JobSound
<1>6. DoneSound(n, c)
  BY <1>1, <1>2, <1>4 DEF WorkSound, DoneSound
<1>7. TasksSound(n, g)
  BY <1>1 DEF TasksSound, InRun
<1> QED BY <1>1, <1>5, <1>6, <1>7 DEF WorkSound, n

LEMMA StopKeeps ==
    ASSUME WorksSound, NEW w \in DevWorkers, NEW why \in StopReasons, runner_stop_reason(w, why),
           devWork[w].at \notin {"idle", "claim", "persist"}, UNCHANGED <<graderReceipt, runReceipt, binding>>
    PROVE  WorksSound'
<1> DEFINE q == devWork[w]  n == [q EXCEPT !.at = "persist", !.stop = why]
<1>1. q \in WorkRow /\ WorkSound(q, binding, DOMAIN graderReceipt, DOMAIN runReceipt) /\ Grows
  BY DEF WorksSound, Grows
<1>2. CASE q.job \in PracticeSets
  <2>1. devWork' = [devWork EXCEPT ![w] = n]
    BY <1>2 DEF runner_stop_reason
  <2>2. n \in WorkRow /\ WorkSound(n, binding, DOMAIN graderReceipt, DOMAIN runReceipt)
    <3> HIDE DEF q
    <3>1. q.at \notin {"idle", "claim", "persist"}
      BY DEF q
    <3> QED BY <1>1, <1>2, <3>1, StopSound
  <2> HIDE DEF n
  <2>3. WorkSound(n, binding', DOMAIN graderReceipt', DOMAIN runReceipt')
    BY <2>2
  <2> QED BY <1>1, <2>1, <2>2, <2>3, WorkMoves
<1>3. CASE q.job \notin PracticeSets
  BY <1>1, <1>3, WorkIdles DEF runner_stop_reason
<1> QED BY <1>2, <1>3

LEMMA IssueDomain ==
    ASSUME NEW r, NEW k, NEW t
    PROVE  /\ DOMAIN Issue(r, k, t) = DOMAIN r \cup {k} /\ Issue(r, k, t)[k] = t
           /\ \A x \in DOMAIN r : x # k => Issue(r, k, t)[x] = r[x]
BY DEF Issue

-----------------------------------------------------------------------------
(* Calls.                                                                  *)

LEMMA KeyOfRun ==
    ASSUME WorksSound, NEW w \in DevWorkers, devWork[w].at \in InRun
    PROVE  /\ Key(w) \in CallKeys /\ Key(w)[1][1] = devWork[w].job
           /\ Req(w) \in Requests /\ devWork[w].task \in DevTasks /\ Pair(w) \in Requests \X DevTasks
           /\ (devWork[w].job \in PracticeSets => binding = devWork[w].job)
<1>1. devWork[w] \in WorkRow /\ JobSound(devWork[w], binding)
  BY DEF WorksSound, WorkSound
<1>2. devWork[w].job \in Jobs /\ devWork[w].attempt \in 1..PracticeAttempts /\ devWork[w].task \in DevTasks /\ devWork[w].side \in {1, 2}
      /\ (devWork[w].job \in PracticeSets => binding = devWork[w].job)
  BY <1>1 DEF WorkRow, JobSound, InRun
<1>3. Req(w) \in Requests /\ Req(w)[1] = devWork[w].job
  BY <1>2 DEF Req, Requests
<1>4. Sides[devWork[w].side] \in {"parent", "candidate"}
  BY <1>2 DEF Sides
<1> QED BY <1>2, <1>3, <1>4 DEF Key, CallKeys, Pair

Bound == binding # None => binding' = binding
FinalStays == \A k \in CallKeys : execCall[k].state = "finalized" => execCall'[k].state = "finalized"

LEMMA CallMoves ==
    ASSUME CallsSound, NEW k \in CallKeys, NEW c \in CallRow, execCall' = [execCall EXCEPT ![k] = c],
           DevRowSound(k, c, binding'), Bound, execCall[k].state = "finalized" => c.state = "finalized"
    PROVE  CallsSound' /\ FinalStays
<1>1. execCall' \in [CallKeys -> CallRow] /\ execCall'[k] = c /\ \A j \in CallKeys : j # k => execCall'[j] = execCall[j]
  BY DEF CallsSound
<1>2. ASSUME NEW j \in CallKeys PROVE DevRowSound(j, execCall'[j], binding')
  <2>1. CASE j = k
    BY <1>1, <2>1
  <2>2. CASE j # k
    <3>1. DevRowSound(j, execCall[j], binding) /\ execCall'[j] = execCall[j]
      BY <1>1, <2>2 DEF CallsSound
    <3> QED BY <3>1, DevelopmentShape DEF DevRowSound, Bound
  <2> QED BY <2>1, <2>2
<1> QED BY <1>1, <1>2 DEF CallsSound, FinalStays

LEMMA CallsStay ==
    ASSUME CallsSound, UNCHANGED execCall, Bound
    PROVE  CallsSound' /\ FinalStays
<1>1. ASSUME NEW j \in CallKeys PROVE DevRowSound(j, execCall'[j], binding')
  <2>1. DevRowSound(j, execCall[j], binding) /\ execCall'[j] = execCall[j]
    BY DEF CallsSound
  <2> QED BY <2>1, DevelopmentShape DEF DevRowSound, Bound
<1> QED BY <1>1 DEF CallsSound, FinalStays

LEMMA ReleaseKeeps ==
    ASSUME CallsSound, WorksSound, NEW w \in DevWorkers, devWork[w].at \in InRun, UNCHANGED binding,
           execCall' = IF KeepsReservation THEN execCall ELSE release_undispatched(w)
    PROVE  CallsSound' /\ FinalStays
<1> DEFINE k == Key(w)
           c == [execCall[k] EXCEPT !.state = IF devWork[w].held = "reserved" /\ execCall[k].state = "reserved" THEN "released" ELSE execCall[k].state]
<1>1. k \in CallKeys /\ execCall[k] \in CallRow /\ DevRowSound(k, execCall[k], binding) /\ Bound
  BY KeyOfRun DEF CallsSound, Bound
<1>2. CASE execCall' = execCall
  BY <1>1, <1>2, CallsStay
<1>3. CASE execCall' = release_undispatched(w)
  <2>1. execCall' = [execCall EXCEPT ![k] = c]
    BY <1>3 DEF release_undispatched
  <2>2. c \in CallRow /\ (c = execCall[k] \/ (execCall[k].state = "reserved" /\ c.state = "released" /\ c.dispatches = execCall[k].dispatches))
    <3>1. CASE devWork[w].held = "reserved" /\ execCall[k].state = "reserved"
      BY <1>1, <3>1 DEF CallRow, CallStates
    <3>2. CASE ~(devWork[w].held = "reserved" /\ execCall[k].state = "reserved")
      BY <1>1, <3>2 DEF CallRow
    <3> QED BY <3>1, <3>2
  <2> HIDE DEF c, k
  <2>3. DevRowSound(k, c, binding') /\ (execCall[k].state = "finalized" => c.state = "finalized")
    BY <1>1, <2>2 DEF DevRowSound
  <2> QED BY <1>1, <2>1, <2>2, <2>3, CallMoves
<1> QED BY <1>2, <1>3

LEMMA CallsKept ==
    ASSUME DevInv, DevelopmentNext
    PROVE  CallsSound' /\ FinalStays
<1> USE DEF DevInv
<1>1. ASSUME NEW w \in DevWorkers, reserve_call(w) PROVE CallsSound' /\ FinalStays
  <2> DEFINE k == Key(w)
             new == [AbsentCall EXCEPT !.state = "reserved", !.until = devWork[w].now + LeaseSeconds]
             c == IF execCall[k].state = "absent" THEN new ELSE execCall[k]
  <2>1. k \in CallKeys /\ execCall[k] \in CallRow /\ DevRowSound(k, execCall[k], binding) /\ devWork[w] \in WorkRow
    BY <1>1, KeyOfRun DEF reserve_call, InRun, CallsSound, WorksSound
  <2>2. UNCHANGED <<binding, execCall>> \/ (binding' = binding /\ execCall' = [execCall EXCEPT ![k] = c])
    BY <1>1 DEF reserve_call, Stop, devRecords
  <2>3. Bound
    BY <2>2 DEF Bound
  <2>4. new \in CallRow /\ new.state = "reserved" /\ new.dispatches = 0
    <3>1. devWork[w].now + LeaseSeconds \in Nat
      BY <2>1, DevelopmentShape DEF WorkRow
    <3> QED BY <3>1 DEF AbsentCall, CallRow, CallStates
  <2> HIDE DEF new
  <2>5. c \in CallRow /\ DevRowSound(k, c, binding) /\ (execCall[k].state = "finalized" => c.state = "finalized")
    BY <2>1, <2>4 DEF DevRowSound
  <2> HIDE DEF c, k
  <2>6. CASE UNCHANGED <<binding, execCall>>
    BY <2>3, <2>6, CallsStay
  <2>7. CASE binding' = binding /\ execCall' = [execCall EXCEPT ![k] = c]
    <3>1. DevRowSound(k, c, binding')
      BY <2>5, <2>7
    <3> QED BY <2>1, <2>3, <2>5, <2>7, <3>1, CallMoves
  <2> QED BY <2>2, <2>6, <2>7
<1>2. ASSUME NEW w \in DevWorkers, target_execution_failed(w) PROVE CallsSound' /\ FinalStays
  BY <1>2, ReleaseKeeps DEF target_execution_failed, InRun
<1>3. ASSUME NEW w \in DevWorkers, begin_bound_execution(w) PROVE CallsSound' /\ FinalStays
  <2> DEFINE k == Key(w)
             sent == [execCall[k] EXCEPT !.state = "dispatched", !.dispatches = @ + 1]
             c == IF execCall[k].state = "reserved" THEN sent ELSE execCall[k]
  <2>1. k \in CallKeys /\ execCall[k] \in CallRow /\ DevRowSound(k, execCall[k], binding) /\ k[1][1] = devWork[w].job
        /\ (devWork[w].job \in PracticeSets => binding = devWork[w].job)
    BY <1>3, KeyOfRun DEF begin_bound_execution, InRun, CallsSound
  <2>2. binding' = binding /\ Bound
    BY <1>3 DEF begin_bound_execution, Bound
  <2>3. CASE execCall' = IF KeepsReservation THEN execCall ELSE release_undispatched(w)
    BY <1>3, <2>2, <2>3, ReleaseKeeps DEF begin_bound_execution, InRun
  <2>4. CASE execCall' = [execCall EXCEPT ![k] = c]
    <3>1. sent \in CallRow /\ sent.state = "dispatched" /\ sent.dispatches = execCall[k].dispatches + 1
      <4> HIDE DEF k
      <4>1. execCall[k].dispatches + 1 \in Nat
        BY <2>1 DEF CallRow
      <4> QED BY <2>1, <4>1 DEF CallRow, CallStates
    <3> HIDE DEF sent
    <3>2. c \in CallRow /\ (execCall[k].state = "finalized" => c.state = "finalized")
      BY <2>1, <3>1
    <3>3. DevRowSound(k, c, binding')
      <4>1. CASE execCall[k].state = "reserved"
        <5>1. c.state = "dispatched" /\ c.dispatches = 1
          BY <2>1, <3>1, <4>1 DEF DevRowSound
        <5> QED BY <2>1, <2>2, <5>1 DEF DevRowSound
      <4>2. CASE execCall[k].state # "reserved"
        BY <2>1, <2>2, <4>2
      <4> QED BY <4>1, <4>2
    <3> HIDE DEF c, k
    <3> QED BY <2>1, <2>2, <2>4, <3>2, <3>3, CallMoves
  <2> QED BY <1>3, <2>3, <2>4 DEF begin_bound_execution
<1>4. ASSUME NEW w \in DevWorkers, settle_registered_execution_call(w) PROVE CallsSound' /\ FinalStays
  <2> DEFINE k == Key(w)
             c == [execCall[k] EXCEPT !.state = "finalized"]
  <2>1. k \in CallKeys /\ execCall[k] \in CallRow /\ DevRowSound(k, execCall[k], binding)
    BY <1>4, KeyOfRun DEF settle_registered_execution_call, InRun, CallsSound
  <2>2. binding' = binding /\ Bound
    BY <1>4 DEF settle_registered_execution_call, Bound
  <2>3. CASE UNCHANGED execCall
    BY <2>2, <2>3, CallsStay
  <2>4. CASE execCall' = [execCall EXCEPT ![k].state = "finalized"] /\ execCall[k].state = "dispatched"
    <3>1. c \in CallRow /\ c.state = "finalized" /\ c.dispatches = execCall[k].dispatches
      BY <2>1 DEF CallRow, CallStates
    <3>2. execCall' = [execCall EXCEPT ![k] = c]
      BY <2>4
    <3> HIDE DEF c, k
    <3>3. DevRowSound(k, c, binding')
      BY <2>1, <2>2, <2>4, <3>1 DEF DevRowSound
    <3> QED BY <2>1, <2>2, <3>1, <3>2, <3>3, CallMoves
  <2> QED BY <1>4, <2>3, <2>4 DEF settle_registered_execution_call
<1>5. ASSUME NEW k \in CallKeys, dev_mark_uncertain(k) PROVE CallsSound' /\ FinalStays
  <2> DEFINE c == [execCall[k] EXCEPT !.state = "uncertain"]
  <2>1. execCall[k] \in CallRow /\ DevRowSound(k, execCall[k], binding) /\ execCall[k].state = "dispatched"
        /\ binding' = binding /\ Bound /\ execCall' = [execCall EXCEPT ![k] = c]
    BY <1>5 DEF dev_mark_uncertain, CallsSound, Bound
  <2>2. c \in CallRow /\ c.state = "uncertain" /\ c.dispatches = execCall[k].dispatches
    BY <2>1 DEF CallRow, CallStates
  <2> HIDE DEF c
  <2>3. DevRowSound(k, c, binding')
    BY <2>1, <2>2 DEF DevRowSound
  <2> QED BY <2>1, <2>2, <2>3, CallMoves
<1>6. CASE UNCHANGED execCall /\ Bound
  BY <1>6, CallsStay
<1>7. ASSUME NEW w \in DevWorkers, claim_registration(w) PROVE CallsSound' /\ FinalStays
  BY <1>6, <1>7 DEF claim_registration, Bound
<1>8. ASSUME NEW w \in DevWorkers, persist_set(w) PROVE CallsSound' /\ FinalStays
  BY <1>6, <1>8 DEF persist_set, Bound
<1> USE DEF devRecords, Stop
<1>9. ASSUME NEW w \in DevWorkers, attempt_already_executed(w) \/ run_request(w) \/ existing_receipt(w) \/ record_attempt(w)
      PROVE  CallsSound' /\ FinalStays
  BY <1>6, <1>9 DEF attempt_already_executed, run_request, existing_receipt, record_attempt, Bound
<1>10. ASSUME NEW w \in DevWorkers, issue_execution_receipt(w) \/ issue_grader_receipt(w) \/ issue_run_receipt(w)
      PROVE  CallsSound' /\ FinalStays
  BY <1>6, <1>10 DEF issue_execution_receipt, issue_grader_receipt, issue_run_receipt, Bound
<1>11. ASSUME NEW w \in DevWorkers, dev_crash(w) \/ \E j \in Jobs : run_practice_set(w, j) PROVE CallsSound' /\ FinalStays
  BY <1>6, <1>11 DEF dev_crash, run_practice_set, Bound
<1>12. CASE (\E t \in 1..DevClockLimit : dev_tick(t)) \/ dev_revoke \/ dev_inputs_change \/ dev_root_stops
  BY <1>6, <1>12 DEF dev_tick, dev_revoke, dev_inputs_change, dev_root_stops, Bound
<1> HIDE DEF DevInv, devRecords, Stop
<1> QED
  BY DevelopmentNext, <1>1, <1>2, <1>3, <1>4, <1>5, <1>7, <1>8, <1>9, <1>10, <1>11, <1>12 DEF DevelopmentNext, DevRuns

-----------------------------------------------------------------------------
(* Receipts.                                                               *)

LEMMA ReceiptsStay ==
    ASSUME ReceiptsSound, FinalStays, UNCHANGED <<execReceipt, graderReceipt, runReceipt>>
    PROVE  ReceiptsSound'
<1>1. \A k \in DOMAIN execReceipt' : execCall'[k].state = "finalized"
  BY DEF ReceiptsSound, FinalStays
<1> QED BY <1>1 DEF ReceiptsSound

LEMMA ReceiptsKept ==
    ASSUME DevInv, DevelopmentNext
    PROVE  ReceiptsSound'
<1> USE DEF DevInv
<1>0. FinalStays
  BY CallsKept
<1>1. ASSUME NEW w \in DevWorkers, issue_execution_receipt(w) PROVE ReceiptsSound'
  <2> DEFINE k == Key(w)  t == IF runner = "registered" THEN devClock ELSE devWork[w].now
  <2>1. CASE UNCHANGED <<execReceipt, graderReceipt, runReceipt>>
    BY <1>0, <2>1, ReceiptsStay
  <2>2. CASE /\ execReceipt' = Issue(execReceipt, k, t) /\ UNCHANGED <<execCall, graderReceipt, runReceipt>>
             /\ execCall[k].state = "finalized"
    <3>1. k \in CallKeys
      BY <1>1, KeyOfRun DEF issue_execution_receipt, InRun
    <3> HIDE DEF k, t
    <3>2. DOMAIN execReceipt' = DOMAIN execReceipt \cup {k}
      BY <2>2, IssueDomain
    <3>3. DOMAIN execReceipt' \subseteq CallKeys /\ \A j \in DOMAIN execReceipt' : execCall'[j].state = "finalized"
      BY <2>2, <3>1, <3>2 DEF ReceiptsSound
    <3> QED BY <2>2, <3>2, <3>3 DEF ReceiptsSound
  <2> QED BY <1>1, <2>1, <2>2 DEF issue_execution_receipt, Stop, devRecords, validate_execution_call
<1>2. ASSUME NEW w \in DevWorkers, issue_grader_receipt(w) PROVE ReceiptsSound'
  <2> DEFINE r == Req(w)  t == devWork[w].task
  <2>1. CASE UNCHANGED <<execReceipt, graderReceipt, runReceipt>>
    BY <1>0, <2>1, ReceiptsStay
  <2>2. CASE /\ graderReceipt' = Issue(graderReceipt, <<r, t>>, devClock) /\ UNCHANGED <<execCall, execReceipt, runReceipt>>
             /\ verify_execution_pair(r, t)
    <3>1. r \in Requests /\ t \in DevTasks
      BY <1>2, KeyOfRun DEF issue_grader_receipt, InRun
    <3>2. <<r, t, "parent">> \in DOMAIN execReceipt /\ <<r, t, "candidate">> \in DOMAIN execReceipt
      BY <2>2 DEF verify_execution_pair
    <3> HIDE DEF r, t
    <3>3. DOMAIN graderReceipt' = DOMAIN graderReceipt \cup {<<r, t>>}
      BY <2>2, IssueDomain
    <3>4. DOMAIN graderReceipt' \subseteq Requests \X DevTasks
      BY <3>1, <3>3 DEF ReceiptsSound
    <3>5. ASSUME NEW q \in Requests, NEW u \in DevTasks, <<q, u>> \in DOMAIN graderReceipt'
          PROVE  <<q, u, "parent">> \in DOMAIN execReceipt' /\ <<q, u, "candidate">> \in DOMAIN execReceipt'
      <4>1. CASE <<q, u>> = <<r, t>>
        BY <2>2, <3>2, <4>1
      <4>2. CASE <<q, u>> # <<r, t>>
        BY <2>2, <3>3, <3>5, <4>2 DEF ReceiptsSound
      <4> QED BY <4>1, <4>2
    <3> QED BY <2>2, <3>3, <3>4, <3>5 DEF ReceiptsSound
  <2> QED BY <1>2, <2>1, <2>2 DEF issue_grader_receipt, Stop, devRecords, Pair
<1>3. ASSUME NEW w \in DevWorkers, issue_run_receipt(w) PROVE ReceiptsSound'
  <2> DEFINE r == Req(w)
  <2>1. CASE UNCHANGED <<execReceipt, graderReceipt, runReceipt>>
    BY <1>0, <2>1, ReceiptsStay
  <2>2. CASE runReceipt' = Issue(runReceipt, r, devClock) /\ UNCHANGED <<execCall, execReceipt, graderReceipt>>
    <3>1. devWork[w].at = "close" /\ devWork[w] \in WorkRow /\ JobSound(devWork[w], binding) /\ TasksSound(devWork[w], DOMAIN graderReceipt)
      BY <1>3 DEF issue_run_receipt, WorksSound, WorkSound
    <3>2. devWork[w].job \in Jobs /\ devWork[w].attempt \in 1..PracticeAttempts
      BY <3>1 DEF WorkRow, JobSound
    <3>3. r \in Requests
      BY <3>2 DEF Req, Requests
    <3>4. \A t \in DevTasks : <<r, t>> \in DOMAIN graderReceipt
      BY <3>1 DEF TasksSound, Req
    <3> HIDE DEF r
    <3>5. DOMAIN runReceipt' = DOMAIN runReceipt \cup {r}
      BY <2>2, IssueDomain
    <3> QED BY <2>2, <3>3, <3>4, <3>5 DEF ReceiptsSound
  <2> QED BY <1>3, <2>1, <2>2 DEF issue_run_receipt, Stop, devRecords
<1>4. CASE UNCHANGED <<execReceipt, graderReceipt, runReceipt>>
  BY <1>0, <1>4, ReceiptsStay
<1> USE DEF devRecords, Stop
<1>5. ASSUME NEW w \in DevWorkers, claim_registration(w) \/ persist_set(w) \/ dev_crash(w) \/ \E j \in Jobs : run_practice_set(w, j)
      PROVE  ReceiptsSound'
  BY <1>4, <1>5 DEF claim_registration, persist_set, dev_crash, run_practice_set
<1>6. ASSUME NEW w \in DevWorkers, attempt_already_executed(w) \/ run_request(w) \/ existing_receipt(w) \/ record_attempt(w)
      PROVE  ReceiptsSound'
  BY <1>4, <1>6 DEF attempt_already_executed, run_request, existing_receipt, record_attempt
<1>7. ASSUME NEW w \in DevWorkers, reserve_call(w) \/ target_execution_failed(w) PROVE ReceiptsSound'
  BY <1>4, <1>7 DEF reserve_call, target_execution_failed
<1>8. ASSUME NEW w \in DevWorkers, begin_bound_execution(w) \/ settle_registered_execution_call(w) PROVE ReceiptsSound'
  BY <1>4, <1>8 DEF begin_bound_execution, settle_registered_execution_call
<1>9. CASE (\E t \in 1..DevClockLimit : dev_tick(t)) \/ dev_revoke \/ dev_inputs_change \/ dev_root_stops \/ \E k \in CallKeys : dev_mark_uncertain(k)
  BY <1>4, <1>9 DEF dev_tick, dev_revoke, dev_inputs_change, dev_root_stops, dev_mark_uncertain
<1> HIDE DEF DevInv, devRecords, Stop
<1> QED
  BY DevelopmentNext, <1>1, <1>2, <1>3, <1>5, <1>6, <1>7, <1>8, <1>9 DEF DevelopmentNext, DevRuns

-----------------------------------------------------------------------------
(* The steps of the run, one by one: what a worker comes to.               *)

LEMMA GrowsKept ==
    ASSUME DevInv, DevelopmentNext
    PROVE  Grows
<1> USE DEF DevInv, Grows
<1>1. ASSUME NEW w \in DevWorkers, claim_registration(w) \/ persist_set(w) PROVE Grows
  BY <1>1 DEF claim_registration, persist_set
<1>2. ASSUME NEW w \in DevWorkers, issue_grader_receipt(w) PROVE Grows
  <2>1. UNCHANGED <<runReceipt, binding>> /\ (graderReceipt' = graderReceipt \/ graderReceipt' = Issue(graderReceipt, Pair(w), devClock))
    BY <1>2 DEF issue_grader_receipt, Stop, devRecords
  <2>2. DOMAIN Issue(graderReceipt, Pair(w), devClock) = DOMAIN graderReceipt \cup {Pair(w)}
    BY IssueDomain
  <2> QED BY <2>1, <2>2
<1>3. ASSUME NEW w \in DevWorkers, issue_run_receipt(w) PROVE Grows
  <2>1. UNCHANGED <<graderReceipt, binding>> /\ (runReceipt' = runReceipt \/ runReceipt' = Issue(runReceipt, Req(w), devClock))
    BY <1>3 DEF issue_run_receipt, Stop, devRecords
  <2>2. DOMAIN Issue(runReceipt, Req(w), devClock) = DOMAIN runReceipt \cup {Req(w)}
    BY IssueDomain
  <2> QED BY <2>1, <2>2
<1>4. CASE UNCHANGED <<graderReceipt, runReceipt, binding>>
  BY <1>4
<1> USE DEF devRecords, Stop
<1>5. ASSUME NEW w \in DevWorkers, dev_crash(w) \/ \E j \in Jobs : run_practice_set(w, j) PROVE Grows
  BY <1>4, <1>5 DEF dev_crash, run_practice_set
<1>6. ASSUME NEW w \in DevWorkers, attempt_already_executed(w) \/ run_request(w) \/ existing_receipt(w) \/ record_attempt(w) PROVE Grows
  BY <1>4, <1>6 DEF attempt_already_executed, run_request, existing_receipt, record_attempt
<1>7. ASSUME NEW w \in DevWorkers, reserve_call(w) \/ target_execution_failed(w) PROVE Grows
  BY <1>4, <1>7 DEF reserve_call, target_execution_failed
<1>8. ASSUME NEW w \in DevWorkers, begin_bound_execution(w) \/ settle_registered_execution_call(w) \/ issue_execution_receipt(w) PROVE Grows
  BY <1>4, <1>8 DEF begin_bound_execution, settle_registered_execution_call, issue_execution_receipt
<1>9. CASE (\E t \in 1..DevClockLimit : dev_tick(t)) \/ dev_revoke \/ dev_inputs_change \/ dev_root_stops \/ \E k \in CallKeys : dev_mark_uncertain(k)
  BY <1>4, <1>9 DEF dev_tick, dev_revoke, dev_inputs_change, dev_root_stops, dev_mark_uncertain
<1> HIDE DEF DevInv, Grows, devRecords, Stop
<1> QED
  BY DevelopmentNext, <1>1, <1>2, <1>3, <1>5, <1>6, <1>7, <1>8, <1>9 DEF DevelopmentNext, DevRuns

\* A row that changes its place within the run keeps its job and what is done.
LEMMA PlaceSound ==
    ASSUME NEW q \in WorkRow, NEW n \in WorkRow, NEW b, NEW g, NEW c, WorkSound(q, b, g, c),
           n.job = q.job, n.done = q.done, n.stop = q.stop, n.attempt = q.attempt,
           q.at \notin {"idle", "claim", "persist"}, n.at \in InRun \cup {"attempt", "run", "close", "record"},
           n.at \in {"attempt", "record"} => q.job \in PracticeSets,
           TasksSound(n, g)
    PROVE  WorkSound(n, b, g, c)
<1>1. n.at \notin {"idle", "claim", "persist"}
  BY DEF InRun
<1>2. JobSound(n, b)
  BY <1>1 DEF WorkSound, JobSound
<1>3. DoneSound(n, c)
  BY <1>1 DEF WorkSound, DoneSound
<1> QED BY <1>2, <1>3 DEF WorkSound

LEMMA WorksKept ==
    ASSUME DevInv, DevelopmentNext
    PROVE  WorksSound'
<1> USE DEF DevInv
<1>0. Grows
  BY GrowsKept
<1>1. ASSUME NEW w \in DevWorkers PROVE devWork[w] \in WorkRow /\ WorkSound(devWork[w], binding, DOMAIN graderReceipt, DOMAIN runReceipt)
  BY DEF WorksSound
<1>2. ASSUME NEW w \in DevWorkers, NEW n \in WorkRow, devWork' = [devWork EXCEPT ![w] = n],
             WorkSound(n, binding, DOMAIN graderReceipt, DOMAIN runReceipt)
      PROVE  WorksSound'
  <2>1. WorkSound(n, binding', DOMAIN graderReceipt', DOMAIN runReceipt')
    BY <1>0, <1>2, WorkStays
  <2> QED BY <1>0, <1>2, <2>1, WorkMoves
<1>3. ASSUME NEW w \in DevWorkers, NEW j \in Jobs, run_practice_set(w, j) PROVE WorksSound'
  <2> DEFINE n == [DevIdle EXCEPT !.job = j, !.at = IF j \in PracticeSets THEN "claim" ELSE "run"]
  <2>1. n \in WorkRow /\ n.job = j /\ n.at = (IF j \in PracticeSets THEN "claim" ELSE "run")
        /\ n.done = <<>> /\ n.stop = None /\ n.attempt = 1
    BY IdleRow DEF WorkRow, Places, DevIdle
  <2>2. devWork' = [devWork EXCEPT ![w] = n]
    BY <1>3 DEF run_practice_set
  <2> HIDE DEF n
  <2>3. JobSound(n, binding) /\ TasksSound(n, DOMAIN graderReceipt)
    BY <2>1 DEF JobSound, TasksSound, InRun
  <2>4. DoneSound(n, DOMAIN runReceipt)
    <3>1. DOMAIN n.done = {} /\ Len(n.done) = 0
      BY <2>1
    <3> QED BY <2>1, <3>1 DEF DoneSound
  <2> QED BY <1>2, <2>1, <2>2, <2>3, <2>4 DEF WorkSound
<1>4. ASSUME NEW w \in DevWorkers, claim_registration(w) PROVE WorksSound'
  <2> DEFINE q == devWork[w]  n == [q EXCEPT !.at = "attempt"]
  <2>1. CASE devWork' = [devWork EXCEPT ![w] = DevIdle]
    BY <1>0, <2>1, WorkIdles
  <2>2. CASE binding' = q.job /\ devWork' = [devWork EXCEPT ![w] = n]
    <3>1. q \in WorkRow /\ q.at = "claim" /\ WorkSound(q, binding, DOMAIN graderReceipt, DOMAIN runReceipt)
          /\ UNCHANGED <<graderReceipt, runReceipt>>
      BY <1>1, <1>4 DEF claim_registration
    <3>2. n \in WorkRow /\ n.at = "attempt" /\ n.job = q.job /\ n.done = q.done /\ n.stop = q.stop /\ n.attempt = q.attempt
      BY <3>1 DEF WorkRow, Places
    <3> HIDE DEF n, q
    <3>3. JobSound(n, binding') /\ DoneSound(n, DOMAIN runReceipt') /\ TasksSound(n, DOMAIN graderReceipt')
      BY <2>2, <3>1, <3>2 DEF WorkSound, JobSound, DoneSound, TasksSound, InRun
    <3> QED BY <1>0, <2>2, <3>2, <3>3, WorkMoves DEF WorkSound
  <2> QED BY <1>4, <2>1, <2>2 DEF claim_registration, DevStep
<1>5. ASSUME NEW w \in DevWorkers, attempt_already_executed(w) PROVE WorksSound'
  <2> DEFINE q == devWork[w]  n == [q EXCEPT !.at = "run"]
  <2>1. q \in WorkRow /\ q.at = "attempt" /\ WorkSound(q, binding, DOMAIN graderReceipt, DOMAIN runReceipt)
        /\ devWork' = [devWork EXCEPT ![w] = n]
    BY <1>1, <1>5 DEF attempt_already_executed, DevStep
  <2>2. n \in WorkRow /\ n.at = "run" /\ n.job = q.job /\ n.done = q.done /\ n.stop = q.stop /\ n.attempt = q.attempt
    BY <2>1 DEF WorkRow, Places
  <2> HIDE DEF n, q
  <2>3. TasksSound(n, DOMAIN graderReceipt)
    BY <2>2 DEF TasksSound, InRun
  <2>4. WorkSound(n, binding, DOMAIN graderReceipt, DOMAIN runReceipt)
    BY <2>1, <2>2, <2>3, PlaceSound
  <2> QED BY <1>2, <2>1, <2>2, <2>4
<1>6. ASSUME NEW w \in DevWorkers, run_request(w) PROVE WorksSound'
  <2> DEFINE q == devWork[w]  n == [q EXCEPT !.at = "existing", !.task = FirstTask, !.side = 1]
  <2>1. q \in WorkRow /\ q.at = "run" /\ WorkSound(q, binding, DOMAIN graderReceipt, DOMAIN runReceipt)
    BY <1>1, <1>6 DEF run_request
  <2>2. CASE Stop(w, "attempt_error")
    BY <2>1, <2>2, StopKeeps DEF Stop, devRecords, StopReasons
  <2>3. CASE devWork' = [devWork EXCEPT ![w] = n]
    <3>1. n \in WorkRow /\ n.at = "existing" /\ n.task = FirstTask
          /\ n.job = q.job /\ n.done = q.done /\ n.stop = q.stop /\ n.attempt = q.attempt
      BY <2>1, Tasks DEF WorkRow, Places
    <3> HIDE DEF n, q
    <3>2. TasksSound(n, DOMAIN graderReceipt)
      BY <3>1, Tasks DEF TasksSound, InRun
    <3>3. WorkSound(n, binding, DOMAIN graderReceipt, DOMAIN runReceipt)
      <4>1. n.at \in InRun
        BY <3>1 DEF InRun
      <4> QED BY <2>1, <3>1, <3>2, <4>1, PlaceSound
    <3> QED BY <1>2, <2>3, <3>1, <3>3
  <2> QED BY <1>6, <2>2, <2>3 DEF run_request
<1>7. ASSUME NEW w \in DevWorkers, NEW n \in WorkRow, devWork[w].at \in InRun, n.at \in InRun, devWork' = [devWork EXCEPT ![w] = n],
             n.job = devWork[w].job, n.done = devWork[w].done, n.stop = devWork[w].stop, n.attempt = devWork[w].attempt, n.task = devWork[w].task
      PROVE  WorksSound'
  <2> DEFINE q == devWork[w]
  <2>1. q \in WorkRow /\ q.at \notin {"idle", "claim", "persist"} /\ n.at \notin {"idle", "claim", "persist", "attempt", "record"}
    BY <1>1, <1>7 DEF InRun
  <2>2. WorkSound(q, binding, DOMAIN graderReceipt, DOMAIN runReceipt)
    BY <1>1
  <2>3. TasksSound(n, DOMAIN graderReceipt)
    BY <1>7, <2>2 DEF WorkSound, TasksSound, InRun
  <2>4. n.job = q.job /\ n.done = q.done /\ n.stop = q.stop /\ n.attempt = q.attempt
    BY <1>7
  <2> HIDE DEF q
  <2>5. WorkSound(n, binding, DOMAIN graderReceipt, DOMAIN runReceipt)
    BY <1>7, <2>1, <2>2, <2>3, <2>4, PlaceSound
  <2> QED BY <1>2, <1>7, <2>5
<1>8. ASSUME NEW w \in DevWorkers, devWork' = [devWork EXCEPT ![w] = AfterSide(w)], devWork[w].at \in InRun
      PROVE  WorksSound'
  <2> DEFINE n == AfterSide(w)
  <2>1. devWork[w] \in WorkRow
    BY <1>1
  <2>2. n \in WorkRow /\ n.at \in {"existing", "grade"} /\ n.job = devWork[w].job /\ n.done = devWork[w].done /\ n.stop = devWork[w].stop
        /\ n.attempt = devWork[w].attempt /\ n.task = devWork[w].task
    BY <2>1 DEF AfterSide, WorkRow, Places, CallStates
  <2>3. devWork' = [devWork EXCEPT ![w] = n] /\ n.at \in InRun
    BY <1>8, <2>2 DEF InRun
  <2> HIDE DEF n
  <2> QED BY <1>7, <1>8, <2>2, <2>3
<1>9. ASSUME NEW w \in DevWorkers, existing_receipt(w) PROVE WorksSound'
  <2>1. devWork[w] \in WorkRow /\ devWork[w].at = "existing" /\ devWork[w].at \in InRun
    BY <1>1, <1>9 DEF existing_receipt, InRun
  <2>2. CASE Stop(w, "attempt_error")
    BY <2>1, <2>2, StopKeeps DEF Stop, devRecords, StopReasons
  <2>3. CASE devWork' = [devWork EXCEPT ![w] = AfterSide(w)]
    BY <1>8, <2>1, <2>3
  <2>4. CASE devWork' = [devWork EXCEPT ![w].at = "reserve", ![w].now = devClock]
    <3> DEFINE n == [devWork[w] EXCEPT !.at = "reserve", !.now = devClock]
    <3>1. devClock \in Nat
      BY DevelopmentShape DEF WorldSound
    <3>2. n \in WorkRow /\ n.at = "reserve" /\ n.job = devWork[w].job /\ n.done = devWork[w].done /\ n.stop = devWork[w].stop
          /\ n.attempt = devWork[w].attempt /\ n.task = devWork[w].task
      BY <2>1, <3>1 DEF WorkRow, Places
    <3>3. devWork' = [devWork EXCEPT ![w] = n] /\ n.at \in InRun
      BY <2>4, <3>2 DEF InRun
    <3> HIDE DEF n
    <3> QED BY <1>7, <2>1, <3>2, <3>3
  <2> QED BY <1>9, <2>2, <2>3, <2>4 DEF existing_receipt
<1>10. ASSUME NEW w \in DevWorkers, reserve_call(w) PROVE WorksSound'
  <2> DEFINE k == Key(w)
             new == [AbsentCall EXCEPT !.state = "reserved", !.until = devWork[w].now + LeaseSeconds]
             row == IF execCall[k].state = "absent" THEN new ELSE execCall[k]
             n == [devWork[w] EXCEPT !.at = IF row.state \in {"reserved", "dispatched"} THEN "begin" ELSE "receipt",
                                     !.held = row.state, !.now = devClock]
  <2>1. devWork[w] \in WorkRow /\ devWork[w].at = "reserve" /\ devWork[w].at \in InRun /\ UNCHANGED <<graderReceipt, runReceipt, binding>>
    BY <1>1, <1>10 DEF reserve_call, InRun, Stop, devRecords
  <2>2. CASE runner_stop_reason(w, "attempt_error") \/ runner_stop_reason(w, "uncertain_attempt")
    BY <2>1, <2>2, StopKeeps DEF StopReasons
  <2>3. CASE devWork' = [devWork EXCEPT ![w].at = IF row.state \in {"reserved", "dispatched"} THEN "begin" ELSE "receipt",
                                               ![w].held = row.state, ![w].now = devClock]
    <3>1. devClock \in Nat
      BY DevelopmentShape DEF WorldSound
    <3>2. row.state \in CallStates
      <4>1. k \in CallKeys
        BY <2>1, KeyOfRun
      <4>2. execCall[k].state \in CallStates /\ new.state \in CallStates
        BY <4>1 DEF CallsSound, CallRow, AbsentCall, CallStates
      <4> HIDE DEF k, new
      <4> QED BY <4>2
    <3> HIDE DEF row
    <3>3. n \in WorkRow /\ n.at \in {"begin", "receipt"} /\ n.job = devWork[w].job /\ n.done = devWork[w].done /\ n.stop = devWork[w].stop
          /\ n.attempt = devWork[w].attempt /\ n.task = devWork[w].task
      BY <2>1, <3>1, <3>2 DEF WorkRow, Places
    <3>4. devWork' = [devWork EXCEPT ![w] = n] /\ n.at \in InRun
      BY <2>3, <3>3 DEF InRun
    <3> HIDE DEF n
    <3> QED BY <1>7, <2>1, <3>3, <3>4
  <2> QED BY <1>10, <2>2, <2>3 DEF reserve_call, Stop
<1>11. ASSUME NEW w \in DevWorkers, devWork[w].at \in InRun, NEW at \in InRun, DevStep(w, at) PROVE WorksSound'
  <2> DEFINE n == [devWork[w] EXCEPT !.at = at]
  <2>1. devWork[w] \in WorkRow
    BY <1>1
  <2>2. n \in WorkRow /\ n.at = at /\ n.job = devWork[w].job /\ n.done = devWork[w].done /\ n.stop = devWork[w].stop
        /\ n.attempt = devWork[w].attempt /\ n.task = devWork[w].task
    BY <1>11, <2>1 DEF WorkRow, Places, InRun
  <2>3. devWork' = [devWork EXCEPT ![w] = n]
    BY <1>11 DEF DevStep
  <2> HIDE DEF n
  <2> QED BY <1>7, <1>11, <2>2, <2>3
<1>12. ASSUME NEW w \in DevWorkers, target_execution_failed(w) \/ begin_bound_execution(w) PROVE WorksSound'
  <2>1. devWork[w].at = "begin" /\ devWork[w].at \in InRun /\ "settle" \in InRun /\ UNCHANGED <<graderReceipt, runReceipt, binding>>
    BY <1>12 DEF target_execution_failed, begin_bound_execution, InRun
  <2>2. CASE runner_stop_reason(w, "attempt_error") \/ runner_stop_reason(w, "uncertain_attempt")
    BY <2>1, <2>2, StopKeeps DEF StopReasons
  <2>3. CASE DevStep(w, "settle")
    BY <1>11, <2>1, <2>3
  <2> QED BY <1>12, <2>2, <2>3 DEF target_execution_failed, begin_bound_execution
<1>13. ASSUME NEW w \in DevWorkers, settle_registered_execution_call(w) PROVE WorksSound'
  <2>1. devWork[w].at = "settle" /\ devWork[w].at \in InRun /\ "receipt" \in InRun /\ UNCHANGED <<graderReceipt, runReceipt, binding>>
    BY <1>13 DEF settle_registered_execution_call, InRun
  <2>2. CASE runner_stop_reason(w, "uncertain_attempt")
    BY <2>1, <2>2, StopKeeps DEF StopReasons
  <2>3. CASE DevStep(w, "receipt")
    BY <1>11, <2>1, <2>3
  <2> QED BY <1>13, <2>2, <2>3 DEF settle_registered_execution_call
<1>14. ASSUME NEW w \in DevWorkers, issue_execution_receipt(w) PROVE WorksSound'
  <2>1. devWork[w].at = "receipt" /\ devWork[w].at \in InRun /\ UNCHANGED <<graderReceipt, runReceipt, binding>>
    BY <1>14 DEF issue_execution_receipt, InRun, Stop, devRecords
  <2>2. CASE runner_stop_reason(w, "attempt_error") \/ runner_stop_reason(w, "conflict")
    BY <2>1, <2>2, StopKeeps DEF StopReasons
  <2>3. CASE devWork' = [devWork EXCEPT ![w] = AfterSide(w)]
    BY <1>8, <2>1, <2>3
  <2> QED BY <1>14, <2>2, <2>3 DEF issue_execution_receipt, Stop
<1>15. ASSUME NEW w \in DevWorkers, issue_grader_receipt(w) PROVE WorksSound'
  <2> DEFINE q == devWork[w]  n == AfterGrade(w)
  <2>1. q \in WorkRow /\ q.at = "grade" /\ WorkSound(q, binding, DOMAIN graderReceipt, DOMAIN runReceipt)
    BY <1>1, <1>15 DEF issue_grader_receipt
  <2>2. CASE Stop(w, "attempt_error") \/ Stop(w, "conflict")
    BY <2>1, <2>2, StopKeeps DEF Stop, devRecords, StopReasons
  <2>3. CASE /\ graderReceipt' = IF Pair(w) \in DOMAIN graderReceipt THEN graderReceipt ELSE Issue(graderReceipt, Pair(w), devClock)
             /\ devWork' = [devWork EXCEPT ![w] = n] /\ UNCHANGED <<runReceipt, binding>>
    <3>1. Pair(w) = <<<<q.job, q.attempt>>, q.task>> /\ Pair(w) \in DOMAIN graderReceipt'
      <4>1. DOMAIN Issue(graderReceipt, Pair(w), devClock) = DOMAIN graderReceipt \cup {Pair(w)}
        BY IssueDomain
      <4> QED BY <2>3, <4>1 DEF Pair, Req
    <3>2. q.task \in DevTasks /\ q.task \in Nat
      BY <2>1, Tasks DEF WorkRow
    <3>3. CASE q.task = LastTask
      <4>1. n \in WorkRow /\ n.at = "close" /\ n.job = q.job /\ n.done = q.done /\ n.stop = q.stop /\ n.attempt = q.attempt
        BY <2>1, <3>3 DEF AfterGrade, WorkRow, Places
      <4> HIDE DEF n, q
      <4>2. \A u \in DevTasks : u < q.task \/ u = q.task
        BY <3>2, <3>3, Tasks
      <4>3. TasksSound(n, DOMAIN graderReceipt')
        BY <1>0, <2>1, <3>1, <4>1, <4>2 DEF WorkSound, TasksSound, InRun, Grows
      <4>4. WorkSound(q, binding', DOMAIN graderReceipt', DOMAIN runReceipt')
        BY <1>0, <2>1, WorkStays
      <4>5. WorkSound(n, binding', DOMAIN graderReceipt', DOMAIN runReceipt')
        BY <2>1, <4>1, <4>3, <4>4, PlaceSound
      <4> QED BY <1>0, <2>3, <4>1, <4>5, WorkMoves
    <3>4. CASE q.task # LastTask
      <4>1. q.task + 1 \in DevTasks
        BY <3>2, <3>4, Tasks
      <4>2. n = [q EXCEPT !.task = q.task + 1, !.side = 1, !.at = "existing"]
        BY <3>4 DEF AfterGrade
      <4>3. n \in WorkRow /\ n.at = "existing" /\ n.job = q.job /\ n.done = q.done /\ n.stop = q.stop /\ n.attempt = q.attempt
            /\ n.task = q.task + 1
        <5> HIDE DEF n, q
        <5> QED BY <2>1, <4>1, <4>2 DEF WorkRow, Places
      <4> HIDE DEF n, q
      <4>4. \A u \in DevTasks : u < q.task + 1 => u < q.task \/ u = q.task
        BY <3>2, Tasks
      <4>5. TasksSound(n, DOMAIN graderReceipt')
        BY <1>0, <2>1, <3>1, <4>3, <4>4 DEF WorkSound, TasksSound, InRun, Grows
      <4>6. WorkSound(q, binding', DOMAIN graderReceipt', DOMAIN runReceipt')
        BY <1>0, <2>1, WorkStays
      <4>7. n.at \in InRun
        BY <4>3 DEF InRun
      <4>8. WorkSound(n, binding', DOMAIN graderReceipt', DOMAIN runReceipt')
        BY <2>1, <4>3, <4>5, <4>6, <4>7, PlaceSound
      <4> QED BY <1>0, <2>3, <4>3, <4>8, WorkMoves
    <3> QED BY <3>3, <3>4
  <2> QED BY <1>15, <2>2, <2>3 DEF issue_grader_receipt
<1>16. ASSUME NEW w \in DevWorkers, issue_run_receipt(w) PROVE WorksSound'
  <2> DEFINE q == devWork[w]  n == [q EXCEPT !.at = "record"]
  <2>1. q \in WorkRow /\ q.at = "close" /\ WorkSound(q, binding, DOMAIN graderReceipt, DOMAIN runReceipt)
    BY <1>1, <1>16 DEF issue_run_receipt
  <2>2. CASE Stop(w, "attempt_error") \/ Stop(w, "conflict")
    BY <2>1, <2>2, StopKeeps DEF Stop, devRecords, StopReasons
  <2>3. CASE devWork' = [devWork EXCEPT ![w] = DevIdle]
    BY <1>0, <2>3, WorkIdles
  <2>4. CASE devWork' = [devWork EXCEPT ![w] = n] /\ q.job \in PracticeSets
    <3>1. n \in WorkRow /\ n.at = "record" /\ n.job = q.job /\ n.done = q.done /\ n.stop = q.stop /\ n.attempt = q.attempt
      BY <2>1 DEF WorkRow, Places
    <3> HIDE DEF n, q
    <3>2. TasksSound(n, DOMAIN graderReceipt)
      BY <3>1 DEF TasksSound, InRun
    <3>3. WorkSound(n, binding, DOMAIN graderReceipt, DOMAIN runReceipt)
      BY <2>1, <2>4, <3>1, <3>2, PlaceSound
    <3> QED BY <1>2, <2>4, <3>1, <3>3
  <2> QED BY <1>16, <2>2, <2>3, <2>4 DEF issue_run_receipt
<1>17. ASSUME NEW w \in DevWorkers, record_attempt(w) PROVE WorksSound'
  <2> DEFINE q == devWork[w]  score == devScore[q.attempt]  last == q.attempt = PracticeAttempts
             n == [q EXCEPT !.done = Append(q.done, score), !.at = IF last THEN "persist" ELSE "attempt",
                            !.attempt = IF last THEN q.attempt ELSE q.attempt + 1]
  <2>1. q \in WorkRow /\ q.at = "record" /\ WorkSound(q, binding, DOMAIN graderReceipt, DOMAIN runReceipt)
    BY <1>1, <1>17 DEF record_attempt
  <2>2. CASE Stop(w, "attempt_unverified")
    BY <2>1, <2>2, StopKeeps DEF Stop, devRecords, StopReasons
  <2>3. CASE devWork' = [devWork EXCEPT ![w] = n] /\ VerifiedReport(Req(w))
    <3>1. q.attempt \in 1..PracticeAttempts /\ q.done \in Seq(Nat) /\ q.attempt = Len(q.done) + 1 /\ q.stop = None
      BY <2>1 DEF WorkRow, WorkSound, DoneSound
    <3>2. score \in Nat
      BY <3>1, DevelopmentShape DEF WorldSound
    <3>3. <<q.job, q.attempt>> \in DOMAIN runReceipt
      BY <2>3 DEF VerifiedReport, RunReceiptCloses, Req
    <3> HIDE DEF score
    <3> DEFINE done == Append(q.done, score)
    <3>4. done \in Seq(Nat) /\ Len(done) = q.attempt /\ DOMAIN done = DOMAIN q.done \cup {q.attempt}
      BY <3>1, <3>2
    <3> HIDE DEF done
    <3>5. n = [q EXCEPT !.done = done, !.at = IF last THEN "persist" ELSE "attempt", !.attempt = IF last THEN q.attempt ELSE q.attempt + 1]
      BY DEF done
    <3>6. (IF last THEN q.attempt ELSE q.attempt + 1) \in 1..PracticeAttempts
      <4>1. PracticeAttempts \in Nat
        BY DevelopmentShape
      <4>2. CASE ~last
        BY <3>1, <4>1, <4>2
      <4>3. CASE last
        BY <3>1, <4>3
      <4> QED BY <4>2, <4>3
    <3>7. /\ n \in WorkRow /\ n.job = q.job /\ n.done = done /\ n.stop = None
          /\ n.at = (IF last THEN "persist" ELSE "attempt") /\ n.attempt = (IF last THEN q.attempt ELSE q.attempt + 1)
      <4> HIDE DEF n, q, last
      <4> QED BY <2>1, <3>1, <3>4, <3>5, <3>6 DEF WorkRow, Places
    <3> HIDE DEF n, q
    <3>8. JobSound(n, binding)
      BY <2>1, <3>7 DEF WorkSound, JobSound
    <3>9. DoneSound(n, DOMAIN runReceipt)
      <4>1. \A m \in DOMAIN n.done : <<n.job, m>> \in DOMAIN runReceipt
        BY <2>1, <3>3, <3>4, <3>7 DEF WorkSound, DoneSound
      <4>2. n.at # "persist" => n.attempt = Len(n.done) + 1
        BY <3>4, <3>7
      <4>3. n.at = "persist" => Len(n.done) = PracticeAttempts
        BY <3>4, <3>7
      <4> QED BY <3>7, <4>1, <4>2, <4>3 DEF DoneSound
    <3>10. TasksSound(n, DOMAIN graderReceipt)
      BY <3>7 DEF TasksSound, InRun
    <3> QED BY <1>2, <2>3, <3>7, <3>8, <3>9, <3>10 DEF WorkSound
  <2>4. Stop(w, "attempt_unverified") \/ (devWork' = [devWork EXCEPT ![w] = n] /\ VerifiedReport(Req(w)))
    BY <1>17 DEF record_attempt
  <2> QED BY <2>2, <2>3, <2>4
<1>18. ASSUME NEW w \in DevWorkers, persist_set(w) \/ dev_crash(w) PROVE WorksSound'
  BY <1>0, <1>18, WorkIdles DEF persist_set, dev_crash
<1>19. CASE (\E t \in 1..DevClockLimit : dev_tick(t)) \/ dev_revoke \/ dev_inputs_change \/ dev_root_stops \/ \E k \in CallKeys : dev_mark_uncertain(k)
  BY <1>0, <1>19, WorksStay DEF dev_tick, dev_revoke, dev_inputs_change, dev_root_stops, dev_mark_uncertain
<1> HIDE DEF DevInv
<1> QED
  BY DevelopmentNext, <1>3, <1>4, <1>5, <1>6, <1>9, <1>10, <1>12, <1>13, <1>14, <1>15, <1>16, <1>17, <1>18, <1>19
  DEF DevelopmentNext, DevRuns

-----------------------------------------------------------------------------
(* The contrast.                                                           *)

\* n is the earliest of the best, or of the worst.
Best(done, n) == \A m \in DOMAIN done : done[n] >= done[m] /\ (done[n] = done[m] => n <= m)
Worst(done, n) == \A m \in DOMAIN done : done[n] <= done[m] /\ (done[n] = done[m] => n <= m)

LEMMA ScoresBounded ==
    ASSUME NEW done \in Seq(Nat)
    PROVE  \E b \in Nat : \A m \in DOMAIN done : done[m] <= b
<1> DEFINE Below(k, b) == \A m \in DOMAIN done : m <= k => done[m] <= b
           S == {k \in Nat : \E b \in Nat : Below(k, b)}
<1>1. DOMAIN done = 1..Len(done) /\ Len(done) \in Nat /\ \A m \in DOMAIN done : done[m] \in Nat
  OBVIOUS
<1>2. 0 \in S
  BY <1>1
<1>3. ASSUME NEW k \in S PROVE k + 1 \in S
  <2>1. PICK b \in Nat : Below(k, b)
    BY <1>3
  <2>2. CASE k + 1 \in DOMAIN done
    <3> DEFINE c == IF done[k + 1] > b THEN done[k + 1] ELSE b
    <3>1. c \in Nat /\ b <= c /\ done[k + 1] <= c
      BY <1>1, <2>2
    <3>2. Below(k + 1, c)
      BY <1>1, <2>1, <3>1
    <3> HIDE DEF c
    <3> QED BY <3>1, <3>2
  <2>3. CASE k + 1 \notin DOMAIN done
    <3>1. Below(k + 1, b)
      BY <1>1, <2>1, <2>3
    <3> QED BY <3>1
  <2> QED BY <2>2, <2>3
<1>4. Len(done) \in S
  <2> HIDE DEF S
  <2>1. S \in SUBSET Nat
    BY DEF S
  <2> QED BY <1>1, <1>2, <1>3, <2>1, AllNaturals
<1> QED BY <1>1, <1>4

LEMMA BestExists ==
    ASSUME NEW done \in Seq(Nat), DOMAIN done # {}
    PROVE  \E n \in DOMAIN done : Best(done, n)
<1> DEFINE U == {b \in Nat : \A m \in DOMAIN done : done[m] <= b}
<1>1. DOMAIN done \subseteq Nat /\ \A m \in DOMAIN done : done[m] \in Nat
  <2>1. DOMAIN done = 1..Len(done) /\ Len(done) \in Nat
    OBVIOUS
  <2> QED BY <2>1
<1>2. U \in SUBSET Nat /\ U # {}
  BY ScoresBounded
<1>3. PICK b \in U : \A c \in U : b <= c
  <2> HIDE DEF U
  <2> QED BY <1>2, LeastNatural
<1>4. \E m \in DOMAIN done : done[m] = b
  <2> SUFFICES ASSUME \A m \in DOMAIN done : done[m] # b PROVE FALSE
    OBVIOUS
  <2>1. b \in Nat /\ \A m \in DOMAIN done : done[m] < b
    BY <1>1
  <2>2. b - 1 \in U
    BY <1>1, <2>1
  <2> QED BY <1>3, <2>1, <2>2
<1> DEFINE T == {m \in DOMAIN done : done[m] = b}
<1>5. T \in SUBSET Nat /\ T # {}
  BY <1>1, <1>4
<1>6. PICK n \in T : \A m \in T : n <= m
  <2> HIDE DEF T
  <2> QED BY <1>5, LeastNatural
<1>7. n \in DOMAIN done /\ done[n] = b /\ \A m \in DOMAIN done : done[m] <= b /\ (done[m] = b => n <= m)
  BY <1>6
<1>8. Best(done, n)
  BY <1>1, <1>7 DEF Best
<1> QED BY <1>7, <1>8

LEMMA WorstExists ==
    ASSUME NEW done \in Seq(Nat), DOMAIN done # {}
    PROVE  \E n \in DOMAIN done : Worst(done, n)
<1> DEFINE U == {done[m] : m \in DOMAIN done}
<1>1. DOMAIN done \subseteq Nat /\ \A m \in DOMAIN done : done[m] \in Nat
  <2>1. DOMAIN done = 1..Len(done) /\ Len(done) \in Nat
    OBVIOUS
  <2> QED BY <2>1
<1>2. U \in SUBSET Nat /\ U # {}
  BY <1>1
<1>3. PICK b \in U : \A c \in U : b <= c
  <2> HIDE DEF U
  <2> QED BY <1>2, LeastNatural
<1> DEFINE T == {m \in DOMAIN done : done[m] = b}
<1>5. T \in SUBSET Nat /\ T # {}
  BY <1>1
<1>6. PICK n \in T : \A m \in T : n <= m
  <2> HIDE DEF T
  <2> QED BY <1>5, LeastNatural
<1>7. n \in DOMAIN done /\ done[n] = b /\ \A m \in DOMAIN done : b <= done[m] /\ (done[m] = b => n <= m)
  BY <1>3, <1>6
<1>8. Worst(done, n)
  BY <1>1, <1>7 DEF Worst
<1> QED BY <1>7, <1>8

\* What select_contrast calls better scored more than what it calls worse.
LEMMA ContrastIsReal ==
    ASSUME NEW done \in Seq(Nat), select_contrast(done).contrast
    PROVE  done[select_contrast(done).better] > done[select_contrast(done).worse]
<1> DEFINE hi == CHOOSE n \in DOMAIN done : \A m \in DOMAIN done : /\ done[n] >= done[m]
                                                                   /\ (done[n] = done[m] => n <= m)
           lo == CHOOSE n \in DOMAIN done : \A m \in DOMAIN done : /\ done[n] <= done[m]
                                                                   /\ (done[n] = done[m] => n <= m)
<1>1. CASE \A m, n \in DOMAIN done : done[m] = done[n]
  <2>1. select_contrast(done) = [contrast |-> FALSE, better |-> 0, worse |-> 0]
    BY <1>1 DEF select_contrast
  <2> QED BY <2>1
<1>2. CASE ~\A m, n \in DOMAIN done : done[m] = done[n]
  <2>1. select_contrast(done).better = hi /\ select_contrast(done).worse = lo
    BY <1>2 DEF select_contrast
  <2>2. DOMAIN done # {} /\ \A m \in DOMAIN done : done[m] \in Nat
    BY <1>2
  <2>3. hi \in DOMAIN done /\ \A m \in DOMAIN done : done[hi] >= done[m]
    <3>1. \E n \in DOMAIN done : \A m \in DOMAIN done : /\ done[n] >= done[m]
                                                        /\ (done[n] = done[m] => n <= m)
      BY <2>2, BestExists DEF Best
    <3> QED BY <3>1, Zenon
  <2>4. lo \in DOMAIN done /\ \A m \in DOMAIN done : done[lo] <= done[m]
    <3>1. \E n \in DOMAIN done : \A m \in DOMAIN done : /\ done[n] <= done[m]
                                                        /\ (done[n] = done[m] => n <= m)
      BY <2>2, WorstExists DEF Worst
    <3> QED BY <3>1, Zenon
  <2> HIDE DEF hi, lo
  <2> QED BY <1>2, <2>1, <2>2, <2>3, <2>4
<1> QED BY <1>1, <1>2

-----------------------------------------------------------------------------
(* Sets, and the world around them.                                        *)

\* A stored set, given the bound set and the closed requests.
SetSound(j, set, bound, closed) ==
    /\ bound = j
    /\ \A n \in DOMAIN set.done : <<j, n>> \in closed
    /\ (set.stop = None) = (Len(set.done) = PracticeAttempts)
    /\ set.stop = None /\ set.outcome.contrast => set.done[set.outcome.better] > set.done[set.outcome.worse]

LEMMA SetsByRow ==
    SetIsEvidence <=> \A j \in DOMAIN practiceSet : SetSound(j, practiceSet[j], binding, DOMAIN runReceipt)
BY DEF SetIsEvidence, SetSound

LEMMA SetsStay ==
    ASSUME SetsSound, Grows, UNCHANGED practiceSet, binding' \in PracticeSets \cup {None}
    PROVE  SetsSound'
<1>1. ASSUME NEW j \in DOMAIN practiceSet' PROVE SetSound(j, practiceSet'[j], binding', DOMAIN runReceipt')
  <2>1. j \in PracticeSets /\ SetSound(j, practiceSet[j], binding, DOMAIN runReceipt)
    BY SetsByRow DEF SetsSound
  <2>2. j # None
    BY <2>1, DevelopmentShape
  <2> QED BY <2>1, <2>2 DEF SetSound, Grows
<1>2. SetIsEvidence'
  BY <1>1 DEF SetIsEvidence, SetSound
<1> QED BY <1>2 DEF SetsSound

LEMMA SetsKept ==
    ASSUME DevInv, DevelopmentNext
    PROVE  SetsSound'
<1> USE DEF DevInv
<1>0. Grows /\ binding \in PracticeSets \cup {None}
  BY GrowsKept DEF SetsSound
<1>1. ASSUME NEW w \in DevWorkers, persist_set(w) PROVE SetsSound'
  <2> DEFINE q == devWork[w]  j == q.job
             set == [done |-> q.done, stop |-> q.stop, outcome |-> IF q.stop = None THEN select_contrast(q.done) ELSE None]
  <2>1. q \in WorkRow /\ q.at = "persist" /\ WorkSound(q, binding, DOMAIN graderReceipt, DOMAIN runReceipt)
    BY <1>1 DEF WorksSound, persist_set
  <2>2. j \in PracticeSets /\ binding = j
    BY <2>1 DEF WorkSound, JobSound
  <2>3. CASE UNCHANGED <<binding, practiceSet>>
    BY <1>0, <2>3, SetsStay
  <2>4. CASE binding' = j /\ practiceSet' = Issue(practiceSet, j, set)
    <3>1. DOMAIN practiceSet' = DOMAIN practiceSet \cup {j} /\ practiceSet'[j] = set
      <4> HIDE DEF set, j
      <4>1. DOMAIN Issue(practiceSet, j, set) = DOMAIN practiceSet \cup {j} /\ Issue(practiceSet, j, set)[j] = set
        BY DEF Issue
      <4> QED BY <2>4, <4>1
    <3>2. \A i \in DOMAIN practiceSet : i = j
      BY <2>2 DEF SetsSound, SetIsEvidence
    <3>3. q.done \in Seq(Nat) /\ set.done = q.done /\ set.stop = q.stop
      BY <2>1 DEF WorkRow
    <3>4. set.stop = None /\ set.outcome.contrast => set.done[set.outcome.better] > set.done[set.outcome.worse]
      <4> SUFFICES ASSUME set.stop = None, set.outcome.contrast PROVE set.done[set.outcome.better] > set.done[set.outcome.worse]
        OBVIOUS
      <4>1. set.outcome = select_contrast(q.done)
        OBVIOUS
      <4> HIDE DEF set, q
      <4>2. q.done[select_contrast(q.done).better] > q.done[select_contrast(q.done).worse]
        BY <3>3, <4>1, ContrastIsReal
      <4> QED BY <3>3, <4>1, <4>2
    <3>5. SetSound(j, set, binding', DOMAIN runReceipt')
      <4>1. DoneSound(q, DOMAIN runReceipt)
        BY <2>1 DEF WorkSound
      <4>2. \A n \in DOMAIN q.done : <<j, n>> \in DOMAIN runReceipt'
        BY <1>0, <4>1 DEF DoneSound, Grows
      <4>3. (q.stop = None) = (Len(q.done) = PracticeAttempts)
        BY <2>1, <4>1 DEF DoneSound
      <4> HIDE DEF set, q
      <4> QED BY <2>4, <3>3, <3>4, <4>2, <4>3 DEF SetSound
    <3> HIDE DEF set, j
    <3>6. \A i \in DOMAIN practiceSet' : SetSound(i, practiceSet'[i], binding', DOMAIN runReceipt')
      BY <3>1, <3>2, <3>5
    <3>7. SetIsEvidence'
      BY <3>6 DEF SetIsEvidence, SetSound
    <3> QED BY <2>2, <2>4, <3>1, <3>7 DEF SetsSound
  <2> QED BY <1>1, <2>3, <2>4 DEF persist_set
<1>2. ASSUME NEW w \in DevWorkers, claim_registration(w) PROVE SetsSound'
  <2>1. devWork[w].job \in PracticeSets
    BY <1>2 DEF claim_registration, WorksSound, WorkSound, JobSound
  <2>2. binding' \in PracticeSets \cup {None} /\ UNCHANGED practiceSet
    BY <1>0, <1>2, <2>1 DEF claim_registration
  <2> QED BY <1>0, <2>2, SetsStay
<1>3. ASSUME UNCHANGED <<binding, practiceSet>> PROVE SetsSound'
  BY <1>0, <1>3, SetsStay
<1> HIDE DEF DevInv
<1> USE DEF devRecords, Stop
<1>4. ASSUME NEW w \in DevWorkers, (\E j \in Jobs : run_practice_set(w, j)) \/ dev_crash(w) \/ attempt_already_executed(w)
      PROVE SetsSound'
  BY <1>3, <1>4 DEF run_practice_set, dev_crash, attempt_already_executed
<1>5. ASSUME NEW w \in DevWorkers, run_request(w) \/ existing_receipt(w) \/ record_attempt(w) \/ issue_run_receipt(w) PROVE SetsSound'
  BY <1>3, <1>5 DEF run_request, existing_receipt, record_attempt, issue_run_receipt
<1>6. ASSUME NEW w \in DevWorkers, reserve_call(w) \/ target_execution_failed(w) \/ issue_grader_receipt(w) PROVE SetsSound'
  BY <1>3, <1>6 DEF reserve_call, target_execution_failed, issue_grader_receipt
<1>7. ASSUME NEW w \in DevWorkers, begin_bound_execution(w) \/ settle_registered_execution_call(w) \/ issue_execution_receipt(w) PROVE SetsSound'
  BY <1>3, <1>7 DEF begin_bound_execution, settle_registered_execution_call, issue_execution_receipt
<1>8. CASE (\E t \in 1..DevClockLimit : dev_tick(t)) \/ dev_revoke \/ dev_inputs_change \/ dev_root_stops \/ \E k \in CallKeys : dev_mark_uncertain(k)
  BY <1>3, <1>8 DEF dev_tick, dev_revoke, dev_inputs_change, dev_root_stops, dev_mark_uncertain
<1> HIDE DEF devRecords, Stop
<1> QED BY DevelopmentNext, <1>1, <1>2, <1>4, <1>5, <1>6, <1>7, <1>8 DEF DevelopmentNext, DevRuns

LEMMA WorldKept ==
    ASSUME DevInv, DevelopmentNext
    PROVE  WorldSound'
<1> USE DEF DevInv
<1>1. ASSUME UNCHANGED devWorld PROVE WorldSound'
  BY <1>1 DEF devWorld, WorldSound
<1>2. ASSUME DevFault PROVE devFaults' \in 0..DevFaultLimit
  BY <1>2, DevelopmentShape DEF DevFault, WorldSound
<1>3. ASSUME NEW w \in DevWorkers, target_execution_failed(w) \/ dev_crash(w) PROVE WorldSound'
  BY <1>2, <1>3 DEF target_execution_failed, dev_crash, WorldSound
<1>4. ASSUME NEW t \in 1..DevClockLimit, dev_tick(t) PROVE WorldSound'
  <2>1. devClock' \in 0..DevClockLimit
    BY <1>4, DevelopmentShape DEF dev_tick
  <2> QED BY <1>4, <2>1 DEF dev_tick, WorldSound
<1>5. CASE dev_revoke
  BY <1>5 DEF dev_revoke, WorldSound
<1>6. CASE dev_inputs_change \/ dev_root_stops
  BY <1>2, <1>6 DEF dev_inputs_change, dev_root_stops, WorldSound
<1>7. ASSUME NEW w \in DevWorkers, (\E j \in Jobs : run_practice_set(w, j)) \/ DevRuns(w) PROVE WorldSound'
  BY <1>1, <1>7 DEF run_practice_set, DevRuns, claim_registration, attempt_already_executed, run_request, existing_receipt,
     reserve_call, begin_bound_execution, settle_registered_execution_call, issue_execution_receipt, issue_grader_receipt,
     issue_run_receipt, record_attempt, persist_set
<1>8. ASSUME NEW k \in CallKeys, dev_mark_uncertain(k) PROVE WorldSound'
  BY <1>1, <1>8 DEF dev_mark_uncertain
<1> QED BY DevelopmentNext, <1>3, <1>4, <1>5, <1>6, <1>7, <1>8 DEF DevelopmentNext

LEMMA DevInvNext == DevInv /\ [DevelopmentNext]_developmentVars => DevInv'
<1> SUFFICES ASSUME DevInv, [DevelopmentNext]_developmentVars PROVE DevInv'
  OBVIOUS
<1>1. CASE DevelopmentNext
  BY <1>1, WorldKept, WorksKept, CallsKept, ReceiptsKept, SetsKept DEF DevInv
<1>2. CASE UNCHANGED developmentVars
  BY <1>2 DEF developmentVars, DevInv, WorldSound, WorksSound, CallsSound, ReceiptsSound, SetsSound, SetIsEvidence
<1> QED BY <1>1, <1>2

\* In every state of development execution every receipt stands on what it is
\* about, a call that went out is never handed back, one registration pays for
\* one set and a stored set is evidence of its attempts (claim_registration,
\* execute_side, issue_*_receipt, persist_set), for any workers, jobs, tasks
\* and attempts.
THEOREM DevelopmentIsSafe == DevelopmentSpec => []DevelopmentSafe
<1>1. DevelopmentInit => DevInv
  BY DevInvInit
<1>2. DevInv /\ [DevelopmentNext]_developmentVars => DevInv'
  BY DevInvNext
<1>3. DevInv => DevelopmentSafe
  BY DevInvIsSafe
<1> QED BY <1>1, <1>2, <1>3, PTL DEF DevelopmentSpec

-----------------------------------------------------------------------------
(* What is written stands.                                                 *)

EvidenceStep ==
    /\ Grown(graderReceipt, graderReceipt') /\ Grown(runReceipt, runReceipt') /\ Grown(practiceSet, practiceSet')
    /\ DOMAIN execReceipt \subseteq DOMAIN execReceipt'
    /\ (runner = "registered" => Grown(execReceipt, execReceipt'))
    /\ (~devLive => UNCHANGED <<execReceipt, graderReceipt, runReceipt, practiceSet>>)

LEMMA IssueGrows ==
    ASSUME NEW r, NEW k, NEW t, k \in DOMAIN r => r[k] = t
    PROVE  Grown(r, Issue(r, k, t))
BY DEF Grown, Issue

LEMMA StandsStep ==
    ASSUME DevelopmentNext
    PROVE  EvidenceStep
<1>0. \A r : Grown(r, r)
  BY DEF Grown
<1>1. ASSUME UNCHANGED <<execReceipt, graderReceipt, runReceipt, practiceSet>> PROVE EvidenceStep
  BY <1>0, <1>1 DEF EvidenceStep
<1>2. ASSUME NEW w \in DevWorkers, persist_set(w) PROVE EvidenceStep
  <2> DEFINE j == devWork[w].job
             set == [done |-> devWork[w].done, stop |-> devWork[w].stop,
                     outcome |-> IF devWork[w].stop = None THEN select_contrast(devWork[w].done) ELSE None]
  <2>1. UNCHANGED <<execReceipt, graderReceipt, runReceipt>>
    BY <1>2 DEF persist_set
  <2>2. CASE UNCHANGED practiceSet
    BY <1>1, <2>1, <2>2
  <2>3. CASE practiceSet' = Issue(practiceSet, j, set) /\ j \notin DOMAIN practiceSet /\ devLive
    <3> HIDE DEF j, set
    <3>1. Grown(practiceSet, practiceSet')
      BY <2>3, IssueGrows
    <3> QED BY <1>0, <2>1, <2>3, <3>1 DEF EvidenceStep
  <2> QED BY <1>2, <2>2, <2>3 DEF persist_set
<1>3. ASSUME NEW w \in DevWorkers, issue_run_receipt(w) PROVE EvidenceStep
  <2>1. UNCHANGED <<execReceipt, graderReceipt, practiceSet>>
    BY <1>3 DEF issue_run_receipt, Stop, devRecords
  <2>2. CASE UNCHANGED runReceipt
    BY <1>1, <2>1, <2>2
  <2>3. CASE runReceipt' = Issue(runReceipt, Req(w), devClock) /\ Req(w) \notin DOMAIN runReceipt /\ devLive
    <3>1. Grown(runReceipt, runReceipt')
      BY <2>3, IssueGrows
    <3> QED BY <1>0, <2>1, <2>3, <3>1 DEF EvidenceStep
  <2> QED BY <1>3, <2>2, <2>3 DEF issue_run_receipt, Stop, devRecords
<1>4. ASSUME NEW w \in DevWorkers, issue_grader_receipt(w) PROVE EvidenceStep
  <2>1. UNCHANGED <<execReceipt, runReceipt, practiceSet>>
    BY <1>4 DEF issue_grader_receipt, Stop, devRecords
  <2>2. CASE UNCHANGED graderReceipt
    BY <1>1, <2>1, <2>2
  <2>3. CASE graderReceipt' = Issue(graderReceipt, Pair(w), devClock) /\ Pair(w) \notin DOMAIN graderReceipt /\ devLive
    <3>1. Grown(graderReceipt, graderReceipt')
      BY <2>3, IssueGrows
    <3> QED BY <1>0, <2>1, <2>3, <3>1 DEF EvidenceStep
  <2> QED BY <1>4, <2>2, <2>3 DEF issue_grader_receipt, Stop, devRecords
<1>5. ASSUME NEW w \in DevWorkers, issue_execution_receipt(w) PROVE EvidenceStep
  <2> DEFINE t == IF runner = "registered" THEN devClock ELSE devWork[w].now
  <2>1. UNCHANGED <<graderReceipt, runReceipt, practiceSet>>
    BY <1>5 DEF issue_execution_receipt, Stop, devRecords
  <2>2. CASE UNCHANGED execReceipt
    BY <1>1, <2>1, <2>2
  <2>3. CASE /\ execReceipt' = Issue(execReceipt, Key(w), t) /\ devLive
             /\ (runner = "registered" /\ Key(w) \in DOMAIN execReceipt => execReceipt[Key(w)] = devClock)
    <3>1. runner = "registered" /\ Key(w) \in DOMAIN execReceipt => execReceipt[Key(w)] = t
      BY <2>3
    <3> HIDE DEF t
    <3>2. runner = "registered" => Grown(execReceipt, execReceipt')
      BY <2>3, <3>1, IssueGrows
    <3>3. DOMAIN execReceipt \subseteq DOMAIN execReceipt'
      <4>1. DOMAIN Issue(execReceipt, Key(w), t) = DOMAIN execReceipt \cup {Key(w)}
        BY IssueDomain
      <4> QED BY <2>3, <4>1
    <3> QED BY <1>0, <2>1, <2>3, <3>2, <3>3 DEF EvidenceStep
  <2> QED BY <1>5, <2>2, <2>3 DEF issue_execution_receipt, Stop, devRecords
<1> USE DEF devRecords, Stop
<1>6. ASSUME NEW w \in DevWorkers, (\E j \in Jobs : run_practice_set(w, j)) \/ dev_crash(w) \/ attempt_already_executed(w) \/ claim_registration(w)
      PROVE EvidenceStep
  BY <1>1, <1>6 DEF run_practice_set, dev_crash, attempt_already_executed, claim_registration
<1>7. ASSUME NEW w \in DevWorkers, run_request(w) \/ existing_receipt(w) \/ record_attempt(w) PROVE EvidenceStep
  BY <1>1, <1>7 DEF run_request, existing_receipt, record_attempt
<1>8. ASSUME NEW w \in DevWorkers, reserve_call(w) \/ target_execution_failed(w) \/ begin_bound_execution(w) \/ settle_registered_execution_call(w)
      PROVE EvidenceStep
  BY <1>1, <1>8 DEF reserve_call, target_execution_failed, begin_bound_execution, settle_registered_execution_call
<1>9. CASE (\E t \in 1..DevClockLimit : dev_tick(t)) \/ dev_revoke \/ dev_inputs_change \/ dev_root_stops \/ \E k \in CallKeys : dev_mark_uncertain(k)
  BY <1>1, <1>9 DEF dev_tick, dev_revoke, dev_inputs_change, dev_root_stops, dev_mark_uncertain
<1> HIDE DEF devRecords, Stop
<1> QED BY DevelopmentNext, <1>2, <1>3, <1>4, <1>5, <1>6, <1>7, <1>8, <1>9 DEF DevelopmentNext, DevRuns

\* What is written stays as it was written, and nothing is written once a
\* source is revoked (require_live_sources in every issuing transaction).
THEOREM EvidenceIsFinal == DevelopmentSpec => EvidenceStands
<1>1. [DevelopmentNext]_developmentVars => [EvidenceStep]_developmentVars
  BY StandsStep
<1> QED BY <1>1, PTL DEF DevelopmentSpec, EvidenceStands, EvidenceStep

-----------------------------------------------------------------------------
(***************************************************************************)
(* Local import, for any registrations, files, processes and limits.       *)
(***************************************************************************)

SourceRow == [status : Statuses \cup {"absent", "cleaned"}, bytes : Nat]
SelectionRow == [state : {"absent", "prepared", "registered", "cleaned"}, mark : Nat]
ResultRow == [state : {"absent", "Complete", "Partial", "Failed", "cleaned"}, events : Nat]

Registering == {"source", "read", "preflight", "publish", "finish", "close"}
ImportPlaces == Registering \cup {"idle", "blobs", "store", "material", "boundary"}
ImportWorkRow ==
    [at : ImportPlaces, import : Imports \cup {None}, n : Nat \ {0}, consumed : Nat, size : Nat,
     found : Statuses \cup {None} \cup SUBSET ImportSources, seen : BOOLEAN, retried : BOOLEAN]

Finished(row) == row.status \notin {"absent", "Prepared"}

\* What is still to be counted from the n-th source of a registration on.
Rest(rows, i, n) ==
    [s \in ImportSources |-> IF \E m \in DOMAIN SourcesOf[i] : m >= n /\ SourcesOf[i][m] = s THEN BytesRead(rows)[s] ELSE 0]
Ahead(rows, i, n) == SumFunctionOnSet(Rest(rows, i, n), Sources(i))

\* A source that is ready has the bytes it was registered with, and its blob.
SourcesSound(rows, bl) ==
    \A s \in ImportSources : rows[s].status = "Ready" => rows[s].bytes = SizeOf[ContentOf[s]] /\ ContentOf[s] \in bl

\* A registration and its sources.  Until the watermark moves they are finished in
\* their order.
Whole(i, rows, r, rev, mark) ==
    /\ r.mark <= mark
    /\ \A s \in Sources(i) : rows[s].status = "absent" <=> r.state = "absent"
    /\ \A s \in Sources(i) : s \in rev => r.state # "absent" /\ r.mark # mark
    /\ \A s \in Sources(i) : rows[s].status = "cleaned" => s \in rev
    /\ r.state = "registered" => \A s \in Sources(i) : Finished(rows[s])
    /\ r.state = "cleaned" => \E s \in Sources(i) : s \in rev
    /\ Total(rows, i) <= ReadLimit
    /\ r.mark = mark => \A m, k \in DOMAIN SourcesOf[i] :
                           m < k /\ Finished(rows[SourcesOf[i][k]]) => Finished(rows[SourcesOf[i][m]])

ReadyOf(rows, i) == {s \in Sources(i) : rows[s].status = "Ready"}

Derived(i, rows, r, res, rev) ==
    /\ res.state \in {"absent", "cleaned"} => res.events = 0
    /\ res.state # "absent" => r.state \in {"registered", "cleaned"}
    /\ res.state \in {"Complete", "Partial", "Failed"} /\ (\A s \in Sources(i) : s \notin rev) =>
          /\ res.state = "Complete" <=> ReadyOf(rows, i) = Sources(i)
          /\ res.state = "Failed" <=> ReadyOf(rows, i) = {}

\* A process that registers: what it has counted and what is ahead of it stay within
\* the limit, and make up the whole while the watermark stands.
Registers(w, rows, r, mark) ==
    /\ r.state # "absent" /\ w.n \in 1..(Len(SourcesOf[w.import]) + 1)
    /\ w.at = "close" <=> w.n = Len(SourcesOf[w.import]) + 1
    /\ w.consumed + Ahead(rows, w.import, w.n) <= ReadLimit
    /\ r.mark = mark => /\ w.consumed + Ahead(rows, w.import, w.n) = Total(rows, w.import)
                        /\ \A m \in 1..(w.n - 1) : Finished(rows[SourcesOf[w.import][m]])

\* One that has read its source.
Holds(w, rows, bl) ==
    LET s == SourcesOf[w.import][w.n] IN
    /\ w.at \in {"preflight", "publish"} => w.size = SizeOf[ContentOf[s]] /\ w.consumed + w.size <= ReadLimit
    /\ w.at = "finish" =>
          /\ w.found \in Statuses \ {"Prepared"}
          /\ w.found \in {"Ready", "SourceChanged"} => w.consumed + w.size <= ReadLimit
          /\ w.found = "Ready" => /\ w.size = SizeOf[ContentOf[s]]
                                  /\ rows[s].status \in {"Prepared", "Ready"} => ContentOf[s] \in bl

\* One that derives a result.
Executes(w, rows, r, rev) ==
    /\ r.state \in {"registered", "cleaned"}
    /\ w.at = "store" => /\ w.found \subseteq Sources(w.import)
                         /\ (\A s \in Sources(w.import) : s \notin rev) => w.found = ReadyOf(rows, w.import)

ImportWorkSound(w, rows, sel, bl, rev, mark) ==
    /\ w.at # "idle" => w.import \in Imports
    /\ w.consumed <= ReadLimit
    /\ w.at \in Registering => Registers(w, rows, sel[w.import], mark)
    /\ w.at \in {"preflight", "publish", "finish"} => Holds(w, rows, bl)
    /\ w.at \in {"blobs", "store"} => Executes(w, rows, sel[w.import], rev)

TypesSound ==
    /\ selection \in [Imports -> SelectionRow] /\ importSource \in [ImportSources -> SourceRow]
    /\ importResult \in [Imports -> ResultRow] /\ importWork \in [ImportProcs -> ImportWorkRow]
    /\ blobs \subseteq Contents /\ importRevoked \subseteq ImportSources /\ delivered \subseteq Imports /\ importMark \in Nat

StoredSound ==
    /\ SourcesSound(importSource, blobs)
    /\ \A i \in Imports : /\ Whole(i, importSource, selection[i], importRevoked, importMark)
                          /\ Derived(i, importSource, selection[i], importResult[i], importRevoked)
    /\ EventsUsed <= EventLimit

ProcessesSound ==
    \A p \in ImportProcs : ImportWorkSound(importWork[p], importSource, selection, blobs, importRevoked, importMark)

FilesSound == file \in [ImportSources -> Contents \cup Unreadable \cup {"foreign"}]

ImportInv == TypesSound /\ FilesSound /\ StoredSound /\ ProcessesSound


-----------------------------------------------------------------------------
(* Sums.                                                                   *)

LEMMA SumIsNatural ==
    ASSUME NEW f, NEW S, IsFiniteSet(S), \A x \in S : f[x] \in Nat
    PROVE  SumFunctionOnSet(f, S) \in Nat
<1>1. CASE S = {}
  BY <1>1, SumOfNone
<1>2. CASE S # {}
  <2>1. PICK c \in S : TRUE
    BY <1>2
  <2> QED BY <2>1, SumWithout
<1> QED BY <1>1, <1>2

\* One value changes.
LEMMA SumChanges ==
    ASSUME NEW f, NEW e, NEW S, IsFiniteSet(S), NEW c \in S,
           \A x \in S : f[x] \in Nat /\ e[x] \in Nat, \A x \in S : x # c => f[x] = e[x]
    PROVE  SumFunctionOnSet(f, S) + e[c] = SumFunctionOnSet(e, S) + f[c]
<1>1. /\ SumFunctionOnSet(f, S \ {c}) \in Nat
      /\ SumFunctionOnSet(f, S) = f[c] + SumFunctionOnSet(f, S \ {c})
  BY SumWithout
<1>2. SumFunctionOnSet(e, S) = e[c] + SumFunctionOnSet(e, S \ {c})
  BY SumWithout
<1>3. SumFunctionOnSet(f, S \ {c}) = SumFunctionOnSet(e, S \ {c})
  <2>1. IsFiniteSet(S \ {c})
    BY FS_Subset
  <2> QED BY <2>1, SumSame
<1> QED BY <1>1, <1>2, <1>3

LEMMA SumOfZeros ==
    ASSUME NEW f, NEW S, IsFiniteSet(S), \A x \in S : f[x] = 0
    PROVE  SumFunctionOnSet(f, S) = 0
<1> DEFINE N == {n \in Nat : \A s \in SUBSET S : Cardinality(s) <= n => SumFunctionOnSet(f, s) = 0}
<1>0. \A s \in SUBSET S : IsFiniteSet(s) /\ Cardinality(s) \in Nat
  BY FS_Subset, FS_CardinalityType
<1>1. 0 \in N
  <2>1. \A s \in SUBSET S : Cardinality(s) <= 0 => s = {}
    BY <1>0, FS_EmptySet
  <2> QED BY <2>1, SumOfNone
<1>2. ASSUME NEW n \in N PROVE n + 1 \in N
  <2>1. ASSUME NEW s \in SUBSET S, Cardinality(s) <= n + 1 PROVE SumFunctionOnSet(f, s) = 0
    <3>1. CASE s = {}
      BY <3>1, SumOfNone
    <3>2. CASE s # {}
      <4>1. /\ Pick(s) \in s /\ IsFiniteSet(s) /\ Cardinality(s) \in Nat
            /\ Cardinality(s \ {Pick(s)}) = Cardinality(s) - 1
        BY <1>0, <3>2, PickIsMember, PickedIsSmaller
      <4>2. SumFunctionOnSet(f, s) = f[Pick(s)] + SumFunctionOnSet(f, s \ {Pick(s)})
        BY <3>2, <4>1, SumStep
      <4>3. SumFunctionOnSet(f, s \ {Pick(s)}) = 0
        <5>1. s \ {Pick(s)} \in SUBSET S /\ Cardinality(s \ {Pick(s)}) <= n
          BY <2>1, <4>1
        <5> QED BY <5>1
      <4>4. f[Pick(s)] = 0
        BY <4>1
      <4> QED BY <4>2, <4>3, <4>4
    <3> QED BY <3>1, <3>2
  <2> QED BY <2>1
<1>3. N = Nat
  <2> HIDE DEF N
  <2>1. N \in SUBSET Nat
    BY DEF N
  <2> QED BY <1>1, <1>2, <2>1, AllNaturals
<1>4. Cardinality(S) \in N
  BY <1>0, <1>3
<1> QED BY <1>0, <1>4

-----------------------------------------------------------------------------
(* The sources of a registration.                                          *)

Rows(rows) == rows \in [ImportSources -> SourceRow]

LEMMA SourcesShape ==
    ASSUME NEW i \in Imports
    PROVE  /\ Len(SourcesOf[i]) \in Nat \ {0} /\ DOMAIN SourcesOf[i] = 1..Len(SourcesOf[i])
           /\ IsFiniteSet(Sources(i)) /\ Sources(i) \subseteq ImportSources
           /\ \A m \in 1..Len(SourcesOf[i]) : SourcesOf[i][m] \in Sources(i) /\ SourcesOf[i][m] \in ImportSources
           /\ \A m, n \in 1..Len(SourcesOf[i]) : SourcesOf[i][m] = SourcesOf[i][n] => m = n
<1>1. SourcesOf[i] \in Seq(ImportSources) /\ SourcesOf[i] # <<>>
  BY ImportShape
<1>2. Len(SourcesOf[i]) \in Nat \ {0} /\ DOMAIN SourcesOf[i] = 1..Len(SourcesOf[i])
  BY <1>1, EmptySeq
<1>3. IsFiniteSet(Sources(i))
  <2>1. IsFiniteSet(1..Len(SourcesOf[i]))
    BY <1>2, FS_Interval
  <2>2. Sources(i) = {SourcesOf[i][n] : n \in 1..Len(SourcesOf[i])}
    BY <1>2 DEF Sources
  <2>3. [n \in 1..Len(SourcesOf[i]) |-> SourcesOf[i][n]] \in Surjection(1..Len(SourcesOf[i]), Sources(i))
    BY <2>2 DEF Surjection
  <2> QED BY <2>1, <2>3, FS_Surjection
<1>4. Sources(i) \subseteq ImportSources
  BY DEF Sources, ImportSources
<1>5. \A m \in 1..Len(SourcesOf[i]) : SourcesOf[i][m] \in Sources(i)
  BY <1>2 DEF Sources
<1>6. \A m, n \in 1..Len(SourcesOf[i]) : SourcesOf[i][m] = SourcesOf[i][n] => m = n
  BY <1>2, ImportShape
<1> QED BY <1>2, <1>3, <1>4, <1>5, <1>6

LEMMA SourceIndex ==
    ASSUME NEW i \in Imports, NEW s \in Sources(i)
    PROVE  \E k \in 1..Len(SourcesOf[i]) : SourcesOf[i][k] = s
  BY SourcesShape DEF Sources

\* A source is of one registration.
LEMMA SourcesApart ==
    ASSUME NEW i \in Imports, NEW j \in Imports, i # j
    PROVE  Sources(i) \cap Sources(j) = {}
  BY ImportShape DEF Sources

LEMMA Owner ==
    ASSUME NEW s \in ImportSources
    PROVE  \E i \in Imports : s \in Sources(i)
  BY DEF ImportSources, Sources

LEMMA CountedIsNatural ==
    ASSUME NEW rows, Rows(rows), NEW s \in ImportSources
    PROVE  /\ BytesRead(rows)[s] \in Nat
           /\ BytesRead(rows)[s] = IF rows[s].status \in {"Ready", "SourceChanged"} THEN rows[s].bytes ELSE 0
  BY DEF Rows, BytesRead, SourceRow

LEMMA RestIsNatural ==
    ASSUME NEW rows, Rows(rows), NEW s \in ImportSources, NEW i, NEW n
    PROVE  /\ Rest(rows, i, n)[s] \in Nat
           /\ (\E m \in DOMAIN SourcesOf[i] : m >= n /\ SourcesOf[i][m] = s) => Rest(rows, i, n)[s] = BytesRead(rows)[s]
           /\ ~(\E m \in DOMAIN SourcesOf[i] : m >= n /\ SourcesOf[i][m] = s) => Rest(rows, i, n)[s] = 0
<1>1. BytesRead(rows)[s] \in Nat
  BY CountedIsNatural
<1>2. Rest(rows, i, n)[s] = IF \E m \in DOMAIN SourcesOf[i] : m >= n /\ SourcesOf[i][m] = s THEN BytesRead(rows)[s] ELSE 0
  BY DEF Rest
<1> QED BY <1>1, <1>2

LEMMA SumsAreNatural ==
    ASSUME NEW rows, Rows(rows), NEW i \in Imports, NEW n
    PROVE  Total(rows, i) \in Nat /\ Ahead(rows, i, n) \in Nat
<1>1. IsFiniteSet(Sources(i)) /\ Sources(i) \subseteq ImportSources
  BY SourcesShape
<1>2. \A s \in Sources(i) : BytesRead(rows)[s] \in Nat
  BY <1>1, CountedIsNatural
<1>3. \A s \in Sources(i) : Rest(rows, i, n)[s] \in Nat
  BY <1>1, RestIsNatural
<1>4. Total(rows, i) \in Nat
  BY <1>1, <1>2, SumIsNatural DEF Total
<1>5. Ahead(rows, i, n) \in Nat
  BY <1>1, <1>3, SumIsNatural DEF Ahead
<1> QED BY <1>4, <1>5

\* A registration begins with all of its sources ahead.
LEMMA AheadAtFirst ==
    ASSUME NEW rows, Rows(rows), NEW i \in Imports
    PROVE  Ahead(rows, i, 1) = Total(rows, i)
<1>1. /\ IsFiniteSet(Sources(i)) /\ Sources(i) \subseteq ImportSources
      /\ DOMAIN SourcesOf[i] = 1..Len(SourcesOf[i]) /\ Len(SourcesOf[i]) \in Nat
  BY SourcesShape
<1>2. ASSUME NEW s \in Sources(i) PROVE Rest(rows, i, 1)[s] = BytesRead(rows)[s]
  <2>1. PICK k \in 1..Len(SourcesOf[i]) : SourcesOf[i][k] = s
    BY SourceIndex
  <2>2. \E m \in DOMAIN SourcesOf[i] : m >= 1 /\ SourcesOf[i][m] = s
    BY <1>1, <2>1
  <2> QED BY <1>1, <2>2, RestIsNatural
<1> QED BY <1>1, <1>2, SumSame DEF Ahead, Total

\* The next source is counted.
LEMMA AheadMoves ==
    ASSUME NEW rows, Rows(rows), NEW i \in Imports, NEW n \in 1..Len(SourcesOf[i])
    PROVE  Ahead(rows, i, n) = BytesRead(rows)[SourcesOf[i][n]] + Ahead(rows, i, n + 1)
<1> DEFINE s == SourcesOf[i][n]  f == Rest(rows, i, n)  e == Rest(rows, i, n + 1)
<1>1. /\ IsFiniteSet(Sources(i)) /\ Sources(i) \subseteq ImportSources /\ s \in Sources(i)
      /\ DOMAIN SourcesOf[i] = 1..Len(SourcesOf[i]) /\ Len(SourcesOf[i]) \in Nat
      /\ \A m \in 1..Len(SourcesOf[i]) : SourcesOf[i][m] = s => m = n
  BY SourcesShape
<1>2. f[s] = BytesRead(rows)[s]
  <2>1. \E m \in DOMAIN SourcesOf[i] : m >= n /\ SourcesOf[i][m] = s
    BY <1>1
  <2> QED BY <1>1, <2>1, RestIsNatural
<1>3. e[s] = 0
  <2>1. ~ \E m \in DOMAIN SourcesOf[i] : m >= n + 1 /\ SourcesOf[i][m] = s
    BY <1>1
  <2> QED BY <1>1, <2>1, RestIsNatural
<1>4. ASSUME NEW x \in Sources(i), x # s PROVE f[x] = e[x]
  <2>1. (\E m \in DOMAIN SourcesOf[i] : m >= n /\ SourcesOf[i][m] = x)
          <=> (\E m \in DOMAIN SourcesOf[i] : m >= n + 1 /\ SourcesOf[i][m] = x)
    BY <1>1, <1>4
  <2>2. x \in ImportSources
    BY <1>1
  <2>3. CASE \E m \in DOMAIN SourcesOf[i] : m >= n /\ SourcesOf[i][m] = x
    BY <2>1, <2>2, <2>3, RestIsNatural
  <2>4. CASE ~ \E m \in DOMAIN SourcesOf[i] : m >= n /\ SourcesOf[i][m] = x
    BY <2>1, <2>2, <2>4, RestIsNatural
  <2> QED BY <2>3, <2>4
<1>5. \A x \in Sources(i) : f[x] \in Nat /\ e[x] \in Nat
  BY <1>1, RestIsNatural
<1> HIDE DEF f, e, s
<1>6. SumFunctionOnSet(f, Sources(i)) + e[s] = SumFunctionOnSet(e, Sources(i)) + f[s]
  BY <1>1, <1>4, <1>5, SumChanges
<1>7. SumFunctionOnSet(f, Sources(i)) \in Nat /\ SumFunctionOnSet(e, Sources(i)) \in Nat /\ f[s] \in Nat
  BY <1>1, <1>5, SumIsNatural
<1>8. SumFunctionOnSet(f, Sources(i)) = f[s] + SumFunctionOnSet(e, Sources(i))
  BY <1>3, <1>6, <1>7
<1> QED BY <1>2, <1>8 DEF f, e, s, Ahead

\* Nothing that is ahead has been read.
LEMMA NothingAhead ==
    ASSUME NEW rows, Rows(rows), NEW i \in Imports, NEW n \in 1..Len(SourcesOf[i]),
           \A m \in 1..Len(SourcesOf[i]) : m >= n => ~Finished(rows[SourcesOf[i][m]])
    PROVE  Ahead(rows, i, n) = 0
<1>1. /\ IsFiniteSet(Sources(i)) /\ Sources(i) \subseteq ImportSources
      /\ DOMAIN SourcesOf[i] = 1..Len(SourcesOf[i]) /\ Len(SourcesOf[i]) \in Nat
  BY SourcesShape
<1>2. ASSUME NEW x \in Sources(i) PROVE Rest(rows, i, n)[x] = 0
  <2>1. x \in ImportSources
    BY <1>1
  <2>2. CASE \E m \in DOMAIN SourcesOf[i] : m >= n /\ SourcesOf[i][m] = x
    <3>1. ~Finished(rows[x])
      BY <1>1, <2>2
    <3>2. BytesRead(rows)[x] = 0
      BY <2>1, <3>1, CountedIsNatural DEF Finished
    <3> QED BY <2>1, <2>2, <3>2, RestIsNatural
  <2>3. CASE ~ \E m \in DOMAIN SourcesOf[i] : m >= n /\ SourcesOf[i][m] = x
    BY <2>1, <2>3, RestIsNatural
  <2> QED BY <2>2, <2>3
<1> QED BY <1>1, <1>2, SumOfZeros DEF Ahead

\* The rows of other registrations do not count.
LEMMA SumsOfOthers ==
    ASSUME NEW rows, Rows(rows), NEW t, Rows(t), NEW i \in Imports, \A s \in Sources(i) : t[s] = rows[s], NEW n
    PROVE  Total(t, i) = Total(rows, i) /\ Ahead(t, i, n) = Ahead(rows, i, n)
<1>1. IsFiniteSet(Sources(i)) /\ Sources(i) \subseteq ImportSources
  BY SourcesShape
<1>2. ASSUME NEW s \in Sources(i) PROVE BytesRead(t)[s] = BytesRead(rows)[s]
  BY <1>1, CountedIsNatural
<1>3. ASSUME NEW s \in Sources(i) PROVE Rest(t, i, n)[s] = Rest(rows, i, n)[s]
  BY <1>1, <1>2, RestIsNatural
<1>4. Total(t, i) = Total(rows, i)
  BY <1>1, <1>2, SumSame DEF Total
<1>5. Ahead(t, i, n) = Ahead(rows, i, n)
  BY <1>1, <1>3, SumSame DEF Ahead
<1> QED BY <1>4, <1>5

\* One row changes.
LEMMA SumsChange ==
    ASSUME NEW rows, Rows(rows), NEW t, Rows(t), NEW i \in Imports, NEW k \in 1..Len(SourcesOf[i]),
           \A x \in ImportSources : x # SourcesOf[i][k] => t[x] = rows[x], NEW n \in Nat
    PROVE  /\ Total(t, i) + BytesRead(rows)[SourcesOf[i][k]] = Total(rows, i) + BytesRead(t)[SourcesOf[i][k]]
           /\ k >= n => Ahead(t, i, n) + BytesRead(rows)[SourcesOf[i][k]] = Ahead(rows, i, n) + BytesRead(t)[SourcesOf[i][k]]
           /\ k < n => Ahead(t, i, n) = Ahead(rows, i, n)
<1> DEFINE s == SourcesOf[i][k]
<1>1. /\ IsFiniteSet(Sources(i)) /\ Sources(i) \subseteq ImportSources /\ s \in Sources(i)
      /\ DOMAIN SourcesOf[i] = 1..Len(SourcesOf[i]) /\ Len(SourcesOf[i]) \in Nat
      /\ \A m \in 1..Len(SourcesOf[i]) : SourcesOf[i][m] = s => m = k
  BY SourcesShape
<1>2. \A x \in Sources(i) : BytesRead(rows)[x] \in Nat /\ BytesRead(t)[x] \in Nat
  BY <1>1, CountedIsNatural
<1>3. \A x \in Sources(i) : Rest(rows, i, n)[x] \in Nat /\ Rest(t, i, n)[x] \in Nat
  BY <1>1, RestIsNatural
<1>4. ASSUME NEW x \in Sources(i), x # s PROVE BytesRead(t)[x] = BytesRead(rows)[x] /\ Rest(t, i, n)[x] = Rest(rows, i, n)[x]
  <2>1. x \in ImportSources /\ t[x] = rows[x]
    BY <1>1, <1>4
  <2>2. BytesRead(t)[x] = BytesRead(rows)[x]
    BY <2>1, CountedIsNatural
  <2> QED BY <2>1, <2>2, RestIsNatural
<1>5. Total(t, i) + BytesRead(rows)[s] = Total(rows, i) + BytesRead(t)[s]
  BY <1>1, <1>2, <1>4, SumChanges DEF Total
<1>6. ASSUME k >= n PROVE Ahead(t, i, n) + BytesRead(rows)[s] = Ahead(rows, i, n) + BytesRead(t)[s]
  <2>1. \E m \in DOMAIN SourcesOf[i] : m >= n /\ SourcesOf[i][m] = s
    BY <1>1, <1>6
  <2>2. Rest(t, i, n)[s] = BytesRead(t)[s] /\ Rest(rows, i, n)[s] = BytesRead(rows)[s]
    BY <1>1, <2>1, RestIsNatural
  <2>3. Ahead(t, i, n) + Rest(rows, i, n)[s] = Ahead(rows, i, n) + Rest(t, i, n)[s]
    BY <1>1, <1>3, <1>4, SumChanges DEF Ahead
  <2> QED BY <2>2, <2>3
<1>7. ASSUME k < n PROVE Ahead(t, i, n) = Ahead(rows, i, n)
  <2>1. ~ \E m \in DOMAIN SourcesOf[i] : m >= n /\ SourcesOf[i][m] = s
    BY <1>1, <1>7
  <2>2. Rest(t, i, n)[s] = 0 /\ Rest(rows, i, n)[s] = 0
    BY <1>1, <2>1, RestIsNatural
  <2>3. \A x \in Sources(i) : Rest(t, i, n)[x] = Rest(rows, i, n)[x]
    BY <1>4, <2>2
  <2> QED BY <1>1, <2>3, SumSame DEF Ahead
<1> QED BY <1>5, <1>6, <1>7

-----------------------------------------------------------------------------
(* A process and what it holds.                                            *)

WorkAt(i, c, n, place) == [ImportIdle EXCEPT !.import = i, !.consumed = c, !.n = n, !.at = place]
Following(w, bytes) ==
    WorkAt(w.import, w.consumed + bytes, w.n + 1, IF w.n = Len(SourcesOf[w.import]) THEN "close" ELSE "source")

LEMMA IdleSound ==
    ASSUME NEW rows, NEW sel, NEW bl, NEW rev, NEW mark
    PROVE  ImportIdle \in ImportWorkRow /\ ImportWorkSound(ImportIdle, rows, sel, bl, rev, mark)
<1>1. ImportIdle \in ImportWorkRow
  BY DEF ImportIdle, ImportWorkRow, ImportPlaces
<1>2. ImportIdle.at = "idle" /\ ImportIdle.consumed = 0
  BY DEF ImportIdle
<1>3. ReadLimit \in Nat
  BY ImportShape
<1> QED BY <1>1, <1>2, <1>3 DEF ImportWorkSound, Registering

\* A process that begins on a registration.
LEMMA BeginSound ==
    ASSUME NEW rows, NEW sel, NEW bl, NEW rev, NEW mark, NEW i \in Imports, NEW place \in {"blobs", "material"},
           place = "blobs" => sel[i].state = "registered"
    PROVE  /\ [ImportIdle EXCEPT !.at = place, !.import = i] \in ImportWorkRow
           /\ ImportWorkSound([ImportIdle EXCEPT !.at = place, !.import = i], rows, sel, bl, rev, mark)
<1> DEFINE w == [ImportIdle EXCEPT !.at = place, !.import = i]
<1>1. w \in ImportWorkRow /\ w.at = place /\ w.import = i /\ w.consumed = 0
  <2>1. ImportIdle \in ImportWorkRow /\ ImportIdle.consumed = 0
    BY IdleSound DEF ImportIdle
  <2> QED BY <2>1 DEF ImportWorkRow, ImportPlaces
<1>2. ReadLimit \in Nat
  BY ImportShape
<1> HIDE DEF w
<1>3. w.at \notin Registering /\ w.at \notin {"preflight", "publish", "finish"} /\ w.at # "store"
  BY <1>1 DEF Registering
<1>4. w.at \in {"blobs", "store"} => Executes(w, rows, sel[w.import], rev)
  BY <1>1, <1>3 DEF Executes
<1>5. ImportWorkSound(w, rows, sel, bl, rev, mark)
  BY <1>1, <1>2, <1>3, <1>4 DEF ImportWorkSound
<1> QED BY <1>1, <1>5 DEF w

LEMMA WorkFields ==
    ASSUME NEW i \in Imports, NEW c \in Nat, NEW n \in Nat \ {0}, NEW place \in ImportPlaces
    PROVE  /\ WorkAt(i, c, n, place) \in ImportWorkRow /\ WorkAt(i, c, n, place).import = i
           /\ WorkAt(i, c, n, place).consumed = c /\ WorkAt(i, c, n, place).n = n /\ WorkAt(i, c, n, place).at = place
<1>1. ImportIdle \in ImportWorkRow
  BY IdleSound
<1> QED BY <1>1 DEF ImportWorkRow, WorkAt

\* It moves on over a source that is finished.
LEMMA AdvanceSound ==
    ASSUME NEW rows, Rows(rows), NEW sel, NEW bl, NEW rev, NEW mark, NEW w \in ImportWorkRow, w.import \in Imports, w.at # "close",
           Registers(w, rows, sel[w.import], mark), Finished(rows[SourcesOf[w.import][w.n]])
    PROVE  /\ Following(w, BytesRead(rows)[SourcesOf[w.import][w.n]]) \in ImportWorkRow
           /\ ImportWorkSound(Following(w, BytesRead(rows)[SourcesOf[w.import][w.n]]), rows, sel, bl, rev, mark)
<1> DEFINE i == w.import  n == w.n  s == SourcesOf[i][n]  b == BytesRead(rows)[s]  v == Following(w, b)  L == Len(SourcesOf[i])
<1>1. L \in Nat \ {0} /\ \A m \in 1..L : SourcesOf[i][m] \in ImportSources
  BY SourcesShape
<1>2. n \in 1..L /\ w.consumed \in Nat /\ n \in Nat
  BY <1>1 DEF Registers, ImportWorkRow
<1>3. b \in Nat
  BY <1>1, <1>2, CountedIsNatural
<1>4. /\ v \in ImportWorkRow /\ v.import = i /\ v.consumed = w.consumed + b /\ v.n = n + 1
      /\ v.at = IF n = L THEN "close" ELSE "source"
  <2> HIDE DEF b
  <2> DEFINE c == w.consumed + b  k == n + 1  place == IF n = L THEN "close" ELSE "source"
  <2>1. c \in Nat /\ k \in Nat \ {0} /\ place \in ImportPlaces /\ i \in Imports
    BY <1>2, <1>3 DEF ImportPlaces, Registering
  <2>2. v = WorkAt(i, c, k, place)
    BY DEF Following
  <2> HIDE DEF v, c, k, place, i
  <2>3. v \in ImportWorkRow /\ v.import = i /\ v.consumed = c /\ v.n = k /\ v.at = place
    BY <2>1, <2>2, WorkFields
  <2> QED BY <2>3 DEF c, k, place
<1>5. Ahead(rows, i, n) = b + Ahead(rows, i, n + 1) /\ Ahead(rows, i, n + 1) \in Nat
  BY <1>2, AheadMoves, SumsAreNatural
<1>6. ReadLimit \in Nat
  BY ImportShape
<1>7. /\ sel[i].state # "absent" /\ w.consumed + Ahead(rows, i, n) <= ReadLimit
      /\ sel[i].mark = mark => /\ w.consumed + Ahead(rows, i, n) = Total(rows, i)
                              /\ \A m \in 1..(n - 1) : Finished(rows[SourcesOf[i][m]])
  BY DEF Registers
<1>8. Finished(rows[s])
  OBVIOUS
<1> HIDE DEF v, b, s, n, L
<1>9. v.consumed + Ahead(rows, i, v.n) <= ReadLimit /\ v.consumed <= ReadLimit
  BY <1>2, <1>3, <1>4, <1>5, <1>6, <1>7
<1>10. ASSUME sel[i].mark = mark
       PROVE  v.consumed + Ahead(rows, i, v.n) = Total(rows, i) /\ \A m \in 1..(v.n - 1) : Finished(rows[SourcesOf[i][m]])
  <2>1. v.consumed + Ahead(rows, i, v.n) = Total(rows, i)
    BY <1>2, <1>3, <1>4, <1>5, <1>7, <1>10
  <2>2. ASSUME NEW m \in 1..(v.n - 1) PROVE Finished(rows[SourcesOf[i][m]])
    <3>1. m = n \/ m \in 1..(n - 1)
      BY <1>2, <1>4
    <3> QED BY <1>7, <1>8, <1>10, <3>1 DEF s
  <2> QED BY <2>1, <2>2
<1>11. v.n \in 1..(L + 1) /\ (v.at = "close" <=> v.n = L + 1)
  BY <1>1, <1>2, <1>4
<1>12. Registers(v, rows, sel[v.import], mark)
  BY <1>4, <1>7, <1>9, <1>10, <1>11 DEF Registers, L
<1>13. v.at \in {"close", "source"} /\ v.import \in Imports
  BY <1>4
<1>14. ImportWorkSound(v, rows, sel, bl, rev, mark)
  BY <1>9, <1>12, <1>13 DEF ImportWorkSound
<1> QED BY <1>4, <1>14 DEF v, b, s, n


LEMMA BlobsGrow ==
    ASSUME NEW w, NEW rows, NEW sel, NEW bl, NEW more, NEW rev, NEW mark, bl \subseteq more,
           ImportWorkSound(w, rows, sel, bl, rev, mark)
    PROVE  ImportWorkSound(w, rows, sel, more, rev, mark)
<1>1. Holds(w, rows, bl) => Holds(w, rows, more)
  BY DEF Holds
<1> QED BY <1>1 DEF ImportWorkSound

\* A step of one process that leaves the registrations, sources and results alone.
LEMMA StepStands ==
    ASSUME ImportInv, NEW p \in ImportProcs, NEW w \in ImportWorkRow,
           ImportWorkSound(w, importSource, selection, blobs', importRevoked, importMark),
           importWork' = [importWork EXCEPT ![p] = w],
           UNCHANGED <<selection, importSource, importResult, importMark, importRevoked, file>>,
           blobs \subseteq blobs', blobs' \subseteq Contents, delivered' \subseteq Imports
    PROVE  ImportInv'
<1>1. TypesSound'
  BY DEF ImportInv, TypesSound
<1>2. FilesSound'
  BY DEF ImportInv, FilesSound
<1>3. SourcesSound(importSource', blobs')
  BY DEF ImportInv, StoredSound, SourcesSound
<1>4. StoredSound'
  <2>1. \A i \in Imports : /\ Whole(i, importSource', selection'[i], importRevoked', importMark')
                          /\ Derived(i, importSource', selection'[i], importResult'[i], importRevoked')
    BY DEF ImportInv, StoredSound
  <2>2. EventsUsed' <= EventLimit
    BY DEF ImportInv, StoredSound, EventsUsed
  <2> QED BY <1>3, <2>1, <2>2 DEF StoredSound
<1>5. ASSUME NEW q \in ImportProcs
      PROVE  ImportWorkSound(importWork'[q], importSource', selection', blobs', importRevoked', importMark')
  <2>1. CASE q = p
    <3>1. importWork'[q] = w
      BY <2>1 DEF ImportInv, TypesSound
    <3> QED BY <3>1
  <2>2. CASE q # p
    <3>1. importWork'[q] = importWork[q]
      BY <2>2 DEF ImportInv, TypesSound
    <3>2. ImportWorkSound(importWork[q], importSource, selection, blobs, importRevoked, importMark)
      BY DEF ImportInv, ProcessesSound
    <3> QED BY <3>1, <3>2, BlobsGrow
  <2> QED BY <2>1, <2>2
<1> QED BY <1>1, <1>2, <1>4, <1>5 DEF ImportInv, ProcessesSound

LEMMA ReturnStands ==
    ASSUME ImportInv, NEW p \in ImportProcs, Returns(p),
           UNCHANGED <<selection, importSource, importResult, importMark, importRevoked, file>>,
           blobs \subseteq blobs', blobs' \subseteq Contents, delivered' \subseteq Imports
    PROVE  ImportInv'
<1>1. ImportIdle \in ImportWorkRow /\ ImportWorkSound(ImportIdle, importSource, selection, blobs', importRevoked, importMark)
  BY IdleSound
<1> QED BY <1>1, StepStands DEF Returns

\* Where a process stands that works at a source.
LEMMA AtSource ==
    ASSUME ImportInv, NEW p \in ImportProcs, importWork[p].at \in Registering \ {"close"}
    PROVE  /\ importWork[p] \in ImportWorkRow /\ importWork[p].import \in Imports /\ importWork[p].consumed <= ReadLimit
           /\ importWork[p].n \in 1..Len(SourcesOf[importWork[p].import])
           /\ Source(p) \in Sources(importWork[p].import) /\ Source(p) \in ImportSources
           /\ Source(p) = SourcesOf[importWork[p].import][importWork[p].n]
           /\ Registers(importWork[p], importSource, selection[importWork[p].import], importMark)
           /\ ImportWorkSound(importWork[p], importSource, selection, blobs, importRevoked, importMark)
           /\ Rows(importSource) /\ importSource[Source(p)] \in SourceRow
           /\ importSource[Source(p)].status # "absent"
<1> DEFINE w == importWork[p]  i == w.import
<1>1. ImportWorkSound(w, importSource, selection, blobs, importRevoked, importMark) /\ w \in ImportWorkRow
  BY DEF ImportInv, ProcessesSound, TypesSound
<1>2. i \in Imports /\ Registers(w, importSource, selection[i], importMark) /\ w.consumed <= ReadLimit
  BY <1>1 DEF ImportWorkSound, Registering
<1>3. Len(SourcesOf[i]) \in Nat
  BY <1>2, SourcesShape
<1>4. w.n \in 1..Len(SourcesOf[i])
  BY <1>2, <1>3 DEF Registers
<1>5. SourcesOf[i][w.n] \in Sources(i) /\ SourcesOf[i][w.n] \in ImportSources
  BY <1>2, <1>4, SourcesShape
<1>6. Rows(importSource) /\ importSource[SourcesOf[i][w.n]] \in SourceRow
  BY <1>5 DEF ImportInv, TypesSound, Rows
<1>7. importSource[SourcesOf[i][w.n]].status # "absent"
  <2>1. Whole(i, importSource, selection[i], importRevoked, importMark)
    BY <1>2 DEF ImportInv, StoredSound
  <2>2. selection[i].state # "absent"
    BY <1>2 DEF Registers
  <2> QED BY <1>5, <2>1, <2>2 DEF Whole
<1> QED BY <1>1, <1>2, <1>4, <1>5, <1>6, <1>7 DEF Source

\* The next source is taken up, with what was counted for this one.
LEMMA NextStands ==
    ASSUME ImportInv, NEW p \in ImportProcs, importWork[p].at \in Registering \ {"close"}, NEW bytes,
           bytes = BytesRead(importSource)[Source(p)], Finished(importSource[Source(p)]), NextSource(p, bytes),
           UNCHANGED <<selection, importSource, importResult, importMark, importRevoked, file>>,
           blobs \subseteq blobs', blobs' \subseteq Contents, delivered' \subseteq Imports
    PROVE  ImportInv'
<1> DEFINE v == Following(importWork[p], bytes)
<1>1. v \in ImportWorkRow /\ ImportWorkSound(v, importSource, selection, blobs', importRevoked, importMark)
  BY AtSource, AdvanceSound
<1>2. importWork' = [importWork EXCEPT ![p] = v]
  BY DEF NextSource, Following, WorkAt
<1> HIDE DEF v
<1> QED BY <1>1, <1>2, StepStands


\* A process goes on with the source it is at.
Same(v, w) == v.import = w.import /\ v.n = w.n /\ v.consumed = w.consumed

LEMMA SameSourceStands ==
    ASSUME ImportInv, NEW p \in ImportProcs, importWork[p].at \in Registering \ {"close"}, NEW v \in ImportWorkRow,
           Same(v, importWork[p]), v.at \in Registering \ {"close"},
           v.at \in {"preflight", "publish", "finish"} => Holds(v, importSource, blobs'),
           importWork' = [importWork EXCEPT ![p] = v],
           UNCHANGED <<selection, importSource, importResult, importMark, importRevoked, file>>,
           blobs \subseteq blobs', blobs' \subseteq Contents, delivered' \subseteq Imports
    PROVE  ImportInv'
<1> DEFINE w == importWork[p]
<1>1. /\ w.import \in Imports /\ w.consumed <= ReadLimit /\ w.n \in 1..Len(SourcesOf[w.import])
      /\ Registers(w, importSource, selection[w.import], importMark)
  BY AtSource
<1>2. v.import = w.import /\ v.n = w.n /\ v.consumed = w.consumed
  BY DEF Same
<1>3. w.at # "close" /\ v.at # "close" /\ Len(SourcesOf[w.import]) \in Nat
  BY <1>1, SourcesShape
<1>4. Registers(v, importSource, selection[v.import], importMark)
  BY <1>1, <1>2, <1>3 DEF Registers
<1>5. v.at \notin {"idle", "blobs", "store"}
  BY DEF Registering
<1>6. ImportWorkSound(v, importSource, selection, blobs', importRevoked, importMark)
  BY <1>1, <1>2, <1>4, <1>5 DEF ImportWorkSound
<1> QED BY <1>6, StepStands

LEMMA FinishStands ==
    ASSUME ImportInv, NEW p \in ImportProcs, importWork[p].at \in Registering \ {"close"},
           NEW status \in Statuses \ {"Prepared", "Ready", "SourceChanged"}, Finish(p, status),
           UNCHANGED <<selection, importSource, importResult, importMark, importRevoked, file, blobs, delivered>>
    PROVE  ImportInv'
<1> DEFINE w == importWork[p]  v == [w EXCEPT !.at = "finish", !.found = status]
<1>1. w \in ImportWorkRow /\ importWork \in [ImportProcs -> ImportWorkRow] /\ blobs \subseteq Contents /\ delivered \subseteq Imports
  BY DEF ImportInv, TypesSound
<1>2. v \in ImportWorkRow /\ v.at = "finish" /\ v.found = status /\ Same(v, w)
  BY <1>1 DEF ImportWorkRow, ImportPlaces, Registering, Same
<1>3. importWork' = [importWork EXCEPT ![p] = v]
  BY <1>1 DEF Finish
<1> HIDE DEF v
<1>4. Holds(v, importSource, blobs')
  BY <1>2 DEF Holds
<1>5. v.at \in Registering \ {"close"}
  BY <1>2 DEF Registering
<1> QED BY <1>1, <1>2, <1>3, <1>4, <1>5, SameSourceStands

LEMMA SizeIsNatural ==
    ASSUME FilesSound, NEW s \in ImportSources, file[s] \notin {"missing", "denied", "directory"}
    PROVE  FileSize(s) \in Nat /\ (FileSize(s) # 0 => FileSize(s) = SizeOf[file[s]])
  BY ImportShape DEF FilesSound, FileSize, Unreadable

LEMMA StatSound ==
    ASSUME ImportInv, NEW p \in ImportProcs, stat_source(p)
    PROVE  ImportInv'
<1> DEFINE s == Source(p)  row == importSource[s]  w == importWork[p]
<1>0. w.at \in Registering \ {"close"}
  BY DEF stat_source, Registering
<1>1. /\ w \in ImportWorkRow /\ s \in ImportSources /\ Rows(importSource) /\ row \in SourceRow /\ row.status # "absent"
      /\ importWork \in [ImportProcs -> ImportWorkRow] /\ blobs \subseteq Contents /\ delivered \subseteq Imports
  BY <1>0, AtSource DEF ImportInv, TypesSound
<1>2. UNCHANGED <<selection, importSource, importResult, importMark, importRevoked, file, blobs, delivered>>
  BY DEF stat_source, importRecords, importWorld
<1>3. CASE row.status = "cleaned"
  <2>1. Returns(p)
    BY <1>3 DEF stat_source
  <2> QED BY <1>1, <1>2, <2>1, ReturnStands
<1>4. CASE row.status \notin {"cleaned", "Prepared"}
  <2>1. BytesRead(importSource)[s] = IF row.status \in {"Ready", "SourceChanged"} THEN row.bytes ELSE 0
    BY <1>1, CountedIsNatural
  <2>2. NextSource(p, BytesRead(importSource)[s])
    BY <1>4, <2>1 DEF stat_source
  <2>3. Finished(row)
    BY <1>1, <1>4 DEF Finished
  <2> QED BY <1>0, <1>1, <1>2, <2>2, <2>3, NextStands
<1>5. CASE row.status = "Prepared"
  <2>1. CASE file[s] \in {"missing", "denied", "directory"}
    <3>1. \E status \in {"Missing", "PermissionDenied", "InvalidFile"} : Finish(p, status)
      BY <1>5, <2>1 DEF stat_source
    <3>2. PICK status \in {"Missing", "PermissionDenied", "InvalidFile"} : Finish(p, status)
      BY <3>1
    <3>3. status \in Statuses \ {"Prepared", "Ready", "SourceChanged"}
      BY DEF Statuses
    <3> QED BY <1>0, <1>2, <3>2, <3>3, FinishStands
  <2>2. CASE file[s] \notin {"missing", "denied", "directory"}
    <3>1. PICK place \in {"finish", "read"} :
             importWork' = [importWork EXCEPT ![p].size = FileSize(s), ![p].found = "TooLarge", ![p].at = place]
      BY <1>5, <2>2 DEF stat_source
    <3> DEFINE size == FileSize(s)  v == [w EXCEPT !.size = size, !.found = "TooLarge", !.at = place]
    <3>2. size \in Nat
      BY <1>1, <2>2, SizeIsNatural DEF ImportInv
    <3>3. importWork' = [importWork EXCEPT ![p] = v]
      BY <1>1, <3>1
    <3> HIDE DEF size
    <3>4. v \in ImportWorkRow /\ v.at = place /\ v.found = "TooLarge" /\ Same(v, w)
      BY <1>1, <3>2 DEF ImportWorkRow, ImportPlaces, Registering, Same, Statuses
    <3> HIDE DEF v
    <3>5. v.at \in Registering \ {"close"}
      BY <3>4 DEF Registering
    <3>6. v.at \in {"preflight", "publish", "finish"} => Holds(v, importSource, blobs')
      BY <3>4 DEF Holds, Statuses
    <3> QED BY <1>0, <1>1, <1>2, <3>3, <3>4, <3>5, <3>6, SameSourceStands
  <2> QED BY <2>1, <2>2
<1> QED BY <1>3, <1>4, <1>5


LEMMA ReadSound ==
    ASSUME ImportInv, NEW p \in ImportProcs, read_file_bounded(p)
    PROVE  ImportInv'
<1> DEFINE s == Source(p)  w == importWork[p]
<1>0. w.at \in Registering \ {"close"}
  BY DEF read_file_bounded, Registering
<1>1. /\ w \in ImportWorkRow /\ s \in ImportSources /\ s = SourcesOf[w.import][w.n]
      /\ importWork \in [ImportProcs -> ImportWorkRow] /\ blobs \subseteq Contents /\ delivered \subseteq Imports
  BY <1>0, AtSource DEF ImportInv, TypesSound
<1>2. UNCHANGED <<selection, importSource, importResult, importMark, importRevoked, file, blobs, delivered>>
  BY DEF read_file_bounded, importRecords, importWorld
<1>3. CASE file[s] \in {"missing", "directory", "denied"} \/ FileSize(s) > Remaining(p)
  <2>1. PICK status \in {"Missing", "PermissionDenied", "TooLarge"} : Finish(p, status)
    BY <1>3 DEF read_file_bounded
  <2>2. status \in Statuses \ {"Prepared", "Ready", "SourceChanged"}
    BY DEF Statuses
  <2> QED BY <1>0, <1>2, <2>1, <2>2, FinishStands
<1>4. CASE file[s] \notin {"missing", "directory", "denied"} /\ ~(FileSize(s) > Remaining(p))
  <2> DEFINE size == FileSize(s)
             ready == size # 0 /\ file[s] = ContentOf[s] /\ size = w.size
             found == IF size = 0 THEN "ZeroRecords" ELSE IF file[s] # ContentOf[s] \/ size # w.size THEN "SourceChanged" ELSE "Ready"
             place == IF ready THEN "preflight" ELSE "finish"
             v == [w EXCEPT !.size = size, !.found = found, !.at = place]
  <2>1. size \in Nat /\ (size # 0 => size = SizeOf[file[s]])
    BY <1>1, <1>4, SizeIsNatural DEF ImportInv
  <2>2. w.consumed + size <= ReadLimit
    <3>1. ReadLimit \in Nat /\ w.consumed \in Nat
      BY <1>1, ImportShape DEF ImportWorkRow
    <3> QED BY <1>4, <2>1, <3>1 DEF Remaining
  <2>3. importWork' = [importWork EXCEPT ![p] = v]
    BY <1>1, <1>4 DEF read_file_bounded
  <2>4. found \in Statuses \ {"Prepared"} /\ place \in {"preflight", "finish"}
    BY DEF Statuses
  <2>5. place = "preflight" => size = SizeOf[ContentOf[s]]
    BY <2>1
  <2>6. place = "finish" => found # "Ready"
    OBVIOUS
  <2> HIDE DEF size, found, place
  <2>7. v \in ImportWorkRow /\ v.at = place /\ v.found = found /\ v.size = size /\ Same(v, w)
    BY <1>1, <2>1, <2>4 DEF ImportWorkRow, ImportPlaces, Registering, Same
  <2> HIDE DEF v
  <2>8. v.at \in Registering \ {"close"}
    BY <2>4, <2>7 DEF Registering
  <2>9. v.at \in {"preflight", "publish", "finish"} => Holds(v, importSource, blobs')
    BY <1>1, <2>2, <2>4, <2>5, <2>6, <2>7 DEF Holds, Same
  <2> QED BY <1>0, <1>1, <1>2, <2>3, <2>7, <2>8, <2>9, SameSourceStands
<1> QED BY <1>3, <1>4

LEMMA PreflightSound ==
    ASSUME ImportInv, NEW p \in ImportProcs, preflight_registered_blob_publish(p)
    PROVE  ImportInv'
<1> DEFINE s == Source(p)  w == importWork[p]  here == ContentOf[s] \in blobs  v == [w EXCEPT !.at = "publish", !.seen = here]
<1>0. w.at = "preflight" /\ w.at \in Registering \ {"close"}
  BY DEF preflight_registered_blob_publish, Registering
<1>1. /\ w \in ImportWorkRow /\ s = SourcesOf[w.import][w.n]
      /\ importWork \in [ImportProcs -> ImportWorkRow] /\ blobs \subseteq Contents /\ delivered \subseteq Imports
      /\ ImportWorkSound(w, importSource, selection, blobs, importRevoked, importMark)
  BY <1>0, AtSource DEF ImportInv, TypesSound
<1>2. UNCHANGED <<selection, importSource, importResult, importMark, importRevoked, file, blobs, delivered>>
  BY DEF preflight_registered_blob_publish, importRecords, importWorld
<1>3. importWork' = [importWork EXCEPT ![p] = v]
  BY <1>1 DEF preflight_registered_blob_publish
<1>4. here \in BOOLEAN
  OBVIOUS
<1> HIDE DEF here
<1>5. v \in ImportWorkRow /\ v.at = "publish" /\ v.size = w.size /\ Same(v, w)
  BY <1>1, <1>4 DEF ImportWorkRow, ImportPlaces, Registering, Same
<1>6. Holds(w, importSource, blobs)
  BY <1>0, <1>1 DEF ImportWorkSound
<1> HIDE DEF v
<1>7. Holds(v, importSource, blobs')
  BY <1>0, <1>5, <1>6 DEF Holds, Same
<1>8. v.at \in Registering \ {"close"}
  BY <1>5 DEF Registering
<1> QED BY <1>0, <1>1, <1>2, <1>3, <1>5, <1>7, <1>8, SameSourceStands

LEMMA PublishSound ==
    ASSUME ImportInv, NEW p \in ImportProcs, publish_preflighted_registered_blob(p)
    PROVE  ImportInv'
<1> DEFINE s == Source(p)  w == importWork[p]  c == ContentOf[s]
<1>0. w.at = "publish" /\ w.at \in Registering \ {"close"}
  BY DEF publish_preflighted_registered_blob, Registering
<1>1. /\ w \in ImportWorkRow /\ s = SourcesOf[w.import][w.n] /\ s \in ImportSources /\ Rows(importSource)
      /\ importWork \in [ImportProcs -> ImportWorkRow] /\ blobs \subseteq Contents /\ delivered \subseteq Imports
      /\ ImportWorkSound(w, importSource, selection, blobs, importRevoked, importMark)
  BY <1>0, AtSource DEF ImportInv, TypesSound
<1>2. UNCHANGED <<selection, importSource, importResult, importMark, importRevoked, file, delivered>>
  BY DEF publish_preflighted_registered_blob, importWorld
<1>3. Holds(w, importSource, blobs)
  BY <1>0, <1>1 DEF ImportWorkSound
<1>4. w.size = SizeOf[c] /\ w.consumed + w.size <= ReadLimit
  BY <1>0, <1>1, <1>3 DEF Holds
<1>5. CASE Converges(p) /\ UNCHANGED blobs
  <2>1. CASE importSource[s].status = "Ready"
    <3>1. NextSource(p, w.size)
      BY <1>5, <2>1 DEF Converges
    <3>2. importSource[s].bytes = SizeOf[c]
      BY <1>1, <2>1 DEF ImportInv, StoredSound, SourcesSound
    <3>3. w.size = BytesRead(importSource)[s]
      BY <1>1, <1>4, <2>1, <3>2, CountedIsNatural
    <3>4. Finished(importSource[s])
      BY <2>1 DEF Finished
    <3> QED BY <1>0, <1>1, <1>2, <1>5, <3>1, <3>3, <3>4, NextStands
  <2>2. CASE importSource[s].status # "Ready"
    <3>1. Returns(p)
      BY <1>5, <2>2 DEF Converges
    <3> QED BY <1>1, <1>2, <1>5, <3>1, ReturnStands
  <2> QED BY <2>1, <2>2
<1>6. CASE importWork' = [importWork EXCEPT ![p].at = "preflight", ![p].retried = TRUE] /\ UNCHANGED blobs
  <2> DEFINE v == [w EXCEPT !.at = "preflight", !.retried = TRUE]
  <2>1. importWork' = [importWork EXCEPT ![p] = v]
    BY <1>1, <1>6
  <2>2. v \in ImportWorkRow /\ v.at = "preflight" /\ v.size = w.size /\ Same(v, w)
    BY <1>1 DEF ImportWorkRow, ImportPlaces, Registering, Same
  <2> HIDE DEF v
  <2>3. Holds(v, importSource, blobs')
    BY <1>0, <2>2, <1>3 DEF Holds, Same
  <2>4. v.at \in Registering \ {"close"}
    BY <2>2 DEF Registering
  <2> QED BY <1>0, <1>1, <1>2, <1>6, <2>1, <2>2, <2>3, <2>4, SameSourceStands
<1>7. CASE blobs' = blobs \cup {c} /\ Finish(p, "Ready")
  <2> DEFINE v == [w EXCEPT !.at = "finish", !.found = "Ready"]
  <2>1. importWork' = [importWork EXCEPT ![p] = v]
    BY <1>1, <1>7 DEF Finish
  <2>2. v \in ImportWorkRow /\ v.at = "finish" /\ v.found = "Ready" /\ v.size = w.size /\ Same(v, w)
    BY <1>1 DEF ImportWorkRow, ImportPlaces, Registering, Same, Statuses
  <2>3. blobs \subseteq blobs' /\ blobs' \subseteq Contents /\ c \in blobs'
    BY <1>1, <1>7 DEF Contents
  <2> HIDE DEF v
  <2>4. Holds(v, importSource, blobs')
    BY <1>1, <1>4, <2>2, <2>3 DEF Holds, Same, Statuses
  <2>5. v.at \in Registering \ {"close"}
    BY <2>2 DEF Registering
  <2> QED BY <1>0, <1>1, <1>2, <2>1, <2>2, <2>3, <2>4, <2>5, SameSourceStands
<1> QED BY <1>5, <1>6, <1>7 DEF publish_preflighted_registered_blob


LEMMA BeginStands ==
    ASSUME ImportInv, NEW p \in ImportProcs, NEW i \in Imports, execute(p, i) \/ read_material(p, i)
    PROVE  ImportInv'
<1>1. PICK place \in {"blobs", "material"} : /\ importWork' = [importWork EXCEPT ![p] = [ImportIdle EXCEPT !.at = place, !.import = i]]
                                           /\ LiveSelection(i)
  BY DEF execute, read_material, Snapshot
<1>2. UNCHANGED <<selection, importSource, importResult, importMark, importRevoked, file, blobs, delivered>>
  BY DEF execute, read_material, importRecords, importWorld
<1> DEFINE v == [ImportIdle EXCEPT !.at = place, !.import = i]
<1>3. v \in ImportWorkRow /\ ImportWorkSound(v, importSource, selection, blobs, importRevoked, importMark)
  BY <1>1, BeginSound DEF LiveSelection
<1>4. blobs \subseteq Contents /\ delivered \subseteq Imports
  BY DEF ImportInv, TypesSound
<1>5. importWork' = [importWork EXCEPT ![p] = v]
  BY <1>1
<1> HIDE DEF v
<1> QED BY <1>2, <1>3, <1>4, <1>5, StepStands

LEMMA ReadSourcesSound ==
    ASSUME ImportInv, NEW p \in ImportProcs, read_sources(p)
    PROVE  ImportInv'
<1> DEFINE w == importWork[p]  i == w.import
<1>1. /\ w \in ImportWorkRow /\ ImportWorkSound(w, importSource, selection, blobs, importRevoked, importMark)
      /\ importWork \in [ImportProcs -> ImportWorkRow] /\ blobs \subseteq Contents /\ delivered \subseteq Imports
  BY DEF ImportInv, TypesSound, ProcessesSound
<1>2. UNCHANGED <<selection, importSource, importResult, importMark, importRevoked, file, blobs, delivered>>
  BY DEF read_sources, importRecords, importWorld
<1>3. CASE Returns(p)
  BY <1>1, <1>2, <1>3, ReturnStands
<1>4. CASE importWork' = [importWork EXCEPT ![p].at = "store", ![p].found = ReadySources(i)]
  <2> DEFINE ready == ReadySources(i)  v == [w EXCEPT !.at = "store", !.found = ready]
  <2>1. w.at = "blobs" /\ i \in Imports /\ w.consumed <= ReadLimit /\ Executes(w, importSource, selection[i], importRevoked)
    BY <1>1 DEF read_sources, ImportWorkSound
  <2>2. ready = ReadyOf(importSource, i) /\ ready \subseteq Sources(i)
    BY DEF ReadySources, ReadyOf
  <2>3. ready \subseteq ImportSources
    BY <2>1, <2>2, SourcesShape
  <2>4. importWork' = [importWork EXCEPT ![p] = v]
    BY <1>1, <1>4
  <2> HIDE DEF ready
  <2>5. v \in ImportWorkRow /\ v.at = "store" /\ v.found = ready /\ v.import = i /\ v.consumed = w.consumed
    BY <1>1, <2>3 DEF ImportWorkRow, ImportPlaces
  <2> HIDE DEF v
  <2>6. Executes(v, importSource, selection[i], importRevoked)
    BY <2>1, <2>2, <2>5 DEF Executes
  <2>7. ImportWorkSound(v, importSource, selection, blobs, importRevoked, importMark)
    BY <2>1, <2>5, <2>6 DEF ImportWorkSound, Registering
  <2> QED BY <1>1, <1>2, <2>4, <2>5, <2>7, StepStands
<1> QED BY <1>3, <1>4 DEF read_sources

LEMMA ReconstructSound ==
    ASSUME ImportInv, NEW p \in ImportProcs, reconstruct_local_import(p)
    PROVE  ImportInv'
<1> DEFINE w == importWork[p]  v == [w EXCEPT !.at = "boundary"]
<1>1. /\ w \in ImportWorkRow /\ ImportWorkSound(w, importSource, selection, blobs, importRevoked, importMark)
      /\ importWork \in [ImportProcs -> ImportWorkRow] /\ blobs \subseteq Contents /\ delivered \subseteq Imports
  BY DEF ImportInv, TypesSound, ProcessesSound
<1>2. UNCHANGED <<selection, importSource, importResult, importMark, importRevoked, file, blobs, delivered>>
  BY DEF reconstruct_local_import, importRecords, importWorld
<1>3. CASE Returns(p)
  BY <1>1, <1>2, <1>3, ReturnStands
<1>4. CASE importWork' = [importWork EXCEPT ![p].at = "boundary"]
  <2>1. w.at = "material" /\ w.import \in Imports /\ w.consumed <= ReadLimit
    BY <1>1 DEF reconstruct_local_import, ImportWorkSound
  <2>2. importWork' = [importWork EXCEPT ![p] = v]
    BY <1>1, <1>4
  <2>3. v \in ImportWorkRow /\ v.at = "boundary" /\ v.import = w.import /\ v.consumed = w.consumed
    BY <1>1 DEF ImportWorkRow, ImportPlaces
  <2> HIDE DEF v
  <2>4. ImportWorkSound(v, importSource, selection, blobs, importRevoked, importMark)
    BY <2>1, <2>3 DEF ImportWorkSound, Registering
  <2> QED BY <1>1, <1>2, <2>2, <2>3, <2>4, StepStands
<1> QED BY <1>3, <1>4 DEF reconstruct_local_import

LEMMA DeliverSound ==
    ASSUME ImportInv, NEW p \in ImportProcs, read_local_material_at_boundary(p)
    PROVE  ImportInv'
<1> DEFINE w == importWork[p]
<1>1. w.import \in Imports /\ blobs \subseteq Contents /\ delivered \subseteq Imports
  BY DEF ImportInv, TypesSound, ProcessesSound, ImportWorkSound, read_local_material_at_boundary
<1>2. Returns(p) /\ UNCHANGED <<selection, importSource, importResult, importMark, importRevoked, file, blobs>>
  BY DEF read_local_material_at_boundary, importWorld
<1>3. delivered' \subseteq Imports
  BY <1>1 DEF read_local_material_at_boundary
<1> QED BY <1>1, <1>2, <1>3, ReturnStands

LEMMA CrashSound ==
    ASSUME ImportInv, NEW p \in ImportProcs, import_crash(p)
    PROVE  ImportInv'
<1>1. Returns(p) /\ UNCHANGED <<selection, importSource, importResult, importMark, importRevoked, file, delivered>>
  BY DEF import_crash
<1>2. blobs \subseteq Contents /\ delivered \subseteq Imports
  BY DEF ImportInv, TypesSound
<1>3. blobs \subseteq blobs' /\ blobs' \subseteq Contents
  <2>1. CASE importWork[p].at = "publish"
    <3>1. Source(p) \in ImportSources
      BY <2>1, AtSource DEF Registering
    <3> QED BY <1>2, <3>1 DEF import_crash, Contents
  <2>2. CASE importWork[p].at # "publish"
    BY <1>2, <2>2 DEF import_crash
  <2> QED BY <2>1, <2>2
<1> QED BY <1>1, <1>2, <1>3, ReturnStands

LEMMA FileChangeSound ==
    ASSUME ImportInv, NEW s \in ImportSources, NEW c \in Contents \cup Unreadable \cup {"foreign"}, file_changes(s, c)
    PROVE  ImportInv'
<1>1. UNCHANGED <<selection, importSource, importResult, importMark, importRevoked, blobs, delivered, importWork>>
  BY DEF file_changes, importRecords
<1>2. FilesSound'
  BY DEF ImportInv, FilesSound, file_changes
<1>3. TypesSound'
  BY <1>1 DEF ImportInv, TypesSound
<1>4. StoredSound'
  BY <1>1 DEF ImportInv, StoredSound, EventsUsed
<1>5. ProcessesSound'
  BY <1>1 DEF ImportInv, ProcessesSound
<1> QED BY <1>2, <1>3, <1>4, <1>5 DEF ImportInv


-----------------------------------------------------------------------------
(* Steps that change a registration.                                       *)

Later(r, after) ==
    /\ after.mark = r.mark
    /\ r.state # "absent" => after.state # "absent"
    /\ r.state \in {"registered", "cleaned"} => after.state \in {"registered", "cleaned"}

LEMMA SelectionMoves ==
    ASSUME NEW w, NEW rows, NEW sel, NEW after, NEW bl, NEW rev, NEW mark, \A j \in Imports : Later(sel[j], after[j]),
           ImportWorkSound(w, rows, sel, bl, rev, mark)
    PROVE  ImportWorkSound(w, rows, after, bl, rev, mark)
<1>1. w.at # "idle" => w.import \in Imports
  BY DEF ImportWorkSound
<1>2. ASSUME w.at \in Registering PROVE Registers(w, rows, after[w.import], mark)
  <2>1. Registers(w, rows, sel[w.import], mark) /\ Later(sel[w.import], after[w.import])
    BY <1>1, <1>2 DEF ImportWorkSound, Registering
  <2> QED BY <2>1 DEF Registers, Later
<1>3. ASSUME w.at \in {"blobs", "store"} PROVE Executes(w, rows, after[w.import], rev)
  <2>1. Executes(w, rows, sel[w.import], rev) /\ Later(sel[w.import], after[w.import])
    BY <1>1, <1>3 DEF ImportWorkSound
  <2> QED BY <2>1 DEF Executes, Later
<1> QED BY <1>2, <1>3 DEF ImportWorkSound

LEMMA CloseSound ==
    ASSUME ImportInv, NEW p \in ImportProcs, close_registration(p)
    PROVE  ImportInv'
<1> DEFINE w == importWork[p]  i == w.import  L == Len(SourcesOf[i])
<1>1. /\ w.at = "close" /\ i \in Imports /\ Registers(w, importSource, selection[i], importMark)
      /\ w \in ImportWorkRow
  BY DEF ImportInv, ProcessesSound, ImportWorkSound, close_registration, Registering, TypesSound
<1>2. UNCHANGED <<importSource, importResult, importMark, importRevoked, file, blobs, delivered>> /\ Returns(p)
  BY DEF close_registration, importWorld
<1>3. blobs \subseteq Contents /\ delivered \subseteq Imports /\ selection \in [Imports -> SelectionRow]
  BY DEF ImportInv, TypesSound
<1>4. CASE ~(selection[i].state = "prepared" /\ selection[i].mark = importMark)
  <2>1. selection' = selection
    BY <1>1, <1>3, <1>4 DEF close_registration, SelectionRow
  <2> QED BY <1>2, <1>3, <2>1, ReturnStands
<1>5. CASE selection[i].state = "prepared" /\ selection[i].mark = importMark
  <2> DEFINE r == [selection[i] EXCEPT !.state = "registered"]
  <2>1. selection' = [selection EXCEPT ![i] = r]
    BY <1>3, <1>5 DEF close_registration
  <2>2. r \in SelectionRow /\ r.state = "registered" /\ r.mark = selection[i].mark
    BY <1>1, <1>3 DEF SelectionRow
  <2> HIDE DEF r
  <2>3. Later(selection[i], r)
    BY <2>2 DEF Later
  <2>4. /\ selection'[i] = r /\ \A j \in Imports : j # i => selection'[j] = selection[j]
        /\ selection' \in [Imports -> SelectionRow]
    BY <1>1, <1>3, <2>1, <2>2
  <2>5. \A j \in Imports : Later(selection[j], selection'[j])
    <3>1. \A j \in Imports : Later(selection[j], selection[j])
      BY DEF Later
    <3> QED BY <2>3, <2>4, <3>1
  <2>6. \A s \in Sources(i) : Finished(importSource[s])
    <3>1. w.n = L + 1 /\ \A m \in 1..(w.n - 1) : Finished(importSource[SourcesOf[i][m]])
      BY <1>1, <1>5 DEF Registers
    <3>2. L \in Nat
      BY <1>1, SourcesShape
    <3>3. ASSUME NEW s \in Sources(i) PROVE Finished(importSource[s])
      <4>1. PICK k \in 1..L : SourcesOf[i][k] = s
        BY <1>1, SourceIndex
      <4> QED BY <3>1, <3>2, <4>1
    <3> QED BY <3>3
  <2>7. Whole(i, importSource, r, importRevoked, importMark)
    <3>1. Whole(i, importSource, selection[i], importRevoked, importMark)
      BY <1>1 DEF ImportInv, StoredSound
    <3> QED BY <1>5, <2>2, <2>6, <3>1 DEF Whole
  <2>8. Derived(i, importSource, r, importResult[i], importRevoked)
    <3>1. Derived(i, importSource, selection[i], importResult[i], importRevoked)
      BY <1>1 DEF ImportInv, StoredSound
    <3> QED BY <2>2, <3>1 DEF Derived
  <2>9. StoredSound'
    <3>1. \A j \in Imports : /\ Whole(j, importSource', selection'[j], importRevoked', importMark')
                            /\ Derived(j, importSource', selection'[j], importResult'[j], importRevoked')
      BY <1>2, <2>4, <2>7, <2>8 DEF ImportInv, StoredSound
    <3>2. EventsUsed' <= EventLimit /\ SourcesSound(importSource', blobs')
      BY <1>2 DEF ImportInv, StoredSound, EventsUsed
    <3> QED BY <3>1, <3>2 DEF StoredSound
  <2>10. ImportIdle \in ImportWorkRow
    BY IdleSound
  <2>11. TypesSound' /\ FilesSound'
    BY <1>2, <2>4, <2>10 DEF ImportInv, TypesSound, FilesSound, Returns
  <2>12. ASSUME NEW q \in ImportProcs
         PROVE  ImportWorkSound(importWork'[q], importSource', selection', blobs', importRevoked', importMark')
    <3>1. importWork'[q] = ImportIdle \/ importWork'[q] = importWork[q]
      BY <1>2 DEF ImportInv, TypesSound, Returns
    <3>2. ImportWorkSound(importWork[q], importSource, selection, blobs, importRevoked, importMark)
      BY DEF ImportInv, ProcessesSound
    <3>3. ImportWorkSound(importWork[q], importSource, selection', blobs, importRevoked, importMark)
      BY <2>5, <3>2, SelectionMoves
    <3> QED BY <1>2, <3>1, <3>3, IdleSound
  <2> QED BY <2>9, <2>11, <2>12 DEF ImportInv, ProcessesSound
<1> QED BY <1>4, <1>5

LEMMA StoreSound ==
    ASSUME ImportInv, NEW p \in ImportProcs, store_result(p)
    PROVE  ImportInv'
<1> DEFINE w == importWork[p]  i == w.import  res == import_result_payload_v2(i, w.found)
<1>1. w.at = "store" /\ i \in Imports /\ Executes(w, importSource, selection[i], importRevoked)
  BY DEF ImportInv, ProcessesSound, ImportWorkSound, store_result
<1>2. UNCHANGED <<selection, importSource, importMark, importRevoked, file, blobs, delivered>> /\ Returns(p)
  BY DEF store_result, importWorld
<1>3. blobs \subseteq Contents /\ delivered \subseteq Imports /\ importResult \in [Imports -> ResultRow]
  BY DEF ImportInv, TypesSound
<1>4. CASE importResult' = importResult
  BY <1>2, <1>3, <1>4, ReturnStands
<1>5. CASE /\ LiveSelection(i) /\ importResult[i].state = "absent" /\ BelowEventCapacity(res.events)
           /\ importResult' = [importResult EXCEPT ![i] = res]
  <2>1. /\ w.found \subseteq Sources(i) /\ \A s \in Sources(i) : s \notin importRevoked
        /\ w.found = ReadyOf(importSource, i) /\ selection[i].state = "registered"
    BY <1>1, <1>5 DEF Executes, LiveSelection
  <2>2. res.events \in Nat
    <3>1. IsFiniteSet(w.found) /\ w.found \subseteq ImportSources
      BY <1>1, <2>1, SourcesShape, FS_Subset
    <3> DEFINE f == [s \in ImportSources |-> EventsOf[ContentOf[s]]]
    <3>2. \A s \in w.found : f[s] \in Nat
      BY <3>1, ImportShape DEF Contents
    <3>3. res.events = SumFunctionOnSet(f, w.found)
      BY DEF import_result_payload_v2
    <3> HIDE DEF f
    <3> QED BY <3>1, <3>2, <3>3, SumIsNatural
  <2>3. /\ res.state \in {"Complete", "Partial", "Failed"}
        /\ res.state = "Failed" <=> w.found = {}
        /\ res.state = "Complete" <=> w.found = Sources(i)
    <3>1. res.state = IF w.found = {} THEN "Failed" ELSE IF w.found = Sources(i) THEN "Complete" ELSE "Partial"
      BY DEF import_result_payload_v2
    <3>2. Sources(i) # {}
      BY <1>1, SourcesShape
    <3> HIDE DEF res
    <3> QED BY <3>1, <3>2
  <2>4. res \in ResultRow
    <3>1. res = [state |-> res.state, events |-> res.events]
      BY DEF import_result_payload_v2
    <3> HIDE DEF res
    <3> QED BY <2>2, <2>3, <3>1 DEF ResultRow
  <2> HIDE DEF res
  <2>5. /\ importResult'[i] = res /\ \A j \in Imports : j # i => importResult'[j] = importResult[j]
        /\ importResult' \in [Imports -> ResultRow]
    BY <1>1, <1>3, <1>5, <2>4
  <2>6. Derived(i, importSource, selection[i], res, importRevoked)
    BY <2>1, <2>3 DEF Derived
  <2>7. EventsUsed' <= EventLimit
    <3> DEFINE f == [j \in Imports |-> importResult'[j].events]  e == [j \in Imports |-> importResult[j].events]
    <3>1. \A j \in Imports : f[j] \in Nat /\ e[j] \in Nat
      BY <1>3, <2>5 DEF ResultRow
    <3>2. \A j \in Imports : j # i => f[j] = e[j]
      BY <2>5
    <3>3. f[i] = res.events /\ e[i] = 0
      <4>1. Derived(i, importSource, selection[i], importResult[i], importRevoked)
        BY <1>1 DEF ImportInv, StoredSound
      <4> QED BY <1>1, <1>5, <2>5, <4>1 DEF Derived
    <3>4. EventsUsed' = SumFunctionOnSet(f, Imports) /\ EventsUsed = SumFunctionOnSet(e, Imports) /\ IsFiniteSet(Imports)
      BY ImportShape DEF EventsUsed
    <3> HIDE DEF f, e
    <3>5. SumFunctionOnSet(f, Imports) + e[i] = SumFunctionOnSet(e, Imports) + f[i]
      BY <1>1, <3>1, <3>2, <3>4, SumChanges
    <3>6. SumFunctionOnSet(f, Imports) \in Nat /\ SumFunctionOnSet(e, Imports) \in Nat
      BY <3>1, <3>4, SumIsNatural
    <3>7. EventsUsed' = EventsUsed + res.events
      BY <3>3, <3>4, <3>5, <3>6
    <3> QED BY <1>5, <3>7 DEF BelowEventCapacity
  <2>8. StoredSound'
    <3>1. \A j \in Imports : /\ Whole(j, importSource', selection'[j], importRevoked', importMark')
                            /\ Derived(j, importSource', selection'[j], importResult'[j], importRevoked')
      BY <1>2, <2>5, <2>6 DEF ImportInv, StoredSound
    <3>2. SourcesSound(importSource', blobs')
      BY <1>2 DEF ImportInv, StoredSound
    <3> QED BY <2>7, <3>1, <3>2 DEF StoredSound
  <2>9. ImportIdle \in ImportWorkRow
    BY IdleSound
  <2>10. TypesSound' /\ FilesSound'
    BY <1>2, <2>5, <2>9 DEF ImportInv, TypesSound, FilesSound, Returns
  <2>11. ASSUME NEW q \in ImportProcs
         PROVE  ImportWorkSound(importWork'[q], importSource', selection', blobs', importRevoked', importMark')
    <3>1. importWork'[q] = ImportIdle \/ importWork'[q] = importWork[q]
      BY <1>2 DEF ImportInv, TypesSound, Returns
    <3>2. ImportWorkSound(importWork[q], importSource, selection, blobs, importRevoked, importMark)
      BY DEF ImportInv, ProcessesSound
    <3> QED BY <1>2, <3>1, <3>2, IdleSound
  <2> QED BY <2>8, <2>10, <2>11 DEF ImportInv, ProcessesSound
<1> QED BY <1>4, <1>5 DEF store_result

\* A revocation: the watermark has moved past every registration.
LEMMA RevokeSound ==
    ASSUME ImportInv, NEW s \in ImportSources \cup {None}, import_revoke(s)
    PROVE  ImportInv'
<1>1. UNCHANGED <<selection, importSource, importResult, file, blobs, delivered, importWork>>
  BY DEF import_revoke, importRecords
<1>2. /\ importMark \in Nat /\ importMark' = importMark + 1 /\ importRevoked \subseteq importRevoked'
      /\ importRevoked' \subseteq ImportSources /\ \A t \in importRevoked' : t \in importRevoked \/ importSource[t].status # "absent"
  BY DEF ImportInv, TypesSound, import_revoke
<1>3. \A i \in Imports : selection[i].mark \in Nat /\ selection[i].mark <= importMark
  BY DEF ImportInv, StoredSound, Whole, TypesSound, SelectionRow
<1>4. \A i \in Imports : selection[i].mark # importMark' /\ selection[i].mark <= importMark'
  BY <1>2, <1>3
<1>5. TypesSound' /\ FilesSound'
  BY <1>1, <1>2 DEF ImportInv, TypesSound, FilesSound
<1>6. ASSUME NEW i \in Imports
      PROVE  /\ Whole(i, importSource, selection[i], importRevoked', importMark')
             /\ Derived(i, importSource, selection[i], importResult[i], importRevoked')
  <2>1. /\ Whole(i, importSource, selection[i], importRevoked, importMark)
        /\ Derived(i, importSource, selection[i], importResult[i], importRevoked)
    BY DEF ImportInv, StoredSound
  <2>2. Whole(i, importSource, selection[i], importRevoked', importMark')
    <3>1. \A t \in Sources(i) : t \in importRevoked' => selection[i].state # "absent" /\ selection[i].mark # importMark'
      BY <1>2, <1>4, <2>1 DEF Whole
    <3> QED BY <1>2, <1>4, <2>1, <3>1 DEF Whole
  <2>3. Derived(i, importSource, selection[i], importResult[i], importRevoked')
    BY <1>2, <2>1 DEF Derived
  <2> QED BY <2>2, <2>3
<1>7. StoredSound'
  <2>1. EventsUsed' <= EventLimit /\ SourcesSound(importSource', blobs')
    BY <1>1 DEF ImportInv, StoredSound, EventsUsed
  <2> QED BY <1>1, <1>6, <2>1 DEF StoredSound
<1>8. ASSUME NEW q \in ImportProcs
      PROVE  ImportWorkSound(importWork[q], importSource, selection, blobs, importRevoked', importMark')
  <2> DEFINE w == importWork[q]
  <2>1. ImportWorkSound(w, importSource, selection, blobs, importRevoked, importMark)
    BY DEF ImportInv, ProcessesSound
  <2>2. ASSUME w.at \in Registering PROVE Registers(w, importSource, selection[w.import], importMark')
    <3>1. Registers(w, importSource, selection[w.import], importMark) /\ w.import \in Imports
      BY <2>1, <2>2 DEF ImportWorkSound, Registering
    <3> QED BY <1>4, <3>1 DEF Registers
  <2>3. ASSUME w.at \in {"blobs", "store"} PROVE Executes(w, importSource, selection[w.import], importRevoked')
    <3>1. Executes(w, importSource, selection[w.import], importRevoked)
      BY <2>1, <2>3 DEF ImportWorkSound
    <3> QED BY <1>2, <3>1 DEF Executes
  <2> QED BY <2>1, <2>2, <2>3 DEF ImportWorkSound
<1> QED BY <1>1, <1>5, <1>7, <1>8 DEF ImportInv, ProcessesSound

\* Blobs of sources that are prepared or ready are kept.
Kept(bl, more, rows) ==
    \A s \in ImportSources : rows[s].status \in {"Prepared", "Ready"} /\ ContentOf[s] \in bl => ContentOf[s] \in more

\* A process that works on another registration than the one that changed.
LEMMA OtherStands ==
    ASSUME NEW w \in ImportWorkRow, NEW rows, Rows(rows), NEW t, Rows(t), NEW sel, NEW after, NEW bl, NEW more, NEW rev, NEW mark,
           w.at \in Registering \cup {"blobs", "store"} =>
              after[w.import] = sel[w.import] /\ \A s \in Sources(w.import) : t[s] = rows[s],
           Kept(bl, more, t), ImportWorkSound(w, rows, sel, bl, rev, mark)
    PROVE  ImportWorkSound(w, t, after, more, rev, mark)
<1> DEFINE i == w.import
<1>1. w.at # "idle" => i \in Imports
  BY DEF ImportWorkSound
<1>2. ASSUME w.at \in Registering PROVE Registers(w, t, after[i], mark)
  <2>1. Registers(w, rows, sel[i], mark) /\ i \in Imports /\ after[i] = sel[i] /\ \A s \in Sources(i) : t[s] = rows[s]
    BY <1>1, <1>2 DEF ImportWorkSound, Registering
  <2>2. Total(t, i) = Total(rows, i) /\ Ahead(t, i, w.n) = Ahead(rows, i, w.n)
    BY <2>1, SumsOfOthers
  <2>3. \A m \in 1..(w.n - 1) : t[SourcesOf[i][m]] = rows[SourcesOf[i][m]]
    <3>1. Len(SourcesOf[i]) \in Nat /\ \A m \in 1..Len(SourcesOf[i]) : SourcesOf[i][m] \in Sources(i)
      BY <2>1, SourcesShape
    <3>2. w.n \in 1..(Len(SourcesOf[i]) + 1)
      BY <2>1 DEF Registers
    <3> QED BY <2>1, <3>1, <3>2
  <2> QED BY <2>1, <2>2, <2>3 DEF Registers
<1>3. ASSUME w.at \in {"preflight", "publish", "finish"} PROVE Holds(w, t, more)
  <2> DEFINE s == SourcesOf[i][w.n]
  <2>1. Holds(w, rows, bl) /\ Registers(w, rows, sel[i], mark) /\ i \in Imports
    BY <1>1, <1>3 DEF ImportWorkSound, Registering
  <2>2. Len(SourcesOf[i]) \in Nat
    BY <2>1, SourcesShape
  <2>3. w.n \in 1..Len(SourcesOf[i])
    BY <1>3, <2>1, <2>2 DEF Registers
  <2>4. s \in Sources(i) /\ s \in ImportSources
    BY <2>1, <2>3, SourcesShape
  <2>5. t[s] = rows[s]
    BY <1>3, <2>4 DEF Registering
  <2>6. rows[s].status \in {"Prepared", "Ready"} /\ ContentOf[s] \in bl => ContentOf[s] \in more
    BY <2>4, <2>5 DEF Kept
  <2> QED BY <2>1, <2>5, <2>6 DEF Holds
<1>4. ASSUME w.at \in {"blobs", "store"} PROVE Executes(w, t, after[i], rev)
  <2>1. Executes(w, rows, sel[i], rev) /\ after[i] = sel[i] /\ \A s \in Sources(i) : t[s] = rows[s]
    BY <1>4 DEF ImportWorkSound
  <2>2. ReadyOf(t, i) = ReadyOf(rows, i)
    BY <2>1 DEF ReadyOf
  <2> QED BY <2>1, <2>2 DEF Executes
<1> QED BY <1>2, <1>3, <1>4 DEF ImportWorkSound

\* The records of another registration.
LEMMA OthersStand ==
    ASSUME NEW rows, Rows(rows), NEW t, Rows(t), NEW i \in Imports, \A s \in Sources(i) : t[s] = rows[s],
           NEW r, NEW res, NEW rev, NEW mark, Whole(i, rows, r, rev, mark), Derived(i, rows, r, res, rev)
    PROVE  Whole(i, t, r, rev, mark) /\ Derived(i, t, r, res, rev)
<1>1. Total(t, i) = Total(rows, i)
  BY SumsOfOthers
<1>2. ReadyOf(t, i) = ReadyOf(rows, i)
  BY DEF ReadyOf
<1>3. \A m \in DOMAIN SourcesOf[i] : t[SourcesOf[i][m]] = rows[SourcesOf[i][m]]
  BY SourcesShape
<1>4. Whole(i, t, r, rev, mark)
  BY <1>1, <1>3 DEF Whole
<1>5. Derived(i, t, r, res, rev)
  BY <1>2 DEF Derived
<1> QED BY <1>4, <1>5

\* A process that takes up a registration from its first source.
LEMMA TakeUpSound ==
    ASSUME NEW rows, Rows(rows), NEW sel, NEW bl, NEW rev, NEW mark, NEW i \in Imports,
           Whole(i, rows, sel[i], rev, mark), sel[i].state # "absent"
    PROVE  /\ [ImportIdle EXCEPT !.at = "source", !.import = i] \in ImportWorkRow
           /\ ImportWorkSound([ImportIdle EXCEPT !.at = "source", !.import = i], rows, sel, bl, rev, mark)
<1> DEFINE v == [ImportIdle EXCEPT !.at = "source", !.import = i]
<1>1. v \in ImportWorkRow /\ v.at = "source" /\ v.import = i /\ v.consumed = 0 /\ v.n = 1
  <2>1. ImportIdle \in ImportWorkRow /\ ImportIdle.consumed = 0 /\ ImportIdle.n = 1
    BY IdleSound DEF ImportIdle
  <2> QED BY <2>1 DEF ImportWorkRow, ImportPlaces, Registering
<1>2. ReadLimit \in Nat /\ Len(SourcesOf[i]) \in Nat \ {0}
  BY ImportShape, SourcesShape
<1>3. Ahead(rows, i, 1) = Total(rows, i) /\ Total(rows, i) \in Nat
  BY AheadAtFirst, SumsAreNatural
<1>4. Total(rows, i) <= ReadLimit
  BY DEF Whole
<1> HIDE DEF v
<1>5. v.consumed + Ahead(rows, i, v.n) = Total(rows, i)
  BY <1>1, <1>3
<1>6. v.n \in 1..(Len(SourcesOf[i]) + 1) /\ v.n # Len(SourcesOf[i]) + 1 /\ 1..(v.n - 1) = {}
  BY <1>1, <1>2
<1>7. Registers(v, rows, sel[v.import], mark)
  BY <1>1, <1>4, <1>5, <1>6 DEF Registers
<1>8. ImportWorkSound(v, rows, sel, bl, rev, mark)
  BY <1>1, <1>2, <1>7 DEF ImportWorkSound
<1> QED BY <1>1, <1>8 DEF v

LEMMA RegisterSound ==
    ASSUME ImportInv, NEW p \in ImportProcs, NEW i \in Imports, register(p, i)
    PROVE  ImportInv'
<1> DEFINE v == [ImportIdle EXCEPT !.at = "source", !.import = i]
<1>1. UNCHANGED <<importResult, importMark, importRevoked, file, blobs, delivered>> /\ importWork' = [importWork EXCEPT ![p] = v]
  BY DEF register, importWorld
<1>2. /\ blobs \subseteq Contents /\ delivered \subseteq Imports /\ Rows(importSource) /\ selection \in [Imports -> SelectionRow]
      /\ importWork \in [ImportProcs -> ImportWorkRow] /\ importMark \in Nat
  BY DEF ImportInv, TypesSound, Rows
<1>3. \A j \in Imports : /\ Whole(j, importSource, selection[j], importRevoked, importMark)
                        /\ Derived(j, importSource, selection[j], importResult[j], importRevoked)
  BY DEF ImportInv, StoredSound
<1>4. CASE selection[i] = [state |-> "prepared", mark |-> importMark] /\ UNCHANGED <<selection, importSource>>
  <2>1. v \in ImportWorkRow /\ ImportWorkSound(v, importSource, selection, blobs, importRevoked, importMark)
    <3>1. selection[i].state # "absent"
      BY <1>4
    <3> QED BY <1>2, <1>3, <3>1, TakeUpSound
  <2> HIDE DEF v
  <2> QED BY <1>1, <1>2, <1>4, <2>1, StepStands
<1>5. CASE /\ selection[i].state = "absent" /\ Sources(i) \cap importRevoked = {}
           /\ selection' = [selection EXCEPT ![i] = [state |-> "prepared", mark |-> importMark]]
           /\ importSource' = [s \in ImportSources |-> IF s \in Sources(i) THEN [status |-> "Prepared", bytes |-> 0] ELSE importSource[s]]
  <2> DEFINE r == [state |-> "prepared", mark |-> importMark]
  <2>1. r \in SelectionRow /\ r.state = "prepared" /\ r.mark = importMark
    BY <1>2 DEF SelectionRow
  <2>2. /\ selection'[i] = r /\ \A j \in Imports : j # i => selection'[j] = selection[j]
        /\ selection' \in [Imports -> SelectionRow]
    BY <1>2, <1>5, <2>1
  <2>3. Rows(importSource')
    BY <1>2, <1>5 DEF Rows, SourceRow, Statuses
  <2>4. /\ Sources(i) \subseteq ImportSources /\ Len(SourcesOf[i]) \in Nat \ {0} /\ DOMAIN SourcesOf[i] = 1..Len(SourcesOf[i])
        /\ \A m \in 1..Len(SourcesOf[i]) : SourcesOf[i][m] \in Sources(i)
    BY SourcesShape
  <2>5. \A s \in Sources(i) : importSource'[s].status = "Prepared"
    BY <1>5, <2>4
  <2>6. \A j \in Imports : j # i => \A s \in Sources(j) : importSource'[s] = importSource[s]
    <3>1. \A j \in Imports : j # i => Sources(i) \cap Sources(j) = {} /\ Sources(j) \subseteq ImportSources
      BY SourcesApart, SourcesShape
    <3> QED BY <1>5, <3>1
  <2> HIDE DEF r
  <2>7. Whole(i, importSource', r, importRevoked, importMark)
    <3>1. Total(importSource', i) = 0
      <4>1. \A m \in 1..Len(SourcesOf[i]) : m >= 1 => ~Finished(importSource'[SourcesOf[i][m]])
        BY <2>4, <2>5 DEF Finished
      <4>2. 1 \in 1..Len(SourcesOf[i])
        BY <2>4
      <4> QED BY <2>3, <4>1, <4>2, NothingAhead, AheadAtFirst
    <3>2. ReadLimit \in Nat
      BY ImportShape
    <3>3. \A s \in Sources(i) : s \notin importRevoked
      BY <1>5
    <3>4. \A m \in DOMAIN SourcesOf[i] : ~Finished(importSource'[SourcesOf[i][m]])
      BY <2>4, <2>5 DEF Finished
    <3> QED BY <1>2, <2>1, <2>5, <3>1, <3>2, <3>3, <3>4 DEF Whole
  <2>8. Derived(i, importSource', r, importResult[i], importRevoked)
    <3>1. importResult[i].state = "absent"
      BY <1>3, <1>5 DEF Derived
    <3>2. importResult[i].events = 0
      BY <1>3, <3>1 DEF Derived
    <3> QED BY <3>1, <3>2 DEF Derived
  <2>9. ASSUME NEW j \in Imports
        PROVE  /\ Whole(j, importSource', selection'[j], importRevoked, importMark)
               /\ Derived(j, importSource', selection'[j], importResult[j], importRevoked)
    <3>1. CASE j = i
      BY <2>2, <2>7, <2>8, <3>1
    <3>2. CASE j # i
      BY <1>2, <1>3, <2>2, <2>3, <2>6, <3>2, OthersStand
    <3> QED BY <3>1, <3>2
  <2>10. SourcesSound(importSource', blobs)
    <3>1. SourcesSound(importSource, blobs)
      BY DEF ImportInv, StoredSound
    <3>2. \A s \in ImportSources : importSource'[s].status = "Ready" => importSource'[s] = importSource[s]
      BY <1>5, <2>5
    <3> QED BY <3>1, <3>2 DEF SourcesSound
  <2>11. StoredSound'
    <3>1. EventsUsed' <= EventLimit
      BY <1>1 DEF ImportInv, StoredSound, EventsUsed
    <3> QED BY <1>1, <2>9, <2>10, <3>1 DEF StoredSound
  <2>12. v \in ImportWorkRow /\ ImportWorkSound(v, importSource', selection', blobs, importRevoked, importMark)
    <3>1. selection'[i].state # "absent"
      BY <2>1, <2>2
    <3> QED BY <2>3, <2>9, <3>1, TakeUpSound
  <2> HIDE DEF v
  <2>13. TypesSound' /\ FilesSound'
    BY <1>1, <1>2, <2>2, <2>3, <2>12 DEF ImportInv, TypesSound, FilesSound, Rows
  <2>14. ASSUME NEW q \in ImportProcs
         PROVE  ImportWorkSound(importWork'[q], importSource', selection', blobs, importRevoked, importMark)
    <3>1. CASE q = p
      <4>1. importWork'[q] = v
        BY <1>1, <1>2, <3>1
      <4> QED BY <2>12, <4>1
    <3>2. CASE q # p
      <4> DEFINE w == importWork[q]
      <4>1. importWork'[q] = w /\ w \in ImportWorkRow
        BY <1>1, <1>2, <3>2
      <4>2. ImportWorkSound(w, importSource, selection, blobs, importRevoked, importMark)
        BY DEF ImportInv, ProcessesSound
      <4>3. ASSUME w.at \in Registering \cup {"blobs", "store"} PROVE w.import \in Imports /\ w.import # i
        <5>1. w.import \in Imports /\ selection[w.import].state # "absent"
          BY <4>2, <4>3 DEF ImportWorkSound, Registers, Executes, Registering
        <5> QED BY <1>5, <5>1
      <4>4. w.at \in Registering \cup {"blobs", "store"} =>
               selection'[w.import] = selection[w.import] /\ \A s \in Sources(w.import) : importSource'[s] = importSource[s]
        BY <2>2, <2>6, <4>3
      <4>5. Kept(blobs, blobs, importSource')
        BY DEF Kept
      <4>6. ImportWorkSound(w, importSource', selection', blobs, importRevoked, importMark)
        BY <1>2, <2>3, <4>1, <4>2, <4>4, <4>5, OtherStands
      <4> QED BY <4>1, <4>6
    <3> QED BY <3>1, <3>2
  <2> QED BY <1>1, <2>11, <2>13, <2>14 DEF ImportInv, ProcessesSound
<1> QED BY <1>4, <1>5 DEF register

\* The outcome of a source that was read: what is counted for it is within the limit.
LEMMA OutcomeSound ==
    ASSUME ImportInv, NEW p \in ImportProcs, importWork[p].at = "finish"
    PROVE  /\ Outcome(p) \in SourceRow /\ Finished(Outcome(p)) /\ Outcome(p).status \notin {"Prepared", "cleaned", "absent"}
           /\ Consumed(p) = IF Outcome(p).status \in {"Ready", "SourceChanged"} THEN Outcome(p).bytes ELSE 0
           /\ Consumed(p) \in Nat /\ importWork[p].consumed + Consumed(p) <= ReadLimit
           /\ Outcome(p).status = "Ready" => /\ Outcome(p).bytes = SizeOf[ContentOf[Source(p)]]
                                             /\ importSource[Source(p)].status \in {"Prepared", "Ready"} => ContentOf[Source(p)] \in blobs
<1> DEFINE w == importWork[p]  s == Source(p)  o == Outcome(p)
<1>1. /\ w \in ImportWorkRow /\ s = SourcesOf[w.import][w.n] /\ w.consumed <= ReadLimit
      /\ ImportWorkSound(w, importSource, selection, blobs, importRevoked, importMark)
  BY AtSource DEF Registering
<1>2. Holds(w, importSource, blobs)
  BY <1>1 DEF ImportWorkSound
<1>3. /\ w.found \in Statuses \ {"Prepared"}
      /\ w.found \in {"Ready", "SourceChanged"} => w.consumed + w.size <= ReadLimit
      /\ w.found = "Ready" => /\ w.size = SizeOf[ContentOf[s]]
                              /\ importSource[s].status \in {"Prepared", "Ready"} => ContentOf[s] \in blobs
  BY <1>1, <1>2 DEF Holds
<1>4. w.size \in Nat /\ w.consumed \in Nat /\ ReadLimit \in Nat
  BY <1>1, ImportShape DEF ImportWorkRow
<1>5. o.status = w.found /\ o.bytes = (IF w.found \in {"Ready", "SourceChanged", "TooLarge"} THEN w.size ELSE 0)
  BY DEF Outcome
<1>6. o \in SourceRow
  BY <1>3, <1>4 DEF Outcome, SourceRow
<1>7. w.found \notin {"Prepared", "cleaned", "absent"}
  BY <1>3 DEF Statuses
<1>8. Consumed(p) = IF w.found = "TooLarge" THEN 0 ELSE o.bytes
  BY DEF Consumed
<1> HIDE DEF o
<1>9. Consumed(p) = IF o.status \in {"Ready", "SourceChanged"} THEN o.bytes ELSE 0
  BY <1>5, <1>8
<1>10. Consumed(p) \in Nat /\ w.consumed + Consumed(p) <= ReadLimit
  <2>1. CASE w.found \in {"Ready", "SourceChanged"}
    <3>1. Consumed(p) = w.size
      BY <1>5, <1>9, <2>1
    <3> QED BY <1>3, <1>4, <2>1, <3>1
  <2>2. CASE w.found \notin {"Ready", "SourceChanged"}
    <3>1. Consumed(p) = 0
      BY <1>5, <1>9, <2>2
    <3> QED BY <1>1, <1>4, <3>1
  <2> QED BY <2>1, <2>2
<1>11. Finished(o)
  BY <1>5, <1>7 DEF Finished
<1> QED BY <1>3, <1>5, <1>6, <1>7, <1>9, <1>10, <1>11 DEF o

LEMMA FinishSound ==
    ASSUME ImportInv, NEW p \in ImportProcs, finish_prepared_source(p)
    PROVE  ImportInv'
<1> DEFINE w == importWork[p]  i == w.import  k == w.n  s == Source(p)  o == Outcome(p)
<1>0. w.at = "finish" /\ w.at \in Registering \ {"close"}
  BY DEF finish_prepared_source, Registering
<1>1. UNCHANGED <<selection, importResult, importMark, importRevoked, file, blobs, delivered>>
  BY DEF finish_prepared_source, importWorld
<1>2. /\ blobs \subseteq Contents /\ delivered \subseteq Imports /\ importSource \in [ImportSources -> SourceRow] /\ Rows(importSource)
      /\ importWork \in [ImportProcs -> ImportWorkRow]
  BY DEF ImportInv, TypesSound, Rows
<1>3. /\ w \in ImportWorkRow /\ i \in Imports /\ k \in 1..Len(SourcesOf[i]) /\ s \in Sources(i) /\ s \in ImportSources
      /\ s = SourcesOf[i][k] /\ Registers(w, importSource, selection[i], importMark)
  BY <1>0, AtSource
<1>4. /\ o \in SourceRow /\ Finished(o) /\ o.status \notin {"Prepared", "cleaned", "absent"}
      /\ Consumed(p) = IF o.status \in {"Ready", "SourceChanged"} THEN o.bytes ELSE 0
      /\ Consumed(p) \in Nat /\ w.consumed + Consumed(p) <= ReadLimit
      /\ o.status = "Ready" => /\ o.bytes = SizeOf[ContentOf[s]]
                               /\ importSource[s].status \in {"Prepared", "Ready"} => ContentOf[s] \in blobs
  BY <1>0, OutcomeSound
<1> HIDE DEF o
<1>5. CASE Returns(p) /\ UNCHANGED importSource
  BY <1>1, <1>2, <1>5, ReturnStands
<1>6. CASE /\ importSource[s] = o /\ importSource' = [importSource EXCEPT ![s] = o] /\ NextSource(p, Consumed(p))
  <2>1. importSource' = importSource
    BY <1>2, <1>6
  <2>2. Consumed(p) = BytesRead(importSource)[s] /\ Finished(importSource[s])
    BY <1>2, <1>3, <1>4, <1>6, CountedIsNatural
  <2> QED BY <1>0, <1>1, <1>2, <1>6, <2>1, <2>2, NextStands
<1>7. CASE /\ importSource[s] = [status |-> "Prepared", bytes |-> 0] /\ selection[i].mark = importMark /\ selection[i].state # "cleaned"
           /\ importSource' = [importSource EXCEPT ![s] = o] /\ NextSource(p, Consumed(p))
  <2>0. importSource[s].status = "Prepared"
    BY <1>7
  <2>1. Rows(importSource') /\ importSource'[s] = o /\ \A x \in ImportSources : x # s => importSource'[x] = importSource[x]
    BY <1>2, <1>3, <1>4, <1>7 DEF Rows
  <2>2. BytesRead(importSource)[s] = 0 /\ BytesRead(importSource')[s] = Consumed(p)
    BY <1>2, <1>3, <1>4, <2>0, <2>1, CountedIsNatural
  <2>3. ~Finished(importSource[s])
    BY <2>0 DEF Finished
  <2>4. /\ Whole(i, importSource, selection[i], importRevoked, importMark)
        /\ Derived(i, importSource, selection[i], importResult[i], importRevoked)
    BY <1>3 DEF ImportInv, StoredSound
  <2>5. selection[i].state = "prepared"
    <3>1. selection[i].state # "registered"
      BY <1>3, <2>3, <2>4 DEF Whole
    <3>2. selection[i] \in SelectionRow /\ selection[i].state # "absent"
      BY <1>3 DEF ImportInv, TypesSound, Registers
    <3> QED BY <1>7, <3>1, <3>2 DEF SelectionRow
  <2>6. /\ DOMAIN SourcesOf[i] = 1..Len(SourcesOf[i]) /\ Len(SourcesOf[i]) \in Nat \ {0} /\ k \in Nat
        /\ \A m \in 1..Len(SourcesOf[i]) : SourcesOf[i][m] \in Sources(i) /\ SourcesOf[i][m] \in ImportSources
        /\ \A m \in 1..Len(SourcesOf[i]) : SourcesOf[i][m] = s => m = k
    BY <1>3, SourcesShape
  <2>7. Total(importSource, i) = w.consumed
    <3>1. w.consumed + Ahead(importSource, i, k) = Total(importSource, i)
      BY <1>3, <1>7 DEF Registers
    <3>2. \A m \in 1..Len(SourcesOf[i]) : m >= k => ~Finished(importSource[SourcesOf[i][m]])
      <4>1. \A m, l \in DOMAIN SourcesOf[i] :
               m < l /\ Finished(importSource[SourcesOf[i][l]]) => Finished(importSource[SourcesOf[i][m]])
        BY <1>7, <2>4 DEF Whole
      <4>2. ASSUME NEW m \in 1..Len(SourcesOf[i]), m >= k PROVE ~Finished(importSource[SourcesOf[i][m]])
        <5>1. m = k \/ k < m
          BY <2>6, <4>2
        <5> QED BY <1>3, <2>3, <2>6, <4>1, <5>1
      <4> QED BY <4>2
    <3>3. Ahead(importSource, i, k) = 0
      BY <1>2, <1>3, <3>2, NothingAhead
    <3>4. w.consumed \in Nat
      BY <1>3 DEF ImportWorkRow
    <3> QED BY <3>1, <3>3, <3>4
  <2>8. Total(importSource', i) = Total(importSource, i) + Consumed(p) /\ Total(importSource', i) <= ReadLimit
    <3>1. Total(importSource', i) + BytesRead(importSource)[s] = Total(importSource, i) + BytesRead(importSource')[s]
      BY <1>2, <1>3, <2>1, SumsChange
    <3>2. Total(importSource', i) \in Nat /\ Total(importSource, i) \in Nat
      BY <1>2, <1>3, <2>1, SumsAreNatural
    <3> QED BY <1>4, <2>2, <2>7, <3>1, <3>2
  <2>9. \A j \in Imports : j # i => \A x \in Sources(j) : importSource'[x] = importSource[x]
    <3>1. \A j \in Imports : j # i => Sources(i) \cap Sources(j) = {} /\ Sources(j) \subseteq ImportSources
      BY <1>3, SourcesApart, SourcesShape
    <3> QED BY <1>3, <2>1, <3>1
  <2>10. \A x \in Sources(i) : Finished(importSource[x]) => Finished(importSource'[x])
    BY <1>3, <2>1, <2>3, SourcesShape
  <2>11. \A m \in 1..(k - 1) : Finished(importSource[SourcesOf[i][m]])
    BY <1>3, <1>7 DEF Registers
  <2>12. Whole(i, importSource', selection[i], importRevoked, importMark)
    <3>1. \A x \in Sources(i) : x \notin importRevoked
      BY <1>7, <2>4 DEF Whole
    <3>2. \A x \in Sources(i) : importSource'[x].status # "absent" /\ (importSource'[x].status = "cleaned" => x \in importRevoked)
      <4>1. \A x \in Sources(i) : importSource[x].status # "absent" /\ (importSource[x].status = "cleaned" => x \in importRevoked)
        BY <2>4, <2>5 DEF Whole
      <4>2. \A x \in Sources(i) : x \in ImportSources
        BY <1>3, SourcesShape
      <4> QED BY <1>4, <2>1, <4>1, <4>2
    <3>3. ASSUME NEW m \in DOMAIN SourcesOf[i], NEW l \in DOMAIN SourcesOf[i], m < l, Finished(importSource'[SourcesOf[i][l]])
          PROVE  Finished(importSource'[SourcesOf[i][m]])
      <4>1. CASE l = k
        <5>1. m \in 1..(k - 1)
          BY <2>6, <3>3, <4>1
        <5> QED BY <2>6, <2>10, <2>11, <5>1
      <4>2. CASE l # k
        <5>1. importSource'[SourcesOf[i][l]] = importSource[SourcesOf[i][l]]
          BY <2>1, <2>6, <4>2
        <5>2. Finished(importSource[SourcesOf[i][m]])
          BY <1>7, <2>4, <3>3, <5>1 DEF Whole
        <5> QED BY <2>6, <2>10, <5>2
      <4> QED BY <4>1, <4>2
    <3> QED BY <2>4, <2>5, <2>8, <3>1, <3>2, <3>3 DEF Whole
  <2>13. Derived(i, importSource', selection[i], importResult[i], importRevoked)
    <3>1. importResult[i].state = "absent"
      BY <2>4, <2>5 DEF Derived
    <3>2. importResult[i].events = 0
      BY <2>4, <3>1 DEF Derived
    <3> QED BY <3>1, <3>2 DEF Derived
  <2>14. StoredSound'
    <3>1. ASSUME NEW j \in Imports
          PROVE  /\ Whole(j, importSource', selection[j], importRevoked, importMark)
                 /\ Derived(j, importSource', selection[j], importResult[j], importRevoked)
      <4>1. CASE j = i
        BY <2>12, <2>13, <4>1
      <4>2. CASE j # i
        <5>1. /\ Whole(j, importSource, selection[j], importRevoked, importMark)
              /\ Derived(j, importSource, selection[j], importResult[j], importRevoked)
          BY DEF ImportInv, StoredSound
        <5> QED BY <1>2, <2>1, <2>9, <4>2, <5>1, OthersStand
      <4> QED BY <4>1, <4>2
    <3>2. SourcesSound(importSource', blobs)
      <4>1. SourcesSound(importSource, blobs)
        BY DEF ImportInv, StoredSound
      <4> QED BY <1>4, <2>0, <2>1, <4>1 DEF SourcesSound
    <3>3. EventsUsed' <= EventLimit
      BY <1>1 DEF ImportInv, StoredSound, EventsUsed
    <3> QED BY <1>1, <3>1, <3>2, <3>3 DEF StoredSound
  <2>15. ASSUME NEW q \in ImportProcs
         PROVE  ImportWorkSound(importWork[q], importSource', selection, blobs, importRevoked, importMark)
    <3> DEFINE u == importWork[q]
    <3>1. ImportWorkSound(u, importSource, selection, blobs, importRevoked, importMark) /\ u \in ImportWorkRow
      BY DEF ImportInv, ProcessesSound, TypesSound
    <3>2. CASE u.at \in Registering \cup {"blobs", "store"} => u.import # i
      <4>1. u.at \in Registering \cup {"blobs", "store"} =>
               selection[u.import] = selection[u.import] /\ \A x \in Sources(u.import) : importSource'[x] = importSource[x]
        BY <2>9, <3>1, <3>2 DEF ImportWorkSound, Registering
      <4>2. Kept(blobs, blobs, importSource')
        BY DEF Kept
      <4> QED BY <1>2, <2>1, <3>1, <4>1, <4>2, OtherStands
    <3>3. CASE u.at \in Registering \cup {"blobs", "store"} /\ u.import = i
      <4>1. u.at \in Registering
        BY <2>5, <3>1, <3>3 DEF ImportWorkSound, Executes
      <4>2. Registers(u, importSource, selection[i], importMark) /\ u.consumed <= ReadLimit
        BY <3>1, <3>3, <4>1 DEF ImportWorkSound
      <4>3. u.consumed \in Nat /\ u.n \in Nat
        BY <3>1 DEF ImportWorkRow
      <4>4. u.n <= k
        <5>1. \A m \in 1..(u.n - 1) : Finished(importSource[SourcesOf[i][m]])
          BY <1>7, <3>3, <4>2 DEF Registers
        <5>2. k \notin 1..(u.n - 1)
          BY <1>3, <2>3, <5>1
        <5> QED BY <1>3, <2>6, <4>3, <5>2
      <4>5. Ahead(importSource', i, u.n) = Ahead(importSource, i, u.n) + Consumed(p)
        <5>1. Ahead(importSource', i, u.n) + BytesRead(importSource)[s] = Ahead(importSource, i, u.n) + BytesRead(importSource')[s]
          BY <1>2, <1>3, <2>1, <2>6, <4>3, <4>4, SumsChange
        <5>2. Ahead(importSource', i, u.n) \in Nat /\ Ahead(importSource, i, u.n) \in Nat
          BY <1>2, <1>3, <2>1, SumsAreNatural
        <5> QED BY <2>2, <5>1, <5>2
      <4>6. u.consumed + Ahead(importSource', i, u.n) = Total(importSource', i)
        <5>1. u.consumed + Ahead(importSource, i, u.n) = Total(importSource, i)
          BY <1>7, <3>3, <4>2 DEF Registers
        <5>2. Ahead(importSource, i, u.n) \in Nat
          BY <1>2, <1>3, SumsAreNatural
        <5> QED BY <1>4, <2>8, <4>3, <4>5, <5>1, <5>2
      <4>7. \A m \in 1..(u.n - 1) : Finished(importSource'[SourcesOf[i][m]])
        <5>1. \A m \in 1..(u.n - 1) : Finished(importSource[SourcesOf[i][m]])
          BY <1>7, <3>3, <4>2 DEF Registers
        <5>2. \A m \in 1..(u.n - 1) : SourcesOf[i][m] \in Sources(i)
          BY <1>3, <2>6, <4>3, <4>4
        <5> QED BY <2>10, <5>1, <5>2
      <4>8. Registers(u, importSource', selection[i], importMark)
        BY <2>8, <3>3, <4>2, <4>6, <4>7 DEF Registers
      <4>9. u.at \in {"preflight", "publish", "finish"} => Holds(u, importSource', blobs)
        <5>1. SUFFICES ASSUME u.at \in {"preflight", "publish", "finish"} PROVE Holds(u, importSource', blobs)
          OBVIOUS
        <5>2. Holds(u, importSource, blobs)
          BY <3>1, <5>1 DEF ImportWorkSound
        <5> DEFINE src == SourcesOf[i][u.n]
        <5>3. src \in ImportSources
          BY <1>3, <2>6, <4>2, <4>3, <4>4 DEF Registers
        <5>4. src = s \/ importSource'[src] = importSource[src]
          BY <2>1, <5>3
        <5>5. importSource'[src].status \in {"Prepared", "Ready"} => importSource[src].status \in {"Prepared", "Ready"}
          BY <2>0, <5>4
        <5> QED BY <3>3, <5>2, <5>5 DEF Holds
      <4> QED BY <1>3, <3>3, <4>1, <4>2, <4>8, <4>9 DEF ImportWorkSound, Registering
    <3> QED BY <3>2, <3>3
  <2> DEFINE v == Following(w, Consumed(p))
  <2>16. v \in ImportWorkRow /\ ImportWorkSound(v, importSource', selection, blobs, importRevoked, importMark)
    <3>1. Registers(w, importSource', selection[i], importMark)
      BY <1>0, <2>15 DEF ImportWorkSound
    <3>2. Finished(importSource'[SourcesOf[i][k]]) /\ BytesRead(importSource')[SourcesOf[i][k]] = Consumed(p) /\ w.at # "close"
      BY <1>0, <1>3, <1>4, <2>1, <2>2
    <3>3. /\ Following(w, BytesRead(importSource')[SourcesOf[i][k]]) \in ImportWorkRow
          /\ ImportWorkSound(Following(w, BytesRead(importSource')[SourcesOf[i][k]]), importSource', selection, blobs, importRevoked, importMark)
      BY <1>3, <2>1, <3>1, <3>2, AdvanceSound
    <3> QED BY <3>2, <3>3
  <2>17. importWork' = [importWork EXCEPT ![p] = v]
    BY <1>7 DEF NextSource, Following, WorkAt
  <2> HIDE DEF v
  <2>18. TypesSound' /\ FilesSound'
    BY <1>1, <1>2, <2>1, <2>16, <2>17 DEF ImportInv, TypesSound, FilesSound, Rows
  <2>19. ASSUME NEW q \in ImportProcs
         PROVE  ImportWorkSound(importWork'[q], importSource', selection', blobs', importRevoked', importMark')
    <3>1. importWork'[q] = v \/ importWork'[q] = importWork[q]
      BY <1>2, <2>17
    <3> QED BY <1>1, <2>15, <2>16, <3>1
  <2> QED BY <2>14, <2>18, <2>19 DEF ImportInv, ProcessesSound
<1> QED BY <1>5, <1>6, <1>7 DEF finish_prepared_source, o

\* The cleanup of a revoked source, of a registration whose watermark has passed.
LEMMA CleanupSound ==
    ASSUME ImportInv, NEW s \in ImportSources, import_cleanup(s)
    PROVE  ImportInv'
<1> DEFINE i == CHOOSE j \in Imports : s \in Sources(j)
           r == [selection[i] EXCEPT !.state = "cleaned"]
           res == IF importResult[i].state = "absent" THEN importResult[i] ELSE [state |-> "cleaned", events |-> 0]
<1>1. i \in Imports /\ s \in Sources(i)
  BY Owner
<1>2. /\ importSource' = [importSource EXCEPT ![s] = [status |-> "cleaned", bytes |-> 0]]
      /\ selection' = [selection EXCEPT ![i].state = "cleaned"]
      /\ importResult' = [importResult EXCEPT ![i] = IF @.state = "absent" THEN @ ELSE [state |-> "cleaned", events |-> 0]]
      /\ blobs' = IF \E t \in ImportSources \ {s} : ContentOf[t] = ContentOf[s] /\ importSource[t].status \in {"Prepared", "Ready"}
                  THEN blobs ELSE blobs \ {ContentOf[s]}
      /\ UNCHANGED <<delivered, importWork, importMark, importRevoked, file>> /\ s \in importRevoked
  BY DEF import_cleanup, importWorld
<1> HIDE DEF i
<1>3. /\ blobs \subseteq Contents /\ importSource \in [ImportSources -> SourceRow] /\ Rows(importSource)
      /\ selection \in [Imports -> SelectionRow] /\ importResult \in [Imports -> ResultRow]
  BY DEF ImportInv, TypesSound, Rows
<1>4. r \in SelectionRow /\ r.state = "cleaned" /\ r.mark = selection[i].mark
  BY <1>1, <1>3 DEF SelectionRow
<1>5. /\ res \in ResultRow /\ res.state \in {"absent", "cleaned"} /\ (res.state = "absent" => importResult[i].state = "absent")
      /\ (res.state = "absent" => res = importResult[i]) /\ (res.state # "absent" => res.events = 0)
  <2>1. importResult[i] \in ResultRow /\ [state |-> "cleaned", events |-> 0] \in ResultRow
    BY <1>1, <1>3 DEF ResultRow
  <2> QED BY <2>1
<1>6. importResult' = [importResult EXCEPT ![i] = res] /\ selection' = [selection EXCEPT ![i] = r]
  BY <1>1, <1>2, <1>3
<1> HIDE DEF r, res
<1>7. /\ selection'[i] = r /\ selection' \in [Imports -> SelectionRow] /\ importResult'[i] = res
      /\ importResult' \in [Imports -> ResultRow]
      /\ \A j \in Imports : j # i => selection'[j] = selection[j] /\ importResult'[j] = importResult[j]
  BY <1>1, <1>3, <1>4, <1>5, <1>6
<1>8. /\ Rows(importSource') /\ importSource'[s].status = "cleaned" /\ importSource'[s].bytes = 0
      /\ \A x \in ImportSources : x # s => importSource'[x] = importSource[x]
  BY <1>2, <1>3 DEF Rows, SourceRow
<1>9. /\ Whole(i, importSource, selection[i], importRevoked, importMark)
      /\ Derived(i, importSource, selection[i], importResult[i], importRevoked)
  BY <1>1 DEF ImportInv, StoredSound
<1>10. selection[i].state # "absent" /\ selection[i].mark # importMark
  BY <1>1, <1>2, <1>9 DEF Whole
<1>11. PICK k \in 1..Len(SourcesOf[i]) : SourcesOf[i][k] = s
  BY <1>1, SourceIndex
<1>12. BytesRead(importSource)[s] \in Nat /\ BytesRead(importSource')[s] = 0
  BY <1>3, <1>8, CountedIsNatural
<1>13. /\ Total(importSource', i) <= Total(importSource, i) /\ Total(importSource', i) \in Nat /\ Total(importSource, i) \in Nat
  <2>1. Total(importSource', i) + BytesRead(importSource)[s] = Total(importSource, i) + BytesRead(importSource')[s]
    BY <1>1, <1>3, <1>8, <1>11, SumsChange
  <2>2. Total(importSource', i) \in Nat /\ Total(importSource, i) \in Nat
    BY <1>1, <1>3, <1>8, SumsAreNatural
  <2> QED BY <1>12, <2>1, <2>2
<1>14. \A n \in Nat : /\ Ahead(importSource', i, n) <= Ahead(importSource, i, n)
                     /\ Ahead(importSource', i, n) \in Nat /\ Ahead(importSource, i, n) \in Nat
  <2>1. ASSUME NEW n \in Nat PROVE /\ Ahead(importSource', i, n) <= Ahead(importSource, i, n)
                                   /\ Ahead(importSource', i, n) \in Nat /\ Ahead(importSource, i, n) \in Nat
    <3>1. /\ k >= n => Ahead(importSource', i, n) + BytesRead(importSource)[s] = Ahead(importSource, i, n) + BytesRead(importSource')[s]
          /\ k < n => Ahead(importSource', i, n) = Ahead(importSource, i, n)
      BY <1>1, <1>3, <1>8, <1>11, SumsChange
    <3>2. Ahead(importSource', i, n) \in Nat /\ Ahead(importSource, i, n) \in Nat
      BY <1>1, <1>3, <1>8, SumsAreNatural
    <3> QED BY <1>12, <3>1, <3>2
  <2> QED BY <2>1
<1>15. \A j \in Imports : j # i => \A x \in Sources(j) : importSource'[x] = importSource[x]
  <2>1. \A j \in Imports : j # i => Sources(i) \cap Sources(j) = {} /\ Sources(j) \subseteq ImportSources
    BY <1>1, SourcesApart, SourcesShape
  <2> QED BY <1>1, <1>8, <2>1
<1>16. Whole(i, importSource', r, importRevoked, importMark)
  <2>1. \A x \in Sources(i) : x \in ImportSources
    BY <1>1, SourcesShape
  <2>2. \A x \in Sources(i) : importSource'[x].status # "absent" /\ (importSource'[x].status = "cleaned" => x \in importRevoked)
    BY <1>2, <1>8, <1>9, <1>10, <2>1 DEF Whole
  <2>3. Total(importSource', i) <= ReadLimit /\ ReadLimit \in Nat
    BY <1>9, <1>13, ImportShape DEF Whole
  <2> QED BY <1>1, <1>2, <1>4, <1>9, <1>10, <2>2, <2>3 DEF Whole
<1>17. Derived(i, importSource', r, res, importRevoked)
  <2>1. res.events = 0
    BY <1>5, <1>9 DEF Derived
  <2> QED BY <1>4, <1>5, <2>1 DEF Derived
<1>18. Kept(blobs, blobs', importSource')
  BY <1>2, <1>8 DEF Kept
<1>19. StoredSound'
  <2>1. ASSUME NEW j \in Imports
        PROVE  /\ Whole(j, importSource', selection'[j], importRevoked, importMark)
               /\ Derived(j, importSource', selection'[j], importResult'[j], importRevoked)
    <3>1. CASE j = i
      BY <1>7, <1>16, <1>17, <3>1
    <3>2. CASE j # i
      <4>1. /\ Whole(j, importSource, selection[j], importRevoked, importMark)
            /\ Derived(j, importSource, selection[j], importResult[j], importRevoked)
        BY DEF ImportInv, StoredSound
      <4> QED BY <1>3, <1>7, <1>8, <1>15, <3>2, <4>1, OthersStand
    <3> QED BY <3>1, <3>2
  <2>2. SourcesSound(importSource', blobs')
    <3>1. SourcesSound(importSource, blobs)
      BY DEF ImportInv, StoredSound
    <3> QED BY <1>8, <1>18, <3>1 DEF SourcesSound, Kept
  <2>3. EventsUsed' <= EventLimit
    <3> DEFINE f == [j \in Imports |-> importResult'[j].events]  e == [j \in Imports |-> importResult[j].events]
    <3>1. \A j \in Imports : f[j] \in Nat /\ e[j] \in Nat
      BY <1>3, <1>7 DEF ResultRow
    <3>2. \A j \in Imports : j # i => f[j] = e[j]
      BY <1>7
    <3>3. f[i] <= e[i]
      <4>1. f[i] = 0 \/ f[i] = e[i]
        BY <1>1, <1>5, <1>7
      <4> QED BY <1>1, <3>1, <4>1
    <3>4. EventsUsed' = SumFunctionOnSet(f, Imports) /\ EventsUsed = SumFunctionOnSet(e, Imports) /\ IsFiniteSet(Imports)
      BY ImportShape DEF EventsUsed
    <3> HIDE DEF f, e
    <3>5. SumFunctionOnSet(f, Imports) + e[i] = SumFunctionOnSet(e, Imports) + f[i]
      BY <1>1, <3>1, <3>2, <3>4, SumChanges
    <3>6. SumFunctionOnSet(f, Imports) \in Nat /\ SumFunctionOnSet(e, Imports) \in Nat
      BY <3>1, <3>4, SumIsNatural
    <3>7. EventsUsed' <= EventsUsed /\ EventsUsed \in Nat /\ EventsUsed' \in Nat
      BY <1>1, <3>1, <3>3, <3>4, <3>5, <3>6
    <3>8. EventsUsed <= EventLimit /\ EventLimit \in Nat
      BY ImportShape DEF ImportInv, StoredSound
    <3> QED BY <3>7, <3>8
  <2> QED BY <1>2, <2>1, <2>2, <2>3 DEF StoredSound
<1>20. TypesSound' /\ FilesSound'
  <2>1. blobs' \subseteq Contents
    BY <1>2, <1>3
  <2> QED BY <1>2, <1>7, <1>8, <2>1 DEF ImportInv, TypesSound, FilesSound, Rows
<1>21. ASSUME NEW q \in ImportProcs
       PROVE  ImportWorkSound(importWork[q], importSource', selection', blobs', importRevoked, importMark)
  <2> DEFINE w == importWork[q]
  <2>1. ImportWorkSound(w, importSource, selection, blobs, importRevoked, importMark) /\ w \in ImportWorkRow
    BY DEF ImportInv, ProcessesSound, TypesSound
  <2>2. CASE w.at \in Registering \cup {"blobs", "store"} => w.import # i
    <3>1. w.at \in Registering \cup {"blobs", "store"} =>
             selection'[w.import] = selection[w.import] /\ \A x \in Sources(w.import) : importSource'[x] = importSource[x]
      BY <1>7, <1>15, <2>1, <2>2 DEF ImportWorkSound, Registering
    <3> QED BY <1>3, <1>8, <1>18, <2>1, <3>1, OtherStands
  <2>3. CASE w.at \in Registering \cup {"blobs", "store"} /\ w.import = i
    <3>1. ASSUME w.at \in Registering PROVE Registers(w, importSource', r, importMark)
      <4>1. Registers(w, importSource, selection[i], importMark)
        BY <2>1, <2>3, <3>1 DEF ImportWorkSound
      <4>2. w.consumed \in Nat /\ w.n \in Nat /\ ReadLimit \in Nat
        BY <2>1, ImportShape DEF ImportWorkRow
      <4>3. w.consumed + Ahead(importSource, i, w.n) <= ReadLimit
        BY <2>3, <4>1 DEF Registers
      <4>4. w.consumed + Ahead(importSource', i, w.n) <= ReadLimit
        <5> HIDE DEF w
        <5>1. /\ Ahead(importSource', i, w.n) <= Ahead(importSource, i, w.n)
              /\ Ahead(importSource', i, w.n) \in Nat /\ Ahead(importSource, i, w.n) \in Nat
          BY <1>14, <4>2
        <5> QED BY <4>2, <4>3, <5>1
      <4> QED BY <1>4, <1>10, <2>3, <4>1, <4>4 DEF Registers
    <3>2. ASSUME w.at \in {"preflight", "publish", "finish"} PROVE Holds(w, importSource', blobs')
      <4> DEFINE y == SourcesOf[i][w.n]
      <4>1. Holds(w, importSource, blobs) /\ Registers(w, importSource, selection[i], importMark)
        BY <2>1, <2>3, <3>2 DEF ImportWorkSound, Registering
      <4>2. Len(SourcesOf[i]) \in Nat
        BY <1>1, SourcesShape
      <4>3. w.n \in 1..Len(SourcesOf[i])
        BY <2>3, <3>2, <4>1, <4>2 DEF Registers
      <4>4. y \in ImportSources
        BY <1>1, <4>3, SourcesShape
      <4>5. importSource'[y].status \in {"Prepared", "Ready"} =>
               importSource[y].status \in {"Prepared", "Ready"} /\ (ContentOf[y] \in blobs => ContentOf[y] \in blobs')
        BY <1>8, <1>18, <4>4 DEF Kept
      <4> QED BY <2>3, <4>1, <4>5 DEF Holds
    <3>3. ASSUME w.at \in {"blobs", "store"} PROVE Executes(w, importSource', r, importRevoked)
      <4>1. Executes(w, importSource, selection[i], importRevoked)
        BY <2>1, <2>3, <3>3 DEF ImportWorkSound
      <4> QED BY <1>1, <1>2, <1>4, <2>3, <4>1 DEF Executes
    <3> QED BY <1>7, <2>1, <2>3, <3>1, <3>2, <3>3 DEF ImportWorkSound
  <2> QED BY <2>2, <2>3
<1> QED BY <1>2, <1>19, <1>20, <1>21 DEF ImportInv, ProcessesSound

-----------------------------------------------------------------------------
(* The theorems.                                                           *)

LEMMA ImportInvInit ==
    ASSUME ImportInit
    PROVE  ImportInv
<1>1. TypesSound
  BY IdleSound DEF ImportInit, TypesSound, SelectionRow, SourceRow, ResultRow
<1>2. FilesSound
  BY DEF ImportInit, FilesSound
<1>3. Rows(importSource) /\ \A s \in ImportSources : importSource[s].status = "absent"
  BY <1>1 DEF ImportInit, TypesSound, Rows
<1>4. ASSUME NEW i \in Imports
      PROVE  /\ Whole(i, importSource, selection[i], importRevoked, importMark)
             /\ Derived(i, importSource, selection[i], importResult[i], importRevoked)
  <2>1. /\ Len(SourcesOf[i]) \in Nat \ {0} /\ DOMAIN SourcesOf[i] = 1..Len(SourcesOf[i]) /\ Sources(i) \subseteq ImportSources
        /\ \A m \in 1..Len(SourcesOf[i]) : SourcesOf[i][m] \in ImportSources
    BY SourcesShape
  <2>2. \A m \in 1..Len(SourcesOf[i]) : ~Finished(importSource[SourcesOf[i][m]])
    BY <1>3, <2>1 DEF Finished
  <2>3. Total(importSource, i) = 0
    <3>1. 1 \in 1..Len(SourcesOf[i])
      BY <2>1
    <3> QED BY <1>3, <2>2, <3>1, NothingAhead, AheadAtFirst
  <2>4. ReadLimit \in Nat
    BY ImportShape
  <2>5. selection[i].state = "absent" /\ selection[i].mark = 0 /\ importResult[i].state = "absent" /\ importResult[i].events = 0
    BY DEF ImportInit
  <2>6. importRevoked = {} /\ importMark = 0
    BY DEF ImportInit
  <2>7. \A s \in Sources(i) : importSource[s].status = "absent"
    BY <1>3, <2>1
  <2>8. Whole(i, importSource, selection[i], importRevoked, importMark)
    BY <2>1, <2>2, <2>3, <2>4, <2>5, <2>6, <2>7 DEF Whole
  <2>9. Derived(i, importSource, selection[i], importResult[i], importRevoked)
    BY <2>5 DEF Derived
  <2> QED BY <2>8, <2>9
<1>5. EventsUsed <= EventLimit
  <2> DEFINE f == [i \in Imports |-> importResult[i].events]
  <2>1. \A i \in Imports : f[i] = 0
    BY DEF ImportInit
  <2>2. EventsUsed = SumFunctionOnSet(f, Imports) /\ IsFiniteSet(Imports) /\ EventLimit \in Nat
    BY ImportShape DEF EventsUsed
  <2> HIDE DEF f
  <2>3. EventsUsed = 0
    BY <2>1, <2>2, SumOfZeros
  <2> QED BY <2>2, <2>3
<1>6. SourcesSound(importSource, blobs)
  BY <1>3 DEF SourcesSound
<1>7. ProcessesSound
  BY IdleSound DEF ImportInit, ProcessesSound
<1> QED BY <1>1, <1>2, <1>4, <1>5, <1>6, <1>7 DEF ImportInv, StoredSound

LEMMA ImportInvStep ==
    ASSUME ImportInv, [ImportNext]_importVars
    PROVE  ImportInv'
<1>1. CASE UNCHANGED importVars
  BY <1>1 DEF importVars, ImportInv, TypesSound, FilesSound, StoredSound, ProcessesSound, EventsUsed
<1>2. ASSUME NEW p \in ImportProcs, ImportStep(p) PROVE ImportInv'
  BY <1>2, StatSound, ReadSound, PreflightSound, PublishSound, FinishSound, CloseSound, ReadSourcesSound, StoreSound,
     ReconstructSound, DeliverSound DEF ImportStep
<1>3. ASSUME NEW p \in ImportProcs, NEW i \in Imports, register(p, i) \/ execute(p, i) \/ read_material(p, i) PROVE ImportInv'
  BY <1>3, RegisterSound, BeginStands
<1>4. ASSUME NEW s \in ImportSources, import_cleanup(s) PROVE ImportInv'
  BY <1>4, CleanupSound
<1>5. ASSUME NEW s \in ImportSources \cup {None}, import_revoke(s) PROVE ImportInv'
  BY <1>5, RevokeSound
<1>6. ASSUME NEW s \in ImportSources, NEW c \in Contents \cup Unreadable \cup {"foreign"}, file_changes(s, c) PROVE ImportInv'
  BY <1>6, FileChangeSound
<1>7. ASSUME NEW p \in ImportProcs, import_crash(p) PROVE ImportInv'
  BY <1>7, CrashSound
<1> QED BY <1>1, <1>2, <1>3, <1>4, <1>5, <1>6, <1>7 DEF ImportNext

LEMMA ImportInvIsSafe ==
    ASSUME ImportInv
    PROVE  ImportSafe
<1>1. ImportTypeOK
  BY DEF ImportInv, TypesSound, StoredSound, Whole, ProcessesSound, ImportWorkSound, ImportTypeOK, SelectionRow, SourceRow, ResultRow, ImportWorkRow
<1>2. ReadyHasBlob
  BY DEF ImportInv, StoredSound, SourcesSound, ReadyHasBlob
<1>3. WithinReadLimit
  BY DEF ImportInv, StoredSound, Whole, WithinReadLimit
<1>4. WithinEventCapacity
  BY DEF ImportInv, StoredSound, WithinEventCapacity
<1>5. ResultIsOfSources
  <2>1. ASSUME NEW i \in Imports, importResult[i].state \in {"Complete", "Partial", "Failed"}, Sources(i) \cap importRevoked = {}
        PROVE  /\ selection[i].state = "registered"
               /\ (importResult[i].state = "Complete") = (ReadySources(i) = Sources(i))
               /\ (importResult[i].state = "Failed") = (ReadySources(i) = {})
               /\ \A s \in Sources(i) : importSource[s].status \notin {"Prepared", "cleaned"}
    <3>1. /\ Whole(i, importSource, selection[i], importRevoked, importMark)
          /\ Derived(i, importSource, selection[i], importResult[i], importRevoked)
      BY DEF ImportInv, StoredSound
    <3>2. \A s \in Sources(i) : s \notin importRevoked
      BY <2>1
    <3>3. selection[i].state = "registered"
      BY <2>1, <3>1, <3>2 DEF Derived, Whole
    <3>4. ReadySources(i) = ReadyOf(importSource, i)
      BY DEF ReadySources, ReadyOf
    <3>5. /\ importResult[i].state = "Complete" <=> ReadySources(i) = Sources(i)
          /\ importResult[i].state = "Failed" <=> ReadySources(i) = {}
      BY <2>1, <3>1, <3>2, <3>4 DEF Derived
    <3>6. \A s \in Sources(i) : importSource[s].status \notin {"Prepared", "cleaned"}
      BY <3>1, <3>2, <3>3 DEF Whole, Finished
    <3> QED BY <3>3, <3>5, <3>6
  <2> QED BY <2>1 DEF ResultIsOfSources
<1> QED BY <1>1, <1>2, <1>3, <1>4, <1>5 DEF ImportSafe

\* Whatever files, processes and limits there are: a ready source has its blob, what
\* was read for a registration and the events of all results are within their
\* limits, and a result tells its sources as they are (import.rs).
THEOREM ImportIsSafe == ImportSpec => []ImportSafe
<1>1. ImportInit => ImportInv
  BY ImportInvInit
<1>2. ImportInv /\ [ImportNext]_importVars => ImportInv'
  BY ImportInvStep
<1>3. ImportInv => ImportSafe
  BY ImportInvIsSafe
<1> QED BY <1>1, <1>2, <1>3, PTL DEF ImportSpec

FactsStep ==
    /\ \A s \in ImportSources : importSource[s].status \in Statuses \ {"Prepared"} => importSource'[s] = importSource[s] \/ importSource'[s].status = "cleaned"
    /\ \A i \in Imports : importResult[i].state # "absent" => importResult'[i] = importResult[i] \/ importResult'[i].state = "cleaned"

ImportLateStep ==
    \A i \in Imports : selection[i].mark < importMark /\ selection[i].state # "absent" =>
        /\ \A s \in Sources(i) : importSource'[s] = importSource[s] \/ importSource'[s].status = "cleaned"
        /\ importResult'[i] = importResult[i] \/ importResult'[i].state = "cleaned"
        /\ (i \in delivered' => i \in delivered)

LEMMA QuietStep ==
    ASSUME UNCHANGED <<importSource, importResult, delivered>>
    PROVE  FactsStep /\ ImportLateStep
  BY DEF FactsStep, ImportLateStep

LEMMA FactsOfStep ==
    ASSUME ImportInv, ImportNext
    PROVE  FactsStep /\ ImportLateStep
<1>1. /\ importSource \in [ImportSources -> SourceRow] /\ importResult \in [Imports -> ResultRow] /\ importMark \in Nat
      /\ \A i \in Imports : selection[i].mark \in Nat
  BY DEF ImportInv, TypesSound, SelectionRow
<1>2. \A i \in Imports : selection[i].mark < importMark => selection[i].mark # importMark
  BY <1>1
<1>3. \A i \in Imports : Sources(i) \subseteq ImportSources
  BY SourcesShape
<1>4. \A i \in Imports, j \in Imports : i # j => Sources(i) \cap Sources(j) = {}
  BY SourcesApart
<1>5. ASSUME NEW p \in ImportProcs, finish_prepared_source(p) PROVE FactsStep /\ ImportLateStep
  <2> DEFINE w == importWork[p]  i == w.import  s == Source(p)
  <2>1. UNCHANGED <<importResult, delivered>>
    BY <1>5 DEF finish_prepared_source
  <2>2. i \in Imports /\ s \in Sources(i) /\ s \in ImportSources
    BY <1>5, AtSource DEF finish_prepared_source, Registering
  <2>3. CASE importSource' = importSource
    BY <2>1, <2>3, QuietStep
  <2>4. CASE /\ selection[i].mark = importMark /\ importSource' = [importSource EXCEPT ![s] = Outcome(p)]
             /\ importSource[s] \in {[status |-> "Prepared", bytes |-> 0], Outcome(p)}
    <3> DEFINE o == Outcome(p)
    <3>1. importSource'[s] = o /\ \A x \in ImportSources : x # s => importSource'[x] = importSource[x]
      BY <1>1, <2>2, <2>4
    <3>2. importSource[s] = o \/ importSource[s].status = "Prepared"
      BY <2>4
    <3> HIDE DEF o
    <3>3. FactsStep
      BY <2>1, <3>1, <3>2 DEF FactsStep
    <3>4. ASSUME NEW j \in Imports, selection[j].mark < importMark, NEW x \in Sources(j) PROVE importSource'[x] = importSource[x]
      <4>1. j # i
        BY <1>2, <2>4, <3>4
      <4> QED BY <1>3, <1>4, <2>2, <3>1, <4>1
    <3>5. ImportLateStep
      BY <2>1, <3>4 DEF ImportLateStep
    <3> QED BY <3>3, <3>5
  <2> QED BY <1>5, <2>3, <2>4 DEF finish_prepared_source
<1>6. ASSUME NEW p \in ImportProcs, store_result(p) PROVE FactsStep /\ ImportLateStep
  <2> DEFINE w == importWork[p]  i == w.import
  <2>1. UNCHANGED <<importSource, delivered>>
    BY <1>6 DEF store_result
  <2>2. i \in Imports
    BY <1>6 DEF store_result, ImportInv, ProcessesSound, ImportWorkSound
  <2>3. CASE importResult' = importResult
    BY <2>1, <2>3, QuietStep
  <2>4. CASE /\ selection[i].mark = importMark /\ importResult[i].state = "absent"
             /\ importResult' = [importResult EXCEPT ![i] = import_result_payload_v2(i, w.found)]
    <3>1. \A j \in Imports : j # i => importResult'[j] = importResult[j]
      BY <1>1, <2>4
    <3>2. FactsStep
      BY <2>1, <2>4, <3>1 DEF FactsStep
    <3>3. \A j \in Imports : selection[j].mark < importMark => importResult'[j] = importResult[j]
      BY <1>2, <2>4, <3>1
    <3>4. ImportLateStep
      BY <2>1, <3>3 DEF ImportLateStep
    <3> QED BY <3>2, <3>4
  <2> QED BY <1>6, <2>3, <2>4 DEF store_result, LiveSelection
<1>7. ASSUME NEW p \in ImportProcs, read_local_material_at_boundary(p) PROVE FactsStep /\ ImportLateStep
  <2>1. UNCHANGED <<importSource, importResult>>
    BY <1>7 DEF read_local_material_at_boundary
  <2>2. \A j \in Imports : selection[j].mark < importMark /\ j \in delivered' => j \in delivered
    BY <1>2, <1>7 DEF read_local_material_at_boundary, Snapshot, LiveSelection
  <2> QED BY <2>1, <2>2 DEF FactsStep, ImportLateStep
<1>8. ASSUME NEW p \in ImportProcs, NEW i \in Imports, register(p, i) PROVE FactsStep /\ ImportLateStep
  <2>1. UNCHANGED <<importResult, delivered>>
    BY <1>8 DEF register
  <2>2. CASE importSource' = importSource
    BY <2>1, <2>2, QuietStep
  <2>3. CASE /\ selection[i].state = "absent"
             /\ importSource' = [s \in ImportSources |-> IF s \in Sources(i) THEN [status |-> "Prepared", bytes |-> 0] ELSE importSource[s]]
    <3>1. \A s \in Sources(i) : importSource[s].status \notin Statuses
      BY <2>3 DEF ImportInv, StoredSound, Whole, Statuses
    <3>2. \A s \in ImportSources : s \notin Sources(i) => importSource'[s] = importSource[s]
      BY <2>3
    <3>3. FactsStep
      BY <2>1, <3>1, <3>2 DEF FactsStep
    <3>4. ASSUME NEW j \in Imports, selection[j].state # "absent", NEW x \in Sources(j) PROVE importSource'[x] = importSource[x]
      <4>1. j # i
        BY <2>3, <3>4
      <4> QED BY <1>3, <1>4, <3>2, <4>1
    <3>5. ImportLateStep
      BY <2>1, <3>4 DEF ImportLateStep
    <3> QED BY <3>3, <3>5
  <2> QED BY <1>8, <2>2, <2>3 DEF register
<1>9. ASSUME NEW s \in ImportSources, import_cleanup(s) PROVE FactsStep /\ ImportLateStep
  <2>1. delivered' = delivered
    BY <1>9 DEF import_cleanup
  <2>2. \A x \in ImportSources : importSource'[x] = importSource[x] \/ importSource'[x].status = "cleaned"
    BY <1>1, <1>9 DEF import_cleanup
  <2>3. \A j \in Imports : importResult'[j] = importResult[j] \/ importResult'[j].state = "cleaned"
    BY <1>1, <1>9 DEF import_cleanup
  <2> QED BY <1>3, <2>1, <2>2, <2>3 DEF FactsStep, ImportLateStep
<1>10. ASSUME NEW p \in ImportProcs, ImportStep(p) PROVE FactsStep /\ ImportLateStep
  <2>1. CASE stat_source(p) \/ read_file_bounded(p) \/ preflight_registered_blob_publish(p) \/ publish_preflighted_registered_blob(p)
    BY <2>1, QuietStep DEF stat_source, read_file_bounded, preflight_registered_blob_publish, publish_preflighted_registered_blob, importRecords
  <2>2. CASE close_registration(p) \/ read_sources(p) \/ reconstruct_local_import(p)
    BY <2>2, QuietStep DEF close_registration, read_sources, reconstruct_local_import, importRecords
  <2> QED BY <1>5, <1>6, <1>7, <1>10, <2>1, <2>2 DEF ImportStep
<1>11. ASSUME NEW p \in ImportProcs, import_crash(p) PROVE FactsStep /\ ImportLateStep
  BY <1>11, QuietStep DEF import_crash
<1>12. ASSUME NEW p \in ImportProcs, NEW i \in Imports, execute(p, i) \/ read_material(p, i) PROVE FactsStep /\ ImportLateStep
  BY <1>12, QuietStep DEF execute, read_material, importRecords
<1>13. ASSUME NEW s, NEW c, import_revoke(s) \/ file_changes(s, c) PROVE FactsStep /\ ImportLateStep
  BY <1>13, QuietStep DEF import_revoke, file_changes, importRecords
<1> QED BY <1>8, <1>9, <1>10, <1>11, <1>12, <1>13 DEF ImportNext

\* In every step of any process: a finished source keeps its outcome and a stored
\* result its content until the cleanup takes them, and once the watermark has moved
\* past a registration nothing of it is finished, derived or handed out (import.rs).
THEOREM ImportStands == ImportSpec => ImportFactsStand /\ NothingAfterRevocation
<1>1. ImportInit => ImportInv
  BY ImportInvInit
<1>2. ImportInv /\ [ImportNext]_importVars => ImportInv'
  BY ImportInvStep
<1>3. ImportInv /\ [ImportNext]_importVars =>
        [/\ \A s \in ImportSources : importSource[s].status \in Statuses \ {"Prepared"} => importSource'[s] = importSource[s] \/ importSource'[s].status = "cleaned"
         /\ \A i \in Imports : importResult[i].state # "absent" => importResult'[i] = importResult[i] \/ importResult'[i].state = "cleaned"]_importVars
  BY FactsOfStep DEF FactsStep
<1>4. ImportInv /\ [ImportNext]_importVars =>
        [\A i \in Imports : selection[i].mark < importMark /\ selection[i].state # "absent" =>
          /\ \A s \in Sources(i) : importSource'[s] = importSource[s] \/ importSource'[s].status = "cleaned"
          /\ importResult'[i] = importResult[i] \/ importResult'[i].state = "cleaned"
          /\ (i \in delivered' => i \in delivered)]_importVars
  BY FactsOfStep DEF ImportLateStep
<1> QED BY <1>1, <1>2, <1>3, <1>4, PTL DEF ImportSpec, ImportFactsStand, NothingAfterRevocation

=============================================================================
