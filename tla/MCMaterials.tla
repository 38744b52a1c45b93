---------------------------- MODULE MCMaterials ----------------------------
(***************************************************************************)
(* Instances of the modules through which material enters and leaves:      *)
(* development execution and practice sets, imports of local files, staged *)
(* packages, seeds and exports.  They share no variable here; a behaviour  *)
(* is of one of them (part), and the others stay where they begin.         *)
(***************************************************************************)
EXTENDS Development, Import, Packages, TLC

CONSTANTS w1, w2, s1, s2, d1, p1, p2, i1, i2, f1, f2, f3, o1, o2, a1, a2, a3, e1, c1, c2

VARIABLE part

materialsVars == <<developmentVars, importVars, packageVars, part>>

-----------------------------------------------------------------------------
(* Development: two workers, two sets under one registration, or one       *)
(* direct request.  A worker alone runs a set or a request against         *)
(* everything that may happen around it; two workers race with one         *)
(* disturbance at most.                                                    *)

MCScores == {<<0, 0>>, <<0, 1>>, <<1, 0>>}

Developing == {"set", "two sets", "request", "two requests"}
Alone == part \in {"set", "request"}
Direct == part \in {"request", "two requests"}

Users == IF part \notin Developing THEN {} ELSE IF Alone THEN {w1} ELSE DevWorkers

\* The workers are alike: the first one runs a set and dies, the second one runs that
\* set or the other.
Wanted(w) == IF Direct THEN DirectRequests ELSE IF w = w1 THEN {s1} ELSE PracticeSets

Undisturbed == devClock = 0 /\ devFaults = 0 /\ devLive

DevelopmentPart ==
    \/ \E w \in Users : DevRuns(w)
    \/ \E w \in Users : \E j \in Wanted(w) : run_practice_set(w, j)
    \/ Direct /\ \E k \in CallKeys : dev_mark_uncertain(k)
    \/ /\ Alone \/ Undisturbed
       /\ \/ dev_crash(w1)
          \/ devClock = 0 /\ dev_tick(IF Direct THEN DevClockLimit ELSE 1)
          \/ (Alone \/ Direct) /\ dev_revoke
          \/ Direct /\ (target_execution_failed(w1) \/ dev_root_stops \/ dev_inputs_change)

DevelopmentPartFair ==
    \A w \in DevWorkers : /\ WF_developmentVars(w \in Users /\ DevRuns(w))
                          /\ \A j \in PracticeSets : WF_developmentVars(w \in Users /\ j \in Wanted(w) /\ binding = j /\ run_practice_set(w, j))

-----------------------------------------------------------------------------
(* Import: two registrations of which one file is the same, two processes. *)
(* One process meets every kind of file, replaced at any moment; two       *)
(* processes run one registration; or two registrations of one content     *)
(* meet revocations and their cleanup.                                     *)

MCSourcesOf == (i1 :> <<f1, f2>>) @@ (i2 :> <<f3>>)
MCContentOf == (f1 :> "alpha") @@ (f2 :> "beta") @@ (f3 :> "alpha")
MCSizeOf == ("alpha" :> 1) @@ ("beta" :> 2) @@ ("foreign" :> 3)
MCEventsOf == ("alpha" :> 1) @@ ("beta" :> 2)

Importing == {"files", "race", "shared"}

Procs == IF part = "files" THEN {p1} ELSE IF part \in Importing THEN ImportProcs ELSE {}
Asked(p) == IF part = "shared" /\ p = p2 THEN {i2} ELSE {i1}

ImportPart ==
    \/ \E p \in Procs : ImportStep(p) \/ \E i \in Asked(p) : register(p, i) \/ execute(p, i) \/ read_material(p, i)
    \/ part = "race" /\ \E p \in Procs : import_crash(p)
    \/ part = "files" /\ \E s \in {f1, f2} : \E c \in {ContentOf[s], "foreign"} \cup Unreadable : file_changes(s, c)
    \/ part = "race" /\ \E s \in {f1, f2} : file_changes(s, "foreign")
    \/ part = "race" /\ import_revoke(None)
    \/ part = "shared" /\ \E s \in {f1, f3} : import_revoke(s) \/ import_cleanup(s)

ImportPartFair ==
    \A p \in ImportProcs : /\ WF_importVars(p \in Procs /\ ImportStep(p))
                           /\ \A i \in Imports : WF_importVars(p \in Procs /\ i \in Asked(p) /\ selection[i].state = "prepared" /\ register(p, i))

-----------------------------------------------------------------------------
(* Packages: two operators, three assets under a limit of two.  Packages   *)
(* and seeds against the limit; two operators hand one asset over; one     *)
(* asset, two operators, its exports.                                      *)

Packaging == {"staging", "handoff", "exports"}

PackagesPart ==
    \/ \E o \in Operators : OperatorStep(o)
    \/ part = "staging" /\ \E a \in Assets :
         \/ stage_package(o1, a) \/ abort_staged(o1, a) \/ read_install(o2, a)
         \/ a = a1 /\ \E l, u \in SeedContents, confirmed \in BOOLEAN : install_seed(o1, a, l, u, confirmed)
    \/ part # "staging" /\ \E o \in Operators : stage_package(o, a1) \/ abort_staged(o, a1)
    \/ part = "handoff" /\ \E o \in Operators, c \in Candidates : begin_handoff(o, a1, c)
    \/ part = "exports" /\ \E o \in Operators, e \in Exports : begin_export(o, e, a1) \/ begin_complete(o, e) \/ begin_abort(o, e)
    \/ part = "exports" /\ (package_cleanup \/ \E o \in Operators : package_crash(o))
    \/ part = "staging" /\ dependency_changes
    \/ \E source \in BOOLEAN : package_revoke(source)

PackagesPartFair ==
    \A o \in Operators : /\ WF_packageVars(part \in Packaging /\ OperatorStep(o))
                         /\ \A e \in Exports : SF_packageVars(part = "exports" /\ e \in exportDir /\ begin_complete(o, e))

-----------------------------------------------------------------------------

MCInit ==
    /\ part \in Developing \cup Importing \cup Packaging
    /\ DevelopmentInit /\ ImportInit /\ PackagesInit
    /\ (runner = "projection" => part \in {"request", "two requests"})
    /\ (part # "set" => devScore = <<1, 0>>)
    /\ (part # "files" => file = [s \in ImportSources |-> ContentOf[s]])
    /\ file[f3] = ContentOf[f3]
    /\ (part # "staging" => dependency = TRUE)

MCNext ==
    /\ UNCHANGED part
    /\ \/ part \in Developing /\ DevelopmentPart /\ UNCHANGED <<importVars, packageVars>>
       \/ part \in Importing /\ ImportPart /\ UNCHANGED <<developmentVars, packageVars>>
       \/ part \in Packaging /\ PackagesPart /\ UNCHANGED <<developmentVars, importVars>>

MaterialsSpec == MCInit /\ [][MCNext]_materialsVars /\ DevelopmentPartFair /\ ImportPartFair /\ PackagesPartFair

\* What no step does: evidence of an attempt and facts of an import are not written
\* over, nothing is recorded after a revocation, an asset has one candidate, nothing
\* is delivered late, and an operator's edits are kept.
MaterialsStand ==
    /\ EvidenceStands
    /\ ImportFactsStand
    /\ NothingAfterRevocation
    /\ OneCandidatePerAsset
    /\ NothingDeliveredLate
    /\ EditsAreKept

\* What was begun ends: the set bound to a registration is stored, a registered
\* import is settled, a directory that was renamed is recorded.
MaterialsEnd ==
    /\ BoundSetIsStored
    /\ RegistrationEnds
    /\ PublishedIsRecovered
=============================================================================
