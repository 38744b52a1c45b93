----------------------------- MODULE MCServices -----------------------------
(***************************************************************************)
(* Instances of the modules whose operations are transactions asked for    *)
(* from outside: releases and host runs, the formal authority, the         *)
(* document store, replay economics and the curriculum.  A behaviour is of *)
(* one of them (part), and the others stay where they begin.               *)
(***************************************************************************)
EXTENDS HostRun, Authority, DocumentStore, ReplayEconomics, Curriculum, TLC

VARIABLE part

-----------------------------------------------------------------------------
(* Releases: 2 descends from 1, 3 from the root; two reports judge 3.      *)
(* Part "lines" starts from nothing.  In the others r1 is active and r3    *)
(* in canary over it, and calls a and b carry one key, d another key and   *)
(* the other kind of configuration.                                        *)

MCProfileOf == [c \in Candidates |-> "p"]
MCParentOf == (1 :> 0 @@ 2 :> 1 @@ 3 :> 0)
MCSourcesOf == (1 :> {"s"} @@ 2 :> {} @@ 3 :> {})
MCJudges == ("r1" :> 1 @@ "r2" :> 2 @@ "r3" :> 3 @@ "r4" :> 3)
MCHostOf == ("g" :> "h" @@ "g2" :> "h2")

Call(key, kind, evolve) == [key |-> key, kind |-> kind, profile |-> "p", evolve |-> evolve, surface |-> "u"]
MCConfig == ("a" :> Call("k", "legacy", TRUE) @@ "b" :> Call("k", "legacy", TRUE)
             @@ "d" :> Call("l", "complete", FALSE))
MCPredecessor == [u \in Surfaces |-> None]
MCFactSource == [n \in Runs |-> "s"]

WarmRow(state, writes, base) == [state |-> state, writes |-> writes, base |-> base, host |-> "h"]
WarmPointer(active, epoch, host) == [active |-> active, epoch |-> epoch, host |-> host]
WarmBinding(at) == [at |-> at, watermark |-> 0, line |-> {}, reg |-> "g"]
WarmAuthority == [watermark |-> 0, line |-> {}, reg |-> "g"]

WarmRelease ==
    /\ revoked = {} /\ selection = [p \in Profiles |-> "g"]
    /\ cand = (1 :> WarmBinding(WarmPointer(None, 0, None)) @@ 2 :> Unstaged
               @@ 3 :> WarmBinding(WarmPointer("r1", 1, "h")))
    /\ issued = ("r1" :> WarmAuthority @@ "r3" :> WarmAuthority @@ [r \in Reports |-> Unissued])
    /\ rel = ("r1" :> WarmRow("active", 3, None) @@ "r3" :> WarmRow("canary", 2, "r1")
              @@ [r \in Reports |-> [state |-> "none", writes |-> 0, base |-> None, host |-> None]])
    /\ parentSel = (1 :> "r1" @@ 2 :> None @@ 3 :> "r3")
    /\ pointer = [p \in Profiles |-> WarmPointer("r1", 1, "h")]

\* The two releases, and one registration.  Either three prepares race, or what two
\* runs leave behind is recorded.
RunsNext ==
    /\ HostNext
    /\ UNCHANGED selection /\ cand'[2] = cand[2] /\ issued'["r4"] = issued["r4"]
    /\ part = "runs" => UNCHANGED notes
    /\ part = "notes" => pc'["b"] = pc["b"]

-----------------------------------------------------------------------------
(* Authority: two hosts of the same users, one of them complete.  Part     *)
(* "registry" is the registrations of both hosts, part "evaluation" the    *)
(* evaluation and release of one candidate.                                *)

MCASet == [h \in AHosts |-> [Host |-> 1, Evaluator |-> 2, Admin |-> 3, Worker |-> 4]]
MCAProviders == "p1" :> [host |-> "h1", source |-> TRUE] @@ "p2" :> [host |-> "h2", source |-> FALSE]
MCAMeters == "m1" :> "h1" @@ "m2" :> "h2"
MCAProfiles == "f1" :> [host |-> "h1", provider |-> "p1", meter |-> "m1"]
                 @@ "f2" :> [host |-> "h2", provider |-> "p2", meter |-> "m2"]

Registry == {"bootstrap", "register_provider", "register_meter", "freeze_profile", "empty_root", "stage"}

\* The second host has everything registered, its provider with two bodies; the
\* first, whose meter and profile are in part "evaluation", only its provider.
RegistryCommand(op, cap) ==
    \/ op = "bootstrap" /\ cap # None /\ \E h \in AHosts : bootstrap(h, 1, cap)
    \/ op = "register_provider" /\ (register_provider("p1", 1, cap) \/ \E v \in AVersions : register_provider("p2", v, cap))
    \/ op = "register_meter" /\ register_meter("m2", 1, cap)
    \/ op = "freeze_profile" /\ freeze_profile("f2", 1, cap)
    \/ op = "empty_root" /\ authorize_empty_root("f2", cap)
    \/ op = "stage" /\ stage(cap)

RegistryNext ==
    \/ register_host("h2", 1)
    \/ \E op \in Registry : \E cap \in serve_connection(op) \cup {None} : RegistryCommand(op, cap)
    \/ \E h \in AHosts : grader[h] = None /\ restart_grader(h, IF h = "h1" THEN 2 ELSE 3)

OneVersion(op, cap) ==
    \/ op = "bootstrap" /\ bootstrap("h1", 1, cap)
    \/ op = "register_provider" /\ register_provider("p1", 1, cap)
    \/ op = "register_meter" /\ register_meter("m1", 1, cap)
    \/ op = "freeze_profile" /\ freeze_profile("f1", 1, cap)
    \/ op = "empty_root" /\ authorize_empty_root("f1", cap)
    \/ op = "stage" /\ stage(cap)
    \/ op = "register_control" /\ register_control("h1", cap)
    \/ \E n \in DOMAIN Statuses : op = Statuses[n] /\ write_release(n, cap)

\* The administrator moves the selection to the other host, after a release.
Reselect ==
    \/ grader["h2"] = None /\ metering = None /\ \E pid \in APids : restart_grader("h2", pid)
    \/ \E op \in {"bootstrap", "register_provider", "register_meter", "freeze_profile"} :
          \E cap \in serve_connection(op) :
             /\ cap.host = "h2"
             /\ \/ op = "bootstrap" /\ bootstrap("h2", 1, cap)
                \/ op = "register_provider" /\ register_provider("p2", 1, cap)
                \/ op = "register_meter" /\ register_meter("m2", 1, cap)
                \/ op = "freeze_profile" /\ freeze_profile("f2", 1, cap)

EvaluationNext ==
    \/ \E op \in Operations : \E cap \in serve_connection(op) : cap.host = "h1" /\ OneVersion(op, cap)
    \/ /\ grader["h2"] = None
       /\ \/ connect("p1") \/ execute_formal \/ capture_independent_grade
          \/ begin_measurement \/ measure \/ record_cost \/ lose_measurement \/ issue_report \/ late_usage
          \/ restart_host(3) \/ (grader["h1"] = None /\ restart_grader("h1", 2)) \/ restart_grader("h1", 3)
    \/ (Stored(reg, ReleaseId) /\ Reselect)

-----------------------------------------------------------------------------
(* Document store: sessions of two namespaces; each part looks at one kind *)
(* of row.                                                                 *)

Rows == {"artifacts", "runs rows", "requests", "audit", "graph", "worlds", "blobs"}

\* Requests and the graph are of one namespace, and only they and the audit tell
\* the roles apart.
DSession ==
    \E n \in IF part \in {"requests", "graph", "blobs"} THEN {"n1"} ELSE DSpaces :
        \E role \in IF part \in {"requests", "audit", "artifacts"} THEN DRoles ELSE {"Admin"} :
            session(n, role, part = "blobs")

\* The second namespace only takes a slot.
ArtifactsNext ==
    \E a \in DArtifacts : /\ (tx # None => tx.space = "n1" \/ a = "a1")
                         /\ ((\E row \in ArtifactRow : put_artifact(a, row)) \/ delete_artifact(a))
RunRowsNext == \E r \in DRunIds : put_run(r) \/ delete_run(r)
RequestsNext == redact_cache \/ \E k \in DKeys : \E x \in DArgs : serve(k, x) \/ replay(k, x)
AuditNext == write_audit("put") \/ \E r \in DRunIds : audit_service_success(r)

\* One source and what is derived from it, the longer closures beyond the bound.
GraphNext ==
    \/ revoke_node("s1") \/ revoke_node("d1")
    \/ \E d \in DNodes \ {"s1"} : \E S \in {T \in SUBSET DNodes : Cardinality(T) \in 1..2} : derive(d, S)
WorldsNext == \E w \in DWorldIds : \E sealed \in BOOLEAN : \E b \in DBodies : put_world(w, sealed, b)
BlobsNext ==
    \/ \E n \in DSpaces : \E b \in DBlobs : put_blob(n, b) \/ delete_blob(n, b)
    \/ \E bs \in SUBSET DBlobs : register_envelope(bs)
    \/ \E b \in DBlobs : publish_in_session(b)

DocumentNext ==
    \/ DSession \/ commit \/ drop_session
    \/ part = "artifacts" /\ ArtifactsNext
    \/ part = "runs rows" /\ RunRowsNext
    \/ part = "requests" /\ RequestsNext
    \/ part = "audit" /\ AuditNext
    \/ part = "graph" /\ GraphNext
    \/ part = "worlds" /\ WorldsNext
    \/ part = "blobs" /\ BlobsNext

-----------------------------------------------------------------------------
(* Economics: two requests race over one administrator's receipt (part     *)
(* "costs"), or one request at a time over two of them (part "receipts").  *)

EconomicsNext ==
    /\ economics_next
    /\ part = "costs" => ecoReceipts'["a2"] = None /\ \A p \in EcoProcs : ecoProc'[p].id # "a2"
    /\ part = "receipts" => ecoProc'["p2"] = IdleRequest

-----------------------------------------------------------------------------
(* Curriculum: two families, one a registered bucket; cycles that fail,    *)
(* regress, pass.  The parts are the records and their retests, the choice *)
(* between proposals, and the triggers with their jobs, where a source of  *)
(* the learner may be revoked as well.                                     *)

Fails     == [passed |-> FALSE, gain |-> -2]
Regresses == [passed |-> TRUE, gain |-> -1]
Passes    == [passed |-> TRUE, gain |-> 0]

MCCBucket == "f1" :> 1
MCCCycles == "c1" :> ("f1" :> Fails @@ "f2" :> Passes) @@ "c2" :> ("f1" :> Regresses)
               @@ "c3" :> ("f1" :> Passes) @@ "c4" :> ("f2" :> Fails) @@ "c5" :> ("f2" :> Passes)
MCCReleases == "r1" :> {"f1"} @@ "r2" :> {"f1", "f2"}
MCCProposals == "p1" :> [family |-> "f1", bucket |-> "f1", seq |-> 2, offline |-> TRUE]
                  @@ "p2" :> [family |-> "f2", bucket |-> None, seq |-> 1, offline |-> TRUE]

Failing == {"c1", "c2", "c3"}

RetestNext ==
    \/ register_learner \/ \E c \in Failing : record_cycle(c)
    \/ \E b \in CBudgets : cjobs = <<>> /\ schedule_probe(b) /\ b = 1
    \/ \E t \in DOMAIN cjobs : store_proposal("p1", t)
    \/ record_validity_report("p1", "verified")
    \/ \E offered \in SUBSET creports : select_next_task(offered)
    \/ \E r \in DOMAIN CReleases : record_applied_asset(r) \/ activate_release(r) \/ roll_back(r)

ChoiceNext ==
    \/ register_learner \/ \E c \in {"c1", "c4"} : record_cycle(c)
    \/ \E b \in CBudgets : cjobs = <<>> /\ schedule_probe(b) /\ b = 1
    \/ \E p \in DOMAIN CProposals : \/ \E t \in DOMAIN cjobs : store_proposal(p, t)
                                    \/ \E v \in {"verified", "quarantined"} : record_validity_report(p, v)
    \/ record_validity_report("p2", "unavailable")
    \/ \E offered \in SUBSET creports : select_next_task(offered)
    \/ record_applied_asset("r2") \/ activate_release("r2") \/ roll_back("r2")

TriggerNext ==
    \/ register_learner \/ \E c \in {"c1", "c3", "c4", "c5"} : record_cycle(c)
    \/ \E b \in CBudgets : schedule_probe(b) \/ \E k \in CKeys : schedule_probe_idempotent(k, b)
    \/ curriculum_revoke \/ redact_learner

-----------------------------------------------------------------------------

HostParts == {"lines", "runs", "notes"}
AuthorityParts == {"registry", "evaluation"}
EconomicsParts == {"costs", "receipts"}
CurriculumParts == {"retest", "choice", "trigger"}

hosted == <<relVars, serviceVars>>

servicesVars == <<hosted, avars, dvars, ecovars, cvars, part>>

MCInit ==
    /\ part \in HostParts \cup AuthorityParts \cup Rows \cup EconomicsParts \cup CurriculumParts
    /\ (IF part \in {"runs", "notes"} THEN WarmRelease ELSE ReleaseInit) /\ ServiceInit
    /\ authority_init /\ document_init /\ economics_init /\ curriculum_init

MCNext ==
    /\ UNCHANGED part
    /\ \/ /\ UNCHANGED <<avars, dvars, ecovars, cvars>>
          /\ \/ part = "lines" /\ ReleaseNext /\ UNCHANGED serviceVars
             \/ part \in {"runs", "notes"} /\ RunsNext
       \/ /\ UNCHANGED <<hosted, dvars, ecovars, cvars>>
          /\ \/ part = "registry" /\ RegistryNext
             \/ part = "evaluation" /\ EvaluationNext
       \/ /\ part \in Rows /\ UNCHANGED <<hosted, avars, ecovars, cvars>>
          /\ DocumentNext
       \/ /\ part \in EconomicsParts /\ UNCHANGED <<hosted, avars, dvars, cvars>>
          /\ EconomicsNext
       \/ /\ UNCHANGED <<hosted, avars, dvars, ecovars>>
          /\ \/ part = "retest" /\ RetestNext
             \/ part = "choice" /\ ChoiceNext
             \/ part = "trigger" /\ TriggerNext

ServicesSpec == MCInit /\ [][MCNext]_servicesVars

\* What no step does to stored records: change a registered body, lose history,
\* write on a sealed world, commit an envelope without its bytes, change a final
\* cost or the costs of a job, report over revoked sources or on another job, drop
\* evidence, retest twice, lift a quarantine, start a cooldown again, or give a key
\* another job.
StoredStands ==
    /\ RegisteredForGood
    /\ HistoryKept
    /\ SealedForGood
    /\ BytesStandAtCommit
    /\ FinalStays
    /\ JobKeepsItsCosts
    /\ OverStandingSources
    /\ ReportIsOfTheJob
    /\ EvidenceIsKept
    /\ RetestIsOneShot
    /\ QuarantineWins
    /\ CooldownStartsOnce
    /\ KeyKeepsItsJob
=============================================================================
