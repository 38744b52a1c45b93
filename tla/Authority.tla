----------------------------- MODULE Authority -----------------------------
(***************************************************************************)
(* The formal authority (evo-engine formal_authority.rs): who registered   *)
(* what, under which operating system principal, and what may be consumed. *)
(* A registration is a stored body, the latest witness of its content in   *)
(* the audit log and, once its host has a principal set, the action of an  *)
(* authenticated peer that signs exactly this body.                        *)
(*                                                                         *)
(* Every action is one store session; what a caller does between two       *)
(* sessions (measuring an episode, holding a transport) is two actions.  A *)
(* body is what distinguishes it from others of its id: a version, the     *)
(* profile it names, a status.  A credential is named by its owner's uid.  *)
(***************************************************************************)
EXTENDS Common

CONSTANTS
    AHosts, AComplete,  \* host registrations, the complete (v2) ones of them
    AUids,              \* operating system users
    ASet,               \* host -> role -> uid: the set its credentials bind
    AProviders,         \* provider -> [host, source]
    AMeters,            \* meter -> host
    AProfiles,          \* profile registration -> [host, provider, meter]
    APids, AVersions,   \* process ids, versions of a submitted body
    ABound              \* times the root changes after its seal, at most

Roles == {"Host", "Evaluator", "Admin", "Worker"}

\* What an operator may ask for, and what an administrator may.
Admins == {"bootstrap", "register_provider", "register_meter", "freeze_profile", "empty_root",
           "approve", "canary", "activate"}
Operations == Admins \cup {"stage", "register_control"}

\* The credential in scope while a command is executed.
Capability == [host : AHosts, uid : AUids, role : Roles, op : Operations \cup {"issue_report"}]

\* validate_loaded: four users, one per role.
validate_loaded(set) == set \in [Roles -> AUids] /\ \A r, q \in Roles : set[r] = set[q] => r = q

ASSUME AuthorityShape ==
    /\ AComplete \subseteq AHosts /\ DOMAIN ASet = AHosts /\ \A h \in AHosts : validate_loaded(ASet[h])
    /\ \A p \in DOMAIN AProviders : AProviders[p].host \in AHosts
    /\ \A f \in DOMAIN AProfiles : /\ AProfiles[f].host \in AHosts
                                   /\ AProfiles[f].provider \in DOMAIN AProviders
                                   /\ AProfiles[f].meter \in DOMAIN AMeters
    /\ 1 \in APids /\ ABound \in Nat

\* A command without an operator's connection has none.
ASSUME AuthorityAbsent == None \notin Capability

VARIABLES
    reg,        \* [docs, wit, acts]: bodies, latest witnesses, signed actions
    grader,     \* host -> pid of its grader process (the authority service)
    hostpid,    \* pid of the host process
    transport,  \* None or [provider, pid]: the connected transport
    metering,   \* None or [profile, seal, meter]: a measurement under way
    seal,       \* the sealed root: changes so far
    did         \* <<host, uid, operation, id, body>> authenticated commands, a history

avars == <<reg, grader, hostpid, transport, metering, seal, did>>

-----------------------------------------------------------------------------
(* Stored bodies, witnesses and actions.                                   *)

\* A row is inserted, or replaced.
Put(table, key, row) == [k \in DOMAIN table \cup {key} |-> IF k = key THEN row ELSE table[k]]

Stored(s, id) == id \in DOMAIN s.docs
Write(s, id, body) == [s EXCEPT !.docs = Put(@, id, body)]

immutable(s, id, body) == Stored(s, id) => s.docs[id] = body

write_content_witness(s, role, id) ==
    [s EXCEPT !.wit = Put(@, <<role, id>>, s.docs[id])]

require_content_witness(s, role, id) ==
    Stored(s, id) /\ <<role, id>> \in DOMAIN s.wit /\ s.wit[<<role, id>>] = s.docs[id]

\* The host a body's schema names; other bodies have no registered host.
Governed(id) == id[1] \in {"host", "provider", "meter", "profile", "pointer", "root", "parent", "release"}
PointerId == <<"pointer", "profile">>
RootId == <<"root", "root">>
ParentId == <<"parent", "root">>

\* host_id_for_profile: through the witnessed selection to its witnessed profile.
host_id_for_profile(s) ==
    IF require_content_witness(s, "Admin", PointerId)
         /\ require_content_witness(s, "Admin", <<"profile", s.docs[PointerId]>>)
    THEN AProfiles[s.docs[PointerId]].host ELSE None

named_host(s, id) ==
    CASE id[1] = "host" -> id[2]
      [] id[1] = "provider" -> AProviders[id[2]].host
      [] id[1] = "meter" -> AMeters[id[2]]
      [] id[1] = "profile" -> AProfiles[id[2]].host
      [] id[1] = "pointer" -> IF require_content_witness(s, "Admin", <<"profile", s.docs[id]>>)
                              THEN AProfiles[s.docs[id]].host ELSE None
      [] id[1] = "root" -> AProfiles[s.docs[id]].host
      [] id[1] = "parent" -> IF require_content_witness(s, "Admin", RootId)
                             THEN AProfiles[s.docs[RootId]].host ELSE None
      [] id[1] = "release" -> host_id_for_profile(s)

registered_subject_host(s, id) ==
    LET h == named_host(s, id)
    IN  IF h # None /\ require_content_witness(s, "Admin", <<"host", h>>) THEN h ELSE None

has_set(s, h) == Stored(s, <<"set", h>>)
enforced(s, h) == h \in AComplete \/ has_set(s, h)

principal_set(s, h) ==
    \A role \in {"Admin", "Evaluator"} : require_content_witness(s, role, <<"set", h>>)

-----------------------------------------------------------------------------
(* Operators and what they sign.                                           *)

command_role(op) == IF op = "stage" THEN "Worker" ELSE IF op = "register_control" THEN "Evaluator" ELSE "Admin"

authenticate_operator_peer(h, uid, credential, op) ==
    uid = ASet[h][command_role(op)] /\ credential = ASet[h][command_role(op)]

\* One credential per connection the service of a host accepts.
serve_connection(op) ==
    {[host |-> x[1], uid |-> x[2], role |-> command_role(op), op |-> op] :
       x \in {x \in AHosts \X AUids \X AUids :
                grader[x[1]] # None /\ authenticate_operator_peer(x[1], x[2], x[3], op)}}

may_sign(s, cap, h, role) ==
    /\ principal_set(s, h) /\ cap # None /\ cap.role = role /\ cap.host = h
    /\ cap.uid = ASet[h][role] /\ grader[h] # None

persist_principal_action(s, cap, h, id, role) ==
    [s EXCEPT !.acts = Put(@, <<id, role>>, [host |-> h, uid |-> cap.uid, op |-> cap.op, body |-> s.docs[id]])]

\* require_principal_action: the set's principal signed exactly this body.
require_principal_action(s, h, id, role) ==
    /\ principal_set(s, h) /\ Stored(s, id) /\ <<id, role>> \in DOMAIN s.acts
    /\ LET a == s.acts[<<id, role>>]
       IN  /\ a.host = h /\ a.uid = ASet[h][role] /\ a.body = s.docs[id]
           /\ a.op \in (CASE role = "Worker" -> {"stage"} [] role = "Admin" -> Admins
                          [] role = "Evaluator" -> {"register_control", "issue_report"})

\* A source bound provider is read only as the very request that registered it.
require_provider_source(s, id) ==
    /\ AProviders[id[2]].source
    => require_principal_action(s, AProviders[id[2]].host, id, "Admin") /\ s.acts[<<id, "Admin">>].op = "register_provider"

require_registered_body_authority(s, id) ==
    Governed(id) =>
      LET h == registered_subject_host(s, id)
      IN  /\ h # None /\ (enforced(s, h) => require_principal_action(s, h, id, "Admin"))
          /\ id[1] = "provider" => require_provider_source(s, id)

attested_read(s, id) ==
    require_content_witness(s, "Admin", id) /\ require_registered_body_authority(s, id)

require_registered_admin(s, cap, h) ==
    IF has_set(s, h) THEN may_sign(s, cap, h, "Admin") ELSE h \notin AComplete

\* attest_content as administrator: the witness, then the operator's action.
may_attest(s, cap, id) ==
    LET w == write_content_witness(s, "Admin", id)
        h == registered_subject_host(w, id)
    IN  Governed(id) => h # None /\ (enforced(w, h) => may_sign(w, cap, h, "Admin"))

attest_content(s, cap, id) ==
    LET w == write_content_witness(s, "Admin", id)
        h == registered_subject_host(w, id)
    IN  IF Governed(id) /\ enforced(w, h) THEN persist_principal_action(w, cap, h, id, "Admin") ELSE w

\* What an operator's session leaves behind: the store and the history.
Commit(s, cap, ids) ==
    /\ reg' = s
    /\ did' = IF cap = None THEN did ELSE did \cup {<<cap.host, cap.uid, cap.op, id, s.docs[id]>> : id \in ids}

Elsewhere == UNCHANGED <<grader, hostpid, transport, metering, seal>>

-----------------------------------------------------------------------------
(* Registrations.                                                          *)

\* register_host: called without an operator's connection.
register_host(h, v) ==
    LET id == <<"host", h>>
        s  == Write(reg, id, v)
    IN  /\ immutable(reg, id, v) /\ may_attest(s, None, id)
        /\ Commit(attest_content(s, None, id), None, {}) /\ Elsewhere

\* Bootstrap: the host, then its observed principal set under two witnesses,
\* then the host again, signed.  The observation names the grader's process.
bootstrap(h, v, cap) ==
    LET host == <<"host", h>>
        set  == <<"set", h>>
        s    == write_content_witness(Write(reg, host, v), "Admin", host)
        o    == Write(s, set, grader[h])
        w    == write_content_witness(write_content_witness(o, "Admin", set), "Evaluator", set)
    IN  /\ cap.host = h /\ immutable(reg, host, v)
        /\ h \notin AComplete => may_attest(Write(reg, host, v), cap, host)
        /\ immutable(s, set, grader[h]) /\ may_attest(w, cap, host)
        /\ Commit(attest_content(w, cap, host), cap, {host, set}) /\ Elsewhere

\* register_provider, register_provider_source and register_resource_instrumentation.
register(id, h, v, cap) ==
    LET s == Write(reg, id, v)
    IN  /\ attested_read(reg, <<"host", h>>) /\ require_registered_admin(reg, cap, h)
        /\ immutable(reg, id, v) /\ may_attest(s, cap, id)
        /\ Commit(attest_content(s, cap, id), cap, {id}) /\ Elsewhere

register_provider(p, v, cap) ==
    /\ AProviders[p].source => cap # None /\ principal_set(reg, AProviders[p].host)
    /\ register(<<"provider", p>>, AProviders[p].host, v, cap)

register_meter(m, v, cap) == register(<<"meter", m>>, AMeters[m], v, cap)

\* freeze_profile: the registration is immutable, the selection moves to it.
freeze_profile(f, v, cap) ==
    LET p == AProfiles[f]
        id == <<"profile", f>>
        s == attest_content(Write(reg, id, v), cap, id)
        t == Write(s, PointerId, f)
    IN  /\ attested_read(reg, <<"host", p.host>>) /\ attested_read(reg, <<"provider", p.provider>>)
        /\ require_registered_admin(reg, cap, p.host) /\ AProviders[p.provider].host = p.host
        /\ immutable(reg, id, v) /\ may_attest(Write(reg, id, v), cap, id)
        /\ attested_read(s, <<"meter", p.meter>>) /\ AMeters[p.meter] = p.host
        /\ may_attest(t, cap, PointerId)
        /\ Commit(attest_content(t, cap, PointerId), cap, {id, PointerId}) /\ Elsewhere

\* authorize_empty_root: the root of a profile and the parent selection it is.
authorize_empty_root(f, cap) ==
    LET h == AProfiles[f].host
        s == attest_content(Write(reg, RootId, f), cap, RootId)
        t == Write(s, ParentId, "root")
    IN  /\ attested_read(reg, <<"profile", f>>) /\ attested_read(reg, <<"host", h>>)
        /\ require_registered_admin(reg, cap, h)
        /\ immutable(reg, RootId, f) /\ may_attest(Write(reg, RootId, f), cap, RootId)
        /\ may_attest(t, cap, ParentId)
        /\ Commit(attest_content(t, cap, ParentId), cap, {RootId, ParentId}) /\ Elsewhere

-----------------------------------------------------------------------------
(* A candidate, its evaluation and its release.                            *)

CandidateId == <<"candidate", "c">>
ControlId == <<"control", "k">>
CaptureId == <<"capture", "t">>
GradeId == <<"grade", "t">>
CostId == <<"cost", "t">>
ReportId == <<"report", "t">>
IssuedId == <<"issued", "t">>
ReleaseId == <<"release", "r">>

\* What resolving a bundle reads: the selection, its profile, the parent.
resolve_current_bundle(s) ==
    /\ attested_read(s, PointerId) /\ attested_read(s, <<"profile", s.docs[PointerId]>>)
    /\ attested_read(s, ParentId) /\ attested_read(s, RootId) /\ s.docs[RootId] = s.docs[PointerId]

Profile(s) == s.docs[PointerId]
Host(s) == AProfiles[Profile(s)].host

\* stage_current_bundle: without a principal set a candidate stays unsigned.
stage(cap) ==
    LET s == Write(reg, CandidateId, Profile(reg))
        h == Host(reg)
    IN  /\ resolve_current_bundle(reg) /\ attested_read(reg, <<"host", h>>)
        /\ immutable(reg, CandidateId, Profile(reg))
        /\ has_set(reg, h) => may_sign(reg, cap, h, "Worker")
        /\ IF has_set(reg, h)
           THEN Commit(persist_principal_action(s, cap, h, CandidateId, "Worker"), cap, {CandidateId})
           ELSE Commit(s, None, {})
        /\ Elsewhere

\* bind_control_principals: the control names the four actors of one set.
register_control(h, cap) ==
    LET s == Write(reg, ControlId, h)
    IN  /\ cap.host = h /\ attested_read(reg, <<"host", h>>) /\ principal_set(reg, h)
        /\ immutable(reg, ControlId, h) /\ may_sign(reg, cap, h, "Evaluator")
        /\ Commit(persist_principal_action(s, cap, h, ControlId, "Evaluator"), cap, {ControlId})
        /\ Elsewhere

verify_candidate_principals(s, h) ==
    /\ attested_read(s, <<"host", h>>) /\ principal_set(s, h)
    /\ require_principal_action(s, h, CandidateId, "Worker")
    /\ require_principal_action(s, h, ControlId, "Evaluator") /\ s.docs[ControlId] = h

\* connect: the registrations are read in a session, the process is held.
connect(p) ==
    /\ attested_read(reg, <<"provider", p>>) /\ attested_read(reg, <<"host", AProviders[p].host>>)
    /\ principal_set(reg, AProviders[p].host)
    /\ transport' = [provider |-> p, pid |-> hostpid]
    /\ UNCHANGED <<reg, grader, hostpid, metering, seal, did>>

\* prepare_formal_task and verify_formal_task_in_session: the candidate is
\* still the one of the selected profile.
task_is_current(s) ==
    Stored(s, CandidateId) /\ resolve_current_bundle(s) /\ s.docs[CandidateId] = Profile(s)

\* validate_in_session: the registrations again, and the process of connect.
transport_stands(s) ==
    LET p == transport.provider
    IN  /\ attested_read(s, <<"provider", p>>) /\ attested_read(s, <<"host", AProviders[p].host>>)
        /\ principal_set(s, AProviders[p].host)
        /\ AProfiles[Profile(s)].provider = p /\ hostpid = transport.pid

persist_formal_capture(b) ==
    /\ immutable(reg, CaptureId, b)
    /\ reg' = write_content_witness(Write(reg, CaptureId, b), "Host", CaptureId)

\* The record of the answer: whose transport, and the process that gave it.
formal_capture == [provider |-> transport.provider, pid |-> hostpid]

\* execute_formal: an answer that is refused or unreadable leaves no capture.
execute_formal ==
    /\ transport # None /\ task_is_current(reg) /\ transport_stands(reg)
    /\ persist_formal_capture(formal_capture)
    /\ UNCHANGED <<did, grader, hostpid, transport, metering, seal>>

\* capture_independent_grade: by the running grader of the selected host.
capture_independent_grade ==
    LET b == grader[Host(reg)]
    IN  /\ resolve_current_bundle(reg) /\ verify_candidate_principals(reg, Host(reg))
        /\ b # None /\ immutable(reg, GradeId, b)
        /\ reg' = write_content_witness(Write(reg, GradeId, b), "Evaluator", GradeId)
        /\ UNCHANGED <<did, grader, hostpid, transport, metering, seal>>

\* capture_episode_cost, first session: the seal and the meter are read.
begin_measurement ==
    LET f == Profile(reg)
    IN  /\ metering = None /\ Stored(reg, PointerId) /\ Stored(reg, ControlId)
        /\ attested_read(reg, <<"profile", f>>) /\ attested_read(reg, <<"host", AProfiles[f].host>>)
        /\ attested_read(reg, <<"meter", AProfiles[f].meter>>) /\ AMeters[AProfiles[f].meter] = AProfiles[f].host
        /\ principal_set(reg, AProfiles[f].host)
        /\ metering' = [profile |-> f, seal |-> seal, measured |-> None]
        /\ UNCHANGED <<reg, grader, hostpid, transport, seal, did>>

\* The instrumentation answers with what the root holds at that time.
measure ==
    /\ metering # None /\ metering.measured = None
    /\ metering' = [metering EXCEPT !.measured = seal]
    /\ UNCHANGED <<reg, grader, hostpid, transport, seal, did>>

\* Mistake: the root is not read again after the measurement.
root_unread == TRUE

\* capture_episode_cost, second session: the same seal, the same meter.
root_unchanged == metering.seal = seal

record_cost ==
    LET f == metering.profile
        b == [profile |-> f, seal |-> metering.seal, measured |-> metering.measured]
    IN  /\ metering # None /\ metering.measured # None /\ root_unchanged
        /\ attested_read(reg, <<"profile", f>>) /\ attested_read(reg, <<"meter", AProfiles[f].meter>>)
        /\ principal_set(reg, AProfiles[f].host) /\ immutable(reg, CostId, b)
        /\ reg' = write_content_witness(Write(reg, CostId, b), "Host", CostId)
        /\ metering' = None
        /\ UNCHANGED <<did, grader, hostpid, transport, seal>>

\* A measurement that is refused, lost or finds the root changed.
lose_measurement ==
    /\ metering # None /\ metering' = None
    /\ UNCHANGED <<reg, grader, hostpid, transport, seal, did>>

\* validate_episode_meter_sources against the root as it is sealed now.
cost_stands(s) ==
    /\ require_content_witness(s, "Host", CostId)
    /\ s.docs[CostId].profile = Profile(s) /\ s.docs[CostId].seal = seal
    /\ attested_read(s, <<"meter", AProfiles[Profile(s)].meter>>)

capture_stands(s) ==
    /\ require_content_witness(s, "Host", CaptureId)
    /\ attested_read(s, <<"provider", s.docs[CaptureId].provider>>)
    /\ AProviders[s.docs[CaptureId].provider].host = Host(s)

\* The grade was captured by a grader, and not by the process it grades.
grade_stands(s) ==
    /\ require_content_witness(s, "Evaluator", GradeId)
    /\ s.docs[GradeId] # s.docs[CaptureId].pid

\* complete_authority_material: everything a report is issued from.
complete_authority_material(s) ==
    /\ task_is_current(s)
    /\ verify_candidate_principals(s, Host(s)) /\ cost_stands(s) /\ capture_stands(s)
    /\ grade_stands(s)

\* issue_complete_authority: signed by the grader process itself.
issue_report ==
    LET h   == Host(reg)
        cap == [host |-> h, uid |-> ASet[h]["Evaluator"], role |-> "Evaluator", op |-> "issue_report"]
        s   == persist_principal_action(Write(reg, ReportId, "final"), cap, h, ReportId, "Evaluator")
        b   == [seal |-> seal, profile |-> Profile(reg), host |-> h]
    IN  /\ ~Stored(reg, IssuedId) /\ complete_authority_material(reg) /\ grader[h] # None
        /\ reg.docs[CaptureId].pid # grader[h]
        /\ Commit(write_content_witness(Write(s, IssuedId, b), "Evaluator", IssuedId), cap, {ReportId})
        /\ Elsewhere

\* verify_issued_authority: the seal, the selection and every signature as they are now.
verify_issued_authority(s) ==
    /\ require_content_witness(s, "Evaluator", IssuedId)
    /\ LET b == s.docs[IssuedId]
       IN  /\ b.seal = seal /\ attested_read(s, PointerId) /\ Profile(s) = b.profile
           /\ attested_read(s, <<"profile", b.profile>>) /\ attested_read(s, <<"host", b.host>>)
           /\ verify_candidate_principals(s, b.host)
           /\ require_principal_action(s, b.host, ReportId, "Evaluator")
           /\ AProfiles[b.profile].host = b.host /\ cost_stands(s) /\ capture_stands(s)

\* verify_release_principal: the approver and the proposer, of one set.
verify_release_principal(s) ==
    /\ attested_read(s, PointerId) /\ attested_read(s, <<"profile", Profile(s)>>)
    /\ attested_read(s, <<"host", Host(s)>>)
    /\ require_principal_action(s, Host(s), ReleaseId, "Admin")
    /\ require_principal_action(s, Host(s), CandidateId, "Worker")

\* bind_release_principal: every new body of a release row is signed again.
bind_release_principal(s, cap) ==
    /\ resolve_current_bundle(s) /\ require_principal_action(s, Host(s), CandidateId, "Worker")
    /\ may_sign(s, cap, Host(s), "Admin")

Statuses == <<"approve", "canary", "activate">>

\* approve_verified, advance_canary and activate, as far as the row's authority goes.
write_release(n, cap) ==
    LET s == Write(reg, ReleaseId, Statuses[n])
        w == write_content_witness(s, "Admin", ReleaseId)
    IN  /\ IF n = 1 THEN ~Stored(reg, ReleaseId) /\ verify_issued_authority(reg)
           ELSE Stored(reg, ReleaseId) /\ reg.docs[ReleaseId] = Statuses[n - 1] /\ verify_release_principal(reg)
        /\ bind_release_principal(reg, cap)
        /\ Commit(persist_principal_action(w, cap, Host(reg), ReleaseId, "Admin"), cap, {ReleaseId})
        /\ Elsewhere

-----------------------------------------------------------------------------
(* The surroundings.                                                       *)

\* Late usage changes the sealed root.
late_usage ==
    /\ seal < ABound /\ seal' = seal + 1
    /\ UNCHANGED <<reg, grader, hostpid, transport, metering, did>>

\* A process ends and its successor may have any free pid.
restart_grader(h, pid) ==
    /\ pid # hostpid /\ pid # grader[h] /\ \A g \in AHosts : grader[g] = pid => g = h
    /\ grader' = [grader EXCEPT ![h] = pid]
    /\ UNCHANGED <<reg, hostpid, transport, metering, seal, did>>

restart_host(pid) ==
    /\ pid # hostpid /\ \A g \in AHosts : grader[g] # pid
    /\ hostpid' = pid
    /\ UNCHANGED <<reg, grader, transport, metering, seal, did>>

authority_init ==
    /\ reg = [docs |-> <<>>, wit |-> <<>>, acts |-> <<>>]
    /\ grader = [h \in AHosts |-> None] /\ hostpid = 1
    /\ transport = None /\ metering = None /\ seal = 0 /\ did = {}

OperatorCommand(op, cap) ==
    \/ /\ op = "bootstrap" /\ cap # None
       /\ \E h \in AHosts, v \in AVersions : bootstrap(h, v, cap)
    \/ /\ op = "register_provider"
       /\ \E p \in DOMAIN AProviders, v \in AVersions : register_provider(p, v, cap)
    \/ op = "register_meter" /\ \E m \in DOMAIN AMeters, v \in AVersions : register_meter(m, v, cap)
    \/ op = "freeze_profile" /\ \E f \in DOMAIN AProfiles, v \in AVersions : freeze_profile(f, v, cap)
    \/ op = "empty_root" /\ \E f \in DOMAIN AProfiles : authorize_empty_root(f, cap)
    \/ op = "stage" /\ stage(cap)
    \/ op = "register_control" /\ cap # None /\ \E h \in AHosts : register_control(h, cap)
    \/ \E n \in DOMAIN Statuses : op = Statuses[n] /\ cap # None /\ write_release(n, cap)

authority_next ==
    \/ \E h \in AHosts, v \in AVersions : register_host(h, v)
    \/ \E op \in Operations : \E cap \in serve_connection(op) \cup {None} : OperatorCommand(op, cap)
    \/ \E p \in DOMAIN AProviders : connect(p)
    \/ execute_formal \/ capture_independent_grade
    \/ begin_measurement \/ measure \/ record_cost \/ lose_measurement \/ issue_report
    \/ late_usage
    \/ \E pid \in APids : restart_host(pid) \/ \E h \in AHosts : restart_grader(h, pid)

AuthoritySpec == authority_init /\ [][authority_next]_avars

-----------------------------------------------------------------------------
(* Properties.                                                             *)

AuthorityTypeOK ==
    /\ DOMAIN reg = {"docs", "wit", "acts"}
    /\ \A x \in DOMAIN reg.wit : x[1] \in {"Admin", "Evaluator", "Host"} /\ x[2] \in DOMAIN reg.docs
    /\ \A x \in DOMAIN reg.acts : x[1] \in DOMAIN reg.docs /\ reg.acts[x].uid \in AUids
    /\ grader \in [AHosts -> APids \cup {None}] /\ hostpid \in APids /\ seal \in 0..ABound

\* Whatever an administrator's registration says once its host has a
\* principal set, that set's administrator said on an authenticated
\* connection with exactly this body: neither a caller with the Admin role,
\* nor a registration made before the set, nor the administrator of another
\* host makes it readable.
ReadIsAuthorised ==
    \A id \in DOMAIN reg.docs :
      (Governed(id) /\ attested_read(reg, id)) =>
        LET h == registered_subject_host(reg, id)
        IN  enforced(reg, h) =>
              \E op \in Admins : <<h, ASet[h]["Admin"], op, id, reg.docs[id]>> \in did

\* A release that verifies was staged by the worker and written, as it now
\* is, by the administrator, each on a connection of the host selected now:
\* a selection that moves to another host of the same users takes the
\* authority of the releases of the former one away.
ReleaseIsSigned ==
    (Stored(reg, ReleaseId) /\ verify_release_principal(reg)) =>
      LET h == Host(reg)
      IN  /\ <<h, ASet[h]["Admin"], reg.docs[ReleaseId], ReleaseId, reg.docs[ReleaseId]>> \in did
          /\ <<h, ASet[h]["Worker"], "stage", CandidateId, reg.docs[CandidateId]>> \in did

\* A released row never outlives the signature of its body: each status was
\* written together with its action.
RowMatchesSignature ==
    Stored(reg, ReleaseId) => reg.acts[<<ReleaseId, "Admin">>].body = reg.docs[ReleaseId]

\* The cost of an episode was measured on the root it is recorded for, and a
\* report that verifies is about the root as it is sealed now.
CostIsOfTheRoot ==
    /\ Stored(reg, CostId) => reg.docs[CostId].measured = reg.docs[CostId].seal
    /\ Stored(reg, CostId) /\ Stored(reg, IssuedId) /\ verify_issued_authority(reg)
         => reg.docs[CostId].measured = seal

\* A registered body never changes, whichever operator submits it again.
RegisteredForGood ==
    [][\A id \in DOMAIN reg.docs :
         id \notin {PointerId, ReleaseId} => id \in DOMAIN reg'.docs /\ reg'.docs[id] = reg.docs[id]]_avars

\* What holds of the authority in every state: what is released or read was signed
\* for and authorised, a row is the one that was signed, and a cost is of its root.
AuthoritySafe ==
    /\ AuthorityTypeOK
    /\ ReleaseIsSigned
    /\ ReadIsAuthorised
    /\ RowMatchesSignature
    /\ CostIsOfTheRoot
=============================================================================
