---------------------------- MODULE DocumentStore ----------------------------
(***************************************************************************)
(* The document store (evo-storage lib.rs): one SQLite connection, so that *)
(* a session is the only one while it is open, and a session is one        *)
(* transaction, dropped unless it commits.  Rows, answered requests, the   *)
(* audit chain, dependency edges, revocations and replay worlds live in    *)
(* the database; blobs are files beside it, under a lock of their own that *)
(* a publishing session takes before its transaction.                      *)
(*                                                                         *)
(* Namespaces share the database: rows of one are not read by another, but *)
(* capacities are counted over all of them and the audit numbers its rows  *)
(* for all of them.  The dependency graph is of one namespace.             *)
(***************************************************************************)
EXTENDS Common

CONSTANTS
    DSpaces,            \* namespaces
    DArtifacts,         \* identities of artifacts
    DBodies,            \* bodies of one identity
    DKeys,              \* request keys
    DArgs,              \* arguments of a request
    DRunIds,            \* identities of runs
    DWorldIds,          \* identities of replay worlds
    DNodes,             \* sources and derivations of the dependency graph
    DBlobs,             \* contents of blobs
    MaxRuns,            \* MVP_MAX_RUNS
    MaxTraces,          \* MVP_MAX_TRACE_EXPORTS
    MaxWorlds,          \* MVP_MAX_REPLAY_WORLDS
    MaxClosure,         \* the bound of an upstream closure
    DAuditBound,        \* bound: audit rows
    DWork               \* bound: operations of one session

ASSUME DocumentShape ==
    {MaxRuns, MaxTraces, MaxWorlds, MaxClosure, DAuditBound, DWork} \subseteq Nat \ {0}

DRoles == {"Agent", "Admin"}

\* A body of an object: live trace exports and redacted ones are a class.
ArtifactRow == [class : {"plain", "trace", "redacted trace"}, body : DBodies]

\* An answered request, and an answer that was handed out.
CachedAnswer == [role : DRoles, args : DArgs, answer : DArgs, redacted : BOOLEAN]
ToldAnswer == [space : DSpaces, role : DRoles, key : DKeys, args : DArgs, answer : DArgs]

ASSUME DocumentAbsent == None \notin Nat /\ None \notin CachedAnswer /\ None \notin ToldAnswer

VARIABLES
    db,             \* the committed database
    tx,             \* the open session, or None: its caller and its copy
    files,          \* blobs on disk, in each namespace
    told,           \* answers handed to callers of management operations
    executed        \* how often the work of each request was committed

dvars == <<db, tx, files, told, executed>>

Absent == [class |-> "absent", body |-> None]

EmptyGraph ==
    [edges |-> {}, derived |-> [d \in DNodes |-> None], tombstones |-> [d \in DNodes |-> None], mark |-> 0]

EmptyDatabase ==
    [artifacts |-> [n \in DSpaces |-> [a \in DArtifacts |-> Absent]],
     runs |-> [n \in DSpaces |-> {}],
     answers |-> [n \in DSpaces |-> [k \in DKeys |-> None]],
     audit |-> <<>>,
     graph |-> [n \in DSpaces |-> EmptyGraph],
     worlds |-> [n \in DSpaces |-> [w \in DWorldIds |-> None]],
     envelopes |-> {}]

document_init ==
    /\ db = EmptyDatabase /\ tx = None /\ files = [n \in DSpaces |-> {}]
    /\ told = {} /\ executed = [n \in DSpaces |-> [k \in DKeys |-> 0]]

-----------------------------------------------------------------------------
(* Sessions.                                                               *)

\* Store::session, or registered_blob_write_session when it takes the blob lock.
session(n, role, blobs) ==
    /\ tx = None
    /\ tx' = [space |-> n, role |-> role, blobs |-> blobs, ops |-> 0, served |-> None, new |-> {}, db |-> db]
    /\ UNCHANGED <<db, files, told, executed>>

\* Session::commit.  The answer of a request leaves after it.
commit ==
    /\ tx # None
    /\ db' = tx.db /\ tx' = None
    /\ executed' = IF tx.served = None THEN executed ELSE [executed EXCEPT ![tx.space][tx.served.key] = @ + 1]
    /\ told' = IF tx.served = None THEN told ELSE told \cup {tx.served}
    /\ UNCHANGED files

\* A session dropped by an error, or by the process dying.
drop_session == tx # None /\ tx' = None /\ UNCHANGED <<db, files, told, executed>>

\* One statement of the open session.
Statement(work) ==
    /\ tx # None /\ tx.ops < DWork
    /\ tx' = [tx EXCEPT !.ops = @ + 1, !.db = work]
    /\ UNCHANGED <<db, files, told, executed>>

-----------------------------------------------------------------------------
(* Objects.                                                                *)

\* is_trace_export_record: live or redacted.
is_trace_export_record(row) == row.class \in {"trace", "redacted trace"}

\* Redacted history keeps its slot.
count_trace_exports_all_namespaces(d) ==
    Cardinality({p \in DSpaces \X DArtifacts : is_trace_export_record(d.artifacts[p[1]][p[2]])})

count_runs_all_namespaces(d) == Cardinality({p \in DSpaces \X DRunIds : p[2] \in d.runs[p[1]]})

\* put, of a body in the trace export class: what may be written over what.
admits_trace(d, old, new) ==
    \/ /\ is_trace_export_record(old)
       /\ old.class = "redacted trace" => new = old
       /\ (old.class = "trace" /\ new.class = "redacted trace") => new.body = old.body
    \/ old.class = "absent" /\ new.class = "trace" /\ count_trace_exports_all_namespaces(d) < MaxTraces

\* The condition of the upsert: a row of the class is not overwritten by another.
upsert_allowed(old, new) == is_trace_export_record(old) => is_trace_export_record(new)

\* put, kind artifact.  A redacted body names the digest of what it replaces.
put_artifact(a, new) ==
    LET old == tx.db.artifacts[tx.space][a] IN
    /\ tx # None
    /\ is_trace_export_record(new) => tx.role = "Admin" /\ admits_trace(tx.db, old, new)
    /\ upsert_allowed(old, new)
    /\ Statement([tx.db EXCEPT !.artifacts[tx.space][a] = new])

\* delete, kind artifact: trace export history is retained.
delete_artifact(a) ==
    /\ tx # None /\ ~is_trace_export_record(tx.db.artifacts[tx.space][a])
    /\ Statement([tx.db EXCEPT !.artifacts[tx.space][a] = Absent])

\* put, kind run: a new identity anywhere counts against the instance.
admits_run(d, n, r) == r \in d.runs[n] \/ count_runs_all_namespaces(d) < MaxRuns

put_run(r) ==
    /\ tx # None /\ admits_run(tx.db, tx.space, r)
    /\ Statement([tx.db EXCEPT !.runs[tx.space] = @ \cup {r}])

delete_run(r) == tx # None /\ Statement([tx.db EXCEPT !.runs[tx.space] = @ \ {r}])

-----------------------------------------------------------------------------
(* Requests.                                                               *)

\* redact_cache: the row stays, without its answer.
redact_answers(answers) == [k \in DKeys |-> IF answers[k] = None THEN None ELSE [answers[k] EXCEPT !.redacted = TRUE]]

redact_cache == tx # None /\ tx.role = "Admin" /\ Statement([tx.db EXCEPT !.answers[tx.space] = redact_answers(tx.db.answers[tx.space])])

\* cached finds no row; the operation runs and cache stores what it answers.
serve(k, args) ==
    /\ tx # None /\ tx.served = None /\ tx.db.answers[tx.space][k] = None
    /\ tx.ops < DWork
    /\ tx' = [tx EXCEPT !.ops = @ + 1,
                        !.served = [space |-> tx.space, role |-> tx.role, key |-> k, args |-> args, answer |-> args],
                        !.db.answers[tx.space][k] = [role |-> tx.role, args |-> args, answer |-> args, redacted |-> FALSE]]
    /\ UNCHANGED <<db, files, told, executed>>

\* cached_management_job: the payload of the first request, not redacted, asked
\* for by the role that owns the job.
replays(row, role, args) == row.args = args /\ ~row.redacted /\ row.role = role

replay(k, args) ==
    /\ tx # None /\ tx.db.answers[tx.space][k] # None /\ tx.served = None
    /\ replays(tx.db.answers[tx.space][k], tx.role, args)
    /\ told' = told \cup {[space |-> tx.space, role |-> tx.role, key |-> k, args |-> args,
                           answer |-> tx.db.answers[tx.space][k].answer]}
    /\ UNCHANGED <<db, tx, files, executed>>

-----------------------------------------------------------------------------
(* The audit chain.  A digest stands for everything hashed into it.        *)

\* The rows of a namespace before a position, and the newest of such rows.
Before(audit, n, i) == {j \in 1..(i-1) : audit[j].space = n}
Newest(rows) == CHOOSE j \in rows : \A k \in rows : k <= j

\* The digest of the last row of this namespace before a position.
last_digest(audit, n, i) ==
    LET own == Before(audit, n, i) IN IF own = {} THEN None ELSE audit[Newest(own)].digest

\* append_audit.  The rows of all namespaces are numbered together.
append_audit(audit, n, role, op, entity) ==
    LET prev == last_digest(audit, n, Len(audit) + 1)
        payload == [role |-> role, op |-> op, entity |-> entity]
    IN  Append(audit, [space |-> n, payload |-> payload, previous |-> prev, digest |-> <<prev, payload>>])

write_audit(op) ==
    /\ tx # None /\ Len(tx.db.audit) < DAuditBound
    /\ Statement([tx.db EXCEPT !.audit = append_audit(@, tx.space, tx.role, op, None)])

\* audit_service_success: the event, and a fact that names the row of the event.
audit_service_success(r) ==
    /\ tx # None /\ tx.role = "Agent" /\ Len(tx.db.audit) + 1 < DAuditBound
    /\ LET first == append_audit(tx.db.audit, tx.space, tx.role, "service.prepare", r)
           fact == [run |-> r, sequence |-> Len(first), digest |-> first[Len(first)].digest]
       IN  Statement([tx.db EXCEPT !.audit = append_audit(first, tx.space, tx.role, "service.success_fact.v1", fact)])

\* verify_audit, and the first half of verified_audit_selection.
verify_audit(audit, n) ==
    \A i \in 1..Len(audit) : audit[i].space = n =>
        /\ audit[i].previous = last_digest(audit, n, i)
        /\ audit[i].digest = <<audit[i].previous, audit[i].payload>>

\* verified_audit_selection, ServiceFacts: a fact follows the row it names.
FactNamesPrior(fact, row, prior, seq) ==
    /\ fact.sequence = seq /\ fact.digest = prior.digest
    /\ prior.payload.role = row.payload.role
    /\ prior.payload.op = "service.prepare" /\ prior.payload.entity = fact.run

service_success_facts(audit, n) ==
    \A i \in 1..Len(audit) :
        (audit[i].space = n /\ audit[i].payload.op = "service.success_fact.v1") =>
            LET own == Before(audit, n, i) IN
            /\ own # {}
            /\ FactNamesPrior(audit[i].payload.entity, audit[i], audit[Newest(own)], Newest(own))

-----------------------------------------------------------------------------
(* Dependencies and revocation.                                            *)

\* outgoing_edges_bounded and dependency_edges.
dependency_edges(edges, S) == {e[2] : e \in {f \in edges : f[1] \in S}}

\* CLOSURE_FROM_ROOTS: the least set with the roots that every edge stays in.
Closure(edges, roots) ==
    {x \in DNodes : \A S \in SUBSET DNodes :
                       (roots \subseteq S /\ dependency_edges(edges, S) \subseteq S) => x \in S}

\* Mistake: a closure beyond the bound is cut to it.
upstream_prefix(edges, roots) ==
    LET all == Closure(edges, roots) IN
    IF Cardinality(all) <= MaxClosure THEN all
    ELSE CHOOSE part \in SUBSET all : roots \subseteq part /\ Cardinality(part) = MaxClosure

\* upstream_closure: the bounded closure, or None when it is larger.
upstream_closure(edges, roots) ==
    LET all == Closure(edges, roots) IN IF Cardinality(all) <= MaxClosure THEN all ELSE None

\* A derivation: its sources judged, its row and its edges (put_edge) written.
derive(d, sources) ==
    LET g == tx.db.graph[tx.space]
        closure == upstream_closure(g.edges, sources)
    IN
    /\ tx # None /\ d \notin sources /\ g.derived[d] = None /\ ~\E e \in g.edges : e[2] = d
    /\ closure # None /\ \A s \in closure : g.tombstones[s] = None
    /\ Statement([tx.db EXCEPT !.graph[tx.space] =
                      [g EXCEPT !.derived[d] = g.mark, !.edges = g.edges \cup {<<d, s>> : s \in sources}]])

\* A revocation: its tombstone and the next watermark (bump_watermark).
revoke_node(d) ==
    LET g == tx.db.graph[tx.space] IN
    /\ tx # None /\ tx.role = "Admin" /\ g.tombstones[d] = None
    /\ Statement([tx.db EXCEPT !.graph[tx.space] = [g EXCEPT !.mark = g.mark + 1, !.tombstones[d] = g.mark + 1]])

-----------------------------------------------------------------------------
(* Replay worlds.                                                          *)

replay_world_count(d) == Cardinality({p \in DSpaces \X DWorldIds : d.worlds[p[1]][p[2]] # None})

\* put_world: a sealed world is what it is.
keeps_manifest(old, new) == old # None /\ old.sealed => new = old

put_world(w, sealed, body) ==
    LET old == tx.db.worlds[tx.space][w]
        new == [sealed |-> sealed, body |-> body]
    IN
    /\ tx # None /\ keeps_manifest(old, new)
    /\ old = None => replay_world_count(tx.db) < MaxWorlds
    /\ Statement([tx.db EXCEPT !.worlds[tx.space][w] = new])

-----------------------------------------------------------------------------
(* Blobs.                                                                  *)

BlobsFree == tx # None => ~tx.blobs

\* put_blob_bounded: staged, synced and linked under its digest, or verified there.
put_blob(n, b) == BlobsFree /\ files' = [files EXCEPT ![n] = @ \cup {b}] /\ UNCHANGED <<db, tx, told, executed>>

\* Mistake: a blob is removed without waiting for the lock.
delete_at_once == TRUE

may_delete == BlobsFree

\* delete_blob waits for the blob lock.
delete_blob(n, b) ==
    /\ b \in files[n] /\ may_delete
    /\ files' = [files EXCEPT ![n] = @ \ {b}] /\ UNCHANGED <<db, tx, told, executed>>

\* verify_dependency_blob_bytes re-reads every blob the envelope needs, under
\* the lock of the session, before the envelope is written.
register_envelope(bs) ==
    /\ tx # None /\ tx.blobs /\ bs \subseteq files[tx.space] /\ tx.ops < DWork
    /\ tx' = [tx EXCEPT !.ops = @ + 1, !.new = @ \cup {bs}, !.db.envelopes = @ \cup {<<tx.space, bs>>}]
    /\ UNCHANGED <<db, files, told, executed>>

\* Session::publish_registered_blob, of a producer this session registered: the
\* bytes appear before the commit, and stay if the session is dropped.
publish_in_session(b) ==
    /\ tx # None /\ tx.blobs /\ tx.new # {}
    /\ files' = [files EXCEPT ![tx.space] = @ \cup {b}] /\ UNCHANGED <<db, tx, told, executed>>

-----------------------------------------------------------------------------

\* Operations that write one audit row.
AuditedOps == {"put", "delete"}

document_next ==
    \/ \E n \in DSpaces : \E role \in DRoles : \E blobs \in BOOLEAN : session(n, role, blobs)
    \/ commit \/ drop_session
    \/ \E a \in DArtifacts : delete_artifact(a) \/ \E row \in ArtifactRow : put_artifact(a, row)
    \/ \E r \in DRunIds : put_run(r) \/ delete_run(r) \/ audit_service_success(r)
    \/ \E op \in AuditedOps : write_audit(op)
    \/ redact_cache \/ \E k \in DKeys : \E args \in DArgs : serve(k, args) \/ replay(k, args)
    \/ \E d \in DNodes : revoke_node(d) \/ \E sources \in SUBSET DNodes : derive(d, sources)
    \/ \E w \in DWorldIds : \E sealed \in BOOLEAN : \E body \in DBodies : put_world(w, sealed, body)
    \/ \E b \in DBlobs : publish_in_session(b) \/ \E n \in DSpaces : put_blob(n, b) \/ delete_blob(n, b)
    \/ \E bs \in SUBSET DBlobs : register_envelope(bs)

document_spec == document_init /\ [][document_next]_dvars

\* What a row, an answer and a session may be; the watermark counts revocations.
DocumentTypeOK ==
    /\ \A n \in DSpaces : \A a \in DArtifacts : db.artifacts[n][a].class \in {"absent", "plain", "trace", "redacted trace"}
    /\ \A n \in DSpaces : db.runs[n] \subseteq DRunIds /\ files[n] \subseteq DBlobs
    /\ \A n \in DSpaces : db.graph[n].mark = Cardinality({d \in DNodes : db.graph[n].tombstones[d] # None})
    /\ (tx # None => tx.space \in DSpaces /\ tx.role \in DRoles /\ tx.ops <= DWork)

\* Capacities hold for the whole deployment: no sequence of sessions of any
\* namespaces brings more runs, trace exports or worlds than the bounds, and
\* redaction frees no slot of a trace export.
CapacityKept ==
    /\ count_runs_all_namespaces(db) <= MaxRuns
    /\ Cardinality({p \in DSpaces \X DArtifacts : is_trace_export_record(db.artifacts[p[1]][p[2]])}) <= MaxTraces
    /\ replay_world_count(db) <= MaxWorlds

\* Trace export history is kept: a committed record is not deleted and does not
\* change class, and what was redacted stays as the redaction of that body.
HistoryKept ==
    [][\A n \in DSpaces : \A a \in DArtifacts :
          LET old == db.artifacts[n][a]  new == db'.artifacts[n][a] IN
          is_trace_export_record(old) =>
             /\ is_trace_export_record(new)
             /\ (old.class = "redacted trace" => new = old)]_dvars

\* The work of a request is committed once, however often it is repeated, from
\* whichever role, and also after its answer was redacted.
ExecutedOncePerKey == \A n \in DSpaces : \A k \in DKeys : executed[n][k] <= 1

\* All that was ever told under one key of one namespace is one answer, of one
\* payload, to the role whose request ran.
AnswerIsTheOwners ==
    \A x \in told : \A y \in told : (x.space = y.space /\ x.key = y.key) => x = y

\* The chain of every namespace verifies after every commit, with the rows of
\* other namespaces between its own, and every service fact names the row right
\* before it.
ChainVerifies ==
    \A n \in DSpaces : verify_audit(db.audit, n) /\ service_success_facts(db.audit, n)

\* Nothing was derived from a source that had been revoked, at any distance.
DerivedFromLive ==
    \A n \in DSpaces : LET g == db.graph[n] IN
        \A d \in DNodes : g.derived[d] # None =>
            \A s \in Closure(g.edges, {d}) \ {d} : g.tombstones[s] = None \/ g.tombstones[s] > g.derived[d]

\* A sealed world never changes and is never reopened.
SealedForGood ==
    [][\A n \in DSpaces : \A w \in DWorldIds :
          (db.worlds[n][w] # None /\ db.worlds[n][w].sealed) => db'.worlds[n][w] = db.worlds[n][w]]_dvars

\* An envelope is committed with the bytes of everything it depends on in place.
BytesStandAtCommit ==
    [][\A e \in db'.envelopes \ db.envelopes : e[2] \subseteq files'[e[1]]]_dvars

\* What holds of the store in every state: capacities are kept, a key is executed
\* once and answers its owner, the audit chain verifies, and what stands is derived
\* from what stands.
DocumentSafe ==
    /\ DocumentTypeOK
    /\ CapacityKept
    /\ ExecutedOncePerKey
    /\ AnswerIsTheOwners
    /\ ChainVerifies
    /\ DerivedFromLive
=============================================================================
